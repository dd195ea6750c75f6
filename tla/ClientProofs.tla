---------------------------- MODULE ClientProofs -----------------------------
(***************************************************************************)
(* Whoever talks to the API keeps its promise: the account page, the run   *)
(* page, the clients outside the browser (the gate of a repository, the    *)
(* command line, the connector) and the manifest composer.  One part for   *)
(* each, of its own state: the inductive invariant, a lemma for every      *)
(* action, and the theorem for any number of authorities, looks, reports,  *)
(* clients, runs, drafts and templates.                                    *)
(***************************************************************************)
EXTENDS AccountPage, RunCockpit, Clients, ManifestComposer, FiniteSetTheorems, SequenceTheorems,
        WellFoundedInduction, TLAPS

(***************************************************************************)
(* The account page keeps its promise, for any number of authorities,      *)
(* errands and looks at the account.  The property speaks of steps: when   *)
(* a revocation is told to be done, and what a key once seen revoked may   *)
(* be shown as later.  Both are read off the invariant PageInv: everything *)
(* the page holds, and everything under way that may still replace it, was *)
(* read of the ledger by the bearer of the present authority.              *)
(*   Served       what the API holds of a call that was answered           *)
(*   Read         what a look has seen, against what the page shows        *)
(*   AccountKept  what is shown is the present bearer's, and true          *)
(*   ProofKept    what a look at the ledger has proved of revocations      *)
(*   RevealKept   a key is shown in clear only on the page that asked      *)
(***************************************************************************)

Accesses ==
  [status : {"arriving", "in", "leaving", "stuck", "out"}, marker : Markers, bearer : Markers]

LookRecords ==
  [stage : {"unused", "asked", "read", "done", "failed"}, marker : Markers, bearer : Markers,
   seen : AccountRecord]

ErrandRecords ==
  [kind : {"issue", "revoke"}, stage : AccountErrandStages, marker : Markers, bearer : Markers,
   page : Nat, of : Credentials, look : Looks \cup {0}]

SettingsRecords ==
  [number : Nat, open : BOOLEAN, issuing : Errands \cup {0}, revoking : Errands \cup {0},
   reveal : Credentials]

PageTypes ==
  /\ access \in Accesses
  /\ account \in AccountRecord \cup {None}
  /\ proof \in [marker : Markers, seen : SUBSET Credentials] \cup {None}
  /\ look \in [Looks -> LookRecords] /\ looking \in Looks \cup {0}
  /\ errand \in [Errands -> ErrandRecords]
  /\ settings \in SettingsRecords
  /\ ledger \in [Credentials -> [by : Markers \cup {0}, revoked : BOOLEAN]]

\* An authority has one bearer, whichever of its calls one asks.
OfAuthority(call) ==
  call.stage # "unused" =>
    /\ call.marker <= access.marker
    /\ call.marker = access.marker => call.bearer = access.bearer

\* What is served of errand e is in the ledger, and nothing before.
Served(e, call) ==
  /\ call.stage \in {"unused", "asked"} => ledger[e].by = 0
  /\ call.kind = "issue" /\ call.stage # "unused" => call.of = e
  /\ call.kind = "issue" /\ call.stage \in {"answered", "refreshing", "done"} => ledger[e].by = call.bearer

Own(b) == {c \in Credentials : ledger[c].by = b}
OwnRevoked(b) == {c \in Own(b) : ledger[c].revoked}

\* What a look has read is of its bearer; the one look under way for the present
\* authority was read after the account that is shown.
Read(l, call) ==
  /\ call.stage \in {"asked", "read"} /\ call.marker = access.marker => looking = l
  /\ call.stage = "read" =>
       /\ call.seen.issued \subseteq Own(call.bearer)
       /\ call.seen.revoked \subseteq OwnRevoked(call.bearer)
       /\ call.marker = access.marker /\ account # None => account.revoked \subseteq call.seen.revoked

AccountKept ==
  account # None =>
    /\ access.status = "in"
    /\ account.issued \subseteq Own(access.bearer)
    /\ account.revoked \subseteq OwnRevoked(access.bearer)

\* Evidence of the present authority is what is shown.
ProofKept ==
  proof # None =>
    /\ proof.marker <= access.marker
    /\ proof.marker = access.marker =>
         access.status = "in" /\ account # None /\ proof.seen \subseteq account.revoked

RevealKept ==
  settings.reveal # 0 =>
    /\ access.status = "in" /\ settings.open
    /\ settings.reveal \in Errands
    /\ errand[settings.reveal].kind = "issue" /\ errand[settings.reveal].stage = "done"
    /\ ledger[settings.reveal].by = access.bearer

PageInv ==
  /\ PageTypes
  /\ access.bearer <= access.marker
  /\ looking # 0 => look[looking].stage \in {"asked", "read"}
  /\ \A e \in Errands : OfAuthority(errand[e]) /\ Served(e, errand[e])
  /\ \A l \in Looks : OfAuthority(look[l]) /\ Read(l, look[l])
  /\ AccountKept /\ ProofKept /\ RevealKept

LEMMA AccountNumbers ==
  /\ Markers \subseteq Nat \ {0} /\ Looks \subseteq Nat \ {0} /\ Errands \subseteq Nat \ {0}
  /\ Credentials = Errands \cup {0} /\ 1 \in Markers
  BY AccountPageAssumption DEF Markers, Looks, Errands, Credentials

LEMMA Least ==
  ASSUME NEW T, T \subseteq Nat, T # {}
  PROVE  \E x \in T : \A y \in T : x <= y
<1>1. PICK R : R = {p \in Nat \X Nat : p[1] < p[2]}
  OBVIOUS
<1>2. IsWellFoundedOn(R, Nat)
  BY <1>1, NatLessThanWellFounded DEF OpToRel
<1>3. PICK x \in T : \A y \in T : <<y, x>> \notin R
  BY <1>2, WFMin
<1>4. ASSUME NEW y \in T PROVE x <= y
  <2>1. ~(y < x)
    BY <1>1, <1>3
  <2> QED
    BY <2>1
<1> QED
  BY <1>4

\* The next look is one that was not used.
LEMMA NextLookUnused ==
  ASSUME \E l \in Looks : look[l].stage = "unused"
  PROVE  NextLook \in Looks /\ look[NextLook].stage = "unused"
<1>1. PICK T : T = {l \in Looks : look[l].stage = "unused"}
  OBVIOUS
<1>2. PICK x \in T : \A y \in T : x <= y
  BY <1>1, AccountNumbers, Least
<1>3. \A k \in 1 .. x - 1 : look[k].stage # "unused"
  <2>1. ASSUME NEW k \in 1 .. x - 1 PROVE k \in Looks /\ ~(x <= k)
    BY <1>1, <1>2, AccountPageAssumption DEF Looks
  <2> QED
    BY <2>1, <1>1, <1>2
<1>4. x \in Looks /\ look[x].stage = "unused"
  BY <1>1
<1> QED
  BY <1>3, <1>4 DEF NextLook

LEMMA PageInitInv ==
  ASSUME AccountPageInit
  PROVE  PageInv
<1>1. PageTypes
  <2>1. Nowhere \in AccountRecord
    BY DEF Nowhere, AccountRecord
  <2> QED
    BY <2>1, AccountNumbers DEF AccountPageInit, PageTypes, Accesses, LookRecords, ErrandRecords,
       SettingsRecords, AccountErrandStages
<1>2. \A e \in Errands : OfAuthority(errand[e]) /\ Served(e, errand[e])
  BY AccountNumbers DEF AccountPageInit, OfAuthority, Served
<1>3. \A l \in Looks : OfAuthority(look[l]) /\ Read(l, look[l])
  BY DEF AccountPageInit, OfAuthority, Read
<1>4. AccountKept /\ ProofKept /\ RevealKept
  BY DEF AccountPageInit, AccountKept, ProofKept, RevealKept
<1> QED
  BY <1>1, <1>2, <1>3, <1>4 DEF PageInv, AccountPageInit

\* A new authority: its marker is one more, and what was called before is of the old.
LEMMA NewAuthority ==
  ASSUME PageInv, NEW m \in Markers, NEW b \in Markers, NEW s,
         m = access.marker + 1, b <= m,
         access' = [status |-> s, marker |-> m, bearer |-> b],
         s \in {"arriving", "in", "leaving", "stuck", "out"},
         account' = None, UNCHANGED <<proof, look, looking, ledger>>,
         settings' \in SettingsRecords,
         settings'.reveal = IF s = "in" THEN settings.reveal ELSE 0,
         settings'.open = settings.open,
         s = "in" => b = access.bearer /\ access.status = "in",
         errand' \in [Errands -> ErrandRecords],
         \A e \in Errands : \/ errand'[e] = errand[e]
                            \/ /\ errand[e].stage \notin {"unused", "done"} /\ errand'[e].stage = "failed"
                               /\ errand'[e].marker = errand[e].marker /\ errand'[e].of = errand[e].of
                               /\ errand'[e].kind = errand[e].kind
  PROVE  PageInv'
<1> USE AccountNumbers DEF PageInv
<1>1. PageTypes'
  BY DEF PageTypes, Accesses
<1>2. /\ access'.marker = m /\ access'.bearer = b /\ access'.status = s
      /\ access.marker \in Nat /\ access.marker < m
  <2>1. access.marker \in Markers
    BY DEF PageTypes, Accesses
  <2>2. access.marker \in Nat
    BY <2>1
  <2>3. access.marker < access.marker + 1
    BY <2>2
  <2>4. access'.marker = m /\ access'.bearer = b /\ access'.status = s
    OBVIOUS
  <2> QED
    BY <2>2, <2>3, <2>4
<1>3. ASSUME NEW e \in Errands PROVE (OfAuthority(errand[e]) /\ Served(e, errand[e]))'
  <2>1. errand[e].marker \in Nat /\ OfAuthority(errand[e]) /\ Served(e, errand[e])
    BY DEF PageTypes, ErrandRecords
  <2>2. errand'[e].stage # "unused" => errand'[e].marker < m
    BY <1>2, <2>1 DEF OfAuthority
  <2>3. OfAuthority(errand[e])'
    <3>1. errand'[e].stage # "unused" => errand'[e].marker \in Nat
      BY <2>1
    <3> QED
      BY <1>2, <2>2, <3>1 DEF OfAuthority
  <2>4. Served(e, errand[e])'
    <3>1. CASE errand'[e] = errand[e]
      BY <2>1, <3>1 DEF Served
    <3>2. CASE errand'[e] # errand[e]
      BY <2>1, <3>2 DEF Served
    <3> QED
      BY <3>1, <3>2
  <2> QED
    BY <2>3, <2>4
<1>4. ASSUME NEW l \in Looks PROVE (OfAuthority(look[l]) /\ Read(l, look[l]))'
  <2>1. look[l].marker \in Nat /\ OfAuthority(look[l]) /\ Read(l, look[l])
    BY DEF PageTypes, LookRecords
  <2>2. look[l].stage # "unused" => look[l].marker < m
    BY <1>2, <2>1 DEF OfAuthority
  <2> QED
    BY <1>2, <2>1, <2>2 DEF OfAuthority, Read, Own, OwnRevoked
<1>5. AccountKept'
  BY DEF AccountKept
<1>6. ProofKept'
  <2>1. ASSUME proof # None PROVE proof.marker \in Nat /\ proof.marker < m
    <3>1. proof \in [marker : Markers, seen : SUBSET Credentials]
      BY <2>1 DEF PageTypes
    <3>2. proof.marker \in Nat /\ proof.marker <= access.marker
      BY <2>1, <3>1 DEF ProofKept
    <3> QED
      BY <1>2, <3>2
  <2> QED
    BY <1>2, <2>1 DEF ProofKept
<1>7. RevealKept'
  BY <1>2 DEF RevealKept
<1> QED
  BY <1>1, <1>2, <1>3, <1>4, <1>5, <1>6, <1>7

LEMMA TransitionStep ==
  ASSUME PageInv, NEW from, NEW s, NEW b \in Markers, Transition(from, s, b),
         s \in {"arriving", "in", "leaving", "stuck", "out"}, b <= access.marker + 1,
         s = "in" => b = access.bearer /\ access.status = "in"
  PROVE  PageInv'
<1>1. PICK m \in Markers : m = access.marker + 1
  <2>1. access.marker \in Nat /\ access.marker < MaxMarker
    BY AccountNumbers DEF Transition, PageInv, PageTypes, Accesses
  <2> QED
    BY <2>1, AccountPageAssumption DEF Markers
<1>2. access' = [status |-> s, marker |-> m, bearer |-> b]
  BY <1>1 DEF Transition
<1>3. /\ settings' \in SettingsRecords /\ settings'.open = settings.open
      /\ settings'.reveal = IF s = "in" THEN settings.reveal ELSE 0
  BY AccountNumbers DEF Transition, Unrevealed, PageInv, PageTypes, SettingsRecords
<1>4. errand \in [Errands -> ErrandRecords]
  BY DEF PageInv, PageTypes
<1>5. account' = None /\ UNCHANGED <<proof, look, looking, errand, ledger>>
  BY DEF Transition
<1> QED
  BY <1>1, <1>2, <1>3, <1>4, <1>5, NewAuthority

LEMMA TransitionsStep ==
  ASSUME PageInv, SignInAgain \/ LeaveAccount \/ ForgetThisBrowser \/ CancelNothing
  PROVE  PageInv'
<1>1. access.marker \in Nat \ {0} /\ access.bearer \in Markers /\ access.bearer <= access.marker
  BY AccountNumbers DEF PageInv, PageTypes, Accesses
<1>2. access.bearer <= access.marker + 1
  <2>1. access.bearer \in Nat
    BY <1>1, AccountNumbers
  <2> QED
    BY <1>1, <2>1
<1>3. CASE SignInAgain
  <2>1. access.marker + 1 \in Markers
    BY <1>1, <1>3, AccountPageAssumption DEF SignInAgain, Transition, Markers
  <2>2. access.marker + 1 <= access.marker + 1
    BY <1>1
  <2> QED
    BY <1>3, <2>1, <2>2, TransitionStep DEF SignInAgain
<1>4. CASE LeaveAccount
  BY <1>1, <1>2, <1>4, TransitionStep DEF LeaveAccount
<1>5. CASE ForgetThisBrowser
  BY <1>1, <1>2, <1>5, TransitionStep DEF ForgetThisBrowser
<1>6. CASE CancelNothing
  <2>1. access.status = "in"
    BY <1>6 DEF CancelNothing, Transition
  <2> QED
    BY <1>1, <1>2, <1>6, <2>1, TransitionStep DEF CancelNothing
<1> QED
  BY <1>3, <1>4, <1>5, <1>6

LEMMA TransitionEndsStep ==
  ASSUME PageInv, TransitionEnds
  PROVE  PageInv'
<1>1. PICK s \in {"in", "out", "stuck"} : access' = [access EXCEPT !.status = s]
  BY DEF TransitionEnds
<1>2. /\ access' \in Accesses /\ access'.marker = access.marker /\ access'.bearer = access.bearer
      /\ access.status # "in" /\ access'.status = s
  BY <1>1 DEF TransitionEnds, PageInv, PageTypes, Accesses
<1>3. account' = None /\ UNCHANGED <<proof, look, looking, errand, lane, settings, ledger>>
  BY DEF TransitionEnds
<1>4. PageTypes'
  BY <1>2, <1>3 DEF PageInv, PageTypes
<1>5. ASSUME NEW e \in Errands PROVE (OfAuthority(errand[e]) /\ Served(e, errand[e]))'
  BY <1>2, <1>3 DEF PageInv, OfAuthority, Served
<1>6. ASSUME NEW l \in Looks PROVE (OfAuthority(look[l]) /\ Read(l, look[l]))'
  BY <1>2, <1>3 DEF PageInv, OfAuthority, Read, Own, OwnRevoked
<1>7. AccountKept'
  BY <1>3 DEF AccountKept
<1>8. ProofKept'
  BY <1>2, <1>3 DEF PageInv, ProofKept
<1>9. RevealKept'
  BY <1>2, <1>3 DEF PageInv, RevealKept
<1> QED
  BY <1>2, <1>3, <1>4, <1>5, <1>6, <1>7, <1>8, <1>9 DEF PageInv

\* The look under way for this authority, or a new one: one is under way.
LEMMA RefreshLooks ==
  ASSUME PageInv, MayLook, Refresh(JoinedLook)
  PROVE  /\ look' \in [Looks -> LookRecords] /\ looking' \in Looks
         /\ look'[looking'].stage \in {"asked", "read"}
         /\ looking' = JoinedLook
         /\ \A l \in Looks : \/ look'[l] = look[l] /\ (look[l].stage \in {"asked", "read"}
                                   /\ look[l].marker = access.marker => looking' = l)
                            \/ /\ l = looking' /\ look'[l].stage = "asked"
                               /\ look'[l].marker = access.marker /\ look'[l].bearer = access.bearer
<1> USE DEF PageInv
<1>1. CASE UnderWay
  <2>1. looking' = looking /\ look' = look /\ looking \in Looks
    BY <1>1, AccountNumbers DEF UnderWay, JoinedLook, Refresh, PageTypes
  <2>2. \A l \in Looks : look[l].stage \in {"asked", "read"} /\ look[l].marker = access.marker => looking = l
    BY DEF Read
  <2>3. look[looking].stage \in {"asked", "read"}
    BY <2>1, AccountNumbers
  <2>4. looking' = JoinedLook
    BY DEF Refresh
  <2> QED
    BY <2>1, <2>2, <2>3, <2>4 DEF PageTypes
<1>2. CASE ~UnderWay
  <2>1. NextLook \in Looks /\ look[NextLook].stage = "unused"
    BY <1>2, NextLookUnused DEF MayLook
  <2>2. NextLook # looking
    BY <2>1, AccountNumbers
  <2>3. PICK call : call = [stage |-> "asked", marker |-> access.marker, bearer |-> access.bearer,
                            seen |-> Nowhere]
    OBVIOUS
  <2>4. call \in LookRecords
    BY <2>3 DEF LookRecords, PageTypes, Accesses, Nowhere, AccountRecord
  <2>5. looking' = NextLook /\ look' = [look EXCEPT ![NextLook] = call]
    BY <1>2, <2>2, <2>3 DEF Refresh, JoinedLook
  <2>6. \A l \in Looks : ~(look[l].stage \in {"asked", "read"} /\ look[l].marker = access.marker)
    <3>1. ASSUME NEW l \in Looks, look[l].stage \in {"asked", "read"}, look[l].marker = access.marker
          PROVE  looking = l
      BY <3>1 DEF Read
    <3> QED
      BY <1>2, <3>1, AccountNumbers DEF UnderWay
  <2>7. look' \in [Looks -> LookRecords] /\ look'[NextLook] = call
    BY <2>1, <2>4, <2>5 DEF PageTypes
  <2>8. \A l \in Looks : l # NextLook => look'[l] = look[l]
    BY <2>1, <2>5 DEF PageTypes
  <2>9. looking' = JoinedLook
    BY DEF Refresh
  <2> QED
    BY <2>1, <2>3, <2>5, <2>6, <2>7, <2>8, <2>9
<1> QED
  BY <1>1, <1>2

LEMMA NeedsAccountStep ==
  ASSUME PageInv, NeedsAccount
  PROVE  PageInv'
<1>1. /\ look' \in [Looks -> LookRecords] /\ looking' \in Looks
      /\ look'[looking'].stage \in {"asked", "read"}
  BY RefreshLooks DEF NeedsAccount
<1>2. \A l \in Looks : \/ look'[l] = look[l] /\ (look[l].stage \in {"asked", "read"}
                                   /\ look[l].marker = access.marker => looking' = l)
                       \/ /\ l = looking' /\ look'[l].stage = "asked"
                          /\ look'[l].marker = access.marker /\ look'[l].bearer = access.bearer
  BY RefreshLooks DEF NeedsAccount
<1>3. UNCHANGED <<access, account, proof, errand, lane, settings, ledger>>
  BY DEF NeedsAccount
<1>4. PageTypes'
  BY <1>1, <1>3 DEF PageInv, PageTypes
<1>5. ASSUME NEW l \in Looks PROVE (OfAuthority(look[l]) /\ Read(l, look[l]))'
  <2>1. OfAuthority(look[l]) /\ Read(l, look[l]) /\ access.marker \in Nat
    BY AccountNumbers DEF PageInv, PageTypes, Accesses
  <2> QED
    BY <1>2, <1>3, <2>1 DEF OfAuthority, Read, Own, OwnRevoked
<1> QED
  BY <1>1, <1>3, <1>4, <1>5 DEF PageInv, OfAuthority, Served, AccountKept, ProofKept, RevealKept, Own, OwnRevoked

LEMMA ReadAccountStep ==
  ASSUME PageInv, NEW l \in Looks, ReadAccount(l)
  PROVE  PageInv'
<1> USE DEF PageInv
<1>1. PICK seen : seen = [issued |-> IssuedBy(look[l].bearer),
                          revoked |-> {c \in IssuedBy(look[l].bearer) : ledger[c].revoked}]
  OBVIOUS
<1>2. seen \in AccountRecord
  BY <1>1 DEF IssuedBy, AccountRecord
<1>3. PICK call : call = [[look[l] EXCEPT !.stage = "read"] EXCEPT !.seen = seen]
  OBVIOUS
<1>4. /\ call \in LookRecords /\ call.stage = "read" /\ call.seen = seen
      /\ call.marker = look[l].marker /\ call.bearer = look[l].bearer
  BY <1>2, <1>3 DEF PageTypes, LookRecords
<1>5. look' = [look EXCEPT ![l] = call]
  BY <1>1, <1>3 DEF ReadAccount, PageTypes, LookRecords
<1>6. UNCHANGED <<access, account, proof, looking, errand, lane, settings, ledger>>
  BY DEF ReadAccount
<1>7. look'[l] = call /\ \A k \in Looks : k # l => look'[k] = look[k]
  BY <1>5 DEF PageTypes
<1>8. PageTypes'
  BY <1>4, <1>5, <1>6 DEF PageTypes
<1>9. ASSUME NEW k \in Looks PROVE (OfAuthority(look[k]) /\ Read(k, look[k]))'
  <2>1. CASE k # l
    BY <1>6, <1>7, <2>1 DEF OfAuthority, Read, Own, OwnRevoked
  <2>2. CASE k = l
    <3>1. look[l].stage = "asked" /\ OfAuthority(look[l]) /\ Read(l, look[l])
      BY DEF ReadAccount
    <3>2. call.seen.issued = Own(call.bearer) /\ call.seen.revoked = OwnRevoked(call.bearer)
      BY <1>1, <1>4 DEF IssuedBy, Own, OwnRevoked
    <3>3. call.marker = access.marker => call.bearer = access.bearer
      BY <1>4, <3>1 DEF OfAuthority
    <3>4. OfAuthority(call)
      BY <1>4, <3>1 DEF OfAuthority
    <3>5. Read(l, call)
      BY <1>4, <3>1, <3>2, <3>3 DEF Read, AccountKept
    <3> QED
      BY <1>6, <1>7, <2>2, <3>4, <3>5 DEF OfAuthority, Read, Own, OwnRevoked
  <2> QED
    BY <2>1, <2>2
<1>10. looking' # 0 => look'[looking'].stage \in {"asked", "read"}
  BY <1>4, <1>6, <1>7 DEF PageTypes
<1> QED
  BY <1>6, <1>8, <1>9, <1>10 DEF OfAuthority, Served, AccountKept, ProofKept, RevealKept, Own, OwnRevoked

LEMMA LookAnsweredStep ==
  ASSUME PageInv, NEW l \in Looks, LookAnswered(l)
  PROVE  PageInv'
<1> USE DEF PageInv
<1>1. PICK s \in {"done", "failed"} : look' = [look EXCEPT ![l].stage = s]
  BY DEF LookAnswered
<1>2. PICK call : call = [look[l] EXCEPT !.stage = s]
  OBVIOUS
<1>3. call \in LookRecords /\ call.stage = s /\ call.marker = look[l].marker /\ call.bearer = look[l].bearer
  BY <1>2 DEF PageTypes, LookRecords
<1>4. look'[l] = call /\ \A k \in Looks : k # l => look'[k] = look[k]
  BY <1>1, <1>2 DEF PageTypes
<1>5. UNCHANGED <<access, errand, lane, settings, ledger>> /\ looking' = IF looking = l THEN 0 ELSE looking
  BY DEF LookAnswered
<1>6. look' \in [Looks -> LookRecords]
  BY <1>1, <1>2, <1>3 DEF PageTypes
<1>7. look[l].stage \in {"asked", "read"} /\ OfAuthority(look[l]) /\ Read(l, look[l])
  BY DEF LookAnswered
<1>8. looking' # 0 => look'[looking'].stage \in {"asked", "read"}
  BY <1>4, <1>5 DEF PageTypes
<1>9. \A k \in Looks : look'[k].stage \in {"asked", "read"} => k # l /\ look'[k] = look[k]
  BY <1>3, <1>4
<1>10. \A k \in Looks : OfAuthority(look[k])'
  BY <1>3, <1>4, <1>5, <1>7 DEF OfAuthority
<1>11. ASSUME ~(look[l].stage = "read" /\ LookCounts(l))
       PROVE  PageInv'
  <2>1. UNCHANGED <<account, proof>>
    BY <1>11 DEF LookAnswered
  <2>2. PageTypes'
    BY <1>5, <1>6, <2>1 DEF PageTypes
  <2>3. ASSUME NEW k \in Looks PROVE Read(k, look[k])'
    BY <1>5, <1>9, <2>1 DEF Read, Own, OwnRevoked
  <2> QED
    BY <1>5, <1>8, <1>10, <2>1, <2>2, <2>3
       DEF OfAuthority, Served, AccountKept, ProofKept, RevealKept, Own, OwnRevoked
<1>12. ASSUME look[l].stage = "read", LookCounts(l)
       PROVE  PageInv'
  <2>1. account' = look[l].seen /\ proof' = [marker |-> look[l].marker, seen |-> look[l].seen.revoked]
    BY <1>12 DEF LookAnswered
  <2>2. /\ look[l].marker = access.marker /\ access.status = "in" /\ look[l].bearer = access.bearer
        /\ access.marker \in Nat /\ access.marker \in Markers
    BY <1>7, <1>12, AccountNumbers DEF LookCounts, IsCurrent, OfAuthority, PageTypes, Accesses
  <2>3. look[l].seen \in AccountRecord /\ look[l].seen.revoked \in SUBSET Credentials
    BY DEF PageTypes, LookRecords, AccountRecord
  <2>4. /\ look[l].seen.issued \subseteq Own(access.bearer)
        /\ look[l].seen.revoked \subseteq OwnRevoked(access.bearer)
    BY <1>7, <1>12, <2>2 DEF Read
  <2>5. PageTypes'
    BY <1>5, <1>6, <2>1, <2>2, <2>3 DEF PageTypes
  <2>6. AccountKept'
    BY <1>5, <2>1, <2>2, <2>4 DEF AccountKept, Own, OwnRevoked
  <2>7. ProofKept'
    <3>1. account' # None
      BY <2>1, <2>3, AccountPageAssumption DEF AccountRecord, Credentials
    <3> QED
      BY <1>5, <2>1, <2>2, <2>3, <3>1 DEF ProofKept, AccountRecord
  <2>8. ASSUME NEW k \in Looks PROVE Read(k, look[k])'
    <3>1. look'[k].stage \in {"asked", "read"} => look[k].marker # access.marker
      BY <1>7, <1>9, <2>2 DEF Read
    <3> QED
      BY <1>5, <1>9, <3>1 DEF Read, Own, OwnRevoked
  <2> QED
    BY <1>5, <1>8, <1>10, <2>5, <2>6, <2>7, <2>8 DEF OfAuthority, Served, RevealKept
<1> QED
  BY <1>11, <1>12

\* An errand is asked for, by a page that shows the account of the session signed in.
LEMMA AsksStep ==
  ASSUME PageInv, NEW e \in Errands, NEW kind \in {"issue", "revoke"}, NEW c \in Credentials,
         Asks(e, kind, c), kind = "issue" => c = e,
         settings' = settings
           \/ (settings' \in SettingsRecords /\ settings'.open = settings.open
               /\ settings'.reveal = settings.reveal)
  PROVE  PageInv'
<1> USE DEF PageInv
<1>1. UNCHANGED <<access, account, proof, look, looking, ledger>>
  BY DEF Asks
<1>2. settings' \in SettingsRecords /\ settings'.open = settings.open /\ settings'.reveal = settings.reveal
  BY DEF PageTypes
<1>3. PICK call : call = [kind |-> kind, stage |-> "asked", marker |-> access.marker,
                          bearer |-> access.bearer, page |-> settings.number, of |-> c, look |-> 0]
  OBVIOUS
<1>4. call \in ErrandRecords
  BY <1>3 DEF ErrandRecords, AccountErrandStages, PageTypes, Accesses, SettingsRecords
<1>5. errand' = errand \/ errand' = [errand EXCEPT ![e] = call]
  BY <1>3 DEF Asks
<1>6. errand' \in [Errands -> ErrandRecords]
  BY <1>4, <1>5 DEF PageTypes
<1>7. \A d \in Errands : errand'[d] = errand[d] \/ (d = e /\ errand'[e] = call)
  BY <1>5 DEF PageTypes
<1>8. errand[e].stage = "unused"
  BY DEF Asks
<1>9. PageTypes'
  BY <1>1, <1>2, <1>6 DEF PageTypes
<1>10. ASSUME NEW d \in Errands PROVE (OfAuthority(errand[d]) /\ Served(d, errand[d]))'
  <2>1. CASE errand'[d] = errand[d]
    BY <1>1, <2>1 DEF OfAuthority, Served
  <2>2. CASE d = e /\ errand'[e] = call
    <3>1. access.marker \in Nat /\ ledger[e].by = 0
      BY <1>8, AccountNumbers DEF PageTypes, Accesses, Served
    <3>2. OfAuthority(call) /\ Served(e, call)
      BY <1>3, <3>1 DEF OfAuthority, Served
    <3> QED
      BY <1>1, <2>2, <3>2 DEF OfAuthority, Served
  <2> QED
    BY <1>7, <2>1, <2>2
<1>11. RevealKept'
  BY <1>1, <1>2, <1>7, <1>8 DEF RevealKept
<1> QED
  BY <1>1, <1>9, <1>10, <1>11 DEF OfAuthority, Read, AccountKept, ProofKept, Own, OwnRevoked

LEMMA SubmitStep ==
  ASSUME PageInv, NEW e \in Errands, Submit(e) \/ ConfirmRevoke(e)
  PROVE  PageInv'
<1> USE DEF PageInv
<1>1. CASE Submit(e)
  <2>1. settings' = settings
        \/ (settings' \in SettingsRecords /\ settings'.open = settings.open
            /\ settings'.reveal = settings.reveal)
    BY <1>1 DEF Submit, PageTypes, SettingsRecords
  <2> QED
    BY <1>1, <2>1, AsksStep, AccountNumbers DEF Submit
<1>2. CASE ConfirmRevoke(e)
  <2>1. settings' = settings
        \/ (settings' \in SettingsRecords /\ settings'.open = settings.open
            /\ settings'.reveal = settings.reveal)
    BY <1>2 DEF ConfirmRevoke, PageTypes, SettingsRecords
  <2>2. PICK c \in account.issued : Asks(e, "revoke", c)
    BY <1>2 DEF ConfirmRevoke
  <2>3. c \in Credentials
    BY <1>2 DEF ConfirmRevoke, PageTypes, AccountRecord
  <2> QED
    BY <2>1, <2>2, <2>3, AsksStep
<1> QED
  BY <1>1, <1>2

LEMMA ServeErrandStep ==
  ASSUME PageInv, NEW e \in Errands, ServeErrand(e)
  PROVE  PageInv'
<1> USE DEF PageInv
<1>1. PICK call : call = [errand[e] EXCEPT !.stage = "answered"]
  OBVIOUS
<1>2. /\ call \in ErrandRecords /\ call.stage = "answered" /\ call.marker = errand[e].marker
      /\ call.bearer = errand[e].bearer /\ call.kind = errand[e].kind /\ call.of = errand[e].of
  BY <1>1 DEF PageTypes, ErrandRecords, AccountErrandStages
<1>3. errand' = [errand EXCEPT ![e] = call]
  BY <1>1 DEF ServeErrand
<1>4. UNCHANGED <<access, account, proof, look, looking, lane, settings>>
  BY DEF ServeErrand
<1>5. /\ errand' \in [Errands -> ErrandRecords] /\ errand'[e] = call
      /\ \A d \in Errands : d # e => errand'[d] = errand[d]
  BY <1>2, <1>3 DEF PageTypes
<1>6. errand[e].stage = "asked" /\ OfAuthority(errand[e]) /\ Served(e, errand[e])
  BY DEF ServeErrand
<1>7. PICK c \in Credentials : c = errand[e].of
  BY DEF PageTypes, ErrandRecords
<1>8. PICK b \in Markers : b = errand[e].bearer
  BY DEF PageTypes, ErrandRecords
<1>9. e \in Credentials /\ b # 0
  BY <1>8, AccountNumbers
<1>10. /\ ledger' \in [Credentials -> [by : Markers \cup {0}, revoked : BOOLEAN]]
       /\ \A k \in Credentials : ledger'[k].by = IF k = e /\ errand[e].kind = "issue" THEN b ELSE ledger[k].by
       /\ \A k \in Credentials : ledger[k].revoked => ledger'[k].revoked
  <2>1. CASE errand[e].kind = "issue"
    <3>1. ledger' = [ledger EXCEPT ![e].by = b]
      BY <1>6, <1>8, <2>1 DEF ServeErrand, Served
    <3> QED
      BY <1>9, <2>1, <3>1 DEF PageTypes
  <2>2. CASE errand[e].kind # "issue"
    <3>1. ledger' = [ledger EXCEPT ![c].revoked = TRUE]
      BY <1>7, <2>2 DEF ServeErrand
    <3> QED
      BY <2>2, <3>1 DEF PageTypes
  <2> QED
    BY <2>1, <2>2
<1>11. ledger[e].by = 0
  BY <1>6 DEF Served
<1>12. \A m \in Markers : Own(m) \subseteq Own(m)' /\ OwnRevoked(m) \subseteq OwnRevoked(m)'
  <2>1. ASSUME NEW m \in Markers, NEW k \in Own(m)
        PROVE  k \in Credentials /\ ledger'[k].by = m /\ (ledger[k].revoked => ledger'[k].revoked)
    <3>1. k \in Credentials /\ ledger[k].by = m /\ m # 0
      BY <2>1, AccountNumbers DEF Own
    <3>2. k # e
      BY <1>11, <3>1
    <3> QED
      BY <1>10, <3>1, <3>2
  <2> QED
    BY <2>1 DEF Own, OwnRevoked
<1>13. PageTypes'
  BY <1>4, <1>5, <1>10 DEF PageTypes
<1>14. ASSUME NEW d \in Errands PROVE (OfAuthority(errand[d]) /\ Served(d, errand[d]))'
  <2>1. CASE d = e
    <3>1. OfAuthority(call) /\ ledger'[e].by = IF errand[e].kind = "issue" THEN b ELSE 0
      BY <1>2, <1>6, <1>9, <1>10, <1>11 DEF OfAuthority
    <3> QED
      BY <1>2, <1>4, <1>5, <1>6, <1>8, <2>1, <3>1 DEF OfAuthority, Served
  <2>2. CASE d # e
    <3>1. ledger'[d].by = ledger[d].by
      BY <1>10, <2>2, AccountNumbers
    <3> QED
      BY <1>4, <1>5, <2>2, <3>1 DEF OfAuthority, Served
  <2> QED
    BY <2>1, <2>2
<1>15. ASSUME NEW l \in Looks PROVE (OfAuthority(look[l]) /\ Read(l, look[l]))'
  <2>1. look[l].bearer \in Markers
    BY DEF PageTypes, LookRecords
  <2> QED
    BY <1>4, <1>12, <2>1 DEF OfAuthority, Read
<1>16. AccountKept' /\ ProofKept'
  <2>1. access.bearer \in Markers
    BY DEF PageTypes, Accesses
  <2> QED
    BY <1>4, <1>12, <2>1 DEF AccountKept, ProofKept
<1>17. RevealKept'
  <2>1. settings.reveal # 0 => settings.reveal # e
    BY <1>6 DEF RevealKept
  <2>2. settings.reveal # 0 => ledger'[settings.reveal].by = ledger[settings.reveal].by
    BY <1>10, <2>1, AccountNumbers DEF RevealKept
  <2> QED
    BY <1>4, <1>5, <2>1, <2>2 DEF RevealKept
<1> QED
  BY <1>4, <1>13, <1>14, <1>15, <1>16, <1>17

\* An errand moves on: what it was and of whom stays; what the page then reveals is its own.
LEMMA ErrandMoves ==
  ASSUME PageInv, NEW e \in Errands, NEW call \in ErrandRecords,
         errand' = [errand EXCEPT ![e] = call],
         call.kind = errand[e].kind /\ call.marker = errand[e].marker,
         call.bearer = errand[e].bearer /\ call.of = errand[e].of,
         errand[e].stage \notin {"unused", "done"},
         call.stage \in {"refreshing", "done", "failed"},
         call.stage # "failed" => errand[e].stage \in {"answered", "refreshing"},
         settings' \in SettingsRecords, settings'.open = settings.open,
         settings'.reveal = settings.reveal
           \/ (settings'.reveal = e /\ access.status = "in" /\ settings.open /\ call.stage = "done"
               /\ call.kind = "issue" /\ errand[e].marker = access.marker),
         UNCHANGED <<access, account, proof, ledger>>,
         look' \in [Looks -> LookRecords], looking' \in Looks \cup {0},
         looking' # 0 => look'[looking'].stage \in {"asked", "read"},
         \A l \in Looks :
           \/ look'[l] = look[l] /\ (look[l].stage \in {"asked", "read"}
                                   /\ look[l].marker = access.marker => looking' = l)
           \/ /\ l = looking' /\ look'[l].stage = "asked"
              /\ look'[l].marker = access.marker /\ look'[l].bearer = access.bearer
  PROVE  PageInv'
<1> USE DEF PageInv
<1>1. /\ errand' \in [Errands -> ErrandRecords] /\ errand'[e] = call
      /\ \A d \in Errands : d # e => errand'[d] = errand[d]
  BY DEF PageTypes
<1>2. PageTypes'
  BY <1>1 DEF PageTypes
<1>3. OfAuthority(errand[e]) /\ Served(e, errand[e])
  OBVIOUS
<1>4. ASSUME NEW d \in Errands PROVE (OfAuthority(errand[d]) /\ Served(d, errand[d]))'
  <2>1. CASE d = e
    BY <1>1, <1>3, <2>1 DEF OfAuthority, Served
  <2>2. CASE d # e
    BY <1>1, <2>2 DEF OfAuthority, Served
  <2> QED
    BY <2>1, <2>2
<1>5. ASSUME NEW l \in Looks PROVE (OfAuthority(look[l]) /\ Read(l, look[l]))'
  <2>1. OfAuthority(look[l]) /\ Read(l, look[l]) /\ access.marker \in Nat
    BY AccountNumbers DEF PageTypes, Accesses
  <2> QED
    BY <2>1 DEF OfAuthority, Read, Own, OwnRevoked
<1>6. RevealKept'
  <2>1. CASE settings'.reveal = settings.reveal
    <3>1. settings.reveal # 0 => settings.reveal # e
      BY DEF RevealKept
    <3> QED
      BY <1>1, <2>1, <3>1 DEF RevealKept
  <2>2. CASE settings'.reveal # settings.reveal
    BY <1>1, <1>3, <2>2 DEF RevealKept, OfAuthority, Served
  <2> QED
    BY <2>1, <2>2
<1> QED
  BY <1>2, <1>4, <1>5, <1>6 DEF AccountKept, ProofKept, Own, OwnRevoked

\* The looks are as they were, for an errand that ends.
LEMMA LooksStay ==
  ASSUME PageInv, UNCHANGED <<look, looking>>
  PROVE  /\ look' \in [Looks -> LookRecords] /\ looking' \in Looks \cup {0}
         /\ looking' # 0 => look'[looking'].stage \in {"asked", "read"}
         /\ \A l \in Looks : look'[l] = look[l] /\ (look[l].stage \in {"asked", "read"}
                                   /\ look[l].marker = access.marker => looking' = l)
  BY DEF PageInv, PageTypes, Read

LEMMA ToldTyped ==
  ASSUME PageInv, NEW e \in Errands, NEW success \in BOOLEAN
  PROVE  /\ Told(e, success) \in SettingsRecords /\ Told(e, success).open = settings.open
         /\ Told(e, success).reveal = settings.reveal
             \/ (Told(e, success).reveal = e /\ success /\ errand[e].kind = "issue"
                 /\ settings.open /\ access.status = "in")
<1>1. e \in Credentials
  BY AccountNumbers
<1>2. settings \in SettingsRecords
  BY DEF PageInv, PageTypes
<1> QED
  BY <1>1, <1>2 DEF Told, SettingsRecords

\* An errand ends, with success only if its authority is the present one.
LEMMA ErrandEndsStep ==
  ASSUME PageInv, NEW e \in Errands, NEW success \in BOOLEAN, ErrandEnds(e, success),
         errand[e].stage \notin {"unused", "done"},
         success => errand[e].stage = "refreshing" /\ errand[e].marker = access.marker,
         UNCHANGED <<access, account, proof, look, looking, ledger>>
  PROVE  PageInv'
<1>1. PICK s \in {"done", "failed"} : s = IF success THEN "done" ELSE "failed"
  OBVIOUS
<1>2. PICK call : call = [errand[e] EXCEPT !.stage = s]
  OBVIOUS
<1>3. /\ call \in ErrandRecords /\ call.stage = s
      /\ call.kind = errand[e].kind /\ call.marker = errand[e].marker
      /\ call.bearer = errand[e].bearer /\ call.of = errand[e].of
  BY <1>2 DEF PageInv, PageTypes, ErrandRecords, AccountErrandStages
<1>4. errand' = [errand EXCEPT ![e] = call]
  BY <1>1, <1>2 DEF ErrandEnds
<1>5. settings' = Told(e, success)
  BY DEF ErrandEnds
<1>6. /\ settings' \in SettingsRecords /\ settings'.open = settings.open
      /\ settings'.reveal = settings.reveal
           \/ (settings'.reveal = e /\ access.status = "in" /\ settings.open /\ call.stage = "done"
               /\ call.kind = "issue" /\ errand[e].marker = access.marker)
  BY <1>1, <1>3, <1>5, ToldTyped
<1>7. call.stage # "failed" => errand[e].stage \in {"answered", "refreshing"}
  BY <1>1, <1>3
<1>8. call.stage \in {"refreshing", "done", "failed"}
  BY <1>3
<1> QED
  BY <1>3, <1>4, <1>6, <1>7, <1>8, LooksStay, ErrandMoves

LEMMA ErrandAnsweredStep ==
  ASSUME PageInv, NEW e \in Errands, ErrandAnswered(e)
  PROVE  PageInv'
<1>1. errand[e].stage = "answered" /\ UNCHANGED <<access, account, proof, ledger>>
  BY DEF ErrandAnswered
<1>2. CASE ErrandCurrent(e)
  <2>1. /\ MayLook /\ Refresh(JoinedLook)
        /\ errand' = [errand EXCEPT ![e].stage = "refreshing", ![e].look = JoinedLook]
        /\ UNCHANGED <<lane, settings>>
    BY <1>2 DEF ErrandAnswered
  <2>2. PICK n \in Looks : n = JoinedLook
    BY <2>1, RefreshLooks
  <2>3. PICK call : call = [[errand[e] EXCEPT !.stage = "refreshing"] EXCEPT !.look = n]
    OBVIOUS
  <2>4. /\ call \in ErrandRecords /\ call.stage = "refreshing"
        /\ call.kind = errand[e].kind /\ call.marker = errand[e].marker
        /\ call.bearer = errand[e].bearer /\ call.of = errand[e].of
    BY <2>3 DEF PageInv, PageTypes, ErrandRecords, AccountErrandStages
  <2>5. errand' = [errand EXCEPT ![e] = call]
    BY <2>1, <2>2, <2>3 DEF PageInv, PageTypes, ErrandRecords
  <2>6. settings' \in SettingsRecords /\ settings'.open = settings.open /\ settings'.reveal = settings.reveal
    BY <2>1 DEF PageInv, PageTypes
  <2>7. /\ look' \in [Looks -> LookRecords] /\ looking' \in Looks \cup {0}
        /\ looking' # 0 => look'[looking'].stage \in {"asked", "read"}
        /\ \A l \in Looks :
             \/ look'[l] = look[l] /\ (look[l].stage \in {"asked", "read"}
                                     /\ look[l].marker = access.marker => looking' = l)
             \/ /\ l = looking' /\ look'[l].stage = "asked"
                /\ look'[l].marker = access.marker /\ look'[l].bearer = access.bearer
    BY <2>1, RefreshLooks
  <2> QED
    BY <1>1, <2>4, <2>5, <2>6, <2>7, ErrandMoves
<1>3. CASE ~ErrandCurrent(e)
  <2>1. ErrandEnds(e, FALSE) /\ UNCHANGED <<look, looking>>
    BY <1>3 DEF ErrandAnswered
  <2> QED
    BY <1>1, <2>1, ErrandEndsStep
<1> QED
  BY <1>2, <1>3

LEMMA ErrandConcludesStep ==
  ASSUME PageInv, NEW e \in Errands, ErrandConcludes(e)
  PROVE  PageInv'
<1>1. PICK success \in BOOLEAN :
        success = (ErrandCurrent(e) /\ (errand[e].kind = "revoke" => Proven(e)))
  OBVIOUS
<1>2. ErrandEnds(e, success)
  BY <1>1 DEF ErrandConcludes
<1>3. success => errand[e].stage = "refreshing" /\ errand[e].marker = access.marker
  BY <1>1 DEF ErrandConcludes, ErrandCurrent, IsCurrent
<1> QED
  BY <1>2, <1>3, ErrandEndsStep DEF ErrandConcludes

LEMMA ErrandFailsStep ==
  ASSUME PageInv, NEW e \in Errands, ErrandFails(e)
  PROVE  PageInv'
  BY ErrandEndsStep DEF ErrandFails

LEMMA SessionRefusedStep ==
  ASSUME PageInv, NEW e \in Errands, SessionRefused(e)
  PROVE  PageInv'
<1>1. PICK b \in Markers : b = access.bearer
  BY DEF PageInv, PageTypes, Accesses
<1>2. PICK m \in Markers : m = access.marker + 1
  <2>1. access.marker \in Nat /\ access.marker < MaxMarker
    BY AccountNumbers DEF SessionRefused, PageInv, PageTypes, Accesses
  <2> QED
    BY <2>1, AccountPageAssumption DEF Markers
<1>3. b <= m
  BY <1>1, <1>2, AccountNumbers DEF PageInv, PageTypes, Accesses
<1>4. access' = [status |-> "out", marker |-> m, bearer |-> b]
  BY <1>1, <1>2 DEF SessionRefused, PageInv, PageTypes, Accesses
<1>5. settings' = [Told(e, FALSE) EXCEPT !.reveal = 0]
  BY DEF SessionRefused
<1>6. settings' \in SettingsRecords /\ settings'.open = settings.open /\ settings'.reveal = 0
  BY <1>5, ToldTyped, AccountNumbers DEF SettingsRecords
<1>7. /\ errand' \in [Errands -> ErrandRecords]
      /\ \A d \in Errands : \/ errand'[d] = errand[d]
                            \/ /\ errand[d].stage \notin {"unused", "done"} /\ errand'[d].stage = "failed"
                               /\ errand'[d].marker = errand[d].marker /\ errand'[d].of = errand[d].of
                               /\ errand'[d].kind = errand[d].kind
  BY DEF SessionRefused, PageInv, PageTypes, ErrandRecords, AccountErrandStages
<1>8. account' = None /\ UNCHANGED <<proof, look, looking, ledger>>
  BY DEF SessionRefused
<1> QED
  BY <1>2, <1>3, <1>4, <1>6, <1>7, <1>8, NewAuthority

\* What the page does by itself reveals nothing.
LEMMA PageStep ==
  ASSUME PageInv, CloseReveal \/ ClosePage \/ OpenPage
  PROVE  PageInv'
<1>1. UNCHANGED <<access, account, proof, look, looking, errand, lane, ledger>>
  BY DEF CloseReveal, ClosePage, OpenPage
<1>2. settings' \in SettingsRecords /\ (settings'.reveal # 0 => settings'.reveal = settings.reveal /\ settings'.open)
  <2>1. settings \in SettingsRecords /\ 0 \in Credentials
    BY AccountNumbers DEF PageInv, PageTypes
  <2>2. settings.reveal # 0 => settings.open
    BY DEF PageInv, RevealKept
  <2>3. CASE CloseReveal
    BY <2>1, <2>3 DEF CloseReveal, Unrevealed, SettingsRecords
  <2>4. CASE ClosePage
    BY <2>1, <2>4 DEF ClosePage, SettingsRecords
  <2>5. CASE OpenPage
    <3>1. PICK n \in Nat : n = settings.number + 1
      BY <2>1 DEF SettingsRecords
    <3>2. settings' = [settings EXCEPT !.open = TRUE, !.number = n]
      BY <2>5, <3>1 DEF OpenPage
    <3>3. ~settings.open
      BY <2>5 DEF OpenPage
    <3> QED
      BY <2>1, <2>2, <3>2, <3>3 DEF SettingsRecords
  <2> QED
    BY <2>3, <2>4, <2>5
<1>3. RevealKept'
  BY <1>1, <1>2 DEF PageInv, RevealKept
<1>4. PageTypes'
  BY <1>1, <1>2 DEF PageInv, PageTypes
<1> QED
  BY <1>1, <1>3, <1>4 DEF PageInv, OfAuthority, Served, Read, AccountKept, ProofKept, Own, OwnRevoked

LEMMA PageNextInv ==
  ASSUME PageInv, [AccountPageNext]_accountVars
  PROVE  PageInv'
<1>1. CASE UNCHANGED accountVars
  BY <1>1 DEF accountVars, PageInv, PageTypes, OfAuthority, Served, Read, AccountKept, ProofKept, RevealKept,
     Own, OwnRevoked
<1>2. CASE AccountPageNext
  BY <1>2, TransitionsStep, TransitionEndsStep, NeedsAccountStep, ReadAccountStep, LookAnsweredStep,
     SubmitStep, ServeErrandStep, ErrandAnsweredStep, ErrandConcludesStep, ErrandFailsStep,
     SessionRefusedStep, PageStep DEF AccountPageNext, AccountErrandStep, LookStep
<1> QED
  BY <1>1, <1>2

\* Which errands a step changes, and to what.
LEMMA ErrandsChange ==
  ASSUME PageInv, AccountPageNext, NEW e \in Errands
  PROVE  \/ errand'[e].stage = errand[e].stage
         \/ errand'[e].stage \in {"asked", "answered", "refreshing"}
         \/ errand'[e].stage = "failed" /\ access' = access
         \/ errand'[e].stage = "failed" /\ ErrandCurrent(e)
         \/ errand'[e].stage = "done" /\ ErrandConcludes(e)
               /\ ErrandCurrent(e) /\ (errand[e].kind = "revoke" => Proven(e))
<1> USE DEF PageInv
<1>1. errand \in [Errands -> ErrandRecords]
  BY DEF PageTypes
<1>2. CASE UNCHANGED errand
  BY <1>2
<1>3. ASSUME NEW d \in Errands, NEW kind, NEW c, Asks(d, kind, c)
      PROVE  errand'[e].stage \in {errand[e].stage, "asked"}
  BY <1>1, <1>3 DEF Asks
<1>4. ASSUME NEW d \in Errands, Submit(d) \/ ConfirmRevoke(d)
      PROVE  errand'[e].stage \in {errand[e].stage, "asked"}
  BY <1>3, <1>4 DEF Submit, ConfirmRevoke
<1>5. ASSUME NEW d \in Errands, ServeErrand(d)
      PROVE  errand'[e].stage \in {errand[e].stage, "answered"}
  BY <1>1, <1>5 DEF ServeErrand
<1>6. ASSUME NEW d \in Errands, NEW success, ErrandEnds(d, success)
      PROVE  IF e = d THEN errand'[e].stage = (IF success THEN "done" ELSE "failed")
             ELSE errand'[e].stage = errand[e].stage
  BY <1>1, <1>6 DEF ErrandEnds
<1>7. ASSUME NEW d \in Errands, ErrandAnswered(d)
      PROVE  access' = access /\ errand'[e].stage \in {errand[e].stage, "refreshing", "failed"}
  <2>1. CASE ErrandCurrent(d)
    <3>1. /\ MayLook /\ Refresh(JoinedLook) /\ access' = access
          /\ errand' = [errand EXCEPT ![d].stage = "refreshing", ![d].look = JoinedLook]
      BY <1>7, <2>1 DEF ErrandAnswered
    <3>2. PICK n \in Looks : n = JoinedLook
      BY <3>1, RefreshLooks
    <3>3. PICK call : call = [[errand[d] EXCEPT !.stage = "refreshing"] EXCEPT !.look = n]
      OBVIOUS
    <3>4. call.stage = "refreshing"
      BY <1>1, <3>3 DEF ErrandRecords
    <3>5. errand' = [errand EXCEPT ![d] = call]
      BY <1>1, <3>1, <3>2, <3>3 DEF ErrandRecords
    <3> QED
      BY <1>1, <3>1, <3>4, <3>5
  <2>2. CASE ~ErrandCurrent(d)
    BY <1>6, <1>7, <2>2 DEF ErrandAnswered
  <2> QED
    BY <2>1, <2>2
<1>8. ASSUME NEW d \in Errands, ErrandFails(d)
      PROVE  access' = access /\ errand'[e].stage \in {errand[e].stage, "failed"}
  BY <1>6, <1>8 DEF ErrandFails
<1>9. ASSUME NEW d \in Errands, SessionRefused(d)
      PROVE  errand'[e].stage = errand[e].stage \/ (errand'[e].stage = "failed" /\ ErrandCurrent(e))
  BY <1>1, <1>9 DEF SessionRefused
<1>10. ASSUME NEW d \in Errands, ErrandConcludes(d)
       PROVE  \/ errand'[e].stage = errand[e].stage
              \/ errand'[e].stage = "failed" /\ access' = access
              \/ errand'[e].stage = "done" /\ ErrandConcludes(e)
                    /\ ErrandCurrent(e) /\ (errand[e].kind = "revoke" => Proven(e))
  <2>1. PICK success \in BOOLEAN :
          success = (ErrandCurrent(d) /\ (errand[d].kind = "revoke" => Proven(d)))
    OBVIOUS
  <2>2. ErrandEnds(d, success) /\ access' = access
    BY <1>10, <2>1 DEF ErrandConcludes
  <2> QED
    BY <1>6, <1>10, <2>1, <2>2
<1> QED
  BY <1>2, <1>4, <1>5, <1>7, <1>8, <1>9, <1>10
     DEF AccountPageNext, AccountErrandStep, LookStep, SignInAgain, LeaveAccount, ForgetThisBrowser,
         CancelNothing, Transition, TransitionEnds, NeedsAccount, ReadAccount, LookAnswered,
         CloseReveal, ClosePage, OpenPage

\* When the page is told that a revocation is done, the account it shows has it.
LEMMA RevokedIsShownStep ==
  ASSUME PageInv, AccountPageNext, NEW e \in Errands,
         errand[e].kind = "revoke", errand[e].stage # "done", errand'[e].stage = "done"
  PROVE  account # None /\ errand[e].of \in account.revoked
<1>1. ErrandCurrent(e) /\ Proven(e)
  BY ErrandsChange
<1>2. proof # None /\ proof.marker = access.marker /\ errand[e].of \in proof.seen
  BY <1>1 DEF ErrandCurrent, IsCurrent, Proven
<1> QED
  BY <1>2 DEF PageInv, ProofKept

LEMMA RevocationStaysStep ==
  ASSUME PageInv, AccountPageNext, NEW c, account # None, account' # None, c \in account.revoked
  PROVE  c \in account'.revoked
<1>1. CASE UNCHANGED account
  BY <1>1
<1>2. ASSUME NEW l \in Looks, LookAnswered(l), account' # account
      PROVE  c \in account'.revoked
  <2>1. look[l].stage = "read" /\ LookCounts(l) /\ account' = look[l].seen
    BY <1>2 DEF LookAnswered
  <2>2. account.revoked \subseteq look[l].seen.revoked
    BY <2>1 DEF PageInv, Read, LookCounts, IsCurrent
  <2> QED
    BY <2>1, <2>2
<1>3. ASSUME NEW e \in Errands, ErrandAnswered(e) \/ ErrandConcludes(e) \/ ErrandFails(e)
      PROVE  UNCHANGED account
  BY <1>3 DEF ErrandAnswered, ErrandConcludes, ErrandFails
<1> QED
  BY <1>1, <1>2, <1>3
     DEF AccountPageNext, AccountErrandStep, LookStep, SignInAgain, LeaveAccount, ForgetThisBrowser,
         CancelNothing, Transition, TransitionEnds, NeedsAccount, ReadAccount, Submit, ConfirmRevoke, Asks,
         ServeErrand, SessionRefused, CloseReveal, ClosePage, OpenPage

LEMMA PageInvImplies ==
  ASSUME PageInv
  PROVE  SecretOfItsSession /\ AccountOfItsSession
  BY DEF PageInv, SecretOfItsSession, AccountOfItsSession, RevealKept, AccountKept, Own

\* Whatever answers come late, of an earlier authority or an earlier page: a secret is on
\* the screen only of the session that asked for it, an account is its session's own, a
\* revocation that is reported is shown and stays shown, and what ends an errand ends no
\* other session (the provider's authority marker, accountMutationFlight and accountEvidence).
THEOREM AccountKeepsItsPromise == AccountPageSpec => AccountPromise
<1>1. AccountPageInit => PageInv
  BY PageInitInv
<1>2. PageInv /\ [AccountPageNext]_accountVars => PageInv'
  BY PageNextInv
<1>3. PageInv => SecretOfItsSession /\ AccountOfItsSession
  BY PageInvImplies
<1>4. PageInv /\ [AccountPageNext]_accountVars =>
        [\A e \in Errands :
           errand[e].kind = "revoke" /\ errand[e].stage # "done" /\ errand'[e].stage = "done"
             => account # None /\ errand[e].of \in account.revoked]_accountVars
  BY RevokedIsShownStep
<1>5. PageInv /\ [AccountPageNext]_accountVars =>
        [\A c \in Credentials :
           /\ account # None /\ account' # None /\ access'.bearer = access.bearer
           /\ c \in account.revoked
           => c \in account'.revoked]_accountVars
  BY RevocationStaysStep
<1>6. PageInv /\ [AccountPageNext]_accountVars =>
        [\A e \in Errands :
           errand[e].stage # "failed" /\ errand'[e].stage = "failed" /\ access' # access
             => errand[e].marker = access.marker]_accountVars
  BY ErrandsChange DEF ErrandCurrent, IsCurrent
<1> QED
  BY <1>1, <1>2, <1>3, <1>4, <1>5, <1>6, PTL
     DEF AccountPageSpec, AccountPromise, RevokedIsShown, RevocationStaysShown, ErrandsSpareOthers

---------------------------------------------------------------------------
(***************************************************************************)
(* The run page.  The poll of the current effect, if it may still write,   *)
(* is not behind what is shown; the report it goes with is the attempt.    *)
(*   PollOK     what an effect may hold, by its generation                 *)
(*   ReportOK   a request under way is the attempt that is loading         *)
(*   AttemptOK  what is recorded as valid was answered valid               *)
(*   PollGoesOn     the page looks again until the run is over                 *)
(***************************************************************************)

PollRecords ==
  [stage : {"new", "due", "asked", "over"}, run : Sequences \cup {0, -1},
   with : 0 .. MaxReports, polls : 0 .. MaxPolls]

ReportRecords ==
  [stage : {"unused", "asked", "answered"}, answer : ReportAnswers, joined : Sequences \cup {0}]

ReportAttempts == [kind : AttemptKinds, sequence : Sequences \cup {0}, of : 0 .. MaxReports]

\* The current effect's load asked for the report: that is still the attempt, and if it
\* was recorded, at the sequence that is shown.
Carried(q) ==
  /\ attempt.of = q /\ attempt.kind # "none"
  /\ report[q].joined \in {0, hydrated}
  /\ attempt.kind # "loading" => attempt.sequence = hydrated

\* The run an effect has been answered is not behind what is shown, if it may be shown.
PollOK(g, p) ==
  /\ p.stage = "due" => g = generation
  /\ generation # 0 /\ g > generation => p.stage = "new"
  /\ p.stage # "asked" => p.run = 0 /\ p.with = 0
  /\ p.run <= sequence
  /\ g = generation /\ p.run > 0 => hydrated <= p.run
  /\ g = generation /\ p.with # 0 => Carried(p.with)

\* A request under way is the attempt that is loading.
ReportOK(q, r) ==
  /\ r.stage = "unused" => r.answer = "none" /\ r.joined = 0
  /\ r.stage = "answered" => r.answer # "none" /\ r.joined = 0
  /\ r.stage = "asked" => attempt.kind = "loading" /\ attempt.of = q

AttemptOK ==
  /\ attempt.kind = "loading" => attempt.of \in Reports /\ report[attempt.of].stage # "unused"
  /\ attempt.kind = "valid" => attempt.of \in Reports /\ report[attempt.of].answer = "valid"

PollGoesOn ==
  generation # 0 /\ ~troubled /\ ~(hydrated # 0 /\ TerminalAt(hydrated)) =>
    poll[generation].stage \in {"due", "asked"}

CockpitTypes ==
  /\ sequence \in Sequences /\ blocked \in BOOLEAN
  /\ generation \in 0 .. MaxGeneration
  /\ poll \in [Generations -> PollRecords]
  /\ hydrated \in Sequences \cup {0}
  /\ troubled \in BOOLEAN
  /\ report \in [Reports -> ReportRecords]
  /\ attempt \in ReportAttempts
  /\ reading \in BOOLEAN /\ due \in BOOLEAN
  /\ observed \in Sequences \cup {0}
  /\ milestone \in Nat

CockpitInv ==
  /\ CockpitTypes
  /\ hydrated <= sequence
  /\ \A g \in Generations : PollOK(g, poll[g])
  /\ \A q \in Reports : ReportOK(q, report[q])
  /\ AttemptOK /\ PollGoesOn /\ MilestoneOnce

LEMMA CockpitNumbers ==
  /\ Sequences = {1, 2, 3} /\ Created = 1 /\ Preflighted = 2 /\ Concluded = 3
  /\ MaxReports \in Nat /\ MaxGeneration \in Nat /\ MaxPolls \in Nat
  /\ Generations = (0 .. MaxGeneration) \ {0} /\ Reports = (0 .. MaxReports) \ {0}
  /\ 1 \in Generations /\ Generations \subseteq Nat /\ Reports \subseteq Nat
  /\ 0 \notin Generations /\ 0 \notin Reports
  BY CockpitAssumption DEF Sequences, Created, Preflighted, Concluded, Generations, Reports

LEMMA CockpitInitInv == CockpitInit => CockpitInv
<1> SUFFICES ASSUME CockpitInit PROVE CockpitInv
  OBVIOUS
<1> USE CockpitNumbers
<1>1. CockpitTypes
  <2>1. \A s \in {"new", "due"} : Fresh(s) \in PollRecords
    BY DEF Fresh, PollRecords
  <2>2. poll \in [Generations -> PollRecords]
    BY <2>1 DEF CockpitInit
  <2>3. report \in [Reports -> ReportRecords]
    BY DEF CockpitInit, ReportRecords, ReportAnswers
  <2>4. attempt \in ReportAttempts
    BY DEF CockpitInit, ReportAttempts, AttemptKinds
  <2> QED
    BY <2>2, <2>3, <2>4 DEF CockpitInit, CockpitTypes
<1>2. \A g \in Generations : PollOK(g, poll[g])
  BY DEF CockpitInit, PollOK, Fresh
<1>3. \A q \in Reports : ReportOK(q, report[q])
  BY DEF CockpitInit, ReportOK
<1>4. AttemptOK /\ PollGoesOn /\ MilestoneOnce /\ hydrated <= sequence
  BY DEF CockpitInit, AttemptOK, PollGoesOn, MilestoneOnce, Fresh
<1> QED
  BY <1>1, <1>2, <1>3, <1>4 DEF CockpitInv

LEMMA RunAdvancesStep ==
  ASSUME CockpitInv, RunAdvances
  PROVE  CockpitInv'
<1>1. sequence' \in Sequences /\ sequence < sequence'
  BY CockpitNumbers DEF RunAdvances, TerminalAt, CockpitInv, CockpitTypes
<1>2. UNCHANGED <<blocked, generation, poll, hydrated, troubled, report, attempt, due, reading, observed,
                  milestone>>
  BY DEF RunAdvances, reportVars
<1>3. CockpitTypes'
  BY <1>1, <1>2 DEF CockpitInv, CockpitTypes
<1>4. (hydrated <= sequence)'
  BY <1>1, <1>2, CockpitNumbers DEF CockpitInv, CockpitTypes
<1>5. ASSUME NEW g \in Generations PROVE PollOK(g, poll[g])'
  <2>1. poll[g].run \in {-1, 0, 1, 2, 3}
    BY CockpitNumbers DEF CockpitInv, CockpitTypes, PollRecords
  <2>2. PollOK(g, poll[g])
    BY DEF CockpitInv
  <2> QED
    BY <1>1, <1>2, <2>1, <2>2, CockpitNumbers DEF PollOK, Carried, CockpitInv, CockpitTypes
<1> QED
  BY <1>2, <1>3, <1>4, <1>5 DEF CockpitInv, ReportOK, AttemptOK, PollGoesOn, TerminalAt, MilestoneOnce

\* A request that is made is the only one.
LEMMA AskedOfReport ==
  ASSUME CockpitInv, NEW q \in Reports, NEW n \in {0, hydrated}, IsNext(q), attempt.kind # "loading",
         report' = [report EXCEPT ![q] = [stage |-> "asked", answer |-> "none", joined |-> n]],
         attempt' = Recorded(q)
  PROVE  /\ report' \in [Reports -> ReportRecords] /\ attempt' \in ReportAttempts
         /\ attempt'.kind = "loading" /\ attempt'.of = q /\ report'[q].joined = n
         /\ (\A p \in Reports : ReportOK(p, report[p]))' /\ AttemptOK'
<1> USE CockpitNumbers
<1>1. report' \in [Reports -> ReportRecords]
  BY DEF CockpitInv, CockpitTypes, ReportRecords, ReportAnswers
<1>2. attempt' \in ReportAttempts /\ attempt'.kind = "loading" /\ attempt'.of = q
  BY DEF CockpitInv, CockpitTypes, Recorded, ReportAttempts, AttemptKinds
<1>3. ASSUME NEW p \in Reports PROVE ReportOK(p, report[p])'
  <2>1. report[p].stage # "asked" /\ ReportOK(p, report[p])
    BY DEF CockpitInv, ReportOK
  <2>2. report'[p] = IF p = q THEN [stage |-> "asked", answer |-> "none", joined |-> n] ELSE report[p]
    BY DEF CockpitInv, CockpitTypes
  <2>3. CASE p = q
    BY <1>2, <2>2, <2>3 DEF ReportOK
  <2>4. CASE p # q
    BY <2>1, <2>2, <2>4 DEF ReportOK
  <2> QED
    BY <2>3, <2>4
<1>4. report'[q] = [stage |-> "asked", answer |-> "none", joined |-> n]
  BY DEF CockpitInv, CockpitTypes
<1>5. AttemptOK'
  BY <1>2, <1>4 DEF AttemptOK
<1> QED
  BY <1>1, <1>2, <1>3, <1>4, <1>5

LEMMA LoadStep ==
  ASSUME CockpitInv, NEW g \in Generations, Load(g)
  PROVE  CockpitInv'
<1> USE CockpitNumbers
<1>1. /\ poll[g].stage = "due" /\ g = generation /\ poll[g].polls < MaxPolls
      /\ UNCHANGED <<sequence, blocked, generation, hydrated, troubled, due, reading, observed, milestone>>
  BY DEF Load, serverVars
<1>2. poll[g] \in PollRecords /\ poll[g].run = 0 /\ poll[g].with = 0
  BY <1>1 DEF CockpitInv, CockpitTypes, PollOK
<1>3. PICK k \in 0 .. MaxPolls : k = poll[g].polls + 1
  BY <1>1, <1>2 DEF PollRecords
<1>4. \E q \in 0 .. MaxReports :
        /\ poll' = [poll EXCEPT ![g] = [[[poll[g] EXCEPT !.stage = "asked"] EXCEPT !.with = q] EXCEPT !.polls = k]]
        /\ IF q = 0 THEN UNCHANGED <<report, attempt>>
           ELSE /\ IsNext(q) /\ attempt.kind = "none" /\ attempt' = Recorded(q)
                /\ report' = [report EXCEPT ![q] = [stage |-> "asked", answer |-> "none", joined |-> 0]]
  <2>1. CASE reading /\ attempt.kind = "none"
    <3>1. PICK q \in Reports :
            /\ IsNext(q) /\ report' = [report EXCEPT ![q].stage = "asked"] /\ attempt' = Recorded(q)
            /\ poll' = [poll EXCEPT ![g].stage = "asked", ![g].with = q, ![g].polls = @ + 1]
      BY <2>1 DEF Load
    <3>2. poll' = [poll EXCEPT ![g] = [[[poll[g] EXCEPT !.stage = "asked"] EXCEPT !.with = q] EXCEPT !.polls = k]]
      BY <1>2, <1>3, <3>1 DEF PollRecords, CockpitInv, CockpitTypes
    <3>3. report[q] \in ReportRecords /\ report[q].answer = "none" /\ report[q].joined = 0
      BY <3>1 DEF IsNext, CockpitInv, CockpitTypes, ReportOK
    <3>4. [report[q] EXCEPT !.stage = "asked"] = [stage |-> "asked", answer |-> "none", joined |-> 0]
      BY <3>3 DEF ReportRecords
    <3>5. report' = [report EXCEPT ![q] = [stage |-> "asked", answer |-> "none", joined |-> 0]]
      BY <3>1, <3>4 DEF CockpitInv, CockpitTypes
    <3> QED
      BY <2>1, <3>1, <3>2, <3>5
  <2>2. CASE ~(reading /\ attempt.kind = "none")
    <3>1. /\ poll' = [poll EXCEPT ![g].stage = "asked", ![g].with = 0, ![g].polls = @ + 1]
          /\ UNCHANGED <<report, attempt>>
      BY <2>2 DEF Load
    <3>2. poll' = [poll EXCEPT ![g] = [[[poll[g] EXCEPT !.stage = "asked"] EXCEPT !.with = 0] EXCEPT !.polls = k]]
      BY <1>2, <1>3, <3>1 DEF PollRecords, CockpitInv, CockpitTypes
    <3>3. 0 \in 0 .. MaxReports
      OBVIOUS
    <3> QED
      BY <3>1, <3>2, <3>3
  <2> QED
    BY <2>1, <2>2
<1>5. PICK q \in 0 .. MaxReports :
        /\ poll' = [poll EXCEPT ![g] = [[[poll[g] EXCEPT !.stage = "asked"] EXCEPT !.with = q] EXCEPT !.polls = k]]
        /\ IF q = 0 THEN UNCHANGED <<report, attempt>>
           ELSE /\ IsNext(q) /\ attempt.kind = "none" /\ attempt' = Recorded(q)
                /\ report' = [report EXCEPT ![q] = [stage |-> "asked", answer |-> "none", joined |-> 0]]
  BY <1>4
<1>6. PICK p : p = [[[poll[g] EXCEPT !.stage = "asked"] EXCEPT !.with = q] EXCEPT !.polls = k]
  OBVIOUS
<1>7. p \in PollRecords /\ p.stage = "asked" /\ p.with = q /\ p.run = 0
  BY <1>2, <1>3, <1>5, <1>6 DEF PollRecords
<1>8. poll' = [poll EXCEPT ![g] = p] /\ poll' \in [Generations -> PollRecords]
  BY <1>5, <1>6, <1>7 DEF CockpitInv, CockpitTypes
<1>9. /\ report' \in [Reports -> ReportRecords] /\ attempt' \in ReportAttempts
      /\ q # 0 => attempt'.kind = "loading" /\ attempt'.of = q /\ report'[q].joined = 0
      /\ (\A r \in Reports : ReportOK(r, report[r]))' /\ AttemptOK'
  <2>1. CASE q = 0
    BY <1>5, <2>1 DEF CockpitInv, CockpitTypes, ReportOK, AttemptOK
  <2>2. CASE q # 0
    BY <1>5, <2>2, AskedOfReport
  <2> QED
    BY <2>1, <2>2
<1>10. ASSUME NEW h \in Generations PROVE PollOK(h, poll[h])'
  <2>1. PollOK(h, poll[h])
    BY DEF CockpitInv
  <2>2. CASE h = g
    <3>1. poll'[h] = p
      BY <1>8, <2>2 DEF CockpitInv, CockpitTypes
    <3>2. p.with # 0 => Carried(p.with)'
      BY <1>7, <1>9 DEF Carried
    <3> QED
      BY <1>1, <1>7, <2>2, <3>1, <3>2 DEF PollOK, CockpitInv, CockpitTypes
  <2>3. CASE h # g
    <3>1. poll'[h] = poll[h]
      BY <1>8, <2>3 DEF CockpitInv, CockpitTypes
    <3> QED
      BY <1>1, <2>1, <2>3, <3>1 DEF PollOK
  <2> QED
    BY <2>2, <2>3
<1>11. PollGoesOn'
  BY <1>1, <1>7, <1>8 DEF PollGoesOn, CockpitInv, CockpitTypes
<1> QED
  BY <1>1, <1>8, <1>9, <1>10, <1>11 DEF CockpitInv, CockpitTypes, MilestoneOnce

LEMMA AnswerRunStep ==
  ASSUME CockpitInv, NEW g \in Generations, AnswerRun(g)
  PROVE  CockpitInv'
<1> USE CockpitNumbers
<1>1. PICK n \in {sequence, -1} : poll' = [poll EXCEPT ![g].run = n]
  BY DEF AnswerRun
<1>2. /\ poll[g].stage = "asked"
      /\ UNCHANGED <<sequence, blocked, generation, hydrated, troubled, report, attempt, due, reading, observed,
                     milestone>>
  BY DEF AnswerRun, serverVars, reportVars
<1>3. PICK p : p = [poll[g] EXCEPT !.run = n]
  OBVIOUS
<1>4. /\ p \in PollRecords /\ p.run = n /\ p.stage = "asked" /\ p.with = poll[g].with
  BY <1>2, <1>3 DEF PollRecords, CockpitInv, CockpitTypes
<1>5. poll' = [poll EXCEPT ![g] = p] /\ poll' \in [Generations -> PollRecords]
  BY <1>1, <1>3, <1>4 DEF CockpitInv, CockpitTypes
<1>6. ASSUME NEW h \in Generations PROVE PollOK(h, poll[h])'
  <2>1. PollOK(h, poll[h])
    BY DEF CockpitInv
  <2>2. CASE h = g
    <3>1. poll'[h] = p
      BY <1>5, <2>2 DEF CockpitInv, CockpitTypes
    <3>2. n <= sequence /\ (n > 0 => hydrated <= n)
      BY DEF CockpitInv, CockpitTypes
    <3> QED
      BY <1>2, <1>4, <2>1, <2>2, <3>1, <3>2 DEF PollOK, Carried
  <2>3. CASE h # g
    BY <1>2, <1>5, <2>1, <2>3 DEF PollOK, Carried, CockpitInv, CockpitTypes
  <2> QED
    BY <2>2, <2>3
<1>7. PollGoesOn'
  <2>1. PollGoesOn
    BY DEF CockpitInv
  <2>2. generation # 0 /\ generation # g => poll'[generation] = poll[generation]
    BY <1>5 DEF CockpitInv, CockpitTypes
  <2>3. poll'[g].stage = "asked"
    BY <1>4, <1>5 DEF CockpitInv, CockpitTypes
  <2> QED
    BY <1>2, <2>1, <2>2, <2>3 DEF PollGoesOn, TerminalAt
<1> QED
  BY <1>2, <1>5, <1>6, <1>7 DEF CockpitInv, CockpitTypes, ReportOK, AttemptOK, MilestoneOnce

LEMMA ConcludingTyped ==
  ASSUME CockpitInv, NEW q \in Reports, NEW n \in Sequences \cup {0}, report[q].answer # "none"
  PROVE  /\ Concluding(q, n) \in ReportAttempts /\ Concluding(q, n).of = q /\ Concluding(q, n).sequence = n
         /\ Concluding(q, n).kind \in {"valid", "pending", "terminal"}
         /\ Concluding(q, n).kind = "valid" => report[q].answer = "valid"
         /\ report[q].answer = "valid" => Concluding(q, n).kind = "valid"
<1>1. PICK kind : kind = CASE report[q].answer = "valid" -> "valid"
                          [] report[q].answer = "pending" -> "pending"
                          [] OTHER -> "terminal"
  OBVIOUS
<1>2. kind \in {"valid", "pending", "terminal"} /\ (kind = "valid" <=> report[q].answer = "valid")
  <2>1. CASE report[q].answer = "valid"
    BY <1>1, <2>1
  <2>2. CASE report[q].answer = "pending"
    BY <1>1, <2>2
  <2>3. CASE report[q].answer \notin {"valid", "pending"}
    BY <1>1, <2>3
  <2> QED
    BY <2>1, <2>2, <2>3
<1>3. Concluding(q, n) = [kind |-> kind, sequence |-> n, of |-> q]
  BY <1>1 DEF Concluding
<1> QED
  BY <1>2, <1>3, CockpitNumbers DEF ReportAttempts, AttemptKinds

\* The current effect shows the run it was answered.
LEMMA ShowRunStep ==
  ASSUME CockpitInv, NEW g \in Generations, ShowRun(g)
  PROVE  CockpitInv' /\ hydrated <= hydrated' /\ (attempt.kind = "valid" => attempt'.kind = "valid")
<1> USE CockpitNumbers
<1>1. PICK n, q : n = poll[g].run /\ q = poll[g].with
  OBVIOUS
<1>2. /\ poll[g] \in PollRecords /\ PollOK(g, poll[g]) /\ poll[g].stage = "asked"
      /\ n \in Sequences /\ q \in 0 .. MaxReports
      /\ q # 0 => q \in Reports /\ report[q].stage = "answered" /\ report[q].answer # "none"
  BY <1>1 DEF ShowRun, Loaded, CockpitInv, CockpitTypes, PollRecords, ReportOK
<1>3. UNCHANGED <<sequence, blocked, generation, report, reading>>
  BY DEF ShowRun, serverVars
<1>4. \A h \in Generations : h # g => poll'[h] = poll[h]
  BY DEF ShowRun, LoadOver, CockpitInv, CockpitTypes
<1>5. CASE NotCleanedUp(g)
  <2>1. g = generation
    BY <1>5 DEF NotCleanedUp
  <2>2. /\ hydrated' = n /\ troubled' = FALSE /\ due' = TRUE
        /\ attempt' = IF q = 0 THEN attempt ELSE Concluding(q, n)
        /\ milestone' = IF observed # 0 /\ n > observed /\ ~PreflightOver(observed) /\ PreflightOver(n)
                          THEN milestone + 1 ELSE milestone
        /\ observed' = IF observed = 0 \/ (n > observed /\ ~PreflightOver(observed)) THEN n ELSE observed
        /\ poll' = [poll EXCEPT ![g].stage = IF TerminalAt(n) THEN "over" ELSE "due", ![g].run = 0, ![g].with = 0]
    BY <1>1, <1>5 DEF ShowRun
  <2>3. PICK st \in {"over", "due"} : st = IF TerminalAt(n) THEN "over" ELSE "due"
    OBVIOUS
  <2>4. PICK p : p = [[[poll[g] EXCEPT !.stage = st] EXCEPT !.run = 0] EXCEPT !.with = 0]
    OBVIOUS
  <2>5. p \in PollRecords /\ p.stage = st /\ p.run = 0 /\ p.with = 0
    <3>1. PICK a : a = [poll[g] EXCEPT !.stage = st]
      OBVIOUS
    <3>2. a \in PollRecords /\ a.stage = st
      BY <1>2, <3>1 DEF PollRecords
    <3>3. PICK b : b = [a EXCEPT !.run = 0]
      OBVIOUS
    <3>4. b \in PollRecords /\ b.stage = st /\ b.run = 0
      BY <3>2, <3>3 DEF PollRecords
    <3>5. p = [b EXCEPT !.with = 0]
      BY <2>4, <3>1, <3>3
    <3> QED
      BY <3>4, <3>5 DEF PollRecords
  <2>6. poll' = [poll EXCEPT ![g] = p] /\ poll' \in [Generations -> PollRecords] /\ poll'[g] = p
    BY <1>2, <2>2, <2>3, <2>4, <2>5 DEF PollRecords, CockpitInv, CockpitTypes
  <2>7. n <= sequence /\ hydrated <= n
    BY <1>1, <1>2, <2>1 DEF PollOK, CockpitInv, CockpitTypes
  <2>8. /\ attempt' \in ReportAttempts /\ (attempt.kind = "valid" => attempt'.kind = "valid")
        /\ (\A r \in Reports : ReportOK(r, report[r]))' /\ AttemptOK'
    <3>1. CASE q = 0
      BY <1>3, <2>2, <3>1 DEF CockpitInv, CockpitTypes, ReportOK, AttemptOK
    <3>2. CASE q # 0
      <4>1. attempt' = Concluding(q, n)
        BY <2>2, <3>2
      <4>2. /\ attempt' \in ReportAttempts /\ attempt'.of = q /\ attempt'.kind \in {"valid", "pending", "terminal"}
            /\ attempt'.kind = "valid" <=> report[q].answer = "valid"
        BY <1>2, <3>2, <4>1, ConcludingTyped
      <4>3. attempt.of = q
        BY <1>1, <1>2, <2>1, <3>2 DEF PollOK, Carried
      <4>4. attempt.kind = "valid" => report[q].answer = "valid"
        BY <4>3 DEF CockpitInv, AttemptOK
      <4>5. \A r \in Reports : report[r].stage # "asked"
        BY <1>2, <3>2, <4>3 DEF CockpitInv, ReportOK
      <4>6. (\A r \in Reports : ReportOK(r, report[r]))'
        BY <1>3, <4>5 DEF CockpitInv, ReportOK
      <4>7. AttemptOK'
        BY <1>2, <1>3, <3>2, <4>2 DEF AttemptOK
      <4> QED
        BY <4>2, <4>4, <4>6, <4>7
    <3> QED
      BY <3>1, <3>2
  <2>9. ASSUME NEW h \in Generations PROVE PollOK(h, poll[h])'
    <3>1. CASE h = g
      BY <1>3, <2>1, <2>3, <2>5, <2>6, <3>1 DEF PollOK, CockpitInv, CockpitTypes
    <3>2. CASE h # g
      <4>1. PollOK(h, poll[h])
        BY DEF CockpitInv
      <4> QED
        BY <1>3, <1>4, <2>1, <3>2, <4>1 DEF PollOK
    <3> QED
      BY <3>1, <3>2
  <2>10. PollGoesOn'
    BY <1>2, <1>3, <2>1, <2>2, <2>3, <2>5, <2>6 DEF PollGoesOn, TerminalAt
  <2>11. observed' \in Sequences \cup {0} /\ milestone' \in Nat /\ MilestoneOnce'
    <3>1. MilestoneOnce /\ observed \in Sequences \cup {0} /\ milestone \in Nat
      BY DEF CockpitInv, CockpitTypes
    <3>2. CASE observed # 0 /\ n > observed /\ ~PreflightOver(observed)
      <4>1. milestone = 0 /\ observed' = n
        BY <2>2, <3>1, <3>2 DEF MilestoneOnce
      <4>2. milestone' = IF PreflightOver(n) THEN 1 ELSE 0
        BY <2>2, <3>2, <4>1
      <4> QED
        BY <1>2, <4>1, <4>2 DEF MilestoneOnce
    <3>3. CASE observed = 0
      <4>1. milestone' = milestone /\ observed' = n
        BY <2>2, <3>3
      <4>2. milestone = 0
        BY <3>1, <3>3 DEF MilestoneOnce, PreflightOver
      <4> QED
        BY <1>2, <4>1, <4>2 DEF MilestoneOnce
    <3>4. CASE observed # 0 /\ ~(n > observed /\ ~PreflightOver(observed))
      <4>1. milestone' = milestone /\ observed' = observed
        BY <2>2, <3>4
      <4> QED
        BY <3>1, <4>1 DEF MilestoneOnce, PreflightOver
    <3> QED
      BY <3>2, <3>3, <3>4
  <2>12. CockpitTypes'
    BY <1>2, <1>3, <2>2, <2>6, <2>8, <2>11 DEF CockpitInv, CockpitTypes
  <2> QED
    BY <1>3, <2>2, <2>7, <2>8, <2>9, <2>10, <2>11, <2>12 DEF CockpitInv
<1>6. CASE ~NotCleanedUp(g)
  <2>1. g # generation
    BY <1>6 DEF NotCleanedUp
  <2>2. poll' = [poll EXCEPT ![g] = Fresh("over")] /\ UNCHANGED <<hydrated, troubled, due, attempt, milestone, observed>>
    BY <1>6 DEF ShowRun, LoadOver
  <2>3. Fresh("over") \in PollRecords /\ Fresh("over").stage = "over" /\ Fresh("over").run = 0 /\ Fresh("over").with = 0
    BY DEF Fresh, PollRecords
  <2>4. poll' \in [Generations -> PollRecords] /\ poll'[g] = Fresh("over")
    BY <2>2, <2>3 DEF CockpitInv, CockpitTypes
  <2>5. ASSUME NEW h \in Generations PROVE PollOK(h, poll[h])'
    <3>1. PollOK(h, poll[h])
      BY DEF CockpitInv
    <3>2. CASE h = g
      <4>1. generation = 0 \/ ~(g > generation)
        BY <1>2 DEF PollOK
      <4> QED
        BY <1>3, <2>1, <2>3, <2>4, <3>2, <4>1 DEF PollOK, CockpitInv, CockpitTypes
    <3>3. CASE h # g
      BY <1>3, <1>4, <2>2, <3>1, <3>3 DEF PollOK, Carried
    <3> QED
      BY <3>2, <3>3
  <2>6. PollGoesOn'
    <3>1. PollGoesOn /\ (generation # 0 => generation \in Generations)
      BY DEF CockpitInv, CockpitTypes
    <3> QED
      BY <1>3, <1>4, <2>1, <2>2, <3>1 DEF PollGoesOn, TerminalAt
  <2>7. CockpitTypes' /\ (hydrated <= sequence)' /\ hydrated <= hydrated'
    BY <1>3, <2>2, <2>4 DEF CockpitInv, CockpitTypes
  <2> QED
    BY <1>3, <2>2, <2>5, <2>6, <2>7 DEF CockpitInv, ReportOK, AttemptOK, MilestoneOnce
<1> QED
  BY <1>5, <1>6

LEMMA LoadFailsStep ==
  ASSUME CockpitInv, NEW g \in Generations, LoadFails(g)
  PROVE  CockpitInv'
<1> USE CockpitNumbers
<1>1. /\ poll[g].stage = "asked" /\ poll' = [poll EXCEPT ![g] = Fresh("over")]
      /\ troubled' = IF g = generation THEN TRUE ELSE troubled
      /\ UNCHANGED <<sequence, blocked, generation, hydrated, report, attempt, due, reading, observed, milestone>>
  BY DEF LoadFails, LoadOver, NotCleanedUp, serverVars, reportVars
<1>2. Fresh("over") \in PollRecords /\ Fresh("over").stage = "over" /\ Fresh("over").run = 0 /\ Fresh("over").with = 0
  BY DEF Fresh, PollRecords
<1>3. /\ poll' \in [Generations -> PollRecords] /\ poll'[g] = Fresh("over")
      /\ \A h \in Generations : h # g => poll'[h] = poll[h]
  BY <1>1, <1>2 DEF CockpitInv, CockpitTypes
<1>4. ASSUME NEW h \in Generations PROVE PollOK(h, poll[h])'
  <2>1. PollOK(h, poll[h])
    BY DEF CockpitInv
  <2>2. CASE h = g
    BY <1>1, <1>2, <1>3, <2>1, <2>2 DEF PollOK, CockpitInv, CockpitTypes
  <2>3. CASE h # g
    BY <1>1, <1>3, <2>1, <2>3 DEF PollOK, Carried
  <2> QED
    BY <2>2, <2>3
<1>5. PollGoesOn'
  <2>1. PollGoesOn /\ (generation # 0 => generation \in Generations)
    BY DEF CockpitInv, CockpitTypes
  <2> QED
    BY <1>1, <1>3, <2>1 DEF PollGoesOn, TerminalAt
<1>6. CockpitTypes'
  BY <1>1, <1>3 DEF CockpitInv, CockpitTypes
<1> QED
  BY <1>1, <1>4, <1>5, <1>6 DEF CockpitInv, ReportOK, AttemptOK, MilestoneOnce

\* Clearing the timer of an effect leaves nothing ahead of it.
LEMMA Cleared ==
  ASSUME CockpitInv, NEW g \in Generations
  PROVE  /\ TimerCleared(g) \in PollRecords /\ TimerCleared(g).stage # "due"
         /\ TimerCleared(g).stage # "asked" => TimerCleared(g).run = 0 /\ TimerCleared(g).with = 0
         /\ TimerCleared(g).run <= sequence
<1> USE CockpitNumbers
<1>1. poll[g] \in PollRecords /\ PollOK(g, poll[g])
  BY DEF CockpitInv, CockpitTypes
<1>2. CASE poll[g].stage = "due"
  BY <1>1, <1>2 DEF TimerCleared, PollRecords, PollOK, CockpitInv, CockpitTypes
<1>3. CASE poll[g].stage # "due"
  BY <1>1, <1>3 DEF TimerCleared, PollOK
<1> QED
  BY <1>2, <1>3

LEMMA RestartPollingStep ==
  ASSUME CockpitInv, RestartPolling
  PROVE  CockpitInv'
<1> USE CockpitNumbers
<1>1. PICK g \in Generations : g = generation /\ g < MaxGeneration
  BY DEF RestartPolling, CockpitInv, CockpitTypes
<1>2. PICK d \in Generations : d = g + 1
  BY <1>1
<1>3. /\ generation' = d /\ troubled' = FALSE
      /\ poll' = [h \in Generations |-> IF h = g THEN TimerCleared(g) ELSE IF h = d THEN Fresh("due") ELSE poll[h]]
      /\ UNCHANGED <<sequence, blocked, hydrated, report, attempt, due, reading, observed, milestone>>
  BY <1>1, <1>2 DEF RestartPolling, serverVars, reportVars
<1>4. Fresh("due") \in PollRecords /\ Fresh("due").stage = "due" /\ Fresh("due").run = 0 /\ Fresh("due").with = 0
  BY DEF Fresh, PollRecords
<1>5. poll' \in [Generations -> PollRecords]
  BY <1>3, <1>4, Cleared DEF CockpitInv, CockpitTypes
<1>6. ASSUME NEW h \in Generations PROVE PollOK(h, poll[h])'
  <2>1. PollOK(h, poll[h])
    BY DEF CockpitInv
  <2>2. CASE h = g
    <3>1. poll'[h] = TimerCleared(g)
      BY <1>3, <2>2
    <3> QED
      BY <1>1, <1>2, <1>3, <2>2, <3>1, Cleared DEF PollOK, CockpitInv, CockpitTypes
  <2>3. CASE h = d
    <3>1. poll'[h] = Fresh("due")
      BY <1>2, <1>3, <2>3
    <3> QED
      BY <1>2, <1>3, <1>4, <2>3, <3>1 DEF PollOK, CockpitInv, CockpitTypes
  <2>4. CASE h # g /\ h # d
    <3>1. poll'[h] = poll[h]
      BY <1>3, <2>4
    <3>2. h > d => h > generation /\ generation # 0
      BY <1>1, <1>2
    <3>3. poll[h].stage # "due"
      BY <1>1, <2>1, <2>4 DEF PollOK
    <3> QED
      BY <1>2, <1>3, <2>1, <2>4, <3>1, <3>2, <3>3 DEF PollOK
  <2> QED
    BY <2>2, <2>3, <2>4
<1>7. PollGoesOn'
  BY <1>2, <1>3, <1>4 DEF PollGoesOn
<1>8. CockpitTypes'
  BY <1>2, <1>3, <1>5 DEF CockpitInv, CockpitTypes
<1> QED
  BY <1>3, <1>6, <1>7, <1>8 DEF CockpitInv, ReportOK, AttemptOK, MilestoneOnce

LEMMA LeaveCockpitStep ==
  ASSUME CockpitInv, LeaveCockpit
  PROVE  CockpitInv'
<1> USE CockpitNumbers
<1>1. PICK g \in Generations : g = generation
  BY DEF LeaveCockpit, CockpitInv, CockpitTypes
<1>2. /\ generation' = 0 /\ due' = FALSE /\ poll' = [poll EXCEPT ![g] = TimerCleared(g)]
      /\ UNCHANGED <<sequence, blocked, hydrated, troubled, report, attempt, reading, observed, milestone>>
  BY <1>1 DEF LeaveCockpit, serverVars
<1>3. /\ poll' \in [Generations -> PollRecords] /\ poll'[g] = TimerCleared(g)
      /\ \A h \in Generations : h # g => poll'[h] = poll[h]
  BY <1>2, Cleared DEF CockpitInv, CockpitTypes
<1>4. ASSUME NEW h \in Generations PROVE PollOK(h, poll[h])'
  <2>1. PollOK(h, poll[h])
    BY DEF CockpitInv
  <2>2. CASE h = g
    BY <1>2, <1>3, <2>2, Cleared DEF PollOK
  <2>3. CASE h # g
    BY <1>1, <1>2, <1>3, <2>1, <2>3 DEF PollOK
  <2> QED
    BY <2>2, <2>3
<1>5. PollGoesOn'
  BY <1>2 DEF PollGoesOn
<1>6. CockpitTypes'
  <2>1. 0 \in 0 .. MaxGeneration /\ FALSE \in BOOLEAN
    OBVIOUS
  <2> QED
    BY <1>2, <1>3, <2>1 DEF CockpitInv, CockpitTypes
<1> QED
  BY <1>2, <1>4, <1>5, <1>6 DEF CockpitInv, ReportOK, AttemptOK, MilestoneOnce

LEMMA ChangeStepStep ==
  ASSUME CockpitInv, ChangeStep
  PROVE  CockpitInv'
<1>1. /\ reading' \in BOOLEAN /\ due' = TRUE
      /\ UNCHANGED <<sequence, blocked, generation, poll, hydrated, troubled, report, attempt, observed, milestone>>
  BY DEF ChangeStep, serverVars, CockpitInv, CockpitTypes
<1>2. CockpitTypes'
  BY <1>1 DEF CockpitInv, CockpitTypes
<1> QED
  BY <1>1, <1>2 DEF CockpitInv, PollOK, Carried, ReportOK, AttemptOK, PollGoesOn, TerminalAt, MilestoneOnce

\* The report's variables may change so, if only they change.
LEMMA ReportsMove ==
  ASSUME CockpitInv, UNCHANGED <<sequence, blocked, generation, poll, hydrated, troubled, reading, observed, milestone>>,
         due' \in BOOLEAN, report' \in [Reports -> ReportRecords], attempt' \in ReportAttempts,
         (\A q \in Reports : ReportOK(q, report[q]))', AttemptOK',
         \A q \in Reports : poll[generation].with = q /\ generation # 0 => (Carried(q))'
  PROVE  CockpitInv'
<1> USE CockpitNumbers
<1>1. CockpitTypes'
  BY DEF CockpitInv, CockpitTypes
<1>2. ASSUME NEW g \in Generations PROVE PollOK(g, poll[g])'
  <2>1. PollOK(g, poll[g]) /\ poll[g].with \in Reports \cup {0}
    BY DEF CockpitInv, CockpitTypes, PollRecords
  <2>2. g = generation /\ poll[g].with # 0 => (Carried(poll[g].with))'
    BY <2>1
  <2> QED
    BY <2>1, <2>2 DEF PollOK
<1> QED
  BY <1>1, <1>2 DEF CockpitInv, PollGoesOn, TerminalAt, MilestoneOnce

LEMMA CarriedNow ==
  ASSUME CockpitInv, NEW q \in Reports, generation # 0, poll[generation].with = q
  PROVE  Carried(q)
  BY CockpitNumbers DEF CockpitInv, CockpitTypes, PollOK

LEMMA ReportEffectStep ==
  ASSUME CockpitInv, ReportEffect
  PROVE  CockpitInv' /\ (attempt.kind = "valid" => attempt'.kind = "valid")
<1> USE CockpitNumbers
<1>1. /\ due' = FALSE
      /\ UNCHANGED <<sequence, blocked, generation, poll, hydrated, troubled, reading, observed, milestone>>
  BY DEF ReportEffect, serverVars
<1>2. hydrated \in Sequences \cup {0} /\ attempt \in ReportAttempts /\ report \in [Reports -> ReportRecords]
  BY DEF CockpitInv, CockpitTypes
<1>3. CASE UNCHANGED <<report, attempt>>
  <2>1. (\A q \in Reports : ReportOK(q, report[q]))' /\ AttemptOK'
    BY <1>3 DEF CockpitInv, ReportOK, AttemptOK
  <2>2. \A q \in Reports : poll[generation].with = q /\ generation # 0 => (Carried(q))'
    BY <1>1, <1>3, CarriedNow DEF Carried
  <2> QED
    BY <1>1, <1>2, <1>3, <2>1, <2>2, ReportsMove
<1>4. CASE /\ ~(~reading \/ hydrated = 0 \/ Settled) /\ attempt.kind = "loading"
           /\ report[attempt.of].stage = "answered"
  <2>1. PICK q \in Reports : q = attempt.of
    BY <1>4 DEF CockpitInv, AttemptOK
  <2>2. attempt' = Concluding(q, hydrated) /\ UNCHANGED report
    BY <1>4, <2>1 DEF ReportEffect
  <2>3. report[q].stage = "answered" /\ report[q].answer # "none" /\ report[q].joined = 0
    BY <1>4, <2>1 DEF CockpitInv, ReportOK
  <2>4. /\ attempt' \in ReportAttempts /\ attempt'.of = q /\ attempt'.sequence = hydrated
        /\ attempt'.kind \in {"valid", "pending", "terminal"}
        /\ attempt'.kind = "valid" => report[q].answer = "valid"
    BY <1>2, <2>2, <2>3, ConcludingTyped
  <2>5. \A p \in Reports : report[p].stage # "asked"
    BY <2>1, <2>3 DEF CockpitInv, ReportOK
  <2>6. (\A p \in Reports : ReportOK(p, report[p]))' /\ AttemptOK'
    BY <2>1, <2>2, <2>4, <2>5 DEF CockpitInv, ReportOK, AttemptOK
  <2>7. \A p \in Reports : poll[generation].with = p /\ generation # 0 => (Carried(p))'
    BY <1>1, <2>1, <2>2, <2>4, CarriedNow DEF Carried
  <2> QED
    BY <1>1, <1>2, <1>4, <2>2, <2>4, <2>6, <2>7, ReportsMove
<1>5. CASE /\ ~(~reading \/ hydrated = 0 \/ Settled) /\ attempt.kind = "loading"
           /\ report[attempt.of].stage # "answered"
  <2>1. PICK q \in Reports : q = attempt.of
    BY <1>5 DEF CockpitInv, AttemptOK
  <2>2. report' = [report EXCEPT ![q].joined = hydrated] /\ UNCHANGED attempt
    BY <1>5, <2>1 DEF ReportEffect
  <2>3. PICK r : r = [report[q] EXCEPT !.joined = hydrated]
    OBVIOUS
  <2>4. r \in ReportRecords /\ r.joined = hydrated /\ r.stage = report[q].stage /\ r.answer = report[q].answer
    BY <1>2, <2>3 DEF ReportRecords
  <2>5. /\ report' \in [Reports -> ReportRecords] /\ report'[q] = r
        /\ \A p \in Reports : p # q => report'[p] = report[p]
    BY <1>2, <2>2, <2>3, <2>4
  <2>6. report[q].stage = "asked"
    BY <1>2, <1>5, <2>1 DEF CockpitInv, AttemptOK, ReportRecords
  <2>7. ASSUME NEW p \in Reports PROVE ReportOK(p, report[p])'
    <3>1. ReportOK(p, report[p])
      BY DEF CockpitInv
    <3> QED
      BY <2>2, <2>4, <2>5, <2>6, <3>1 DEF ReportOK
  <2>8. AttemptOK'
    BY <2>1, <2>2, <2>4, <2>5, <2>6, <1>5 DEF AttemptOK
  <2>9. \A p \in Reports : poll[generation].with = p /\ generation # 0 => (Carried(p))'
    BY <1>1, <2>1, <2>2, <2>4, <2>5, CarriedNow DEF Carried
  <2> QED
    BY <1>1, <1>2, <2>2, <2>5, <2>7, <2>8, <2>9, ReportsMove
<1>6. CASE ~(~reading \/ hydrated = 0 \/ Settled) /\ attempt.kind # "loading"
  <2>1. PICK q \in Reports :
          /\ IsNext(q) /\ attempt' = Recorded(q)
          /\ report' = [report EXCEPT ![q].stage = "asked", ![q].joined = hydrated]
    BY <1>6 DEF ReportEffect
  <2>2. report[q] \in ReportRecords /\ report[q].answer = "none"
    BY <1>2, <2>1 DEF IsNext, CockpitInv, ReportOK
  <2>3. [[report[q] EXCEPT !.stage = "asked"] EXCEPT !.joined = hydrated]
          = [stage |-> "asked", answer |-> "none", joined |-> hydrated]
    <3>1. PICK a : a = [report[q] EXCEPT !.stage = "asked"]
      OBVIOUS
    <3>2. a \in ReportRecords /\ a.stage = "asked" /\ a.answer = "none"
      BY <2>2, <3>1 DEF ReportRecords
    <3>3. [a EXCEPT !.joined = hydrated] = [stage |-> "asked", answer |-> "none", joined |-> hydrated]
      BY <3>2 DEF ReportRecords
    <3> QED
      BY <3>1, <3>3
  <2>4. report' = [report EXCEPT ![q] = [[report[q] EXCEPT !.stage = "asked"] EXCEPT !.joined = hydrated]]
    BY <1>2, <2>1, <2>2 DEF ReportRecords
  <2>5. report' = [report EXCEPT ![q] = [stage |-> "asked", answer |-> "none", joined |-> hydrated]]
    BY <2>3, <2>4
  <2>6. /\ report' \in [Reports -> ReportRecords] /\ attempt' \in ReportAttempts
        /\ (\A p \in Reports : ReportOK(p, report[p]))' /\ AttemptOK'
    BY <1>6, <2>1, <2>5, AskedOfReport
  <2>7. attempt.kind \notin {"valid", "terminal"} /\ ~(attempt.kind = "pending" /\ hydrated <= attempt.sequence)
    BY <1>6 DEF Settled
  <2>8. attempt.kind = "none" \/ (attempt.kind = "pending" /\ attempt.sequence # hydrated)
    BY <1>2, <1>6, <2>7 DEF ReportAttempts, AttemptKinds
  <2>9. \A p \in Reports : ~(poll[generation].with = p /\ generation # 0)
    BY <2>8, <1>6, CarriedNow DEF Carried
  <2> QED
    BY <1>1, <2>6, <2>7, <2>9, ReportsMove
<1> QED
  BY <1>3, <1>4, <1>5, <1>6 DEF ReportEffect

LEMMA AnswerReportStep ==
  ASSUME CockpitInv, NEW q \in Reports, AnswerReport(q)
  PROVE  CockpitInv' /\ attempt' = attempt
<1> USE CockpitNumbers
<1>1. PICK a \in ReportAnswers \ {"none"} : report' = [report EXCEPT ![q].answer = a]
  BY DEF AnswerReport, ReportAnswers
<1>2. /\ report[q].stage = "asked" /\ report[q].answer = "none"
      /\ UNCHANGED <<sequence, blocked, generation, poll, hydrated, troubled, reading, observed, milestone, attempt, due>>
  BY DEF AnswerReport, serverVars
<1>3. report \in [Reports -> ReportRecords] /\ attempt \in ReportAttempts /\ due \in BOOLEAN
  BY DEF CockpitInv, CockpitTypes
<1>4. PICK r : r = [report[q] EXCEPT !.answer = a]
  OBVIOUS
<1>5. r \in ReportRecords /\ r.joined = report[q].joined /\ r.stage = "asked" /\ r.answer = a
  BY <1>1, <1>2, <1>3, <1>4 DEF ReportRecords
<1>6. /\ report' \in [Reports -> ReportRecords] /\ report'[q] = r
      /\ \A p \in Reports : p # q => report'[p] = report[p]
  BY <1>1, <1>3, <1>4, <1>5
<1>7. ASSUME NEW p \in Reports PROVE ReportOK(p, report[p])'
  <2>1. ReportOK(p, report[p])
    BY DEF CockpitInv
  <2> QED
    BY <1>2, <1>5, <1>6, <2>1 DEF ReportOK
<1>8. AttemptOK'
  BY <1>2, <1>5, <1>6 DEF AttemptOK, CockpitInv
<1>9. \A p \in Reports : poll[generation].with = p /\ generation # 0 => (Carried(p))'
  BY <1>2, <1>5, <1>6, CarriedNow DEF Carried
<1> QED
  BY <1>2, <1>3, <1>6, <1>7, <1>8, <1>9, ReportsMove

LEMMA ReportArrivesStep ==
  ASSUME CockpitInv, NEW q \in Reports, ReportArrives(q)
  PROVE  CockpitInv' /\ (attempt.kind = "valid" => attempt'.kind = "valid")
<1> USE CockpitNumbers
<1>1. /\ report[q].stage = "asked" /\ report[q].answer # "none"
      /\ report' = [report EXCEPT ![q].stage = "answered", ![q].joined = 0]
      /\ attempt' = IF report[q].joined = 0 THEN attempt ELSE Concluding(q, report[q].joined)
      /\ UNCHANGED <<sequence, blocked, generation, poll, hydrated, troubled, reading, observed, milestone, due>>
  BY DEF ReportArrives, serverVars
<1>2. report \in [Reports -> ReportRecords] /\ attempt \in ReportAttempts /\ due \in BOOLEAN
  BY DEF CockpitInv, CockpitTypes
<1>3. PICK r : r = [[report[q] EXCEPT !.stage = "answered"] EXCEPT !.joined = 0]
  OBVIOUS
<1>4. r \in ReportRecords /\ r.joined = 0 /\ r.stage = "answered" /\ r.answer = report[q].answer
  BY <1>2, <1>3 DEF ReportRecords
<1>5. report' = [report EXCEPT ![q] = r]
  BY <1>1, <1>2, <1>3 DEF ReportRecords
<1>6. /\ report' \in [Reports -> ReportRecords] /\ report'[q] = r
      /\ \A p \in Reports : p # q => report'[p] = report[p]
  BY <1>2, <1>4, <1>5
<1>7. attempt.kind = "loading" /\ attempt.of = q /\ \A p \in Reports : p # q => report[p].stage # "asked"
  BY <1>1 DEF CockpitInv, ReportOK
<1>8. report[q].joined \in Sequences \cup {0}
  BY <1>2 DEF ReportRecords
<1>9. /\ attempt' \in ReportAttempts /\ attempt'.of = q /\ attempt'.kind # "none"
      /\ attempt'.kind = "valid" => report[q].answer = "valid"
      /\ attempt'.kind # "loading" => attempt'.sequence = report[q].joined /\ report[q].joined # 0
  <2>1. CASE report[q].joined = 0
    BY <1>1, <1>2, <1>7, <2>1
  <2>2. CASE report[q].joined # 0
    <3>1. attempt' = Concluding(q, report[q].joined)
      BY <1>1, <2>2
    <3> QED
      BY <1>1, <1>8, <2>2, <3>1, ConcludingTyped
  <2> QED
    BY <2>1, <2>2
<1>10. ASSUME NEW p \in Reports PROVE ReportOK(p, report[p])'
  <2>1. ReportOK(p, report[p])
    BY DEF CockpitInv
  <2> QED
    BY <1>1, <1>4, <1>6, <1>7, <2>1 DEF ReportOK
<1>11. AttemptOK'
  BY <1>4, <1>6, <1>9 DEF AttemptOK
<1>12. ASSUME NEW p \in Reports, poll[generation].with = p, generation # 0 PROVE (Carried(p))'
  <2>1. Carried(p) /\ p = q
    BY <1>7, <1>12, CarriedNow DEF Carried
  <2> QED
    BY <1>1, <1>4, <1>6, <1>9, <2>1 DEF Carried
<1> QED
  BY <1>1, <1>2, <1>6, <1>7, <1>9, <1>10, <1>11, <1>12, ReportsMove

LEMMA CockpitNextInv ==
  ASSUME CockpitInv, [CockpitNext]_cockpitVars
  PROVE  CockpitInv'
<1>1. CASE UNCHANGED cockpitVars
  BY <1>1 DEF cockpitVars, CockpitInv, CockpitTypes, PollOK, Carried, ReportOK, AttemptOK, PollGoesOn, TerminalAt,
     MilestoneOnce
<1>2. CASE CockpitNext
  BY <1>2, RunAdvancesStep, LoadStep, AnswerRunStep, ShowRunStep, LoadFailsStep, RestartPollingStep,
     LeaveCockpitStep, ChangeStepStep, ReportEffectStep, AnswerReportStep, ReportArrivesStep
     DEF CockpitNext, PollStep
<1> QED
  BY <1>1, <1>2

LEMMA CockpitAdvances ==
  ASSUME CockpitInv, CockpitNext
  PROVE  hydrated' >= hydrated /\ (attempt.kind = "valid" => attempt'.kind = "valid")
<1>1. hydrated \in Nat
  BY CockpitNumbers DEF CockpitInv, CockpitTypes
<1>2. CASE UNCHANGED <<hydrated, attempt>>
  BY <1>1, <1>2
<1>3. ASSUME NEW g \in Generations, ShowRun(g)
      PROVE  hydrated' >= hydrated /\ (attempt.kind = "valid" => attempt'.kind = "valid")
  <2>1. hydrated' \in Nat
    BY <1>3, ShowRunStep, CockpitNumbers DEF CockpitInv, CockpitTypes
  <2> QED
    BY <1>1, <1>3, <2>1, ShowRunStep
<1>4. ASSUME NEW g \in Generations, Load(g)
      PROVE  UNCHANGED hydrated /\ (attempt.kind = "valid" => UNCHANGED attempt)
  BY <1>4 DEF Load
<1>5. ReportEffect \/ (\E q \in Reports : ReportArrives(q)) => UNCHANGED hydrated
  BY DEF ReportEffect, ReportArrives
<1>6. RunAdvances \/ RestartPolling \/ LeaveCockpit \/ ChangeStep => UNCHANGED <<hydrated, attempt>>
  BY DEF RunAdvances, RestartPolling, LeaveCockpit, ChangeStep, reportVars
<1>7. ASSUME NEW g \in Generations, AnswerRun(g) \/ LoadFails(g)
      PROVE  UNCHANGED <<hydrated, attempt>>
  BY <1>7 DEF AnswerRun, LoadFails, reportVars
<1>8. ASSUME NEW q \in Reports, AnswerReport(q)
      PROVE  UNCHANGED <<hydrated, attempt>>
  BY <1>8 DEF AnswerReport
<1>9. ASSUME ReportEffect \/ \E q \in Reports : ReportArrives(q)
      PROVE  UNCHANGED hydrated /\ (attempt.kind = "valid" => attempt'.kind = "valid")
  BY <1>5, <1>9, ReportEffectStep, ReportArrivesStep
<1>10. ASSUME NEW g \in Generations, PollStep(g)
       PROVE  hydrated' >= hydrated /\ (attempt.kind = "valid" => attempt'.kind = "valid")
  BY <1>1, <1>3, <1>4, <1>7, <1>10 DEF PollStep
<1> QED
  BY <1>1, <1>2, <1>6, <1>8, <1>9, <1>10 DEF CockpitNext

LEMMA CockpitInvImplies ==
  ASSUME CockpitInv
  PROVE  PollingGoesOn /\ OneReportRequest /\ MilestoneOnce
<1>1. PollingGoesOn
  BY DEF CockpitInv, PollGoesOn, PollOK, PollingGoesOn
<1>2. {q \in Reports : report[q].stage = "asked"} \subseteq {attempt.of}
  BY DEF CockpitInv, ReportOK
<1>3. OneReportRequest
  <2>1. IsFiniteSet({attempt.of}) /\ Cardinality({attempt.of}) = 1
    BY FS_Singleton
  <2> QED
    BY <1>2, <2>1, FS_Subset, FS_CardinalityType DEF OneReportRequest
<1> QED
  BY <1>1, <1>3 DEF CockpitInv

\* However answers, retries, changes of step and the run's progress overlap: the page polls
\* until the end, shows no older state after a newer one, has one request for the report,
\* keeps a report it took, and tells of a preflight that ended while it looked on once.
THEOREM CockpitKeepsItsPromise == CockpitSpec => CockpitPromise
<1>1. CockpitInit => CockpitInv
  BY CockpitInitInv
<1>2. CockpitInv /\ [CockpitNext]_cockpitVars => CockpitInv'
  BY CockpitNextInv
<1>3. CockpitInv => PollingGoesOn /\ OneReportRequest /\ MilestoneOnce
  BY CockpitInvImplies
<1>4. CockpitInv /\ [CockpitNext]_cockpitVars => [hydrated' >= hydrated]_cockpitVars
  BY CockpitAdvances
<1>5. CockpitInv /\ [CockpitNext]_cockpitVars => [attempt.kind = "valid" => attempt'.kind = "valid"]_cockpitVars
  BY CockpitAdvances
<1> QED
  BY <1>1, <1>2, <1>3, <1>4, <1>5, PTL DEF CockpitSpec, CockpitPromise, ShownRunAdvances, ReportStays

---------------------------------------------------------------------------
(***************************************************************************)
(* The clients outside the browser.  How far a client is in its plan tells *)
(* what was done for it, and an answer that came is of what was asked.     *)
(*   PlanOK      what the place of a client in its plan says of its run    *)
(*   ReplyOK     what an answer that has come says                         *)
(*   KeysDiffer  a key has one run                                         *)
(*   KeysAreOf   whose key it is: of an identity, or of one command        *)
(*   ChainOK     a transaction is of a run prepared under its sender's key *)
(***************************************************************************)

RunReplies ==
  [ok : {FALSE}] \cup [ok : {FALSE}, wait : {TRUE}] \cup [ok : {TRUE}] \cup [ok : {TRUE}, run : RunIds]
  \cup [ok : {TRUE}, run : RunIds, proj : RunRecords]

ClientRecords ==
  [at : Nat, starts : 0 .. MaxStarts, age : 0 .. TimeLimit, run : RunIds \cup {None},
   reply : RunReplies \cup {None}, proj : RunRecords \cup {None}, held : Seq(RunIds),
   end : {None, "done", "failed", "pending"}]

TransactionRecords == [by : Clients, start : 0 .. MaxStarts, run : RunIds]

ClientsTypes ==
  /\ book \in [RunIds -> RunRecords \cup {None}]
  /\ client \in [Clients -> ClientRecords]
  /\ chain \subseteq TransactionRecords

KeyAt(c, r) == IF KindOf[c] \in {"wallet", "relayer"} THEN <<c, r.starts>> ELSE <<IdentityOf[c], 0>>

StepAt(c, r) == Steps[KindOf[c]][r.at]

Over(p) == p.stage \in {"passed", "refused", "failed"}

\* Run i is the one that client c asked for.
Asked(c, r, i) ==
  /\ i \in RunIds /\ book[i] # None
  /\ book[i].key = KeyAt(c, r) /\ book[i].content = ContentOf[c] /\ book[i].mode = ModeOf(c)

\* What a client knows of a run that is over is still so.
Seen(p, i) == i \in RunIds /\ book[i] # None /\ p \in RunRecords /\ (Over(p) => p = book[i])

BundleAt(c) == IF KindOf[c] = "liveGate" THEN 6 ELSE 4

PlanLength(kind) == Len(Steps[kind])

\* How far a client is in its plan tells what was done.
PlanOK(c, r) ==
  /\ r.at \in 0 .. PlanLength(KindOf[c])
  /\ c \in Submitters /\ r.at > 1 => Asked(c, r, r.run)
  /\ c \in Submitters /\ r.at > 2 => book[r.run].sub = KeyAt(c, r)
  /\ KindOf[c] = "wallet" /\ r.at > 2 => r.held = <<r.run>>
  /\ c \in Gates /\ r.at >= BundleAt(c) => Seen(r.proj, r.run) /\ Over(r.proj)
  /\ r.at > 0 /\ StepAt(c, r) = "replay" => \E x \in RunIds : r.held = <<x>>
  /\ c \in Gates /\ r.end = "done" =>
       /\ r.at = 0 /\ Asked(c, r, r.run) /\ r.held = <<r.run>> /\ r.age < TimeLimit
       /\ book[r.run].sub = KeyAt(c, r) /\ book[r.run].stage = "passed"
       /\ KindOf[c] = "liveGate" => ~book[r.run].again

\* An answer that came is of what was asked.
ReplyOK(c, r) ==
  r.at > 0 /\ r.reply # None /\ r.reply.ok =>
    /\ StepAt(c, r) = "create" => Asked(c, r, r.reply.run)
    /\ StepAt(c, r) = "submit" => r.reply.run \in RunIds /\ book[r.run].sub = KeyAt(c, r)
    /\ StepAt(c, r) \in {"boundary", "terminal"} => Seen(r.reply.proj, r.reply.run)
    /\ StepAt(c, r) \in {"bundle", "replay"} => r.reply.run \in RunIds
    /\ StepAt(c, r) = "write" => r.held = ContentOf[c]

Knows(c) == \E r \in ClientRecords : r = client[c] /\ PlanOK(c, r) /\ ReplyOK(c, r)

KeysDiffer ==
  \A i, j \in RunIds :
    book[i] # None /\ book[j] # None /\ book[i].key = book[j].key => i = j \/ book[i].key = <<None, 0>>

\* The keys of runs: of an earlier day, of a process of the command line, of an identity.
KeysAreOf ==
  \A i \in RunIds : book[i] # None =>
    \/ book[i].key = <<None, 0>>
    \/ \E c \in Clients : book[i].key = <<IdentityOf[c], 0>>
    \/ \E c \in Clients : c \notin Gates /\ KindOf[c] # "connector" /\ \E n \in Nat : book[i].key = <<c, n>>

ChainOK ==
  \A t \in chain :
    book[t.run] # None /\ book[t.run].key = <<t.by, t.start>> /\ book[t.run].sub = book[t.run].key

ClientsInv ==
  /\ ClientsTypes
  /\ \A c \in Clients : Knows(c)
  /\ KeysDiffer /\ KeysAreOf /\ ChainOK /\ RecordingIsWhole

---------------------------------------------------------------------------
(* The plans.                                                              *)

LEMMA Plans ==
  /\ Steps["liveGate"] = <<"create", "submit", "boundary", "verify", "terminal", "bundle", "replay">>
  /\ Steps["gate"] = <<"create", "submit", "terminal", "bundle", "replay">>
  /\ Steps["wallet"] = <<"create", "submit", "sign", "attach">>
  /\ Steps["relayer"] = <<"create", "submit">> /\ Steps["connector"] = <<"create", "submit">>
  /\ Steps["recorder"] = <<"bundle", "bundle", "write">>
  /\ Steps["validator"] = <<"bundle", "replay">>
  BY DEF Steps, ClientKinds

LEMMA PlanLengths ==
  /\ PlanLength("liveGate") = 7 /\ PlanLength("gate") = 5 /\ PlanLength("wallet") = 4
  /\ PlanLength("recorder") = 3 /\ PlanLength("relayer") = 2 /\ PlanLength("connector") = 2
  /\ PlanLength("validator") = 2
  BY Plans DEF PlanLength

LEMMA PlanBounds ==
  ASSUME NEW c \in Clients
  PROVE  /\ PlanLength(KindOf[c]) \in Nat /\ PlanLength(KindOf[c]) > 1
         /\ BundleAt(c) \in Nat /\ BundleAt(c) > 3
         /\ KindOf[c] = "liveGate" => PlanLength(KindOf[c]) = 7 /\ BundleAt(c) = 6
         /\ KindOf[c] = "gate" => PlanLength(KindOf[c]) = 5 /\ BundleAt(c) = 4
         /\ KindOf[c] = "wallet" => PlanLength(KindOf[c]) = 4
         /\ KindOf[c] = "recorder" => PlanLength(KindOf[c]) = 3
         /\ KindOf[c] \in {"relayer", "connector", "validator"} => PlanLength(KindOf[c]) = 2
<1>1. KindOf[c] \in ClientKinds
  BY ClientsAssumption
<1>2. CASE KindOf[c] = "liveGate"
  <2>1. PlanLength(KindOf[c]) = 7
    BY <1>2, PlanLengths
  <2>2. BundleAt(c) = 6
    BY <1>2 DEF BundleAt
  <2> QED
    BY <1>2, <2>1, <2>2
<1>3. CASE KindOf[c] = "gate"
  <2>1. PlanLength(KindOf[c]) = 5
    BY <1>3, PlanLengths
  <2>2. BundleAt(c) = 4
    BY <1>3 DEF BundleAt
  <2> QED
    BY <1>3, <2>1, <2>2
<1>4. CASE KindOf[c] = "wallet"
  <2>1. PlanLength(KindOf[c]) = 4
    BY <1>4, PlanLengths
  <2>2. BundleAt(c) = 4
    BY <1>4 DEF BundleAt
  <2> QED
    BY <1>4, <2>1, <2>2
<1>5. CASE KindOf[c] = "recorder"
  <2>1. PlanLength(KindOf[c]) = 3
    BY <1>5, PlanLengths
  <2>2. BundleAt(c) = 4
    BY <1>5 DEF BundleAt
  <2> QED
    BY <1>5, <2>1, <2>2
<1>6. CASE KindOf[c] = "relayer"
  <2>1. PlanLength(KindOf[c]) = 2
    BY <1>6, PlanLengths
  <2>2. BundleAt(c) = 4
    BY <1>6 DEF BundleAt
  <2> QED
    BY <1>6, <2>1, <2>2
<1>7. CASE KindOf[c] = "connector"
  <2>1. PlanLength(KindOf[c]) = 2
    BY <1>7, PlanLengths
  <2>2. BundleAt(c) = 4
    BY <1>7 DEF BundleAt
  <2> QED
    BY <1>7, <2>1, <2>2
<1>8. CASE KindOf[c] = "validator"
  <2>1. PlanLength(KindOf[c]) = 2
    BY <1>8, PlanLengths
  <2>2. BundleAt(c) = 4
    BY <1>8 DEF BundleAt
  <2> QED
    BY <1>8, <2>1, <2>2
<1> QED
  BY <1>1, <1>2, <1>3, <1>4, <1>5, <1>6, <1>7, <1>8 DEF ClientKinds

\* Where a step is in the plans.
LEMMA Positions ==
  ASSUME NEW kind \in ClientKinds, NEW n \in 1 .. PlanLength(kind)
  PROVE  /\ Steps[kind][n] = "create" <=> n = 1 /\ kind \notin {"recorder", "validator"}
         /\ Steps[kind][n] = "submit" <=> n = 2 /\ kind \notin {"recorder", "validator"}
         /\ Steps[kind][n] = "sign" <=> n = 3 /\ kind = "wallet"
         /\ Steps[kind][n] = "attach" <=> n = 4 /\ kind = "wallet"
         /\ Steps[kind][n] = "boundary" <=> n = 3 /\ kind = "liveGate"
         /\ Steps[kind][n] = "verify" <=> n = 4 /\ kind = "liveGate"
         /\ Steps[kind][n] = "terminal" <=> (n = 5 /\ kind = "liveGate") \/ (n = 3 /\ kind = "gate")
         /\ Steps[kind][n] = "bundle" <=> \/ (n = 6 /\ kind = "liveGate") \/ (n = 4 /\ kind = "gate")
                                          \/ (n \in {1, 2} /\ kind = "recorder") \/ (n = 1 /\ kind = "validator")
         /\ Steps[kind][n] = "replay" <=> \/ (n = 7 /\ kind = "liveGate") \/ (n = 5 /\ kind = "gate")
                                          \/ (n = 2 /\ kind = "validator")
         /\ Steps[kind][n] = "write" <=> n = 3 /\ kind = "recorder"
<1>1. CASE kind = "liveGate"
  <2>1. PICK p : p = Steps[kind]
    OBVIOUS
  <2>2. p = <<"create", "submit", "boundary", "verify", "terminal", "bundle", "replay">>
    BY <1>1, <2>1, Plans
  <2>3. p[1] = "create" /\ p[2] = "submit" /\ p[3] = "boundary" /\ p[4] = "verify" /\ p[5] = "terminal" /\ p[6] = "bundle" /\ p[7] = "replay"
    BY <2>2
  <2>4. n \in 1 .. 7
    BY <1>1, PlanLengths
  <2>5. n \in {1, 2, 3, 4, 5, 6, 7}
    BY <2>4
  <2> QED
    BY <1>1, <2>1, <2>3, <2>5
<1>2. CASE kind = "gate"
  <2>1. PICK p : p = Steps[kind]
    OBVIOUS
  <2>2. p = <<"create", "submit", "terminal", "bundle", "replay">>
    BY <1>2, <2>1, Plans
  <2>3. p[1] = "create" /\ p[2] = "submit" /\ p[3] = "terminal" /\ p[4] = "bundle" /\ p[5] = "replay"
    BY <2>2
  <2>4. n \in 1 .. 5
    BY <1>2, PlanLengths
  <2>5. n \in {1, 2, 3, 4, 5}
    BY <2>4
  <2> QED
    BY <1>2, <2>1, <2>3, <2>5
<1>3. CASE kind = "wallet"
  <2>1. PICK p : p = Steps[kind]
    OBVIOUS
  <2>2. p = <<"create", "submit", "sign", "attach">>
    BY <1>3, <2>1, Plans
  <2>3. p[1] = "create" /\ p[2] = "submit" /\ p[3] = "sign" /\ p[4] = "attach"
    BY <2>2
  <2>4. n \in 1 .. 4
    BY <1>3, PlanLengths
  <2>5. n \in {1, 2, 3, 4}
    BY <2>4
  <2> QED
    BY <1>3, <2>1, <2>3, <2>5
<1>4. CASE kind = "relayer"
  <2>1. PICK p : p = Steps[kind]
    OBVIOUS
  <2>2. p = <<"create", "submit">>
    BY <1>4, <2>1, Plans
  <2>3. p[1] = "create" /\ p[2] = "submit"
    BY <2>2
  <2>4. n \in 1 .. 2
    BY <1>4, PlanLengths
  <2>5. n \in {1, 2}
    BY <2>4
  <2> QED
    BY <1>4, <2>1, <2>3, <2>5
<1>5. CASE kind = "connector"
  <2>1. PICK p : p = Steps[kind]
    OBVIOUS
  <2>2. p = <<"create", "submit">>
    BY <1>5, <2>1, Plans
  <2>3. p[1] = "create" /\ p[2] = "submit"
    BY <2>2
  <2>4. n \in 1 .. 2
    BY <1>5, PlanLengths
  <2>5. n \in {1, 2}
    BY <2>4
  <2> QED
    BY <1>5, <2>1, <2>3, <2>5
<1>6. CASE kind = "recorder"
  <2>1. PICK p : p = Steps[kind]
    OBVIOUS
  <2>2. p = <<"bundle", "bundle", "write">>
    BY <1>6, <2>1, Plans
  <2>3. p[1] = "bundle" /\ p[2] = "bundle" /\ p[3] = "write"
    BY <2>2
  <2>4. n \in 1 .. 3
    BY <1>6, PlanLengths
  <2>5. n \in {1, 2, 3}
    BY <2>4
  <2> QED
    BY <1>6, <2>1, <2>3, <2>5
<1>7. CASE kind = "validator"
  <2>1. PICK p : p = Steps[kind]
    OBVIOUS
  <2>2. p = <<"bundle", "replay">>
    BY <1>7, <2>1, Plans
  <2>3. p[1] = "bundle" /\ p[2] = "replay"
    BY <2>2
  <2>4. n \in 1 .. 2
    BY <1>7, PlanLengths
  <2>5. n \in {1, 2}
    BY <2>4
  <2> QED
    BY <1>7, <2>1, <2>3, <2>5
<1> QED
  BY <1>1, <1>2, <1>3, <1>4, <1>5, <1>6, <1>7 DEF ClientKinds

LEMMA KindsOfClients ==
  ASSUME NEW c \in Clients
  PROVE  /\ KindOf[c] \in ClientKinds /\ MaxStarts \in Nat /\ TimeLimit \in Nat
         /\ c \in Submitters <=> KindOf[c] \notin {"recorder", "validator"}
         /\ c \in Gates <=> KindOf[c] \in {"gate", "liveGate"}
         /\ ModeOf(c) \in {"relayer", "wallet", "replay"}
  BY ClientsAssumption DEF Submitters, Gates, ModeOf

LEMMA KeysTyped ==
  ASSUME NEW c \in Clients, NEW r \in ClientRecords
  PROVE  KeyAt(c, r) \in RunKeys /\ KeyAt(c, r) # None /\ KeyAt(c, r) # <<None, 0>>
         /\ (r = client[c] => KeyFor(c) = KeyAt(c, r))
<1>1. r.starts \in Nat /\ 0 \in Nat
  BY ClientsAssumption DEF ClientRecords
<1>2. KeyAt(c, r) \in RunKeys
  BY <1>1 DEF KeyAt, RunKeys
<1>3. KeyAt(c, r) # <<None, 0>>
  BY ClientsAssumption DEF KeyAt
<1> QED
  BY <1>2, <1>3, ClientsAssumption DEF KeyAt, KeyFor

---------------------------------------------------------------------------
(* What a step does to the runs.                                           *)

RunMoves(i) ==
  book[i] # None =>
    /\ book'[i] # None /\ book'[i].key = book[i].key /\ book'[i].content = book[i].content
    /\ book'[i].mode = book[i].mode
    /\ book[i].sub # None => book'[i].sub = book[i].sub
    /\ Over(book[i]) => book'[i] = book[i]

LEMMA AskedStays ==
  ASSUME NEW c \in Clients, NEW r, NEW i, Asked(c, r, i), \A j \in RunIds : RunMoves(j)
  PROVE  Asked(c, r, i)'
  BY DEF Asked, RunMoves, KeyAt, ModeOf

LEMMA SeenStays ==
  ASSUME NEW p, NEW i, Seen(p, i), \A j \in RunIds : RunMoves(j)
  PROVE  Seen(p, i)'
  BY DEF Seen, RunMoves, Over

\* The runs go on; a client that does nothing knows what it knew.
LEMMA PlanStays ==
  ASSUME NEW c \in Clients, NEW r \in ClientRecords, PlanOK(c, r), \A j \in RunIds : RunMoves(j)
  PROVE  PlanOK(c, r)'
<1>1. KeyAt(c, r) # None
  BY KeysTyped
<1>2. c \in Submitters /\ r.at > 1 => Asked(c, r, r.run)'
  BY AskedStays DEF PlanOK
<1>3. c \in Submitters /\ r.at > 2 => (book[r.run].sub = KeyAt(c, r))'
  <2>1. r.at > 2 => r.at > 1
    BY DEF ClientRecords
  <2> QED
    BY <1>1, <2>1 DEF PlanOK, Asked, RunMoves
<1>4. c \in Gates /\ r.at >= BundleAt(c) => Seen(r.proj, r.run)' /\ Over(r.proj)
  <2>1. c \in Gates => c \in Submitters
    BY KindsOfClients
  <2>2. r.at >= BundleAt(c) => r.at > 1
    <3>1. r.at \in Nat /\ BundleAt(c) \in {4, 6}
      BY DEF ClientRecords, BundleAt
    <3> QED
      BY <3>1
  <2> QED
    BY <2>1, <2>2, SeenStays DEF PlanOK, Asked
<1>5. c \in Gates /\ r.end = "done" =>
       /\ r.at = 0 /\ Asked(c, r, r.run)' /\ r.held = <<r.run>> /\ r.age < TimeLimit
       /\ (book[r.run].sub = KeyAt(c, r) /\ book[r.run].stage = "passed")'
       /\ KindOf[c] = "liveGate" => ~book'[r.run].again
  <2> SUFFICES ASSUME c \in Gates, r.end = "done" PROVE
       /\ r.at = 0 /\ Asked(c, r, r.run)' /\ r.held = <<r.run>> /\ r.age < TimeLimit
       /\ (book[r.run].sub = KeyAt(c, r) /\ book[r.run].stage = "passed")'
       /\ KindOf[c] = "liveGate" => ~book'[r.run].again
    OBVIOUS
  <2>1. Asked(c, r, r.run) /\ Over(book[r.run])
    BY DEF PlanOK, Over
  <2>2. book'[r.run] = book[r.run]
    BY <2>1 DEF Asked, RunMoves
  <2> QED
    BY <2>1, <2>2, AskedStays DEF PlanOK, KeyAt
<1> QED
  BY <1>2, <1>3, <1>4, <1>5 DEF PlanOK, BundleAt, StepAt, Over, KeyAt

LEMMA ReplyStays ==
  ASSUME NEW c \in Clients, NEW r \in ClientRecords, PlanOK(c, r), ReplyOK(c, r), \A j \in RunIds : RunMoves(j)
  PROVE  ReplyOK(c, r)'
<1> SUFFICES ASSUME r.at > 0, r.reply # None, r.reply.ok
             PROVE  ReplyOK(c, r)'
  BY DEF ReplyOK
<1>1. StepAt(c, r) = "create" => Asked(c, r, r.reply.run)'
  BY AskedStays DEF ReplyOK
<1>2. StepAt(c, r) = "submit" => r.reply.run \in RunIds /\ (book[r.run].sub = KeyAt(c, r))'
  <2> SUFFICES ASSUME StepAt(c, r) = "submit" PROVE (book[r.run].sub = KeyAt(c, r))'
    BY DEF ReplyOK
  <2>1. KindOf[c] \in ClientKinds /\ r.at \in 1 .. PlanLength(KindOf[c])
    BY KindsOfClients DEF PlanOK, ClientRecords
  <2>2. r.at = 2 /\ c \in Submitters
    BY <2>1, Positions, KindsOfClients DEF StepAt
  <2>3. Asked(c, r, r.run)
    BY <2>2 DEF PlanOK
  <2>4. book[r.run].sub = KeyAt(c, r) /\ KeyAt(c, r) # None
    BY KeysTyped DEF ReplyOK
  <2> QED
    BY <2>3, <2>4 DEF Asked, RunMoves, KeyAt
<1>3. StepAt(c, r) \in {"boundary", "terminal"} => Seen(r.reply.proj, r.reply.run)'
  BY SeenStays DEF ReplyOK
<1> QED
  BY <1>1, <1>2, <1>3 DEF ReplyOK, StepAt, Asked, Seen

---------------------------------------------------------------------------
(* One client moves.                                                       *)

LEMMA ClientMoves ==
  ASSUME ClientsInv, NEW c \in Clients, NEW r \in ClientRecords, client' = [client EXCEPT ![c] = r],
         book' \in [RunIds -> RunRecords \cup {None}], \A j \in RunIds : RunMoves(j), KeysDiffer', KeysAreOf',
         PlanOK(c, r)', ReplyOK(c, r)', chain' \subseteq TransactionRecords, ChainOK', RecordingIsWhole'
  PROVE  ClientsInv'
<1>1. client' \in [Clients -> ClientRecords] /\ client'[c] = r /\ \A d \in Clients : d # c => client'[d] = client[d]
  BY DEF ClientsInv, ClientsTypes
<1>2. ASSUME NEW d \in Clients PROVE Knows(d)'
  <2>1. CASE d = c
    BY <1>1, <2>1 DEF Knows
  <2>2. CASE d # c
    <3>1. PICK s \in ClientRecords : s = client[d] /\ PlanOK(d, s) /\ ReplyOK(d, s)
      BY DEF ClientsInv, Knows
    <3>2. PlanOK(d, s)' /\ ReplyOK(d, s)'
      BY <3>1, PlanStays, ReplyStays
    <3>3. client'[d] = s
      BY <1>1, <2>2, <3>1
    <3> QED
      BY <3>2, <3>3 DEF Knows
  <2> QED
    BY <2>1, <2>2
<1> QED
  BY <1>1, <1>2 DEF ClientsInv, ClientsTypes

LEMMA QuietRuns ==
  ASSUME ClientsInv, UNCHANGED book
  PROVE  /\ book' \in [RunIds -> RunRecords \cup {None}] /\ KeysDiffer' /\ KeysAreOf'
         /\ \A j \in RunIds : RunMoves(j)
         /\ UNCHANGED chain => ChainOK' /\ chain' \subseteq TransactionRecords
         /\ UNCHANGED file => RecordingIsWhole'
  BY DEF ClientsInv, ClientsTypes, KeysDiffer, KeysAreOf, RunMoves, ChainOK, RecordingIsWhole, Gates

LEMMA ClientGoes ==
  ASSUME ClientsInv, NEW c \in Clients, NEW r \in ClientRecords, client' = [client EXCEPT ![c] = r],
         UNCHANGED <<book, chain>>, PlanOK(c, r), ReplyOK(c, r), RecordingIsWhole'
  PROVE  ClientsInv'
<1>1. PlanOK(c, r)' /\ ReplyOK(c, r)'
  BY DEF PlanOK, ReplyOK, StepAt, Asked, Seen, KeyAt, BundleAt, Over
<1> QED
  BY <1>1, QuietRuns, ClientMoves

\* The same client, with another answer.
LEMMA Replied ==
  ASSUME NEW c \in Clients, NEW s \in ClientRecords, NEW x \in RunReplies \cup {None},
         NEW r, r = [s EXCEPT !.reply = x]
  PROVE  /\ r \in ClientRecords /\ r.at = s.at /\ r.run = s.run /\ r.held = s.held /\ r.reply = x
         /\ KeyAt(c, r) = KeyAt(c, s) /\ StepAt(c, r) = StepAt(c, s)
         /\ PlanOK(c, s) => PlanOK(c, r)
<1>1. /\ r \in ClientRecords /\ r.at = s.at /\ r.run = s.run /\ r.held = s.held /\ r.reply = x
      /\ r.starts = s.starts /\ r.age = s.age /\ r.end = s.end /\ r.proj = s.proj
  BY DEF ClientRecords
<1>2. KeyAt(c, r) = KeyAt(c, s) /\ StepAt(c, r) = StepAt(c, s)
  BY <1>1 DEF KeyAt, StepAt
<1>3. \A i : Asked(c, s, i) => Asked(c, r, i)
  BY <1>2 DEF Asked
<1>4. PlanOK(c, s) => PlanOK(c, r)
  BY <1>1, <1>2, <1>3 DEF PlanOK
<1> QED
  BY <1>1, <1>2, <1>4

LEMMA AnswerComes ==
  ASSUME ClientsInv, NEW c \in Clients, NEW x \in RunReplies \cup {None}, Replies(c, x), UNCHANGED <<book, chain, file>>,
         ReplyOK(c, [client[c] EXCEPT !.reply = x])
  PROVE  ClientsInv'
<1>1. PICK r : r = [client[c] EXCEPT !.reply = x]
  OBVIOUS
<1>2. client[c] \in ClientRecords /\ PlanOK(c, client[c])
  BY DEF ClientsInv, Knows
<1>3. r \in ClientRecords /\ PlanOK(c, r) /\ ReplyOK(c, r)
  BY <1>1, <1>2, Replied
<1>4. client' = [client EXCEPT ![c] = r]
  BY <1>1, <1>2 DEF Replies, ClientsInv, ClientsTypes
<1> QED
  BY <1>3, <1>4, ClientGoes, QuietRuns

LEMMA NoAnswer ==
  ASSUME ClientsInv, NEW c \in Clients, NEW x \in RunReplies \cup {None}, x = None \/ ~x.ok, Replies(c, x),
         UNCHANGED <<book, chain, file>>
  PROVE  ClientsInv'
<1>1. client[c] \in ClientRecords
  BY DEF ClientsInv, ClientsTypes
<1>2. [client[c] EXCEPT !.reply = x].reply = x
  BY <1>1 DEF ClientRecords
<1> QED
  BY <1>2, AnswerComes DEF ReplyOK

LEMMA ClientEnds ==
  ASSUME ClientsInv, NEW c \in Clients, NEW how \in {"failed", "pending"}, EndsAs(c, how), UNCHANGED <<book, chain, file>>
  PROVE  ClientsInv'
<1>1. client[c] \in ClientRecords
  BY DEF ClientsInv, ClientsTypes
<1>2. PICK r : r = [[[client[c] EXCEPT !.at = 0] EXCEPT !.end = how] EXCEPT !.reply = None]
  OBVIOUS
<1>3. r \in ClientRecords /\ r.at = 0 /\ r.end = how /\ r.reply = None
  <2>1. PICK a : a = [client[c] EXCEPT !.at = 0]
    OBVIOUS
  <2>2. a \in ClientRecords /\ a.at = 0
    BY <1>1, <2>1 DEF ClientRecords
  <2>3. PICK b : b = [a EXCEPT !.end = how]
    OBVIOUS
  <2>4. b \in ClientRecords /\ b.at = 0 /\ b.end = how
    BY <2>2, <2>3 DEF ClientRecords
  <2>5. r = [b EXCEPT !.reply = None]
    BY <1>2, <2>1, <2>3
  <2> QED
    BY <2>4, <2>5 DEF ClientRecords
<1>4. client' = [client EXCEPT ![c] = r]
  BY <1>1, <1>2 DEF EndsAs, ClientRecords, ClientsInv, ClientsTypes
<1>5. PlanOK(c, r) /\ ReplyOK(c, r)
  <2>1. 0 \in 0 .. PlanLength(KindOf[c]) /\ ~(0 >= BundleAt(c))
    BY PlanBounds
  <2> QED
    BY <1>3, <2>1 DEF PlanOK, ReplyOK
<1> QED
  BY <1>3, <1>4, <1>5, ClientGoes, QuietRuns

\* A client goes on to its next step, or is done.
LEMMA Proceeding ==
  ASSUME ClientsInv, NEW c \in Clients, NEW s \in ClientRecords, Proceeds(c, s), UNCHANGED <<book, chain>>,
         RecordingIsWhole',
         \A r \in ClientRecords :
           /\ r.run = s.run /\ r.proj = s.proj /\ r.held = s.held /\ r.starts = s.starts /\ r.age = s.age
           /\ s.at = PlanLength(KindOf[c]) => r.at = 0 /\ r.end = "done"
           /\ s.at # PlanLength(KindOf[c]) => r.at = s.at + 1 /\ r.end = s.end
           => PlanOK(c, r)
  PROVE  ClientsInv'
<1>1. client \in [Clients -> ClientRecords] /\ s.at \in Nat
  BY DEF ClientsInv, ClientsTypes, ClientRecords
<1>2. CASE s.at = PlanLength(KindOf[c])
  <2>1. PICK a : a = [s EXCEPT !.at = 0]
    OBVIOUS
  <2>2. /\ a \in ClientRecords /\ a.at = 0
        /\ a.run = s.run /\ a.proj = s.proj /\ a.held = s.held /\ a.starts = s.starts /\ a.age = s.age
    BY <2>1 DEF ClientRecords
  <2>3. PICK b : b = [a EXCEPT !.reply = None]
    OBVIOUS
  <2>4. /\ b \in ClientRecords /\ b.at = 0 /\ b.reply = None
        /\ b.run = s.run /\ b.proj = s.proj /\ b.held = s.held /\ b.starts = s.starts /\ b.age = s.age
    BY <2>2, <2>3 DEF ClientRecords
  <2>5. PICK r : r = [b EXCEPT !.end = "done"]
    OBVIOUS
  <2>6. /\ r \in ClientRecords /\ r.at = 0 /\ r.reply = None /\ r.end = "done"
        /\ r.run = s.run /\ r.proj = s.proj /\ r.held = s.held /\ r.starts = s.starts /\ r.age = s.age
    BY <2>4, <2>5 DEF ClientRecords
  <2>7. client' = [client EXCEPT ![c] = r]
    BY <1>1, <1>2, <2>1, <2>3, <2>5 DEF Proceeds, PlanLength, ClientRecords
  <2>8. PlanOK(c, r) /\ ReplyOK(c, r)
    BY <1>2, <2>6 DEF ReplyOK
  <2> QED
    BY <2>6, <2>7, <2>8, ClientGoes
<1>3. CASE s.at # PlanLength(KindOf[c])
  <2>1. PICK n \in Nat : n = s.at + 1
    BY <1>1
  <2>2. PICK a : a = [s EXCEPT !.at = n]
    OBVIOUS
  <2>3. /\ a \in ClientRecords /\ a.at = n /\ a.end = s.end
        /\ a.run = s.run /\ a.proj = s.proj /\ a.held = s.held /\ a.starts = s.starts /\ a.age = s.age
    BY <2>2 DEF ClientRecords
  <2>4. PICK r : r = [a EXCEPT !.reply = None]
    OBVIOUS
  <2>5. /\ r \in ClientRecords /\ r.at = n /\ r.reply = None /\ r.end = s.end
        /\ r.run = s.run /\ r.proj = s.proj /\ r.held = s.held /\ r.starts = s.starts /\ r.age = s.age
    BY <2>3, <2>4 DEF ClientRecords
  <2>6. client' = [client EXCEPT ![c] = r]
    BY <1>1, <1>3, <2>1, <2>2, <2>4 DEF Proceeds, PlanLength, ClientRecords
  <2>7. PlanOK(c, r) /\ ReplyOK(c, r)
    BY <1>3, <2>1, <2>5 DEF ReplyOK
  <2> QED
    BY <2>5, <2>6, <2>7, ClientGoes
<1> QED
  BY <1>2, <1>3

\* What an engaged client's step tells of its kind and its place.
LEMMA Place ==
  ASSUME ClientsInv, NEW c \in Clients, Engaged(c)
  PROVE  /\ client[c] \in ClientRecords /\ PlanOK(c, client[c]) /\ ReplyOK(c, client[c])
         /\ client[c].at \in 1 .. PlanLength(KindOf[c]) /\ KindOf[c] \in ClientKinds
         /\ StepOf(c) = Steps[KindOf[c]][client[c].at] /\ StepOf(c) = StepAt(c, client[c])
         /\ KeyFor(c) = KeyAt(c, client[c])
         /\ c \in Gates => client[c].end # "done"
<1>1. client[c] \in ClientRecords /\ PlanOK(c, client[c]) /\ ReplyOK(c, client[c])
  BY DEF ClientsInv, Knows
<1>2. client[c].at \in Nat /\ client[c].at # 0
  BY <1>1 DEF ClientRecords, Engaged
<1>3. client[c].at \in 1 .. PlanLength(KindOf[c])
  <2>1. client[c].at \in 0 .. PlanLength(KindOf[c]) /\ PlanLength(KindOf[c]) \in Nat
    BY <1>1, PlanBounds DEF PlanOK
  <2> QED
    BY <1>2, <2>1
<1>4. c \in Gates => client[c].end # "done"
  BY <1>1, <1>2 DEF PlanOK
<1> QED
  BY <1>1, <1>3, <1>4, KindsOfClients, KeysTyped DEF StepOf, StepAt

LEMMA ChainStays ==
  ASSUME ClientsInv, UNCHANGED chain, \A j \in RunIds : RunMoves(j)
  PROVE  ChainOK' /\ chain' \subseteq TransactionRecords
<1>1. ASSUME NEW t \in chain
      PROVE  (book[t.run] # None /\ book[t.run].key = <<t.by, t.start>> /\ book[t.run].sub = book[t.run].key)'
  <2>1. t.run \in RunIds /\ book[t.run] # None /\ book[t.run] \in RunRecords
    BY DEF ClientsInv, ClientsTypes, ChainOK, TransactionRecords
  <2>2. book[t.run].sub = book[t.run].key /\ book[t.run].key \in RunKeys /\ book[t.run].key = <<t.by, t.start>>
    BY <2>1 DEF ClientsInv, ChainOK, RunRecords
  <2>3. book[t.run].sub # None
    BY <2>2, ClientsAssumption
  <2> QED
    BY <2>1, <2>2, <2>3 DEF RunMoves
<1> QED
  BY <1>1 DEF ClientsInv, ClientsTypes, ChainOK

LEMMA KeysStay ==
  ASSUME ClientsInv, \A j \in RunIds : RunMoves(j) /\ (book[j] = None => book'[j] = None)
  PROVE  KeysDiffer' /\ KeysAreOf'
<1>1. \A j \in RunIds : book'[j] # None => book[j] # None /\ book'[j].key = book[j].key
  BY DEF RunMoves
<1> QED
  BY <1>1 DEF ClientsInv, KeysDiffer, KeysAreOf, Gates

\* The API changes a run and answers.
LEMMA ApiAnswers ==
  ASSUME ClientsInv, NEW c \in Clients, NEW x \in RunReplies, Replies(c, x), UNCHANGED <<chain, file>>,
         book' \in [RunIds -> RunRecords \cup {None}], \A j \in RunIds : RunMoves(j), KeysDiffer', KeysAreOf',
         \A r \in ClientRecords :
           r.at = client[c].at /\ r.run = client[c].run /\ r.held = client[c].held /\ r.starts = client[c].starts /\ r.reply = x
           => ReplyOK(c, r)'
  PROVE  ClientsInv'
<1>1. PICK r : r = [client[c] EXCEPT !.reply = x]
  OBVIOUS
<1>2. client[c] \in ClientRecords /\ PlanOK(c, client[c])
  BY DEF ClientsInv, Knows
<1>3. /\ r \in ClientRecords /\ PlanOK(c, r)
      /\ r.at = client[c].at /\ r.run = client[c].run /\ r.held = client[c].held /\ r.reply = x
  BY <1>1, <1>2, Replied
<1>4. r.starts = client[c].starts
  BY <1>1, <1>2 DEF ClientRecords
<1>5. client' = [client EXCEPT ![c] = r]
  BY <1>1, <1>2 DEF Replies, ClientsInv, ClientsTypes
<1>6. PlanOK(c, r)' /\ ReplyOK(c, r)'
  <2>1. ReplyOK(c, r)'
    BY <1>3, <1>4
  <2>2. PlanOK(c, r)'
    BY <1>3, PlanStays
  <2> QED
    BY <2>1, <2>2
<1>7. RecordingIsWhole'
  BY DEF ClientsInv, RecordingIsWhole
<1> QED
  BY <1>3, <1>5, <1>6, <1>7, ChainStays, ClientMoves

---------------------------------------------------------------------------
(* The first states, and the steps of the API.                             *)

LEMMA ClientsInitInv == ClientsInit => ClientsInv
<1> SUFFICES ASSUME ClientsInit PROVE ClientsInv
  OBVIOUS
<1>1. EarlierRun \in RunRecords
  BY DEF EarlierRun, RunRecords, RunKeys
<1>2. book \in [RunIds -> RunRecords \cup {None}]
  BY <1>1 DEF ClientsInit
<1>3. \A i \in RunIds : book[i] # None => book[i].key = <<None, 0>>
  BY DEF ClientsInit, EarlierRun
<1>4. Unstarted \in ClientRecords
  <2>1. <<>> \in Seq(RunIds) /\ 0 \in 0 .. MaxStarts /\ 0 \in 0 .. TimeLimit
    BY ClientsAssumption
  <2> QED
    BY <2>1 DEF Unstarted, ClientRecords
<1>5. ASSUME NEW c \in Clients PROVE Knows(c)
  <2>1. client[c] = Unstarted
    BY DEF ClientsInit
  <2>2. 0 \in 0 .. PlanLength(KindOf[c]) /\ ~(0 >= BundleAt(c))
    BY PlanBounds
  <2>3. Unstarted.at = 0 /\ Unstarted.end = None
    BY DEF Unstarted
  <2>4. None # "done"
    BY ClientsAssumption
  <2>5. PlanOK(c, Unstarted) /\ ReplyOK(c, Unstarted)
    BY <2>2, <2>3, <2>4 DEF PlanOK, ReplyOK
  <2> QED
    BY <1>4, <2>1, <2>5 DEF Knows
<1>6. ClientsTypes
  BY <1>2, <1>4 DEF ClientsTypes, ClientsInit
<1> QED
  BY <1>3, <1>5, <1>6 DEF ClientsInv, KeysDiffer, KeysAreOf, ChainOK, RecordingIsWhole, ClientsInit

LEMMA Refused ==
  ASSUME ClientsInv, NEW c \in Clients, Refuses(c) \/ Replies(c, None) \/ Replies(c, [ok |-> FALSE, wait |-> TRUE]),
         UNCHANGED <<book, chain, file>>
  PROVE  ClientsInv'
<1>1. [ok |-> FALSE] \in RunReplies /\ [ok |-> FALSE, wait |-> TRUE] \in RunReplies
  BY DEF RunReplies
<1>2. ~[ok |-> FALSE].ok /\ ~[ok |-> FALSE, wait |-> TRUE].ok
  OBVIOUS
<1> QED
  BY <1>1, <1>2, NoAnswer DEF Refuses

LEMMA HandleCreateStep ==
  ASSUME ClientsInv, NEW c \in Clients, HandleCreate(c)
  PROVE  ClientsInv'
<1>1. Engaged(c) /\ StepOf(c) = "create"
  BY DEF HandleCreate, Asking
<1>2. /\ client[c] \in ClientRecords /\ client[c].at = 1 /\ c \in Submitters /\ KeyFor(c) = KeyAt(c, client[c])
      /\ StepAt(c, client[c]) = "create"
  BY <1>1, Place, Positions, KindsOfClients
<1>3. PICK k : k = KeyFor(c)
  OBVIOUS
<1>4. k \in RunKeys /\ \A r : r.starts = client[c].starts => KeyAt(c, r) = k
  BY <1>2, <1>3, KeysTyped DEF KeyAt
<1>5. ASSUME NEW r \in ClientRecords, NEW i \in RunIds,
             r.at = client[c].at /\ r.starts = client[c].starts /\ r.reply = [ok |-> TRUE, run |-> i],
             book'[i] # None /\ book'[i].key = k /\ book'[i].content = ContentOf[c] /\ book'[i].mode = ModeOf(c)
      PROVE  ReplyOK(c, r)'
  <2>1. StepAt(c, r) = "create" /\ r.reply.run = i
    BY <1>2, <1>5 DEF StepAt
  <2>2. Asked(c, r, i)'
    BY <1>4, <1>5 DEF Asked, KeyAt
  <2> QED
    BY <2>1, <2>2 DEF ReplyOK, StepAt
<1>6. CASE Refuses(c) /\ UNCHANGED book
  BY <1>6, Refused DEF HandleCreate
<1>7. ASSUME NEW i \in RunIds, book[i] # None, book[i].key = k, book[i].content = ContentOf[c], book[i].mode = ModeOf(c),
             Replies(c, [ok |-> TRUE, run |-> i]), UNCHANGED book
      PROVE  ClientsInv'
  <2>1. PICK x \in RunReplies : x = [ok |-> TRUE, run |-> i]
    BY DEF RunReplies
  <2>2. UNCHANGED <<chain, file>>
    BY DEF HandleCreate
  <2>3. \A r \in ClientRecords :
           r.at = client[c].at /\ r.run = client[c].run /\ r.held = client[c].held /\ r.starts = client[c].starts /\ r.reply = x
           => ReplyOK(c, r)'
    BY <1>5, <1>7, <2>1
  <2> QED
    BY <1>7, <2>1, <2>2, <2>3, QuietRuns, ApiAnswers
<1>8. ASSUME NEW i \in RunIds, book[i] = None, \A j \in RunIds : ~(book[j] # None /\ book[j].key = k),
             book' = [book EXCEPT ![i] = [key |-> k, content |-> ContentOf[c], mode |-> ModeOf(c), stage |-> "preparing",
                                          sub |-> None, ver |-> None, again |-> FALSE]],
             Replies(c, [ok |-> TRUE, run |-> i])
      PROVE  ClientsInv'
  <2>1. PICK x \in RunReplies : x = [ok |-> TRUE, run |-> i]
    BY DEF RunReplies
  <2>2. PICK e : e = [key |-> k, content |-> ContentOf[c], mode |-> ModeOf(c), stage |-> "preparing",
                      sub |-> None, ver |-> None, again |-> FALSE]
    OBVIOUS
  <2>3. e \in RunRecords /\ e.key = k /\ e.content = ContentOf[c] /\ e.mode = ModeOf(c)
    BY <1>2, <1>4, <2>2, KindsOfClients DEF RunRecords
  <2>4. e # None
    BY <2>3, ClientsAssumption
  <2>5. book \in [RunIds -> RunRecords \cup {None}] /\ book' = [book EXCEPT ![i] = e]
    BY <1>8, <2>2 DEF ClientsInv, ClientsTypes
  <2>6. book' \in [RunIds -> RunRecords \cup {None}] /\ book'[i] = e /\ \A j \in RunIds : j # i => book'[j] = book[j]
    BY <2>3, <2>5
  <2>7. \A j \in RunIds : RunMoves(j)
    BY <1>8, <2>6 DEF RunMoves
  <2>8. KeysDiffer'
    BY <1>8, <2>3, <2>6 DEF ClientsInv, KeysDiffer
  <2>9. KeysAreOf'
    <3>1. \/ k = <<IdentityOf[c], 0>>
          \/ c \notin Gates /\ KindOf[c] # "connector" /\ \E n \in Nat : k = <<c, n>>
      BY <1>2, <1>3, KindsOfClients DEF KeyFor, ClientRecords
    <3>2. ASSUME NEW j \in RunIds, book'[j] # None
          PROVE  \/ book'[j].key = <<None, 0>>
                 \/ \E d \in Clients : book'[j].key = <<IdentityOf[d], 0>>
                 \/ \E d \in Clients : d \notin Gates /\ KindOf[d] # "connector" /\ \E n \in Nat : book'[j].key = <<d, n>>
      <4>1. CASE j = i
        BY <2>3, <2>6, <3>1, <4>1
      <4>2. CASE j # i
        BY <2>6, <3>2, <4>2 DEF ClientsInv, KeysAreOf
      <4> QED
        BY <4>1, <4>2
    <3> QED
      BY <3>2 DEF KeysAreOf, Gates
  <2>10. UNCHANGED <<chain, file>>
    BY DEF HandleCreate
  <2>11. \A r \in ClientRecords :
           r.at = client[c].at /\ r.run = client[c].run /\ r.held = client[c].held /\ r.starts = client[c].starts /\ r.reply = x
           => ReplyOK(c, r)'
    BY <1>5, <2>1, <2>3, <2>4, <2>6
  <2>12. Replies(c, x)
    BY <1>8, <2>1
  <2> QED
    BY <2>6, <2>7, <2>8, <2>9, <2>10, <2>11, <2>12, ApiAnswers
<1>9. CASE {i \in RunIds : book[i] # None /\ book[i].key = k} # {}
  BY <1>3, <1>6, <1>7, <1>9 DEF HandleCreate
<1>10. CASE {i \in RunIds : book[i] # None /\ book[i].key = k} = {}
  <2>1. \A j \in RunIds : ~(book[j] # None /\ book[j].key = k)
    BY <1>10
  <2> QED
    BY <1>3, <1>8, <1>10, <2>1 DEF HandleCreate
<1> QED
  BY <1>9, <1>10

LEMMA HandleSubmitStep ==
  ASSUME ClientsInv, NEW c \in Clients, HandleSubmit(c)
  PROVE  ClientsInv'
<1>1. Engaged(c) /\ StepOf(c) = "submit"
  BY DEF HandleSubmit, Asking
<1>2. /\ client[c] \in ClientRecords /\ client[c].at = 2 /\ c \in Submitters /\ KeyFor(c) = KeyAt(c, client[c])
      /\ StepAt(c, client[c]) = "submit" /\ PlanOK(c, client[c])
  BY <1>1, Place, Positions, KindsOfClients
<1>3. PICK k : k = KeyFor(c)
  OBVIOUS
<1>4. k \in RunKeys /\ \A r : r.starts = client[c].starts => KeyAt(c, r) = k
  BY <1>2, <1>3, KeysTyped DEF KeyAt
<1>5. PICK i : i = client[c].run
  OBVIOUS
<1>6. i \in RunIds /\ book[i] # None /\ book[i] \in RunRecords
  <2>1. Asked(c, client[c], client[c].run)
    BY <1>2 DEF PlanOK
  <2> QED
    BY <1>5, <2>1 DEF Asked, ClientsInv, ClientsTypes
<1>7. CASE book[i].sub = k \/ (book[i].sub = None /\ book[i].stage = "ready")
  <2>1. PICK t : t = IF book[i].stage = "ready" /\ book[i].mode # "wallet" THEN "submitted" ELSE book[i].stage
    OBVIOUS
  <2>2. PICK a : a = [book[i] EXCEPT !.sub = k]
    OBVIOUS
  <2>3. /\ a \in RunRecords /\ a.sub = k /\ a.stage = book[i].stage /\ a.key = book[i].key
        /\ a.content = book[i].content /\ a.mode = book[i].mode /\ (book[i].sub = k => a = book[i])
    BY <1>4, <1>6, <2>2 DEF RunRecords
  <2>4. PICK e : e = [a EXCEPT !.stage = t]
    OBVIOUS
  <2>5. /\ e \in RunRecords /\ e.sub = k /\ e.key = book[i].key
        /\ e.content = book[i].content /\ e.mode = book[i].mode /\ (book[i].stage # "ready" => e = a)
    BY <2>1, <2>3, <2>4 DEF RunRecords
  <2>6. e # None
    BY <2>5, ClientsAssumption
  <2>7. book \in [RunIds -> RunRecords \cup {None}]
    BY DEF ClientsInv, ClientsTypes
  <2>8. book' = [book EXCEPT ![i].sub = k, ![i].stage = IF @ = "ready" /\ book[i].mode # "wallet" THEN "submitted" ELSE @]
    BY <1>3, <1>5, <1>7 DEF HandleSubmit
  <2>9. book' = [book EXCEPT ![i] = e]
    BY <1>6, <2>1, <2>2, <2>3, <2>4, <2>7, <2>8
  <2>10. book' \in [RunIds -> RunRecords \cup {None}] /\ book'[i] = e /\ \A j \in RunIds : j # i => book'[j] = book[j]
    BY <1>6, <2>5, <2>7, <2>9
  <2>11. \A j \in RunIds : RunMoves(j) /\ (book[j] = None => book'[j] = None)
    BY <1>6, <1>7, <2>3, <2>5, <2>6, <2>10 DEF RunMoves, Over
  <2>12. PICK j \in RunIds : Replies(c, [ok |-> TRUE, run |-> j])
    BY <1>3, <1>5, <1>7 DEF HandleSubmit
  <2>13. PICK x \in RunReplies : x = [ok |-> TRUE, run |-> j]
    BY DEF RunReplies
  <2>14. \A r \in ClientRecords :
           r.at = client[c].at /\ r.run = client[c].run /\ r.held = client[c].held /\ r.starts = client[c].starts /\ r.reply = x
           => ReplyOK(c, r)'
    <3> SUFFICES ASSUME NEW r \in ClientRecords, r.at = client[c].at, r.run = i, r.starts = client[c].starts, r.reply = x
                 PROVE  ReplyOK(c, r)'
      BY <1>5
    <3>1. StepAt(c, r) = "submit" /\ r.reply.run = j
      BY <1>2, <2>13 DEF StepAt
    <3>2. (book[r.run].sub = KeyAt(c, r))'
      BY <1>4, <2>5, <2>10 DEF KeyAt
    <3> QED
      BY <3>1, <3>2 DEF ReplyOK, StepAt
  <2>15. UNCHANGED <<chain, file>> /\ Replies(c, x)
    BY <2>12, <2>13 DEF HandleSubmit
  <2> QED
    BY <2>10, <2>11, <2>14, <2>15, KeysStay, ApiAnswers
<1>8. CASE ~(book[i].sub = k \/ (book[i].sub = None /\ book[i].stage = "ready"))
  BY <1>3, <1>5, <1>8, Refused DEF HandleSubmit
<1> QED
  BY <1>7, <1>8

\* The run of a client that has one.
LEMMA RunOf ==
  ASSUME ClientsInv, NEW c \in Clients, Engaged(c), c \in Submitters, client[c].at > 1
  PROVE  client[c].run \in RunIds /\ book[client[c].run] # None /\ book[client[c].run] \in RunRecords
<1>1. Asked(c, client[c], client[c].run)
  BY Place DEF PlanOK
<1> QED
  BY <1>1 DEF Asked, ClientsInv, ClientsTypes

\* A run of which one field is set, that is not over or stays as it was.
LEMMA RunChanges ==
  ASSUME ClientsInv, NEW i \in RunIds, book[i] # None, NEW e \in RunRecords, book' = [book EXCEPT ![i] = e],
         e.key = book[i].key, e.content = book[i].content, e.mode = book[i].mode,
         book[i].sub # None => e.sub = book[i].sub, Over(book[i]) => e = book[i]
  PROVE  /\ book' \in [RunIds -> RunRecords \cup {None}] /\ KeysDiffer' /\ KeysAreOf'
         /\ \A j \in RunIds : RunMoves(j)
<1>1. book' \in [RunIds -> RunRecords \cup {None}] /\ book'[i] = e /\ \A j \in RunIds : j # i => book'[j] = book[j]
  BY DEF ClientsInv, ClientsTypes
<1>2. \A j \in RunIds : RunMoves(j) /\ (book[j] = None => book'[j] = None)
  BY <1>1, ClientsAssumption DEF RunMoves
<1> QED
  BY <1>1, <1>2, KeysStay

LEMMA HandleAttachStep ==
  ASSUME ClientsInv, NEW c \in Clients, HandleAttach(c)
  PROVE  ClientsInv'
<1>1. Engaged(c) /\ StepOf(c) = "attach"
  BY DEF HandleAttach, Asking
<1>2. /\ client[c] \in ClientRecords /\ client[c].at = 4 /\ KindOf[c] = "wallet" /\ c \in Submitters
      /\ StepAt(c, client[c]) = "attach"
  BY <1>1, Place, Positions, KindsOfClients
<1>3. PICK i : i = client[c].run
  OBVIOUS
<1>4. i \in RunIds /\ book[i] # None /\ book[i] \in RunRecords
  BY <1>1, <1>2, <1>3, RunOf
<1>5. CASE book[i].stage = "ready"
  <2>1. PICK e : e = [book[i] EXCEPT !.stage = "submitted"]
    OBVIOUS
  <2>2. e \in RunRecords /\ e.key = book[i].key /\ e.content = book[i].content /\ e.mode = book[i].mode /\ e.sub = book[i].sub
    BY <1>4, <2>1 DEF RunRecords
  <2>3. book' = [book EXCEPT ![i] = e]
    BY <1>3, <1>4, <1>5, <2>1 DEF HandleAttach, ClientsInv, ClientsTypes
  <2>4. ~Over(book[i])
    BY <1>5 DEF Over
  <2>5. PICK x \in RunReplies : x = [ok |-> TRUE]
    BY DEF RunReplies
  <2>6. Replies(c, x) /\ UNCHANGED <<chain, file>>
    BY <1>3, <1>5, <2>5 DEF HandleAttach
  <2>7. ASSUME NEW r \in ClientRecords, r.at = client[c].at PROVE ReplyOK(c, r)'
    BY <1>2, <2>7 DEF ReplyOK, StepAt
  <2>8. /\ book' \in [RunIds -> RunRecords \cup {None}] /\ KeysDiffer' /\ KeysAreOf'
        /\ \A j \in RunIds : RunMoves(j)
    BY <1>4, <2>2, <2>3, <2>4, RunChanges
  <2> QED
    BY <2>6, <2>7, <2>8, ApiAnswers
<1>6. CASE book[i].stage # "ready"
  BY <1>3, <1>6, Refused DEF HandleAttach
<1> QED
  BY <1>5, <1>6

LEMMA HandleVerifyStep ==
  ASSUME ClientsInv, NEW c \in Clients, HandleVerify(c)
  PROVE  ClientsInv'
<1>1. Engaged(c) /\ StepOf(c) = "verify"
  BY DEF HandleVerify, Asking
<1>2. /\ client[c] \in ClientRecords /\ client[c].at = 4 /\ KindOf[c] = "liveGate" /\ c \in Submitters
      /\ StepAt(c, client[c]) = "verify" /\ KeyFor(c) \in RunKeys
  BY <1>1, Place, Positions, KindsOfClients, KeysTyped
<1>3. PICK i : i = client[c].run
  OBVIOUS
<1>4. i \in RunIds /\ book[i] # None /\ book[i] \in RunRecords
  BY <1>1, <1>2, <1>3, RunOf
<1>5. CASE book[i].ver = KeyFor(c) \/ (book[i].ver = None /\ book[i].stage = "proved")
  <2>1. PICK e : e = [book[i] EXCEPT !.ver = KeyFor(c)]
    OBVIOUS
  <2>2. /\ e \in RunRecords /\ e.key = book[i].key /\ e.content = book[i].content /\ e.mode = book[i].mode
        /\ e.sub = book[i].sub /\ (book[i].ver = KeyFor(c) => e = book[i])
    BY <1>2, <1>4, <2>1 DEF RunRecords
  <2>3. book' = [book EXCEPT ![i] = e]
    BY <1>3, <1>4, <1>5, <2>1 DEF HandleVerify, ClientsInv, ClientsTypes
  <2>4. Over(book[i]) => e = book[i]
    BY <1>5, <2>2 DEF Over
  <2>5. PICK x \in RunReplies : x = [ok |-> TRUE]
    BY DEF RunReplies
  <2>6. Replies(c, x) /\ UNCHANGED <<chain, file>>
    BY <1>3, <1>5, <2>5 DEF HandleVerify
  <2>7. ASSUME NEW r \in ClientRecords, r.at = client[c].at PROVE ReplyOK(c, r)'
    BY <1>2, <2>7 DEF ReplyOK, StepAt
  <2>8. /\ book' \in [RunIds -> RunRecords \cup {None}] /\ KeysDiffer' /\ KeysAreOf'
        /\ \A j \in RunIds : RunMoves(j)
    BY <1>4, <2>2, <2>3, <2>4, RunChanges
  <2> QED
    BY <2>6, <2>7, <2>8, ApiAnswers
<1>6. CASE ~(book[i].ver = KeyFor(c) \/ (book[i].ver = None /\ book[i].stage = "proved"))
  BY <1>3, <1>6, Refused DEF HandleVerify
<1> QED
  BY <1>5, <1>6

\* An answer that changes nothing at the API.
LEMMA ApiTells ==
  ASSUME ClientsInv, NEW c \in Clients, NEW x \in RunReplies, Replies(c, x), UNCHANGED <<book, chain, file>>,
         \A r \in ClientRecords :
           r.at = client[c].at /\ r.run = client[c].run /\ r.held = client[c].held /\ r.starts = client[c].starts /\ r.reply = x
           => ReplyOK(c, r)
  PROVE  ClientsInv'
<1>1. PICK r : r = [client[c] EXCEPT !.reply = x]
  OBVIOUS
<1>2. client[c] \in ClientRecords
  BY DEF ClientsInv, ClientsTypes
<1>3. r \in ClientRecords /\ r.at = client[c].at /\ r.run = client[c].run /\ r.held = client[c].held /\ r.reply = x
  BY <1>1, <1>2, Replied
<1>4. r.starts = client[c].starts
  BY <1>1, <1>2 DEF ClientRecords
<1> QED
  BY <1>1, <1>3, <1>4, AnswerComes

LEMMA HandleLookStep ==
  ASSUME ClientsInv, NEW c \in Clients, HandleLook(c)
  PROVE  ClientsInv'
<1>1. Engaged(c) /\ StepOf(c) \in {"boundary", "terminal"}
  BY DEF HandleLook, Asking
<1>2. StepAt(c, client[c]) \in {"boundary", "terminal"}
  BY <1>1, Place
<1>3. PICK i \in RunIds : book[i] # None /\ Replies(c, [ok |-> TRUE, run |-> i, proj |-> book[i]])
  BY DEF HandleLook
<1>4. book[i] \in RunRecords
  BY <1>3 DEF ClientsInv, ClientsTypes
<1>5. PICK x \in RunReplies : x = [ok |-> TRUE, run |-> i, proj |-> book[i]]
  BY <1>4 DEF RunReplies
<1>6. x.run = i /\ x.proj = book[i]
  BY <1>5
<1>7. Seen(x.proj, x.run)
  BY <1>3, <1>4, <1>6 DEF Seen
<1>8. ASSUME NEW r \in ClientRecords, r.at = client[c].at, r.reply = x PROVE ReplyOK(c, r)
  BY <1>2, <1>7, <1>8 DEF ReplyOK, StepAt
<1>9. UNCHANGED <<book, chain, file>> /\ Replies(c, x)
  BY <1>3, <1>5 DEF HandleLook
<1> QED
  BY <1>8, <1>9, ApiTells

LEMMA HandleBundleStep ==
  ASSUME ClientsInv, NEW c \in Clients, HandleBundle(c)
  PROVE  ClientsInv'
<1>1. Engaged(c) /\ StepOf(c) = "bundle"
  BY DEF HandleBundle, Asking
<1>2. StepAt(c, client[c]) = "bundle"
  BY <1>1, Place
<1>3. UNCHANGED <<book, chain, file>>
  BY DEF HandleBundle
<1>4. CASE Refuses(c)
  BY <1>3, <1>4, Refused
<1>5. ASSUME NEW i \in RunIds, Replies(c, [ok |-> TRUE, run |-> i]) PROVE ClientsInv'
  <2>1. PICK x \in RunReplies : x = [ok |-> TRUE, run |-> i]
    BY DEF RunReplies
  <2>2. x.run = i /\ Replies(c, x)
    BY <1>5, <2>1
  <2>3. ASSUME NEW r \in ClientRecords, r.at = client[c].at, r.reply = x PROVE ReplyOK(c, r)
    BY <1>2, <2>2, <2>3 DEF ReplyOK, StepAt
  <2> QED
    BY <1>3, <2>2, <2>3, ApiTells
<1> QED
  BY <1>4, <1>5 DEF HandleBundle

LEMMA HandleReplayStep ==
  ASSUME ClientsInv, NEW c \in Clients, HandleReplay(c)
  PROVE  ClientsInv'
<1>1. Engaged(c) /\ StepOf(c) = "replay"
  BY DEF HandleReplay, Asking
<1>2. StepAt(c, client[c]) = "replay" /\ PlanOK(c, client[c]) /\ client[c].at > 0
  BY <1>1, Place
<1>3. PICK i \in RunIds : client[c].held = <<i>>
  BY <1>2 DEF PlanOK
<1>4. Replies(c, [ok |-> TRUE, run |-> i]) /\ UNCHANGED <<book, chain, file>>
  BY <1>3 DEF HandleReplay
<1>5. PICK x \in RunReplies : x = [ok |-> TRUE, run |-> i]
  BY DEF RunReplies
<1>6. x.run = i /\ Replies(c, x)
  BY <1>4, <1>5
<1>7. ASSUME NEW r \in ClientRecords, r.at = client[c].at, r.reply = x PROVE ReplyOK(c, r)
  BY <1>2, <1>6, <1>7 DEF ReplyOK, StepAt
<1> QED
  BY <1>4, <1>6, <1>7, ApiTells

LEMMA BroadcastStep ==
  ASSUME ClientsInv, NEW c \in Clients, Broadcast(c)
  PROVE  ClientsInv'
<1>1. Engaged(c) /\ StepOf(c) = "sign"
  BY DEF Broadcast, Asking
<1>2. /\ client[c] \in ClientRecords /\ client[c].at = 3 /\ KindOf[c] = "wallet" /\ c \in Submitters
      /\ StepAt(c, client[c]) = "sign" /\ PlanOK(c, client[c]) /\ 3 > 2 /\ 3 > 1
  BY <1>1, Place, Positions, KindsOfClients
<1>3. PICK i : i = client[c].run
  OBVIOUS
<1>4. client[c].held = <<i>> /\ Asked(c, client[c], i) /\ book[i].sub = KeyAt(c, client[c])
  BY <1>2, <1>3 DEF PlanOK
<1>5. PICK t : t = [by |-> c, start |-> client[c].starts, run |-> i]
  OBVIOUS
<1>6. t \in TransactionRecords /\ t.by = c /\ t.start = client[c].starts /\ t.run = i
  BY <1>2, <1>4, <1>5 DEF TransactionRecords, ClientRecords, Asked
<1>7. chain' = chain \cup {t} /\ UNCHANGED <<book, file>>
  BY <1>4, <1>5 DEF Broadcast
<1>8. book[t.run] # None /\ book[t.run].key = <<t.by, t.start>> /\ book[t.run].sub = book[t.run].key
  BY <1>2, <1>4, <1>6 DEF Asked, KeyAt
<1>9. ChainOK' /\ chain' \subseteq TransactionRecords
  BY <1>6, <1>7, <1>8 DEF ClientsInv, ClientsTypes, ChainOK
<1>10. PICK x \in RunReplies : Replies(c, x)
  <2>1. [ok |-> TRUE] \in RunReplies /\ [ok |-> FALSE] \in RunReplies
    BY DEF RunReplies
  <2> QED
    BY <2>1 DEF Broadcast, Refuses
<1>11. PICK r : r = [client[c] EXCEPT !.reply = x]
  OBVIOUS
<1>12. r \in ClientRecords /\ PlanOK(c, r) /\ r.at = client[c].at
  BY <1>2, <1>11, Replied
<1>13. PlanOK(c, r)' /\ ReplyOK(c, r)'
  <2>1. \A j \in RunIds : RunMoves(j)
    BY <1>7, QuietRuns
  <2>2. PlanOK(c, r)'
    BY <1>12, <2>1, PlanStays
  <2>3. ReplyOK(c, r)'
    BY <1>2, <1>12 DEF ReplyOK, StepAt
  <2> QED
    BY <2>2, <2>3
<1>14. client' = [client EXCEPT ![c] = r]
  BY <1>2, <1>10, <1>11 DEF Replies, ClientsInv, ClientsTypes
<1> QED
  BY <1>7, <1>9, <1>12, <1>13, <1>14, QuietRuns, ClientMoves

---------------------------------------------------------------------------
(* The steps of the clients.                                               *)

LEMMA ClientStartsStep ==
  ASSUME ClientsInv, NEW c \in Clients, ClientStarts(c)
  PROVE  ClientsInv'
<1>1. client[c] \in ClientRecords /\ client \in [Clients -> ClientRecords]
  BY DEF ClientsInv, ClientsTypes
<1>2. PICK n \in 0 .. MaxStarts : n = client[c].starts + 1
  <2>1. client[c].starts \in 0 .. MaxStarts /\ client[c].starts < MaxStarts /\ MaxStarts \in Nat
    BY <1>1, ClientsAssumption DEF ClientStarts, ClientRecords
  <2> QED
    BY <2>1
<1>3. PICK configured \in BOOLEAN :
        client' = [client EXCEPT
          ![c] = [Unstarted EXCEPT !.at = IF configured THEN 1 ELSE 0, !.starts = client[c].starts + 1,
                    !.end = IF configured THEN None ELSE "failed",
                    !.run = IF KindOf[c] = "validator" THEN ContentOf[c] ELSE None]]
  BY DEF ClientStarts
<1>4. PICK p, f, x : /\ p = (IF configured THEN 1 ELSE 0) /\ f = (IF configured THEN None ELSE "failed")
                     /\ x = (IF KindOf[c] = "validator" THEN ContentOf[c] ELSE None)
  OBVIOUS
<1>5. PICK r : r = [[[[Unstarted EXCEPT !.at = p] EXCEPT !.starts = n] EXCEPT !.end = f] EXCEPT !.run = x]
  OBVIOUS
<1>6. r \in ClientRecords /\ r.at \in {0, 1} /\ r.end # "done" /\ r.reply = None
  <2>1. Unstarted \in ClientRecords /\ Unstarted.reply = None
    <3>1. <<>> \in Seq(RunIds) /\ 0 \in 0 .. MaxStarts /\ 0 \in 0 .. TimeLimit
      BY ClientsAssumption
    <3> QED
      BY <3>1 DEF Unstarted, ClientRecords
  <2>2. p \in Nat /\ p \in {0, 1} /\ f \in {None, "failed"} /\ f # "done" /\ x \in RunIds \cup {None}
    BY <1>4, ClientsAssumption
  <2>3. PICK d : d = [Unstarted EXCEPT !.at = p]
    OBVIOUS
  <2>4. d \in ClientRecords /\ d.at = p /\ d.reply = None
    BY <2>1, <2>2, <2>3 DEF ClientRecords
  <2>5. PICK e : e = [d EXCEPT !.starts = n]
    OBVIOUS
  <2>6. e \in ClientRecords /\ e.at = p /\ e.reply = None
    BY <2>4, <2>5 DEF ClientRecords
  <2>7. PICK g : g = [e EXCEPT !.end = f]
    OBVIOUS
  <2>8. g \in ClientRecords /\ g.at = p /\ g.reply = None /\ g.end = f
    BY <2>2, <2>6, <2>7 DEF ClientRecords
  <2>9. r = [g EXCEPT !.run = x]
    BY <1>5, <2>3, <2>5, <2>7
  <2>10. r \in ClientRecords /\ r.at = p /\ r.reply = None /\ r.end = f
    BY <2>2, <2>8, <2>9 DEF ClientRecords
  <2> QED
    BY <2>2, <2>10
<1>7. client' = [client EXCEPT ![c] = r]
  BY <1>2, <1>3, <1>4, <1>5 DEF Unstarted
<1>8. PlanOK(c, r)
  <2>1. /\ r.at \in 0 .. PlanLength(KindOf[c]) /\ ~(r.at > 1) /\ ~(r.at > 2) /\ ~(r.at >= BundleAt(c))
        /\ r.at > 0 => r.at \in 1 .. PlanLength(KindOf[c]) /\ r.at = 1
    BY <1>6, PlanBounds
  <2>2. r.at > 0 => StepAt(c, r) # "replay"
    BY <2>1, Positions, KindsOfClients DEF StepAt
  <2> QED
    BY <1>6, <2>1, <2>2 DEF PlanOK
<1>9. UNCHANGED <<book, chain, file>> /\ ReplyOK(c, r)
  BY <1>6 DEF ClientStarts, ReplyOK
<1> QED
  BY <1>6, <1>7, <1>8, <1>9, ClientGoes, QuietRuns

LEMMA WaitsStep ==
  ASSUME ClientsInv, NEW c \in Clients, Waits(c)
  PROVE  ClientsInv'
  BY Refused, ClientEnds DEF Waits

LEMMA ClientFailsStep ==
  ASSUME ClientsInv, NEW c \in Clients, ClientFails(c) \/ ClientExpires(c)
  PROVE  ClientsInv'
  BY ClientEnds DEF ClientFails, ClientExpires

LEMMA RunMadeStep ==
  ASSUME ClientsInv, NEW c \in Clients, RunMade(c)
  PROVE  ClientsInv'
<1>1. Engaged(c) /\ StepOf(c) = "create" /\ client[c].reply # None /\ client[c].reply.ok
  BY DEF RunMade, Heard
<1>2. /\ client[c] \in ClientRecords /\ client[c].at = 1 /\ c \in Submitters /\ client[c].at > 0
      /\ StepAt(c, client[c]) = "create" /\ ReplyOK(c, client[c]) /\ (c \in Gates => client[c].end # "done")
  BY <1>1, Place, Positions, KindsOfClients
<1>3. Asked(c, client[c], client[c].reply.run)
  BY <1>1, <1>2 DEF ReplyOK
<1>4. PICK s : s = [client[c] EXCEPT !.run = client[c].reply.run]
  OBVIOUS
<1>5. /\ s \in ClientRecords /\ s.at = 1 /\ s.starts = client[c].starts /\ s.run = client[c].reply.run
      /\ s.end = client[c].end
  BY <1>2, <1>3, <1>4 DEF ClientRecords, Asked
<1>6. ASSUME NEW r \in ClientRecords, r.run = s.run, r.starts = s.starts,
             s.at = PlanLength(KindOf[c]) => r.at = 0 /\ r.end = "done",
             s.at # PlanLength(KindOf[c]) => r.at = s.at + 1 /\ r.end = s.end
      PROVE  PlanOK(c, r)
  <2>1. r.at = 2 /\ r.end = client[c].end
    BY <1>5, <1>6, PlanBounds
  <2>2. /\ r.at \in 0 .. PlanLength(KindOf[c]) /\ ~(r.at > 2) /\ ~(r.at >= BundleAt(c))
        /\ r.at \in 1 .. PlanLength(KindOf[c])
    BY <2>1, PlanBounds
  <2>3. StepAt(c, r) # "replay"
    BY <1>2, <2>1, <2>2, Positions, KindsOfClients DEF StepAt
  <2>4. Asked(c, r, r.run)
    BY <1>3, <1>5, <1>6 DEF Asked, KeyAt
  <2> QED
    BY <1>2, <2>1, <2>2, <2>3, <2>4 DEF PlanOK
<1>7. Proceeds(c, s) /\ UNCHANGED <<book, chain, file>>
  BY <1>4 DEF RunMade
<1>8. RecordingIsWhole'
  BY <1>7, QuietRuns
<1> QED
  BY <1>5, <1>6, <1>7, <1>8, Proceeding

LEMMA SubmittedStep ==
  ASSUME ClientsInv, NEW c \in Clients, Submitted(c)
  PROVE  ClientsInv'
<1>1. Engaged(c) /\ StepOf(c) = "submit" /\ client[c].reply # None /\ client[c].reply.ok
  BY DEF Submitted, Heard
<1>2. /\ client[c] \in ClientRecords /\ client[c].at = 2 /\ c \in Submitters /\ client[c].at > 0 /\ client[c].at > 1
      /\ StepAt(c, client[c]) = "submit" /\ ReplyOK(c, client[c]) /\ (c \in Gates => client[c].end # "done")
      /\ PlanOK(c, client[c])
  BY <1>1, Place, Positions, KindsOfClients
<1>3. /\ client[c].reply.run \in RunIds /\ book[client[c].run].sub = KeyAt(c, client[c])
      /\ Asked(c, client[c], client[c].run)
  BY <1>1, <1>2 DEF ReplyOK, PlanOK
<1>4. UNCHANGED <<book, chain, file>>
  BY DEF Submitted
<1>5. CASE ForMyRun(c)
  <2>1. PICK s : s = [client[c] EXCEPT !.held = <<client[c].reply.run>>]
    OBVIOUS
  <2>2. <<client[c].reply.run>> \in Seq(RunIds)
    BY <1>3
  <2>3. /\ s \in ClientRecords /\ s.at = 2 /\ s.starts = client[c].starts /\ s.run = client[c].run
        /\ s.end = client[c].end /\ s.held = <<client[c].reply.run>>
    BY <1>2, <2>1, <2>2 DEF ClientRecords
  <2>4. KindOf[c] = "wallet" => s.held = <<s.run>>
    BY <1>5, <2>3 DEF ForMyRun
  <2>5. ASSUME NEW r \in ClientRecords, r.run = s.run, r.starts = s.starts, r.held = s.held,
               s.at = PlanLength(KindOf[c]) => r.at = 0 /\ r.end = "done",
               s.at # PlanLength(KindOf[c]) => r.at = s.at + 1 /\ r.end = s.end
        PROVE  PlanOK(c, r)
    <3>1. KeyAt(c, r) = KeyAt(c, client[c]) /\ Asked(c, r, r.run) /\ book[r.run].sub = KeyAt(c, r)
      BY <1>3, <2>3, <2>5 DEF Asked, KeyAt
    <3>2. CASE PlanLength(KindOf[c]) = 2
      <4>1. r.at = 0
        BY <2>3, <2>5, <3>2
      <4>2. c \notin Gates
        BY <3>2, PlanBounds, KindsOfClients
      <4>3. r.at \in 0 .. PlanLength(KindOf[c]) /\ ~(r.at > 1) /\ ~(r.at > 2) /\ ~(r.at > 0)
        BY <3>2, <4>1
      <4> QED
        BY <4>2, <4>3 DEF PlanOK
    <3>3. CASE PlanLength(KindOf[c]) # 2
      <4>1. r.at = 3 /\ r.end = client[c].end
        BY <2>3, <2>5, <3>3
      <4>2. PlanLength(KindOf[c]) > 2 /\ PlanLength(KindOf[c]) \in Nat
        BY <3>3, PlanBounds
      <4>3. r.at \in 0 .. PlanLength(KindOf[c]) /\ r.at \in 1 .. PlanLength(KindOf[c])
        BY <4>1, <4>2
      <4>4. ~(r.at >= BundleAt(c))
        BY <4>1, PlanBounds
      <4>5. StepAt(c, r) # "replay"
        BY <4>1, <4>3, Positions, KindsOfClients DEF StepAt
      <4> QED
        BY <1>2, <2>4, <2>5, <3>1, <4>1, <4>3, <4>4, <4>5 DEF PlanOK
    <3> QED
      BY <3>2, <3>3
  <2>6. Proceeds(c, s)
    BY <1>5, <2>1 DEF Submitted
  <2>7. RecordingIsWhole'
    BY <1>4, QuietRuns
  <2> QED
    BY <1>4, <2>3, <2>5, <2>6, <2>7, Proceeding
<1>6. CASE ~ForMyRun(c)
  BY <1>4, <1>6, ClientEnds DEF Submitted
<1> QED
  BY <1>5, <1>6

LEMMA StepGoesOnStep ==
  ASSUME ClientsInv, NEW c \in Clients, NEW stp \in {"sign", "attach", "verify"}, StepGoesOn(c, stp)
  PROVE  ClientsInv'
<1>1. Engaged(c) /\ StepOf(c) = stp
  BY DEF StepGoesOn, Heard
<1>2. /\ client[c] \in ClientRecords /\ c \in Submitters /\ client[c].at > 0
      /\ (c \in Gates => client[c].end # "done") /\ PlanOK(c, client[c])
      /\ \/ stp = "sign" /\ KindOf[c] = "wallet" /\ client[c].at = 3
         \/ stp = "attach" /\ KindOf[c] = "wallet" /\ client[c].at = 4
         \/ stp = "verify" /\ KindOf[c] = "liveGate" /\ client[c].at = 4
  BY <1>1, Place, Positions, KindsOfClients
<1>3. client[c].at > 1 /\ client[c].at > 2
  BY <1>2
<1>4. /\ book[client[c].run].sub = KeyAt(c, client[c]) /\ Asked(c, client[c], client[c].run)
      /\ KindOf[c] = "wallet" => client[c].held = <<client[c].run>>
  BY <1>2, <1>3 DEF PlanOK
<1>5. ASSUME NEW r \in ClientRecords, r.run = client[c].run, r.starts = client[c].starts, r.held = client[c].held,
             client[c].at = PlanLength(KindOf[c]) => r.at = 0 /\ r.end = "done",
             client[c].at # PlanLength(KindOf[c]) => r.at = client[c].at + 1 /\ r.end = client[c].end
      PROVE  PlanOK(c, r)
  <2>1. KeyAt(c, r) = KeyAt(c, client[c]) /\ Asked(c, r, r.run) /\ book[r.run].sub = KeyAt(c, r)
    BY <1>4, <1>5 DEF Asked, KeyAt
  <2>2. KindOf[c] = "wallet" => c \notin Gates /\ PlanLength(KindOf[c]) = 4
    BY KindsOfClients, PlanBounds
  <2>3. KindOf[c] = "liveGate" => PlanLength(KindOf[c]) = 7 /\ BundleAt(c) = 6
    BY PlanBounds
  <2>4. CASE stp = "attach"
    <3>1. r.at = 0 /\ c \notin Gates
      BY <1>2, <1>5, <2>2, <2>4
    <3>2. r.at \in 0 .. PlanLength(KindOf[c]) /\ ~(r.at > 1) /\ ~(r.at > 2) /\ ~(r.at > 0)
      BY <1>2, <2>2, <2>4, <3>1
    <3> QED
      BY <3>1, <3>2 DEF PlanOK
  <2>5. CASE stp = "sign"
    <3>1. r.at = 4 /\ c \notin Gates /\ r.held = <<r.run>>
      BY <1>2, <1>4, <1>5, <2>2, <2>5
    <3>2. r.at \in 0 .. PlanLength(KindOf[c]) /\ r.at \in 1 .. PlanLength(KindOf[c])
      BY <1>2, <2>2, <2>5, <3>1
    <3>3. StepAt(c, r) # "replay"
      BY <1>2, <2>5, <3>1, <3>2, Positions, KindsOfClients DEF StepAt
    <3> QED
      BY <2>1, <3>1, <3>2, <3>3 DEF PlanOK
  <2>6. CASE stp = "verify"
    <3>1. r.at = 5 /\ r.end = client[c].end /\ KindOf[c] = "liveGate"
      BY <1>2, <1>5, <2>3, <2>6
    <3>2. r.at \in 0 .. PlanLength(KindOf[c]) /\ r.at \in 1 .. PlanLength(KindOf[c]) /\ ~(r.at >= BundleAt(c))
      BY <1>2, <2>3, <2>6, <3>1
    <3>3. StepAt(c, r) # "replay"
      BY <3>1, <3>2, Positions, KindsOfClients DEF StepAt
    <3> QED
      BY <1>2, <2>1, <3>1, <3>2, <3>3 DEF PlanOK
  <2> QED
    BY <2>4, <2>5, <2>6
<1>6. Proceeds(c, client[c]) /\ UNCHANGED <<book, chain, file>>
  BY DEF StepGoesOn
<1>7. RecordingIsWhole'
  BY <1>6, QuietRuns
<1> QED
  BY <1>2, <1>5, <1>6, <1>7, Proceeding

LEMMA InspectsStep ==
  ASSUME ClientsInv, NEW c \in Clients, Inspects(c)
  PROVE  ClientsInv'
<1>1. Engaged(c) /\ StepOf(c) \in {"boundary", "terminal"} /\ client[c].reply # None /\ client[c].reply.ok
  BY DEF Inspects, Heard
<1>2. /\ client[c] \in ClientRecords /\ c \in Gates /\ c \in Submitters /\ client[c].at > 0
      /\ client[c].end # "done" /\ PlanOK(c, client[c]) /\ ReplyOK(c, client[c])
      /\ StepAt(c, client[c]) = StepOf(c)
      /\ \/ StepOf(c) = "boundary" /\ KindOf[c] = "liveGate" /\ client[c].at = 3
         \/ StepOf(c) = "terminal" /\ KindOf[c] = "liveGate" /\ client[c].at = 5
         \/ StepOf(c) = "terminal" /\ KindOf[c] = "gate" /\ client[c].at = 3
  BY <1>1, Place, Positions, KindsOfClients
<1>3. client[c].at > 1 /\ client[c].at > 2
  BY <1>2
<1>4. /\ book[client[c].run].sub = KeyAt(c, client[c]) /\ Asked(c, client[c], client[c].run)
      /\ Seen(client[c].reply.proj, client[c].reply.run)
  BY <1>1, <1>2, <1>3 DEF PlanOK, ReplyOK
<1>5. UNCHANGED <<book, chain, file>> /\ RecordingIsWhole'
  BY QuietRuns DEF Inspects
<1>6. \A r : r.run = client[c].run /\ r.starts = client[c].starts =>
        KeyAt(c, r) = KeyAt(c, client[c]) /\ Asked(c, r, r.run) /\ book[r.run].sub = KeyAt(c, r)
  BY <1>4 DEF Asked, KeyAt
<1>7. /\ KindOf[c] = "liveGate" => PlanLength(KindOf[c]) = 7 /\ BundleAt(c) = 6
      /\ KindOf[c] = "gate" => PlanLength(KindOf[c]) = 5 /\ BundleAt(c) = 4
  BY PlanBounds
<1>8. CASE client[c].reply.run = client[c].run /\ StepOf(c) = "terminal"
           /\ client[c].reply.proj.stage \in {"passed", "refused", "failed"}
  <2>1. PICK s : s = [client[c] EXCEPT !.proj = client[c].reply.proj]
    OBVIOUS
  <2>2. /\ s \in ClientRecords /\ s.at = client[c].at /\ s.starts = client[c].starts /\ s.run = client[c].run
        /\ s.end = client[c].end /\ s.proj = client[c].reply.proj
    BY <1>2, <1>4, <2>1 DEF ClientRecords, Seen
  <2>3. Seen(s.proj, s.run) /\ Over(s.proj)
    BY <1>4, <1>8, <2>2 DEF Over
  <2>4. ASSUME NEW r \in ClientRecords, r.run = s.run, r.starts = s.starts, r.proj = s.proj,
               s.at = PlanLength(KindOf[c]) => r.at = 0 /\ r.end = "done",
               s.at # PlanLength(KindOf[c]) => r.at = s.at + 1 /\ r.end = s.end
        PROVE  PlanOK(c, r)
    <3>1. \/ r.at = 6 /\ KindOf[c] = "liveGate" /\ PlanLength(KindOf[c]) = 7
          \/ r.at = 4 /\ KindOf[c] = "gate" /\ PlanLength(KindOf[c]) = 5
      BY <1>2, <1>7, <1>8, <2>2, <2>4
    <3>2. r.end # "done"
      BY <1>2, <1>7, <1>8, <2>2, <2>4
    <3>3. r.at \in 0 .. PlanLength(KindOf[c]) /\ r.at \in 1 .. PlanLength(KindOf[c])
      BY <3>1
    <3>4. StepAt(c, r) # "replay" /\ KindOf[c] # "wallet"
      BY <3>1, <3>3, Positions, KindsOfClients DEF StepAt
    <3>5. Asked(c, r, r.run) /\ book[r.run].sub = KeyAt(c, r)
      BY <1>6, <2>2, <2>4
    <3> QED
      BY <2>3, <2>4, <3>2, <3>3, <3>4, <3>5 DEF PlanOK
  <2>5. Proceeds(c, s)
    BY <1>8, <2>1 DEF Inspects
  <2> QED
    BY <1>5, <2>2, <2>4, <2>5, Proceeding
<1>9. ASSUME NEW s \in ClientRecords, s.run = client[c].run, s.starts = client[c].starts, s.end = client[c].end,
             s.at \in {3, 4}, KindOf[c] = "liveGate", Proceeds(c, s)
      PROVE  ClientsInv'
  <2>1. ASSUME NEW r \in ClientRecords, r.run = s.run, r.starts = s.starts,
               s.at = PlanLength(KindOf[c]) => r.at = 0 /\ r.end = "done",
               s.at # PlanLength(KindOf[c]) => r.at = s.at + 1 /\ r.end = s.end
        PROVE  PlanOK(c, r)
    <3>1. PlanLength(KindOf[c]) = 7 /\ BundleAt(c) = 6
      BY <1>7, <1>9
    <3>2. r.at \in {4, 5} /\ r.end # "done"
      BY <1>2, <1>9, <2>1, <3>1
    <3>3. r.at \in 0 .. PlanLength(KindOf[c]) /\ r.at \in 1 .. PlanLength(KindOf[c]) /\ ~(r.at >= BundleAt(c))
      BY <3>1, <3>2
    <3>4. StepAt(c, r) # "replay" /\ KindOf[c] # "wallet"
      BY <1>9, <3>2, <3>3, Positions, KindsOfClients DEF StepAt
    <3>5. Asked(c, r, r.run) /\ book[r.run].sub = KeyAt(c, r)
      BY <1>6, <1>9, <2>1
    <3> QED
      BY <3>2, <3>3, <3>4, <3>5 DEF PlanOK
  <2> QED
    BY <1>5, <1>9, <2>1, Proceeding
<1>10. CASE StepOf(c) = "boundary" /\ Proceeds(c, [client[c] EXCEPT !.at = @ + 1])
  <2>1. PICK n \in Nat : n = client[c].at + 1
    BY <1>2, <1>10
  <2>2. PICK s : s = [client[c] EXCEPT !.at = n]
    OBVIOUS
  <2>3. /\ s \in ClientRecords /\ s.at = n /\ s.starts = client[c].starts /\ s.run = client[c].run
        /\ s.end = client[c].end
    BY <1>2, <2>1, <2>2 DEF ClientRecords
  <2>4. Proceeds(c, s)
    BY <1>10, <2>1, <2>2
  <2>5. s.at \in {3, 4} /\ KindOf[c] = "liveGate"
    BY <1>2, <1>10, <2>1, <2>3
  <2> QED
    BY <1>9, <2>3, <2>4, <2>5
<1>11. CASE StepOf(c) = "boundary" /\ Proceeds(c, client[c])
  BY <1>2, <1>9, <1>11
<1>12. CASE EndsAs(c, "failed")
  BY <1>5, <1>12, ClientEnds
<1>13. CASE Replies(c, None)
  BY <1>5, <1>13, Refused
<1> QED
  BY <1>1, <1>8, <1>10, <1>11, <1>12, <1>13 DEF Inspects

LEMMA HoldsBundleStep ==
  ASSUME ClientsInv, NEW c \in Clients, HoldsBundle(c)
  PROVE  ClientsInv'
<1>1. Engaged(c) /\ StepOf(c) = "bundle" /\ client[c].reply # None /\ client[c].reply.ok
  BY DEF HoldsBundle, Heard
<1>2. /\ client[c] \in ClientRecords /\ client[c].at > 0 /\ client[c].at \in Nat
      /\ PlanOK(c, client[c]) /\ ReplyOK(c, client[c]) /\ StepAt(c, client[c]) = "bundle"
      /\ (c \in Gates => client[c].end # "done")
      /\ \/ client[c].at = 6 /\ KindOf[c] = "liveGate" /\ c \in Gates /\ c \in Submitters
         \/ client[c].at = 4 /\ KindOf[c] = "gate" /\ c \in Gates /\ c \in Submitters
         \/ client[c].at \in {1, 2} /\ KindOf[c] = "recorder" /\ c \notin Gates /\ c \notin Submitters
         \/ client[c].at = 1 /\ KindOf[c] = "validator" /\ c \notin Gates /\ c \notin Submitters
  BY <1>1, Place, Positions, KindsOfClients
<1>3. client[c].reply.run \in RunIds
  BY <1>1, <1>2 DEF ReplyOK
<1>4. PICK h : h = IF KindOf[c] = "recorder" THEN Append(client[c].held, client[c].reply.run) ELSE <<client[c].reply.run>>
  OBVIOUS
<1>5. h \in Seq(RunIds) /\ (KindOf[c] # "recorder" => \E x \in RunIds : h = <<x>>)
  BY <1>2, <1>3, <1>4, AppendProperties DEF ClientRecords
<1>6. PICK s : s = [client[c] EXCEPT !.held = h]
  OBVIOUS
<1>7. /\ s \in ClientRecords /\ s.at = client[c].at /\ s.starts = client[c].starts /\ s.run = client[c].run
      /\ s.end = client[c].end /\ s.proj = client[c].proj /\ s.held = h
  BY <1>2, <1>5, <1>6 DEF ClientRecords
<1>8. Proceeds(c, s) /\ UNCHANGED <<book, chain, file>>
  BY <1>2, <1>4, <1>6 DEF HoldsBundle, ClientRecords
<1>9. /\ KindOf[c] = "liveGate" => PlanLength(KindOf[c]) = 7 /\ BundleAt(c) = 6
      /\ KindOf[c] = "gate" => PlanLength(KindOf[c]) = 5 /\ BundleAt(c) = 4
      /\ KindOf[c] = "recorder" => PlanLength(KindOf[c]) = 3
      /\ KindOf[c] = "validator" => PlanLength(KindOf[c]) = 2
  BY PlanBounds
<1>10. ASSUME NEW r \in ClientRecords, r.run = s.run, r.starts = s.starts, r.proj = s.proj, r.held = s.held,
              s.at = PlanLength(KindOf[c]) => r.at = 0 /\ r.end = "done",
              s.at # PlanLength(KindOf[c]) => r.at = s.at + 1 /\ r.end = s.end
       PROVE  PlanOK(c, r)
  <2>1. s.at # PlanLength(KindOf[c])
    BY <1>2, <1>7, <1>9
  <2>2. r.at = client[c].at + 1 /\ r.end = client[c].end
    BY <1>7, <1>10, <2>1
  <2>3. r.at \in 0 .. PlanLength(KindOf[c])
    BY <1>2, <1>9, <2>2
  <2>4. CASE c \in Gates
    <3>1. c \in Submitters /\ client[c].at > 1 /\ client[c].at > 2 /\ client[c].at >= BundleAt(c) /\ KindOf[c] # "wallet"
      BY <1>2, <1>9, <2>4
    <3>2. /\ book[client[c].run].sub = KeyAt(c, client[c]) /\ Asked(c, client[c], client[c].run)
          /\ Seen(client[c].proj, client[c].run) /\ Over(client[c].proj)
      BY <1>2, <2>4, <3>1 DEF PlanOK
    <3>3. /\ book[r.run].sub = KeyAt(c, r) /\ Asked(c, r, r.run) /\ Seen(r.proj, r.run) /\ Over(r.proj)
      BY <1>7, <1>10, <3>2 DEF Asked, KeyAt
    <3>4. KindOf[c] # "recorder"
      BY <1>2, <2>4
    <3>5. \E x \in RunIds : r.held = <<x>>
      BY <1>5, <1>7, <1>10, <3>4
    <3> QED
      BY <1>2, <2>2, <2>3, <2>4, <3>1, <3>3, <3>5 DEF PlanOK
  <2>5. CASE c \notin Gates
    <3>1. c \notin Submitters /\ KindOf[c] \in {"recorder", "validator"}
      BY <1>2, <2>5
    <3>2. CASE KindOf[c] = "recorder"
      <4>1. r.at \in 1 .. PlanLength(KindOf[c])
        BY <1>2, <1>9, <2>2, <3>2
      <4>2. StepAt(c, r) # "replay"
        BY <3>2, <4>1, Positions, KindsOfClients DEF StepAt
      <4> QED
        BY <2>3, <2>5, <3>1, <4>2 DEF PlanOK
    <3>3. CASE KindOf[c] = "validator"
      BY <1>5, <1>7, <1>10, <2>3, <2>5, <3>1, <3>3 DEF PlanOK
    <3> QED
      BY <3>1, <3>2, <3>3
  <2> QED
    BY <2>4, <2>5
<1>11. RecordingIsWhole'
  BY <1>8, QuietRuns
<1> QED
  BY <1>7, <1>8, <1>10, <1>11, Proceeding

LEMMA ReplayedStep ==
  ASSUME ClientsInv, NEW c \in Clients, Replayed(c)
  PROVE  ClientsInv'
<1>1. Engaged(c) /\ StepOf(c) = "replay" /\ InTime(c) /\ UNCHANGED <<book, chain, file>>
  BY DEF Replayed, Heard
<1>2. /\ client[c] \in ClientRecords /\ client[c].at > 0 /\ PlanOK(c, client[c])
      /\ StepAt(c, client[c]) = "replay"
      /\ \/ client[c].at = 7 /\ KindOf[c] = "liveGate" /\ c \in Gates /\ c \in Submitters
         \/ client[c].at = 5 /\ KindOf[c] = "gate" /\ c \in Gates /\ c \in Submitters
         \/ client[c].at = 2 /\ KindOf[c] = "validator" /\ c \notin Gates /\ c \notin Submitters
  BY <1>1, Place, Positions, KindsOfClients
<1>3. CASE BundleIsMine(c) /\ (KindOf[c] = "validator" \/ Accepts(c))
  <2>1. Proceeds(c, client[c])
    BY <1>3 DEF Replayed
  <2>2. PICK x \in RunIds : client[c].held = <<x>>
    BY <1>2 DEF PlanOK
  <2>3. client[c].held = <<client[c].run>>
    BY <1>3, <2>2 DEF BundleIsMine
  <2>4. /\ client[c].at = PlanLength(KindOf[c])
        /\ c \in Gates => client[c].at > 1 /\ client[c].at > 2 /\ client[c].at >= BundleAt(c)
    <3>1. /\ KindOf[c] = "liveGate" => PlanLength(KindOf[c]) = 7 /\ BundleAt(c) = 6
          /\ KindOf[c] = "gate" => PlanLength(KindOf[c]) = 5 /\ BundleAt(c) = 4
          /\ KindOf[c] = "validator" => PlanLength(KindOf[c]) = 2
      BY PlanBounds
    <3> QED
      BY <1>2, <3>1
  <2>5. c \in Gates =>
          /\ book[client[c].run].sub = KeyAt(c, client[c]) /\ Asked(c, client[c], client[c].run)
          /\ Seen(client[c].proj, client[c].run) /\ Over(client[c].proj)
    BY <1>2, <2>4 DEF PlanOK
  <2>6. c \in Gates =>
          /\ book[client[c].run].stage = "passed" /\ (KindOf[c] = "liveGate" => ~book[client[c].run].again)
          /\ client[c].age < TimeLimit
    BY <1>1, <1>2, <1>3, <2>5 DEF Seen, Accepts, InTime
  <2>7. ASSUME NEW r \in ClientRecords, r.run = client[c].run, r.starts = client[c].starts, r.held = client[c].held,
               r.age = client[c].age, r.at = 0
        PROVE  PlanOK(c, r)
    <3>1. c \in Gates => book[r.run].sub = KeyAt(c, r) /\ Asked(c, r, r.run)
      BY <2>5, <2>7 DEF Asked, KeyAt
    <3>2. /\ r.at \in 0 .. PlanLength(KindOf[c]) /\ ~(r.at > 1) /\ ~(r.at > 2) /\ ~(r.at >= BundleAt(c)) /\ ~(r.at > 0)
      BY <2>7, PlanBounds
    <3> QED
      BY <2>3, <2>6, <2>7, <3>1, <3>2 DEF PlanOK
  <2>8. RecordingIsWhole'
    BY <1>1, QuietRuns
  <2> QED
    BY <1>1, <1>2, <2>1, <2>4, <2>7, <2>8, Proceeding
<1>4. CASE ~(BundleIsMine(c) /\ (KindOf[c] = "validator" \/ Accepts(c)))
  BY <1>1, <1>4, ClientEnds DEF Replayed
<1> QED
  BY <1>3, <1>4

LEMMA WriteBeginsStep ==
  ASSUME ClientsInv, NEW c \in Clients, WriteBegins(c)
  PROVE  ClientsInv'
<1>1. Engaged(c) /\ StepOf(c) = "write"
  BY DEF WriteBegins, Asking
<1>2. StepAt(c, client[c]) = "write"
  BY <1>1, Place
<1>3. CASE AsRequested(c)
  <2>1. PICK x \in RunReplies : x = [ok |-> TRUE]
    BY DEF RunReplies
  <2>2. Replies(c, x) /\ UNCHANGED <<book, chain, file>>
    BY <1>3, <2>1 DEF WriteBegins, WhileWriting
  <2>3. ASSUME NEW r \in ClientRecords, r.at = client[c].at, r.held = client[c].held PROVE ReplyOK(c, r)
    BY <1>2, <1>3, <2>3 DEF ReplyOK, StepAt, AsRequested
  <2> QED
    BY <2>2, <2>3, ApiTells
<1>4. CASE ~AsRequested(c)
  BY <1>4, ClientEnds DEF WriteBegins
<1> QED
  BY <1>3, <1>4

LEMMA WriteEndsStep ==
  ASSUME ClientsInv, NEW c \in Clients, WriteEnds(c)
  PROVE  ClientsInv'
<1>1. Engaged(c) /\ StepOf(c) = "write" /\ client[c].reply # None /\ client[c].reply.ok /\ UNCHANGED <<book, chain>>
  BY DEF WriteEnds, Heard
<1>2. /\ client[c] \in ClientRecords /\ client[c].at = 3 /\ KindOf[c] = "recorder" /\ c \notin Gates /\ c \notin Submitters
      /\ client[c].at > 0 /\ ReplyOK(c, client[c]) /\ StepAt(c, client[c]) = "write"
  BY <1>1, Place, Positions, KindsOfClients
<1>3. client[c].held = ContentOf[c]
  BY <1>1, <1>2 DEF ReplyOK
<1>4. CASE file' = [whole |-> TRUE, runs |-> client[c].held] /\ Proceeds(c, client[c])
  <2>1. RecordingIsWhole'
    BY <1>2, <1>3, <1>4 DEF RecordingIsWhole
  <2>2. PlanLength(KindOf[c]) = 3
    BY <1>2, PlanBounds
  <2>3. ASSUME NEW r \in ClientRecords, r.at = 0 PROVE PlanOK(c, r)
    <3>1. r.at \in 0 .. PlanLength(KindOf[c]) /\ ~(r.at > 0)
      BY <2>2, <2>3
    <3> QED
      BY <1>2, <3>1 DEF PlanOK
  <2> QED
    BY <1>1, <1>2, <1>4, <2>1, <2>2, <2>3, Proceeding
<1>5. CASE EndsAs(c, "failed") /\ UNCHANGED file
  BY <1>1, <1>5, ClientEnds
<1> QED
  BY <1>4, <1>5 DEF WriteEnds

---------------------------------------------------------------------------
(* The world, and the theorem.                                             *)

LEMMA BookAdvancesStep ==
  ASSUME ClientsInv, NEW i \in RunIds, BookAdvances(i)
  PROVE  ClientsInv'
<1>1. book[i] # None /\ book[i] \in RunRecords /\ UNCHANGED <<client, chain, file>>
  BY DEF BookAdvances, ClientsInv, ClientsTypes
<1>2. PICK n \in {"ready", "failed", "proved", "passed", "refused"}, again \in BOOLEAN :
        /\ book' = [book EXCEPT ![i].stage = n, ![i].again = @ \/ again]
        /\ ~Over(book[i])
  BY DEF BookAdvances, Over
<1>3. PICK d : d = [book[i] EXCEPT !.stage = n]
  OBVIOUS
<1>4. /\ d \in RunRecords /\ d.key = book[i].key /\ d.content = book[i].content /\ d.mode = book[i].mode
      /\ d.sub = book[i].sub /\ d.again \in BOOLEAN
  BY <1>1, <1>3 DEF RunRecords
<1>5. PICK e : e = [d EXCEPT !.again = d.again \/ again]
  OBVIOUS
<1>6. /\ e \in RunRecords /\ e.key = book[i].key /\ e.content = book[i].content /\ e.mode = book[i].mode
      /\ e.sub = book[i].sub
  BY <1>4, <1>5 DEF RunRecords
<1>7. book' = [book EXCEPT ![i] = e]
  BY <1>1, <1>2, <1>3, <1>5 DEF RunRecords, ClientsInv, ClientsTypes
<1>8. /\ book' \in [RunIds -> RunRecords \cup {None}] /\ KeysDiffer' /\ KeysAreOf'
      /\ \A j \in RunIds : RunMoves(j)
  BY <1>1, <1>2, <1>6, <1>7, RunChanges
<1>9. ASSUME NEW c \in Clients PROVE Knows(c)'
  <2>1. PICK r \in ClientRecords : r = client[c] /\ PlanOK(c, r) /\ ReplyOK(c, r)
    BY DEF ClientsInv, Knows
  <2>2. PlanOK(c, r)' /\ ReplyOK(c, r)'
    BY <1>8, <2>1, PlanStays, ReplyStays
  <2> QED
    BY <1>1, <2>1, <2>2 DEF Knows
<1>10. RecordingIsWhole'
  BY <1>1 DEF ClientsInv, RecordingIsWhole
<1> QED
  BY <1>1, <1>8, <1>9, <1>10, ChainStays DEF ClientsInv, ClientsTypes

LEMMA ClockTicksStep ==
  ASSUME ClientsInv, ClockTicks
  PROVE  ClientsInv'
<1>1. ASSUME NEW c \in Clients
      PROVE  client'[c] \in ClientRecords /\ Knows(c)'
  <2>1. PICK s \in ClientRecords : s = client[c] /\ PlanOK(c, s) /\ ReplyOK(c, s)
    BY DEF ClientsInv, Knows
  <2>2. CASE Engaged(c) /\ s.age < TimeLimit
    <3>1. PICK n \in 0 .. TimeLimit : n = s.age + 1
      <4>1. s.age \in 0 .. TimeLimit /\ TimeLimit \in Nat
        BY <2>1, ClientsAssumption DEF ClientRecords
      <4> QED
        BY <2>2, <4>1
    <3>2. PICK r : r = [s EXCEPT !.age = n]
      OBVIOUS
    <3>3. /\ r \in ClientRecords /\ r.at = s.at /\ r.starts = s.starts /\ r.run = s.run /\ r.reply = s.reply
          /\ r.proj = s.proj /\ r.held = s.held /\ r.end = s.end
      BY <2>1, <3>2 DEF ClientRecords
    <3>4. client'[c] = r
      BY <2>1, <2>2, <3>1, <3>2 DEF ClockTicks
    <3>5. s.at # 0
      BY <2>1, <2>2 DEF Engaged, ClientRecords
    <3>6. c \in Gates => r.end # "done"
      BY <2>1, <3>3, <3>5 DEF PlanOK
    <3>7. KeyAt(c, r) = KeyAt(c, s) /\ StepAt(c, r) = StepAt(c, s) /\ (\A j : Asked(c, s, j) => Asked(c, r, j))
      BY <3>3 DEF KeyAt, StepAt, Asked
    <3>8. PlanOK(c, r) /\ ReplyOK(c, r)
      <4>1. PlanOK(c, r)
        BY <2>1, <3>3, <3>6, <3>7 DEF PlanOK
      <4>2. ReplyOK(c, r)
        BY <2>1, <3>3, <3>7 DEF ReplyOK
      <4> QED
        BY <4>1, <4>2
    <3>9. PlanOK(c, r)' /\ ReplyOK(c, r)'
      BY <3>8 DEF ClockTicks, PlanOK, ReplyOK, StepAt, Asked, Seen, KeyAt, BundleAt, Over
    <3> QED
      BY <3>3, <3>4, <3>9 DEF Knows
  <2>3. CASE ~(Engaged(c) /\ s.age < TimeLimit)
    <3>1. client'[c] = s
      BY <2>1, <2>3 DEF ClockTicks
    <3>2. PlanOK(c, s)' /\ ReplyOK(c, s)'
      BY <2>1 DEF ClockTicks, PlanOK, ReplyOK, StepAt, Asked, Seen, KeyAt, BundleAt, Over
    <3> QED
      BY <2>1, <3>1, <3>2 DEF Knows
  <2> QED
    BY <2>2, <2>3
<1>2. client' \in [Clients -> ClientRecords]
  BY <1>1 DEF ClockTicks
<1>3. UNCHANGED <<book, chain, file>>
  BY DEF ClockTicks
<1> QED
  BY <1>1, <1>2, <1>3, QuietRuns DEF ClientsInv, ClientsTypes

LEMMA ClientsNextInv == ClientsInv /\ [ClientsNext]_clientsVars => ClientsInv'
<1> SUFFICES ASSUME ClientsInv, [ClientsNext]_clientsVars PROVE ClientsInv'
  OBVIOUS
<1>1. ASSUME NEW c \in Clients, ClientStep(c) PROVE ClientsInv'
  BY <1>1, ClientStartsStep, RunMadeStep, SubmittedStep, WaitsStep, StepGoesOnStep, InspectsStep, HoldsBundleStep,
     ReplayedStep, ClientFailsStep, WriteBeginsStep, WriteEndsStep, BroadcastStep DEF ClientStep
<1>2. ASSUME NEW c \in Clients, ApiHandles(c) PROVE ClientsInv'
  BY <1>2, HandleCreateStep, HandleSubmitStep, HandleAttachStep, HandleVerifyStep, HandleLookStep, HandleBundleStep,
     HandleReplayStep DEF ApiHandles
<1>3. CASE UNCHANGED clientsVars
  <2>1. UNCHANGED <<book, client, chain, file>>
    BY <1>3 DEF clientsVars
  <2>2. ASSUME NEW c \in Clients PROVE Knows(c)'
    <3>1. PICK r \in ClientRecords : r = client[c] /\ PlanOK(c, r) /\ ReplyOK(c, r)
      BY DEF ClientsInv, Knows
    <3>2. PlanOK(c, r)' /\ ReplyOK(c, r)'
      BY <2>1, <3>1, QuietRuns, PlanStays, ReplyStays
    <3> QED
      BY <2>1, <3>1, <3>2 DEF Knows
  <2> QED
    BY <2>1, <2>2, QuietRuns DEF ClientsInv, ClientsTypes
<1> QED
  BY <1>1, <1>2, <1>3, BookAdvancesStep, ClockTicksStep, ClientFailsStep DEF ClientsNext

LEMMA ClientsInvImplies == ClientsInv => ClientsPromise
<1> SUFFICES ASSUME ClientsInv PROVE ClientsPromise
  OBVIOUS
<1>1. PassedIsProved
  <2> SUFFICES ASSUME NEW c \in Gates, client[c].end = "done"
               PROVE  LET i == client[c].run IN
                        /\ book[i].content = ContentOf[c] /\ book[i].mode = ModeOf(c)
                        /\ book[i].key = KeyFor(c) /\ book[i].sub = KeyFor(c) /\ book[i].stage = "passed"
                        /\ KindOf[c] = "liveGate" => ~book[i].again
                        /\ client[c].held = <<i>> /\ client[c].age < TimeLimit
    BY DEF PassedIsProved
  <2>1. c \in Clients
    BY DEF Gates
  <2>2. client[c] \in ClientRecords /\ PlanOK(c, client[c])
    BY <2>1 DEF ClientsInv, Knows
  <2>3. KeyFor(c) = KeyAt(c, client[c])
    BY <2>1, <2>2, KeysTyped
  <2> QED
    BY <2>2, <2>3 DEF PlanOK, Asked
<1>2. OneRunPerIdentity
  <2> SUFFICES ASSUME NEW c \in Clients, KindOf[c] \in {"gate", "liveGate", "connector"}
               PROVE  Cardinality({i \in RunIds : book[i] # None /\ book[i].key[1] \in {IdentityOf[c], c}}) <= 1
    BY DEF OneRunPerIdentity
  <2> DEFINE R == {i \in RunIds : book[i] # None /\ book[i].key[1] \in {IdentityOf[c], c}}
  <2>1. ASSUME NEW i \in R PROVE book[i].key = <<IdentityOf[c], 0>>
    <3>1. i \in RunIds /\ book[i] # None /\ book[i].key[1] \in {IdentityOf[c], c}
      OBVIOUS
    <3>2. CASE book[i].key = <<None, 0>>
      BY <3>1, <3>2, ClientsAssumption
    <3>3. ASSUME NEW d \in Clients, book[i].key = <<IdentityOf[d], 0>> PROVE book[i].key = <<IdentityOf[c], 0>>
      <4>1. book[i].key[1] = IdentityOf[d]
        BY <3>3
      <4> QED
        BY <3>1, <3>3, <4>1, ClientsAssumption
    <3>4. ASSUME NEW d \in Clients, d \notin Gates, KindOf[d] # "connector", NEW n \in Nat, book[i].key = <<d, n>>
          PROVE  FALSE
      <4>1. book[i].key[1] = d
        BY <3>4
      <4>2. d = c
        BY <3>1, <4>1, ClientsAssumption
      <4> QED
        BY <3>4, <4>2 DEF Gates
    <3> QED
      BY <3>1, <3>2, <3>3, <3>4 DEF ClientsInv, KeysAreOf
  <2>2. <<IdentityOf[c], 0>> # <<None, 0>>
    BY ClientsAssumption
  <2>3. \A i, j \in R : i = j
    BY <2>1, <2>2 DEF ClientsInv, KeysDiffer
  <2> HIDE DEF R
  <2>4. ASSUME R = {} PROVE Cardinality(R) <= 1
    BY <2>4, FS_EmptySet
  <2>5. ASSUME R # {} PROVE Cardinality(R) <= 1
    <3>1. PICK i \in R : TRUE
      BY <2>5
    <3>2. R = {i}
      BY <2>3, <3>1
    <3>3. Cardinality(R) = 1
      BY <3>2, FS_Singleton
    <3> QED
      BY <3>3
  <2>6. Cardinality(R) <= 1
    BY <2>4, <2>5
  <2> QED
    BY <2>6 DEF R
<1>3. WalletSpendsOnce
  <2> SUFFICES ASSUME NEW t \in chain
               PROVE  /\ book[t.run].key = <<t.by, t.start>> /\ book[t.run].sub = book[t.run].key
                      /\ \A u \in chain : u.run = t.run => u = t
    BY DEF WalletSpendsOnce
  <2>1. book[t.run].key = <<t.by, t.start>> /\ book[t.run].sub = book[t.run].key /\ t \in TransactionRecords
    BY DEF ClientsInv, ClientsTypes, ChainOK
  <2>2. ASSUME NEW u \in chain, u.run = t.run PROVE u = t
    <3>1. book[u.run].key = <<u.by, u.start>> /\ u \in TransactionRecords
      BY DEF ClientsInv, ClientsTypes, ChainOK
    <3>2. u.by = t.by /\ u.start = t.start
      BY <2>1, <2>2, <3>1
    <3> QED
      BY <2>1, <2>2, <3>1, <3>2 DEF TransactionRecords
  <2> QED
    BY <2>1, <2>2
<1> QED
  BY <1>1, <1>2, <1>3 DEF ClientsInv, ClientsPromise

\* However requests of the clients, answers, timers and restarts are mixed, for any
\* number of clients, runs and starts: a gate passes on evidence of its own run, an
\* identity has one run, the local wallet spends once for a run, and a recording's path
\* holds a whole recording (packages/action, packages/cli, packages/mcp).
THEOREM ClientsKeepTheirPromise == ClientsSpec => []ClientsPromise
  BY ClientsInitInv, ClientsNextInv, ClientsInvImplies, PTL DEF ClientsSpec

---------------------------------------------------------------------------
(***************************************************************************)
(* The manifest composer.  The properties of steps are not read off an     *)
(* invariant alone: the lemma of an action says both that the invariant is *)
(* kept and what the action did to an intent, a draft and the saved draft  *)
(* (ComposerAllows).                                                       *)
(*   Offers      an offered template is one, and a dialog is for something *)
(*   LeftEmpty   a page that is not shown has no draft and no intent       *)
(*   IntentKept  while its request is under way the intent is there, and   *)
(*               it has a run once the answer says so                      *)
(***************************************************************************)

VisitTypes ==
  /\ visit \in 0 .. MaxVisits /\ place \in {"away", "open", "run"}
  /\ keys \in 0 .. MaxKeys /\ edits \in 0 .. MaxEdits
  /\ importing \in 0 .. MaxKeys /\ signed \in BOOLEAN
  /\ place = "open" => visit \in 1 .. MaxVisits

DraftTypes == saved \in Drafts \cup {None, Corrupt} /\ draft \in Drafts \cup {None} /\ noted \in BOOLEAN

TemplateTypes ==
  /\ template \in [state : TemplateStates, of : Templates \cup {None}]
  /\ requested \in Templates \cup {None} /\ applied \in Templates \cup {None}
  /\ inquiries \in [1 .. MaxAsked -> Templates \cup {None}]

LandingTypes == handoff \in BOOLEAN /\ landing \in BOOLEAN /\ reviewing \in BOOLEAN /\ confirming \in BOOLEAN

PostedTypes ==
  /\ intent \in Drafts \cup {None} /\ creating \in {"none", "asked", "made", "refused"}
  /\ posted \subseteq [what : Drafts, visit : 1 .. MaxVisits]

ComposerTypes == VisitTypes /\ DraftTypes /\ TemplateTypes /\ LandingTypes /\ PostedTypes

\* What is offered is a template, and the dialog is open for something.
Offers ==
  /\ template.state = "offered" => template.of \in Templates
  /\ confirming => reviewing \/ template.state = "offered"

\* A page that is not shown has no draft and no intent.
LeftEmpty == place # "open" => draft = None /\ intent = None

\* The intent of a request is kept until it is answered, and has a run if it says so.
IntentKept ==
  /\ creating # "none" /\ place = "open" => intent # None
  /\ creating = "made" /\ place = "open" => intent \in made

ComposerInv ==
  ComposerTypes /\ Offers /\ LeftEmpty /\ IntentKept /\ OfferedAsRequested /\ SavedUnlessNoted

\* What a step may do to an intent, a draft and the saved draft.
RetriesStep ==
  intent # None =>
    /\ intent' \in {intent, None} /\ submitted' \subseteq submitted \cup {intent}
    /\ intent' = None => place' # "open" \/ confirming

DraftStep ==
  draft # None /\ draft' # None /\ draft' # draft /\ draft'.content \notin 0 .. MaxEdits =>
    confirming \/ draft'.content = draft.content

SavedStep == saved \notin {None, Corrupt} /\ saved' = None => intent \in made

ComposerAllows == ComposerInv' /\ RetriesStep /\ DraftStep /\ SavedStep

LEMMA ComposerNumbers ==
  /\ MaxEdits \in Nat /\ MaxKeys \in Nat /\ MaxVisits \in Nat /\ MaxAsked \in Nat /\ 1 \in 1 .. MaxAsked /\ 0 \in 0 .. MaxKeys
  /\ None # Corrupt /\ None # Landed /\ None \notin Templates /\ None \notin Drafts /\ Corrupt \notin Drafts
  /\ Landed \notin 0 .. MaxEdits /\ \A t \in Templates : t \notin 0 .. MaxEdits
  /\ \A k \in 0 .. MaxKeys : k < MaxKeys => k + 1 \in 1 .. MaxKeys /\ k + 1 \in 0 .. MaxKeys
  /\ \A e \in 0 .. MaxEdits : e < MaxEdits => e + 1 \in 0 .. MaxEdits
  /\ \A v \in 0 .. MaxVisits : v < MaxVisits => v + 1 \in 1 .. MaxVisits /\ v + 1 \in 0 .. MaxVisits
  BY ComposerAssumption

LEMMA ComposerInitInv == ComposerInit => ComposerInv
<1> SUFFICES ASSUME ComposerInit PROVE ComposerInv
  OBVIOUS
<1> USE ComposerNumbers
<1>1. VisitTypes
  BY DEF ComposerInit, VisitTypes
<1>2. DraftTypes /\ LandingTypes /\ PostedTypes
  BY DEF ComposerInit, DraftTypes, LandingTypes, PostedTypes
<1>3. TemplateTypes
  BY DEF ComposerInit, TemplateTypes, TemplateStates
<1>4. Offers /\ LeftEmpty /\ IntentKept
  BY DEF ComposerInit, Offers, LeftEmpty, IntentKept
<1>5. OfferedAsRequested /\ SavedUnlessNoted
  BY DEF ComposerInit, OfferedAsRequested, SavedUnlessNoted, IsOpen
<1> QED
  BY <1>1, <1>2, <1>3, <1>4, <1>5 DEF ComposerInv, ComposerTypes

\* A new draft, saved or not.
LEMMA NewDraftTyped ==
  ASSUME ComposerInv, keys < MaxKeys, NEW content \in Contents
  PROVE  New(content) \in Drafts /\ New(content).content = content /\ New(content) # None
  BY ComposerNumbers DEF New, Drafts, ComposerInv, ComposerTypes, VisitTypes

LEMMA TemplateIs ==
  \A s \in TemplateStates, t \in Templates \cup {None} :
    /\ [state |-> s, of |-> t] \in [state : TemplateStates, of : Templates \cup {None}]
    /\ [state |-> s, of |-> t].state = s /\ [state |-> s, of |-> t].of = t
  OBVIOUS

LEMMA ContentsTyped ==
  /\ 0 \in Contents /\ Landed \in Contents /\ Templates \subseteq Contents
  /\ \A e \in 0 .. MaxEdits : e \in Contents
  BY ComposerNumbers DEF Contents

LEMMA ContinueFromLandingStep ==
  ASSUME ComposerInv, ContinueFromLanding
  PROVE  ComposerAllows
<1>1. ComposerTypes'
BY ComposerNumbers DEF ComposerInv, ComposerTypes, VisitTypes, DraftTypes, TemplateTypes, LandingTypes,
     PostedTypes, ContinueFromLanding, composerTemplate, composerRequest, composerBounds, IsOpen
<1>2. Offers' /\ LeftEmpty' /\ IntentKept' /\ OfferedAsRequested' /\ SavedUnlessNoted'
BY ComposerNumbers DEF ComposerInv, ComposerTypes, DraftTypes, Offers, LeftEmpty, IntentKept, OfferedAsRequested,
     SavedUnlessNoted, ContinueFromLanding, composerTemplate, composerRequest, composerBounds, IsOpen
<1>3. RetriesStep /\ DraftStep /\ SavedStep
BY ComposerNumbers DEF ComposerInv, ComposerTypes, DraftTypes, LeftEmpty, IntentKept, RetriesStep, DraftStep,
     SavedStep, ContinueFromLanding, composerTemplate, composerRequest, composerBounds, IsOpen
<1> QED
  BY <1>1, <1>2, <1>3 DEF ComposerAllows, ComposerInv

LEMMA CloseComposerStep ==
  ASSUME ComposerInv, CloseComposer
  PROVE  ComposerAllows
<1>1. ComposerTypes'
BY ComposerNumbers DEF ComposerInv, ComposerTypes, VisitTypes, DraftTypes, TemplateTypes, LandingTypes,
     PostedTypes, CloseComposer, composerTemplate, composerBounds, IsOpen
<1>2. Offers' /\ LeftEmpty' /\ IntentKept' /\ OfferedAsRequested' /\ SavedUnlessNoted'
BY ComposerNumbers DEF ComposerInv, ComposerTypes, DraftTypes, Offers, LeftEmpty, IntentKept, OfferedAsRequested,
     SavedUnlessNoted, CloseComposer, composerTemplate, composerBounds, IsOpen
<1>3. RetriesStep /\ DraftStep /\ SavedStep
BY ComposerNumbers DEF ComposerInv, ComposerTypes, DraftTypes, LeftEmpty, IntentKept, RetriesStep, DraftStep,
     SavedStep, CloseComposer, composerTemplate, composerBounds, IsOpen
<1> QED
  BY <1>1, <1>2, <1>3 DEF ComposerAllows, ComposerInv

LEMMA ImportManifestStep ==
  ASSUME ComposerInv, ImportManifest
  PROVE  ComposerAllows
<1> USE ComposerNumbers
<1>1. VisitTypes'
  <2>1. draft \in Drafts
    BY DEF ImportManifest, ComposerInv, ComposerTypes, DraftTypes
  <2>2. draft.key \in 0 .. MaxKeys
    BY <2>1 DEF Drafts
  <2> QED
    BY <2>2 DEF ImportManifest, ComposerInv, ComposerTypes, VisitTypes, composerBounds
<1>2. DraftTypes'
  BY DEF ComposerInv, ComposerTypes, DraftTypes, ImportManifest, composerTemplate, composerLanding,
     composerRequest, composerBounds
<1>3. TemplateTypes'
  BY DEF ComposerInv, ComposerTypes, TemplateTypes, ImportManifest, composerTemplate, composerLanding,
     composerRequest, composerBounds
<1>4. LandingTypes'
  BY DEF ComposerInv, ComposerTypes, LandingTypes, ImportManifest, composerTemplate, composerLanding,
     composerRequest, composerBounds
<1>5. PostedTypes'
  BY DEF ComposerInv, ComposerTypes, VisitTypes, IsOpen, PostedTypes, ImportManifest, composerTemplate,
     composerLanding, composerRequest, composerBounds
<1>6. Offers'
  BY DEF ComposerInv, ComposerTypes, DraftTypes, Offers, ImportManifest, composerTemplate,
     composerLanding, composerRequest, composerBounds
<1>7. LeftEmpty' /\ IntentKept'
  BY DEF ComposerInv, ComposerTypes, DraftTypes, LeftEmpty, IntentKept, IsOpen, ImportManifest,
     composerTemplate, composerLanding, composerRequest, composerBounds
<1>8. OfferedAsRequested'
  BY DEF ComposerInv, ComposerTypes, DraftTypes, OfferedAsRequested, IsOpen, ImportManifest,
     composerTemplate, composerLanding, composerRequest, composerBounds
<1>9. SavedUnlessNoted'
  BY DEF ComposerInv, ComposerTypes, DraftTypes, SavedUnlessNoted, IsOpen, ImportManifest,
     composerTemplate, composerLanding, composerRequest, composerBounds
<1>10. RetriesStep
  BY DEF ComposerInv, ComposerTypes, DraftTypes, RetriesStep, LeftEmpty, IsOpen, ImportManifest,
     composerTemplate, composerLanding, composerRequest, composerBounds
<1>11. DraftStep
  BY DEF ComposerInv, ComposerTypes, DraftTypes, DraftStep, LeftEmpty, ImportManifest, composerTemplate,
     composerLanding, composerRequest, composerBounds
<1>12. SavedStep
  BY DEF ComposerInv, ComposerTypes, DraftTypes, SavedStep, IntentKept, IsOpen, ImportManifest,
     composerTemplate, composerLanding, composerRequest, composerBounds
<1> QED
  BY <1>1, <1>2, <1>3, <1>4, <1>5, <1>6, <1>7, <1>8, <1>9, <1>10, <1>11, <1>12 DEF ComposerAllows, ComposerInv,
     ComposerTypes

LEMMA NavigateTemplateStep ==
  ASSUME ComposerInv, NavigateTemplate
  PROVE  ComposerAllows
<1>1. VisitTypes' /\ DraftTypes' /\ TemplateTypes'
BY ComposerNumbers, TemplateIs DEF ComposerInv, ComposerTypes, VisitTypes, DraftTypes,
     TemplateTypes, NavigateTemplate, composerLanding, composerRequest, composerBounds, IsOpen,
     TemplateStates
<1>2. LandingTypes' /\ PostedTypes'
BY ComposerNumbers, TemplateIs DEF ComposerInv, ComposerTypes, VisitTypes, LandingTypes,
     PostedTypes, NavigateTemplate, composerLanding, composerRequest, composerBounds, IsOpen,
     TemplateStates
<1>3. Offers' /\ LeftEmpty' /\ IntentKept'
BY ComposerNumbers, TemplateIs DEF ComposerInv, ComposerTypes, DraftTypes, Offers, LeftEmpty, IntentKept,
     NavigateTemplate, composerLanding, composerRequest, composerBounds, IsOpen, TemplateStates
<1>4. OfferedAsRequested' /\ SavedUnlessNoted'
BY ComposerNumbers, TemplateIs DEF ComposerInv, ComposerTypes, DraftTypes, OfferedAsRequested,
     SavedUnlessNoted, NavigateTemplate, composerLanding, composerRequest, composerBounds, IsOpen,
     TemplateStates
<1>5. RetriesStep /\ DraftStep /\ SavedStep
BY ComposerNumbers, TemplateIs DEF ComposerInv, ComposerTypes, DraftTypes, LeftEmpty, IntentKept,
     RetriesStep, DraftStep, SavedStep, NavigateTemplate, composerLanding, composerRequest,
     composerBounds, IsOpen, TemplateStates
<1> QED
  BY <1>1, <1>2, <1>3, <1>4, <1>5 DEF ComposerAllows, ComposerInv, ComposerTypes

LEMMA OpenReviewStep ==
  ASSUME ComposerInv, OpenReview
  PROVE  ComposerAllows
<1>1. ComposerTypes'
BY ComposerNumbers DEF ComposerInv, ComposerTypes, VisitTypes, DraftTypes, TemplateTypes, LandingTypes,
     PostedTypes, OpenReview, composerTemplate, composerLanding, composerRequest, composerBounds, IsOpen
<1>2. Offers' /\ LeftEmpty' /\ IntentKept' /\ OfferedAsRequested' /\ SavedUnlessNoted'
BY ComposerNumbers DEF ComposerInv, ComposerTypes, DraftTypes, Offers, LeftEmpty, IntentKept, OfferedAsRequested,
     SavedUnlessNoted, OpenReview, composerTemplate, composerLanding, composerRequest, composerBounds,
     IsOpen
<1>3. RetriesStep /\ DraftStep /\ SavedStep
BY ComposerNumbers DEF ComposerInv, ComposerTypes, DraftTypes, LeftEmpty, IntentKept, RetriesStep, DraftStep,
     SavedStep, OpenReview, composerTemplate, composerLanding, composerRequest, composerBounds, IsOpen
<1> QED
  BY <1>1, <1>2, <1>3 DEF ComposerAllows, ComposerInv

LEMMA KeepSavedDraftStep ==
  ASSUME ComposerInv, KeepSavedDraft
  PROVE  ComposerAllows
<1>1. VisitTypes' /\ DraftTypes' /\ TemplateTypes'
BY ComposerNumbers, TemplateIs DEF ComposerInv, ComposerTypes, VisitTypes, DraftTypes,
     TemplateTypes, KeepSavedDraft, composerTemplate, composerLanding, composerRequest, composerBounds,
     IsOpen, TemplateStates
<1>2. LandingTypes' /\ PostedTypes'
BY ComposerNumbers, TemplateIs DEF ComposerInv, ComposerTypes, VisitTypes, LandingTypes,
     PostedTypes, KeepSavedDraft, composerTemplate, composerLanding, composerRequest, composerBounds,
     IsOpen, TemplateStates
<1>3. Offers' /\ LeftEmpty' /\ IntentKept'
BY ComposerNumbers, TemplateIs DEF ComposerInv, ComposerTypes, DraftTypes, Offers, LeftEmpty, IntentKept,
     KeepSavedDraft, composerTemplate, composerLanding, composerRequest, composerBounds, IsOpen,
     TemplateStates
<1>4. OfferedAsRequested' /\ SavedUnlessNoted'
BY ComposerNumbers, TemplateIs DEF ComposerInv, ComposerTypes, DraftTypes, OfferedAsRequested,
     SavedUnlessNoted, KeepSavedDraft, composerTemplate, composerLanding, composerRequest,
     composerBounds, IsOpen, TemplateStates
<1>5. RetriesStep /\ DraftStep /\ SavedStep
BY ComposerNumbers, TemplateIs DEF ComposerInv, ComposerTypes, DraftTypes, LeftEmpty, IntentKept,
     RetriesStep, DraftStep, SavedStep, KeepSavedDraft, composerTemplate, composerLanding,
     composerRequest, composerBounds, IsOpen, TemplateStates
<1> QED
  BY <1>1, <1>2, <1>3, <1>4, <1>5 DEF ComposerAllows, ComposerInv, ComposerTypes

LEMMA SessionEndsStep ==
  ASSUME ComposerInv, SessionEnds
  PROVE  ComposerAllows
<1>1. VisitTypes' /\ DraftTypes' /\ TemplateTypes'
BY ComposerNumbers DEF ComposerInv, ComposerTypes, VisitTypes, DraftTypes, TemplateTypes, SessionEnds,
     composerTemplate, composerLanding, composerRequest, composerBounds, IsOpen
<1>2. LandingTypes' /\ PostedTypes'
BY ComposerNumbers DEF ComposerInv, ComposerTypes, VisitTypes, LandingTypes, PostedTypes, SessionEnds,
     composerTemplate, composerLanding, composerRequest, composerBounds, IsOpen
<1>3. Offers' /\ LeftEmpty' /\ IntentKept'
BY ComposerNumbers DEF ComposerInv, ComposerTypes, DraftTypes, Offers, LeftEmpty, IntentKept, SessionEnds,
     composerTemplate, composerLanding, composerRequest, composerBounds, IsOpen
<1>4. OfferedAsRequested' /\ SavedUnlessNoted'
BY ComposerNumbers DEF ComposerInv, ComposerTypes, DraftTypes, OfferedAsRequested, SavedUnlessNoted,
     SessionEnds, composerTemplate, composerLanding, composerRequest, composerBounds, IsOpen
<1>5. RetriesStep /\ DraftStep /\ SavedStep
BY ComposerNumbers DEF ComposerInv, ComposerTypes, DraftTypes, LeftEmpty, IntentKept, RetriesStep, DraftStep,
     SavedStep, SessionEnds, composerTemplate, composerLanding, composerRequest, composerBounds, IsOpen
<1> QED
  BY <1>1, <1>2, <1>3, <1>4, <1>5 DEF ComposerAllows, ComposerInv, ComposerTypes

LEMMA RunCreatedStep ==
  ASSUME ComposerInv, RunCreated
  PROVE  ComposerAllows
<1>1. ComposerTypes'
BY ComposerNumbers DEF ComposerInv, ComposerTypes, VisitTypes, DraftTypes, TemplateTypes, LandingTypes,
     PostedTypes, RunCreated, composerTemplate, composerLanding, composerBounds, IsOpen
<1>2. Offers' /\ LeftEmpty' /\ IntentKept' /\ OfferedAsRequested' /\ SavedUnlessNoted'
BY ComposerNumbers DEF ComposerInv, ComposerTypes, DraftTypes, Offers, LeftEmpty, IntentKept, OfferedAsRequested,
     SavedUnlessNoted, RunCreated, composerTemplate, composerLanding, composerBounds, IsOpen
<1>3. RetriesStep /\ DraftStep /\ SavedStep
BY ComposerNumbers DEF ComposerInv, ComposerTypes, DraftTypes, LeftEmpty, IntentKept, RetriesStep, DraftStep,
     SavedStep, RunCreated, composerTemplate, composerLanding, composerBounds, IsOpen
<1> QED
  BY <1>1, <1>2, <1>3 DEF ComposerAllows, ComposerInv

LEMMA TemplateFailsStep ==
  ASSUME ComposerInv, NEW n \in 1 .. MaxAsked, TemplateFails(n)
  PROVE  ComposerAllows
<1>1. ComposerTypes'
BY ComposerNumbers, TemplateIs DEF ComposerInv, ComposerTypes, VisitTypes, DraftTypes,
     TemplateTypes, LandingTypes, PostedTypes, TemplateFails, LatestRequest, composerLanding,
     composerRequest, composerBounds, IsOpen, TemplateStates
<1>2. Offers' /\ LeftEmpty' /\ IntentKept' /\ OfferedAsRequested' /\ SavedUnlessNoted'
BY ComposerNumbers, TemplateIs DEF ComposerInv, ComposerTypes, DraftTypes, Offers, LeftEmpty, IntentKept,
     OfferedAsRequested, SavedUnlessNoted, TemplateFails, LatestRequest, composerLanding,
     composerRequest, composerBounds, IsOpen, TemplateStates
<1>3. RetriesStep /\ DraftStep /\ SavedStep
BY ComposerNumbers, TemplateIs DEF ComposerInv, ComposerTypes, DraftTypes, LeftEmpty, IntentKept,
     RetriesStep, DraftStep, SavedStep, TemplateFails, LatestRequest, composerLanding, composerRequest,
     composerBounds, IsOpen, TemplateStates
<1> QED
  BY <1>1, <1>2, <1>3 DEF ComposerAllows, ComposerInv

LEMMA CreateFailsStep ==
  ASSUME ComposerInv, CreateFails
  PROVE  ComposerAllows
<1>1. ComposerTypes'
BY ComposerNumbers DEF ComposerInv, ComposerTypes, VisitTypes, DraftTypes, TemplateTypes, LandingTypes,
     PostedTypes, CreateFails, AfterFailure, composerTemplate, composerLanding, composerBounds, IsOpen
<1>2. Offers' /\ LeftEmpty' /\ IntentKept' /\ OfferedAsRequested' /\ SavedUnlessNoted'
BY ComposerNumbers DEF ComposerInv, ComposerTypes, DraftTypes, Offers, LeftEmpty, IntentKept, OfferedAsRequested,
     SavedUnlessNoted, CreateFails, AfterFailure, composerTemplate, composerLanding, composerBounds,
     IsOpen
<1>3. RetriesStep /\ DraftStep /\ SavedStep
BY ComposerNumbers DEF ComposerInv, ComposerTypes, DraftTypes, LeftEmpty, IntentKept, RetriesStep, DraftStep,
     SavedStep, CreateFails, AfterFailure, composerTemplate, composerLanding, composerBounds, IsOpen
<1> QED
  BY <1>1, <1>2, <1>3 DEF ComposerAllows, ComposerInv

LEMMA RequestLostStep ==
  ASSUME ComposerInv, NEW p \in posted, RequestLost(p)
  PROVE  ComposerAllows
<1>1. ComposerTypes'
BY ComposerNumbers DEF ComposerInv, ComposerTypes, VisitTypes, DraftTypes, TemplateTypes, LandingTypes,
     PostedTypes, RequestLost, MineIs, composerTemplate, composerLanding, composerBounds, IsOpen
<1>2. Offers' /\ LeftEmpty' /\ IntentKept' /\ OfferedAsRequested' /\ SavedUnlessNoted'
BY ComposerNumbers DEF ComposerInv, ComposerTypes, DraftTypes, Offers, LeftEmpty, IntentKept, OfferedAsRequested,
     SavedUnlessNoted, RequestLost, MineIs, composerTemplate, composerLanding, composerBounds, IsOpen
<1>3. RetriesStep /\ DraftStep /\ SavedStep
BY ComposerNumbers DEF ComposerInv, ComposerTypes, DraftTypes, LeftEmpty, IntentKept, RetriesStep, DraftStep,
     SavedStep, RequestLost, MineIs, composerTemplate, composerLanding, composerBounds, IsOpen
<1> QED
  BY <1>1, <1>2, <1>3 DEF ComposerAllows, ComposerInv

LEMMA CreateRunStep ==
  ASSUME ComposerInv, NEW p \in posted, CreateRun(p)
  PROVE  ComposerAllows
<1>1. ComposerTypes'
BY ComposerNumbers DEF ComposerInv, ComposerTypes, VisitTypes, DraftTypes, TemplateTypes, LandingTypes,
     PostedTypes, CreateRun, MineIs, composerTemplate, composerLanding, composerBounds, IsOpen
<1>2. Offers' /\ LeftEmpty' /\ IntentKept' /\ OfferedAsRequested' /\ SavedUnlessNoted'
BY ComposerNumbers DEF ComposerInv, ComposerTypes, DraftTypes, Offers, LeftEmpty, IntentKept, OfferedAsRequested,
     SavedUnlessNoted, CreateRun, MineIs, composerTemplate, composerLanding, composerBounds, IsOpen
<1>3. RetriesStep /\ DraftStep /\ SavedStep
BY ComposerNumbers DEF ComposerInv, ComposerTypes, DraftTypes, LeftEmpty, IntentKept, RetriesStep, DraftStep,
     SavedStep, CreateRun, MineIs, composerTemplate, composerLanding, composerBounds, IsOpen
<1> QED
  BY <1>1, <1>2, <1>3 DEF ComposerAllows, ComposerInv

LEMMA SubmitManifestStep ==
  ASSUME ComposerInv, SubmitManifest
  PROVE  ComposerAllows
<1> USE ComposerNumbers
<1>1. IntentToSend \in Drafts /\ (intent # None => IntentToSend = intent)
  BY DEF SubmitManifest, IntentToSend, ComposerInv, ComposerTypes, DraftTypes, PostedTypes
<1>2. VisitTypes'
  BY <1>1 DEF ComposerInv, ComposerTypes, VisitTypes, SubmitManifest, composerTemplate, composerLanding,
     composerRequest, composerBounds, IntentToSend, Posts
<1>3. DraftTypes'
  BY <1>1 DEF ComposerInv, ComposerTypes, DraftTypes, SubmitManifest, composerTemplate, composerLanding,
     composerRequest, composerBounds, IntentToSend, Posts
<1>4. TemplateTypes'
  BY <1>1 DEF ComposerInv, ComposerTypes, TemplateTypes, SubmitManifest, composerTemplate,
     composerLanding, composerRequest, composerBounds, IntentToSend, Posts
<1>5. LandingTypes'
  BY <1>1 DEF ComposerInv, ComposerTypes, LandingTypes, SubmitManifest, composerTemplate,
     composerLanding, composerRequest, composerBounds, IntentToSend, Posts
<1>6. PostedTypes'
  BY <1>1 DEF ComposerInv, ComposerTypes, VisitTypes, IsOpen, PostedTypes, SubmitManifest,
     composerTemplate, composerLanding, composerRequest, composerBounds, IntentToSend, Posts
<1>7. Offers'
  BY <1>1 DEF ComposerInv, ComposerTypes, DraftTypes, Offers, SubmitManifest, composerTemplate,
     composerLanding, composerRequest, composerBounds, IntentToSend, Posts
<1>8. LeftEmpty' /\ IntentKept'
  BY <1>1 DEF ComposerInv, ComposerTypes, DraftTypes, LeftEmpty, IntentKept, IsOpen, SubmitManifest,
     composerTemplate, composerLanding, composerRequest, composerBounds, IntentToSend, Posts
<1>9. OfferedAsRequested'
  BY <1>1 DEF ComposerInv, ComposerTypes, DraftTypes, OfferedAsRequested, IsOpen, SubmitManifest,
     composerTemplate, composerLanding, composerRequest, composerBounds, IntentToSend, Posts
<1>10. SavedUnlessNoted'
  BY <1>1 DEF ComposerInv, ComposerTypes, DraftTypes, SavedUnlessNoted, IsOpen, SubmitManifest,
     composerTemplate, composerLanding, composerRequest, composerBounds, IntentToSend, Posts
<1>11. RetriesStep
  BY <1>1 DEF ComposerInv, ComposerTypes, DraftTypes, RetriesStep, LeftEmpty, IsOpen, SubmitManifest,
     composerTemplate, composerLanding, composerRequest, composerBounds, IntentToSend, Posts
<1>12. DraftStep
  BY <1>1 DEF ComposerInv, ComposerTypes, DraftTypes, DraftStep, LeftEmpty, SubmitManifest, composerTemplate,
     composerLanding, composerRequest, composerBounds, IntentToSend, Posts
<1>13. SavedStep
  BY <1>1 DEF ComposerInv, ComposerTypes, DraftTypes, SavedStep, IntentKept, IsOpen, SubmitManifest,
     composerTemplate, composerLanding, composerRequest, composerBounds, IntentToSend, Posts
<1> QED
  BY <1>2, <1>3, <1>4, <1>5, <1>6, <1>7, <1>8, <1>9, <1>10, <1>11, <1>12, <1>13 DEF ComposerAllows,
     ComposerInv, ComposerTypes

LEMMA SessionBeginsStep ==
  ASSUME ComposerInv, SessionBegins
  PROVE  ComposerAllows
<1> USE ComposerNumbers
<1>1. VisitTypes'
  BY DEF ComposerInv, ComposerTypes, VisitTypes, SessionBegins, composerTemplate, composerLanding,
     composerRequest, composerBounds, Posts
<1>2. DraftTypes'
  BY DEF ComposerInv, ComposerTypes, DraftTypes, SessionBegins, composerTemplate, composerLanding,
     composerRequest, composerBounds, Posts
<1>3. TemplateTypes'
  BY DEF ComposerInv, ComposerTypes, TemplateTypes, SessionBegins, composerTemplate, composerLanding,
     composerRequest, composerBounds, Posts
<1>4. LandingTypes'
  BY DEF ComposerInv, ComposerTypes, LandingTypes, SessionBegins, composerTemplate, composerLanding,
     composerRequest, composerBounds, Posts
<1>5. PostedTypes'
  BY DEF ComposerInv, ComposerTypes, VisitTypes, IsOpen, PostedTypes, SessionBegins, composerTemplate,
     composerLanding, composerRequest, composerBounds, Posts
<1>6. Offers'
  BY DEF ComposerInv, ComposerTypes, DraftTypes, Offers, SessionBegins, composerTemplate,
     composerLanding, composerRequest, composerBounds, Posts
<1>7. LeftEmpty' /\ IntentKept'
  BY DEF ComposerInv, ComposerTypes, DraftTypes, LeftEmpty, IntentKept, IsOpen, SessionBegins, composerTemplate,
     composerLanding, composerRequest, composerBounds, Posts
<1>8. OfferedAsRequested'
  BY DEF ComposerInv, ComposerTypes, DraftTypes, OfferedAsRequested, IsOpen, SessionBegins,
     composerTemplate, composerLanding, composerRequest, composerBounds, Posts
<1>9. SavedUnlessNoted'
  BY DEF ComposerInv, ComposerTypes, DraftTypes, SavedUnlessNoted, IsOpen, SessionBegins,
     composerTemplate, composerLanding, composerRequest, composerBounds, Posts
<1>10. RetriesStep
  BY DEF ComposerInv, ComposerTypes, DraftTypes, RetriesStep, LeftEmpty, IsOpen, SessionBegins,
     composerTemplate, composerLanding, composerRequest, composerBounds, Posts
<1>11. DraftStep
  BY DEF ComposerInv, ComposerTypes, DraftTypes, DraftStep, LeftEmpty, SessionBegins, composerTemplate,
     composerLanding, composerRequest, composerBounds, Posts
<1>12. SavedStep
  BY DEF ComposerInv, ComposerTypes, DraftTypes, SavedStep, IntentKept, IsOpen, SessionBegins,
     composerTemplate, composerLanding, composerRequest, composerBounds, Posts
<1> QED
  BY <1>1, <1>2, <1>3, <1>4, <1>5, <1>6, <1>7, <1>8, <1>9, <1>10, <1>11, <1>12 DEF ComposerAllows, ComposerInv,
     ComposerTypes

LEMMA EditDraftStep ==
  ASSUME ComposerInv, EditDraft
  PROVE  ComposerAllows
<1> USE ComposerNumbers
<1>1. PICK d : d = [draft EXCEPT !.content = edits + 1]
  OBVIOUS
<1>2. d \in Drafts /\ d # None /\ d.content \in 0 .. MaxEdits /\ edits + 1 \in 0 .. MaxEdits
  BY <1>1, ContentsTyped DEF EditDraft, ComposerInv, ComposerTypes, VisitTypes, DraftTypes, Drafts
<1>3. VisitTypes'
  BY <1>1, <1>2 DEF ComposerInv, ComposerTypes, VisitTypes, EditDraft, composerTemplate,
     composerLanding, composerRequest, composerBounds, Replaces, Saves
<1>4. DraftTypes'
  BY <1>1, <1>2 DEF ComposerInv, ComposerTypes, DraftTypes, EditDraft, composerTemplate,
     composerLanding, composerRequest, composerBounds, Replaces, Saves
<1>5. TemplateTypes'
  BY <1>1, <1>2 DEF ComposerInv, ComposerTypes, TemplateTypes, EditDraft, composerTemplate,
     composerLanding, composerRequest, composerBounds, Replaces, Saves
<1>6. LandingTypes'
  BY <1>1, <1>2 DEF ComposerInv, ComposerTypes, LandingTypes, EditDraft, composerTemplate,
     composerLanding, composerRequest, composerBounds, Replaces, Saves
<1>7. PostedTypes'
  BY <1>1, <1>2 DEF ComposerInv, ComposerTypes, VisitTypes, IsOpen, PostedTypes, EditDraft,
     composerTemplate, composerLanding, composerRequest, composerBounds, Replaces, Saves
<1>8. Offers'
  BY <1>1, <1>2 DEF ComposerInv, ComposerTypes, DraftTypes, Offers, EditDraft, composerTemplate,
     composerLanding, composerRequest, composerBounds, Replaces, Saves
<1>9. LeftEmpty' /\ IntentKept'
  BY <1>1, <1>2 DEF ComposerInv, ComposerTypes, DraftTypes, LeftEmpty, IntentKept, IsOpen, EditDraft,
     composerTemplate, composerLanding, composerRequest, composerBounds, Replaces, Saves
<1>10. OfferedAsRequested'
  BY <1>1, <1>2 DEF ComposerInv, ComposerTypes, DraftTypes, OfferedAsRequested, IsOpen, EditDraft,
     composerTemplate, composerLanding, composerRequest, composerBounds, Replaces, Saves
<1>11. SavedUnlessNoted'
  BY <1>1, <1>2 DEF ComposerInv, ComposerTypes, DraftTypes, SavedUnlessNoted, IsOpen, EditDraft,
     composerTemplate, composerLanding, composerRequest, composerBounds, Replaces, Saves
<1>12. RetriesStep
  BY <1>1, <1>2 DEF ComposerInv, ComposerTypes, DraftTypes, RetriesStep, LeftEmpty, IsOpen, EditDraft,
     composerTemplate, composerLanding, composerRequest, composerBounds, Replaces, Saves
<1>13. DraftStep
  BY <1>1, <1>2 DEF ComposerInv, ComposerTypes, DraftTypes, DraftStep, LeftEmpty, EditDraft,
     composerTemplate, composerLanding, composerRequest, composerBounds, Replaces, Saves
<1>14. SavedStep
  BY <1>1, <1>2 DEF ComposerInv, ComposerTypes, DraftTypes, SavedStep, IntentKept, IsOpen, EditDraft,
     composerTemplate, composerLanding, composerRequest, composerBounds, Replaces, Saves
<1> QED
  BY <1>3, <1>4, <1>5, <1>6, <1>7, <1>8, <1>9, <1>10, <1>11, <1>12, <1>13, <1>14 DEF ComposerAllows,
     ComposerInv, ComposerTypes

LEMMA ImportEndsStep ==
  ASSUME ComposerInv, ImportEnds
  PROVE  ComposerAllows
<1> USE ComposerNumbers
<1>1. PICK d : d = [key |-> importing, content |-> edits + 1]
  OBVIOUS
<1>2. edits < MaxEdits => /\ d \in Drafts /\ d # None /\ d.content \in 0 .. MaxEdits
                         /\ edits + 1 \in 0 .. MaxEdits
  BY <1>1, ContentsTyped DEF ImportEnds, ComposerInv, ComposerTypes, VisitTypes, Drafts
<1>3. VisitTypes'
  BY <1>1, <1>2 DEF ComposerInv, ComposerTypes, VisitTypes, ImportEnds, composerTemplate,
     composerLanding, composerRequest, composerBounds, Replaces, Saves
<1>4. DraftTypes'
  BY <1>1, <1>2 DEF ComposerInv, ComposerTypes, DraftTypes, ImportEnds, composerTemplate,
     composerLanding, composerRequest, composerBounds, Replaces, Saves
<1>5. TemplateTypes'
  BY <1>1, <1>2 DEF ComposerInv, ComposerTypes, TemplateTypes, ImportEnds, composerTemplate,
     composerLanding, composerRequest, composerBounds, Replaces, Saves
<1>6. LandingTypes'
  BY <1>1, <1>2 DEF ComposerInv, ComposerTypes, LandingTypes, ImportEnds, composerTemplate,
     composerLanding, composerRequest, composerBounds, Replaces, Saves
<1>7. PostedTypes'
  BY <1>1, <1>2 DEF ComposerInv, ComposerTypes, VisitTypes, IsOpen, PostedTypes, ImportEnds,
     composerTemplate, composerLanding, composerRequest, composerBounds, Replaces, Saves
<1>8. Offers'
  BY <1>1, <1>2 DEF ComposerInv, ComposerTypes, DraftTypes, Offers, ImportEnds, composerTemplate,
     composerLanding, composerRequest, composerBounds, Replaces, Saves
<1>9. LeftEmpty' /\ IntentKept'
  BY <1>1, <1>2 DEF ComposerInv, ComposerTypes, DraftTypes, LeftEmpty, IntentKept, IsOpen, ImportEnds,
     composerTemplate, composerLanding, composerRequest, composerBounds, Replaces, Saves
<1>10. OfferedAsRequested'
  BY <1>1, <1>2 DEF ComposerInv, ComposerTypes, DraftTypes, OfferedAsRequested, IsOpen, ImportEnds,
     composerTemplate, composerLanding, composerRequest, composerBounds, Replaces, Saves
<1>11. SavedUnlessNoted'
  BY <1>1, <1>2 DEF ComposerInv, ComposerTypes, DraftTypes, SavedUnlessNoted, IsOpen, ImportEnds,
     composerTemplate, composerLanding, composerRequest, composerBounds, Replaces, Saves
<1>12. RetriesStep
  BY <1>1, <1>2 DEF ComposerInv, ComposerTypes, DraftTypes, RetriesStep, LeftEmpty, IsOpen, ImportEnds,
     composerTemplate, composerLanding, composerRequest, composerBounds, Replaces, Saves
<1>13. DraftStep
  BY <1>1, <1>2 DEF ComposerInv, ComposerTypes, DraftTypes, DraftStep, LeftEmpty, ImportEnds,
     composerTemplate, composerLanding, composerRequest, composerBounds, Replaces, Saves
<1>14. SavedStep
  BY <1>1, <1>2 DEF ComposerInv, ComposerTypes, DraftTypes, SavedStep, IntentKept, IsOpen, ImportEnds,
     composerTemplate, composerLanding, composerRequest, composerBounds, Replaces, Saves
<1> QED
  BY <1>3, <1>4, <1>5, <1>6, <1>7, <1>8, <1>9, <1>10, <1>11, <1>12, <1>13, <1>14 DEF ComposerAllows,
     ComposerInv, ComposerTypes

LEMMA StartFreshStep ==
  ASSUME ComposerInv, StartFresh
  PROVE  ComposerAllows
<1> USE ComposerNumbers
<1>1. keys < MaxKeys
  BY DEF StartFresh
<1>2. New(0) \in Drafts /\ New(0) # None /\ New(0).content = 0 /\ 0 \in 0 .. MaxEdits
  BY <1>1, NewDraftTyped, ContentsTyped
<1>3. VisitTypes'
  BY <1>1, <1>2 DEF ComposerInv, ComposerTypes, VisitTypes, StartFresh, composerLanding,
     composerRequest, composerBounds, Replaces, Saves
<1>4. DraftTypes'
  BY <1>1, <1>2 DEF ComposerInv, ComposerTypes, DraftTypes, StartFresh, composerLanding,
     composerRequest, composerBounds, Replaces, Saves
<1>5. TemplateTypes'
  BY <1>1, <1>2 DEF ComposerInv, ComposerTypes, TemplateTypes, StartFresh, composerLanding,
     composerRequest, composerBounds, Replaces, Saves
<1>6. LandingTypes'
  BY <1>1, <1>2 DEF ComposerInv, ComposerTypes, LandingTypes, StartFresh, composerLanding,
     composerRequest, composerBounds, Replaces, Saves
<1>7. PostedTypes'
  BY <1>1, <1>2 DEF ComposerInv, ComposerTypes, VisitTypes, IsOpen, PostedTypes, StartFresh,
     composerLanding, composerRequest, composerBounds, Replaces, Saves
<1>8. Offers'
  BY <1>1, <1>2 DEF ComposerInv, ComposerTypes, DraftTypes, Offers, StartFresh, composerLanding,
     composerRequest, composerBounds, Replaces, Saves
<1>9. LeftEmpty' /\ IntentKept'
  BY <1>1, <1>2 DEF ComposerInv, ComposerTypes, DraftTypes, LeftEmpty, IntentKept, IsOpen, StartFresh,
     composerLanding, composerRequest, composerBounds, Replaces, Saves
<1>10. OfferedAsRequested'
  BY <1>1, <1>2 DEF ComposerInv, ComposerTypes, DraftTypes, OfferedAsRequested, IsOpen, StartFresh,
     composerLanding, composerRequest, composerBounds, Replaces, Saves
<1>11. SavedUnlessNoted'
  BY <1>1, <1>2 DEF ComposerInv, ComposerTypes, DraftTypes, SavedUnlessNoted, IsOpen, StartFresh,
     composerLanding, composerRequest, composerBounds, Replaces, Saves
<1>12. RetriesStep
  BY <1>1, <1>2 DEF ComposerInv, ComposerTypes, DraftTypes, RetriesStep, LeftEmpty, IsOpen, StartFresh,
     composerLanding, composerRequest, composerBounds, Replaces, Saves
<1>13. DraftStep
  BY <1>1, <1>2 DEF ComposerInv, ComposerTypes, DraftTypes, DraftStep, LeftEmpty, StartFresh,
     composerLanding, composerRequest, composerBounds, Replaces, Saves
<1>14. SavedStep
  BY <1>1, <1>2 DEF ComposerInv, ComposerTypes, DraftTypes, SavedStep, IntentKept, IsOpen, StartFresh,
     composerLanding, composerRequest, composerBounds, Replaces, Saves
<1> QED
  BY <1>3, <1>4, <1>5, <1>6, <1>7, <1>8, <1>9, <1>10, <1>11, <1>12, <1>13, <1>14 DEF ComposerAllows,
     ComposerInv, ComposerTypes

LEMMA ReplaceSavedDraftStep ==
  ASSUME ComposerInv, ReplaceSavedDraft
  PROVE  ComposerAllows
<1> USE ComposerNumbers
<1>1. PICK of : of = IF reviewing THEN Landed ELSE template.of
  OBVIOUS
<1>2. of \in Contents /\ keys < MaxKeys /\ (~reviewing => template.of \in Templates)
  BY <1>1, ContentsTyped DEF ReplaceSavedDraft, ComposerInv, Offers
<1>3. New(of) \in Drafts /\ New(of) # None
  BY <1>2, NewDraftTyped
<1>4. VisitTypes'
  BY <1>1, <1>2, <1>3, TemplateIs DEF ComposerInv, ComposerTypes, VisitTypes, ReplaceSavedDraft,
     Replaces, Saves, TemplateStates
<1>5. DraftTypes'
  BY <1>1, <1>2, <1>3 DEF ComposerInv, ComposerTypes, DraftTypes, ReplaceSavedDraft, Replaces, Saves
<1>6. TemplateTypes'
  BY <1>1, <1>2, <1>3, TemplateIs DEF ComposerInv, ComposerTypes, TemplateTypes, ReplaceSavedDraft,
     Replaces, Saves, TemplateStates
<1>7. LandingTypes'
  BY <1>1, <1>2, <1>3, TemplateIs DEF ComposerInv, ComposerTypes, LandingTypes, ReplaceSavedDraft,
     Replaces, Saves, TemplateStates
<1>8. PostedTypes'
  BY <1>1, <1>2, <1>3, TemplateIs DEF ComposerInv, ComposerTypes, VisitTypes, IsOpen, PostedTypes,
     ReplaceSavedDraft, Replaces, Saves, TemplateStates
<1>9. Offers'
  BY <1>1, <1>2, <1>3, TemplateIs DEF ComposerInv, ComposerTypes, DraftTypes, Offers,
     ReplaceSavedDraft, Replaces, Saves, TemplateStates
<1>10. LeftEmpty' /\ IntentKept'
  BY <1>1, <1>2, <1>3, TemplateIs DEF ComposerInv, ComposerTypes, DraftTypes, LeftEmpty, IntentKept,
     IsOpen, ReplaceSavedDraft, Replaces, Saves, TemplateStates
<1>11. OfferedAsRequested'
  BY <1>1, <1>2, <1>3, TemplateIs DEF ComposerInv, ComposerTypes, DraftTypes, OfferedAsRequested,
     IsOpen, ReplaceSavedDraft, Replaces, Saves, TemplateStates
<1>12. SavedUnlessNoted'
  BY <1>1, <1>2, <1>3, TemplateIs DEF ComposerInv, ComposerTypes, DraftTypes, SavedUnlessNoted,
     IsOpen, ReplaceSavedDraft, Replaces, Saves, TemplateStates
<1>13. RetriesStep
  BY <1>1, <1>2, <1>3, TemplateIs DEF ComposerInv, ComposerTypes, DraftTypes, RetriesStep, LeftEmpty,
     IsOpen, ReplaceSavedDraft, Replaces, Saves, TemplateStates
<1>14. DraftStep
  BY <1>1, <1>2, <1>3, TemplateIs DEF ComposerInv, ComposerTypes, DraftTypes, DraftStep, LeftEmpty,
     ReplaceSavedDraft, Replaces, Saves, TemplateStates
<1>15. SavedStep
  BY <1>1, <1>2, <1>3, TemplateIs DEF ComposerInv, ComposerTypes, DraftTypes, SavedStep, IntentKept,
     IsOpen, ReplaceSavedDraft, Replaces, Saves, TemplateStates
<1> QED
  BY <1>4, <1>5, <1>6, <1>7, <1>8, <1>9, <1>10, <1>11, <1>12, <1>13, <1>14, <1>15 DEF ComposerAllows,
     ComposerInv, ComposerTypes

LEMMA TemplateAnsweredStep ==
  ASSUME ComposerInv, NEW n \in 1 .. MaxAsked, TemplateAnswered(n)
  PROVE  ComposerAllows
<1> USE ComposerNumbers
<1>1. inquiries[n] \in Templates /\ inquiries[n] = requested /\ template.state = "loading"
  BY DEF TemplateAnswered, LatestRequest, ComposerInv, ComposerTypes, TemplateTypes
<1>2. inquiries[n] \in Contents
  BY <1>1, ContentsTyped
<1>3. keys < MaxKeys => New(inquiries[n]) \in Drafts /\ New(inquiries[n]) # None
  BY <1>2, NewDraftTyped
<1>4. VisitTypes'
  BY <1>1, <1>2, <1>3, TemplateIs DEF ComposerInv, ComposerTypes, VisitTypes, TemplateAnswered,
     composerLanding, composerRequest, composerBounds, Replaces, Saves, NoDraftYet, LatestRequest,
     TemplateStates
<1>5. DraftTypes'
  BY <1>1, <1>2, <1>3 DEF ComposerInv, ComposerTypes, DraftTypes, TemplateAnswered, composerLanding,
     composerRequest, composerBounds, Replaces, Saves, NoDraftYet, LatestRequest
<1>6. TemplateTypes'
  BY <1>1, <1>2, <1>3, TemplateIs DEF ComposerInv, ComposerTypes, TemplateTypes, TemplateAnswered,
     composerLanding, composerRequest, composerBounds, Replaces, Saves, NoDraftYet, LatestRequest,
     TemplateStates
<1>7. LandingTypes'
  BY <1>1, <1>2, <1>3, TemplateIs DEF ComposerInv, ComposerTypes, LandingTypes, TemplateAnswered,
     composerLanding, composerRequest, composerBounds, Replaces, Saves, NoDraftYet, LatestRequest,
     TemplateStates
<1>8. PostedTypes'
  BY <1>1, <1>2, <1>3, TemplateIs DEF ComposerInv, ComposerTypes, VisitTypes, IsOpen, PostedTypes,
     TemplateAnswered, composerLanding, composerRequest, composerBounds, Replaces, Saves, NoDraftYet,
     LatestRequest, TemplateStates
<1>9. Offers'
  BY <1>1, <1>2, <1>3, TemplateIs DEF ComposerInv, ComposerTypes, DraftTypes, Offers,
     TemplateAnswered, composerLanding, composerRequest, composerBounds, Replaces, Saves, NoDraftYet,
     LatestRequest, TemplateStates
<1>10. LeftEmpty' /\ IntentKept'
  BY <1>1, <1>2, <1>3, TemplateIs DEF ComposerInv, ComposerTypes, DraftTypes, LeftEmpty, IntentKept,
     IsOpen, TemplateAnswered, composerLanding, composerRequest, composerBounds, Replaces, Saves,
     NoDraftYet, LatestRequest, TemplateStates
<1>11. OfferedAsRequested'
  BY <1>1, <1>2, <1>3, TemplateIs DEF ComposerInv, ComposerTypes, DraftTypes, OfferedAsRequested,
     IsOpen, TemplateAnswered, composerLanding, composerRequest, composerBounds, Replaces, Saves,
     NoDraftYet, LatestRequest, TemplateStates
<1>12. SavedUnlessNoted'
  BY <1>1, <1>2, <1>3, TemplateIs DEF ComposerInv, ComposerTypes, DraftTypes, SavedUnlessNoted,
     IsOpen, TemplateAnswered, composerLanding, composerRequest, composerBounds, Replaces, Saves,
     NoDraftYet, LatestRequest, TemplateStates
<1>13. RetriesStep
  BY <1>1, <1>2, <1>3, TemplateIs DEF ComposerInv, ComposerTypes, DraftTypes, RetriesStep, LeftEmpty,
     IsOpen, TemplateAnswered, composerLanding, composerRequest, composerBounds, Replaces, Saves,
     NoDraftYet, LatestRequest, TemplateStates
<1>14. DraftStep
  BY <1>1, <1>2, <1>3, TemplateIs DEF ComposerInv, ComposerTypes, DraftTypes, DraftStep, LeftEmpty,
     TemplateAnswered, composerLanding, composerRequest, composerBounds, Replaces, Saves, NoDraftYet,
     LatestRequest, TemplateStates
<1>15. SavedStep
  BY <1>1, <1>2, <1>3, TemplateIs DEF ComposerInv, ComposerTypes, DraftTypes, SavedStep, IntentKept,
     IsOpen, TemplateAnswered, composerLanding, composerRequest, composerBounds, Replaces, Saves,
     NoDraftYet, LatestRequest, TemplateStates
<1> QED
  BY <1>4, <1>5, <1>6, <1>7, <1>8, <1>9, <1>10, <1>11, <1>12, <1>13, <1>14, <1>15 DEF ComposerAllows,
     ComposerInv, ComposerTypes

LEMMA OpenWithReplacementStep ==
  ASSUME ComposerInv, OpenWithReplacement
  PROVE  ComposerAllows
<1> USE ComposerNumbers
<1>1. keys < MaxKeys /\ edits + 1 \in 0 .. MaxEdits /\ edits + 1 \in Contents
  BY ContentsTyped DEF OpenWithReplacement, ComposerInv, ComposerTypes, VisitTypes
<1>2. New(edits + 1) \in Drafts /\ New(edits + 1) # None /\ New(edits + 1).content = edits + 1
  BY <1>1, NewDraftTyped
<1>3. VisitTypes'
  BY <1>1, <1>2, TemplateIs DEF ComposerInv, ComposerTypes, VisitTypes, OpenWithReplacement,
     AskedFirst, TemplateStates
<1>4. DraftTypes'
  BY <1>1, <1>2 DEF ComposerInv, ComposerTypes, DraftTypes, OpenWithReplacement, AskedFirst
<1>5. TemplateTypes'
  BY <1>1, <1>2, TemplateIs DEF ComposerInv, ComposerTypes, TemplateTypes, OpenWithReplacement,
     AskedFirst, TemplateStates
<1>6. LandingTypes'
  BY <1>1, <1>2, TemplateIs DEF ComposerInv, ComposerTypes, LandingTypes, OpenWithReplacement,
     AskedFirst, TemplateStates
<1>7. PostedTypes'
  BY <1>1, <1>2, TemplateIs DEF ComposerInv, ComposerTypes, VisitTypes, IsOpen, PostedTypes,
     OpenWithReplacement, AskedFirst, TemplateStates
<1>8. Offers'
  BY <1>1, <1>2, TemplateIs DEF ComposerInv, ComposerTypes, DraftTypes, Offers,
     OpenWithReplacement, AskedFirst, TemplateStates
<1>9. LeftEmpty' /\ IntentKept'
  BY <1>1, <1>2, TemplateIs DEF ComposerInv, ComposerTypes, DraftTypes, LeftEmpty, IntentKept, IsOpen,
     OpenWithReplacement, AskedFirst, TemplateStates
<1>10. OfferedAsRequested'
  BY <1>1, <1>2, TemplateIs DEF ComposerInv, ComposerTypes, DraftTypes, OfferedAsRequested, IsOpen,
     OpenWithReplacement, AskedFirst, TemplateStates
<1>11. SavedUnlessNoted'
  BY <1>1, <1>2, TemplateIs DEF ComposerInv, ComposerTypes, DraftTypes, SavedUnlessNoted, IsOpen,
     OpenWithReplacement, AskedFirst, TemplateStates
<1>12. RetriesStep
  BY <1>1, <1>2, TemplateIs DEF ComposerInv, ComposerTypes, DraftTypes, RetriesStep, LeftEmpty, IsOpen,
     OpenWithReplacement, AskedFirst, TemplateStates
<1>13. DraftStep
  BY <1>1, <1>2, TemplateIs DEF ComposerInv, ComposerTypes, DraftTypes, DraftStep, LeftEmpty,
     OpenWithReplacement, AskedFirst, TemplateStates
<1>14. SavedStep
  BY <1>1, <1>2, TemplateIs DEF ComposerInv, ComposerTypes, DraftTypes, SavedStep, IntentKept, IsOpen,
     OpenWithReplacement, AskedFirst, TemplateStates
<1> QED
  BY <1>3, <1>4, <1>5, <1>6, <1>7, <1>8, <1>9, <1>10, <1>11, <1>12, <1>13, <1>14 DEF ComposerAllows,
     ComposerInv, ComposerTypes

LEMMA OpenComposerStep ==
  ASSUME ComposerInv, OpenComposer
  PROVE  ComposerAllows
<1> USE ComposerNumbers
<1>1. keys < MaxKeys
  BY DEF OpenComposer
<1>2. /\ New(0) \in Drafts /\ New(0) # None /\ New(0).content = 0 /\ 0 \in 0 .. MaxEdits
      /\ New(Landed) \in Drafts /\ New(Landed) # None
  BY <1>1, NewDraftTyped, ContentsTyped
<1>3. VisitTypes'
  BY <1>1, <1>2, TemplateIs DEF ComposerInv, ComposerTypes, VisitTypes, OpenComposer, AskedFirst,
     Saves, TemplateStates
<1>4. DraftTypes'
  BY <1>1, <1>2 DEF ComposerInv, ComposerTypes, DraftTypes, OpenComposer, AskedFirst, Saves
<1>5. TemplateTypes'
  BY <1>1, <1>2, TemplateIs DEF ComposerInv, ComposerTypes, TemplateTypes, OpenComposer,
     AskedFirst, Saves, TemplateStates
<1>6. LandingTypes'
  BY <1>1, <1>2, TemplateIs DEF ComposerInv, ComposerTypes, LandingTypes, OpenComposer, AskedFirst,
     Saves, TemplateStates
<1>7. PostedTypes'
  BY <1>1, <1>2, TemplateIs DEF ComposerInv, ComposerTypes, VisitTypes, IsOpen, PostedTypes,
     OpenComposer, AskedFirst, Saves, TemplateStates
<1>8. Offers'
  BY <1>1, <1>2, TemplateIs DEF ComposerInv, ComposerTypes, DraftTypes, Offers, OpenComposer,
     AskedFirst, Saves, TemplateStates
<1>9. LeftEmpty' /\ IntentKept'
  BY <1>1, <1>2, TemplateIs DEF ComposerInv, ComposerTypes, DraftTypes, LeftEmpty, IntentKept, IsOpen,
     OpenComposer, AskedFirst, Saves, TemplateStates
<1>10. OfferedAsRequested'
  BY <1>1, <1>2, TemplateIs DEF ComposerInv, ComposerTypes, DraftTypes, OfferedAsRequested, IsOpen,
     OpenComposer, AskedFirst, Saves, TemplateStates
<1>11. SavedUnlessNoted'
  BY <1>1, <1>2, TemplateIs DEF ComposerInv, ComposerTypes, DraftTypes, SavedUnlessNoted, IsOpen,
     OpenComposer, AskedFirst, Saves, TemplateStates
<1>12. RetriesStep
  BY <1>1, <1>2, TemplateIs DEF ComposerInv, ComposerTypes, DraftTypes, RetriesStep, LeftEmpty, IsOpen,
     OpenComposer, AskedFirst, Saves, TemplateStates
<1>13. DraftStep
  BY <1>1, <1>2, TemplateIs DEF ComposerInv, ComposerTypes, DraftTypes, DraftStep, LeftEmpty,
     OpenComposer, AskedFirst, Saves, TemplateStates
<1>14. SavedStep
  BY <1>1, <1>2, TemplateIs DEF ComposerInv, ComposerTypes, DraftTypes, SavedStep, IntentKept, IsOpen,
     OpenComposer, AskedFirst, Saves, TemplateStates
<1> QED
  BY <1>3, <1>4, <1>5, <1>6, <1>7, <1>8, <1>9, <1>10, <1>11, <1>12, <1>13, <1>14 DEF ComposerAllows,
     ComposerInv, ComposerTypes

\* Every step keeps the invariant, and does to an intent, a draft and the saved draft
\* only what it may.
LEMMA ComposerNextInv ==
  ASSUME ComposerInv, [ComposerNext]_composerVars
  PROVE  ComposerInv' /\ (ComposerAllows \/ UNCHANGED composerVars)
<1>1. CASE UNCHANGED composerVars
  BY <1>1 DEF composerVars, ComposerInv, ComposerTypes, VisitTypes, DraftTypes, TemplateTypes, LandingTypes,
     PostedTypes, Offers, LeftEmpty, IntentKept, OfferedAsRequested, SavedUnlessNoted, IsOpen
<1>2. ASSUME ComposerNext PROVE ComposerAllows
  <2>1. ASSUME NEW n \in 1 .. MaxAsked, TemplateAnswered(n) \/ TemplateFails(n) PROVE ComposerAllows
    BY <2>1, TemplateAnsweredStep, TemplateFailsStep
  <2>2. ASSUME NEW p \in posted, CreateRun(p) \/ RequestLost(p) PROVE ComposerAllows
    BY <2>2, CreateRunStep, RequestLostStep
  <2>3. CASE ContinueFromLanding \/ OpenComposer \/ OpenWithReplacement \/ CloseComposer
    BY <2>3, ContinueFromLandingStep, OpenComposerStep, OpenWithReplacementStep, CloseComposerStep
  <2>4. CASE EditDraft \/ ImportManifest \/ ImportEnds \/ StartFresh
    BY <2>4, EditDraftStep, ImportManifestStep, ImportEndsStep, StartFreshStep
  <2>5. CASE NavigateTemplate \/ OpenReview \/ KeepSavedDraft \/ ReplaceSavedDraft
    BY <2>5, NavigateTemplateStep, OpenReviewStep, KeepSavedDraftStep, ReplaceSavedDraftStep
  <2>6. CASE SubmitManifest \/ SessionBegins \/ SessionEnds \/ RunCreated \/ CreateFails
    BY <2>6, SubmitManifestStep, SessionBeginsStep, SessionEndsStep, RunCreatedStep, CreateFailsStep
  <2> QED
    BY <1>2, <2>1, <2>2, <2>3, <2>4, <2>5, <2>6 DEF ComposerNext
<1> QED
  BY <1>1, <1>2 DEF ComposerAllows

\* The composer keeps its promise, for any templates and any number of visits, edits,
\* creation keys and requests: a retry sends the same manifest under the same key, a
\* draft gives way only to what the user confirmed, and the saved draft goes only once
\* its run exists (ManifestComposer.tsx).
THEOREM ComposerKeepsItsPromise == ComposerSpec => ComposerPromise
<1>1. ComposerInit => ComposerInv
  BY ComposerInitInv
<1>2. ComposerInv /\ [ComposerNext]_composerVars => ComposerInv'
  BY ComposerNextInv
<1>3. ComposerInv => OfferedAsRequested /\ SavedUnlessNoted
  BY DEF ComposerInv
<1>4. ComposerInv /\ [ComposerNext]_composerVars =>
        [intent # None =>
           /\ intent' \in {intent, None} /\ submitted' \subseteq submitted \cup {intent}
           /\ intent' = None => place' # "open" \/ confirming]_composerVars
  BY ComposerNextInv DEF ComposerAllows, RetriesStep
<1>5. ComposerInv /\ [ComposerNext]_composerVars =>
        [draft # None /\ draft' # None /\ draft' # draft /\ draft'.content \notin 0 .. MaxEdits =>
           confirming \/ draft'.content = draft.content]_composerVars
  BY ComposerNextInv DEF ComposerAllows, DraftStep
<1>6. ComposerInv /\ [ComposerNext]_composerVars =>
        [saved \notin {None, Corrupt} /\ saved' = None => intent \in made]_composerVars
  BY ComposerNextInv DEF ComposerAllows, SavedStep
<1> QED
  BY <1>1, <1>2, <1>3, <1>4, <1>5, <1>6, PTL
     DEF ComposerSpec, ComposerPromise, RetriesAreTheSame, DraftIsTheUsers, SavedUntilMade

---------------------------------------------------------------------------
(***************************************************************************)
(* Every part keeps the types of its state, within its bounds.             *)
(***************************************************************************)

ErrandOver == {"unused", "done", "failed"}

\* The lane is an errand under way, and so is the one the page waits for: it is of this page.
Occupied ==
  /\ lane \in Errands \cup {0}
  /\ lane # 0 => errand[lane].stage \notin ErrandOver
  /\ settings.issuing # 0 =>
       /\ errand[settings.issuing].stage \notin ErrandOver
       /\ errand[settings.issuing].kind = "issue"
       /\ errand[settings.issuing].page = settings.number
  /\ ~settings.open => settings.issuing = 0

\* A step that leaves the errands alone.
LEMMA OccupiedStays ==
  ASSUME PageInv, Occupied, UNCHANGED <<errand, lane>>,
         settings'.issuing = settings.issuing /\ settings'.number = settings.number
           /\ settings'.open = settings.open
  PROVE  Occupied'
  BY DEF Occupied

LEMMA TransitionsOccupy ==
  ASSUME PageInv, Occupied,
         \/ SignInAgain \/ LeaveAccount \/ ForgetThisBrowser \/ CancelNothing \/ TransitionEnds
         \/ NeedsAccount \/ CloseReveal \/ \E l \in Looks : LookStep(l)
  PROVE  Occupied'
<1>1. UNCHANGED <<errand, lane>> /\ settings' \in {settings, Unrevealed}
  BY DEF SignInAgain, LeaveAccount, ForgetThisBrowser, CancelNothing, Transition, TransitionEnds,
     NeedsAccount, CloseReveal, LookStep, ReadAccount, LookAnswered
<1>2. settings \in SettingsRecords
  BY DEF PageInv, PageTypes
<1>3. settings'.issuing = settings.issuing /\ settings'.number = settings.number /\ settings'.open = settings.open
  BY <1>1, <1>2 DEF Unrevealed, SettingsRecords
<1> QED
  BY <1>1, <1>3, OccupiedStays

LEMMA PageOccupies ==
  ASSUME PageInv, Occupied, ClosePage \/ OpenPage
  PROVE  Occupied'
<1>1. UNCHANGED <<errand, lane>> /\ settings \in SettingsRecords
  BY DEF ClosePage, OpenPage, PageInv, PageTypes
<1>2. settings'.issuing = 0
  <2>1. CASE ClosePage
    BY <1>1, <2>1 DEF ClosePage, SettingsRecords
  <2>2. CASE OpenPage
    BY <1>1, <2>2 DEF OpenPage, SettingsRecords, Occupied
  <2> QED
    BY <2>1, <2>2
<1> QED
  BY <1>1, <1>2 DEF Occupied

LEMMA AsksOccupies ==
  ASSUME PageInv, Occupied, NEW e \in Errands, NEW kind \in {"issue", "revoke"}, NEW c \in Credentials,
         Asks(e, kind, c)
  PROVE  /\ lane' \in Errands \cup {0} /\ (lane' # 0 => errand'[lane'].stage \notin ErrandOver)
         /\ errand[e].stage = "unused" /\ settings.open
         /\ \A d \in Errands : d # e => errand'[d] = errand[d]
         /\ LaneFree => errand'[e].stage = "asked" /\ errand'[e].kind = kind
                        /\ errand'[e].page = settings.number
         /\ ~LaneFree => errand' = errand
<1>1. errand \in [Errands -> ErrandRecords] /\ errand[e].stage = "unused" /\ settings.open
  BY DEF PageInv, PageTypes, Asks
<1>2. CASE LaneFree
  <2>1. PICK r : r = [kind |-> kind, stage |-> "asked", marker |-> access.marker,
                      bearer |-> access.bearer, page |-> settings.number, of |-> c, look |-> 0]
    OBVIOUS
  <2>2. errand' = [errand EXCEPT ![e] = r] /\ lane' = e
    BY <1>2, <2>1 DEF Asks
  <2>3. r.stage = "asked" /\ r.kind = kind /\ r.page = settings.number
    BY <2>1
  <2>4. errand'[e] = r /\ \A d \in Errands : d # e => errand'[d] = errand[d]
    BY <1>1, <2>2
  <2> QED
    BY <1>1, <1>2, <2>2, <2>3, <2>4 DEF ErrandOver
<1>3. CASE ~LaneFree
  BY <1>1, <1>3 DEF Asks, Occupied
<1> QED
  BY <1>2, <1>3

LEMMA SubmitOccupies ==
  ASSUME PageInv, Occupied, NEW e \in Errands, Submit(e) \/ ConfirmRevoke(e)
  PROVE  Occupied'
<1>1. settings \in SettingsRecords /\ e # 0 /\ e \in Credentials
  BY AccountNumbers DEF PageInv, PageTypes
<1>2. CASE Submit(e)
  <2>1. settings.issuing = 0 /\ Asks(e, "issue", e)
    BY <1>2 DEF Submit
  <2>2. /\ settings'.number = settings.number /\ settings'.open = settings.open
        /\ settings'.issuing = IF LaneFree THEN e ELSE 0
    BY <1>1, <1>2 DEF Submit, SettingsRecords
  <2>3. /\ lane' \in Errands \cup {0} /\ (lane' # 0 => errand'[lane'].stage \notin ErrandOver)
        /\ settings.open
        /\ LaneFree => errand'[e].stage = "asked" /\ errand'[e].kind = "issue"
                        /\ errand'[e].page = settings.number
    BY <1>1, <2>1, AsksOccupies
  <2> QED
    BY <1>1, <2>2, <2>3 DEF Occupied, ErrandOver
<1>3. CASE ConfirmRevoke(e)
  <2>1. PICK c \in Credentials : Asks(e, "revoke", c)
    BY <1>3 DEF ConfirmRevoke, PageInv, PageTypes, AccountRecord
  <2>2. /\ settings'.number = settings.number /\ settings'.open = settings.open
        /\ settings'.issuing = settings.issuing
    BY <1>1, <1>3 DEF ConfirmRevoke, SettingsRecords
  <2>3. /\ lane' \in Errands \cup {0} /\ (lane' # 0 => errand'[lane'].stage \notin ErrandOver)
        /\ errand[e].stage = "unused" /\ settings.open
        /\ \A d \in Errands : d # e => errand'[d] = errand[d]
    BY <2>1, AsksOccupies
  <2>4. settings.issuing # 0 => settings.issuing \in Errands /\ settings.issuing # e
    BY <1>1, <2>3 DEF Occupied, ErrandOver, SettingsRecords
  <2>5. settings.issuing # 0 => errand'[settings.issuing] = errand[settings.issuing]
    BY <2>3, <2>4
  <2> QED
    BY <2>2, <2>3, <2>5 DEF Occupied
<1> QED
  BY <1>2, <1>3

\* An errand that goes on.
LEMMA GoingOnOccupies ==
  ASSUME PageInv, Occupied, NEW e \in Errands, NEW r, errand' = [errand EXCEPT ![e] = r],
         r.stage \notin ErrandOver /\ r.kind = errand[e].kind /\ r.page = errand[e].page,
         UNCHANGED <<lane, settings>>
  PROVE  Occupied'
<1>1. /\ errand \in [Errands -> ErrandRecords] /\ settings \in SettingsRecords
      /\ errand'[e] = r /\ \A d \in Errands : d # e => errand'[d] = errand[d]
  BY DEF PageInv, PageTypes
<1>2. \A d \in Errands : /\ errand'[d].kind = errand[d].kind /\ errand'[d].page = errand[d].page
                         /\ errand[d].stage \notin ErrandOver => errand'[d].stage \notin ErrandOver
  BY <1>1
<1>3. settings.issuing \in Errands \cup {0}
  BY <1>1 DEF SettingsRecords
<1> QED
  BY <1>2, <1>3 DEF Occupied

\* An errand that ends leaves the lane, and the page that waits for it.
LEMMA EndingOccupies ==
  ASSUME PageInv, Occupied, NEW e \in Errands,
         \A d \in Errands : d # e => errand'[d] = errand[d],
         lane' = (IF lane = e THEN 0 ELSE lane), NEW success \in BOOLEAN,
         settings'.issuing = Told(e, success).issuing /\ settings'.number = Told(e, success).number
           /\ settings'.open = Told(e, success).open
  PROVE  Occupied'
<1>1. settings \in SettingsRecords /\ settings.issuing \in Errands \cup {0} /\ 0 \notin Errands
  BY AccountNumbers DEF PageInv, PageTypes, SettingsRecords
<1>2. /\ settings'.number = settings.number /\ settings'.open = settings.open
      /\ settings'.issuing = IF errand[e].page = settings.number /\ errand[e].kind = "issue" THEN 0
                             ELSE settings.issuing
  BY <1>1 DEF Told, SettingsRecords
<1>3. settings'.issuing # 0 => settings'.issuing = settings.issuing /\ settings.issuing # e
  BY <1>1, <1>2 DEF Occupied
<1>4. settings'.issuing # 0 => errand'[settings.issuing] = errand[settings.issuing]
  BY <1>1, <1>3
<1>5. lane' \in Errands \cup {0} /\ (lane' # 0 => lane' = lane /\ errand'[lane] = errand[lane])
  BY <1>1 DEF Occupied
<1> QED
  BY <1>2, <1>3, <1>4, <1>5 DEF Occupied

LEMMA ErrandEndsOccupies ==
  ASSUME PageInv, Occupied, NEW e \in Errands, NEW success \in BOOLEAN, ErrandEnds(e, success)
  PROVE  Occupied'
<1>1. /\ \A d \in Errands : d # e => errand'[d] = errand[d]
      /\ lane' = (IF lane = e THEN 0 ELSE lane) /\ settings' = Told(e, success)
  BY DEF ErrandEnds, PageInv, PageTypes
<1> QED
  BY <1>1, EndingOccupies

LEMMA ErrandOccupies ==
  ASSUME PageInv, Occupied, NEW e \in Errands, AccountErrandStep(e)
  PROVE  Occupied'
<1>1. errand \in [Errands -> ErrandRecords] /\ errand[e] \in ErrandRecords
  BY DEF PageInv, PageTypes
<1>2. CASE ServeErrand(e)
  <2>1. PICK r : r = [errand[e] EXCEPT !.stage = "answered"]
    OBVIOUS
  <2>2. errand' = [errand EXCEPT ![e] = r] /\ UNCHANGED <<lane, settings>>
    BY <1>1, <1>2, <2>1 DEF ServeErrand
  <2>3. r.stage \notin ErrandOver /\ r.kind = errand[e].kind /\ r.page = errand[e].page
    BY <1>1, <2>1 DEF ErrandRecords, ErrandOver
  <2> QED
    BY <2>2, <2>3, GoingOnOccupies
<1>3. CASE ErrandAnswered(e) /\ ErrandCurrent(e)
  <2>1. PICK r : r = [[errand[e] EXCEPT !.stage = "refreshing"] EXCEPT !.look = JoinedLook]
    OBVIOUS
  <2>2. errand' = [errand EXCEPT ![e].stage = "refreshing", ![e].look = JoinedLook] /\ UNCHANGED <<lane, settings>>
    BY <1>3 DEF ErrandAnswered
  <2>3. errand' = [errand EXCEPT ![e] = r]
    BY <1>1, <2>1, <2>2 DEF ErrandRecords
  <2>4. r.stage \notin ErrandOver /\ r.kind = errand[e].kind /\ r.page = errand[e].page
    BY <1>1, <2>1 DEF ErrandRecords, ErrandOver
  <2> QED
    BY <2>2, <2>3, <2>4, GoingOnOccupies
<1>4. CASE ErrandFails(e) \/ (ErrandAnswered(e) /\ ~ErrandCurrent(e))
  <2>1. ErrandEnds(e, FALSE)
    BY <1>4 DEF ErrandFails, ErrandAnswered
  <2> QED
    BY <2>1, ErrandEndsOccupies
<1>5. CASE ErrandConcludes(e)
  <2>1. PICK success \in BOOLEAN :
          success = (ErrandCurrent(e) /\ (errand[e].kind = "revoke" => Proven(e)))
    OBVIOUS
  <2>2. ErrandEnds(e, success)
    BY <1>5, <2>1 DEF ErrandConcludes
  <2> QED
    BY <2>2, ErrandEndsOccupies
<1>6. CASE SessionRefused(e)
  <2>1. /\ \A d \in Errands : d # e => errand'[d] = errand[d]
        /\ lane' = (IF lane = e THEN 0 ELSE lane)
        /\ settings' = [Told(e, FALSE) EXCEPT !.reveal = 0]
    BY <1>1, <1>6 DEF SessionRefused
  <2>2. Told(e, FALSE) \in SettingsRecords
    BY ToldTyped
  <2>3. settings'.issuing = Told(e, FALSE).issuing /\ settings'.number = Told(e, FALSE).number
           /\ settings'.open = Told(e, FALSE).open
    BY <2>1, <2>2 DEF SettingsRecords
  <2> QED
    BY <2>1, <2>3, EndingOccupies
<1> QED
  BY <1>2, <1>3, <1>4, <1>5, <1>6 DEF AccountErrandStep

LEMMA OccupiedStep ==
  ASSUME PageInv, Occupied, [AccountPageNext]_accountVars
  PROVE  Occupied'
<1>1. CASE UNCHANGED accountVars
  BY <1>1 DEF accountVars, Occupied
<1> QED
  BY <1>1, TransitionsOccupy, PageOccupies, SubmitOccupies, ErrandOccupies DEF AccountPageNext

\* The account page keeps its types; the lane is never left to an errand that is over,
\* nor is the page (accountMutationFlight, AccountSettings's issuing).
THEOREM AccountTypesHold == AccountPageSpec => []AccountPageTypeOK
<1>1. AccountPageInit => PageInv /\ Occupied
  BY PageInitInv DEF AccountPageInit, Occupied
<1>2. PageInv /\ [AccountPageNext]_accountVars => PageInv'
  BY PageNextInv
<1>3. PageInv /\ Occupied /\ [AccountPageNext]_accountVars => Occupied'
  BY OccupiedStep
<1>4. PageInv /\ Occupied => AccountPageTypeOK
  BY DEF PageInv, PageTypes, Occupied, ErrandOver, AccountPageTypeOK, Accesses, LookRecords, ErrandRecords, SettingsRecords
<1> QED
  BY <1>1, <1>2, <1>3, <1>4, PTL DEF AccountPageSpec

---------------------------------------------------------------------------
\* The run page keeps its types, and a report it calls valid was answered so.
THEOREM CockpitTypesHold == CockpitSpec => []CockpitTypeOK
<1>1. CockpitInv => CockpitTypeOK
  BY DEF CockpitInv, CockpitTypes, AttemptOK, PollRecords, ReportRecords, ReportAttempts, CockpitTypeOK
<1> QED
  BY <1>1, CockpitInitInv, CockpitNextInv, PTL DEF CockpitSpec

---------------------------------------------------------------------------
\* The clients keep their types: whatever the API answers, none leaves its program.
THEOREM ClientTypesHold == ClientsSpec => []ClientsTypeOK
<1>1. ASSUME ClientsInv PROVE ClientsTypeOK
  <2>1. ASSUME NEW i \in RunIds, book[i] # None
        PROVE  book[i].stage \in {"preparing", "ready", "submitted", "proved", "passed", "refused", "failed"}
    BY <1>1, <2>1 DEF ClientsInv, ClientsTypes, RunRecords
  <2>2. ASSUME NEW c \in Clients
        PROVE  /\ client[c].at \in 0 .. Len(Steps[KindOf[c]]) /\ client[c].starts \in 0 .. MaxStarts
               /\ client[c].age \in 0 .. TimeLimit /\ client[c].run \in RunIds \cup {None}
               /\ client[c].held \in Seq(RunIds) /\ client[c].end \in {None, "done", "failed", "pending"}
    <3>1. PICK r \in ClientRecords : r = client[c] /\ r.at \in 0 .. PlanLength(KindOf[c])
      BY <1>1 DEF ClientsInv, Knows, PlanOK
    <3> QED
      BY <3>1 DEF ClientRecords, PlanLength
  <2> QED
    BY <2>1, <2>2 DEF ClientsTypeOK
<1>2. ClientsInv /\ [ClientsNext]_clientsVars => ClientsInv'
  BY ClientsNextInv
<1> QED
  BY <1>1, <1>2, ClientsInitInv, PTL DEF ClientsSpec

---------------------------------------------------------------------------
\* The runs at the server, and what was sent, are drafts.
SentTyped == submitted \subseteq Drafts /\ made \subseteq Drafts

LEMMA SentStep ==
  ASSUME ComposerInv, SentTyped, [ComposerNext]_composerVars
  PROVE  SentTyped'
<1>1. intent \in Drafts \cup {None} /\ intent' \in Drafts \cup {None}
      /\ draft \in Drafts \cup {None}
      /\ \A p \in posted : p.what \in Drafts
  BY ComposerNextInv DEF ComposerInv, ComposerTypes, PostedTypes, DraftTypes
<1>2. CASE SubmitManifest \/ SessionBegins
  <2>1. submitted' \subseteq submitted \cup {intent'} /\ made' = made
        /\ (intent' = None => submitted' = submitted)
    BY <1>2, <1>1, ComposerNumbers DEF SubmitManifest, SessionBegins, Posts, IntentToSend
  <2> QED
    BY <1>1, <2>1 DEF SentTyped
<1>3. ASSUME NEW p \in posted, CreateRun(p) \/ RequestLost(p) PROVE SentTyped'
  BY <1>1, <1>3 DEF CreateRun, RequestLost, SentTyped
<1>4. CASE ~SubmitManifest /\ ~SessionBegins /\ \A p \in posted : ~CreateRun(p) /\ ~RequestLost(p)
  <2>1. submitted' \in {submitted, {}} /\ made' = made
    BY <1>4 DEF ComposerNext, composerVars, composerRequest, ContinueFromLanding, OpenComposer,
       OpenWithReplacement, CloseComposer, EditDraft, ImportManifest, ImportEnds, StartFresh,
       NavigateTemplate, OpenReview, KeepSavedDraft, ReplaceSavedDraft, TemplateAnswered, TemplateFails,
       SessionEnds, RunCreated, CreateFails
  <2> QED
    BY <2>1 DEF SentTyped
<1> QED
  BY <1>2, <1>3, <1>4

\* The composer keeps its types, and knows the intent of a request under way.
THEOREM ComposerTypesHold == ComposerSpec => []ComposerTypeOK
<1>1. ComposerInit => ComposerInv /\ SentTyped
  BY ComposerInitInv DEF ComposerInit, SentTyped
<1>2. ComposerInv /\ [ComposerNext]_composerVars => ComposerInv'
  BY ComposerNextInv
<1>3. ComposerInv /\ SentTyped /\ [ComposerNext]_composerVars => SentTyped'
  BY SentStep
<1>4. ComposerInv /\ SentTyped => ComposerTypeOK
  BY DEF ComposerInv, ComposerTypes, VisitTypes, DraftTypes, TemplateTypes, LandingTypes, PostedTypes,
     IntentKept, SentTyped, ComposerTypeOK
<1> QED
  BY <1>1, <1>2, <1>3, <1>4, PTL DEF ComposerSpec
=============================================================================
