-------------------------- MODULE ManifestComposer ---------------------------
(***************************************************************************)
(* The page on which a run is composed (ManifestComposer.tsx): one draft,  *)
(* saved in the browser, that a template, the endpoint typed on the        *)
(* landing, an imported file or the manifest of a failed run may replace,  *)
(* and the intent it is turned into, which is sent until the server has    *)
(* made a run of it.  Answers come late, the page is reloaded, the session *)
(* ends and begins.                                                        *)
(***************************************************************************)
EXTENDS Nothing, Naturals

CONSTANTS
  Templates,   \* templates a location may request
  Landed,      \* the content of the draft that the landing hands over
  Corrupt,     \* a saved value that is not a draft
  MaxEdits,    \* bound: contents the user makes
  MaxKeys,     \* bound: creation keys
  MaxVisits,   \* bound: times the page is opened
  MaxAsked     \* bound: template requests of a visit

\* A blank draft has content 0; templates and the landing draft are themselves.
Contents == 0 .. MaxEdits \cup Templates \cup {Landed}

Drafts == [key : 1 .. MaxKeys, content : Contents]

ASSUME ComposerAssumption ==
  /\ {MaxEdits, MaxKeys, MaxVisits, MaxAsked} \subseteq Nat \ {0}
  /\ {None, Corrupt, Landed} \cap Templates = {}
  /\ None # Corrupt /\ None # Landed /\ Corrupt # Landed
  /\ (Templates \cup {Landed}) \cap 0 .. MaxEdits = {} /\ {None, Corrupt} \cap Drafts = {}

VARIABLES
  visit,       \* which visit this is
  place,       \* the page is "away", "open", or was left for the "run"
  saved,       \* the draft in local storage
  draft,       \* the draft of the page
  noted,       \* the page says that edits are not kept
  template,    \* the template's [state, of]
  requested,   \* the template in the location, or None
  inquiries,   \* what each template request of this visit asked for
  applied,     \* the template that was applied
  handoff,     \* the landing draft in session storage
  landing,     \* the landing draft in the application
  reviewing,   \* it waits for a decision
  confirming,  \* the dialog that asks for it, or for the template's, is open
  importing,   \* creation key under which a file is being imported, or 0
  intent,      \* pendingCreateIntent
  creating,    \* what became of its request: submissionPending unless "none"
  posted,      \* requests on their way to the server
  submitted,   \* requests of this visit
  made,        \* runs at the server
  signed,      \* there is a project token
  keys, edits  \* creation keys and contents made so far

composerVars ==
  <<visit, place, saved, draft, noted, template, requested, inquiries, applied, handoff, landing,
    reviewing, confirming, importing, intent, creating, posted, submitted, made, signed, keys, edits>>

composerTemplate == <<template, requested, inquiries, applied>>
composerLanding == <<handoff, landing, reviewing>>
composerRequest == <<intent, creating, posted, submitted, made>>
composerBounds == <<visit, keys, edits>>

TemplateStates == {"idle", "loading", "available", "offered", "unavailable"}

\* Types of the state; while a request is under way the page knows its intent.
ComposerTypeOK ==
  /\ visit \in 0 .. MaxVisits /\ place \in {"away", "open", "run"}
  /\ saved \in Drafts \cup {None, Corrupt} /\ draft \in Drafts \cup {None}
  /\ template \in [state : TemplateStates, of : Templates \cup {None}]
  /\ requested \in Templates \cup {None} /\ applied \in Templates \cup {None}
  /\ inquiries \in [1 .. MaxAsked -> Templates \cup {None}]
  /\ {noted, handoff, landing, reviewing, confirming, signed} \subseteq BOOLEAN
  /\ importing \in 0 .. MaxKeys /\ keys \in 0 .. MaxKeys /\ edits \in 0 .. MaxEdits
  /\ intent \in Drafts \cup {None} /\ creating \in {"none", "asked", "made", "refused"}
  /\ posted \subseteq [what : Drafts, visit : 1 .. MaxVisits]
  /\ submitted \subseteq Drafts /\ made \subseteq Drafts
  /\ creating # "none" /\ place = "open" => intent # None

ComposerInit ==
  /\ visit = 0 /\ place = "away"
  /\ saved \in {None, Corrupt} /\ draft = None /\ noted = FALSE
  /\ template = [state |-> "idle", of |-> None] /\ requested = None
  /\ inquiries = [n \in 1 .. MaxAsked |-> None] /\ applied = None
  /\ handoff = FALSE /\ landing = FALSE /\ reviewing = FALSE /\ confirming = FALSE
  /\ importing = 0 /\ intent = None /\ creating = "none"
  /\ posted = {} /\ submitted = {} /\ made = {} /\ signed \in BOOLEAN
  /\ keys = 0 /\ edits = 0

IsOpen == place = "open"

New(content) == [key |-> keys + 1, content |-> content]

\* draftStore.save: the storage may be locked or full, or the draft contain a secret;
\* the page then says so, and the storage keeps what it had.
Saves(next) == \/ saved' = next /\ noted' = FALSE
               \/ saved' = saved /\ noted' = TRUE

\* replaceDraft.
Replaces(next) == draft' = next /\ Saves(next)

---------------------------------------------------------------------------
(* Opening and leaving.                                                    *)

\* continueFromLanding: the endpoint is handed over in memory and in session storage.
ContinueFromLanding ==
  /\ place = "away" /\ visit < MaxVisits
  /\ handoff' \in BOOLEAN /\ landing' = TRUE
  /\ UNCHANGED <<place, saved, draft, noted, composerTemplate, reviewing, confirming, importing,
                 composerRequest, signed, composerBounds>>

\* The first requests of a visit: the effect asks for the template in the location.
AskedFirst(t) == [n \in 1 .. MaxAsked |-> IF n = 1 THEN t ELSE None]

\* Startup: a saved draft is restored, and the landing's waits for a decision; without
\* one the landing's is taken and saved; without that a blank draft is made, unless a
\* template is asked for.  A saved value that is no draft is reported and dropped.
OpenComposer ==
  /\ place = "away" /\ visit < MaxVisits /\ keys < MaxKeys
  /\ landing => signed
  /\ place' = "open" /\ visit' = visit + 1
  /\ \E t \in Templates \cup {None}, readable \in BOOLEAN :
       LET restored == readable /\ saved \notin {None, Corrupt}
           rejected == readable /\ saved = Corrupt
           taken == landing /\ ~restored IN
       /\ requested' = t /\ inquiries' = AskedFirst(t)
       /\ template' = [state |-> IF t = None THEN "idle" ELSE "loading", of |-> None]
       /\ draft' = CASE restored -> saved
                     [] taken -> New(Landed)
                     [] rejected \/ t # None -> None
                     [] OTHER -> New(0)
       /\ IF taken THEN Saves(New(Landed))
          ELSE noted' = ~readable /\ saved' = IF rejected THEN None ELSE saved
       /\ keys' = IF restored THEN keys ELSE keys + 1
       /\ reviewing' = (landing /\ restored)
       /\ landing' = (landing /\ restored)
       /\ handoff' = (handoff /\ landing /\ restored)
  /\ applied' = None /\ confirming' = FALSE /\ importing' = 0
  /\ intent' = None /\ creating' = "none" /\ submitted' = {}
  /\ UNCHANGED <<posted, made, signed, edits>>

\* A failed run's manifest was staged for a new draft, and its page leads here: it
\* replaces the saved draft, and whatever the landing handed over.
OpenWithReplacement ==
  /\ place = "away" /\ visit < MaxVisits /\ keys < MaxKeys /\ edits < MaxEdits
  /\ landing => signed
  /\ place' = "open" /\ visit' = visit + 1
  /\ draft' = New(edits + 1) /\ keys' = keys + 1 /\ edits' = edits + 1
  /\ saved' \in {saved, New(edits + 1)} /\ noted' = FALSE
  /\ requested' = None /\ inquiries' = AskedFirst(None)
  /\ template' = [state |-> "idle", of |-> None] /\ applied' = None
  /\ handoff' = FALSE /\ landing' = FALSE /\ reviewing' = FALSE
  /\ confirming' = FALSE /\ importing' = 0
  /\ intent' = None /\ creating' = "none" /\ submitted' = {}
  /\ UNCHANGED <<posted, made, signed>>

\* The page is left or reloaded: only the storages keep anything, and what was posted
\* reaches the server or not.  A reload takes the landing draft out of session storage.
CloseComposer ==
  /\ place # "away"
  /\ place' = "away" /\ draft' = None
  /\ landing' = handoff /\ handoff' = FALSE /\ reviewing' = FALSE /\ confirming' = FALSE
  /\ importing' = 0 /\ intent' = None /\ creating' = "none" /\ submitted' = {}
  /\ UNCHANGED <<saved, noted, composerTemplate, posted, made, signed, composerBounds>>

---------------------------------------------------------------------------
(* The draft.                                                              *)

\* setFields, goToStep with a validated step: the user changes the draft.
EditDraft ==
  /\ IsOpen /\ draft # None /\ edits < MaxEdits
  /\ edits' = edits + 1
  /\ Replaces([draft EXCEPT !.content = edits + 1])
  /\ UNCHANGED <<visit, place, composerTemplate, composerLanding, confirming, importing,
                 composerRequest, signed, keys>>

\* importManifest: the file is read, under the key the draft has now.
ImportManifest ==
  /\ IsOpen /\ draft # None /\ importing = 0
  /\ importing' = draft.key
  /\ UNCHANGED <<place, saved, draft, noted, composerTemplate, composerLanding, confirming,
                 composerRequest, signed, composerBounds>>

ImportEnds ==
  /\ IsOpen /\ importing # 0
  /\ importing' = 0
  /\ \/ /\ edits < MaxEdits /\ edits' = edits + 1
        /\ Replaces([key |-> importing, content |-> edits + 1])
     \/ UNCHANGED <<edits, saved, draft, noted>>
  /\ UNCHANGED <<visit, place, composerTemplate, composerLanding, confirming, composerRequest,
                 signed, keys>>

\* startFresh, offered when the saved value was rejected.
StartFresh ==
  /\ IsOpen /\ draft = None /\ keys < MaxKeys
  /\ keys' = keys + 1 /\ applied' = None
  /\ Replaces(New(0))
  /\ UNCHANGED <<visit, place, template, requested, inquiries, composerLanding, confirming,
                 importing, composerRequest, signed, edits>>

---------------------------------------------------------------------------
(* Templates and the landing's draft.                                      *)

IsNextAsked(n) == inquiries[n] = None /\ \A m \in 1 .. n - 1 : inquiries[m] # None

\* popstate: the template of the new location is asked for, unless it was applied.
NavigateTemplate ==
  /\ IsOpen /\ confirming' = FALSE
  /\ \E t \in Templates \cup {None} :
       /\ requested' = t
       /\ IF t = None \/ t = applied
            THEN template' = [state |-> "idle", of |-> None] /\ UNCHANGED inquiries
            ELSE /\ \E n \in 1 .. MaxAsked : IsNextAsked(n) /\ inquiries' = [inquiries EXCEPT ![n] = t]
                 /\ template' = [state |-> "loading", of |-> None]
  /\ UNCHANGED <<place, saved, draft, noted, applied, composerLanding, importing,
                 composerRequest, signed, composerBounds>>

\* Fault: the answer of any request counts.
AnyRequest(n) == TRUE

\* templateRequestRevision: the newest request, and the location has not moved since.
LatestRequest(n) ==
  /\ template.state = "loading" /\ inquiries[n] = requested
  /\ \A m \in n + 1 .. MaxAsked : inquiries[m] = None

\* Fault: a template is applied to a draft that there is.
NoDraftOfItsOwn == TRUE

\* authoritativeDraft is not set.
NoDraftYet == draft = None

\* The template arrives: it becomes the draft if there is none, else it is offered.
TemplateAnswered(n) ==
  /\ IsOpen /\ inquiries[n] # None /\ LatestRequest(n)
  /\ IF NoDraftYet
       THEN /\ keys < MaxKeys /\ keys' = keys + 1
            /\ Replaces(New(inquiries[n])) /\ applied' = inquiries[n]
            /\ template' = [state |-> "available", of |-> inquiries[n]]
       ELSE /\ template' = [state |-> "offered", of |-> inquiries[n]]
            /\ UNCHANGED <<saved, draft, noted, applied, keys>>
  /\ UNCHANGED <<visit, place, requested, inquiries, composerLanding, confirming, importing,
                 composerRequest, signed, edits>>

TemplateFails(n) ==
  /\ IsOpen /\ inquiries[n] # None /\ LatestRequest(n)
  /\ template' = [state |-> "unavailable", of |-> None]
  /\ UNCHANGED <<place, saved, draft, noted, requested, inquiries, applied, composerLanding,
                 confirming, importing, composerRequest, signed, composerBounds>>

\* openReplacementReview.
OpenReview ==
  /\ IsOpen /\ creating = "none" /\ draft # None
  /\ reviewing \/ template.state = "offered"
  /\ confirming' = TRUE
  /\ UNCHANGED <<place, saved, draft, noted, composerTemplate, composerLanding, importing,
                 composerRequest, signed, composerBounds>>

\* keepSavedDraft: the landing's draft is dropped, or else the template's request.
KeepSavedDraft ==
  /\ IsOpen /\ confirming
  /\ confirming' = FALSE
  /\ IF reviewing
       THEN /\ reviewing' = FALSE /\ landing' = FALSE /\ handoff' = FALSE
            /\ UNCHANGED composerTemplate
       ELSE /\ template' = [state |-> "idle", of |-> None] /\ requested' = None
            /\ UNCHANGED <<inquiries, applied, composerLanding>>
  /\ UNCHANGED <<place, saved, draft, noted, importing, composerRequest, signed, composerBounds>>

\* replaceSavedDraft: a new draft, under a new key, and no intent.
ReplaceSavedDraft ==
  /\ IsOpen /\ confirming /\ creating = "none" /\ keys < MaxKeys
  /\ keys' = keys + 1 /\ confirming' = FALSE /\ intent' = None
  /\ Replaces(New(IF reviewing THEN Landed ELSE template.of))
  /\ applied' = IF reviewing THEN None ELSE template.of
  /\ template' = [template EXCEPT !.state = IF @ = "offered" THEN "available" ELSE @]
  /\ reviewing' = FALSE /\ landing' = (landing /\ ~reviewing) /\ handoff' = (handoff /\ ~reviewing)
  /\ UNCHANGED <<visit, place, requested, inquiries, importing, creating, posted, submitted, made,
                 signed, edits>>

---------------------------------------------------------------------------
(* The run.                                                                *)

\* finalizeWeb2JsonManifestDraft: a blank draft, or one of a URL alone, is refused.
Finalizes(d) == d.content \notin {0, Landed}

\* Fault: each submission sends the draft as it is.
DraftAsItIs == draft

\* An intent that was not answered is sent again as it was.
IntentToSend == IF intent # None THEN intent ELSE draft

\* createRunFromIntent.
Posts(what) ==
  /\ creating' = "asked"
  /\ posted' = posted \cup {[what |-> what, visit |-> visit]}
  /\ submitted' = submitted \cup {what}

\* submitManifest; without a token the user is asked to sign in.
SubmitManifest ==
  /\ IsOpen /\ draft # None /\ creating = "none"
  /\ intent # None \/ Finalizes(draft)
  /\ intent' = IntentToSend
  /\ IF signed THEN Posts(intent') ELSE UNCHANGED <<creating, posted, submitted>>
  /\ UNCHANGED <<place, saved, draft, noted, composerTemplate, composerLanding, confirming,
                 importing, made, signed, composerBounds>>

\* A token arrives: an intent that waits is sent.
SessionBegins ==
  /\ ~signed /\ signed' = TRUE
  /\ IF IsOpen /\ intent # None /\ creating = "none"
       THEN Posts(intent) ELSE UNCHANGED <<creating, posted, submitted>>
  /\ UNCHANGED <<place, saved, draft, noted, composerTemplate, composerLanding, confirming,
                 importing, intent, made, composerBounds>>

\* The session ends; with a landing draft undecided the page gives way to the gate.
SessionEnds ==
  /\ signed /\ ~(landing /\ IsOpen) /\ signed' = FALSE
  /\ UNCHANGED <<place, saved, draft, noted, composerTemplate, composerLanding, confirming,
                 importing, composerRequest, composerBounds>>

MineIs(p) == p.visit = visit /\ p.what = intent /\ creating = "asked"

\* createRun of the server: the first manifest of a key makes the run, its repetition
\* finds it, another is refused; any answer may be lost.
CreateRun(p) ==
  LET other == \E m \in made : m.key = p.what.key /\ m # p.what IN
  /\ p \in posted /\ posted' = posted \ {p}
  /\ made' = IF other THEN made ELSE made \cup {p.what}
  /\ creating' \in IF MineIs(p) THEN IF other THEN {"refused"} ELSE {"made", "refused"} ELSE {creating}
  /\ UNCHANGED <<place, saved, draft, noted, composerTemplate, composerLanding, confirming,
                 importing, intent, submitted, signed, composerBounds>>

RequestLost(p) ==
  /\ p \in posted /\ posted' = posted \ {p}
  /\ creating' = IF MineIs(p) THEN "refused" ELSE creating
  /\ UNCHANGED <<place, saved, draft, noted, composerTemplate, composerLanding, confirming,
                 importing, intent, submitted, made, signed, composerBounds>>

\* The run is there: the saved draft is cleared, if the storage allows it, and the
\* page of the run is shown.
RunCreated ==
  /\ IsOpen /\ creating = "made"
  /\ intent' = None /\ saved' \in {None, saved} /\ place' = "run" /\ draft' = None /\ importing' = 0
  /\ UNCHANGED <<noted, composerTemplate, composerLanding, confirming, creating, posted, submitted, made,
                 signed, composerBounds>>

\* Fault: the intent is dropped with the failure, and the saved draft with it.
KeptAfterFailure == <<None, None>>

AfterFailure == <<intent, saved>>

\* "Retry uses the same saved request identity."
CreateFails ==
  /\ IsOpen /\ creating = "refused"
  /\ creating' = "none"
  /\ intent' = AfterFailure[1] /\ saved' = AfterFailure[2]
  /\ UNCHANGED <<place, draft, noted, composerTemplate, composerLanding, confirming, importing,
                 posted, submitted, made, signed, composerBounds>>

ComposerNext ==
  \/ ContinueFromLanding \/ OpenComposer \/ OpenWithReplacement \/ CloseComposer
  \/ EditDraft \/ ImportManifest \/ ImportEnds \/ StartFresh
  \/ NavigateTemplate \/ OpenReview \/ KeepSavedDraft \/ ReplaceSavedDraft
  \/ \E n \in 1 .. MaxAsked : TemplateAnswered(n) \/ TemplateFails(n)
  \/ SubmitManifest \/ SessionBegins \/ SessionEnds \/ RunCreated \/ CreateFails
  \/ \E p \in posted : CreateRun(p) \/ RequestLost(p)

ComposerSpec == ComposerInit /\ [][ComposerNext]_composerVars

---------------------------------------------------------------------------
(* Properties.                                                             *)

\* While an intent has no run, what is sent is that intent, under its key, however
\* often the user submits, edits, imports and signs in again; only the confirmed
\* replacement of the draft drops it.
RetriesAreTheSame ==
  [][intent # None =>
       /\ intent' \in {intent, None} /\ submitted' \subseteq submitted \cup {intent}
       /\ intent' = None => place' # "open" \/ confirming]_composerVars

\* A draft gives way to a template's, or to the landing's, only when the user
\* confirmed it in the dialog.
DraftIsTheUsers ==
  [][draft # None /\ draft' # None /\ draft' # draft /\ draft'.content \notin 0 .. MaxEdits =>
       confirming \/ draft'.content = draft.content]_composerVars

\* A template that is offered is the one the location asks for.
OfferedAsRequested == IsOpen /\ template.state = "offered" => template.of = requested

\* The saved draft is removed only once the server has made a run of the page's intent.
SavedUntilMade ==
  [][saved \notin {None, Corrupt} /\ saved' = None => intent \in made]_composerVars

\* Unless the page says otherwise, the template's or the landing's draft that it shows
\* is in the storage.
SavedUnlessNoted ==
  IsOpen /\ ~noted /\ draft # None /\ draft.content \in Templates \cup {Landed} => saved = draft

\* What the composer promises.
ComposerPromise ==
  /\ []OfferedAsRequested /\ []SavedUnlessNoted
  /\ RetriesAreTheSame /\ DraftIsTheUsers /\ SavedUntilMade
=============================================================================
