---------------------------- MODULE DemoRecording ----------------------------
(***************************************************************************)
(* The recording of the demonstration.  A checkout of some release builds   *)
(* it from the proof bundles of two persisted runs; an operator imports the *)
(* file with the release that is deployed, which rebuilds it bit by bit     *)
(* before a row is inserted; a server that starts loads the row its         *)
(* environment selects, replays it and serves it until it stops.            *)
(*                                                                          *)
(* A digest is the value it is of.  What a release does differently is      *)
(* which safe consumer it generates and which sources it compiles.          *)
(***************************************************************************)
EXTENDS Nothing, Naturals, FiniteSets

CONSTANTS
  Releases,    \* Releases, in their order: 1 .. n.
  Codegen,     \* [Releases -> version of the generated consumer]
  Sources,     \* [Releases -> version of what is compiled and executed]
  RunBundle,   \* [run -> [run, url, gen, once]]: the bundle a persisted run exports;
               \* url: the release whose file the run asked for, None for the control's host;
               \* once: the journal ends with the consumer's verdict after one submission.
  Imports,     \* Runs of the import script.
  MaxRecorded, \* Bound: recordings made.
  MaxStartups  \* Bound: starts of the server.

ASSUME DemoAssumption ==
  /\ {MaxRecorded, MaxStartups} \subseteq Nat
  /\ Releases \subseteq Nat /\ Releases = 1 .. Cardinality(Releases) /\ 1 \in Releases
  /\ \A run \in DOMAIN RunBundle : RunBundle[run].run = run

VARIABLES
  recorded, \* What can be read at the path of the recording: None or a recording.
  made,     \* How many were recorded; the number is the time it was recorded at.
  deployed, \* The release deployed.
  table,    \* The imported rows: [recording, by (the release that rebuilt it)].
  import,   \* Imports: [at, expected, bytes, by, reported].
  demo      \* The server: [selected, release, served, starts].

demoVars == <<recorded, made, deployed, table, import, demo>>

DemoInit ==
  /\ recorded = None /\ made = 0 /\ deployed = 1 /\ table = {}
  /\ import = [i \in Imports |-> [at |-> "idle", expected |-> None, bytes |-> None, by |-> 0, reported |-> None]]
  /\ demo = [selected |-> None, release |-> 0, served |-> None, starts |-> 0]

(***************************************************************************)
(* Bundles and recordings, as a release sees them.                         *)
(***************************************************************************)

\* replayProofBundle: the release generates the consumer whose digest the bundle has.
Replays(r, bundle) == bundle.gen = Codegen[r]

\* Fault: any two bundles will do.
TwoBundles(attack, control, commit) == TRUE

\* assertProductionDemoAuthority: the attack asked for the file of the release, the
\* control asked the host that is meant.
FitsDemo(attack, control, commit) == attack.url = commit /\ control.url = None

\* What the compiler and the virtual machine make of the sources of r.
Compiled(r) == Sources[r]

Built(r, attack, control, commit, at) ==
  [attack |-> attack, control |-> control, commit |-> commit, recordedAt |-> at, compiled |-> Compiled(r)]

\* replayCanonicalUrlAttackRecording: two runs that concluded, of different hosts.
Consistent(r, rec) ==
  /\ \A bundle \in {rec.attack, rec.control} : Replays(r, bundle) /\ bundle.once
  /\ rec.attack.run # rec.control.run
  /\ (rec.attack.url = None) # (rec.control.url = None)

Builds(r, rec) == Consistent(r, rec) /\ FitsDemo(rec.attack, rec.control, rec.commit)

\* Fault: what was compiled and executed elsewhere is believed.
BelievesRecorder(r, rec) == Consistent(r, rec)

\* verifyCanonicalUrlAttackRecording: rebuilt from its own bundles, byte for byte.
Rebuilds(r, rec) ==
  Builds(r, rec) /\ rec = Built(r, rec.attack, rec.control, rec.commit, rec.recordedAt)

(***************************************************************************)
(* Recording, and the file.                                                *)
(***************************************************************************)

Records ==
  /\ made < MaxRecorded
  /\ \E r \in Releases : \E commit \in Releases : \E a, c \in DOMAIN RunBundle :
       LET rec == Built(r, RunBundle[a], RunBundle[c], commit, made) IN
         Builds(r, rec) /\ recorded' = rec
  /\ made' = made + 1
  /\ UNCHANGED <<deployed, table, import, demo>>

\* Removed, damaged, or with another owner or mode: refused alike.
FileIsLost ==
  /\ recorded # None /\ recorded' = None
  /\ UNCHANGED <<made, deployed, table, import, demo>>

(***************************************************************************)
(* The import: a script on the host, and the importer in its container.    *)
(***************************************************************************)

\* The environment selects the recording, and the file has that digest.
LooksAtFile(i) ==
  /\ import[i].at = "idle" /\ recorded # None /\ demo.selected = recorded
  /\ import' = [import EXCEPT ![i].at = "inspected", ![i].expected = recorded]
  /\ UNCHANGED <<recorded, made, deployed, table, demo>>

\* The importer reads the path anew, once, and verifies what it read.
ReadsFile(i) ==
  /\ import[i].at = "inspected" /\ recorded # None
  /\ Rebuilds(deployed, recorded)
  /\ import' = [import EXCEPT ![i].at = "verified", ![i].bytes = recorded, ![i].by = deployed]
  /\ UNCHANGED <<recorded, made, deployed, table, demo>>

\* Under the lock: inserted unless it is there, read again, compared, committed.
Inserts(i) ==
  /\ import[i].at = "verified"
  /\ table' = IF \E entry \in table : entry.recording = import[i].bytes THEN table
              ELSE table \cup {[recording |-> import[i].bytes, by |-> import[i].by]}
  /\ import' = [import EXCEPT ![i].at = "committed", ![i].reported = import[i].bytes]
  /\ UNCHANGED <<recorded, made, deployed, demo>>

\* Fault: the script is content with any recording.
AnyReport(i) == import[i].reported # None

ReportsExpected(i) == import[i].reported = import[i].expected

ImportEnds(i) ==
  /\ import[i].at = "committed"
  /\ import' = [import EXCEPT ![i].at = IF ReportsExpected(i) THEN "imported" ELSE "failed"]
  /\ UNCHANGED <<recorded, made, deployed, table, demo>>

\* Refused, rolled back, killed: after the commit only the script does not know.
ImportFails(i) ==
  /\ import[i].at \in {"inspected", "verified", "committed"}
  /\ import' = [import EXCEPT ![i].at = "failed"]
  /\ UNCHANGED <<recorded, made, deployed, table, demo>>

(***************************************************************************)
(* The server.                                                             *)
(***************************************************************************)

\* Fault: a row is served because it is there.
LoadsAnyRow(r, rec) == \E entry \in table : entry.recording = rec

\* loadCanonicalUrlAttackDemoCache: a row of that digest, replayed.
Loads(r, rec) == (\E entry \in table : entry.recording = rec) /\ Consistent(r, rec)

\* Nothing to serve is no reason not to start.
DemoStarts ==
  /\ demo.starts < MaxStartups
  /\ LET rec == demo.selected IN
       demo' = [demo EXCEPT !.starts = @ + 1, !.release = deployed,
                            !.served = IF rec # None /\ Loads(deployed, rec) THEN rec ELSE None]
  /\ UNCHANGED <<recorded, made, deployed, table, import>>

\* The environment of the next start.
Selects ==
  /\ recorded # None /\ demo.selected # recorded
  /\ demo' = [demo EXCEPT !.selected = recorded]
  /\ UNCHANGED <<recorded, made, deployed, table, import>>

Deploys ==
  /\ deployed + 1 \in Releases /\ deployed' = deployed + 1
  /\ UNCHANGED <<recorded, made, table, import, demo>>

ImportStep(i) ==
  LooksAtFile(i) \/ ReadsFile(i) \/ Inserts(i) \/ ImportEnds(i) \/ ImportFails(i)

DemoNext ==
  \/ Records \/ FileIsLost \/ DemoStarts \/ Selects \/ Deploys
  \/ \E i \in Imports : ImportStep(i)

DemoSpec == DemoInit /\ [][DemoNext]_demoVars

(***************************************************************************)
(* Properties.                                                             *)
(***************************************************************************)

\* The state is of its types.
DemoTypeOK ==
  /\ made \in 0 .. MaxRecorded /\ deployed \in Releases
  /\ \A entry \in table : entry.by \in Releases /\ entry.recording.commit \in Releases
  /\ \A i \in Imports :
       import[i].at \in {"idle", "inspected", "verified", "committed", "imported", "failed"}
  /\ demo.starts \in 0 .. MaxStartups /\ demo.release \in Releases \cup {0}

\* What is served was executed anew by the release that imported it, from an attack on
\* the very release it names and another run, and the release that serves it would
\* generate the consumers it shows.
ServedIsRebuilt ==
  demo.served # None =>
    /\ \E entry \in table : entry.recording = demo.served /\ demo.served.compiled = Sources[entry.by]
    /\ demo.served.attack.run # demo.served.control.run
    /\ demo.served.attack.url = demo.served.commit
    /\ {demo.served.attack.gen, demo.served.control.gen} = {Codegen[demo.release]}

\* A script that says so has imported what the environment selected when it began,
\* whatever became of the file in between; one row of each recording.
ImportedIsExpected ==
  /\ \A i \in Imports : import[i].at = "imported" =>
       \E entry \in table : entry.recording = import[i].expected
  /\ \A entry, other \in table : entry.recording = other.recording => entry = other

\* Through files that change, imports that race or die, and releases that follow one
\* another: the recording that is served, or said to be imported, is the one meant.
DemoPromise == ServedIsRebuilt /\ ImportedIsExpected
=============================================================================
