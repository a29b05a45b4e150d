-------------------------------- MODULE Dataset --------------------------------
(***************************************************************************)
(* Packaging the results of the campaigns as a dataset                     *)
(* (research/evaluation/dataset/packager.py).  Everything is computed from *)
(* the results found at the start, and written file by file over what an   *)
(* earlier packaging left there; it may stop anywhere.  Campaigns go on    *)
(* while it runs and between two runs of it.                               *)
(*                                                                         *)
(* A checksum is what it is a checksum of.                                 *)
(***************************************************************************)
EXTENDS Integers, FiniteSets, Sequences

CONSTANTS
  Histories,         \* sequences of results, as campaigns may produce them
  TrainFamilies,     \* scenarios that are only trained on
  TestFamilies,      \* scenarios that are held out
  MaxPackagings,
  NoFile,
  Torn               \* what is in a file whose writing was interrupted

Artifacts == {"traces", "labels", "manifest", "readme", "train", "validation", "test"}

ASSUME FamiliesAssumption == TrainFamilies \cap TestFamilies = {}
\* A result is kept in a file that is named for its run, so ids differ.
ASSUME HistoriesAssumption ==
  /\ MaxPackagings \in Nat
  /\ \A h \in Histories :
       /\ Len(h) \in Nat /\ DOMAIN h = 1 .. Len(h)
       /\ \A i \in 1 .. Len(h) :
            h[i].label \in {0, 1} /\ h[i].repetition \in Nat /\ h[i].failed \in BOOLEAN
       /\ \A i, j \in 1 .. Len(h) : h[i].id = h[j].id => i = j
ASSUME FilesAssumption == NoFile # Torn

VARIABLES
  history,      \* the results in the order in which their runs end
  finished,     \* how many have ended
  written,      \* how many files of this packaging are written; -1: none is going on
  package,      \* what it will write
  packagings,   \* how many were begun
  files         \* the output directory

datasetVars == <<history, finished, written, package, packagings, files>>

-----------------------------------------------------------------------------
(* What is computed from the results *)

\* One row for each detection the result lists, whatever its phase was; the label is
\* that of the scenario.
TraceRow(r, k) ==
  [run |-> r.id, event |-> r.events[k], phase |-> "attack", label |-> r.label]

\* The rows of the first n results, each for a run and an event of it.
Traces(n) ==
  [e \in UNION {{i} \X DOMAIN history[i].events : i \in 1 .. n} |-> TraceRow(history[e[1]], e[2])]

\* The command line does not restore the phases, so none of its rows says when the
\* scenario was recovered from.
LabelRow(r) ==
  [run |-> r.id, family |-> r.family, repetition |-> r.repetition, label |-> r.label,
   compromised |-> r.detected]

Labels(n) == [i \in 1 .. n |-> LabelRow(history[i])]

\* The command line reads the files by name: that of a run that failed begins with a
\* letter, the others with their time.  index.json and what cannot be read are skipped.
ReadAfter(j, i) ==
  IF history[i].failed = history[j].failed THEN j > i ELSE history[j].failed

\* Faulty variant: the runs of a family as the files come.
ByFile(j, i) == ReadAfter(j, i)

\* The runs of a family by repetition, equal ones in the order of their files.
ByRepetition(j, i) ==
  \/ history[j].repetition > history[i].repetition
  \/ history[j].repetition = history[i].repetition /\ ReadAfter(j, i)

\* The runs of its family that come after run i.
Later(n, i) == {j \in 1 .. n : history[j].family = history[i].family /\ ByRepetition(j, i)}

\* The last repetition of a family that is held out is for the test, the one before
\* for validation; of a family that is not known all runs are for training.
Held(n, i) ==
  IF history[i].family \notin TestFamilies \/ Cardinality(Later(n, i)) > 1 THEN "train"
  ELSE IF Later(n, i) = {} THEN "test" ELSE "validation"

Split(n) ==
  [part \in {"train", "validation", "test"} |->
     {history[i].id : i \in {j \in 1 .. n : Held(n, j) = part}}]

Sum(file) == files[file]

\* What the manifest says of the files that are on disk when it is written.
ManifestNow(splits) ==
  [events |-> Cardinality(DOMAIN package.traces), scenarios |-> Len(package.labels), splits |-> splits,
   attacks |-> {package.labels[i].run : i \in {j \in DOMAIN package.labels :
                                                package.labels[j].label = 1}},
   tracesSum |-> Sum("traces"), labelsSum |-> Sum("labels")]

Package(n) == [traces |-> Traces(n), labels |-> Labels(n), splits |-> Split(n)]

-----------------------------------------------------------------------------
(* The files *)

\* The manifest before it is known what the labels are.
ManifestBeforeLabels ==
  <<"traces", "manifest", "labels", "readme", "train", "validation", "test">>

\* The order in which they are written.
Order == <<"traces", "labels", "manifest", "readme", "train", "validation", "test">>

Content(file) ==
  CASE file = "traces" -> package.traces
    [] file = "labels" -> package.labels
    [] file = "manifest" -> ManifestNow(package.splits)
    [] file = "readme" -> [of |-> files.manifest]
    [] OTHER -> [ids |-> package.splits[file]]

Unpackaged(h) ==
  /\ history = h
  /\ finished = 0
  /\ written = -1 /\ package = Package(0) /\ packagings = 0
  /\ files = [f \in Artifacts |-> NoFile]

DatasetInit == \E h \in Histories : Unpackaged(h)

\* A campaign saves one more result.
ResultSaved ==
  /\ finished < Len(history)
  /\ finished' = finished + 1
  /\ UNCHANGED <<history, written, package, packagings, files>>

\* What is read while it is still being written cannot be parsed, and is left out.
Read ==
  /\ written = -1 /\ packagings < MaxPackagings
  /\ written' = 0 /\ packagings' = packagings + 1
  /\ package' = Package(finished)
  /\ UNCHANGED <<history, finished, files>>

Write ==
  /\ written \in 0 .. Len(Order) - 1
  /\ LET file == Order[written + 1] IN files' = [files EXCEPT ![file] = Content(file)]
  /\ written' = IF written + 1 = Len(Order) THEN -1 ELSE written + 1
  /\ UNCHANGED <<history, finished, package, packagings>>

\* A row that does not fit the schema, a full disk or a signal ends it; the file that
\* was being written may have been begun.
Interrupted ==
  /\ written \in 0 .. Len(Order) - 1
  /\ files' \in {files, [files EXCEPT ![Order[written + 1]] = Torn]}
  /\ written' = -1
  /\ UNCHANGED <<history, finished, package, packagings>>

DatasetNext == ResultSaved \/ Read \/ Write \/ Interrupted

DatasetSpec == DatasetInit /\ [][DatasetNext]_datasetVars

-----------------------------------------------------------------------------
(* Properties *)

Whole(file) == files[file] \notin {NoFile, Torn}

\* A reader who finds both checksums of the manifest right.
Verified ==
  /\ \A file \in {"traces", "labels", "manifest"} : Whole(file)
  /\ files.manifest.tracesSum = files.traces /\ files.manifest.labelsSum = files.labels

Parts(manifest) ==
  manifest.splits.train \cup manifest.splits.validation \cup manifest.splits.test

\* A directory whose checksums are right is one dataset, however many packagings were
\* interrupted in it: its counts and splits are about the rows of its two tables, and
\* every event has the label of its run, which is not what the detector said of it.
VerifiedIsWhole ==
  Verified =>
    LET m == files.manifest
        rows == {files.labels[i] : i \in DOMAIN files.labels}
    IN /\ m.events = Cardinality(DOMAIN files.traces) /\ m.scenarios = Len(files.labels)
       /\ Parts(m) = {row.run : row \in rows}
       /\ \A i \in DOMAIN files.traces : \E row \in rows :
            row.run = files.traces[i].run /\ row.label = files.traces[i].label

\* The splits keep the repetitions of an attack apart in time: no run is in two of
\* them, what is held out was repeated no earlier than what is trained on, the test no
\* earlier than the validation, with at most one run of a family each.
HeldOutIsHeldOut ==
  Whole("manifest") =>
    LET s == files.manifest.splits
        Of(part, family) ==
          {i \in DOMAIN history : history[i].id \in s[part] /\ history[i].family = family}
    IN /\ s.train \cap s.validation = {} /\ (s.train \cup s.validation) \cap s.test = {}
       /\ Cardinality(Parts(files.manifest)) = files.manifest.scenarios
       /\ \A family \in {history[i].family : i \in DOMAIN history} :
            /\ family \notin TestFamilies => Of("validation", family) \cup Of("test", family) = {}
            /\ Cardinality(Of("validation", family)) \in 0 .. Cardinality(Of("test", family))
            /\ Cardinality(Of("test", family)) \in 0 .. 1
            /\ \A i \in Of("train", family), j \in Of("validation", family),
                  k \in Of("test", family) :
                 /\ history[i].repetition <= history[j].repetition
                 /\ history[j].repetition <= history[k].repetition
=============================================================================
