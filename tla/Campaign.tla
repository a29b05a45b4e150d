------------------------------- MODULE Campaign -------------------------------
(***************************************************************************)
(* One evaluation campaign (research/evaluation/scenarios and attacks):    *)
(* the selected scenarios are run one after the other, each some number of *)
(* times, against three services of a lab cluster.  A run intervenes in a  *)
(* service, watches what PHANTOM reports, and takes the intervention back; *)
(* its result is saved whatever happened.  Every kubectl call may fail,    *)
(* and may have taken effect although it failed.                           *)
(*                                                                         *)
(* Nobody else changes the services, and kubectl's own context is that of  *)
(* the campaign, so an intervention is one step with all the ways in which *)
(* it can end; time is counted from the injection.                         *)
(***************************************************************************)
EXTENDS Integers, FiniteSets, Sequences

CONSTANTS
  Scenarios,    \* the catalogue
  Manifest,     \* scenario -> [kind, service, label, sink]
  Services,
  Campaigns,    \* what the operator may ask for
  DetectionWindow,   \* of the manifests
  MaxPolls,     \* polls in the attack phase
  LastDelay,     \* of a detection
  Unknown       \* no value

Kinds == {"wheel", "mirror", "image", "process", "probe", "file", "update", "load", "restart"}

\* The benign controls, which are labelled 0 and send nothing to a sink.
Controlled == {"update", "load", "restart"}

ASSUME ManifestAssumption ==
  /\ Manifest \in [Scenarios -> [kind : Kinds, service : Services, label : {0, 1}, sink : STRING]]
  /\ \A s \in Scenarios :
       IF Manifest[s].kind \in Controlled THEN Manifest[s].label = 0 /\ Manifest[s].sink = ""
       ELSE Manifest[s].label = 1
ASSUME CampaignAssumption ==
  \A c \in Campaigns :
    c.plan \in Seq(Scenarios) /\ Len(c.plan) > 0 /\ c.repetitions \in Nat \ {0}
ASSUME BoundsAssumption ==
  /\ MaxPolls \in Nat
  /\ DetectionWindow \in Nat /\ LastDelay \in Nat
ASSUME UnknownAssumption == Unknown \notin BOOLEAN \cup Nat

VARIABLES
  campaign,   \* [plan, repetitions, execute, dryRun, context, namespace, cluster]
  step,         \* where the script is
  attempt,    \* number of the current run
  deployed,   \* service -> [image, note, pod]: what was put into a pod that still runs
  mirror,     \* the package mirror exists in the namespace
  memory,     \* scenario -> what its attack object remembers between runs
  outcome,    \* of the current run
  polls,      \* polls of the current run
  results,    \* results on disk, in order
  oracles,    \* attempts with an oracle receipt
  index       \* attempts that index.json names, or Unknown

campaignVars == <<campaign, step, attempt, deployed, mirror, memory, outcome, polls, results,
                  oracles, index>>

Clean == [s \in Services |-> [image |-> "clean", note |-> "absent", pod |-> {}]]
Attempts == Len(campaign.plan) * campaign.repetitions
Scenario == campaign.plan[(attempt - 1) \div campaign.repetitions + 1]
Kind == Manifest[Scenario].kind
Service == Manifest[Scenario].service
Labelled == Manifest[Scenario].label
Victim == deployed[Service]

\* ScenarioResult.
NewResult ==
  [scenario |-> Scenario, injected |-> Unknown, verified |-> Unknown, failed |-> FALSE,
   first |-> Unknown, seen |-> {}, recovered |-> Unknown]

Ordered(c) ==
  /\ campaign = c
  /\ step = "preflight" /\ attempt = 1
  /\ deployed = Clean /\ mirror = FALSE
  /\ memory = [s \in Scenarios |-> [image |-> Unknown, note |-> Unknown, mirror |-> FALSE]]
  /\ outcome = NewResult /\ polls = 0
  /\ results = <<>> /\ oracles = {} /\ index = Unknown

CampaignInit == \E c \in Campaigns : Ordered(c)

-----------------------------------------------------------------------------
(* The safety preflight *)

\* main: live only if --execute was given and --dry-run was not.
Live == campaign.execute /\ ~campaign.dryRun

PermissionGiven(live, allowed) == live => allowed
NamespaceAllowed == campaign.namespace = "phantom-eval"
ServiceAllowed(s) == Manifest[s].service \in Services

\* Controls have no sink; in live mode only the sinks inside the cluster count, at
\* the port of the scenario.
SinkAllowed(s, live) ==
  \/ Manifest[s].sink = ""
  \/ Manifest[s].sink \in IF live THEN {"own port"} ELSE {"own port", "other port", "loopback"}

\* A context whose name contains a word such as "prod" is refused in any mode; a
\* live run needs one that is known to be disposable.
ContextAllowed(live) ==
  IF campaign.context = Unknown THEN ~live
  ELSE /\ campaign.context # "production"
       /\ live => campaign.context = "disposable"

\* The API server is one of a lab, not of a cloud provider; it answers; all nodes
\* run a recent Linux; the sink is an internal service with all its ports.
LabServer == campaign.cluster.server = "lab"
NodesFit == campaign.cluster.nodes # {} /\ campaign.cluster.nodes \subseteq {"linux 5.15"}
SinkReady == campaign.cluster.namespace = "Active" /\ campaign.cluster.sink = "ClusterIP"
ClusterReady == LabServer /\ campaign.cluster.answers /\ NodesFit /\ SinkReady

Validates(s, live) ==
  /\ PermissionGiven(live, Live)
  /\ NamespaceAllowed /\ ServiceAllowed(s) /\ SinkAllowed(s, live) /\ ContextAllowed(live)
  /\ live => ClusterReady

Selected == {campaign.plan[i] : i \in DOMAIN campaign.plan}

SafetyPreflight ==
  /\ step = "preflight"
  /\ step' = IF ~\A s \in Selected : Validates(s, Live) THEN "refused"
              ELSE IF ~Live THEN "planned" ELSE "discover"
  /\ UNCHANGED <<campaign, attempt, deployed, mirror, memory, outcome, polls, results, oracles, index>>

\* A probe of the cluster fails.
PreflightFails ==
  /\ step = "preflight" /\ Live
  /\ step' = "refused"
  /\ UNCHANGED <<campaign, attempt, deployed, mirror, memory, outcome, polls, results, oracles, index>>

-----------------------------------------------------------------------------
(* One run *)

\* _get_pod_name, then run_scenario with its own preflight and the baseline phase.
Begin ==
  /\ step = "discover" /\ Validates(Scenario, Live)
  /\ step' = "inject" /\ outcome' = NewResult /\ polls' = 0
  /\ UNCHANGED <<campaign, attempt, deployed, mirror, memory, results, oracles, index>>

\* A run without a running pod is skipped.
SkipRun ==
  /\ step = "discover" /\ attempt < Attempts
  /\ attempt' = attempt + 1
  /\ UNCHANGED <<campaign, step, deployed, mirror, memory, outcome, polls, results, oracles, index>>

\* No running pod: the run is recorded as one whose injection failed.
NoPod ==
  /\ step = "discover"
  /\ step' = "save" /\ outcome' = [NewResult EXCEPT !.injected = FALSE, !.failed = TRUE]
  /\ UNCHANGED <<campaign, attempt, deployed, mirror, memory, polls, results, oracles, index>>

\* run_scenario raises, in its preflight, in verify_injection, or at an answer of the
\* API that cannot be read: a new result takes the place of the one that was filled in,
\* and what was not taken back by then is not.
Raises ==
  /\ step \in {"discover", "verify", "observe", "post"}
  /\ step' = "save" /\ outcome' = [NewResult EXCEPT !.failed = TRUE]
  /\ UNCHANGED <<campaign, attempt, deployed, mirror, memory, polls, results, oracles, index>>

\* kubectl does not return in time: no handler of the script catches that.
Aborts ==
  /\ step \in {"discover", "save", "receipt"}
  /\ step' = "stopped"
  /\ UNCHANGED <<campaign, attempt, deployed, mirror, memory, outcome, polls, results, oracles, index>>

Became(state) == deployed' = [deployed EXCEPT ![Service] = state]
Remembers(what) == memory' = [memory EXCEPT ![Scenario] = what]

\* What happens after inject() returned TRUE or FALSE, or raised.
Injected(ok) ==
  /\ step' = IF ok THEN "verify" ELSE "save"
  /\ outcome' = [outcome EXCEPT !.injected = ok, !.failed = ~ok]

\* What each step of inject() leaves in the pod.
Residue ==
  [wheel |-> <<"wheel", "package", "beacon">>, mirror |-> <<"package", "beacon">>,
   process |-> <<"script", "process">>, probe |-> <<"probe script", "probe">>,
   file |-> <<"file">>, load |-> <<>>]
Leaves(kind, n) == {Residue[kind][i] : i \in 1 .. n}

\* The first n steps took effect; only if all did may inject() succeed.
IntoPod(n) ==
  /\ Became([Victim EXCEPT !.pod = @ \cup Leaves(Kind, n)])
  /\ \E ok \in BOOLEAN : Injected(ok) /\ (ok => n = Len(Residue[Kind]))

InjectWheel ==
  /\ Kind = "wheel" /\ \E n \in 0 .. 3 : IntoPod(n)
  /\ UNCHANGED <<mirror, memory>>

InjectProcess ==
  /\ Kind = "process" /\ \E n \in 0 .. 2 : IntoPod(n)
  /\ UNCHANGED <<mirror, memory>>

InjectProbe ==
  /\ Kind = "probe" /\ \E n \in 0 .. 2 : IntoPod(n)
  /\ UNCHANGED <<mirror, memory>>

InjectFile ==
  /\ Kind = "file" /\ \E n \in 0 .. 1 : IntoPod(n)
  /\ UNCHANGED <<mirror, memory>>

InjectLoad ==
  /\ Kind = "load" /\ IntoPod(0)
  /\ UNCHANGED <<mirror, memory>>

\* kubectl apply fails, or has only seemed to: that the mirror is there is not noted.
MirrorFails ==
  /\ \E there \in {mirror, TRUE} : mirror' = there
  /\ Injected(FALSE) /\ UNCHANGED <<deployed, memory>>

\* It is noted before anything waits for the mirror's pod or puts the package there.
MirrorDeployed == mirror' = TRUE /\ Remembers([memory[Scenario] EXCEPT !.mirror = TRUE])

InjectMirror ==
  /\ Kind = "mirror"
  /\ \/ MirrorFails
     \/ MirrorDeployed /\ \E n \in 0 .. 2 : IntoPod(n)

\* What runs in the pods of an image, and in those of a service whose rollout may not
\* have ended: old pods run on until the new ones are ready.
FromImage(image) == IF image = "attack" THEN {"process"} ELSE {}
Rolling(image) == {FromImage(image), Victim.pod, Victim.pod \cup FromImage(image)}

\* The image of the deployment is noted, then replaced.  If that fails nothing is set
\* back; if the rollout fails the image is, if that works.
InjectImage ==
  /\ Kind = "image"
  /\ \/ UNCHANGED <<deployed, memory>> /\ Injected(FALSE)
     \/ /\ Remembers([memory[Scenario] EXCEPT !.image = Victim.image])
        /\ \/ Became([Victim EXCEPT !.image = "attack", !.pod = FromImage("attack")])
              /\ Injected(TRUE)
           \/ \E image \in {"attack", Victim.image}, pods \in Rolling("attack") \cup Rolling(Victim.image) :
                Became([Victim EXCEPT !.image = image, !.pod = pods]) /\ Injected(FALSE)
  /\ UNCHANGED mirror

\* What runs when the rollout of an annotation has ended; none replaces no pod.
Annotated(note) == {FromImage(Victim.image)} \cup IF note = Victim.note THEN {Victim.pod} ELSE {}

\* The same with an annotation, which is not set back.
InjectUpdate ==
  /\ Kind = "update"
  /\ \/ UNCHANGED <<deployed, memory>> /\ Injected(FALSE)
     \/ /\ Remembers([memory[Scenario] EXCEPT !.note = Victim.note])
        /\ \/ UNCHANGED deployed /\ Injected(FALSE)
           \/ \E ok \in BOOLEAN :
              \E pods \in IF ok THEN Annotated("token") ELSE Rolling(Victim.image) :
                Became([Victim EXCEPT !.note = "token", !.pod = pods]) /\ Injected(ok)
  /\ UNCHANGED mirror

InjectRestart ==
  /\ Kind = "restart"
  /\ \/ Became([Victim EXCEPT !.pod = FromImage(Victim.image)]) /\ \E ok \in BOOLEAN : Injected(ok)
     \/ UNCHANGED deployed /\ Injected(FALSE)
  /\ UNCHANGED <<mirror, memory>>

Inject ==
  /\ step = "inject"
  /\ \/ InjectWheel \/ InjectMirror \/ InjectImage \/ InjectProcess \/ InjectProbe
     \/ InjectFile \/ InjectUpdate \/ InjectLoad \/ InjectRestart
  /\ UNCHANGED <<campaign, attempt, polls, results, oracles, index>>

\* What verify_injection looks for.
WheelIsThere == {"package", "beacon"} \subseteq Victim.pod
PackageIsThere == "package" \in Victim.pod
FileIsThere == "file" \in Victim.pod
ProcessIsThere == "process" \in Victim.pod
ProbeIsThere == "probe" \in Victim.pod
WorkerIsThere == "process" \in Victim.pod
NoteIsThere == Victim.note = "token"

Visible ==
  CASE Kind = "wheel" -> WheelIsThere
    [] Kind = "mirror" -> PackageIsThere
    [] Kind = "file" -> FileIsThere
    [] Kind = "process" -> ProcessIsThere
    [] Kind = "probe" -> ProbeIsThere
    [] Kind = "image" -> WorkerIsThere
    [] Kind = "update" -> NoteIsThere
    [] OTHER -> TRUE

\* A run whose intervention is not confirmed goes on, as one that failed.
Verify ==
  /\ step = "verify"
  /\ step' = "observe"
  /\ \E ok \in BOOLEAN :
       /\ ok => Visible
       /\ outcome' = [outcome EXCEPT !.verified = ok, !.failed = ~ok]
  /\ UNCHANGED <<campaign, attempt, deployed, mirror, memory, polls, results, oracles, index>>

-----------------------------------------------------------------------------
(* The attack phase *)

\* The detections in the window come in the order in which they were observed, and
\* each is taken for the first.
LastOf(times) == CHOOSE t \in times : \A u \in times : u <= t

InWindow(times) == {t \in times : t <= DetectionWindow}
Counts(times) == IF Labelled = 1 THEN InWindow(times) ELSE {}

\* Every poll asks for all detections since the injection, of whatever pod.
Poll ==
  /\ step = "observe" /\ polls < MaxPolls
  /\ polls' = polls + 1
  /\ \E times \in SUBSET (0 .. LastDelay) :
       /\ outcome.seen \subseteq times
       /\ outcome' = [outcome EXCEPT !.seen = times,
                             !.first = IF @ = Unknown /\ Counts(times) # {}
                                       THEN LastOf(Counts(times)) ELSE @]
  /\ UNCHANGED <<campaign, step, attempt, deployed, mirror, memory, results, oracles, index>>

\* A poll that fails returns nothing.
PollFails ==
  /\ step = "observe" /\ polls < MaxPolls
  /\ polls' = polls + 1
  /\ UNCHANGED <<campaign, step, attempt, deployed, mirror, memory, outcome, results, oracles, index>>

EndOfPhase ==
  /\ step = "observe" /\ polls = MaxPolls
  /\ step' = "recover"
  /\ UNCHANGED <<campaign, attempt, deployed, mirror, memory, outcome, polls, results, oracles, index>>

-----------------------------------------------------------------------------
(* Recovery *)

\* recover() returned, or raised, which counts as FALSE; nothing of it is an error.
Recovered(ok) == step' = "post" /\ outcome' = [outcome EXCEPT !.recovered = ok]

\* The pod is deleted and comes back from its image.
RecoverWheel ==
  /\ Kind = "wheel"
  /\ \/ Became([Victim EXCEPT !.pod = FromImage(Victim.image)])
        /\ \E ok \in BOOLEAN : Recovered(ok)
     \/ UNCHANGED deployed /\ Recovered(FALSE)
  /\ UNCHANGED <<mirror, memory>>

\* What fails in the pod is only logged.  The mirror is deleted if it was noted.
RecoverMirror ==
  /\ Kind = "mirror"
  /\ \E removed \in SUBSET {"package", "beacon"} : Became([Victim EXCEPT !.pod = @ \ removed])
  /\ \/ memory[Scenario].mirror /\ mirror' = FALSE
        /\ Remembers([memory[Scenario] EXCEPT !.mirror = FALSE]) /\ Recovered(TRUE)
     \/ memory[Scenario].mirror /\ Recovered(FALSE)
        /\ (\E there \in {mirror, FALSE} : mirror' = there) /\ UNCHANGED memory

\* The process may survive; the script may not.
RecoverProcess ==
  /\ Kind = "process"
  /\ \E removed \in SUBSET {"script", "process"} :
       /\ Became([Victim EXCEPT !.pod = @ \ removed])
       /\ \E ok \in BOOLEAN : Recovered(ok) /\ (ok => "script" \in removed)
  /\ UNCHANGED <<mirror, memory>>

RecoverProbe ==
  /\ Kind = "probe"
  /\ \E removed \in SUBSET {"probe script", "probe"} :
       /\ Became([Victim EXCEPT !.pod = @ \ removed])
       /\ \E ok \in BOOLEAN : Recovered(ok) /\ (ok => "probe script" \in removed)
  /\ UNCHANGED <<mirror, memory>>

RecoverFile ==
  /\ Kind = "file"
  /\ \/ Became([Victim EXCEPT !.pod = @ \ {"file"}]) /\ \E ok \in BOOLEAN : Recovered(ok)
     \/ UNCHANGED deployed /\ Recovered(FALSE)
  /\ UNCHANGED <<mirror, memory>>

\* What recover() leaves if the image that was noted is set: that its rollout fails is
\* only logged.
ImageIsSet(ok) ==
  /\ \E pods \in Rolling(memory[Scenario].image) :
       Became([Victim EXCEPT !.image = memory[Scenario].image, !.pod = pods])
  /\ Recovered(ok)

\* Faulty variant: it is not looked at whether the image could be set.
RecoverImageUnchecked ==
  /\ Kind = "image"
  /\ ImageIsSet(TRUE) \/ (UNCHANGED deployed /\ Recovered(TRUE))
  /\ UNCHANGED <<mirror, memory>>

RecoverImage ==
  /\ Kind = "image"
  /\ \/ \E ok \in BOOLEAN : ImageIsSet(ok)
     \/ UNCHANGED deployed /\ Recovered(FALSE)
  /\ UNCHANGED <<mirror, memory>>

\* Of the annotation, the end of the rollout counts.
RecoverUpdate ==
  /\ Kind = "update"
  /\ \/ \E ok \in BOOLEAN :
        \E pods \in IF ok THEN Annotated(memory[Scenario].note) ELSE Rolling(Victim.image) :
          Became([Victim EXCEPT !.note = memory[Scenario].note, !.pod = pods]) /\ Recovered(ok)
     \/ UNCHANGED deployed /\ Recovered(FALSE)
  /\ UNCHANGED <<mirror, memory>>

RecoverNothing ==
  /\ Kind \in {"load", "restart"} /\ Recovered(TRUE)
  /\ UNCHANGED <<deployed, mirror, memory>>

Recover ==
  /\ step = "recover"
  /\ \/ RecoverWheel \/ RecoverMirror \/ RecoverProcess \/ RecoverProbe \/ RecoverFile
     \/ RecoverImage \/ RecoverUpdate \/ RecoverNothing
  /\ UNCHANGED <<campaign, attempt, polls, results, oracles, index>>

\* The last phase asks for the detections since its own beginning: there are none.
PostRecovery ==
  /\ step = "post"
  /\ step' = "save"
  /\ UNCHANGED <<campaign, attempt, deployed, mirror, memory, outcome, polls, results, oracles, index>>

-----------------------------------------------------------------------------
(* What is kept of it *)

SaveResult ==
  /\ step = "save"
  /\ step' = "receipt" /\ results' = Append(results, outcome)
  /\ UNCHANGED <<campaign, attempt, deployed, mirror, memory, outcome, polls, oracles, index>>

\* The next run begins with what the last one left in the cluster.
PersistReceipt ==
  /\ step = "receipt"
  /\ oracles' = oracles \cup {attempt}
  /\ IF attempt < Attempts
     THEN step' = "discover" /\ attempt' = attempt + 1
     ELSE step' = "index" /\ UNCHANGED attempt
  /\ UNCHANGED <<campaign, deployed, mirror, memory, outcome, polls, results, index>>

WriteIndex ==
  /\ step = "index"
  /\ step' = "done" /\ index' = DOMAIN results
  /\ UNCHANGED <<campaign, attempt, deployed, mirror, memory, outcome, polls, results, oracles>>

CampaignNext ==
  \/ SafetyPreflight \/ PreflightFails \/ Begin \/ NoPod \/ Raises \/ Aborts
  \/ Inject \/ Verify \/ Poll \/ PollFails \/ EndOfPhase \/ Recover
  \/ PostRecovery \/ SaveResult \/ PersistReceipt \/ WriteIndex

CampaignSpec == CampaignInit /\ [][CampaignNext]_campaignVars

-----------------------------------------------------------------------------
(* Properties *)

\* What may run on although recover() answers TRUE: three kinds swallow the failure of
\* a command inside the pod, one the failure of a rollout.
Swallowed ==
  [mirror |-> {"package", "beacon"}, process |-> {"process"}, probe |-> {"probe"},
   image |-> {"process"}]
LeftBy(s) ==
  LET kind == Manifest[s].kind IN IF kind \in DOMAIN Swallowed THEN Swallowed[kind] ELSE {}

\* What the results so far may have left in a service.
Tolerated(s) ==
  UNION {LeftBy(results[i].scenario) :
           i \in {j \in DOMAIN results : Manifest[results[j].scenario].service = s}}

\* What is left in the cluster can be told from the results: when every run so far
\* says that it injected and recovered, the next one starts without a mirror, from
\* clean images and annotations, although these are restored from what an attack
\* object noted before it changed them; and what still runs in a pod is what
\* recover() does not look at, of a scenario that was run against that service.
ResidueIsReported ==
  /\ step = "discover"
  /\ \A i \in DOMAIN results : results[i].injected = TRUE /\ results[i].recovered = TRUE
  => /\ ~mirror
     /\ \A s \in Services :
          /\ deployed[s].image = "clean" /\ deployed[s].note = "absent"
          /\ deployed[s].pod \subseteq Tolerated(s)

\* "3. Wait for Pod ready and verify worker gone." and "True if recovery succeeded."
\* (solarwinds_style.py:425, 432).  Violated: the rollout is waited for, but neither its
\* failure nor the worker changes the answer.
RecoveredWorkerIsGone ==
  step = "post" /\ Kind = "image" /\ outcome.recovered = TRUE => Victim.pod = {}

\* index.json exists only for a campaign all of whose runs are on disk with their
\* receipts, also those that had no pod, raised or could not be injected; a true
\* positive among them is an attack that was in place, detected within its window.
IndexIsComplete ==
  /\ index # Unknown => index = 1 .. Attempts /\ oracles = index
  /\ oracles \subseteq DOMAIN results
  /\ \A i \in DOMAIN results :
       /\ results[i].scenario = campaign.plan[(i - 1) \div campaign.repetitions + 1]
       /\ results[i].first # Unknown =>
            /\ Manifest[results[i].scenario].label = 1 /\ results[i].injected = TRUE
            /\ results[i].first \in results[i].seen /\ results[i].first <= DetectionWindow

\* "First detection timestamp after injection defines t_detection."
\* (scenario_runner.py:31).  Violated: of the detections of one poll the last one in
\* the window is taken.
FirstDetectionCounts ==
  outcome.first # Unknown => \A t \in outcome.seen : outcome.first <= t
=============================================================================
