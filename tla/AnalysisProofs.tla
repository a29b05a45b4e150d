---------------------------- MODULE AnalysisProofs ----------------------------
(***************************************************************************)
(* Safety of what is done with the evidence: the behavioural dependency    *)
(* graph, the causal analysis, the NVD client, and the scripts that run an *)
(* evaluation campaign, pack its runs and compare the detectors.           *)
(*                                                                         *)
(* No two of them share state.  Of each the invariant says where a         *)
(* procedure stands: what it has read or written so far is what it should  *)
(* be of the inputs that are behind it, whatever the inputs are.  That of  *)
(* the graph says, item by item, what the events applied so far make of    *)
(* it.                                                                     *)
(***************************************************************************)
EXTENDS BehaviorGraph, Evaluation, Dataset, NvdCache, CausalAnalysis, Campaign, FiniteSetTheorems, TLAPS

-----------------------------------------------------------------------------
(* Facts about numbers *)

LEMMA Quotient ==
  ASSUME NEW a \in Nat, NEW r \in Nat \ {0}
  PROVE  a \div r \in Int /\ r * (a \div r) <= a /\ a < r * (a \div r) + r
BY SMT

LEMMA Product ==
  ASSUME NEW n \in Nat \ {0}, NEW r \in Nat \ {0}
  PROVE  n * r \in Nat \ {0}
BY SMT

LEMMA SmallerFactor ==
  ASSUME NEW q \in Int, NEW n \in Nat, NEW r \in Nat \ {0}, r * q < n * r
  PROVE  q < n
BY SMT

LEMMA NoNegativeFactor ==
  ASSUME NEW q \in Int, NEW r \in Nat \ {0}, NEW a \in Nat, a < r * q + r
  PROVE  q >= 0
BY SMT

\* The run number a of n times r runs belongs to one of the n scenarios.
LEMMA QuotientInRange ==
  ASSUME NEW n \in Nat \ {0}, NEW r \in Nat \ {0}, NEW a \in 1 .. n * r
  PROVE  (a - 1) \div r + 1 \in 1 .. n
<1> DEFINE q == (a - 1) \div r
<1>1. n * r \in Nat \ {0}
  BY Product
<1>2. a - 1 \in Nat /\ a - 1 < n * r
  BY <1>1
<1>3. q \in Int /\ r * q <= a - 1 /\ a - 1 < r * q + r
  BY <1>2, Quotient
<1>4. r * q \in Int
  BY <1>3
<1> HIDE DEF q
<1>5. q >= 0
  BY <1>2, <1>3, NoNegativeFactor
<1>6. r * q < n * r
  BY <1>1, <1>2, <1>3, <1>4
<1>7. q < n
  BY <1>3, <1>6, SmallerFactor
<1>8. q + 1 \in 1 .. n
  BY <1>3, <1>5, <1>7
<1>9. QED
  BY <1>8 DEF q

\* A set of numbers with an upper bound has a greatest one: the distance to the
\* bound has a least value.
LEMMA GreatestExists ==
  ASSUME NEW N \in Nat, NEW S \in SUBSET (0 .. N), S # {}
  PROVE  \E t \in S : \A u \in S : u <= t
<1> DEFINE T == {N - t : t \in S}
<1>1. \A t \in S : t \in Int /\ t <= N /\ N - t \in Nat
  OBVIOUS
<1>2. T \subseteq Nat /\ T # {}
  BY <1>1
<1>3. PICK m \in T : \A y \in T : ~ (<<y, m>> \in OpToRel(<, Nat))
  BY ONLY <1>2, WFMin, NatLessThanWellFounded
<1>4. \A y \in T : ~ (y < m)
  BY <1>2, <1>3 DEF OpToRel
<1>5. PICK t \in S : m = N - t
  OBVIOUS
<1>6. ASSUME NEW u \in S
      PROVE  u <= t
  <2>1. N - u \in T
    OBVIOUS
  <2>2. ~ (N - u < N - t)
    BY <1>4, <1>5, <2>1
  <2>3. QED
    BY <1>1, <2>2
<1>7. QED
  BY <1>6

-----------------------------------------------------------------------------
(* The parts of the campaign's invariant *)

Flags == {TRUE, FALSE, Unknown}
DelaysSeen == 0 .. LastDelay

ScenarioResults ==
  [scenario : Scenarios, injected : Flags, verified : Flags, failed : BOOLEAN,
   first : {Unknown} \cup DelaysSeen, seen : SUBSET DelaysSeen, recovered : Flags]

\* Where the script is before, in and after a run.
Before == {"preflight", "refused", "planned", "discover"}
Running == {"inject", "verify", "observe", "recover", "post", "save"}
After == {"index", "done"}

CampaignTyped ==
  /\ campaign \in Campaigns
  /\ step \in Before \cup Running \cup {"receipt", "stopped"} \cup After
  /\ attempt \in 1 .. Attempts
  /\ outcome \in ScenarioResults
  /\ results \in Seq(ScenarioResults)

\* Which runs have a result and a receipt.
RunsInOrder ==
  /\ step \in Before \cup Running => Len(results) = attempt - 1
  /\ step = "receipt" => Len(results) = attempt
  /\ step = "stopped" => Len(results) \in {attempt - 1, attempt}
  /\ step \notin After => oracles = 1 .. attempt - 1
  /\ step \in After => Len(results) = Attempts /\ oracles = 1 .. Attempts
  /\ index # Unknown => step = "done" /\ index = 1 .. Attempts

\* A detection that counts was made in the window of an attack that was in place.
Rightful(r) ==
  r.first # Unknown =>
    /\ Manifest[r.scenario].label = 1 /\ r.injected = TRUE
    /\ r.first \in r.seen /\ r.first <= DetectionWindow

ScenarioOf(i) == campaign.plan[(i - 1) \div campaign.repetitions + 1]

OutcomeIsOwn ==
  /\ step \in Running => outcome.scenario = Scenario
  /\ step = "inject" => outcome.first = Unknown
  /\ step \in {"verify", "observe", "recover"} => outcome.injected = TRUE
  /\ Rightful(outcome)

ResultsAreOwn ==
  \A i \in 1 .. Len(results) :
    results[i].scenario = ScenarioOf(i) /\ Rightful(results[i])

CampaignInv == CampaignTyped /\ RunsInOrder /\ OutcomeIsOwn /\ ResultsAreOwn

\* A service, and the memory of an attack object, always has its parts.
ClusterShape ==
  /\ deployed = [s \in Services |-> [image |-> deployed[s].image, note |-> deployed[s].note,
                                     pod |-> deployed[s].pod]]
  /\ memory = [s \in Scenarios |-> [image |-> memory[s].image, note |-> memory[s].note,
                                    mirror |-> memory[s].mirror]]

\* A result that promises that its run was taken back.
Promises(r) == r.injected = TRUE /\ r.recovered = TRUE
AllPromise == \A i \in 1 .. Len(results) : Promises(results[i])

\* A clean service, in whose pod nothing runs but what is allowed there.
Tidy(v, pods) == v.image = "clean" /\ v.note = "absent" /\ v.pod \subseteq pods

Pristine == ~mirror /\ \A s \in Services : Tidy(deployed[s], Tolerated(s))
OthersTidy == \A s \in Services \ {Service} : Tidy(deployed[s], Tolerated(s))

\* What an injection of a kind may bring into a pod.
Introduced ==
  [wheel |-> {"wheel", "package", "beacon"}, mirror |-> {"package", "beacon"},
   process |-> {"script", "process"}, probe |-> {"probe script", "probe"}, file |-> {"file"},
   image |-> {"process"}, update |-> {}, load |-> {}, restart |-> {}]

\* What an injection that succeeded in clean services has changed, and what of it was
\* noted to be set back.
InPlace ==
  /\ mirror => Kind = "mirror"
  /\ OthersTidy
  /\ IF Kind = "image" THEN memory[Scenario].image = "clean" ELSE Victim.image = "clean"
  /\ IF Kind = "update" THEN memory[Scenario].note = "absent" ELSE Victim.note = "absent"
  /\ Victim.pod \subseteq Tolerated(Service) \cup Introduced[Kind]

\* The same when it was taken back.
Undone == ~mirror /\ OthersTidy /\ Tidy(Victim, Tolerated(Service) \cup LeftBy(Scenario))

NothingElseIsLeft ==
  AllPromise =>
    /\ step \in {"preflight", "discover", "inject", "receipt"} => Pristine
    /\ step \in {"verify", "observe", "recover"} => InPlace
    /\ step \in {"post", "save"} /\ Promises(outcome) => Undone

ClusterInv == ClusterShape /\ NothingElseIsLeft

-----------------------------------------------------------------------------
(* Every run is kept *)

LEMMA CampaignSizes ==
  ASSUME campaign \in Campaigns
  PROVE  /\ campaign.plan \in Seq(Scenarios) /\ campaign.repetitions \in Nat \ {0}
         /\ Attempts \in Nat \ {0}
         /\ \A a \in 1 .. Attempts : ScenarioOf(a) \in Scenarios
<1>1. /\ campaign.plan \in Seq(Scenarios) /\ Len(campaign.plan) \in Nat \ {0}
      /\ campaign.repetitions \in Nat \ {0}
  BY CampaignAssumption
<1>2. Attempts \in Nat \ {0}
  BY <1>1, Product DEF Attempts
<1>3. ASSUME NEW a \in 1 .. Attempts
      PROVE  ScenarioOf(a) \in Scenarios
  <2>1. (a - 1) \div campaign.repetitions + 1 \in 1 .. Len(campaign.plan)
    BY <1>1, <1>3, QuotientInRange DEF Attempts
  <2>2. QED
    BY <1>1, <2>1 DEF ScenarioOf
<1>4. QED
  BY <1>1, <1>2, <1>3

LEMMA ScenarioTyped ==
  ASSUME CampaignTyped
  PROVE  /\ Scenario = ScenarioOf(attempt) /\ Scenario \in Scenarios
         /\ Kind \in Kinds /\ Service \in Services /\ Attempts \in Nat \ {0}
<1>1. Scenario = ScenarioOf(attempt)
  BY DEF Scenario, ScenarioOf
<1>2. Scenario \in Scenarios /\ Attempts \in Nat \ {0}
  BY <1>1, CampaignSizes DEF CampaignTyped
<1>3. QED
  BY <1>1, <1>2, ManifestAssumption DEF Kind, Service

LEMMA NewResultTyped ==
  ASSUME CampaignTyped
  PROVE  /\ NewResult \in ScenarioResults /\ NewResult.scenario = Scenario
         /\ NewResult.first = Unknown /\ NewResult.injected = Unknown
BY ScenarioTyped DEF NewResult, ScenarioResults, Flags

\* An injection, and a recovery, end in a verdict of their own and touch no other
\* part of the outcome.
LEMMA InjectEnds ==
  ASSUME Inject
  PROVE  /\ step = "inject" /\ UNCHANGED <<campaign, attempt, polls, results, oracles, index>>
         /\ \E ok \in BOOLEAN : Injected(ok)
<1>1. ASSUME NEW n, IntoPod(n)
      PROVE  \E ok \in BOOLEAN : Injected(ok)
  BY <1>1 DEF IntoPod
<1>2. QED
  BY <1>1 DEF Inject, InjectWheel, InjectMirror, InjectImage, InjectProcess, InjectProbe,
     InjectFile, InjectUpdate, InjectLoad, InjectRestart, MirrorFails

LEMMA RecoverEnds ==
  ASSUME Recover
  PROVE  /\ step = "recover" /\ UNCHANGED <<campaign, attempt, polls, results, oracles, index>>
         /\ \E ok \in BOOLEAN : Recovered(ok)
BY DEF Recover, RecoverWheel, RecoverMirror, RecoverProcess, RecoverProbe, RecoverFile,
   RecoverImage, ImageIsSet, RecoverUpdate, RecoverNothing

\* The detection that a poll takes for the first is one of its own, in the window.
LEMMA PollIsRightful ==
  ASSUME CampaignTyped, OutcomeIsOwn, Poll
  PROVE  /\ step = "observe" /\ UNCHANGED <<campaign, step, attempt, results, oracles, index>>
         /\ outcome' \in ScenarioResults /\ Rightful(outcome')
         /\ outcome'.scenario = outcome.scenario /\ outcome'.injected = outcome.injected
<1>1. PICK times \in SUBSET DelaysSeen :
        /\ outcome.seen \subseteq times
        /\ outcome' = [outcome EXCEPT !.seen = times,
                              !.first = IF @ = Unknown /\ Counts(times) # {}
                                        THEN LastOf(Counts(times)) ELSE @]
  BY DEF Poll, DelaysSeen
<1>2. step = "observe" /\ UNCHANGED <<campaign, step, attempt, results, oracles, index>>
  BY DEF Poll
<1>3. outcome.scenario = Scenario /\ outcome.injected = TRUE /\ Rightful(outcome)
  BY <1>2 DEF OutcomeIsOwn, Running
<1>4. outcome \in ScenarioResults
  BY DEF CampaignTyped
<1>5. ASSUME Counts(times) # {}
      PROVE  /\ LastOf(Counts(times)) \in times /\ LastOf(Counts(times)) <= DetectionWindow
             /\ LastOf(Counts(times)) \in DelaysSeen /\ Labelled = 1
  <2>1. Labelled = 1 /\ Counts(times) = InWindow(times)
    BY <1>5 DEF Counts
  <2>2. InWindow(times) \in SUBSET (0 .. LastDelay) /\ LastDelay \in Nat
    BY BoundsAssumption DEF InWindow, DelaysSeen
  <2>3. \E t \in InWindow(times) : \A u \in InWindow(times) : u <= t
    BY <1>5, <2>1, <2>2, GreatestExists
  <2>4. LastOf(Counts(times)) \in InWindow(times)
    BY <2>1, <2>3 DEF LastOf
  <2>5. QED
    BY <2>1, <2>4 DEF InWindow
<1>6. outcome' \in ScenarioResults
  <2>1. CASE outcome.first = Unknown /\ Counts(times) # {}
    BY <1>1, <1>4, <1>5, <2>1 DEF ScenarioResults
  <2>2. CASE ~ (outcome.first = Unknown /\ Counts(times) # {})
    BY <1>1, <1>4, <2>2 DEF ScenarioResults
  <2>3. QED
    BY <2>1, <2>2
<1>7. /\ outcome'.scenario = outcome.scenario /\ outcome'.injected = outcome.injected
      /\ outcome'.seen = times
      /\ outcome'.first = IF outcome.first = Unknown /\ Counts(times) # {}
                          THEN LastOf(Counts(times)) ELSE outcome.first
  BY <1>1, <1>4 DEF ScenarioResults
<1>8. Rightful(outcome')
  <2>1. CASE outcome.first = Unknown /\ Counts(times) # {}
    BY <1>3, <1>5, <1>7, <2>1 DEF Rightful, Labelled
  <2>2. CASE ~ (outcome.first = Unknown /\ Counts(times) # {})
    BY <1>1, <1>3, <1>7, <2>2 DEF Rightful
  <2>3. QED
    BY <2>1, <2>2
<1>9. QED
  BY <1>2, <1>6, <1>7, <1>8

\* A run that is not one of those with a result leaves the results as they are.
LEMMA SameResults ==
  ASSUME ResultsAreOwn, UNCHANGED <<campaign, results>>
  PROVE  ResultsAreOwn'
BY DEF ResultsAreOwn, ScenarioOf, Rightful

LEMMA SameOrder ==
  ASSUME RunsInOrder, UNCHANGED <<campaign, attempt, results, oracles, index>>,
         \/ step \in Before \cup Running /\ step' \in Before \cup Running \cup {"stopped"}
         \/ step = "receipt" /\ step' = "stopped"
  PROVE  RunsInOrder'
BY DEF RunsInOrder, Before, Running, After, Attempts

LEMMA CampaignStep ==
  ASSUME CampaignInv, [CampaignNext]_campaignVars
  PROVE  CampaignInv'
<1> USE DEF CampaignInv
<1>0. /\ Scenario = ScenarioOf(attempt) /\ Scenario \in Scenarios /\ Attempts \in Nat \ {0}
      /\ NewResult \in ScenarioResults /\ NewResult.scenario = Scenario
      /\ NewResult.first = Unknown /\ NewResult.injected = Unknown
  BY ScenarioTyped, NewResultTyped
<1>1. CASE UNCHANGED campaignVars
  <2>1. CampaignTyped'
    BY <1>1 DEF campaignVars, CampaignTyped, Attempts
  <2>2. RunsInOrder' /\ ResultsAreOwn'
    BY <1>1, SameResults DEF campaignVars, RunsInOrder, Attempts
  <2>3. OutcomeIsOwn'
    BY <1>1 DEF campaignVars, OutcomeIsOwn, Rightful, Scenario
  <2>4. QED
    BY <2>1, <2>2, <2>3
<1>2. CASE SafetyPreflight \/ PreflightFails \/ Aborts
  <2>1. /\ UNCHANGED <<campaign, attempt, outcome, results, oracles, index>>
        /\ \/ step \in Before \cup Running /\ step' \in Before \cup {"stopped"}
           \/ step = "receipt" /\ step' = "stopped"
    BY <1>2 DEF SafetyPreflight, PreflightFails, Aborts, Before, Running
  <2>2. CampaignTyped'
    BY <2>1 DEF CampaignTyped, Attempts
  <2>3. RunsInOrder' /\ ResultsAreOwn'
    BY <2>1, SameOrder, SameResults
  <2>4. OutcomeIsOwn'
    BY <2>1 DEF OutcomeIsOwn, Rightful, Before, Running
  <2>5. QED
    BY <2>2, <2>3, <2>4
<1>3. CASE Begin \/ NoPod \/ Raises
  <2>1. /\ UNCHANGED <<campaign, attempt, results, oracles, index>>
        /\ step \in {"discover", "verify", "observe", "post"} /\ step' \in {"inject", "save"}
        /\ \/ outcome' = NewResult
           \/ outcome' = [NewResult EXCEPT !.injected = FALSE, !.failed = TRUE]
           \/ outcome' = [NewResult EXCEPT !.failed = TRUE]
    BY <1>3 DEF Begin, NoPod, Raises
  <2>2. /\ outcome' \in ScenarioResults
        /\ outcome'.scenario = Scenario /\ outcome'.first = Unknown
    BY <1>0, <2>1 DEF ScenarioResults, Flags
  <2>3. CampaignTyped'
    BY <2>1, <2>2 DEF CampaignTyped, Attempts, Running
  <2>4. RunsInOrder' /\ ResultsAreOwn'
    BY <2>1, SameOrder, SameResults DEF Before, Running
  <2>5. OutcomeIsOwn'
    BY <2>1, <2>2 DEF OutcomeIsOwn, Rightful, Scenario
  <2>6. QED
    BY <2>3, <2>4, <2>5
<1>4. CASE Inject
  <2>1. PICK ok \in BOOLEAN : Injected(ok)
    BY <1>4, InjectEnds
  <2>2. step = "inject" /\ UNCHANGED <<campaign, attempt, results, oracles, index>>
    BY <1>4, InjectEnds
  <2>3. /\ step' = IF ok THEN "verify" ELSE "save"
        /\ outcome' \in ScenarioResults /\ outcome'.scenario = outcome.scenario
        /\ outcome'.injected = ok /\ outcome'.first = outcome.first
    BY <2>1 DEF Injected, CampaignTyped, ScenarioResults, Flags
  <2>4. outcome.first = Unknown /\ outcome.scenario = Scenario
    BY <2>2 DEF OutcomeIsOwn, Running
  <2>5. CampaignTyped'
    BY <2>2, <2>3 DEF CampaignTyped, Attempts, Running
  <2>6. RunsInOrder' /\ ResultsAreOwn'
    BY <2>2, <2>3, SameOrder, SameResults DEF Before, Running
  <2>7. OutcomeIsOwn'
    BY <2>2, <2>3, <2>4 DEF OutcomeIsOwn, Rightful, Scenario
  <2>8. QED
    BY <2>5, <2>6, <2>7
<1>5. CASE Verify \/ Recover
  <2>1. /\ UNCHANGED <<campaign, attempt, results, oracles, index>>
        /\ (step = "verify" /\ step' = "observe") \/ (step = "recover" /\ step' = "post")
        /\ \/ \E ok \in BOOLEAN : outcome' = [outcome EXCEPT !.verified = ok, !.failed = ~ok]
           \/ \E ok \in BOOLEAN : outcome' = [outcome EXCEPT !.recovered = ok]
    <3>1. CASE Verify
      <4>1. PICK ok \in BOOLEAN : outcome' = [outcome EXCEPT !.verified = ok, !.failed = ~ok]
        BY <3>1, Zenon DEF Verify
      <4>2. /\ UNCHANGED <<campaign, attempt, results, oracles, index>>
            /\ step = "verify" /\ step' = "observe"
        BY <3>1 DEF Verify
      <4>3. QED
        BY <4>1, <4>2, Zenon
    <3>2. CASE Recover
      BY <3>2, RecoverEnds DEF Recovered
    <3>3. QED
      BY <1>5, <3>1, <3>2
  <2>2. /\ outcome' \in ScenarioResults /\ outcome'.scenario = outcome.scenario
        /\ outcome'.injected = outcome.injected /\ outcome'.first = outcome.first
        /\ outcome'.seen = outcome.seen
    BY <2>1 DEF CampaignTyped, ScenarioResults, Flags
  <2>3. outcome.scenario = Scenario /\ outcome.injected = TRUE /\ Rightful(outcome)
    BY <2>1 DEF OutcomeIsOwn, Running
  <2>4. CampaignTyped'
    BY <2>1, <2>2 DEF CampaignTyped, Attempts, Running
  <2>5. RunsInOrder' /\ ResultsAreOwn'
    BY <2>1, SameOrder, SameResults DEF Before, Running
  <2>6. OutcomeIsOwn'
    BY <2>1, <2>2, <2>3 DEF OutcomeIsOwn, Rightful, Scenario
  <2>7. QED
    BY <2>4, <2>5, <2>6
<1>6. CASE Poll
  <2>1. /\ step = "observe" /\ UNCHANGED <<campaign, step, attempt, results, oracles, index>>
        /\ outcome' \in ScenarioResults /\ Rightful(outcome')
        /\ outcome'.scenario = outcome.scenario /\ outcome'.injected = outcome.injected
    BY <1>6, PollIsRightful
  <2>2. CampaignTyped'
    BY <2>1 DEF CampaignTyped, Attempts
  <2>3. RunsInOrder' /\ ResultsAreOwn'
    BY <2>1, SameOrder, SameResults DEF Before, Running
  <2>4. Rightful(outcome)'
    BY <2>1 DEF Rightful
  <2>5. OutcomeIsOwn'
    BY <2>1, <2>4 DEF OutcomeIsOwn, Scenario
  <2>6. QED
    BY <2>2, <2>3, <2>5
<1>7. CASE PollFails \/ EndOfPhase \/ PostRecovery
  <2>1. /\ UNCHANGED <<campaign, attempt, outcome, results, oracles, index>>
        /\ \/ step = "observe" /\ step' \in {"observe", "recover"}
           \/ step = "post" /\ step' = "save"
    BY <1>7 DEF PollFails, EndOfPhase, PostRecovery
  <2>2. CampaignTyped'
    BY <2>1 DEF CampaignTyped, Attempts, Running
  <2>3. RunsInOrder' /\ ResultsAreOwn'
    BY <2>1, SameOrder, SameResults DEF Before, Running
  <2>4. OutcomeIsOwn'
    BY <2>1 DEF OutcomeIsOwn, Rightful, Scenario, Running
  <2>5. QED
    BY <2>2, <2>3, <2>4
<1>8. CASE SaveResult
  <2>1. /\ step = "save" /\ step' = "receipt" /\ results' = Append(results, outcome)
        /\ UNCHANGED <<campaign, attempt, outcome, oracles, index>>
    BY <1>8 DEF SaveResult
  <2>2. outcome \in ScenarioResults /\ results \in Seq(ScenarioResults) /\ attempt \in Nat
    BY <1>0 DEF CampaignTyped
  <2>3. /\ results' \in Seq(ScenarioResults) /\ Len(results') = Len(results) + 1
        /\ \A i \in 1 .. Len(results) : results'[i] = results[i]
        /\ results'[Len(results) + 1] = outcome /\ Len(results) \in Nat
    BY <2>1, <2>2
  <2>4. Len(results) = attempt - 1 /\ outcome.scenario = Scenario /\ Rightful(outcome)
    BY <2>1 DEF RunsInOrder, OutcomeIsOwn, Running
  <2>5. CampaignTyped'
    BY <2>1, <2>3 DEF CampaignTyped, Attempts
  <2>6. RunsInOrder'
    BY <2>1, <2>2, <2>3, <2>4 DEF RunsInOrder, Before, Running, After, Attempts
  <2>7. OutcomeIsOwn'
    BY <2>1 DEF OutcomeIsOwn, Rightful, Running
  <2>8. ResultsAreOwn'
    <3>1. ASSUME NEW i \in 1 .. Len(results')
          PROVE  results'[i].scenario = ScenarioOf(i) /\ Rightful(results'[i])
      <4>1. CASE i \in 1 .. Len(results)
        BY <2>3, <4>1 DEF ResultsAreOwn
      <4>2. CASE i = Len(results) + 1
        BY <1>0, <2>2, <2>3, <2>4, <4>2
      <4>3. QED
        BY <2>3, <4>1, <4>2
    <3>2. QED
      BY <2>1, <3>1 DEF ResultsAreOwn, Rightful, ScenarioOf
  <2>9. QED
    BY <2>5, <2>6, <2>7, <2>8
<1>9. CASE PersistReceipt
  <2>1. /\ step = "receipt" /\ oracles' = oracles \cup {attempt}
        /\ UNCHANGED <<campaign, outcome, results, index>>
        /\ \/ attempt < Attempts /\ step' = "discover" /\ attempt' = attempt + 1
           \/ ~ (attempt < Attempts) /\ step' = "index" /\ attempt' = attempt
    BY <1>9 DEF PersistReceipt
  <2>2. attempt \in 1 .. Attempts /\ attempt \in Nat /\ Len(results) = attempt
        /\ oracles = 1 .. attempt - 1 /\ index = Unknown
    BY <1>0, <2>1 DEF RunsInOrder, CampaignTyped, After
  <2>3. oracles' = 1 .. attempt
    BY <2>1, <2>2
  <2>4. Attempts' = Attempts
    BY <2>1 DEF Attempts
  <2>5. CampaignTyped'
    BY <1>0, <2>1, <2>2, <2>4 DEF CampaignTyped, Before, After
  <2>6. RunsInOrder'
    <3>1. CASE attempt < Attempts
      BY <1>0, <2>1, <2>2, <2>3, <3>1 DEF RunsInOrder, Before, Running, After
    <3>2. CASE ~ (attempt < Attempts)
      <4>1. attempt = Attempts
        BY <1>0, <2>2, <3>2
      <4>2. QED
        BY <2>1, <2>2, <2>3, <2>4, <3>2, <4>1 DEF RunsInOrder, Before, Running, After
    <3>3. QED
      BY <3>1, <3>2
  <2>7. OutcomeIsOwn'
    BY <2>1 DEF OutcomeIsOwn, Rightful, Running
  <2>8. QED
    BY <2>1, <2>5, <2>6, <2>7, SameResults
<1>10. CASE WriteIndex
  <2>1. /\ step = "index" /\ step' = "done" /\ index' = DOMAIN results
        /\ UNCHANGED <<campaign, attempt, outcome, results, oracles>>
    BY <1>10 DEF WriteIndex
  <2>2. Len(results) = Attempts /\ oracles = 1 .. Attempts
    BY <2>1 DEF RunsInOrder, After
  <2>3. index' = 1 .. Attempts
    BY <2>1, <2>2 DEF CampaignTyped
  <2>4. CampaignTyped'
    BY <2>1 DEF CampaignTyped, Attempts, After
  <2>5. RunsInOrder'
    BY <2>1, <2>2, <2>3 DEF RunsInOrder, Before, Running, After, Attempts
  <2>6. OutcomeIsOwn'
    BY <2>1 DEF OutcomeIsOwn, Rightful, Running
  <2>7. QED
    BY <2>1, <2>4, <2>5, <2>6, SameResults
<1>11. QED
  BY <1>1, <1>2, <1>3, <1>4, <1>5, <1>6, <1>7, <1>8, <1>9, <1>10 DEF CampaignNext

\* CampaignInv: by the script's position, the runs up to the one in hand have a result,
\* in the order of the plan, and receipts follow the results.
THEOREM CampaignInvariance == CampaignSpec => []CampaignInv
<1>1. CampaignInit => CampaignInv
  <2>1. SUFFICES ASSUME NEW c \in Campaigns, Ordered(c)
                 PROVE  CampaignInv
    BY DEF CampaignInit
  <2>2. /\ campaign \in Campaigns /\ step = "preflight" /\ attempt = 1 /\ outcome = NewResult
        /\ results = <<>> /\ oracles = {} /\ index = Unknown
    BY <2>1 DEF Ordered
  <2>3. Attempts \in Nat \ {0} /\ ScenarioOf(1) \in Scenarios
    BY <2>2, CampaignSizes
  <2>4. Scenario \in Scenarios
    BY <2>2, <2>3 DEF Scenario, ScenarioOf
  <2>5. NewResult \in ScenarioResults /\ NewResult.first = Unknown
    BY <2>4 DEF NewResult, ScenarioResults, Flags
  <2>6. CampaignTyped
    BY <2>2, <2>3, <2>5 DEF CampaignTyped, Before
  <2>7. RunsInOrder /\ OutcomeIsOwn /\ ResultsAreOwn
    BY <2>2, <2>5 DEF RunsInOrder, OutcomeIsOwn, ResultsAreOwn, Rightful, Before, Running, After
  <2>8. QED
    BY <2>6, <2>7 DEF CampaignInv
<1>2. CampaignInv /\ [CampaignNext]_campaignVars => CampaignInv'
  BY CampaignStep
<1>3. QED
  BY <1>1, <1>2, PTL DEF CampaignSpec

\* IndexIsComplete: main counts attempts, and every way out of a run that does not end
\* the script goes through the saving of its result.
THEOREM IndexIsAlwaysComplete == CampaignSpec => []IndexIsComplete
<1>1. ASSUME CampaignInv PROVE IndexIsComplete
  <2>1. Attempts \in Nat \ {0} /\ attempt \in 1 .. Attempts /\ DOMAIN results = 1 .. Len(results)
    BY <1>1, ScenarioTyped DEF CampaignInv, CampaignTyped
  <2>2. Len(results) \in Nat /\ RunsInOrder
    BY <1>1 DEF CampaignInv, CampaignTyped
  <2>3. oracles \subseteq DOMAIN results
    <3>1. CASE step \in After
      BY <2>1, <2>2, <3>1 DEF RunsInOrder
    <3>2. CASE step \notin After
      <4>1. Len(results) \in {attempt - 1, attempt} /\ oracles = 1 .. attempt - 1
        BY <1>1, <2>2, <3>2 DEF RunsInOrder, CampaignInv, CampaignTyped
      <4>2. attempt \in Nat
        BY <2>1
      <4>3. 1 .. attempt - 1 \subseteq 1 .. Len(results)
        BY <2>2, <4>1, <4>2
      <4>4. QED
        BY <2>1, <4>1, <4>3
    <3>3. QED
      BY <3>1, <3>2
  <2>4. index # Unknown => index = 1 .. Attempts /\ oracles = index
    BY <2>2 DEF RunsInOrder, After
  <2>5. \A i \in DOMAIN results : results[i].scenario = ScenarioOf(i) /\ Rightful(results[i])
    BY <1>1, <2>1 DEF CampaignInv, ResultsAreOwn
  <2>6. QED
    BY <2>3, <2>4, <2>5 DEF IndexIsComplete, ScenarioOf, Rightful
<1>2. QED
  BY <1>1, CampaignInvariance, PTL

-----------------------------------------------------------------------------
(* What a run leaves behind *)

\* The service of the run has the new state, the others keep theirs.
LEMMA BecameOnly ==
  ASSUME CampaignTyped, ClusterShape, NEW v, Became(v),
         v = [image |-> v.image, note |-> v.note, pod |-> v.pod]
  PROVE  /\ deployed' = [s \in Services |-> IF s = Service THEN v ELSE deployed[s]]
         /\ deployed' = [s \in Services |-> [image |-> deployed'[s].image,
                                             note |-> deployed'[s].note, pod |-> deployed'[s].pod]]
<1>1. Service \in Services
  BY ScenarioTyped
<1>2. deployed' = [s \in Services |-> IF s = Service THEN v ELSE deployed[s]]
  BY <1>1 DEF Became, ClusterShape
<1>3. \A s \in Services :
        deployed[s] = [image |-> deployed[s].image, note |-> deployed[s].note,
                       pod |-> deployed[s].pod]
  BY DEF ClusterShape
<1>4. \A s \in Services :
        deployed'[s] = [image |-> deployed'[s].image, note |-> deployed'[s].note,
                        pod |-> deployed'[s].pod]
  BY <1>2, <1>3
<1>5. QED
  BY <1>2, <1>4

LEMMA RemembersOnly ==
  ASSUME CampaignTyped, ClusterShape, NEW w, Remembers(w),
         w = [image |-> w.image, note |-> w.note, mirror |-> w.mirror]
  PROVE  /\ memory' = [s \in Scenarios |-> IF s = Scenario THEN w ELSE memory[s]]
         /\ memory' = [s \in Scenarios |-> [image |-> memory'[s].image, note |-> memory'[s].note,
                                            mirror |-> memory'[s].mirror]]
<1>1. Scenario \in Scenarios
  BY ScenarioTyped
<1>2. memory' = [s \in Scenarios |-> IF s = Scenario THEN w ELSE memory[s]]
  BY <1>1 DEF Remembers, ClusterShape
<1>3. \A s \in Scenarios :
        memory[s] = [image |-> memory[s].image, note |-> memory[s].note,
                     mirror |-> memory[s].mirror]
  BY DEF ClusterShape
<1>4. \A s \in Scenarios :
        memory'[s] = [image |-> memory'[s].image, note |-> memory'[s].note,
                      mirror |-> memory'[s].mirror]
  BY <1>2, <1>3
<1>5. QED
  BY <1>2, <1>4

\* A state that differs from another in some of its parts is one with all of them.
LEMMA VictimShape ==
  ASSUME CampaignTyped, ClusterShape
  PROVE  /\ Victim = [image |-> Victim.image, note |-> Victim.note, pod |-> Victim.pod]
         /\ memory[Scenario] = [image |-> memory[Scenario].image, note |-> memory[Scenario].note,
                                mirror |-> memory[Scenario].mirror]
<1>1. Service \in Services /\ Scenario \in Scenarios
  BY ScenarioTyped
<1>2. QED
  BY <1>1 DEF ClusterShape, Victim

\* What the updates of records that have all their parts are.
IsService(r) == r = [image |-> r.image, note |-> r.note, pod |-> r.pod]
IsMemory(r) == r = [image |-> r.image, note |-> r.note, mirror |-> r.mirror]

LEMMA PodExcept ==
  ASSUME NEW r, IsService(r), NEW x
  PROVE  [r EXCEPT !.pod = x] = [image |-> r.image, note |-> r.note, pod |-> x]
<1> DEFINE a == r.image
           b == r.note
           c == r.pod
<1>1. r = [image |-> a, note |-> b, pod |-> c]
  BY DEF IsService
<1> HIDE DEF a, b, c
<1>2. [r EXCEPT !.pod = x] = [image |-> a, note |-> b, pod |-> x]
  BY ONLY <1>1
<1>3. QED
  BY <1>2 DEF a, b

LEMMA GrownExcept ==
  ASSUME NEW r, IsService(r), NEW x
  PROVE  [r EXCEPT !.pod = @ \cup x] = [image |-> r.image, note |-> r.note, pod |-> r.pod \cup x]
<1> DEFINE a == r.image
           b == r.note
           c == r.pod
<1>1. r = [image |-> a, note |-> b, pod |-> c]
  BY DEF IsService
<1> HIDE DEF a, b, c
<1>2. [r EXCEPT !.pod = @ \cup x] = [image |-> a, note |-> b, pod |-> c \cup x]
  BY ONLY <1>1
<1>3. QED
  BY <1>2 DEF a, b, c

LEMMA ShrunkExcept ==
  ASSUME NEW r, IsService(r), NEW x
  PROVE  [r EXCEPT !.pod = @ \ x] = [image |-> r.image, note |-> r.note, pod |-> r.pod \ x]
<1> DEFINE a == r.image
           b == r.note
           c == r.pod
           d == c \ x
<1>1. r = [image |-> a, note |-> b, pod |-> c] /\ [r EXCEPT !.pod = @ \ x] = [r EXCEPT !.pod = d]
  BY DEF IsService
<1> HIDE DEF a, b, c, d
<1>2. [r EXCEPT !.pod = d] = [image |-> a, note |-> b, pod |-> d]
  BY ONLY <1>1
<1>3. QED
  BY <1>1, <1>2 DEF a, b, c, d

LEMMA ImageExcept ==
  ASSUME NEW r, IsService(r), NEW x, NEW y
  PROVE  [r EXCEPT !.image = y, !.pod = x] = [image |-> y, note |-> r.note, pod |-> x]
<1> DEFINE q == [r EXCEPT !.image = y]
           b == r.note
           c == r.pod
<1>1. q = [image |-> y, note |-> b, pod |-> c]
  BY DEF IsService
<1>2. [r EXCEPT !.image = y, !.pod = x] = [q EXCEPT !.pod = x]
  OBVIOUS
<1> HIDE DEF q, b, c
<1>3. [q EXCEPT !.pod = x] = [image |-> y, note |-> b, pod |-> x]
  BY ONLY <1>1
<1>4. QED
  BY <1>2, <1>3 DEF b

LEMMA NoteExcept ==
  ASSUME NEW r, IsService(r), NEW x, NEW y
  PROVE  [r EXCEPT !.note = y, !.pod = x] = [image |-> r.image, note |-> y, pod |-> x]
<1> DEFINE q == [r EXCEPT !.note = y]
           a == r.image
           c == r.pod
<1>1. q = [image |-> a, note |-> y, pod |-> c]
  BY DEF IsService
<1>2. [r EXCEPT !.note = y, !.pod = x] = [q EXCEPT !.pod = x]
  OBVIOUS
<1> HIDE DEF q, a, c
<1>3. [q EXCEPT !.pod = x] = [image |-> a, note |-> y, pod |-> x]
  BY ONLY <1>1
<1>4. QED
  BY <1>2, <1>3 DEF a

LEMMA MemoryExcept ==
  ASSUME NEW r, IsMemory(r), NEW x
  PROVE  /\ [r EXCEPT !.image = x] = [image |-> x, note |-> r.note, mirror |-> r.mirror]
         /\ [r EXCEPT !.note = x] = [image |-> r.image, note |-> x, mirror |-> r.mirror]
         /\ [r EXCEPT !.mirror = x] = [image |-> r.image, note |-> r.note, mirror |-> x]
<1> DEFINE a == r.image
           b == r.note
           c == r.mirror
<1>1. r = [image |-> a, note |-> b, mirror |-> c]
  BY DEF IsMemory
<1> HIDE DEF a, b, c
<1>2. /\ [r EXCEPT !.image = x] = [image |-> x, note |-> b, mirror |-> c]
      /\ [r EXCEPT !.note = x] = [image |-> a, note |-> x, mirror |-> c]
      /\ [r EXCEPT !.mirror = x] = [image |-> a, note |-> b, mirror |-> x]
  BY ONLY <1>1
<1>3. QED
  BY <1>2 DEF a, b, c

\* What is allowed in a service depends on the results only.
LEMMA ToleratedStays ==
  ASSUME UNCHANGED <<campaign, attempt, results>>
  PROVE  /\ Scenario' = Scenario /\ Kind' = Kind /\ Service' = Service
         /\ Tolerated(Service)' = Tolerated(Service)
         /\ \A s \in Services : Tolerated(s)' = Tolerated(s)
         /\ LeftBy(Scenario)' = LeftBy(Scenario)
<1>1. Scenario' = Scenario /\ Kind' = Kind /\ Service' = Service
  BY DEF Scenario, Kind, Service
<1>2. Tolerated(Service)' = Tolerated(Service)
  BY <1>1 DEF Tolerated
<1>3. ASSUME NEW CONSTANT s
      PROVE  Tolerated(s)' = Tolerated(s)
  BY DEF Tolerated
<1>4. LeftBy(Scenario)' = LeftBy(Scenario)
  BY <1>1 DEF LeftBy
<1>5. QED
  BY <1>1, <1>2, <1>3, <1>4

\* A result that is saved allows what recover() does not look at of its scenario.
LEMMA ToleratedGrows ==
  ASSUME NEW CONSTANT s, results \in Seq(ScenarioResults), outcome \in ScenarioResults,
         results' = Append(results, outcome)
  PROVE  /\ Tolerated(s) \subseteq Tolerated(s)'
         /\ Manifest[outcome.scenario].service = s => LeftBy(outcome.scenario) \subseteq Tolerated(s)'
<1>1. /\ DOMAIN results = 1 .. Len(results) /\ DOMAIN results' = 1 .. Len(results) + 1
      /\ Len(results) \in Nat /\ results'[Len(results) + 1] = outcome
      /\ \A i \in 1 .. Len(results) : results'[i] = results[i]
  OBVIOUS
<1>2. ASSUME NEW x \in Tolerated(s)
      PROVE  x \in Tolerated(s)'
  <2>1. PICK i \in DOMAIN results :
          Manifest[results[i].scenario].service = s /\ x \in LeftBy(results[i].scenario)
    BY DEF Tolerated
  <2>2. i \in DOMAIN results' /\ results'[i] = results[i]
    BY <1>1
  <2>3. QED
    BY <2>1, <2>2 DEF Tolerated
<1>3. ASSUME Manifest[outcome.scenario].service = s, NEW x \in LeftBy(outcome.scenario)
      PROVE  x \in Tolerated(s)'
  <2>1. Len(results) + 1 \in DOMAIN results'
    BY <1>1
  <2>2. QED
    BY <1>1, <1>3, <2>1 DEF Tolerated
<1>4. QED
  BY <1>2, <1>3

LEMMA LeftByKinds ==
  LeftBy(Scenario) = IF Kind = "mirror" THEN {"package", "beacon"}
                     ELSE IF Kind \in {"process", "image"} THEN {"process"}
                     ELSE IF Kind = "probe" THEN {"probe"} ELSE {}
<1>1. DOMAIN Swallowed = {"mirror", "process", "probe", "image"}
  BY DEF Swallowed
<1>2. QED
  BY <1>1 DEF LeftBy, Swallowed, Kind

LEMMA FromImages == FromImage("clean") = {} /\ FromImage("attack") = {"process"}
BY DEF FromImage

MemoryShape ==
  memory = [s \in Scenarios |-> [image |-> memory[s].image, note |-> memory[s].note,
                                 mirror |-> memory[s].mirror]]

\* A new state of the service of the run.
Placed(v) ==
  /\ v = [image |-> v.image, note |-> v.note, pod |-> v.pod]
  /\ Became(v)

LEMMA PlacedShape ==
  ASSUME CampaignTyped, ClusterShape, MemoryShape', NEW v, Placed(v)
  PROVE  ClusterShape'
BY BecameOnly DEF Placed, ClusterShape, MemoryShape

LEMMA Placement ==
  ASSUME CampaignTyped, ClusterShape, UNCHANGED <<campaign, attempt, results>>, NEW v, Placed(v)
  PROVE  Victim' = v /\ (OthersTidy => OthersTidy')
<1>1. /\ Service \in Services
      /\ deployed' = [s \in Services |-> IF s = Service THEN v ELSE deployed[s]]
  BY ScenarioTyped, BecameOnly DEF Placed
<1>2. Victim' = v
  BY <1>1, ToleratedStays DEF Victim
<1>3. ASSUME OthersTidy, NEW CONSTANT s \in Services, s # Service
      PROVE  Tidy(deployed[s], Tolerated(s))'
  <2>1. deployed'[s] = deployed[s]
    BY <1>1, <1>3
  <2>2. Tolerated(s)' = Tolerated(s)
    BY ToleratedStays
  <2>3. Tidy(deployed[s], Tolerated(s))
    BY <1>3 DEF OthersTidy
  <2>4. QED
    BY <2>1, <2>2, <2>3 DEF Tidy
<1>4. QED
  BY <1>2, <1>3, ToleratedStays DEF OthersTidy

LEMMA PlacedInPristine ==
  ASSUME CampaignTyped, ClusterShape, Pristine, UNCHANGED <<campaign, attempt, results>>,
         NEW v, Placed(v), mirror' => Kind = "mirror",
         IF Kind = "image" THEN memory'[Scenario].image = "clean" ELSE v.image = "clean",
         IF Kind = "update" THEN memory'[Scenario].note = "absent" ELSE v.note = "absent",
         v.pod \subseteq Tolerated(Service) \cup Introduced[Kind]
  PROVE  InPlace'
<1>1. OthersTidy
  BY DEF Pristine, OthersTidy
<1>2. Victim' = v /\ OthersTidy'
  BY <1>1, Placement
<1>3. QED
  BY <1>2, ToleratedStays DEF InPlace

LEMMA CleanVictim ==
  ASSUME CampaignTyped, Pristine
  PROVE  /\ Victim.image = "clean" /\ Victim.note = "absent"
         /\ Victim.pod \subseteq Tolerated(Service) /\ ~mirror
BY ScenarioTyped DEF Pristine, Tidy, Victim

\* An injection from clean services that says that it succeeded.
InjectionIsTraced ==
  /\ ClusterShape'
  /\ Pristine /\ step' = "verify" => InPlace'

LEMMA LeavesIntroduced ==
  ASSUME NEW n \in Nat,
         \/ Kind = "wheel" /\ n \in 0 .. 3
         \/ Kind \in {"mirror", "process", "probe"} /\ n \in 0 .. 2
         \/ Kind = "file" /\ n \in 0 .. 1
         \/ Kind = "load" /\ n = 0
  PROVE  Leaves(Kind, n) \subseteq Introduced[Kind]
<1>1. SUFFICES ASSUME NEW i \in 1 .. n
               PROVE  Residue[Kind][i] \in Introduced[Kind]
  BY DEF Leaves
<1>2. CASE Kind = "wheel" /\ n \in 0 .. 3
  <2>1. i \in {1, 2, 3}
    BY <1>2
  <2>2. QED
    BY <1>2, <2>1 DEF Residue, Introduced
<1>3. CASE Kind \in {"mirror", "process", "probe"} /\ n \in 0 .. 2
  <2>1. i \in {1, 2}
    BY <1>3
  <2>2. CASE Kind = "mirror"
    BY <2>1, <2>2 DEF Residue, Introduced
  <2>3. CASE Kind = "process"
    BY <2>1, <2>3 DEF Residue, Introduced
  <2>4. CASE Kind = "probe"
    <3>1. Residue[Kind] = <<"probe script", "probe">>
      BY <2>4 DEF Residue
    <3>2. Introduced[Kind] = {"probe script", "probe"}
      BY <2>4 DEF Introduced
    <3> DEFINE a == "probe script"
    <3> HIDE DEF a
    <3>3. Residue[Kind] = <<a, "probe">> /\ Introduced[Kind] = {a, "probe"}
      BY <3>1, <3>2, Zenon DEF a
    <3>4. QED
      BY <2>1, <3>3
  <2>5. QED
    BY <1>3, <2>2, <2>3, <2>4
<1>4. CASE Kind = "file" /\ n \in 0 .. 1
  <2>1. i = 1
    BY <1>4
  <2>2. QED
    BY <1>4, <2>1 DEF Residue, Introduced
<1>5. QED
  BY <1>1, <1>2, <1>3, <1>4

LEMMA IntoPodTraced ==
  ASSUME CampaignTyped, ClusterShape, UNCHANGED <<campaign, attempt, results>>, NEW n \in Nat,
         IntoPod(n), MemoryShape', Kind = "mirror" \/ UNCHANGED mirror,
         \/ Kind = "wheel" /\ n \in 0 .. 3
         \/ Kind \in {"mirror", "process", "probe"} /\ n \in 0 .. 2
         \/ Kind = "file" /\ n \in 0 .. 1
         \/ Kind = "load" /\ n = 0
  PROVE  InjectionIsTraced
<1> DEFINE v == [Victim EXCEPT !.pod = @ \cup Leaves(Kind, n)]
<1>1. IsService(Victim)
  BY VictimShape DEF IsService
<1>2. v = [image |-> Victim.image, note |-> Victim.note, pod |-> Victim.pod \cup Leaves(Kind, n)]
  BY <1>1, GrownExcept
<1>3. Became(v)
  BY DEF IntoPod
<1>4. v.image = Victim.image /\ v.note = Victim.note /\ v.pod = Victim.pod \cup Leaves(Kind, n)
  BY <1>2
<1> HIDE DEF v
<1>5. Placed(v)
  BY <1>2, <1>3, <1>4 DEF Placed
<1>6. Leaves(Kind, n) \subseteq Introduced[Kind] /\ Kind # "image" /\ Kind # "update"
  BY LeavesIntroduced
<1>7. ASSUME Pristine
      PROVE  InPlace'
  <2>1. v.image = "clean" /\ v.note = "absent"
    BY <1>4, <1>7, CleanVictim
  <2>2. v.pod \subseteq Tolerated(Service) \cup Introduced[Kind]
    BY <1>4, <1>6, <1>7, CleanVictim
  <2>3. mirror' => Kind = "mirror"
    BY <1>7, CleanVictim
  <2>4. /\ IF Kind = "image" THEN memory'[Scenario].image = "clean" ELSE v.image = "clean"
        /\ IF Kind = "update" THEN memory'[Scenario].note = "absent" ELSE v.note = "absent"
    BY <1>6, <2>1
  <2>5. QED
    BY <1>5, <1>7, <2>2, <2>3, <2>4, PlacedInPristine
<1>8. QED
  BY <1>5, <1>7, PlacedShape DEF InjectionIsTraced

LEMMA InjectRestartTraced ==
  ASSUME CampaignTyped, ClusterShape, UNCHANGED <<campaign, attempt, results>>, InjectRestart
  PROVE  InjectionIsTraced
<1> DEFINE v == [Victim EXCEPT !.pod = FromImage(Victim.image)]
<1>1. v = [image |-> Victim.image, note |-> Victim.note, pod |-> FromImage(Victim.image)]
  BY VictimShape, PodExcept DEF IsService
<1>2. v.image = Victim.image /\ v.note = Victim.note /\ v.pod = FromImage(Victim.image)
  BY <1>1
<1>3. /\ Became(v) \/ (UNCHANGED deployed /\ Injected(FALSE))
      /\ Kind = "restart" /\ UNCHANGED <<mirror, memory>>
  BY DEF InjectRestart
<1> HIDE DEF v
<1>4. CASE UNCHANGED deployed /\ Injected(FALSE)
  BY <1>3, <1>4 DEF InjectionIsTraced, Injected, ClusterShape
<1>5. CASE Became(v)
  <2>1. Placed(v) /\ MemoryShape'
    BY <1>1, <1>2, <1>3, <1>5 DEF Placed, ClusterShape, MemoryShape
  <2>2. ASSUME Pristine
        PROVE  InPlace'
    <3>1. v.image = "clean" /\ v.note = "absent" /\ v.pod = {} /\ ~mirror'
      BY <1>2, <1>3, <2>2, CleanVictim, FromImages
    <3>2. QED
      BY <1>3, <2>1, <2>2, <3>1, PlacedInPristine
  <2>3. QED
    BY <2>1, <2>2, PlacedShape DEF InjectionIsTraced
<1>6. QED
  BY <1>3, <1>4, <1>5

LEMMA InjectUpdateTraced ==
  ASSUME CampaignTyped, ClusterShape, UNCHANGED <<campaign, attempt, results>>, InjectUpdate
  PROVE  InjectionIsTraced
<1> DEFINE w == [memory[Scenario] EXCEPT !.note = Victim.note]
<1>1. w = [image |-> memory[Scenario].image, note |-> Victim.note, mirror |-> memory[Scenario].mirror]
  BY VictimShape, MemoryExcept DEF IsMemory
<1>2. /\ Kind = "update" /\ UNCHANGED mirror
      /\ \/ UNCHANGED <<deployed, memory>> /\ Injected(FALSE)
         \/ /\ Remembers(w)
            /\ \/ UNCHANGED deployed /\ Injected(FALSE)
               \/ \E ok \in BOOLEAN :
                  \E pods \in IF ok THEN Annotated("token") ELSE Rolling(Victim.image) :
                    Became([Victim EXCEPT !.note = "token", !.pod = pods]) /\ Injected(ok)
  BY DEF InjectUpdate
<1>3. w = [image |-> w.image, note |-> w.note, mirror |-> w.mirror] /\ w.note = Victim.note
  BY <1>1
<1> HIDE DEF w
<1>4. ASSUME Remembers(w)
      PROVE  MemoryShape' /\ memory'[Scenario].note = Victim.note
  <2>1. /\ memory' = [s \in Scenarios |-> IF s = Scenario THEN w ELSE memory[s]]
        /\ MemoryShape'
    BY <1>3, <1>4, RemembersOnly DEF MemoryShape
  <2>2. QED
    BY <1>3, <2>1, ScenarioTyped
<1>5. CASE UNCHANGED <<deployed, memory>> /\ Injected(FALSE)
  BY <1>5 DEF InjectionIsTraced, Injected, ClusterShape
<1>6. CASE Remembers(w) /\ UNCHANGED deployed /\ Injected(FALSE)
  BY <1>4, <1>6 DEF InjectionIsTraced, Injected, ClusterShape, MemoryShape
<1>7. ASSUME Remembers(w), NEW ok \in BOOLEAN,
             NEW pods \in IF ok THEN Annotated("token") ELSE Rolling(Victim.image),
             Became([Victim EXCEPT !.note = "token", !.pod = pods]), Injected(ok)
      PROVE  InjectionIsTraced
  <2> DEFINE v == [Victim EXCEPT !.note = "token", !.pod = pods]
  <2>1. IsService(Victim)
    BY VictimShape DEF IsService
  <2>2. v = [image |-> Victim.image, note |-> "token", pod |-> pods]
    BY <2>1, NoteExcept
  <2>3. Became(v) /\ v.image = Victim.image /\ v.pod = pods
    BY <1>7, <2>2
  <2> HIDE DEF v
  <2>4. Placed(v)
    BY <2>2, <2>3 DEF Placed
  <2>5. ASSUME Pristine, step' = "verify"
        PROVE  InPlace'
    <3>1. /\ Victim.image = "clean" /\ Victim.note = "absent"
          /\ Victim.pod \subseteq Tolerated(Service) /\ ~mirror
      BY <2>5, CleanVictim
    <3>2. ok = TRUE
      BY <1>7, <2>5 DEF Injected
    <3>3. pods = {} \/ pods = Victim.pod
      BY <1>7, <3>1, <3>2, FromImages DEF Annotated
    <3>4. v.pod \subseteq Tolerated(Service) \cup Introduced[Kind]
      BY <2>3, <3>1, <3>3
    <3>5. QED
      BY <1>2, <1>4, <1>7, <2>3, <2>4, <2>5, <3>1, <3>4, PlacedInPristine
  <2>6. QED
    BY <1>4, <1>7, <2>4, <2>5, PlacedShape DEF InjectionIsTraced
<1>8. QED
  BY <1>2, <1>5, <1>6, <1>7

LEMMA InjectImageTraced ==
  ASSUME CampaignTyped, ClusterShape, UNCHANGED <<campaign, attempt, results>>, InjectImage
  PROVE  InjectionIsTraced
<1> DEFINE w == [memory[Scenario] EXCEPT !.image = Victim.image]
<1>1. w = [image |-> Victim.image, note |-> memory[Scenario].note, mirror |-> memory[Scenario].mirror]
  BY VictimShape, MemoryExcept DEF IsMemory
<1>2. /\ Kind = "image" /\ UNCHANGED mirror
      /\ \/ UNCHANGED <<deployed, memory>> /\ Injected(FALSE)
         \/ /\ Remembers(w)
            /\ \E image, pods :
                 /\ Became([Victim EXCEPT !.image = image, !.pod = pods])
                 /\ pods = {"process"} \/ Injected(FALSE)
  BY FromImages, Zenon DEF InjectImage
<1>3. w = [image |-> w.image, note |-> w.note, mirror |-> w.mirror] /\ w.image = Victim.image
  BY <1>1
<1> HIDE DEF w
<1>4. ASSUME Remembers(w)
      PROVE  MemoryShape' /\ memory'[Scenario].image = Victim.image
  <2>1. /\ memory' = [s \in Scenarios |-> IF s = Scenario THEN w ELSE memory[s]]
        /\ MemoryShape'
    BY <1>3, <1>4, RemembersOnly DEF MemoryShape
  <2>2. QED
    BY <1>3, <2>1, ScenarioTyped
<1>5. CASE UNCHANGED <<deployed, memory>> /\ Injected(FALSE)
  BY <1>5 DEF InjectionIsTraced, Injected, ClusterShape
<1>6. ASSUME Remembers(w), NEW image, NEW pods,
             Became([Victim EXCEPT !.image = image, !.pod = pods]),
             pods = {"process"} \/ Injected(FALSE)
      PROVE  InjectionIsTraced
  <2> DEFINE v == [Victim EXCEPT !.image = image, !.pod = pods]
  <2>1. IsService(Victim)
    BY VictimShape DEF IsService
  <2>2. v = [image |-> image, note |-> Victim.note, pod |-> pods]
    BY <2>1, ImageExcept
  <2>3. Became(v) /\ v.note = Victim.note /\ v.pod = pods /\ v.image = image
    BY <1>6, <2>2
  <2> HIDE DEF v
  <2>4. Placed(v)
    BY <2>2, <2>3 DEF Placed
  <2>5. ASSUME Pristine, step' = "verify"
        PROVE  InPlace'
    <3>1. Victim.image = "clean" /\ Victim.note = "absent" /\ ~mirror
      BY <2>5, CleanVictim
    <3>2. pods = {"process"}
      BY <1>6, <2>5 DEF Injected
    <3>3. v.pod \subseteq Tolerated(Service) \cup Introduced[Kind]
      BY <1>2, <2>3, <3>2 DEF Introduced
    <3>4. QED
      BY <1>2, <1>4, <1>6, <2>3, <2>4, <2>5, <3>1, <3>3, PlacedInPristine
  <2>6. QED
    BY <1>4, <1>6, <2>4, <2>5, PlacedShape DEF InjectionIsTraced
<1>7. QED
  BY <1>2, <1>5, <1>6

LEMMA InjectIsTraced ==
  ASSUME CampaignTyped, ClusterShape, Inject
  PROVE  InjectionIsTraced
<1>1. UNCHANGED <<campaign, attempt, results>>
  BY DEF Inject
<1>2. ASSUME InjectWheel \/ InjectProcess \/ InjectProbe \/ InjectFile \/ InjectLoad
      PROVE  InjectionIsTraced
  <2>1. PICK n \in 0 .. 3 :
          /\ IntoPod(n)
          /\ \/ Kind = "wheel" /\ n \in 0 .. 3
             \/ Kind \in {"mirror", "process", "probe"} /\ n \in 0 .. 2
             \/ Kind = "file" /\ n \in 0 .. 1
             \/ Kind = "load" /\ n = 0
    <3>1. CASE InjectWheel
      BY <3>1 DEF InjectWheel
    <3>2. CASE InjectProcess
      BY <3>2 DEF InjectProcess
    <3>3. CASE InjectProbe
      BY <3>3 DEF InjectProbe
    <3>4. CASE InjectFile
      BY <3>4 DEF InjectFile
    <3>5. CASE InjectLoad
      BY <3>5 DEF InjectLoad
    <3>6. QED
      BY <1>2, <3>1, <3>2, <3>3, <3>4, <3>5
  <2>2. UNCHANGED <<mirror, memory>>
    BY <1>2 DEF InjectWheel, InjectProcess, InjectProbe, InjectFile, InjectLoad
  <2>3. MemoryShape' /\ n \in Nat
    BY <2>2 DEF ClusterShape, MemoryShape
  <2>4. QED
    BY <1>1, <2>1, <2>2, <2>3, IntoPodTraced
<1>3. ASSUME InjectMirror
      PROVE  InjectionIsTraced
  <2>1. Kind = "mirror"
    BY <1>3 DEF InjectMirror
  <2>2. CASE MirrorFails
    BY <2>2 DEF MirrorFails, Injected, ClusterShape, InjectionIsTraced
  <2>3. CASE MirrorDeployed /\ \E n \in 0 .. 2 : IntoPod(n)
    <3>1. PICK n \in 0 .. 2 : IntoPod(n)
      BY <2>3
    <3> DEFINE w == [memory[Scenario] EXCEPT !.mirror = TRUE]
    <3>2. w = [image |-> memory[Scenario].image, note |-> memory[Scenario].note, mirror |-> TRUE]
      BY VictimShape, MemoryExcept DEF IsMemory
    <3>3. w = [image |-> w.image, note |-> w.note, mirror |-> w.mirror]
      BY <3>2
    <3>4. Remembers(w)
      BY <2>3 DEF MirrorDeployed
    <3> HIDE DEF w
    <3>5. MemoryShape' /\ n \in Nat
      BY <3>3, <3>4, RemembersOnly DEF MemoryShape
    <3>6. QED
      BY <1>1, <2>1, <3>1, <3>5, IntoPodTraced
  <2>4. QED
    BY <1>3, <2>2, <2>3 DEF InjectMirror
<1>4. QED
  BY <1>1, <1>2, <1>3, InjectImageTraced, InjectUpdateTraced, InjectRestartTraced DEF Inject

\* A recovery that says that it succeeded, of what was injected into clean services.
RecoveryIsUndone ==
  /\ ClusterShape'
  /\ InPlace /\ outcome'.recovered = TRUE => Undone'

LEMMA PlacedUndone ==
  ASSUME CampaignTyped, ClusterShape, UNCHANGED <<campaign, attempt, results>>, MemoryShape',
         NEW v, Placed(v),
         InPlace /\ outcome'.recovered = TRUE
           => /\ v.image = "clean" /\ v.note = "absent" /\ ~mirror'
              /\ v.pod \subseteq Tolerated(Service) \cup LeftBy(Scenario)
  PROVE  RecoveryIsUndone
<1>1. ClusterShape'
  BY PlacedShape
<1>2. ASSUME InPlace, outcome'.recovered = TRUE
      PROVE  Undone'
  <2>1. Victim' = v /\ OthersTidy'
    BY <1>2, Placement DEF InPlace
  <2>2. QED
    BY <1>2, <2>1, ToleratedStays DEF Undone, Tidy
<1>3. QED
  BY <1>1, <1>2 DEF RecoveryIsUndone

\* A recovery that failed promises nothing.
LEMMA RecoveredTells ==
  ASSUME CampaignTyped, NEW ok \in BOOLEAN, Recovered(ok)
  PROVE  outcome'.recovered = ok /\ step' = "post"
BY DEF Recovered, CampaignTyped, ScenarioResults

LEMMA FailedUndoesNothing ==
  ASSUME CampaignTyped, ClusterShape, UNCHANGED <<deployed, memory>>, Recovered(FALSE)
  PROVE  RecoveryIsUndone
BY RecoveredTells DEF RecoveryIsUndone, ClusterShape

LEMMA RecoverIsUndone ==
  ASSUME CampaignTyped, ClusterShape, Recover
  PROVE  RecoveryIsUndone
<1>1. IsService(Victim) /\ IsMemory(memory[Scenario])
  BY VictimShape DEF IsService, IsMemory
<1>2. UNCHANGED <<campaign, attempt, results>>
  BY DEF Recover
<1>3. UNCHANGED memory => MemoryShape'
  BY DEF ClusterShape, MemoryShape
\* A new pod alone: all that it holds was there before, and what may stay of it is allowed.
<1>4. ASSUME NEW pods, Became([Victim EXCEPT !.pod = pods]), MemoryShape',
             Kind # "image", Kind # "update",
             InPlace /\ outcome'.recovered = TRUE
               => ~mirror' /\ pods \subseteq Tolerated(Service) \cup LeftBy(Scenario)
      PROVE  RecoveryIsUndone
  <2> DEFINE v == [Victim EXCEPT !.pod = pods]
  <2>1. v = [image |-> Victim.image, note |-> Victim.note, pod |-> pods]
    BY <1>1, PodExcept
  <2>2. Became(v) /\ v.image = Victim.image /\ v.note = Victim.note /\ v.pod = pods
    BY <1>4, <2>1
  <2> HIDE DEF v
  <2>3. Placed(v)
    BY <2>1, <2>2 DEF Placed
  <2>4. InPlace => v.image = "clean" /\ v.note = "absent"
    BY <1>4, <2>2 DEF InPlace
  <2>5. QED
    BY <1>2, <1>4, <2>2, <2>3, <2>4, PlacedUndone
<1>5. ASSUME NEW removed, Kind # "image", Kind # "update", MemoryShape',
             Became([Victim EXCEPT !.pod = @ \ removed]),
             outcome'.recovered = TRUE => Introduced[Kind] \ removed \subseteq LeftBy(Scenario),
             InPlace /\ outcome'.recovered = TRUE => ~mirror'
      PROVE  RecoveryIsUndone
  <2>1. [Victim EXCEPT !.pod = @ \ removed] = [Victim EXCEPT !.pod = Victim.pod \ removed]
    BY <1>1, ShrunkExcept, PodExcept
  <2>2. Became([Victim EXCEPT !.pod = Victim.pod \ removed])
    BY <1>5, <2>1
  <2>3. InPlace => Victim.pod \subseteq Tolerated(Service) \cup Introduced[Kind]
    BY DEF InPlace
  <2>4. InPlace /\ outcome'.recovered = TRUE
          => Victim.pod \ removed \subseteq Tolerated(Service) \cup LeftBy(Scenario)
    BY <1>5, <2>3
  <2>5. QED
    BY <1>4, <1>5, <2>2, <2>4
<1>6. ASSUME RecoverWheel PROVE RecoveryIsUndone
  <2>1. /\ Kind = "wheel" /\ UNCHANGED <<mirror, memory>>
        /\ \/ Became([Victim EXCEPT !.pod = FromImage(Victim.image)])
           \/ UNCHANGED deployed /\ Recovered(FALSE)
    BY <1>6 DEF RecoverWheel
  <2>2. InPlace => ~mirror' /\ FromImage(Victim.image) = {}
    BY <2>1, FromImages DEF InPlace
  <2>3. QED
    BY <1>3, <1>4, <2>1, <2>2, FailedUndoesNothing
<1>7. ASSUME RecoverFile PROVE RecoveryIsUndone
  <2>1. /\ Kind = "file" /\ UNCHANGED <<mirror, memory>>
        /\ \/ Became([Victim EXCEPT !.pod = @ \ {"file"}])
           \/ UNCHANGED deployed /\ Recovered(FALSE)
    BY <1>7 DEF RecoverFile
  <2>2. Introduced[Kind] \ {"file"} \subseteq LeftBy(Scenario)
    BY <2>1 DEF Introduced
  <2>3. (InPlace => ~mirror') /\ MemoryShape' /\ Kind # "image" /\ Kind # "update"
    BY <1>3, <2>1 DEF InPlace
  <2>4. CASE Became([Victim EXCEPT !.pod = @ \ {"file"}])
    BY <1>5, <2>2, <2>3, <2>4
  <2>5. CASE UNCHANGED deployed /\ Recovered(FALSE)
    BY <2>1, <2>5, FailedUndoesNothing
  <2>6. QED
    BY <2>1, <2>4, <2>5
<1>8. ASSUME RecoverProcess \/ RecoverProbe PROVE RecoveryIsUndone
  <2>1. PICK removed :
          /\ Became([Victim EXCEPT !.pod = @ \ removed]) /\ UNCHANGED <<mirror, memory>>
          /\ \E ok \in BOOLEAN :
               /\ Recovered(ok)
               /\ \/ Kind = "process" /\ (ok => "script" \in removed)
                  \/ Kind = "probe" /\ (ok => "probe script" \in removed)
    BY <1>8 DEF RecoverProcess, RecoverProbe
  <2>2. PICK ok \in BOOLEAN :
          /\ Recovered(ok)
          /\ \/ Kind = "process" /\ (ok => "script" \in removed)
             \/ Kind = "probe" /\ (ok => "probe script" \in removed)
    BY <2>1
  <2>3. outcome'.recovered = ok
    BY <2>2, RecoveredTells
  <2>4. ASSUME ok = TRUE
        PROVE  Introduced[Kind] \ removed \subseteq LeftBy(Scenario)
    <3>1. CASE Kind = "process" /\ "script" \in removed
      BY <3>1, LeftByKinds DEF Introduced
    <3>2. CASE Kind = "probe" /\ "probe script" \in removed
      BY <3>2, LeftByKinds DEF Introduced
    <3>3. QED
      BY <2>2, <2>4, <3>1, <3>2
  <2>5. InPlace => ~mirror'
    BY <2>1, <2>2 DEF InPlace
  <2>6. Kind # "image" /\ Kind # "update" /\ MemoryShape'
    BY <1>3, <2>1, <2>2
  <2>7. Became([Victim EXCEPT !.pod = @ \ removed])
    BY <2>1
  <2>8. outcome'.recovered = TRUE => Introduced[Kind] \ removed \subseteq LeftBy(Scenario)
    BY <2>3, <2>4
  <2>9. QED
    BY <1>5, <2>5, <2>6, <2>7, <2>8
<1>9. ASSUME RecoverMirror PROVE RecoveryIsUndone
  <2> DEFINE w == [memory[Scenario] EXCEPT !.mirror = FALSE]
  <2>1. PICK removed : Kind = "mirror" /\ Became([Victim EXCEPT !.pod = @ \ removed])
    BY <1>9 DEF RecoverMirror
  <2>2. \/ mirror' = FALSE /\ Remembers(w) /\ Recovered(TRUE)
        \/ UNCHANGED memory /\ Recovered(FALSE)
    BY <1>9 DEF RecoverMirror
  <2>3. w = [image |-> memory[Scenario].image, note |-> memory[Scenario].note, mirror |-> FALSE]
    BY <1>1, MemoryExcept
  <2>4. w = [image |-> w.image, note |-> w.note, mirror |-> w.mirror]
    BY <2>3
  <2> HIDE DEF w
  <2>5. MemoryShape'
    BY <1>3, <2>2, <2>4, RemembersOnly DEF MemoryShape
  <2>6. outcome'.recovered = TRUE => ~mirror'
    BY <2>2, RecoveredTells
  <2>7. Introduced[Kind] \ removed \subseteq LeftBy(Scenario)
    BY <2>1, LeftByKinds DEF Introduced
  <2>8. Kind # "image" /\ Kind # "update" /\ Became([Victim EXCEPT !.pod = @ \ removed])
    BY <2>1
  <2>9. QED
    BY <1>5, <2>5, <2>6, <2>7, <2>8
<1>10. ASSUME RecoverImage PROVE RecoveryIsUndone
  <2>1. /\ Kind = "image" /\ UNCHANGED <<mirror, memory>>
        /\ \/ \E pods \in Rolling(memory[Scenario].image) :
                Became([Victim EXCEPT !.image = memory[Scenario].image, !.pod = pods])
           \/ UNCHANGED deployed /\ Recovered(FALSE)
    BY <1>10 DEF RecoverImage, ImageIsSet
  <2>2. ASSUME NEW pods \in Rolling(memory[Scenario].image),
               Became([Victim EXCEPT !.image = memory[Scenario].image, !.pod = pods])
        PROVE  RecoveryIsUndone
    <3> DEFINE v == [Victim EXCEPT !.image = memory[Scenario].image, !.pod = pods]
    <3>1. v = [image |-> memory[Scenario].image, note |-> Victim.note, pod |-> pods]
      BY <1>1, ImageExcept
    <3>2. /\ Became(v) /\ v.image = memory[Scenario].image /\ v.note = Victim.note
          /\ v.pod = pods
      BY <2>2, <3>1
    <3> HIDE DEF v
    <3>3. Placed(v)
      BY <3>1, <3>2 DEF Placed
    <3>4. ASSUME InPlace
          PROVE  /\ v.image = "clean" /\ v.note = "absent" /\ ~mirror'
                 /\ v.pod \subseteq Tolerated(Service) \cup LeftBy(Scenario)
      <4>1. /\ memory[Scenario].image = "clean" /\ Victim.note = "absent" /\ ~mirror
            /\ Victim.pod \subseteq Tolerated(Service) \cup {"process"}
        BY <2>1, <3>4 DEF InPlace, Introduced
      <4>2. pods = {} \/ pods = Victim.pod
        BY <2>2, <4>1, FromImages DEF Rolling
      <4>3. LeftBy(Scenario) = {"process"}
        BY <2>1, LeftByKinds
      <4>4. QED
        BY <2>1, <3>2, <4>1, <4>2, <4>3
    <3>5. QED
      BY <1>2, <1>3, <2>1, <3>3, <3>4, PlacedUndone
  <2>3. QED
    BY <2>1, <2>2, FailedUndoesNothing
<1>11. ASSUME RecoverUpdate PROVE RecoveryIsUndone
  <2>1. /\ Kind = "update" /\ UNCHANGED <<mirror, memory>>
        /\ \/ \E ok \in BOOLEAN :
              \E pods \in IF ok THEN Annotated(memory[Scenario].note) ELSE Rolling(Victim.image) :
                Became([Victim EXCEPT !.note = memory[Scenario].note, !.pod = pods]) /\ Recovered(ok)
           \/ UNCHANGED deployed /\ Recovered(FALSE)
    BY <1>11 DEF RecoverUpdate
  <2>2. ASSUME NEW ok \in BOOLEAN,
               NEW pods \in IF ok THEN Annotated(memory[Scenario].note) ELSE Rolling(Victim.image),
               Became([Victim EXCEPT !.note = memory[Scenario].note, !.pod = pods]), Recovered(ok)
        PROVE  RecoveryIsUndone
    <3> DEFINE v == [Victim EXCEPT !.note = memory[Scenario].note, !.pod = pods]
    <3>1. v = [image |-> Victim.image, note |-> memory[Scenario].note, pod |-> pods]
      BY <1>1, NoteExcept
    <3>2. /\ Became(v) /\ v.image = Victim.image /\ v.note = memory[Scenario].note
          /\ v.pod = pods
      BY <2>2, <3>1
    <3> HIDE DEF v
    <3>3. Placed(v)
      BY <3>1, <3>2 DEF Placed
    <3>4. ASSUME InPlace, outcome'.recovered = TRUE
          PROVE  /\ v.image = "clean" /\ v.note = "absent" /\ ~mirror'
                 /\ v.pod \subseteq Tolerated(Service) \cup LeftBy(Scenario)
      <4>1. /\ memory[Scenario].note = "absent" /\ Victim.image = "clean" /\ ~mirror
            /\ Victim.pod \subseteq Tolerated(Service)
        BY <2>1, <3>4 DEF InPlace, Introduced
      <4>2. ok = TRUE
        BY <2>2, <3>4, RecoveredTells
      <4>3. pods = {} \/ pods = Victim.pod
        BY <2>2, <4>1, <4>2, FromImages DEF Annotated
      <4>4. QED
        BY <2>1, <3>2, <4>1, <4>3
    <3>5. QED
      BY <1>2, <1>3, <2>1, <3>3, <3>4, PlacedUndone
  <2>3. QED
    BY <2>1, <2>2, FailedUndoesNothing
<1>12. ASSUME RecoverNothing PROVE RecoveryIsUndone
  <2>1. Kind \in {"load", "restart"} /\ UNCHANGED <<deployed, mirror, memory>>
    BY <1>12 DEF RecoverNothing
  <2>2. ASSUME InPlace PROVE Undone'
    <3>1. /\ Victim.image = "clean" /\ Victim.note = "absent" /\ ~mirror
          /\ Victim.pod \subseteq Tolerated(Service)
      <4>1. Introduced[Kind] = {}
        <5>1. CASE Kind = "load"
          BY <5>1 DEF Introduced
        <5>2. CASE Kind = "restart"
          BY <5>2 DEF Introduced
        <5>3. QED
          BY <2>1, <5>1, <5>2
      <4>2. QED
        BY <2>1, <2>2, <4>1 DEF InPlace
    <3>2. OthersTidy' = OthersTidy /\ Victim' = Victim
      <4>1. Victim' = Victim
        BY <1>2, <2>1, ToleratedStays DEF Victim
      <4>2. OthersTidy' = OthersTidy
        BY <1>2, <2>1, ToleratedStays DEF OthersTidy, Tolerated, Tidy
      <4>3. QED
        BY <4>1, <4>2
    <3>3. QED
      BY <1>2, <2>1, <2>2, <3>1, <3>2, ToleratedStays DEF Undone, InPlace, Tidy
  <2>3. QED
    BY <2>1, <2>2 DEF RecoveryIsUndone, ClusterShape
<1>13. QED
  BY <1>6, <1>7, <1>8, <1>9, <1>10, <1>11, <1>12 DEF Recover

\* A step that changes neither the cluster nor the results.
LEMMA QuietStep ==
  ASSUME CampaignInv, ClusterInv,
         UNCHANGED <<campaign, attempt, deployed, mirror, memory, results>>,
         \/ step' = step /\ (step \in {"post", "save"} => outcome' = outcome)
         \/ step = "discover" /\ step' = "inject"
         \/ step \in {"preflight", "discover"} /\ step' \in {"discover", "refused", "planned"}
         \/ step' \in {"stopped", "done"}
         \/ step' = "save" /\ outcome'.injected # TRUE
         \/ step \in {"verify", "observe"} /\ step' \in {"observe", "recover"}
         \/ step = "post" /\ step' = "save" /\ outcome' = outcome
  PROVE  ClusterInv'
<1>1. AllPromise' = AllPromise /\ Pristine' = Pristine /\ InPlace' = InPlace /\ Undone' = Undone
  <2>1. AllPromise' = AllPromise
    BY DEF AllPromise, Promises
  <2>2. Pristine' = Pristine
    BY DEF Pristine, Tidy, Tolerated
  <2>3. OthersTidy' = OthersTidy
    BY ToleratedStays DEF OthersTidy, Tidy, Tolerated
  <2>4. InPlace' = InPlace
    BY <2>3, ToleratedStays DEF InPlace, Victim
  <2>5. Undone' = Undone
    BY <2>3, ToleratedStays DEF Undone, Victim, Tidy
  <2>6. QED
    BY <2>1, <2>2, <2>4, <2>5
<1>2. outcome' = outcome => Promises(outcome)' = Promises(outcome)
  BY DEF Promises
<1>3. ClusterShape'
  BY DEF ClusterInv, ClusterShape
<1>4. outcome'.injected # TRUE => ~ Promises(outcome)'
  BY DEF Promises
<1>5. NothingElseIsLeft'
  BY <1>1, <1>2, <1>4 DEF ClusterInv, NothingElseIsLeft
<1>6. QED
  BY <1>3, <1>5 DEF ClusterInv

LEMMA ClusterStep ==
  ASSUME CampaignInv, ClusterInv, [CampaignNext]_campaignVars
  PROVE  ClusterInv'
<1>1. CampaignTyped /\ ClusterShape
  BY DEF CampaignInv, ClusterInv
<1>2. CASE UNCHANGED campaignVars
  BY <1>2, QuietStep DEF campaignVars
<1>3. CASE SafetyPreflight \/ PreflightFails \/ Begin \/ Aborts \/ Verify \/ Poll \/ PollFails
           \/ EndOfPhase \/ PostRecovery \/ WriteIndex
  <2>1. UNCHANGED <<campaign, attempt, deployed, mirror, memory, results>>
    BY <1>3 DEF SafetyPreflight, PreflightFails, Begin, Aborts, Verify, Poll, PollFails,
       EndOfPhase, PostRecovery, WriteIndex
  <2>2. \/ step = "discover" /\ step' = "inject"
        \/ step \in {"preflight", "discover"} /\ step' \in {"discover", "refused", "planned"}
        \/ step' \in {"stopped", "done"}
        \/ step \in {"verify", "observe"} /\ step' \in {"observe", "recover"}
        \/ step = "post" /\ step' = "save" /\ outcome' = outcome
    BY <1>3 DEF SafetyPreflight, PreflightFails, Begin, Aborts, Verify, Poll, PollFails,
       EndOfPhase, PostRecovery, WriteIndex
  <2>3. QED
    BY <2>1, <2>2, QuietStep
<1>4. CASE NoPod \/ Raises
  <2>1. /\ UNCHANGED <<campaign, attempt, deployed, mirror, memory, results>> /\ step' = "save"
        /\ \/ outcome' = [NewResult EXCEPT !.injected = FALSE, !.failed = TRUE]
           \/ outcome' = [NewResult EXCEPT !.failed = TRUE]
    BY <1>4 DEF NoPod, Raises
  <2>2. outcome'.injected # TRUE
    BY <2>1, UnknownAssumption DEF NewResult
  <2>3. QED
    BY <2>1, <2>2, QuietStep
<1>5. CASE Inject
  <2>1. /\ step = "inject" /\ UNCHANGED <<campaign, attempt, results>> /\ InjectionIsTraced
    BY <1>1, <1>5, InjectEnds, InjectIsTraced
  <2>2. PICK ok \in BOOLEAN : Injected(ok)
    BY <1>5, InjectEnds
  <2>3. step' = (IF ok THEN "verify" ELSE "save") /\ outcome'.injected = ok
    BY <1>1, <2>2 DEF Injected, CampaignTyped, ScenarioResults
  <2>4. AllPromise' = AllPromise
    BY <2>1 DEF AllPromise, Promises
  <2>5. AllPromise => Pristine
    BY <2>1 DEF ClusterInv, NothingElseIsLeft
  <2>6. CASE ok = TRUE
    BY <2>1, <2>3, <2>4, <2>5, <2>6 DEF InjectionIsTraced, ClusterInv, NothingElseIsLeft
  <2>7. CASE ok = FALSE
    BY <2>1, <2>3, <2>7 DEF InjectionIsTraced, ClusterInv, NothingElseIsLeft, Promises
  <2>8. QED
    BY <2>6, <2>7
<1>6. CASE Recover
  <2>1. step = "recover" /\ UNCHANGED <<campaign, attempt, results>> /\ RecoveryIsUndone
    BY <1>1, <1>6, RecoverEnds, RecoverIsUndone
  <2>2. step' = "post"
    BY <1>6, RecoverEnds DEF Recovered
  <2>3. AllPromise' = AllPromise
    BY <2>1 DEF AllPromise, Promises
  <2>4. Promises(outcome)' => outcome'.recovered = TRUE
    BY DEF Promises
  <2>5. AllPromise => InPlace
    BY <2>1 DEF ClusterInv, NothingElseIsLeft
  <2>6. QED
    BY <2>1, <2>2, <2>3, <2>4, <2>5 DEF RecoveryIsUndone, ClusterInv, NothingElseIsLeft
<1>7. CASE SaveResult
  <2>1. /\ step = "save" /\ step' = "receipt" /\ results' = Append(results, outcome)
        /\ UNCHANGED <<deployed, mirror, memory, outcome>>
    BY <1>7 DEF SaveResult
  <2>2. outcome \in ScenarioResults /\ results \in Seq(ScenarioResults)
    BY <1>1 DEF CampaignTyped
  <2>3. /\ Len(results') = Len(results) + 1 /\ Len(results) \in Nat
        /\ \A i \in 1 .. Len(results) : results'[i] = results[i]
        /\ results'[Len(results) + 1] = outcome
    BY <2>1, <2>2
  <2>4. AllPromise' => AllPromise /\ Promises(outcome)
    <3>1. \A i \in 1 .. Len(results) : i \in 1 .. Len(results')
      BY <2>3
    <3>2. Len(results) + 1 \in 1 .. Len(results')
      BY <2>3
    <3>3. QED
      BY <2>3, <3>1, <3>2 DEF AllPromise, Promises
  <2>5. ASSUME Undone
        PROVE  Pristine'
    <3>1. outcome.scenario = Scenario
      BY <2>1 DEF CampaignInv, OutcomeIsOwn, Running
    <3>2. ASSUME NEW CONSTANT s \in Services
          PROVE  Tidy(deployed[s], Tolerated(s))'
      <4>1. /\ Tolerated(s) \subseteq Tolerated(s)'
            /\ s = Service => LeftBy(Scenario) \subseteq Tolerated(s)'
        BY <2>1, <2>2, <3>1, ToleratedGrows DEF Service
      <4>2. CASE s = Service
        BY <2>1, <2>5, <4>1, <4>2 DEF Undone, Tidy, Victim
      <4>3. CASE s # Service
        BY <2>1, <2>5, <4>1, <4>3 DEF Undone, OthersTidy, Tidy
      <4>4. QED
        BY <4>2, <4>3
    <3>3. ~mirror'
      BY <2>1, <2>5 DEF Undone
    <3>4. QED
      BY <3>2, <3>3 DEF Pristine
  <2>6. ClusterShape'
    BY <1>1, <2>1 DEF ClusterShape
  <2>7. QED
    BY <2>1, <2>4, <2>5, <2>6 DEF ClusterInv, NothingElseIsLeft
<1>8. CASE PersistReceipt
  <2>1. step = "receipt" /\ step' \in {"discover", "index"}
        /\ UNCHANGED <<deployed, mirror, memory, results>>
    BY <1>8 DEF PersistReceipt
  <2>2. ClusterShape' /\ Pristine' = Pristine /\ AllPromise' = AllPromise
    <3>1. ClusterShape'
      BY <1>1, <2>1 DEF ClusterShape
    <3>2. Pristine' = Pristine
      BY <2>1 DEF Pristine, Tidy, Tolerated
    <3>3. AllPromise' = AllPromise
      BY <2>1 DEF AllPromise, Promises
    <3>4. QED
      BY <3>1, <3>2, <3>3
  <2>3. QED
    BY <2>1, <2>2 DEF ClusterInv, NothingElseIsLeft
<1>9. QED
  BY <1>2, <1>3, <1>4, <1>5, <1>6, <1>7, <1>8 DEF CampaignNext

\* ResidueIsReported: in clean services an attack object notes what was clean before it
\* changes it; what recover() sets back when it answers TRUE is what was noted, and what
\* it has not looked at is allowed for by the result of the run.
THEOREM ResidueIsAlwaysReported == CampaignSpec => []ResidueIsReported
<1>1. CampaignInit => ClusterInv
  <2>1. SUFFICES ASSUME NEW c \in Campaigns, Ordered(c)
                 PROVE  ClusterInv
    BY DEF CampaignInit
  <2>2. /\ step = "preflight" /\ deployed = Clean /\ mirror = FALSE
        /\ memory = [s \in Scenarios |-> [image |-> Unknown, note |-> Unknown, mirror |-> FALSE]]
    BY <2>1 DEF Ordered
  <2>3. ClusterShape
    BY <2>2 DEF ClusterShape, Clean
  <2>4. Pristine
    BY <2>2 DEF Pristine, Clean, Tidy
  <2>5. NothingElseIsLeft
    BY <2>2, <2>4 DEF NothingElseIsLeft
  <2>6. QED
    BY <2>3, <2>5 DEF ClusterInv
<1>2. CampaignInv /\ ClusterInv /\ [CampaignNext]_campaignVars => ClusterInv'
  BY ClusterStep
<1>3. ASSUME CampaignInv, ClusterInv PROVE ResidueIsReported
  <2>1. DOMAIN results = 1 .. Len(results)
    BY <1>3 DEF CampaignInv, CampaignTyped
  <2>2. AllPromise /\ step = "discover" => Pristine
    BY <1>3 DEF ClusterInv, NothingElseIsLeft
  <2>3. QED
    BY <2>1, <2>2 DEF Pristine, Tidy, AllPromise, Promises, ResidueIsReported
<1>4. QED
  BY <1>1, <1>2, <1>3, CampaignInvariance, PTL DEF CampaignSpec

-----------------------------------------------------------------------------
(* The analysis of runs: the observations that are made *)

Reasons == {"failed_injection", "incomplete_run", "unknown_outcome"}
TableRows == [run : Nat, window : {0}, t : {0, 1}, y : {0, 1}, x : STRING]
Phased == {"build", "gate", "model", "identify", "estimate", "refute", "done"}
Reported ==
  [status : {Absent, "completed", "insufficient_evidence", "not_identifiable",
             "ambiguous_component", "estimation_failed", "invalid_graph", "raised"},
   ate : {"finite", "nan", Absent}, confidence : Int]

\* How many runs were looked at.
Judged == Len(built) + Len(excluded)

CausalTyped ==
  /\ archive \in Seq(RunManifests) /\ request \in Questions
  /\ built \in Seq(TableRows) /\ excluded \in Seq(Reasons)
  /\ phase \in Phased
  /\ estimate \in [ate : {"finite", "nan", Absent}, width : {0, 6, 9}]
  /\ result \in Reported

\* The runs are looked at one after the other, each makes one observation at most.
ObservationsAreOwn ==
  /\ Judged <= Len(archive)
  /\ phase # "build" => Judged = Len(archive)
  /\ \A i \in 1 .. Len(built) :
       /\ built[i].run \in 1 .. Judged
       /\ Exclusion(archive[built[i].run]) = Absent
       /\ built[i] = Observation(built[i].run)
  /\ \A i, j \in 1 .. Len(built) : built[i].run = built[j].run => i = j

\* The analysis of one run has one run; a batch does not get behind the gates.
TasksArePlaced ==
  /\ Task = "analysis" => Len(archive) = 1
  /\ phase \in {"model", "identify", "estimate", "refute"} => Task # "batch"

Estimating == {"identify", "estimate", "refute"}

ComparedOnly ==
  phase \in Estimating \/ result.status = "completed" =>
    Task # "batch" /\ Varies /\ Positivity

ScoresAreShares ==
  /\ phase # "done" => result = NoResult
  /\ result.confidence \in 0 .. One
  /\ result.confidence > 0 => result.status = "completed" /\ result.ate = "finite"

CausalInv ==
  CausalTyped /\ ObservationsAreOwn /\ TasksArePlaced /\ ComparedOnly /\ ScoresAreShares

LEMMA Decided ==
  ASSUME NEW m \in RunManifests, Exclusion(m) = Absent
  PROVE  /\ m.completed /\ ~FailedInjection(m)
         /\ Outcome(m) \in {0, 1} /\ Outcome(m) \in Established(m)
<1>1. m.completed /\ ~FailedInjection(m) /\ Outcome(m) # Absent
  BY AbsentAssumption DEF Exclusion
<1>2. Outcome(m) \in {0, 1}
  BY <1>1 DEF Outcome
<1>3. CASE Positive(m)
  <2>1. Outcome(m) = 1
    BY <1>3 DEF Outcome
  <2>2. 1 \in Established(m)
    BY <1>3 DEF Positive, Established
  <2>3. QED
    BY <1>1, <2>1, <2>2
<1>4. CASE ~Positive(m)
  <2>1. Outcome(m) = 0 /\ Negative(m)
    BY <1>1, <1>4 DEF Outcome
  <2>2. 0 \in Established(m)
    BY <2>1 DEF Negative, Established
  <2>3. QED
    BY <1>1, <2>1, <2>2
<1>5. QED
  BY <1>3, <1>4

LEMMA ObservationTyped ==
  ASSUME CausalTyped, NEW i \in 1 .. Len(archive), Exclusion(archive[i]) = Absent
  PROVE  Observation(i) \in TableRows /\ Observation(i).run = i
<1>1. archive[i] \in RunManifests
  BY DEF CausalTyped
<1>2. Outcome(archive[i]) \in {0, 1}
  BY <1>1, Decided
<1>3. archive[i].stratum \in STRING
  BY <1>1 DEF RunManifests
<1>4. Treatment(archive[i]) \in {0, 1}
  BY DEF Treatment
<1>5. QED
  BY <1>2, <1>3, <1>4 DEF Observation, TableRows

LEMMA BuildKeeps ==
  ASSUME CausalInv, Build
  PROVE  CausalInv'
<1> DEFINE i == Judged + 1
           m == archive[i]
<1>1. CausalTyped /\ ObservationsAreOwn /\ TasksArePlaced /\ ComparedOnly /\ ScoresAreShares
  BY DEF CausalInv
<1>2. phase = "build" /\ UNCHANGED <<archive, request, estimate, result>>
  BY DEF Build
<1>3. Judged \in Nat /\ Len(built) \in Nat /\ Len(excluded) \in Nat /\ Len(archive) \in Nat
  BY <1>1 DEF CausalTyped, Judged
<1>5. result = NoResult /\ NoResult.status # "completed" /\ NoResult' = NoResult
  BY <1>1, <1>2, AbsentAssumption DEF ScoresAreShares, NoResult
<1>6. CASE i > Len(archive)
  <2>1. /\ phase' = IF Task = "attribution" THEN "model" ELSE "gate"
        /\ UNCHANGED <<built, excluded>>
    BY <1>6 DEF Build, Judged
  <2>2. CausalTyped'
    BY <1>1, <1>2, <2>1 DEF CausalTyped, Phased
  <2>3. Judged = Len(archive) /\ Judged' = Judged
    BY <1>1, <1>3, <1>6, <2>1 DEF ObservationsAreOwn, Judged
  <2>4. ObservationsAreOwn'
    BY <1>1, <1>2, <2>1, <2>3 DEF ObservationsAreOwn, Observation, Treatment
  <2>5. TasksArePlaced'
    BY <1>1, <1>2, <2>1 DEF TasksArePlaced, Task
  <2>6. ComparedOnly' /\ ScoresAreShares'
    BY <1>1, <1>2, <1>5, <2>1 DEF ComparedOnly, ScoresAreShares, Estimating
  <2>7. QED
    BY <2>2, <2>4, <2>5, <2>6 DEF CausalInv
<1>7. CASE ~ (i > Len(archive))
  <2>1. i \in 1 .. Len(archive) /\ UNCHANGED phase
    BY <1>3, <1>7 DEF Build, Judged
  <2>2. m \in RunManifests
    BY <1>1, <2>1 DEF CausalTyped
  <2>3. /\ built' \in Seq(TableRows) /\ excluded' \in Seq(Reasons)
        /\ Judged' = i
        /\ \A k \in 1 .. Len(built') :
             \/ k \in 1 .. Len(built) /\ built'[k] = built[k]
             \/ k = Len(built) + 1 /\ built'[k] = Observation(i) /\ Exclusion(m) = Absent
    <3>1. CASE Exclusion(m) = Absent
      <4>1. built' = Append(built, Observation(i)) /\ UNCHANGED excluded
        BY <1>7, <3>1 DEF Build, Judged
      <4>2. Observation(i) \in TableRows
        BY <1>1, <2>1, <3>1, ObservationTyped
      <4>3. built \in Seq(TableRows) /\ excluded \in Seq(Reasons)
        BY <1>1 DEF CausalTyped
      <4> HIDE DEF i, m
      <4>4. /\ built' \in Seq(TableRows) /\ Len(built') = Len(built) + 1
            /\ built'[Len(built) + 1] = Observation(i)
            /\ \A k \in 1 .. Len(built) : built'[k] = built[k]
        BY <4>1, <4>2, <4>3
      <4>5. Judged' = i
        BY <1>3, <4>1, <4>4 DEF Judged, i
      <4>6. QED
        BY <1>3, <3>1, <4>1, <4>3, <4>4, <4>5
    <3>2. CASE Exclusion(m) # Absent
      <4>1. excluded' = Append(excluded, Exclusion(m)) /\ UNCHANGED built
        BY <1>7, <3>2 DEF Build, Judged
      <4>2. Exclusion(m) \in Reasons
        BY <3>2 DEF Exclusion, Reasons
      <4>3. built \in Seq(TableRows) /\ excluded \in Seq(Reasons)
        BY <1>1 DEF CausalTyped
      <4> HIDE DEF i, m
      <4>4. excluded' \in Seq(Reasons) /\ Len(excluded') = Len(excluded) + 1
        BY <4>1, <4>2, <4>3
      <4>5. Judged' = i
        BY <1>3, <4>1, <4>4 DEF Judged, i
      <4>6. QED
        BY <4>1, <4>3, <4>4, <4>5
    <3>3. QED
      BY <3>1, <3>2
  <2>4. CausalTyped'
    BY <1>1, <1>2, <2>1, <2>3 DEF CausalTyped
  <2>5. Observation(i).run = i
    BY DEF Observation
  <2>6. \A k \in 1 .. Len(built) : built[k].run \in 1 .. Judged
    BY <1>1 DEF ObservationsAreOwn
  <2>7. ObservationsAreOwn'
    <3> HIDE DEF i
    <3>1. \A k \in 1 .. Len(built') :
            \/ k \in 1 .. Len(built) /\ built'[k].run = built[k].run /\ built'[k].run < i
            \/ k = Len(built) + 1 /\ built'[k].run = i
      BY <1>3, <2>3, <2>5, <2>6 DEF i
    <3>2. \A k, l \in 1 .. Len(built') : built'[k].run = built'[l].run => k = l
      <4>1. \A k, l \in 1 .. Len(built) : built[k].run = built[l].run => k = l
        BY <1>1 DEF ObservationsAreOwn
      <4>2. SUFFICES ASSUME NEW k \in 1 .. Len(built'), NEW l \in 1 .. Len(built'),
                            built'[k].run = built'[l].run
                     PROVE  k = l
        OBVIOUS
      <4>3. i \in Nat
        BY <1>3 DEF i
      <4>4. QED
        BY <3>1, <4>1, <4>2, <4>3
    <3>3. ASSUME NEW k \in 1 .. Len(built')
          PROVE  /\ built'[k].run \in 1 .. i
                 /\ Exclusion(archive[built'[k].run]) = Absent
                 /\ built'[k] = Observation(built'[k].run)
      <4>1. CASE k \in 1 .. Len(built) /\ built'[k] = built[k]
        <5>1. /\ built[k].run \in 1 .. Judged
              /\ Exclusion(archive[built[k].run]) = Absent
              /\ built[k] = Observation(built[k].run)
          BY <1>1, <4>1 DEF ObservationsAreOwn
        <5>2. QED
          BY <1>3, <4>1, <5>1 DEF i
      <4>2. CASE k = Len(built) + 1 /\ built'[k] = Observation(i) /\ Exclusion(m) = Absent
        BY <2>1, <2>5, <4>2
      <4>3. QED
        BY <2>3, <4>1, <4>2
    <3>4. \A k \in 1 .. Len(built') :
            /\ built'[k].run \in 1 .. Judged'
            /\ Exclusion(archive'[built'[k].run]) = Absent
            /\ (built[k] = Observation(built[k].run))'
      <4>1. archive' = archive /\ request' = request /\ Judged' = i
        BY <1>2, <2>3
      <4>2. QED
        BY <3>3, <4>1 DEF Observation, Treatment
    <3>5. i <= Len(archive)
      BY <2>1
    <3>6. QED
      BY <1>2, <2>1, <2>3, <3>2, <3>4, <3>5 DEF ObservationsAreOwn
  <2>8. TasksArePlaced'
    BY <1>1, <1>2, <2>1 DEF TasksArePlaced, Task
  <2>9. ComparedOnly' /\ ScoresAreShares'
    BY <1>1, <1>2, <1>5, <2>1 DEF ComparedOnly, ScoresAreShares, Estimating
  <2>10. QED
    BY <2>4, <2>7, <2>8, <2>9 DEF CausalInv
<1>8. QED
  BY <1>6, <1>7

Blocked == {"insufficient_evidence", "not_identifiable", "ambiguous_component"}

LEMMA Joined ==
  ASSUME NEW S, NEW a \in Seq(S), NEW b \in Seq(S)
  PROVE  /\ a \o b \in Seq(S) /\ Len(a \o b) = Len(a) + Len(b)
         /\ \A k \in 1 .. Len(b) : (a \o b)[Len(a) + k] = b[k]
OBVIOUS

LEMMA OneIsNumber == One \in Nat
BY CausalSizes, Product DEF One

\* The gates give a status that is no answer, and the mapping of a component is asked
\* of a batch, which has none.
LEMMA GatesRefuse ==
  /\ \A k \in DOMAIN Gates : Gates[k].status \in Blocked
  /\ Task = "batch" => \E k \in DOMAIN Gates : ~Gates[k].passed
<1> DEFINE All == [passed : BOOLEAN, status : Blocked]
           first == <<EnoughObservations>>
           middle == IF Task = "batch" THEN <<UniqueRuns, TreatmentVariation>> ELSE <<>>
           last == <<OutcomePresent, NoDuplicates, MappingQuality>>
<1>1. /\ EnoughObservations \in All /\ UniqueRuns \in All /\ TreatmentVariation \in All
      /\ OutcomePresent \in All /\ NoDuplicates \in All /\ MappingQuality \in All
  BY DEF EnoughObservations, UniqueRuns, TreatmentVariation, OutcomePresent, NoDuplicates,
         MappingQuality, Gate, Blocked
<1>2. Task = "batch" => ~MappingQuality.passed
  BY DEF MappingQuality, MappingStatuses, Gate
<1>3. first \in Seq(All) /\ Len(first) = 1
  BY <1>1
<1>4. middle \in Seq(All) /\ Len(middle) \in Nat
  <2>1. <<UniqueRuns, TreatmentVariation>> \in Seq(All) /\ <<>> \in Seq(All)
    BY <1>1
  <2>2. middle \in Seq(All)
    BY <2>1
  <2> HIDE DEF middle
  <2>3. QED
    BY <2>2
<1>5. last \in Seq(All) /\ Len(last) = 3 /\ last[3] = MappingQuality
  BY <1>1
<1>6. Gates = (first \o middle) \o last
  BY DEF Gates
<1> HIDE DEF All, first, middle, last
<1>7. first \o middle \in Seq(All) /\ Len(first \o middle) = 1 + Len(middle)
  <2>1. first \o middle \in Seq(All) /\ Len(first \o middle) = Len(first) + Len(middle)
    BY ONLY <1>3, <1>4, Joined, Zenon
  <2>2. QED
    BY <1>3, <2>1
<1>8. /\ Gates \in Seq(All) /\ Len(Gates) = 4 + Len(middle)
      /\ Gates[4 + Len(middle)] = last[3]
  <2>1. /\ Gates \in Seq(All) /\ Len(Gates) = Len(first \o middle) + 3
        /\ Gates[Len(first \o middle) + 3] = last[3]
    <3>1. 3 \in 1 .. Len(last)
      BY <1>5
    <3> DEFINE front == first \o middle
               gates == front \o last
    <3> HIDE DEF front
    <3>2. front \in Seq(All) /\ last \in Seq(All)
      BY <1>5, <1>7 DEF front
    <3>3. /\ gates \in Seq(All) /\ Len(gates) = Len(front) + Len(last)
          /\ \A k \in 1 .. Len(last) : gates[Len(front) + k] = last[k]
      BY ONLY <3>2, Joined, Zenon
    <3> HIDE DEF gates
    <3>4. /\ gates \in Seq(All) /\ Len(gates) = Len(front) + Len(last)
          /\ gates[Len(front) + 3] = last[3]
      BY <3>1, <3>3
    <3>5. Gates = gates
      BY <1>6 DEF front, gates
    <3>6. QED
      BY <1>5, <3>4, <3>5 DEF front
  <2>2. QED
    BY <1>4, <1>7, <2>1
<1>9. 4 + Len(middle) \in DOMAIN Gates
  BY <1>4, <1>8
<1>10. \A k \in DOMAIN Gates : Gates[k] \in All
  BY <1>8
<1>11. \A k \in DOMAIN Gates : Gates[k].status \in Blocked
  BY <1>10 DEF All
<1>12. QED
  BY <1>2, <1>5, <1>8, <1>9, <1>11

\* An end that is no answer.
LEMMA EndKeeps ==
  ASSUME CausalInv, phase # "done", NEW s \in Reported,
         result' = s, s.status # "completed", s.ate = Absent, s.confidence = 0,
         phase' = "done", UNCHANGED <<archive, request, built, excluded>>,
         estimate' \in [ate : {"finite", "nan", Absent}, width : {0, 6, 9}],
         phase # "build"
  PROVE  CausalInv'
<1>1. CausalTyped /\ ObservationsAreOwn /\ TasksArePlaced /\ ComparedOnly /\ ScoresAreShares
  BY DEF CausalInv
<1>2. CausalTyped'
  BY <1>1 DEF CausalTyped, Phased
<1>3. ObservationsAreOwn'
  BY <1>1 DEF ObservationsAreOwn, Judged, Observation, Treatment
<1>4. TasksArePlaced'
  BY <1>1 DEF TasksArePlaced, Task
<1>5. ComparedOnly'
  BY DEF ComparedOnly, Estimating
<1>6. ScoresAreShares'
  <2>1. One' = One /\ One \in Nat
    BY OneIsNumber DEF One
  <2>2. QED
    BY <1>1, <2>1 DEF ScoresAreShares
<1>7. QED
  BY <1>2, <1>3, <1>4, <1>5, <1>6 DEF CausalInv

\* A step to the next part of the estimate.
LEMMA AdvanceKeeps ==
  ASSUME CausalInv, phase \in {"gate", "model", "identify", "estimate"},
         phase' \in {"model", "identify", "estimate", "refute"},
         Task # "batch", phase' # "model" => Varies /\ Positivity,
         UNCHANGED <<archive, request, built, excluded, result>>,
         estimate' \in [ate : {"finite", "nan", Absent}, width : {0, 6, 9}]
  PROVE  CausalInv'
<1>1. CausalTyped /\ ObservationsAreOwn /\ TasksArePlaced /\ ComparedOnly /\ ScoresAreShares
  BY DEF CausalInv
<1>2. CausalTyped'
  BY <1>1 DEF CausalTyped, Phased
<1>3. ObservationsAreOwn'
  BY <1>1 DEF ObservationsAreOwn, Judged, Observation, Treatment
<1>4. TasksArePlaced'
  BY <1>1 DEF TasksArePlaced, Task
<1>5. result.status # "completed"
  BY <1>1, AbsentAssumption DEF ScoresAreShares, NoResult
<1>6. (Varies' <=> Varies) /\ (Positivity' <=> Positivity)
  BY DEF Varies, Positivity, Column, Stratum, Overlaps
<1>7. ComparedOnly'
  BY <1>5, <1>6 DEF ComparedOnly, Estimating, Task
<1>8. ScoresAreShares'
  BY <1>1 DEF ScoresAreShares, NoResult, One
<1>9. QED
  BY <1>2, <1>3, <1>4, <1>7, <1>8 DEF CausalInv

LEMMA EndReports ==
  ASSUME NEW s \in Reported, s = [NoResult EXCEPT !.status = s.status]
  PROVE  s.ate = Absent /\ s.confidence = 0
BY DEF NoResult

LEMMA EndStep ==
  ASSUME CausalInv, phase \notin {"build", "done"},
         NEW status \in {"insufficient_evidence", "not_identifiable", "ambiguous_component",
                         "estimation_failed", "invalid_graph", "raised"},
         End(status), UNCHANGED <<archive, request, built, excluded, estimate>>
  PROVE  CausalInv'
<1> DEFINE s == [NoResult EXCEPT !.status = status]
<1>1. phase' = "done" /\ result' = s
  BY DEF End
<1>2. s \in Reported /\ s.status # "completed" /\ s.ate = Absent /\ s.confidence = 0
  BY DEF NoResult, Reported
<1>3. estimate' \in [ate : {"finite", "nan", Absent}, width : {0, 6, 9}]
  BY DEF CausalInv, CausalTyped
<1> HIDE DEF s
<1>4. QED
  BY <1>1, <1>2, <1>3, EndKeeps

LEMMA PreflightKeeps ==
  ASSUME CausalInv, Preflight
  PROVE  CausalInv'
<1> DEFINE blocking == {k \in DOMAIN Gates : ~Gates[k].passed}
<1>1. phase = "gate" /\ UNCHANGED <<archive, request, built, excluded, estimate>>
  BY DEF Preflight
<1>2. CASE blocking = {}
  <2>1. phase' = "model" /\ UNCHANGED result
    BY <1>2 DEF Preflight
  <2>2. Task # "batch"
    BY <1>2, GatesRefuse
  <2>3. estimate' \in [ate : {"finite", "nan", Absent}, width : {0, 6, 9}]
    BY <1>1 DEF CausalInv, CausalTyped
  <2>4. QED
    BY <1>1, <2>1, <2>2, <2>3, AdvanceKeeps
<1>3. CASE blocking # {}
  <2>1. PICK k \in blocking : End(Gates[k].status)
    BY <1>3 DEF Preflight
  <2>2. Gates[k].status \in Blocked
    BY GatesRefuse
  <2>3. QED
    BY <1>1, <2>1, <2>2, EndStep DEF Blocked
<1>4. QED
  BY <1>2, <1>3

LEMMA ModelKeeps ==
  ASSUME CausalInv, ConstructModel
  PROVE  CausalInv'
<1>1. phase = "model" /\ UNCHANGED <<archive, request, built, excluded, estimate>>
  BY DEF ConstructModel
<1>2. CASE \E status \in {"insufficient_evidence", "estimation_failed", "invalid_graph", "raised"} :
             End(status)
  BY <1>1, <1>2, EndStep
<1>3. CASE phase' = "identify" /\ UNCHANGED result /\ Varies /\ Positivity
  <2>1. Task # "batch"
    BY <1>1 DEF CausalInv, TasksArePlaced
  <2>2. estimate' \in [ate : {"finite", "nan", Absent}, width : {0, 6, 9}]
    BY <1>1 DEF CausalInv, CausalTyped
  <2>3. QED
    BY <1>1, <1>3, <2>1, <2>2, AdvanceKeeps
<1>4. QED
  BY <1>2, <1>3 DEF ConstructModel

LEMMA IdentifyKeeps ==
  ASSUME CausalInv, IdentifyEffect
  PROVE  CausalInv'
<1>1. phase = "identify" /\ UNCHANGED <<archive, request, built, excluded, estimate>>
  BY DEF IdentifyEffect
<1>2. CASE End("not_identifiable")
  BY <1>1, <1>2, EndStep
<1>3. CASE phase' = "estimate" /\ UNCHANGED result
  <2>1. Task # "batch" /\ Varies /\ Positivity
    BY <1>1 DEF CausalInv, ComparedOnly, Estimating
  <2>2. estimate' \in [ate : {"finite", "nan", Absent}, width : {0, 6, 9}]
    BY <1>1 DEF CausalInv, CausalTyped
  <2>3. QED
    BY <1>1, <1>3, <2>1, <2>2, AdvanceKeeps
<1>4. QED
  BY <1>2, <1>3 DEF IdentifyEffect

LEMMA EstimateKeeps ==
  ASSUME CausalInv, EstimateEffect
  PROVE  CausalInv'
<1>1. phase = "estimate" /\ UNCHANGED <<archive, request, built, excluded>>
  BY DEF EstimateEffect
<1>2. CASE End("estimation_failed") /\ UNCHANGED estimate
  BY <1>1, <1>2, EndStep
<1>3. CASE /\ estimate' \in [ate : {"finite", "nan", Absent}, width : {0, 6, 9}]
           /\ phase' = "refute" /\ UNCHANGED result
  <2>1. Task # "batch" /\ Varies /\ Positivity
    BY <1>1 DEF CausalInv, ComparedOnly, Estimating
  <2>2. QED
    BY <1>1, <1>3, <2>1, AdvanceKeeps
<1>4. QED
  BY <1>2, <1>3 DEF EstimateEffect

-----------------------------------------------------------------------------
(* The score *)

LEMMA Share ==
  ASSUME NEW c \in Nat, NEW p \in Nat, NEW q \in Nat \ {0}, p <= q
  PROVE  (c * p) \div q \in 0 .. c
<1>1. c * p \in Nat /\ c * p <= c * q
  BY SMT
<1>2. /\ (c * p) \div q \in Int /\ q * ((c * p) \div q) <= c * p
      /\ c * p < q * ((c * p) \div q) + q
  BY <1>1, Quotient
<1> DEFINE d == (c * p) \div q
<1> HIDE DEF d
<1>3. d >= 0
  BY <1>1, <1>2, NoNegativeFactor DEF d
<1>4. q * d < (c + 1) * q
  BY <1>1, <1>2 DEF d
<1>5. d < c + 1
  BY <1>2, <1>4, SmallerFactor DEF d
<1>6. d \in 0 .. c
  BY <1>2, <1>3, <1>5 DEF d
<1>7. QED
  BY <1>6 DEF d

LEMMA ConfidenceIsShare ==
  ASSUME CausalTyped, NEW passed \in 0 .. Refuters
  PROVE  Confidence(passed) \in 0 .. One
<1>1. One \in Nat /\ Refuters \in Nat \ {0} /\ passed \in Nat /\ passed <= Refuters
  BY CausalSizes, OneIsNumber
<1>2. Penalised(One, Penalties) \in 0 .. One
  <2>1. Penalised(One, Penalties) = (One * 10) \div 10
    BY DEF Penalised, Penalties
  <2>2. QED
    BY <1>1, <2>1, Share
<1> DEFINE c == Penalised(One, Penalties)
           w == Widened(c)
<1> HIDE DEF c
<1>3. c \in Nat /\ c <= One
  BY <1>1, <1>2 DEF c
<1>4. w \in 0 .. c
  <2>1. estimate.width \in {0, 6, 9}
    BY DEF CausalTyped
  <2>2. CASE estimate.width <= 5
    BY <1>3, <2>2 DEF Widened
  <2>3. CASE ~ (estimate.width <= 5)
    <3>1. PICK k \in 0 .. 10 : w = (c * k) \div 10
      BY <2>1, <2>3 DEF Widened
    <3>2. QED
      BY <1>3, <3>1, Share
  <2>4. QED
    BY <2>2, <2>3
<1> HIDE DEF w
<1>5. (w * passed) \div Refuters \in 0 .. w
  BY <1>1, <1>3, <1>4, Share
<1>6. Confidence(passed) \in {0, (w * passed) \div Refuters}
  BY DEF Confidence, w, c
<1>7. QED
  BY <1>1, <1>3, <1>4, <1>5, <1>6

LEMMA RefuteKeeps ==
  ASSUME CausalInv, Refute
  PROVE  CausalInv'
<1>1. CausalTyped /\ ObservationsAreOwn /\ TasksArePlaced /\ ComparedOnly /\ ScoresAreShares
  BY DEF CausalInv
<1>2. /\ phase = "refute" /\ phase' = "done"
      /\ UNCHANGED <<archive, request, built, excluded, estimate>>
  BY DEF Refute
<1>3. PICK passed \in 0 .. Refuters :
        result' = [status |-> "completed", ate |-> estimate.ate,
                   confidence |-> Confidence(passed)]
  BY DEF Refute
<1>4. Confidence(passed) \in 0 .. One /\ One \in Nat
  BY <1>1, <1>3, ConfidenceIsShare, OneIsNumber
<1>5. Confidence(passed) # 0 => estimate.ate = "finite"
  BY DEF Confidence
<1>6. CausalTyped'
  BY <1>1, <1>2, <1>3, <1>4 DEF CausalTyped, Phased, Reported
<1>7. ObservationsAreOwn'
  BY <1>1, <1>2 DEF ObservationsAreOwn, Judged, Observation, Treatment
<1>8. TasksArePlaced'
  BY <1>1, <1>2 DEF TasksArePlaced, Task
<1>9. Task # "batch" /\ Varies /\ Positivity
  BY <1>1, <1>2 DEF ComparedOnly, Estimating
<1>10. (Varies' <=> Varies) /\ (Positivity' <=> Positivity)
  BY <1>2 DEF Varies, Positivity, Column, Stratum, Overlaps
<1>11. ComparedOnly'
  BY <1>2, <1>9, <1>10 DEF ComparedOnly, Task
<1>12. ScoresAreShares'
  <2>1. One' = One
    BY DEF One
  <2>2. QED
    BY <1>2, <1>3, <1>4, <1>5, <2>1 DEF ScoresAreShares
<1>13. QED
  BY <1>6, <1>7, <1>8, <1>11, <1>12 DEF CausalInv

LEMMA CausalStarts == CausalInit => CausalInv
<1>1. SUFFICES ASSUME CausalInit PROVE CausalInv
  OBVIOUS
<1>2. PICK r \in Requests, manifests \in Archives :
        (r.task = "analysis" => Len(manifests) = 1) /\ Asked(r, manifests)
  BY <1>1 DEF CausalInit
<1>3. r \in Questions /\ manifests \in Seq(RunManifests)
  BY CausalInputs
<1>4. /\ request = r /\ archive = manifests
      /\ built = <<>> /\ excluded = <<>> /\ phase = "build"
      /\ estimate = [ate |-> Absent, width |-> 0] /\ result = NoResult
  BY <1>2 DEF Asked
<1>5. NoResult \in Reported
  BY DEF NoResult, Reported
<1>6. CausalTyped
  BY <1>3, <1>4, <1>5 DEF CausalTyped, Phased
<1>7. Len(archive) \in Nat /\ Judged = 0
  BY <1>3, <1>4 DEF Judged
<1>8. ObservationsAreOwn
  BY <1>4, <1>7 DEF ObservationsAreOwn
<1>9. TasksArePlaced
  BY <1>2, <1>4 DEF TasksArePlaced, Task
<1>10. ComparedOnly
  BY <1>4, AbsentAssumption DEF ComparedOnly, Estimating, NoResult
<1>11. ScoresAreShares
  BY <1>4, OneIsNumber DEF ScoresAreShares, NoResult
<1>12. QED
  BY <1>6, <1>8, <1>9, <1>10, <1>11 DEF CausalInv

LEMMA CausalStutters ==
  ASSUME CausalInv, UNCHANGED causalVars
  PROVE  CausalInv'
<1>1. CausalTyped /\ ObservationsAreOwn /\ TasksArePlaced /\ ComparedOnly /\ ScoresAreShares
  BY DEF CausalInv
<1>2. UNCHANGED <<archive, request, built, excluded, phase, estimate, result>>
  BY DEF causalVars
<1>3. CausalTyped'
  BY <1>1, <1>2 DEF CausalTyped
<1>4. ObservationsAreOwn'
  BY <1>1, <1>2 DEF ObservationsAreOwn, Judged, Observation, Treatment
<1>5. TasksArePlaced'
  BY <1>1, <1>2 DEF TasksArePlaced, Task
<1>6. ComparedOnly'
  <2>1. (Varies' <=> Varies) /\ (Positivity' <=> Positivity)
    BY <1>2 DEF Varies, Positivity, Column, Stratum, Overlaps
  <2>2. QED
    BY <1>1, <1>2, <2>1 DEF ComparedOnly, Estimating, Task
<1>7. ScoresAreShares'
  BY <1>1, <1>2 DEF ScoresAreShares, NoResult, One
<1>8. QED
  BY <1>3, <1>4, <1>5, <1>6, <1>7 DEF CausalInv

\* At every moment of an analysis, the observations are of the runs that were looked
\* at, the gates hold batches back, and what is estimated was compared.
THEOREM CausalInvariance == CausalSpec => []CausalInv
<1>1. CausalInv /\ [CausalNext]_causalVars => CausalInv'
  BY BuildKeeps, PreflightKeeps, ModelKeeps, IdentifyKeeps, EstimateKeeps, RefuteKeeps,
     CausalStutters DEF CausalNext
<1>2. QED
  BY <1>1, CausalStarts, PTL DEF CausalSpec

\* An observation is made of each run once at most, of a completed run whose injection
\* did not fail, and its outcome comes from the oracle or a verified contract: whatever
\* manifests are given, in any order (CausalObservationBuilder.build_from_run).
THEOREM ObservationsAreAlwaysGrounded == CausalSpec => []ObservationsAreGrounded
<1>1. ASSUME CausalInv
      PROVE  ObservationsAreGrounded
  <2>1. CausalTyped /\ ObservationsAreOwn
    BY <1>1 DEF CausalInv
  <2>2. DOMAIN built = 1 .. Len(built)
    BY <2>1 DEF CausalTyped
  <2>3. ASSUME NEW i \in DOMAIN built
        PROVE  LET m == archive[built[i].run]
               IN /\ m.completed /\ ~FailedInjection(m)
                  /\ built[i].y \in Established(m) \cap {0, 1}
    <3> DEFINE n == built[i].run
    <3>1. n \in 1 .. Judged /\ Exclusion(archive[n]) = Absent /\ built[i] = Observation(n)
      BY <2>1, <2>2, <2>3 DEF ObservationsAreOwn
    <3>2. n \in 1 .. Len(archive)
      BY <2>1, <3>1 DEF ObservationsAreOwn, CausalTyped, Judged
    <3> HIDE DEF n
    <3>3. archive[n] \in RunManifests
      BY <2>1, <3>2 DEF CausalTyped
    <3>4. Observation(n).y = Outcome(archive[n])
      BY DEF Observation
    <3>5. /\ archive[n].completed /\ ~FailedInjection(archive[n])
          /\ Outcome(archive[n]) \in {0, 1} /\ Outcome(archive[n]) \in Established(archive[n])
      BY <3>1, <3>3, Decided
    <3>6. QED
      BY <3>1, <3>4, <3>5 DEF n
  <2>4. QED
    BY <2>1, <2>2, <2>3 DEF ObservationsAreGrounded, ObservationsAreOwn, Judged
<1>2. QED
  BY <1>1, CausalInvariance, PTL

-----------------------------------------------------------------------------
(* The effects that are reported *)

LEMMA TwoDiffer ==
  ASSUME NEW S, Cardinality(S) = 2
  PROVE  \E a, b \in S : a # b
<1>1. SUFFICES ASSUME \A a, b \in S : a = b
               PROVE  FALSE
  OBVIOUS
<1>2. CASE S = {}
  BY <1>2, FS_EmptySet
<1>3. CASE S # {}
  <2>1. PICK a \in S : TRUE
    BY <1>3
  <2>2. S = {a}
    BY <1>1, <2>1
  <2>3. Cardinality(S) = 1
    BY <2>2, FS_Singleton
  <2>4. QED
    BY <2>3
<1>4. QED
  BY <1>2, <1>3

LEMMA TwoAtLeast ==
  ASSUME NEW S, IsFiniteSet(S), NEW a \in S, NEW b \in S, a # b
  PROVE  Cardinality(S) \in Nat /\ Cardinality(S) >= 2
<1>1. {a, b} \subseteq S
  OBVIOUS
<1>2. Cardinality({a, b}) = 2
  <2>1. IsFiniteSet({b}) /\ Cardinality({b}) = 1
    BY FS_Singleton
  <2>2. {a, b} = {b} \cup {a}
    OBVIOUS
  <2>3. QED
    BY <2>1, <2>2, FS_AddElement
<1>3. QED
  BY <1>1, <1>2, FS_Subset, FS_CardinalityType

LEMMA ColumnDiffers ==
  ASSUME NEW f, Cardinality(Column(f)) = 2
  PROVE  \E i, j \in DOMAIN built : built[i][f] # built[j][f]
<1>1. PICK a \in Column(f), b \in Column(f) : a # b
  BY TwoDiffer
<1>2. QED
  BY <1>1 DEF Column

\* Two rows of a stratum: the other arm has a twentieth of it, and so a row.
LEMMA OtherArm ==
  ASSUME CausalTyped, Positivity, request.covariates,
         NEW i \in DOMAIN built, NEW j \in DOMAIN built, i # j, built[i].x = built[j].x
  PROVE  \E k \in DOMAIN built : built[k].x = built[i].x /\ built[k].t # built[i].t
<1> DEFINE S == Stratum(built[i].x)
<1>1. DOMAIN built = 1 .. Len(built) /\ Len(built) \in Nat
  BY DEF CausalTyped
<1>2. IsFiniteSet(DOMAIN built)
  BY <1>1, FS_Interval
<1>3. S \subseteq DOMAIN built /\ i \in S /\ j \in S
  BY DEF Stratum
<1>4. IsFiniteSet(S)
  BY <1>2, <1>3, FS_Subset
<1>5. Cardinality(S) \in Nat /\ Cardinality(S) >= 2
  BY <1>3, <1>4, TwoAtLeast
<1>6. Overlaps(S)
  BY <1>5 DEF Positivity, Column
<1>7. built[i].t \in {0, 1}
  <2>1. built[i] \in TableRows
    BY <1>1 DEF CausalTyped
  <2>2. QED
    BY <2>1 DEF TableRows
<1>8. PICK t \in {0, 1} : t # built[i].t
  BY <1>7
<1> DEFINE T == {k \in S : built[k].t = t}
<1>9. 20 * Cardinality(T) >= Cardinality(S)
  BY <1>6 DEF Overlaps
<1>10. T # {}
  <2>1. SUFFICES ASSUME T = {} PROVE FALSE
    OBVIOUS
  <2>2. Cardinality(T) = 0
    BY <2>1, FS_EmptySet
  <2>3. QED
    BY <1>5, <1>9, <2>2
<1>11. QED
  BY <1>8, <1>10 DEF Stratum

\* What the estimator reports of any archive, for any answers of DoWhy, compares two
\* arms of a table in which each arm is seen wherever it has to be; the score is a
\* share that needs a number; and no gated analysis gets there (causal_validation.py,
\* estimate_causal_attribution).
THEOREM EffectsAreAlwaysComparisons == CausalSpec => []EffectsAreComparisons
<1>1. ASSUME CausalInv
      PROVE  EffectsAreComparisons
  <2>1. CausalTyped /\ ObservationsAreOwn /\ TasksArePlaced /\ ComparedOnly /\ ScoresAreShares
    BY <1>1 DEF CausalInv
  <2>2. ASSUME result.status = "completed"
        PROVE  /\ Task = "attribution"
               /\ \E i, j \in DOMAIN built : built[i].t # built[j].t
               /\ \E i, j \in DOMAIN built : built[i].y # built[j].y
               /\ request.covariates => \A i, j \in DOMAIN built :
                    i # j /\ built[i].x = built[j].x =>
                      \E k \in DOMAIN built : built[k].x = built[i].x /\ built[k].t # built[i].t
    <3>1. Task # "batch" /\ Varies /\ Positivity
      BY <2>1, <2>2 DEF ComparedOnly
    <3>2. /\ \E i, j \in DOMAIN built : built[i].t # built[j].t
          /\ \E i, j \in DOMAIN built : built[i].y # built[j].y
      BY <3>1, ColumnDiffers DEF Varies
    <3>3. Task # "analysis"
      <4>1. SUFFICES ASSUME Task = "analysis" PROVE FALSE
        OBVIOUS
      <4>2. Len(archive) = 1 /\ Judged <= 1
        BY <2>1, <4>1 DEF TasksArePlaced, ObservationsAreOwn
      <4>3. DOMAIN built = 1 .. Len(built) /\ Len(built) \in Nat /\ Len(excluded) \in Nat
        BY <2>1 DEF CausalTyped
      <4>4. \A i, j \in DOMAIN built : i = j
        BY <4>2, <4>3 DEF Judged
      <4>5. QED
        BY <3>2, <4>4
    <3>4. Task = "attribution"
      BY <2>1, <3>1, <3>3 DEF CausalTyped, Questions, Task
    <3>5. QED
      BY <2>1, <3>1, <3>2, <3>4, OtherArm
  <2>3. /\ result.confidence > 0 => result.status = "completed" /\ result.ate = "finite"
        /\ result.confidence <= One
    BY <2>1, OneIsNumber DEF ScoresAreShares
  <2>4. QED
    BY <2>2, <2>3 DEF EffectsAreComparisons
<1>2. QED
  BY <1>1, CausalInvariance, PTL

-----------------------------------------------------------------------------
(* The lock of a CVE and the limiter of the NVD *)

\* At most one caller has the lock, as long as it does not expire.
LockedByOne ==
  /\ expiries \in Nat
  /\ expiries = 0 => (\A c, d \in locked : c = d) /\ (locked # {} => key)

\* The stamps are in the order of the clock.
InOrder(stamps) ==
  /\ stamps \in Seq(0 .. LastTick)
  /\ \A k \in 1 .. Len(stamps) : stamps[k] <= tick
  /\ \A j, k \in 1 .. Len(stamps) : j <= k => stamps[j] <= stamps[k]

LimiterTyped ==
  /\ tick \in 0 .. LastTick
  /\ at \in [Callers -> Places] /\ until \in [Callers -> Int]
  /\ InOrder(window)
  /\ granted \in Seq(0 .. LastTick) /\ Len(granted) <= MaxRequests + 1

\* The slots that were given are the stamps, from the last one backwards, but for
\* those that have left the window.
Stamped(slots, stamps) ==
  \A k \in 1 .. Len(slots) :
    \/ /\ Len(slots) - k < Len(stamps)
       /\ stamps[Len(stamps) - (Len(slots) - k)] = slots[k]
    \/ tick - slots[k] >= Window

\* Whoever sleeps alone sleeps until the first stamp has left the window.
SleepsAlone ==
  /\ \A c, d \in Callers : at[c] = "sleep" /\ at[d] = "sleep" => c = d
  /\ \A c \in Callers : at[c] = "sleep" => window # <<>> /\ until[c] >= window[1] + Window

Paced ==
  /\ Len(window) <= MaxRequests
  /\ Stamped(granted, window)
  /\ SleepsAlone
  /\ \A i \in 1 .. Len(granted) - MaxRequests : granted[i + MaxRequests] - granted[i] >= Window

NvdInv == LimiterTyped /\ LockedByOne /\ (crowded \/ Paced)

LEMMA NvdNumbers ==
  MaxRequests \in Nat \ {0} /\ Window \in Nat \ {0} /\ LastTick \in Nat
BY NvdSizes

LEMMA ElementsIn ==
  ASSUME NEW S, NEW s \in Seq(S)
  PROVE  DOMAIN s = 1 .. Len(s) /\ Len(s) \in Nat /\ \A k \in 1 .. Len(s) : s[k] \in S
OBVIOUS

LEMMA Ends ==
  ASSUME NEW S, NEW s \in Seq(S), NEW m \in 1 .. Len(s) + 1
  PROVE  /\ SubSeq(s, m, Len(s)) \in Seq(S)
         /\ Len(SubSeq(s, m, Len(s))) = Len(s) - m + 1
         /\ \A k \in 1 .. Len(s) - m + 1 : SubSeq(s, m, Len(s))[k] = s[m + k - 1]
OBVIOUS

\* A set of numbers that has with every number the smaller ones.
LEMMA Initial ==
  ASSUME NEW n \in Nat, NEW S \in SUBSET (1 .. n),
         \A j, k \in 1 .. n : j <= k /\ k \in S => j \in S
  PROVE  /\ Cardinality(S) \in 0 .. n
         /\ S = 1 .. Cardinality(S)
<1>1. CASE S = {}
  <2>1. Cardinality(S) = 0
    BY <1>1, FS_EmptySet
  <2>2. QED
    BY <1>1, <2>1
<1>2. CASE S # {}
  <2>1. S \in SUBSET (0 .. n)
    OBVIOUS
  <2>2. PICK t \in S : \A u \in S : u <= t
    BY <1>2, <2>1, GreatestExists
  <2>3. t \in 1 .. n /\ \A j \in 1 .. t : j \in S
    <3>1. t \in 1 .. n /\ t \in S
      OBVIOUS
    <3>2. \A j \in 1 .. t : j \in 1 .. n /\ j <= t
      BY <3>1
    <3>3. QED
      BY <3>1, <3>2
  <2>4. S = 1 .. t
    <3>1. S \subseteq 1 .. t
      BY <2>2, <2>3
    <3>2. 1 .. t \subseteq S
      BY <2>3
    <3>3. QED
      BY <3>1, <3>2
  <2>5. Cardinality(S) = t
    BY <2>3, <2>4, FS_Interval
  <2>6. QED
    BY <2>3, <2>4, <2>5
<1>3. QED
  BY <1>1, <1>2

\* What the limiter keeps: all stamps but the first ones, which are stale.
LEMMA RecentKeeps ==
  ASSUME LimiterTyped
  PROVE  \E c \in 0 .. Len(window) :
           /\ Recent \in Seq(0 .. LastTick) /\ Len(Recent) = Len(window) - c
           /\ \A k \in 1 .. Len(window) - c : Recent[k] = window[c + k]
           /\ \A k \in 1 .. Len(window) : k <= c <=> tick - window[k] >= Window
<1> DEFINE stale == {k \in DOMAIN window : tick - window[k] >= Window}
           c == Cardinality(stale)
           n == Len(window)
<1>1. /\ window \in Seq(0 .. LastTick) /\ n \in Nat /\ DOMAIN window = 1 .. n
      /\ tick \in 0 .. LastTick
      /\ \A k \in 1 .. n : window[k] \in 0 .. LastTick
      /\ \A j, k \in 1 .. n : j <= k => window[j] <= window[k]
  <2>1. window \in Seq(0 .. LastTick) /\ tick \in 0 .. LastTick
    BY DEF LimiterTyped, InOrder
  <2>2. \A j, k \in 1 .. n : j <= k => window[j] <= window[k]
    BY DEF LimiterTyped, InOrder
  <2>3. QED
    BY <2>1, <2>2, ElementsIn
<1>2. Window \in Nat /\ LastTick \in Nat
  BY NvdNumbers
<1>3. stale \in SUBSET (1 .. n) /\ \A j, k \in 1 .. n : j <= k /\ k \in stale => j \in stale
  <2>1. stale \in SUBSET (1 .. n) /\ \A k \in 1 .. n : k \in stale <=> tick - window[k] >= Window
    BY <1>1
  <2>2. tick \in Int /\ \A k \in 1 .. n : window[k] \in Int
    BY <1>1
  <2>3. \A j, k \in 1 .. n : j <= k /\ tick - window[k] >= Window => tick - window[j] >= Window
    BY <1>1, <1>2, <2>2
  <2> HIDE DEF stale, n
  <2>4. QED
    BY <2>1, <2>3
<1>4. c \in 0 .. n /\ stale = 1 .. c
  <2> HIDE DEF stale, n
  <2>1. QED
    BY <1>1, <1>3, Initial
<1>5. Recent = SubSeq(window, c + 1, n)
  BY DEF Recent
<1>6. \A k \in 1 .. n : k <= c <=> tick - window[k] >= Window
  <2>1. \A k \in 1 .. n : k \in stale <=> tick - window[k] >= Window
    BY <1>1
  <2> HIDE DEF stale, c
  <2>2. QED
    BY <1>1, <1>4, <2>1
<1> HIDE DEF stale, c
<1>7. /\ Recent \in Seq(0 .. LastTick) /\ Len(Recent) = n - c
      /\ \A k \in 1 .. n - c : Recent[k] = window[c + k]
  <2>1. c + 1 \in 1 .. Len(window) + 1
    BY <1>1, <1>4
  <2>2. /\ SubSeq(window, c + 1, Len(window)) \in Seq(0 .. LastTick)
        /\ Len(SubSeq(window, c + 1, Len(window))) = Len(window) - (c + 1) + 1
        /\ \A k \in 1 .. Len(window) - (c + 1) + 1 :
             SubSeq(window, c + 1, Len(window))[k] = window[(c + 1) + k - 1]
    BY <1>1, <2>1, Ends
  <2>3. \A k \in 1 .. n - c : k \in 1 .. n - (c + 1) + 1 /\ (c + 1) + k - 1 = c + k
    BY <1>1, <1>4
  <2> HIDE DEF n
  <2>4. Recent \in Seq(0 .. LastTick) /\ Len(Recent) = n - c
    <3>1. n \in Int /\ c \in Int /\ n - (c + 1) + 1 = n - c
      BY <1>1, <1>4
    <3>2. Len(Recent) = n - (c + 1) + 1 /\ Recent \in Seq(0 .. LastTick)
      BY ONLY <1>5, <2>2, Zenon DEF n
    <3>3. QED
      BY <3>1, <3>2
  <2>5. QED
    BY <1>5, <2>2, <2>3, <2>4 DEF n
<1>8. QED
  BY <1>4, <1>6, <1>7

LEMMA RecentInOrder ==
  ASSUME LimiterTyped
  PROVE  InOrder(Recent) /\ Len(Recent) \in Nat /\ Len(Recent) <= Len(window)
<1>1. PICK c \in 0 .. Len(window) :
           /\ Recent \in Seq(0 .. LastTick) /\ Len(Recent) = Len(window) - c
           /\ \A k \in 1 .. Len(window) - c : Recent[k] = window[c + k]
  BY RecentKeeps
<1>2. Len(window) \in Nat /\ InOrder(window)
  BY DEF LimiterTyped, InOrder
<1>3. \A k \in 1 .. Len(Recent) : c + k \in 1 .. Len(window) /\ Recent[k] = window[c + k]
  BY <1>1, <1>2
<1>4. \A k \in 1 .. Len(Recent) : Recent[k] <= tick
  BY <1>2, <1>3 DEF InOrder
<1>5. \A j, k \in 1 .. Len(Recent) : j <= k => Recent[j] <= Recent[k]
  BY <1>1, <1>2, <1>3 DEF InOrder
<1>6. QED
  BY <1>1, <1>2, <1>4, <1>5 DEF InOrder

\* Cleaning up takes no slot away that is still inside the window.
LEMMA CleaningStamps ==
  ASSUME LimiterTyped, Stamped(granted, window)
  PROVE  Stamped(granted, Recent)
<1>1. PICK c \in 0 .. Len(window) :
           /\ Recent \in Seq(0 .. LastTick) /\ Len(Recent) = Len(window) - c
           /\ \A k \in 1 .. Len(window) - c : Recent[k] = window[c + k]
           /\ \A k \in 1 .. Len(window) : k <= c <=> tick - window[k] >= Window
  BY RecentKeeps
<1>2. Len(window) \in Nat /\ Len(granted) \in Nat
  BY DEF LimiterTyped, InOrder
<1>3. SUFFICES ASSUME NEW k \in 1 .. Len(granted)
               PROVE  \/ /\ Len(granted) - k < Len(Recent)
                         /\ Recent[Len(Recent) - (Len(granted) - k)] = granted[k]
                      \/ tick - granted[k] >= Window
  BY DEF Stamped
<1> DEFINE d == Len(granted) - k
           w == Len(window)
<1>4. d \in Nat
  BY <1>2
<1> HIDE DEF d
<1>5. CASE d < w /\ window[w - d] = granted[k]
  <2>1. CASE d < w - c
    <3>1. w - c - d \in 1 .. w - c /\ c + (w - c - d) = w - d
      BY <1>1, <1>2, <1>4, <2>1
    <3>2. Recent[w - c - d] = window[w - d]
      BY <1>1, <3>1
    <3>3. QED
      BY <1>1, <1>5, <2>1, <3>2 DEF d
  <2>2. CASE ~ (d < w - c)
    <3>1. w - d \in 1 .. w /\ w - d <= c
      BY <1>1, <1>2, <1>4, <1>5, <2>2
    <3>2. tick - window[w - d] >= Window
      BY <1>1, <3>1
    <3>3. QED
      BY <1>5, <3>2
  <2>3. QED
    BY <2>1, <2>2
<1>6. CASE tick - granted[k] >= Window
  BY <1>6
<1>7. QED
  BY <1>5, <1>6 DEF Stamped, d

\* The time of the clock comes after all stamps.
LEMMA StampInOrder ==
  ASSUME LimiterTyped, NEW stamps, InOrder(stamps)
  PROVE  InOrder(Append(stamps, tick))
<1> DEFINE S == Append(stamps, tick)
           s == Len(stamps)
<1>1. /\ tick \in 0 .. LastTick /\ LastTick \in Nat
      /\ stamps \in Seq(0 .. LastTick) /\ s \in Nat
  BY NvdNumbers DEF LimiterTyped, InOrder
<1>2. S \in Seq(0 .. LastTick) /\ Len(S) = s + 1 /\ S[s + 1] = tick /\ \A k \in 1 .. s : S[k] = stamps[k]
  BY <1>1
<1> HIDE DEF S, s
<1>3. InOrder(S)
  <2>1. \A k \in 1 .. s : stamps[k] <= tick
    BY DEF InOrder, s
  <2>2. \A j, k \in 1 .. s : j <= k => stamps[j] <= stamps[k]
    BY DEF InOrder, s
  <2>3. \A k \in 1 .. s + 1 : k = s + 1 \/ k \in 1 .. s
    BY <1>1
  <2>4. \A k \in 1 .. s + 1 : S[k] <= tick
    BY <1>1, <1>2, <2>1, <2>3
  <2>5. ASSUME NEW j \in 1 .. s + 1, NEW k \in 1 .. s + 1, j <= k
        PROVE  S[j] <= S[k]
    <3>1. CASE k = s + 1
      BY <1>2, <2>4, <3>1
    <3>2. CASE k \in 1 .. s
      <4>1. j \in 1 .. s
        BY <1>1, <2>5, <3>2
      <4>2. QED
        BY <1>2, <2>2, <2>5, <3>2, <4>1
    <3>3. QED
      BY <2>3, <3>1, <3>2
  <2>6. QED
    BY <1>2, <2>4, <2>5 DEF InOrder
<1>4. QED
  BY <1>3 DEF S

\* A slot is a stamp.
LEMMA GrantingStamps ==
  ASSUME LimiterTyped, NEW stamps, InOrder(stamps), Stamped(granted, stamps)
  PROVE  /\ InOrder(Append(stamps, tick)) /\ Len(Append(stamps, tick)) = Len(stamps) + 1
         /\ Stamped(Append(granted, tick), Append(stamps, tick))
<1> DEFINE S == Append(stamps, tick)
           G == Append(granted, tick)
           s == Len(stamps)
           g == Len(granted)
<1>1. /\ tick \in 0 .. LastTick /\ LastTick \in Nat
      /\ stamps \in Seq(0 .. LastTick) /\ s \in Nat /\ granted \in Seq(0 .. LastTick) /\ g \in Nat
  BY NvdNumbers DEF LimiterTyped, InOrder
<1>2. S \in Seq(0 .. LastTick) /\ Len(S) = s + 1 /\ S[s + 1] = tick /\ \A k \in 1 .. s : S[k] = stamps[k]
  BY <1>1
<1>3. G \in Seq(0 .. LastTick) /\ Len(G) = g + 1 /\ G[g + 1] = tick /\ \A k \in 1 .. g : G[k] = granted[k]
  BY <1>1
<1> HIDE DEF S, G, s, g
<1>4. InOrder(S)
  BY StampInOrder DEF S
<1>5. Stamped(G, S)
  <2>1. SUFFICES ASSUME NEW k \in 1 .. g + 1
                 PROVE  \/ /\ (g + 1) - k < s + 1
                           /\ S[(s + 1) - ((g + 1) - k)] = G[k]
                        \/ tick - G[k] >= Window
    BY <1>2, <1>3 DEF Stamped
  <2>2. CASE k = g + 1
    <3>1. (g + 1) - k = 0
      BY <1>1, <2>2
    <3>2. QED
      BY <1>1, <1>2, <1>3, <2>2, <3>1
  <2>3. CASE k \in 1 .. g
    <3>1. \/ g - k < s /\ stamps[s - (g - k)] = granted[k]
          \/ tick - granted[k] >= Window
      BY <2>3 DEF Stamped, g, s
    <3>2. CASE g - k < s /\ stamps[s - (g - k)] = granted[k]
      <4>0. s \in Nat /\ g \in Nat /\ k \in 1 .. g /\ g - k < s
        BY <1>1, <2>3, <3>2
      <4>1. /\ s - (g - k) \in 1 .. s /\ (s + 1) - ((g + 1) - k) = s - (g - k)
            /\ (g + 1) - k < s + 1
        BY ONLY <4>0
      <4>2. QED
        BY <1>2, <1>3, <2>3, <3>2, <4>1
    <3>3. CASE tick - granted[k] >= Window
      BY <1>3, <2>3, <3>3
    <3>4. QED
      BY <3>1, <3>2, <3>3
  <2>4. QED
    BY <1>1, <2>2, <2>3
<1>6. QED
  BY <1>2, <1>4, <1>5 DEF S, G, s

\* The first slot is forgotten.
LEMMA ForgettingStamps ==
  ASSUME NEW G \in Seq(0 .. LastTick), Len(G) > 1, NEW stamps, Stamped(G, stamps)
  PROVE  /\ Tail(G) \in Seq(0 .. LastTick) /\ Len(Tail(G)) = Len(G) - 1
         /\ Tail(G)[Len(G) - 1] = G[Len(G)]
         /\ Stamped(Tail(G), stamps)
<1> DEFINE T == Tail(G)
           g == Len(G)
<1>1. g \in Nat /\ G # <<>>
  OBVIOUS
<1>2. T \in Seq(0 .. LastTick) /\ Len(T) = g - 1 /\ \A k \in 1 .. g - 1 : T[k] = G[k + 1]
  BY <1>1
<1> HIDE DEF T, g
<1>3. g > 1
  BY DEF g
<1>4. T[g - 1] = G[g]
  <2>1. g - 1 \in 1 .. g - 1 /\ (g - 1) + 1 = g
    BY <1>1, <1>3
  <2>2. QED
    BY <1>2, <2>1
<1>5. Stamped(T, stamps)
  <2>1. SUFFICES ASSUME NEW k \in 1 .. g - 1
                 PROVE  \/ /\ (g - 1) - k < Len(stamps)
                           /\ stamps[Len(stamps) - ((g - 1) - k)] = T[k]
                        \/ tick - T[k] >= Window
    BY <1>2 DEF Stamped
  <2>2. k + 1 \in 1 .. g /\ T[k] = G[k + 1] /\ g - (k + 1) = (g - 1) - k
    BY <1>1, <1>2
  <2>3. \/ /\ g - (k + 1) < Len(stamps)
           /\ stamps[Len(stamps) - (g - (k + 1))] = G[k + 1]
        \/ tick - G[k + 1] >= Window
    BY <2>2 DEF Stamped, g
  <2>4. QED
    BY <2>2, <2>3
<1>6. QED
  BY <1>2, <1>4, <1>5 DEF T, g

\* Whoever gets a slot when fewer than the limit are inside the window.
LEMMA GrantIsPaced ==
  ASSUME LimiterTyped, Paced, Len(Recent) < MaxRequests,
         NEW c \in Callers, NEW from, Grant(c, from, Recent), UNCHANGED tick
  PROVE  /\ Len(window') <= MaxRequests
         /\ Stamped(granted, window)'
         /\ \A i \in 1 .. Len(granted') - MaxRequests :
              granted'[i + MaxRequests] - granted'[i] >= Window
<1> DEFINE S == Append(Recent, tick)
           all == Append(granted, tick)
           M == MaxRequests
<1>1. M \in Nat /\ M >= 1 /\ Window \in Nat
  BY NvdNumbers
<1>2. InOrder(Recent) /\ Len(Recent) \in Nat /\ Stamped(granted, Recent)
  BY RecentInOrder, CleaningStamps DEF Paced
<1>3. /\ InOrder(S) /\ Len(S) = Len(Recent) + 1 /\ Stamped(all, S)
  BY <1>2, GrantingStamps
<1>4. all \in Seq(0 .. LastTick) /\ Len(all) = Len(granted) + 1 /\ Len(granted) \in Nat
      /\ all[Len(all)] = tick /\ Len(granted) <= M + 1
  <2>1. granted \in Seq(0 .. LastTick) /\ tick \in 0 .. LastTick
    BY DEF LimiterTyped
  <2>2. QED
    BY <2>1 DEF LimiterTyped
<1>5. window' = S /\ granted' = IF Len(all) > M + 1 THEN Tail(all) ELSE all
  BY DEF Grant
<1> HIDE DEF S, all, M
<1>6. /\ granted' \in Seq(0 .. LastTick) /\ Stamped(granted', S)
      /\ Len(granted') \in 1 .. M + 1
      /\ granted'[Len(granted')] = tick
  <2>1. CASE Len(all) > M + 1
    <3>1. Len(all) > 1 /\ Len(all) = M + 2
      BY <1>1, <1>4, <2>1
    <3>2. /\ Tail(all) \in Seq(0 .. LastTick) /\ Len(Tail(all)) = Len(all) - 1
          /\ Tail(all)[Len(all) - 1] = all[Len(all)]
          /\ Stamped(Tail(all), S)
      BY <1>3, <1>4, <3>1, ForgettingStamps
    <3>3. QED
      BY <1>1, <1>4, <1>5, <2>1, <3>1, <3>2
  <2>2. CASE ~ (Len(all) > M + 1)
    BY <1>1, <1>3, <1>4, <1>5, <2>2
  <2>3. QED
    BY <2>1, <2>2
<1>7. Len(S) <= M
  BY <1>1, <1>2, <1>3 DEF M
<1>8. ASSUME NEW i \in 1 .. Len(granted') - M
      PROVE  granted'[i + M] - granted'[i] >= Window
  <2>1. i = 1 /\ Len(granted') = M + 1
    BY <1>1, <1>6
  <2>2. 1 \in 1 .. Len(granted') /\ Len(granted') - 1 = M
    BY <1>1, <2>1
  <2>3. \/ Len(granted') - 1 < Len(S)
        \/ tick - granted'[1] >= Window
    BY <1>6, <2>2 DEF Stamped
  <2>4. tick - granted'[1] >= Window
    BY <1>1, <1>2, <1>3, <1>7, <2>2, <2>3
  <2>5. QED
    BY <1>1, <1>6, <2>1, <2>4
<1>9. Stamped(granted, window)'
  <2>1. tick' = tick /\ window' = S
    BY <1>5
  <2>2. QED
    BY <1>6, <2>1 DEF Stamped
<1>10. QED
  BY <1>5, <1>7, <1>8, <1>9 DEF M

LEMMA Sleepless ==
  ASSUME NEW from, NEW to, NEW c \in Callers, at \in [Callers -> Places], Go(c, from, to)
  PROVE  /\ at[c] = from /\ at'[c] = to
         /\ \A d \in Callers : d # c => at'[d] = at[d]
BY DEF Go

\* A step that leaves the clock and the limiter alone, and makes nobody sleep.
LEMMA LimiterKept ==
  ASSUME LimiterTyped, crowded \/ Paced, UNCHANGED <<tick, limiterVars>>,
         at' \in [Callers -> Places],
         \A c \in Callers : at'[c] = "sleep" => at[c] = "sleep"
  PROVE  LimiterTyped' /\ (crowded \/ Paced)'
<1>1. UNCHANGED <<tick, window, until, granted, crowded>>
  BY DEF limiterVars
<1>2. LimiterTyped'
  BY <1>1 DEF LimiterTyped, InOrder
<1>3. ASSUME ~crowded
      PROVE  Paced'
  <2>1. Paced
    BY <1>3
  <2>2. Stamped(granted, window)'
    BY <1>1, <2>1 DEF Paced, Stamped
  <2>3. SleepsAlone'
    BY <1>1, <2>1 DEF Paced, SleepsAlone
  <2>4. QED
    BY <1>1, <2>1, <2>2, <2>3 DEF Paced
<1>4. QED
  BY <1>1, <1>2, <1>3

\* What is true of the limiter after a slot is given.
LEMMA GrantTyped ==
  ASSUME LimiterTyped, NEW c \in Callers, NEW from, Grant(c, from, Recent),
         UNCHANGED <<tick, until>>
  PROVE  LimiterTyped' /\ at[c] = from /\ (\A d \in Callers : at'[d] = "sleep" => d # c /\ at[d] = "sleep")
<1> DEFINE S == Append(Recent, tick)
           all == Append(granted, tick)
<1>1. at \in [Callers -> Places] /\ granted \in Seq(0 .. LastTick) /\ tick \in 0 .. LastTick
      /\ until \in [Callers -> Int] /\ Len(granted) <= MaxRequests + 1
  BY DEF LimiterTyped
<1>2. Go(c, from, "call") /\ "call" \in Places
  BY DEF Grant, Places
<1>3. at' \in [Callers -> Places]
  BY <1>1, <1>2 DEF Go
<1>4. at[c] = from /\ (\A d \in Callers : at'[d] = "sleep" => d # c /\ at[d] = "sleep")
  BY <1>1, <1>2, Sleepless
<1>5. InOrder(S)
  BY RecentInOrder, StampInOrder
<1>6. all \in Seq(0 .. LastTick) /\ Len(all) = Len(granted) + 1 /\ Len(granted) \in Nat
  BY <1>1
<1>7. window' = S /\ granted' = IF Len(all) > MaxRequests + 1 THEN Tail(all) ELSE all
  BY DEF Grant
<1> HIDE DEF S, all
<1>8. granted' \in Seq(0 .. LastTick) /\ Len(granted') <= MaxRequests + 1
  <2>1. CASE Len(all) > MaxRequests + 1
    <3>1. all # <<>>
      BY <2>1, NvdNumbers
    <3>2. Tail(all) \in Seq(0 .. LastTick) /\ Len(Tail(all)) = Len(all) - 1
      BY <1>6, <3>1
    <3>3. QED
      BY <1>1, <1>6, <1>7, <2>1, <3>2, NvdNumbers
  <2>2. CASE ~ (Len(all) > MaxRequests + 1)
    BY <1>6, <1>7, <2>2, NvdNumbers
  <2>3. QED
    BY <2>1, <2>2
<1>9. InOrder(window)'
  <2>1. tick' = tick
    OBVIOUS
  <2>2. QED
    BY <1>5, <1>7, <2>1 DEF InOrder
<1>10. QED
  BY <1>1, <1>3, <1>4, <1>8, <1>9 DEF LimiterTyped

LEMMA AcquireIsPaced ==
  ASSUME LimiterTyped, crowded \/ Paced, NEW c \in Callers, Acquire(c)
  PROVE  LimiterTyped' /\ (crowded \/ Paced)'
<1>1. /\ at[c] = "acquire" /\ UNCHANGED tick
      /\ crowded' = (crowded \/ \E d \in Callers : at[d] = "sleep")
  BY DEF Acquire
<1>2. at \in [Callers -> Places] /\ until \in [Callers -> Int]
  BY DEF LimiterTyped
<1>3. CASE Len(Recent) < MaxRequests /\ Grant(c, "acquire", Recent) /\ UNCHANGED until
  <2>1. LimiterTyped' /\ (\A d \in Callers : at'[d] = "sleep" => at[d] = "sleep")
    BY <1>1, <1>3, GrantTyped
  <2>2. ASSUME ~crowded'
        PROVE  Paced'
    <3>1. Paced /\ \A d \in Callers : at[d] # "sleep"
      BY <1>1, <2>2
    <3>2. \A d \in Callers : at'[d] # "sleep"
      BY <2>1, <3>1
    <3>3. SleepsAlone'
      BY <3>2 DEF SleepsAlone
    <3>4. /\ Len(window') <= MaxRequests
          /\ Stamped(granted, window)'
          /\ \A i \in 1 .. Len(granted') - MaxRequests :
               granted'[i + MaxRequests] - granted'[i] >= Window
      BY <1>1, <1>3, <3>1, GrantIsPaced
    <3>5. QED
      BY <3>3, <3>4 DEF Paced
  <2>3. QED
    BY <2>1, <2>2
<1>4. CASE /\ Len(Recent) >= MaxRequests /\ Go(c, "acquire", "sleep")
           /\ until' = [until EXCEPT ![c] = OldestLeaves(Recent)]
           /\ window' = Recent
           /\ UNCHANGED <<granted, tries>>
  <2>1. InOrder(Recent) /\ Len(Recent) \in Nat /\ Len(Recent) <= Len(window)
    BY RecentInOrder
  <2>2. Recent # <<>> /\ Recent \in Seq(0 .. LastTick)
    BY <1>4, <2>1, NvdNumbers DEF InOrder
  <2>3. OldestLeaves(Recent) = Recent[1] + Window /\ Recent[1] + Window \in Int
    <3> DEFINE R == Recent
    <3>1. R # <<>> /\ R \in Seq(0 .. LastTick)
      BY <2>2
    <3> HIDE DEF R
    <3>2. Head(R) = R[1] /\ 1 \in 1 .. Len(R)
      BY <3>1
    <3>3. R[1] \in 0 .. LastTick
      BY <3>1, <3>2, ElementsIn
    <3>4. QED
      BY <3>2, <3>3, NvdNumbers DEF OldestLeaves, R
  <2>4. /\ at' \in [Callers -> Places] /\ until' \in [Callers -> Int]
        /\ until'[c] = Recent[1] + Window
        /\ \A d \in Callers : d # c => at'[d] = at[d]
    BY <1>2, <1>4, <2>3 DEF Go, Places
  <2>5. LimiterTyped'
    <3>1. InOrder(window)'
      BY <1>1, <1>4, <2>1 DEF InOrder
    <3>2. QED
      BY <1>1, <1>4, <2>4, <3>1 DEF LimiterTyped
  <2>6. ASSUME ~crowded'
        PROVE  Paced'
    <3>1. Paced /\ \A d \in Callers : at[d] # "sleep"
      BY <1>1, <2>6
    <3>2. \A d \in Callers : at'[d] = "sleep" => d = c
      BY <2>4, <3>1
    <3>3. SleepsAlone'
      BY <1>4, <2>2, <2>4, <3>2, NvdNumbers DEF SleepsAlone
    <3>4. Stamped(granted, window)'
      <4>1. Stamped(granted, Recent)
        BY <3>1, CleaningStamps DEF Paced
      <4>2. QED
        BY <1>1, <1>4, <4>1 DEF Stamped
    <3>5. Len(window') <= MaxRequests
      <4>1. Len(window) \in Nat
        BY DEF LimiterTyped, InOrder
      <4>2. QED
        BY <1>4, <2>1, <3>1, <4>1, NvdNumbers DEF Paced
    <3>6. QED
      BY <1>4, <3>1, <3>3, <3>4, <3>5 DEF Paced
  <2>7. QED
    BY <2>5, <2>6
<1>5. QED
  BY <1>3, <1>4 DEF Acquire

LEMMA WakeIsPaced ==
  ASSUME LimiterTyped, crowded \/ Paced, NEW c \in Callers, Wake(c)
  PROVE  LimiterTyped' /\ (crowded \/ Paced)'
<1>1. tick >= until[c] /\ Grant(c, "sleep", Recent) /\ UNCHANGED <<tick, until, crowded>>
  BY DEF Wake
<1>2. LimiterTyped' /\ at[c] = "sleep" /\ (\A d \in Callers : at'[d] = "sleep" => d # c /\ at[d] = "sleep")
  BY <1>1, GrantTyped
<1>3. ASSUME ~crowded
      PROVE  Paced'
  <2>1. Paced /\ SleepsAlone /\ window # <<>> /\ until[c] >= window[1] + Window
    BY <1>2, <1>3 DEF Paced, SleepsAlone
  <2>2. PICK k \in 0 .. Len(window) :
           /\ Len(Recent) = Len(window) - k
           /\ \A i \in 1 .. Len(window) : i <= k <=> tick - window[i] >= Window
    BY RecentKeeps
  <2>3. window \in Seq(0 .. LastTick) /\ Len(window) \in Nat /\ 1 \in 1 .. Len(window)
    BY <2>1 DEF LimiterTyped, InOrder
  <2>4. tick \in 0 .. LastTick /\ until[c] \in Int /\ window[1] \in 0 .. LastTick
    BY <2>3, ElementsIn DEF LimiterTyped
  <2>5. tick - window[1] >= Window
    BY <1>1, <2>1, <2>4, NvdNumbers
  <2>6. Len(Recent) < MaxRequests
    BY <2>1, <2>2, <2>3, <2>5, NvdNumbers DEF Paced
  <2>7. /\ Len(window') <= MaxRequests
        /\ Stamped(granted, window)'
        /\ \A i \in 1 .. Len(granted') - MaxRequests :
             granted'[i + MaxRequests] - granted'[i] >= Window
    BY <1>1, <2>1, <2>6, GrantIsPaced
  <2>8. \A d \in Callers : at'[d] # "sleep"
    BY <1>2, <2>1 DEF SleepsAlone
  <2>9. SleepsAlone'
    BY <2>8 DEF SleepsAlone
  <2>10. QED
    BY <2>7, <2>9 DEF Paced
<1>4. QED
  BY <1>1, <1>2, <1>3

LEMMA ElapsesIsPaced ==
  ASSUME LimiterTyped, crowded \/ Paced, Elapses
  PROVE  LimiterTyped' /\ (crowded \/ Paced)'
<1>1. /\ tick < LastTick /\ tick' = tick + 1
      /\ UNCHANGED <<at, window, until, granted, crowded>>
  BY DEF Elapses, limiterVars
<1>2. tick \in 0 .. LastTick /\ LastTick \in Nat
  BY NvdNumbers DEF LimiterTyped
<1>3. LimiterTyped'
  <2>1. window \in Seq(0 .. LastTick) /\ \A k \in 1 .. Len(window) : window[k] \in 0 .. LastTick
    BY ElementsIn DEF LimiterTyped, InOrder
  <2>2. InOrder(window)'
    BY <1>1, <1>2, <2>1 DEF LimiterTyped, InOrder
  <2>3. QED
    BY <1>1, <1>2, <2>2 DEF LimiterTyped
<1>4. ASSUME ~crowded
      PROVE  Paced'
  <2>1. Paced
    BY <1>4
  <2>2. \A k \in 1 .. Len(granted) : granted[k] \in 0 .. LastTick
    BY ElementsIn DEF LimiterTyped
  <2>3. Stamped(granted, window)'
    <3>1. \A k \in 1 .. Len(granted) :
            tick - granted[k] >= Window => (tick + 1) - granted[k] >= Window
      BY <1>2, <2>2, NvdNumbers
    <3>2. \A k \in 1 .. Len(granted) :
            \/ /\ Len(granted) - k < Len(window)
               /\ window[Len(window) - (Len(granted) - k)] = granted[k]
            \/ (tick + 1) - granted[k] >= Window
      BY <2>1, <3>1 DEF Paced, Stamped
    <3>3. QED
      BY <1>1, <3>2 DEF Stamped
  <2>4. SleepsAlone'
    BY <1>1, <2>1 DEF Paced, SleepsAlone
  <2>5. QED
    BY <1>1, <2>1, <2>3, <2>4 DEF Paced
<1>5. QED
  BY <1>1, <1>3, <1>4

\* The other steps of a caller.
Elsewhere(c) ==
  ReadCache(c) \/ TryLock(c) \/ LockRaises(c) \/ Rechecks(c) \/ Store(c) \/ Release(c)
    \/ CallAnswers(c) \/ FetchFails(c) \/ Backoff(c) \/ AskAgain(c)

LEMMA ElsewhereIsPaced ==
  ASSUME LimiterTyped, crowded \/ Paced, NEW c \in Callers, Elsewhere(c)
  PROVE  LimiterTyped' /\ (crowded \/ Paced)'
<1>1. /\ UNCHANGED <<tick, limiterVars>>
      /\ \E from \in Places, to \in Places \ {"sleep"} : Go(c, from, to)
  BY DEF Elsewhere, ReadCache, TryLock, LockRaises, Rechecks, Store, Release, CallAnswers,
         FetchFails, Backoff, AskAgain, Places
<1>2. at \in [Callers -> Places]
  BY DEF LimiterTyped
<1>3. at' \in [Callers -> Places] /\ \A d \in Callers : at'[d] = "sleep" => at[d] = "sleep"
  BY <1>1, <1>2 DEF Go
<1>4. QED
  BY <1>1, <1>3, LimiterKept

LEMMA LockIsKept ==
  ASSUME LockedByOne, NvdNext
  PROVE  LockedByOne'
<1>1. CASE UNCHANGED <<locked, key, expiries>>
  BY <1>1 DEF LockedByOne
<1>2. ASSUME NEW c \in Callers, TryLock(c)
      PROVE  LockedByOne'
  <2>1. expiries' = expiries
    BY <1>2 DEF TryLock
  <2>2. CASE key
    BY <1>2, <2>1, <2>2 DEF TryLock, LockedByOne
  <2>3. CASE ~key
    <3>1. locked' = locked \cup {c} /\ key' = TRUE
      BY <1>2, <2>3 DEF TryLock
    <3>2. QED
      BY <2>1, <2>3, <3>1 DEF LockedByOne
  <2>4. QED
    BY <2>2, <2>3
<1>3. ASSUME NEW c \in Callers, Release(c)
      PROVE  LockedByOne'
  <2>1. expiries' = expiries /\ locked' = locked \ {c}
    BY <1>3 DEF Release
  <2>2. CASE c \in locked
    BY <2>1, <2>2 DEF LockedByOne
  <2>3. CASE c \notin locked
    <3>1. key' = key /\ locked' = locked
      BY <1>3, <2>1, <2>3 DEF Release, Holds
    <3>2. QED
      BY <2>1, <3>1 DEF LockedByOne
  <2>4. QED
    BY <2>2, <2>3
<1>4. ASSUME LockExpires
      PROVE  LockedByOne'
  BY <1>4 DEF LockExpires, LockedByOne
<1>5. QED
  BY <1>1, <1>2, <1>3, <1>4 DEF NvdNext, ReadCache, LockRaises, Rechecks, Store, Acquire, Wake,
       CallAnswers, FetchFails, Backoff, AskAgain, Evicted, Elapses, cacheVars

\* At every moment, whoever holds the lock holds it alone unless it expired, and a
\* limiter that was never crowded keeps its stamps and its one sleeper in order.
THEOREM NvdInvariance == NvdSpec => []NvdInv
<1>1. NvdInit => NvdInv
  <2>1. SUFFICES ASSUME NvdInit PROVE NvdInv
    OBVIOUS
  <2>2. LimiterTyped
    BY <2>1, NvdNumbers DEF NvdInit, LimiterTyped, InOrder, Places
  <2>3. LockedByOne
    BY <2>1 DEF NvdInit, LockedByOne
  <2>4. Paced
    BY <2>1, NvdNumbers DEF NvdInit, Paced, Stamped, SleepsAlone
  <2>5. QED
    BY <2>2, <2>3, <2>4 DEF NvdInv
<1>2. NvdInv /\ [NvdNext]_nvdVars => NvdInv'
  <2>1. SUFFICES ASSUME NvdInv, [NvdNext]_nvdVars PROVE NvdInv'
    OBVIOUS
  <2>2. LimiterTyped /\ LockedByOne /\ (crowded \/ Paced)
    BY <2>1 DEF NvdInv
  <2>3. at \in [Callers -> Places]
    BY <2>2 DEF LimiterTyped
  <2>4. LockedByOne'
    <3>1. CASE UNCHANGED nvdVars
      BY <2>2, <3>1 DEF nvdVars, cacheVars, LockedByOne
    <3>2. QED
      BY <2>1, <2>2, <3>1, LockIsKept
  <2>5. LimiterTyped' /\ (crowded \/ Paced)'
    <3>1. CASE UNCHANGED <<tick, at, limiterVars>>
      BY <2>2, <2>3, <3>1, LimiterKept
    <3>2. UNCHANGED nvdVars \/ LockExpires \/ Evicted => UNCHANGED <<tick, at, limiterVars>>
      BY DEF nvdVars, LockExpires, Evicted
    <3>3. CASE Elapses
      BY <2>2, <3>3, ElapsesIsPaced
    <3>4. ASSUME NEW c \in Callers, Acquire(c) \/ Wake(c) \/ Elsewhere(c)
          PROVE  LimiterTyped' /\ (crowded \/ Paced)'
      BY <2>2, <3>4, AcquireIsPaced, WakeIsPaced, ElsewhereIsPaced
    <3>5. NvdNext => \/ \E c \in Callers : Acquire(c) \/ Wake(c) \/ Elsewhere(c)
                     \/ LockExpires \/ Evicted \/ Elapses
      BY DEF NvdNext, Elsewhere
    <3>6. QED
      BY <2>1, <3>1, <3>2, <3>3, <3>4, <3>5
  <2>6. QED
    BY <2>4, <2>5 DEF NvdInv
<1>3. QED
  BY <1>1, <1>2, PTL DEF NvdSpec

\* The lock of a CVE has one holder as long as none expired, and no window of the
\* limiter has more slots than its limit as long as no caller came to it while another
\* slept: for any number of callers, retries, slots and ticks (NvdCache and the
\* limiter of NvdClient).
THEOREM LockAndLimitAlwaysHold == NvdSpec => []LockAndLimitHold
<1>1. ASSUME NvdInv
      PROVE  LockAndLimitHold
  <2>1. UncrowdedIsWithinLimit
    BY <1>1 DEF NvdInv, Paced, UncrowdedIsWithinLimit
  <2>2. ASSUME expiries = 0
        PROVE  Cardinality(locked) <= 1 /\ (locked # {} => key)
    <3>1. (\A c, d \in locked : c = d) /\ (locked # {} => key)
      BY <1>1, <2>2 DEF NvdInv, LockedByOne
    <3>2. CASE locked = {}
      BY <3>1, <3>2, FS_EmptySet
    <3>3. CASE locked # {}
      <4>1. PICK c \in locked : TRUE
        BY <3>3
      <4>2. locked = {c}
        BY <3>1, <4>1
      <4>3. Cardinality(locked) = 1
        BY <4>2, FS_Singleton
      <4>4. QED
        BY <3>1, <4>3
    <3>4. QED
      BY <3>2, <3>3
  <2>3. QED
    BY <2>1, <2>2 DEF LockAndLimitHold, OneHolderUnlessExpired
<1>2. QED
  BY <1>1, NvdInvariance, PTL

-----------------------------------------------------------------------------
(* The dataset that is packaged *)

\* The manifest of the first n results.
ManifestOf(n) ==
  [events |-> Cardinality(DOMAIN Traces(n)), scenarios |-> Len(Labels(n)), splits |-> Split(n),
   attacks |-> {Labels(n)[i].run : i \in {j \in DOMAIN Labels(n) : Labels(n)[j].label = 1}},
   tracesSum |-> Traces(n), labelsSum |-> Labels(n)]

DatasetTyped ==
  /\ history \in Histories
  /\ finished \in 0 .. Len(history)
  /\ written \in -1 .. Len(Order) - 1
  /\ files = [f \in Artifacts |-> files[f]]

\* What is written was read at one moment.
PackageIsRead == \E n \in 0 .. finished : package = Package(n)

\* The tables of this packaging are there when its manifest is written.
TablesComeFirst ==
  /\ written >= 1 => files.traces = package.traces
  /\ written >= 2 => files.labels = package.labels

\* Whatever manifest is there is of one packaging.
ManifestIsRead ==
  Whole("manifest") => \E n \in 0 .. finished : files.manifest = ManifestOf(n)

DatasetInv == DatasetTyped /\ PackageIsRead /\ TablesComeFirst /\ ManifestIsRead

LEMMA SameData ==
  ASSUME UNCHANGED history
  PROVE  \A n : Package(n)' = Package(n) /\ ManifestOf(n)' = ManifestOf(n)
<1>1. \A n : Traces(n)' = Traces(n) /\ Labels(n)' = Labels(n)
  BY DEF Traces, TraceRow, Labels, LabelRow
<1>2. \A n : Split(n)' = Split(n)
  BY DEF Split, Held, Later, ByRepetition, ReadAfter
<1>3. QED
  BY <1>1, <1>2 DEF Package, ManifestOf

LEMMA OrderIs ==
  /\ Len(Order) = 7
  /\ \A k \in 1 .. 7 : Order[k] \in Artifacts
  /\ Order[1] = "traces" /\ Order[2] = "labels" /\ Order[3] = "manifest"
  /\ \A k \in 1 .. 7 : Order[k] = "manifest" => k = 3
  /\ \A k \in 1 .. 7 : Order[k] = "traces" => k = 1
  /\ \A k \in 1 .. 7 : Order[k] = "labels" => k = 2
BY DEF Order, Artifacts

\* What is in the directory does not become another packaging's by itself.
LEMMA ManifestStays ==
  ASSUME DatasetInv, UNCHANGED history, files'["manifest"] = files["manifest"],
         finished' \in Nat, finished' >= finished
  PROVE  ManifestIsRead'
<1>1. SUFFICES ASSUME files.manifest \notin {NoFile, Torn}
               PROVE  \E n \in 0 .. finished' : files.manifest = ManifestOf(n)'
  BY DEF ManifestIsRead, Whole
<1>2. PICK n \in 0 .. finished : files.manifest = ManifestOf(n)
  BY <1>1 DEF DatasetInv, ManifestIsRead, Whole
<1>3. n \in 0 .. finished'
  <2>1. finished \in Int
    BY HistoriesAssumption DEF DatasetInv, DatasetTyped
  <2>2. QED
    BY <2>1
<1>4. ManifestOf(n)' = ManifestOf(n)
  BY SameData
<1>5. QED
  BY <1>2, <1>3, <1>4

LEMMA WriteKeeps ==
  ASSUME DatasetInv, Write
  PROVE  DatasetInv'
<1> DEFINE file == Order[written + 1]
<1>1. DatasetTyped /\ PackageIsRead /\ TablesComeFirst /\ ManifestIsRead
  BY DEF DatasetInv
<1>2. /\ written \in 0 .. 6
      /\ files' = [files EXCEPT ![file] = Content(file)]
      /\ written' = IF written + 1 = 7 THEN -1 ELSE written + 1
      /\ UNCHANGED <<history, finished, package, packagings>>
  BY OrderIs DEF Write
<1>3. files = [f \in Artifacts |-> files[f]]
  BY <1>1 DEF DatasetTyped
<1>4. written + 1 \in 1 .. 7 /\ file \in Artifacts
  BY <1>2, OrderIs
<1> HIDE DEF file
<1>5. /\ files' = [f \in Artifacts |-> files'[f]]
      /\ files'[file] = Content(file)
      /\ \A f \in Artifacts \ {file} : files'[f] = files[f]
  BY <1>2, <1>3, <1>4
<1>6. {"traces", "labels", "manifest"} \subseteq Artifacts
  BY DEF Artifacts
<1>7. DatasetTyped'
  BY <1>1, <1>2, <1>5, OrderIs DEF DatasetTyped
<1>8. \A n : Package(n)' = Package(n) /\ ManifestOf(n)' = ManifestOf(n)
  BY <1>2, SameData
<1>9. PackageIsRead'
  BY <1>1, <1>2, <1>8 DEF PackageIsRead
<1>10. TablesComeFirst'
  <2>1. ASSUME written' >= 1
        PROVE  files'["traces"] = package.traces
    <3>1. CASE file = "traces"
      BY <1>5, <3>1 DEF Content
    <3>2. CASE file # "traces"
      <4>1. written >= 1
        BY <1>2, <2>1, <3>2, OrderIs DEF file
      <4>2. QED
        BY <1>1, <1>5, <1>6, <3>2, <4>1 DEF TablesComeFirst
    <3>3. QED
      BY <3>1, <3>2
  <2>2. ASSUME written' >= 2
        PROVE  files'["labels"] = package.labels
    <3>1. CASE file = "labels"
      BY <1>5, <3>1 DEF Content
    <3>2. CASE file # "labels"
      <4>1. written >= 2
        BY <1>2, <2>2, <3>2, OrderIs DEF file
      <4>2. QED
        BY <1>1, <1>5, <1>6, <3>2, <4>1 DEF TablesComeFirst
    <3>3. QED
      BY <3>1, <3>2
  <2>3. QED
    BY <1>2, <2>1, <2>2 DEF TablesComeFirst
<1>11. ManifestIsRead'
  <2>1. CASE file # "manifest"
    <3>1. files'["manifest"] = files["manifest"]
      BY <1>5, <1>6, <2>1
    <3>2. finished' \in Nat /\ finished' >= finished
      BY <1>1, <1>2, HistoriesAssumption DEF DatasetTyped
    <3>3. QED
      BY <1>2, <3>1, <3>2, ManifestStays
  <2>2. CASE file = "manifest"
    <3>1. written = 2
      BY <1>2, <1>4, <2>2, OrderIs DEF file
    <3>2. files.traces = package.traces /\ files.labels = package.labels
      BY <1>1, <3>1 DEF TablesComeFirst
    <3>3. PICK n \in 0 .. finished : package = Package(n)
      BY <1>1 DEF PackageIsRead
    <3>4. files'["manifest"] = ManifestNow(package.splits)
      BY <1>5, <2>2 DEF Content
    <3>5. ManifestNow(package.splits) = ManifestOf(n)
      BY <3>2, <3>3 DEF ManifestNow, ManifestOf, Package, Sum
    <3>6. QED
      BY <1>2, <1>8, <3>3, <3>4, <3>5 DEF ManifestIsRead
  <2>3. QED
    BY <2>1, <2>2
<1>12. QED
  BY <1>7, <1>9, <1>10, <1>11 DEF DatasetInv

LEMMA InterruptedKeeps ==
  ASSUME DatasetInv, Interrupted
  PROVE  DatasetInv'
<1> DEFINE file == Order[written + 1]
<1>1. DatasetTyped /\ PackageIsRead
  BY DEF DatasetInv
<1>2. /\ written \in 0 .. 6 /\ written' = -1
      /\ files' \in {files, [files EXCEPT ![file] = Torn]}
      /\ UNCHANGED <<history, finished, package, packagings>>
  BY OrderIs DEF Interrupted
<1>3. files = [f \in Artifacts |-> files[f]]
  BY <1>1 DEF DatasetTyped
<1>4. file \in Artifacts
  BY <1>2, OrderIs
<1> HIDE DEF file
<1>5. /\ files' = [f \in Artifacts |-> files'[f]]
      /\ \A f \in Artifacts : files'[f] = files[f] \/ files'[f] = Torn
  BY <1>2, <1>3, <1>4
<1>6. DatasetTyped'
  BY <1>1, <1>2, <1>5, OrderIs DEF DatasetTyped
<1>7. PackageIsRead'
  BY <1>1, <1>2, SameData DEF PackageIsRead
<1>8. TablesComeFirst'
  BY <1>2 DEF TablesComeFirst
<1>9. ManifestIsRead'
  <2>1. CASE files'["manifest"] = files["manifest"]
    <3>1. finished' \in Nat /\ finished' >= finished
      BY <1>1, <1>2, HistoriesAssumption DEF DatasetTyped
    <3>2. QED
      BY <1>2, <2>1, <3>1, ManifestStays
  <2>2. CASE files'["manifest"] = Torn
    BY <2>2 DEF ManifestIsRead, Whole
  <2>3. QED
    BY <1>5, <2>1, <2>2 DEF Artifacts
<1>10. QED
  BY <1>6, <1>7, <1>8, <1>9 DEF DatasetInv

\* A packaging starts, or a campaign goes on.
LEMMA ReadKeeps ==
  ASSUME DatasetInv, Read \/ ResultSaved \/ UNCHANGED datasetVars
  PROVE  DatasetInv'
<1>1. DatasetTyped /\ PackageIsRead /\ TablesComeFirst /\ ManifestIsRead
  BY DEF DatasetInv
<1>2. /\ UNCHANGED <<history, files>>
      /\ finished' \in 0 .. Len(history) /\ finished' >= finished /\ finished \in Nat
  BY <1>1, HistoriesAssumption DEF Read, ResultSaved, datasetVars, DatasetTyped
<1>3. \A n : Package(n)' = Package(n)
  BY <1>2, SameData
<1>4. /\ DatasetTyped' /\ TablesComeFirst'
  BY <1>1, <1>2, OrderIs DEF Read, ResultSaved, datasetVars, DatasetTyped, TablesComeFirst
<1>5. PackageIsRead'
  <2>1. CASE Read
    <3>1. package' = Package(finished) /\ finished' = finished
      BY <2>1 DEF Read
    <3>2. finished \in 0 .. finished' /\ Package(finished)' = Package(finished)
      BY <1>2, <3>1, SameData DEF Package, Traces, TraceRow, Labels, LabelRow, Split, Held,
         Later, ByRepetition, ReadAfter
    <3>3. QED
      BY <3>1, <3>2, <1>3 DEF PackageIsRead
  <2>2. CASE ResultSaved \/ UNCHANGED datasetVars
    <3>1. package' = package
      BY <2>2 DEF ResultSaved, datasetVars
    <3>2. PICK n \in 0 .. finished : package = Package(n)
      BY <1>1 DEF PackageIsRead
    <3>3. n \in 0 .. finished'
      BY <1>2
    <3>4. QED
      BY <1>3, <3>1, <3>2, <3>3 DEF PackageIsRead
  <2>3. QED
    BY <2>1, <2>2
<1>6. ManifestIsRead'
  BY <1>2, ManifestStays
<1>7. QED
  BY <1>4, <1>5, <1>6 DEF DatasetInv

LEMMA DatasetStarts == DatasetInit => DatasetInv
<1>1. SUFFICES ASSUME DatasetInit PROVE DatasetInv
  OBVIOUS
<1>2. PICK h \in Histories : Unpackaged(h)
  BY <1>1 DEF DatasetInit
<1>3. /\ history = h /\ finished = 0 /\ written = -1 /\ package = Package(0)
      /\ files = [f \in Artifacts |-> NoFile]
  BY <1>2 DEF Unpackaged
<1>4. DatasetTyped
  BY <1>2, <1>3, HistoriesAssumption, OrderIs DEF DatasetTyped
<1>5. PackageIsRead
  BY <1>3 DEF PackageIsRead
<1>6. TablesComeFirst
  BY <1>3 DEF TablesComeFirst
<1>7. ManifestIsRead
  BY <1>3 DEF ManifestIsRead, Whole, Artifacts
<1>8. QED
  BY <1>4, <1>5, <1>6, <1>7 DEF DatasetInv

\* However many packagings are interrupted, whatever the campaigns save meanwhile: a
\* manifest that can be read is of the results of one moment, and its tables, when it
\* was written, were too (DatasetPackager.package).
THEOREM DatasetInvariance == DatasetSpec => []DatasetInv
<1>1. DatasetInv /\ [DatasetNext]_datasetVars => DatasetInv'
  BY WriteKeeps, InterruptedKeeps, ReadKeeps DEF DatasetNext
<1>2. QED
  BY <1>1, DatasetStarts, PTL DEF DatasetSpec

\* Every run is in one part.
LEMMA PartsAreRuns ==
  ASSUME NEW n, NEW m, m = ManifestOf(n)
  PROVE  /\ Parts(m) = {history[i].id : i \in 1 .. n}
         /\ \A part \in {"train", "validation", "test"} :
              m.splits[part] = {history[i].id : i \in {j \in 1 .. n : Held(n, j) = part}}
<1>1. m.splits = Split(n)
  BY DEF ManifestOf
<1>2. \A j : Held(n, j) \in {"train", "validation", "test"}
  BY DEF Held
<1>3. \A part \in {"train", "validation", "test"} :
        m.splits[part] = {history[i].id : i \in {j \in 1 .. n : Held(n, j) = part}}
  BY <1>1 DEF Split
<1>4. QED
  BY <1>2, <1>3 DEF Parts

LEMMA SequenceOfRuns == ASSUME NEW n \in Nat PROVE Len(Labels(n)) = n /\ DOMAIN Labels(n) = 1 .. n
<1>1. Labels(n) \in Seq({LabelRow(history[i]) : i \in 1 .. n})
  BY DEF Labels
<1>2. QED
  BY <1>1 DEF Labels

\* Whoever finds the checksums right has one dataset: counts, parts and labels agree
\* with the tables (DatasetPackager.package, _write_parquet, _sha256).
THEOREM VerifiedIsAlwaysWhole == DatasetSpec => []VerifiedIsWhole
<1>1. ASSUME DatasetInv
      PROVE  VerifiedIsWhole
  <2>1. SUFFICES ASSUME Verified
                 PROVE  LET m == files.manifest
                            rows == {files.labels[i] : i \in DOMAIN files.labels}
                        IN /\ m.events = Cardinality(DOMAIN files.traces)
                           /\ m.scenarios = Len(files.labels)
                           /\ Parts(m) = {row.run : row \in rows}
                           /\ \A i \in DOMAIN files.traces : \E row \in rows :
                                row.run = files.traces[i].run /\ row.label = files.traces[i].label
    BY DEF VerifiedIsWhole
  <2>2. PICK n \in 0 .. finished : files.manifest = ManifestOf(n)
    BY <1>1, <2>1 DEF DatasetInv, ManifestIsRead, Verified
  <2>3. files.traces = Traces(n) /\ files.labels = Labels(n)
    BY <2>1, <2>2 DEF Verified, ManifestOf
  <2>4. /\ files.manifest.events = Cardinality(DOMAIN files.traces)
        /\ files.manifest.scenarios = Len(files.labels)
    BY <2>2, <2>3 DEF ManifestOf
  <2> DEFINE rows == {files.labels[i] : i \in DOMAIN files.labels}
  <2>5. rows = {LabelRow(history[i]) : i \in 1 .. n}
    BY <2>3 DEF Labels
  <2> HIDE DEF rows
  <2>6. Parts(files.manifest) = {row.run : row \in rows}
    <3>1. {row.run : row \in rows} = {history[i].id : i \in 1 .. n}
      <4>1. \A i : LabelRow(history[i]).run = history[i].id
        BY DEF LabelRow
      <4> HIDE DEF LabelRow
      <4>2. {row.run : row \in rows} = {LabelRow(history[i]).run : i \in 1 .. n}
        BY <2>5
      <4>3. QED
        BY <4>1, <4>2
    <3>2. QED
      BY <2>2, <3>1, PartsAreRuns
  <2>7. ASSUME NEW e \in DOMAIN files.traces
        PROVE  \E row \in rows :
                 row.run = files.traces[e].run /\ row.label = files.traces[e].label
    <3>1. PICK i \in 1 .. n : e \in {i} \X DOMAIN history[i].events
      BY <2>3, <2>7 DEF Traces
    <3>2. e[1] = i
      BY <3>1
    <3>3. files.traces[e] = TraceRow(history[i], e[2])
      BY <2>3, <2>7, <3>2 DEF Traces
    <3>4. LabelRow(history[i]) \in rows
      BY <2>5, <3>1
    <3>5. QED
      BY <3>3, <3>4 DEF TraceRow, LabelRow
  <2>8. QED
    BY <2>4, <2>6, <2>7 DEF rows
<1>2. QED
  BY <1>1, DatasetInvariance, PTL

-----------------------------------------------------------------------------
(* What is held out *)

Chronicle(n) == history \in Histories /\ n \in 0 .. Len(history)

LEMMA ChronicleIs ==
  ASSUME NEW n, Chronicle(n)
  PROVE  /\ n \in Nat /\ Len(history) \in Nat /\ DOMAIN history = 1 .. Len(history)
         /\ 1 .. n \subseteq DOMAIN history
         /\ \A i \in 1 .. n : history[i].repetition \in Nat /\ history[i].failed \in BOOLEAN
         /\ \A i, j \in DOMAIN history : history[i].id = history[j].id => i = j
<1>1. /\ n \in 0 .. Len(history) /\ Len(history) \in Nat /\ DOMAIN history = 1 .. Len(history)
  BY HistoriesAssumption DEF Chronicle
<1>2. /\ \A i \in 1 .. Len(history) :
           history[i].repetition \in Nat /\ history[i].failed \in BOOLEAN
      /\ \A i, j \in 1 .. Len(history) : history[i].id = history[j].id => i = j
  BY HistoriesAssumption DEF Chronicle
<1>3. n \in Nat /\ 1 .. n \subseteq 1 .. Len(history)
  BY <1>1
<1>4. QED
  BY <1>1, <1>2, <1>3

\* The order of the runs is a strict and total one.
LEMMA RunsAreOrdered ==
  ASSUME NEW n, Chronicle(n), NEW i \in 1 .. n, NEW j \in 1 .. n, NEW k \in 1 .. n
  PROVE  /\ ~ ByRepetition(i, i)
         /\ i = j \/ ByRepetition(i, j) \/ ByRepetition(j, i)
         /\ ByRepetition(i, j) /\ ByRepetition(j, k) => ByRepetition(i, k)
         /\ ByRepetition(j, i) => history[i].repetition <= history[j].repetition
<1>1. /\ i \in Int /\ j \in Int /\ k \in Int
      /\ history[i].repetition \in Nat /\ history[i].failed \in BOOLEAN
      /\ history[j].repetition \in Nat /\ history[j].failed \in BOOLEAN
      /\ history[k].repetition \in Nat /\ history[k].failed \in BOOLEAN
  BY ChronicleIs
<1>2. QED
  BY <1>1 DEF ByRepetition, ReadAfter

LEMMA LaterIs ==
  ASSUME NEW n, Chronicle(n), NEW i \in 1 .. n
  PROVE  /\ Later(n, i) \subseteq 1 .. n
         /\ IsFiniteSet(Later(n, i)) /\ Cardinality(Later(n, i)) \in Nat
         /\ Later(n, i) = {} => Cardinality(Later(n, i)) = 0
         /\ \A j, k \in Later(n, i) : Cardinality(Later(n, i)) <= 1 => j = k
<1>1. Later(n, i) \subseteq 1 .. n
  BY DEF Later
<1>2. IsFiniteSet(1 .. n)
  BY ChronicleIs, FS_Interval
<1> DEFINE L == Later(n, i)
<1> HIDE DEF L
<1>3. IsFiniteSet(L)
  BY <1>1, <1>2, FS_Subset DEF L
<1>4. Cardinality(L) \in Nat
  BY <1>3, FS_CardinalityType
<1>5. L = {} => Cardinality(L) = 0
  BY FS_EmptySet
<1>6. ASSUME NEW j \in L, NEW k \in L, Cardinality(L) <= 1
      PROVE  j = k
  BY <1>3, <1>4, <1>6, TwoAtLeast
<1>7. QED
  BY <1>1, <1>3, <1>4, <1>5, <1>6 DEF L

LEMMA HeldIs ==
  ASSUME NEW n, Chronicle(n), NEW i \in 1 .. n
  PROVE  /\ history[i].family \notin TestFamilies => Held(n, i) = "train"
         /\ Held(n, i) = "test" => Later(n, i) = {}
         /\ Held(n, i) = "validation" => Later(n, i) # {} /\ Cardinality(Later(n, i)) <= 1
         /\ Held(n, i) = "train" /\ history[i].family \in TestFamilies => Later(n, i) # {}
         /\ history[i].family \in TestFamilies /\ Later(n, i) = {} => Held(n, i) = "test"
BY LaterIs DEF Held

\* Two runs of a family: one of them is later.
LEMMA OneIsLater ==
  ASSUME NEW n, Chronicle(n), NEW i \in 1 .. n, NEW j \in 1 .. n,
         history[i].family = history[j].family, i # j
  PROVE  j \in Later(n, i) \/ i \in Later(n, j)
BY RunsAreOrdered DEF Later

LEMMA LaterStill ==
  ASSUME NEW n, Chronicle(n), NEW i \in 1 .. n, NEW j \in Later(n, i), NEW k \in Later(n, j)
  PROVE  k \in Later(n, i) /\ k # j
<1>1. j \in 1 .. n /\ k \in 1 .. n
  BY DEF Later
<1>2. ByRepetition(j, i) /\ ByRepetition(k, j)
  BY DEF Later
<1>3. ByRepetition(k, i) /\ k # j
  BY <1>1, <1>2, RunsAreOrdered
<1>4. QED
  BY <1>1, <1>3 DEF Later

\* The one run after that for validation is for the test.
LEMMA ValidationBeforeTest ==
  ASSUME NEW n, Chronicle(n), NEW i \in 1 .. n, Held(n, i) = "validation"
  PROVE  \E k \in Later(n, i) : Held(n, k) = "test"
<1>1. history[i].family \in TestFamilies /\ Later(n, i) # {} /\ Cardinality(Later(n, i)) <= 1
  BY HeldIs
<1>2. PICK k \in Later(n, i) : TRUE
  BY <1>1
<1>3. k \in 1 .. n /\ history[k].family = history[i].family
  BY DEF Later
<1>4. Later(n, k) = {}
  <2>1. SUFFICES ASSUME NEW l \in Later(n, k) PROVE FALSE
    OBVIOUS
  <2>2. l \in Later(n, i) /\ l # k
    BY LaterStill
  <2>3. QED
    BY <1>1, <1>2, <2>2, LaterIs
<1>5. QED
  BY <1>1, <1>3, <1>4, HeldIs

LEMMA OneForEach ==
  ASSUME NEW n, Chronicle(n), NEW i \in 1 .. n, NEW j \in 1 .. n,
         history[i].family = history[j].family,
         Held(n, i) = Held(n, j), Held(n, i) \in {"validation", "test"}
  PROVE  i = j
<1>1. ASSUME NEW a \in 1 .. n, NEW b \in Later(n, a),
             Held(n, a) = Held(n, b), Held(n, a) \in {"validation", "test"}
      PROVE  FALSE
  <2>1. b \in 1 .. n
    BY DEF Later
  <2>2. Held(n, a) = "validation" /\ Held(n, b) = "validation"
    BY <1>1, HeldIs
  <2>3. PICK k \in Later(n, b) : TRUE
    BY <2>1, <2>2, HeldIs
  <2>4. k \in Later(n, a) /\ k # b
    BY LaterStill
  <2>5. QED
    BY <2>2, <2>4, HeldIs, LaterIs
<1>2. QED
  BY <1>1, OneIsLater

\* What is trained on is no later than what is held out.
LEMMA HeldOutLater ==
  ASSUME NEW n, Chronicle(n), NEW i \in 1 .. n, NEW j \in 1 .. n,
         history[i].family = history[j].family,
         \/ Held(n, i) = "train" /\ Held(n, j) = "validation"
         \/ Held(n, i) = "validation" /\ Held(n, j) = "test"
  PROVE  history[i].repetition <= history[j].repetition
<1>1. i # j
  OBVIOUS
<1>2. i \notin Later(n, j)
  <2>1. SUFFICES ASSUME i \in Later(n, j) PROVE FALSE
    OBVIOUS
  <2>2. Held(n, j) = "validation" /\ Held(n, i) = "train"
    BY <2>1, HeldIs
  <2>3. history[i].family \in TestFamilies
    BY <2>2, HeldIs
  <2>4. PICK k \in Later(n, i) : TRUE
    BY <2>2, <2>3, HeldIs
  <2>5. k \in Later(n, j) /\ k # i
    BY <2>1, LaterStill
  <2>6. QED
    BY <2>1, <2>2, <2>5, HeldIs, LaterIs
<1>3. j \in Later(n, i)
  BY <1>1, <1>2, OneIsLater
<1>4. QED
  BY <1>3, RunsAreOrdered DEF Later

LEMMA NoRunTwice ==
  ASSUME NEW n, Chronicle(n)
  PROVE  Cardinality({history[i].id : i \in 1 .. n}) = n
<1> DEFINE D == 1 .. n
           I == {history[i].id : i \in D}
           f == [i \in D |-> history[i].id]
<1>1. \A i, j \in D : history[i].id = history[j].id => i = j
  BY ChronicleIs
<1>2. f \in [D -> I] /\ (\A a, b \in D : f[a] = f[b] => a = b) /\ \A x \in I : \E a \in D : f[a] = x
  BY <1>1
<1>3. IsFiniteSet(D) /\ Cardinality(D) = n
  BY ChronicleIs, FS_Interval
<1> HIDE DEF D, I, f
<1>4. f \in Bijection(D, I)
  BY <1>2 DEF Bijection, Injection, Surjection, IsInjective
<1>5. ExistsBijection(D, I)
  BY <1>4 DEF ExistsBijection
<1>6. Cardinality(I) = Cardinality(D)
  BY <1>3, <1>5, FS_Bijection
<1>7. QED
  BY <1>3, <1>6 DEF I, D

LEMMA AtMostOne ==
  ASSUME NEW S, \A a, b \in S : a = b
  PROVE  Cardinality(S) \in 0 .. 1 /\ (S # {} => Cardinality(S) = 1)
<1>1. CASE S = {}
  BY <1>1, FS_EmptySet
<1>2. CASE S # {}
  <2>1. PICK a \in S : TRUE
    BY <1>2
  <2>2. S = {a}
    OBVIOUS
  <2>3. Cardinality({a}) = 1
    BY FS_Singleton
  <2>4. QED
    BY <1>2, <2>2, <2>3
<1>3. QED
  BY <1>1, <1>2

\* No attack is both trained on and tested with, and what is held out is the latest
\* (DatasetPackager._create_splits).
THEOREM HeldOutIsAlwaysHeldOut == DatasetSpec => []HeldOutIsHeldOut
<1>1. ASSUME DatasetInv
      PROVE  HeldOutIsHeldOut
  <2> DEFINE m == files.manifest
             s == m.splits
             Of(part, family) ==
               {i \in DOMAIN history : history[i].id \in s[part] /\ history[i].family = family}
  <2>1. SUFFICES ASSUME Whole("manifest")
                 PROVE  /\ s.train \cap s.validation = {}
                        /\ (s.train \cup s.validation) \cap s.test = {}
                        /\ Cardinality(Parts(m)) = m.scenarios
                        /\ \A family \in {history[i].family : i \in DOMAIN history} :
                             /\ family \notin TestFamilies =>
                                  Of("validation", family) \cup Of("test", family) = {}
                             /\ Cardinality(Of("validation", family)) \in
                                  0 .. Cardinality(Of("test", family))
                             /\ Cardinality(Of("test", family)) \in 0 .. 1
                             /\ \A i \in Of("train", family), j \in Of("validation", family),
                                   k \in Of("test", family) :
                                  /\ history[i].repetition <= history[j].repetition
                                  /\ history[j].repetition <= history[k].repetition
    BY DEF HeldOutIsHeldOut
  <2>2. PICK n \in 0 .. finished : m = ManifestOf(n)
    BY <1>1, <2>1 DEF DatasetInv, ManifestIsRead
  <2>3. Chronicle(n)
    BY <1>1, HistoriesAssumption DEF DatasetInv, DatasetTyped, Chronicle
  <2>4. /\ n \in Nat /\ 1 .. n \subseteq DOMAIN history
        /\ \A i, j \in DOMAIN history : history[i].id = history[j].id => i = j
    BY <2>3, ChronicleIs
  <2> DEFINE In(part) == {i \in 1 .. n : Held(n, i) = part}
             parts == {"train", "validation", "test"}
  <2>5. /\ Parts(m) = {history[i].id : i \in 1 .. n}
        /\ \A part \in parts : s[part] = {history[i].id : i \in In(part)}
    BY <2>2, PartsAreRuns
  <2> HIDE DEF s, m
  <2>6. \A part \in parts : \A i \in DOMAIN history :
          history[i].id \in s[part] <=> i \in In(part)
    BY <2>4, <2>5
  <2>7. s.train \cap s.validation = {} /\ (s.train \cup s.validation) \cap s.test = {}
    <3>1. \A p, q \in parts : p # q => s[p] \cap s[q] = {}
      BY <2>4, <2>5
    <3>2. QED
      BY <3>1
  <2>8. Cardinality(Parts(m)) = m.scenarios
    <3>1. m.scenarios = n
      BY <2>2, <2>4, SequenceOfRuns DEF ManifestOf
    <3>2. QED
      BY <2>3, <2>5, <3>1, NoRunTwice
  <2>9. ASSUME NEW family, NEW part \in parts
        PROVE  Of(part, family) = {i \in In(part) : history[i].family = family}
    BY <2>4, <2>6
  <2> HIDE DEF Of
  <2>10. ASSUME NEW family
         PROVE  /\ family \notin TestFamilies =>
                     Of("validation", family) \cup Of("test", family) = {}
                /\ Cardinality(Of("validation", family)) \in
                     0 .. Cardinality(Of("test", family))
                /\ Cardinality(Of("test", family)) \in 0 .. 1
                /\ \A i \in Of("train", family), j \in Of("validation", family),
                      k \in Of("test", family) :
                     /\ history[i].repetition <= history[j].repetition
                     /\ history[j].repetition <= history[k].repetition
    <3> DEFINE v == Of("validation", family)
               t == Of("test", family)
               r == Of("train", family)
    <3>1. /\ v = {i \in 1 .. n : Held(n, i) = "validation" /\ history[i].family = family}
          /\ t = {i \in 1 .. n : Held(n, i) = "test" /\ history[i].family = family}
          /\ r = {i \in 1 .. n : Held(n, i) = "train" /\ history[i].family = family}
      BY <2>9
    <3> HIDE DEF v, t, r
    <3>2. family \notin TestFamilies => v \cup t = {}
      BY <2>3, <3>1, HeldIs
    <3>3. (\A i, j \in v : i = j) /\ (\A i, j \in t : i = j)
      BY <2>3, <3>1, OneForEach
    <3>4. v # {} => t # {}
      <4>1. SUFFICES ASSUME NEW i \in v PROVE t # {}
        OBVIOUS
      <4>2. PICK k \in Later(n, i) : Held(n, k) = "test"
        BY <2>3, <3>1, ValidationBeforeTest
      <4>3. k \in 1 .. n /\ history[k].family = family
        BY <3>1 DEF Later
      <4>4. QED
        BY <3>1, <4>2, <4>3
    <3>5. /\ Cardinality(v) \in 0 .. 1 /\ Cardinality(t) \in 0 .. 1
          /\ t # {} => Cardinality(t) = 1
          /\ v = {} => Cardinality(v) = 0
      BY <3>3, AtMostOne, FS_EmptySet
    <3>6. Cardinality(v) \in 0 .. Cardinality(t)
      BY <3>4, <3>5
    <3>7. ASSUME NEW i \in r, NEW j \in v, NEW k \in t
          PROVE  /\ history[i].repetition <= history[j].repetition
                 /\ history[j].repetition <= history[k].repetition
      BY <2>3, <3>1, HeldOutLater
    <3>8. QED
      BY <3>2, <3>5, <3>6, <3>7 DEF v, t, r
  <2>11. QED
    BY <2>7, <2>8, <2>10 DEF m, s, Of
<1>2. QED
  BY <1>1, DatasetInvariance, PTL

-----------------------------------------------------------------------------
(* The comparison with other detectors *)

\* The rows, as they are made of what was collected.
RowsNow ==
  [d \in Detectors \cup {"phantom"} |-> IF d = "phantom" THEN PhantomReport ELSE BaselineReport(d)]

ComparisonTyped ==
  /\ study \in Studies
  /\ usable \subseteq DOMAIN study.results /\ pending \subseteq DOMAIN study.results
  /\ detections = [d \in Detectors |-> detections[d]]
  /\ \A d \in Detectors : \A x \in detections[d] : x.delay \in Nat

\* Nothing is collected any more when the rows are made.
RowsAreOfSightings ==
  /\ progress \in {"publish", "summary", "done", "raised"} => reports = RowsNow
  /\ published # NotGiven =>
       progress \in {"summary", "done", "raised"} /\ published.reports = reports

ComparisonInv == ComparisonTyped /\ RowsAreOfSightings

LEMMA SameRows ==
  ASSUME UNCHANGED <<study, usable, detections>>
  PROVE  RowsNow' = RowsNow
<1>1. ValidAttacks' = ValidAttacks /\ Benign' = Benign /\ Eligible' = Eligible
  BY DEF ValidAttacks, Attacks, Benign, Eligible, NotInjected, Result
<1>2. \A d : Hits(d)' = Hits(d)
  BY <1>1 DEF Hits, Timely, Result
<1>3. \A d : FalseAlarms(d)' = FalseAlarms(d)
  BY <1>1 DEF FalseAlarms
<1>4. \A d : Delays(d)' = Delays(d)
  BY <1>1, <1>2 DEF Delays, FirstHit
<1>5. PhantomReport' = PhantomReport
  BY <1>1 DEF PhantomReport, BuildReport, Result
<1>6. ASSUME NEW d
      PROVE  BaselineReport(d)' = BaselineReport(d)
  <2>1. Hits(d)' = Hits(d) /\ FalseAlarms(d)' = FalseAlarms(d) /\ Delays(d)' = Delays(d)
    BY <1>2, <1>3, <1>4
  <2>2. QED
    BY <1>1, <2>1 DEF BaselineReport, BuildReport
<1>7. QED
  BY <1>5, <1>6 DEF RowsNow

\* What was seen of a run is a set of alerts.
LEMMA SightingsKeep ==
  ASSUME ComparisonInv, NEW d \in Detectors, NEW i, NEW alerts,
         \A a \in alerts : a.delay \in Nat, Sees(d, i, alerts)
  PROVE  /\ detections' = [e \in Detectors |-> detections'[e]]
         /\ \A e \in Detectors : \A x \in detections'[e] : x.delay \in Nat
<1> DEFINE seen == {[run |-> i, phase |-> a.phase, delay |-> a.delay, number |-> a.number] : a \in alerts}
<1>1. /\ detections = [e \in Detectors |-> detections[e]]
      /\ \A e \in Detectors : \A x \in detections[e] : x.delay \in Nat
  BY DEF ComparisonInv, ComparisonTyped
<1>2. \A x \in seen : x.delay \in Nat
  OBVIOUS
<1>3. detections' = [detections EXCEPT ![d] = @ \cup seen]
  BY DEF Sees
<1> HIDE DEF seen
<1>4. \A e \in Detectors : detections'[e] = IF e = d THEN detections[e] \cup seen ELSE detections[e]
  BY <1>1, <1>3
<1>5. detections' = [e \in Detectors |-> detections'[e]]
  BY <1>1, <1>3
<1>6. QED
  BY <1>1, <1>2, <1>4, <1>5

LEMMA AlertsOf ==
  ASSUME ComparisonInv, NEW i \in pending, NEW d \in {"falco", "forest"},
         NEW alerts \in SUBSET study.sightings[d][i]
  PROVE  \A a \in alerts : a.delay \in Nat
<1>1. i \in DOMAIN study.results /\ study \in Studies
  BY DEF ComparisonInv, ComparisonTyped
<1>2. study.sightings \in [{"falco", "forest"} -> [DOMAIN study.results -> SUBSET Alerts]]
  BY <1>1, StudiesAssumption
<1>3. study.sightings[d][i] \subseteq Alerts
  BY <1>1, <1>2
<1>4. QED
  BY <1>3 DEF Alerts

LEMMA CollectKeeps ==
  ASSUME ComparisonInv, Collect
  PROVE  ComparisonInv'
<1>1. PICK i \in pending : CollectFalco(i) \/ CollectTrivy(i) \/ CollectForest(i)
  BY DEF Collect
<1>2. /\ progress \in {"falco", "trivy", "forest"} /\ Turn(i)
      /\ UNCHANGED <<study, usable, reports, published>>
  BY <1>1 DEF CollectFalco, CollectTrivy, CollectForest
<1>3. progress' \in {"falco", "trivy", "forest", "teardown"} /\ pending' \subseteq usable \cup pending
  BY <1>2 DEF Turn, Following
<1>4. /\ detections' = [e \in Detectors |-> detections'[e]]
      /\ \A e \in Detectors : \A x \in detections'[e] : x.delay \in Nat
  <2>1. CASE CollectFalco(i)
    <3>1. PICK alerts \in SUBSET study.sightings.falco[i] :
            Sees("falco", i, IF HasTime(i) /\ ~study.dryRun THEN alerts ELSE {})
      BY <2>1 DEF CollectFalco
    <3>2. \A a \in alerts : a.delay \in Nat
      BY <3>1, AlertsOf
    <3>3. QED
      BY <3>1, <3>2, SightingsKeep DEF Detectors
  <2>2. CASE CollectForest(i)
    <3>1. PICK alerts \in SUBSET study.sightings.forest[i] :
            Sees("forest", i, IF HasTime(i) /\ fitted # NotGiven THEN alerts ELSE {})
      BY <2>2 DEF CollectForest, ScoredWindows
    <3>2. \A a \in alerts : a.delay \in Nat
      BY <3>1, AlertsOf
    <3>3. QED
      BY <3>1, <3>2, SightingsKeep DEF Detectors
  <2>3. CASE CollectTrivy(i)
    <3>1. CASE UNCHANGED detections
      BY <3>1 DEF ComparisonInv, ComparisonTyped
    <3>2. CASE Sees("trivy", i, IF study.dryRun THEN {}
                                ELSE {[phase |-> "attack", delay |-> 0, number |-> n] : n \in ScanOf(i)})
      BY <3>2, SightingsKeep DEF Detectors
    <3>3. QED
      BY <2>3, <3>1, <3>2 DEF CollectTrivy
  <2>4. QED
    BY <1>1, <2>1, <2>2, <2>3
<1>5. ComparisonTyped'
  BY <1>2, <1>3, <1>4 DEF ComparisonInv, ComparisonTyped
<1>6. RowsAreOfSightings'
  BY <1>2, <1>3 DEF ComparisonInv, RowsAreOfSightings
<1>7. QED
  BY <1>5, <1>6 DEF ComparisonInv

LEMMA ComparisonStep ==
  ASSUME ComparisonInv, [EvaluationNext]_evaluationVars
  PROVE  ComparisonInv'
<1>1. ComparisonTyped /\ RowsAreOfSightings
  BY DEF ComparisonInv
<1>2. CASE Load
  <2>1. usable' \subseteq DOMAIN study.results
    BY <1>2 DEF Load
  <2>2. ComparisonTyped'
    BY <1>1, <1>2, <2>1 DEF Load, ComparisonTyped
  <2>3. RowsAreOfSightings'
    BY <1>1, <1>2 DEF Load, RowsAreOfSightings
  <2>4. QED
    BY <2>2, <2>3 DEF ComparisonInv
<1>3. CASE SetUp \/ TearDown
  BY <1>1, <1>3 DEF SetUp, TearDown, ComparisonInv, ComparisonTyped, RowsAreOfSightings
<1>4. CASE FitAgain
  BY <1>1, <1>4 DEF FitAgain, ComparisonInv, ComparisonTyped, RowsAreOfSightings
<1>5. CASE Collect
  BY <1>5, CollectKeeps
<1>6. CASE Evaluate
  <2>1. /\ UNCHANGED <<study, usable, pending, detections, published>>
        /\ progress = "evaluate" /\ progress' = "publish" /\ reports' = RowsNow
    BY <1>6 DEF Evaluate, RowsNow
  <2>2. RowsNow' = RowsNow
    BY <2>1, SameRows
  <2>3. QED
    BY <1>1, <2>1, <2>2 DEF ComparisonInv, ComparisonTyped, RowsAreOfSightings
<1>7. CASE Publish
  <2>1. /\ UNCHANGED <<study, usable, pending, detections, reports>>
        /\ progress = "publish" /\ progress' = "summary" /\ published'.reports = reports
    BY <1>7 DEF Publish
  <2>2. RowsNow' = RowsNow
    BY <2>1, SameRows
  <2>3. QED
    BY <1>1, <2>1, <2>2 DEF ComparisonInv, ComparisonTyped, RowsAreOfSightings
<1>8. CASE Summary \/ UNCHANGED evaluationVars
  <2>1. /\ UNCHANGED <<study, usable, pending, detections, reports, published>>
        /\ \/ progress' = progress
           \/ progress = "summary" /\ progress' \in {"done", "raised"}
    BY <1>8 DEF Summary, evaluationVars
  <2>2. RowsNow' = RowsNow
    BY <2>1, SameRows
  <2>3. QED
    BY <1>1, <2>1, <2>2 DEF ComparisonInv, ComparisonTyped, RowsAreOfSightings
<1>9. QED
  BY <1>2, <1>3, <1>4, <1>5, <1>6, <1>7, <1>8 DEF EvaluationNext

\* Whatever the detectors saw and lost, the rows of the table are those of what was
\* collected for the runs that were read (run_baselines.main, ScenarioEvaluator.evaluate).
THEOREM ComparisonInvariance == EvaluationSpec => []ComparisonInv
<1>1. ASSUME EvaluationInit
      PROVE  ComparisonInv
  <2>1. PICK s \in Studies : Unread(s)
    BY <1>1 DEF EvaluationInit
  <2>2. QED
    BY <2>1 DEF Unread, ComparisonInv, ComparisonTyped, RowsAreOfSightings
<1>2. QED
  BY <1>1, ComparisonStep, PTL DEF EvaluationSpec

\* A set of pairs of a thing and what is said of it has as many members as there are things.
LEMMA AsManyPairs ==
  ASSUME NEW S, IsFiniteSet(S), NEW f
  PROVE  Cardinality({<<i, f[i]>> : i \in S}) = Cardinality(S)
<1> DEFINE T == {<<i, f[i]>> : i \in S}
           g == [i \in S |-> <<i, f[i]>>]
<1>1. g \in [S -> T] /\ (\A a, b \in S : g[a] = g[b] => a = b) /\ \A x \in T : \E a \in S : g[a] = x
  OBVIOUS
<1> HIDE DEF T, g
<1>2. g \in Bijection(S, T)
  BY <1>1 DEF Bijection, Injection, Surjection, IsInjective
<1>3. ExistsBijection(S, T)
  BY <1>2 DEF ExistsBijection
<1>4. Cardinality(T) = Cardinality(S)
  BY <1>3, FS_Bijection
<1>5. QED
  BY <1>4 DEF T

LEMMA LeastExists ==
  ASSUME NEW S \in SUBSET Nat, S # {}
  PROVE  \E t \in S : \A u \in S : t <= u
<1>1. PICK t \in S : \A u \in S : ~ (<<u, t>> \in OpToRel(<, Nat))
  BY ONLY S \in SUBSET Nat, S # {}, WFMin, NatLessThanWellFounded
<1>2. \A u \in S : ~ (u < t)
  BY <1>1 DEF OpToRel
<1>3. QED
  BY <1>2

\* The runs that are counted are among those of the study.
LEMMA CountedRuns ==
  ASSUME ComparisonInv
  PROVE  /\ \A i \in usable : Result(i) \in Results
         /\ ValidAttacks \subseteq Eligible /\ Benign \subseteq Eligible /\ Eligible \subseteq usable
         /\ \A S \in SUBSET Eligible : IsFiniteSet(S) /\ Size(S) \in Nat
<1>1. study \in Studies /\ usable \subseteq DOMAIN study.results
  BY DEF ComparisonInv, ComparisonTyped
<1>2. study.results \in Seq(Results)
  BY <1>1, StudiesAssumption
<1>3. DOMAIN study.results = 1 .. Len(study.results) /\ Len(study.results) \in Nat
  BY <1>2
<1>4. \A i \in usable : Result(i) \in Results
  BY <1>1, <1>2 DEF Result
<1>5. ValidAttacks \subseteq Eligible /\ Benign \subseteq Eligible /\ Eligible \subseteq usable
  BY DEF ValidAttacks, Attacks, Benign, Eligible
<1>6. IsFiniteSet(DOMAIN study.results)
  BY <1>3, FS_Interval
<1>7. ASSUME NEW S \in SUBSET Eligible
      PROVE  IsFiniteSet(S) /\ Size(S) \in Nat
  <2>1. S \in SUBSET DOMAIN study.results
    BY <1>1, <1>5
  <2>2. IsFiniteSet(S)
    BY <1>6, <2>1, FS_Subset
  <2>3. QED
    BY <2>2, FS_CardinalityType DEF Size
<1>8. QED
  BY <1>4, <1>5, <1>7

\* What the results say of the attacks that count.
LEMMA AttacksAreTold ==
  ASSUME ComparisonInv, NEW i \in ValidAttacks
  PROVE  /\ Result(i).injected = TRUE
         /\ Result(i).detected <=> Result(i).delay # NotGiven
         /\ Result(i).detected => Result(i).delay <= Result(i).window
<1>1. i \in usable /\ Result(i).label = 1 /\ Result(i).status = "established" /\ Result(i).injected # FALSE
  BY DEF ValidAttacks, Attacks, Eligible, NotInjected
<1>2. i \in DOMAIN study.results /\ study \in Studies
  BY <1>1 DEF ComparisonInv, ComparisonTyped
<1>3. Result(i).injected \in {TRUE, FALSE, NotGiven}
  BY <1>1, CountedRuns DEF Results
<1>4. /\ Result(i).status = "established" => Result(i).injected # NotGiven
      /\ Result(i).label = 1 => /\ Result(i).detected <=> Result(i).delay # NotGiven
                                /\ Result(i).detected => Result(i).delay <= Result(i).window
  BY <1>2, ResultsAssumption DEF Result
<1>5. QED
  BY <1>1, <1>3, <1>4

\* The pairs of a part of a set and the rest.
LEMMA PartAndRest ==
  ASSUME NEW S, NEW T \in SUBSET S, IsFiniteSet(S)
  PROVE  /\ Cardinality(T) \in Nat /\ Cardinality(S \ T) \in Nat
         /\ Cardinality(T) + Cardinality(S \ T) = Cardinality(S)
<1>1. IsFiniteSet(T) /\ IsFiniteSet(S \ T)
  BY FS_Subset
<1>2. Cardinality(T) \in Nat /\ Cardinality(S \ T) \in Nat /\ Cardinality(S) \in Nat
  BY <1>1, FS_CardinalityType
<1>3. S \cap T = T
  OBVIOUS
<1>4. Cardinality(S \ T) = Cardinality(S) - Cardinality(S \cap T)
  BY FS_Difference
<1>5. Cardinality(S \ T) = Cardinality(S) - Cardinality(T)
  BY <1>3, <1>4
<1> DEFINE c == Cardinality(S)
           t == Cardinality(T)
           d == Cardinality(S \ T)
<1> HIDE DEF c, t, d
<1>6. c \in Nat /\ t \in Nat /\ d \in Nat /\ d = c - t
  BY <1>2, <1>5 DEF c, t, d
<1>7. t + d = c
  BY <1>6
<1>8. QED
  BY <1>6, <1>7 DEF c, t, d

\* A row that has numbers is about the valid attacks.
Comparable(r) ==
  /\ r.attacks = Size(ValidAttacks)
  /\ r.status = "evaluated" =>
       /\ r.tp + r.fn = r.attacks /\ Size(r.delays) = r.tp
       /\ \A x \in r.delays : Result(x[1]).injected = TRUE /\ x[2] <= Result(x[1]).window

LEMMA PhantomIsComparable ==
  ASSUME ComparisonInv
  PROVE  /\ Comparable(PhantomReport)
         /\ PhantomReport.status = "evaluated" /\ PhantomReport.fp # NotGiven =>
              PhantomReport.fp + PhantomReport.tn = PhantomReport.benign
<1> DEFINE detected == {i \in ValidAttacks : Result(i).detected}
           alarms == {i \in Benign : Result(i).alerted}
           delays == {<<i, Result(i).delay>> : i \in {j \in ValidAttacks : Result(j).delay # NotGiven}}
           r == PhantomReport
<1>1. /\ r.status = IF Eligible = {} THEN "unavailable" ELSE "evaluated"
      /\ r.attacks = Size(ValidAttacks) /\ r.benign = Size(Benign) /\ r.delays = delays
      /\ Eligible # {} => r.tp = Size(detected) /\ r.fn = Size(ValidAttacks \ detected)
      /\ Benign = {} => r.fp = NotGiven
      /\ Benign # {} => r.fp = Size(alarms) /\ r.tn = Size(Benign \ alarms)
  BY DEF PhantomReport, BuildReport
<1>2. IsFiniteSet(ValidAttacks) /\ IsFiniteSet(Benign)
  BY CountedRuns
<1>3. Size(detected) + Size(ValidAttacks \ detected) = Size(ValidAttacks)
  BY <1>2, PartAndRest DEF Size
<1>4. Size(alarms) + Size(Benign \ alarms) = Size(Benign)
  BY <1>2, PartAndRest DEF Size
<1>5. delays = {<<i, Result(i).delay>> : i \in detected}
  BY AttacksAreTold
<1>6. Size(delays) = Size(detected)
  <2> DEFINE f == [i \in detected |-> Result(i).delay]
  <2>1. delays = {<<i, f[i]>> : i \in detected}
    BY <1>5
  <2>2. IsFiniteSet(detected)
    BY <1>2, FS_Subset
  <2> HIDE DEF f, delays, detected
  <2>3. QED
    BY <2>1, <2>2, AsManyPairs DEF Size
<1>7. ASSUME NEW x \in delays
      PROVE  Result(x[1]).injected = TRUE /\ x[2] <= Result(x[1]).window
  <2>1. PICK i \in detected : x = <<i, Result(i).delay>>
    BY <1>5
  <2>2. x[1] = i /\ x[2] = Result(i).delay
    BY <2>1
  <2>3. i \in ValidAttacks /\ Result(i).detected
    OBVIOUS
  <2>4. QED
    BY <2>2, <2>3, AttacksAreTold
<1> HIDE DEF delays, detected, alarms, r
<1>8. Comparable(r)
  BY <1>1, <1>3, <1>6, <1>7 DEF Comparable
<1>9. QED
  BY <1>1, <1>4, <1>8 DEF r

LEMMA BaselineIsComparable ==
  ASSUME ComparisonInv, NEW d \in Detectors
  PROVE  Comparable(BaselineReport(d))
<1> DEFINE runs == {x.run : x \in Hits(d)}
           r == BaselineReport(d)
<1>1. r.attacks = Size(ValidAttacks)
  BY DEF BaselineReport, BuildReport
<1>2. CASE r.status # "evaluated"
  BY <1>1, <1>2 DEF Comparable
<1>3. CASE r.status = "evaluated"
  <2>1. r.tp = Size(runs) /\ r.fn = Size(ValidAttacks) - Size(runs) /\ r.delays = Delays(d)
    BY <1>3 DEF BaselineReport, BuildReport
  <2>2. runs = {j \in ValidAttacks : \E x \in Hits(d) : x.run = j}
    BY DEF Hits, Timely
  <2>3. IsFiniteSet(runs) /\ Size(runs) \in Nat /\ Size(ValidAttacks) \in Nat
    BY <2>2, CountedRuns
  <2>4. Size(Delays(d)) = Size(runs)
    <3> DEFINE f == [i \in runs |-> FirstHit(d, i)]
    <3>1. Delays(d) = {<<i, f[i]>> : i \in runs}
      BY <2>2 DEF Delays
    <3> HIDE DEF f, runs
    <3>2. QED
      BY <2>3, <3>1, AsManyPairs DEF Size
  <2>5. ASSUME NEW i \in runs
        PROVE  FirstHit(d, i) <= Result(i).window
    <3> DEFINE own == {y \in Hits(d) : y.run = i}
               times == {x.delay : x \in own}
    <3>1. \A x \in Hits(d) : x.delay \in Nat
      BY DEF Hits, ComparisonInv, ComparisonTyped
    <3>2. times \in SUBSET Nat /\ times # {}
      BY <2>5, <3>1
    <3> HIDE DEF times
    <3>3. \E t \in times : \A u \in times : t <= u
      BY <3>2, LeastExists
    <3>4. \E t \in times : \A x \in Hits(d) : x.run = i => t <= x.delay
      BY <3>3 DEF times
    <3>5. FirstHit(d, i) \in times
      BY <3>4 DEF FirstHit, times
    <3>6. \A t \in times : t <= Result(i).window
      BY DEF times, Hits, Timely
    <3>7. QED
      BY <3>5, <3>6
  <2>6. \A x \in Delays(d) : Result(x[1]).injected = TRUE /\ x[2] <= Result(x[1]).window
    <3>1. Delays(d) = {<<i, FirstHit(d, i)>> : i \in runs}
      BY <2>2 DEF Delays
    <3>2. \A i \in runs : Result(i).injected = TRUE
      BY <2>2, AttacksAreTold
    <3> HIDE DEF runs
    <3>3. QED
      BY <2>5, <3>1, <3>2
  <2> HIDE DEF runs
  <2>7. QED
    BY <1>1, <2>1, <2>3, <2>4, <2>6 DEF Comparable
<1>4. QED
  BY <1>2, <1>3

\* Detected and missed attacks add up to the same attacks in every row with numbers, and
\* there is a delay, within the window, for each that is counted as detected
\* (ScenarioEvaluator._evaluate_phantom, _evaluate_baseline).
THEOREM RowsAreAlwaysComparable == EvaluationSpec => []RowsAreComparable
<1>1. ASSUME ComparisonInv
      PROVE  RowsAreComparable
  <2>1. SUFFICES ASSUME published # NotGiven,
                        NEW d \in DOMAIN published.reports,
                        published.reports[d].status = "evaluated"
                 PROVE  LET r == published.reports[d]
                        IN /\ r.tp + r.fn = r.attacks
                           /\ \A e \in DOMAIN published.reports : published.reports[e].attacks = r.attacks
                           /\ Size(r.delays) = r.tp
                           /\ \A x \in r.delays :
                                /\ Result(x[1]).injected = TRUE
                                /\ x[2] <= Result(x[1]).window
                           /\ d = "phantom" /\ r.fp # NotGiven => r.fp + r.tn = r.benign
    BY DEF RowsAreComparable
  <2>2. published.reports = RowsNow
    BY <1>1, <2>1 DEF ComparisonInv, RowsAreOfSightings
  <2>3. \A e \in DOMAIN RowsNow : Comparable(RowsNow[e])
    BY <1>1, PhantomIsComparable, BaselineIsComparable DEF RowsNow
  <2>4. d = "phantom" => RowsNow[d] = PhantomReport
    BY <2>1, <2>2 DEF RowsNow
  <2>5. QED
    BY <1>1, <2>1, <2>2, <2>3, <2>4, PhantomIsComparable DEF Comparable
<1>2. QED
  BY <1>1, ComparisonInvariance, PTL

-----------------------------------------------------------------------------
(* Sums over sets of events *)

LEMMA ImageIsFinite ==
  ASSUME NEW S, IsFiniteSet(S), NEW f, DOMAIN f = S
  PROVE  IsFiniteSet({f[x] : x \in S})
<1> DEFINE T == {f[x] : x \in S}
           g == [x \in S |-> f[x]]
<1>1. g \in [S -> T] /\ \A y \in T : \E x \in S : g[x] = y
  OBVIOUS
<1> HIDE DEF T, g
<1>2. g \in Surjection(S, T)
  BY <1>1 DEF Surjection
<1>3. IsFiniteSet(T)
  BY <1>2, FS_Surjection
<1>4. QED
  BY <1>3 DEF T

LEMMA SameSize ==
  ASSUME NEW S, IsFiniteSet(S), NEW T, NEW f \in [S -> T],
         \A a, b \in S : f[a] = f[b] => a = b,
         \A t \in T : \E a \in S : f[a] = t
  PROVE  IsFiniteSet(T) /\ Cardinality(T) = Cardinality(S)
<1>1. f \in Bijection(S, T)
  BY DEF Bijection, Injection, Surjection, IsInjective
<1>2. ExistsBijection(S, T)
  BY <1>1 DEF ExistsBijection
<1>3. QED
  BY <1>2, FS_Bijection

\* What TotalOf counts.
Units(f) == UNION {{e} \X (1 .. f[e]) : e \in DOMAIN f}

LEMMA UnitsAre ==
  ASSUME NEW f
  PROVE  \A u : u \in Units(f) <=> \E e \in DOMAIN f : u \in {e} \X (1 .. f[e])
BY DEF Units

LEMMA UnitsOfOne ==
  ASSUME NEW e, NEW n \in Nat
  PROVE  IsFiniteSet({e} \X (1 .. n)) /\ Cardinality({e} \X (1 .. n)) = n
<1> DEFINE D == 1 .. n
           T == {e} \X D
           f == [i \in D |-> <<e, i>>]
<1>1. f \in [D -> T] /\ (\A a, b \in D : f[a] = f[b] => a = b) /\ \A t \in T : \E a \in D : f[a] = t
  OBVIOUS
<1>2. IsFiniteSet(D) /\ Cardinality(D) = n
  BY FS_Interval
<1> HIDE DEF D, T, f
<1>3. IsFiniteSet(T) /\ Cardinality(T) = Cardinality(D)
  BY ONLY <1>1, <1>2, SameSize, Zenon
<1>4. QED
  BY <1>2, <1>3 DEF T, D

LEMMA UnitsAreFinite ==
  ASSUME NEW S, IsFiniteSet(S), NEW f \in [S -> Nat]
  PROVE  IsFiniteSet(Units(f)) /\ TotalOf(f) = Cardinality(Units(f)) /\ TotalOf(f) \in Nat
<1> DEFINE g == [e \in S |-> {e} \X (1 .. f[e])]
           P == {g[e] : e \in S}
<1>1. DOMAIN g = S
  OBVIOUS
<1>2. Units(f) = UNION P
  BY DEF Units
<1>3. \A e \in S : IsFiniteSet(g[e])
  BY UnitsOfOne
<1> HIDE DEF g
<1>4. IsFiniteSet(P)
  BY <1>1, ImageIsFinite
<1>5. \A T \in P : IsFiniteSet(T)
  BY <1>3
<1> HIDE DEF P
<1>6. IsFiniteSet(Units(f))
  BY <1>2, <1>4, <1>5, FS_UNION
<1>7. TotalOf(f) = Cardinality(Units(f))
  BY DEF TotalOf, Units
<1>8. QED
  BY <1>6, <1>7, FS_CardinalityType

\* One event more adds its number.
LEMMA TotalGrows ==
  ASSUME NEW S, IsFiniteSet(S), NEW e, e \notin S, NEW f \in [S \cup {e} -> Nat]
  PROVE  /\ TotalOf([x \in S |-> f[x]]) \in Nat
         /\ TotalOf(f) = TotalOf([x \in S |-> f[x]]) + f[e]
<1> DEFINE g == [x \in S |-> f[x]]
           one == {e} \X (1 .. f[e])
<1>1. g \in [S -> Nat] /\ f[e] \in Nat
  OBVIOUS
<1>2. IsFiniteSet(S \cup {e})
  BY FS_AddElement
<1>3. /\ IsFiniteSet(Units(g)) /\ TotalOf(g) = Cardinality(Units(g)) /\ TotalOf(g) \in Nat
  BY <1>1, UnitsAreFinite
<1>4. TotalOf(f) = Cardinality(Units(f))
  BY <1>2, UnitsAreFinite
<1>5. IsFiniteSet(one) /\ Cardinality(one) = f[e]
  BY <1>1, UnitsOfOne
<1>6. Units(f) = Units(g) \cup one /\ Units(g) \cap one = {}
  BY DEF Units
<1> HIDE DEF g, one
<1>7. Cardinality(Units(f)) = Cardinality(Units(g)) + Cardinality(one) - Cardinality({})
  BY <1>3, <1>5, <1>6, FS_Union
<1>8. Cardinality({}) = 0
  BY FS_EmptySet
<1>9. TotalOf(f) = TotalOf(g) + f[e]
  BY <1>1, <1>3, <1>4, <1>5, <1>7, <1>8
<1>10. QED
  BY <1>3, <1>9 DEF g

LEMMA TotalOfOne ==
  ASSUME NEW e, NEW f \in [{e} -> Nat]
  PROVE  TotalOf(f) = f[e]
<1>1. Units(f) = {e} \X (1 .. f[e])
  BY DEF Units
<1>2. f[e] \in Nat /\ IsFiniteSet({e})
  BY FS_Singleton
<1>3. TotalOf(f) = Cardinality(Units(f))
  BY <1>2, UnitsAreFinite
<1>4. Cardinality({e} \X (1 .. f[e])) = f[e]
  BY <1>2, UnitsOfOne
<1>5. QED
  BY <1>1, <1>3, <1>4

\* The i-th of c parts of the n-th of some units.
LEMMA PartsOfUnits ==
  ASSUME NEW c \in Nat \ {0}, NEW g \in Nat, NEW m \in 1 .. c * g
  PROVE  \E n \in 1 .. g : \E i \in 1 .. c : m = c * (n - 1) + i
<1> DEFINE q == (m - 1) \div c
<1>1. c * g \in Nat /\ m - 1 \in Nat /\ m - 1 < c * g
  OBVIOUS
<1>2. q \in Int /\ c * q <= m - 1 /\ m - 1 < c * q + c
  BY <1>1
<1> HIDE DEF q
<1>3. q >= 0
  BY <1>1, <1>2
<1>4. c * q < c * g
  BY <1>1, <1>2
<1>5. q < g
  BY <1>2, <1>4
<1>6. m - c * q \in 1 .. c /\ m = c * ((q + 1) - 1) + (m - c * q)
  BY <1>1, <1>2
<1>7. q + 1 \in 1 .. g
  BY <1>2, <1>3, <1>5
<1>8. QED
  BY <1>6, <1>7

LEMMA OnePart ==
  ASSUME NEW c \in Nat \ {0}, NEW n \in Nat, NEW k \in Nat, NEW i \in 1 .. c, NEW j \in 1 .. c,
         c * (n - 1) + i = c * (k - 1) + j
  PROVE  n = k /\ i = j
<1>1. ASSUME NEW a \in Nat, NEW b \in Nat, NEW x \in 1 .. c, NEW y \in 1 .. c,
             c * (a - 1) + x = c * (b - 1) + y
      PROVE  ~ a < b
  <2>1. SUFFICES ASSUME a + 1 <= b PROVE FALSE
    OBVIOUS
  <2>2. c * (b - 1) >= c * a
    BY <2>1
  <2>3. c * (a - 1) + c = c * a
    OBVIOUS
  <2>4. c * (a - 1) + x <= c * a /\ c * (b - 1) + y > c * a
    BY <2>2, <2>3
  <2>5. QED
    BY <1>1, <2>4
<1>2. ~ n < k /\ ~ k < n
  BY <1>1
<1>3. n = k
  BY <1>2
<1>4. QED
  BY <1>3

LEMMA PartInRange ==
  ASSUME NEW c \in Nat \ {0}, NEW g \in Nat, NEW n \in 1 .. g, NEW i \in 1 .. c
  PROVE  c * (n - 1) + i \in 1 .. c * g
<1>1. c * (n - 1) >= 0 /\ c * (n - 1) \in Int
  BY SMT
<1>2. c * g >= c * n
  BY SMT
<1>3. c * n = c * (n - 1) + c
  BY SMT
<1>4. c * g \in Int /\ c * n \in Int
  BY SMT
<1>5. QED
  BY <1>1, <1>2, <1>3, <1>4

\* c times every number makes c times the sum.
LEMMA TotalScales ==
  ASSUME NEW S, IsFiniteSet(S), NEW f \in [S -> Nat], NEW g \in [S -> Nat],
         NEW c \in Nat \ {0}, \A e \in S : f[e] = c * g[e]
  PROVE  TotalOf(f) = c * TotalOf(g)
<1> DEFINE P == Units(g) \X (1 .. c)
           h == [p \in P |-> <<p[1][1], c * (p[1][2] - 1) + p[2]>>]
<1>1. /\ IsFiniteSet(Units(g)) /\ TotalOf(g) = Cardinality(Units(g)) /\ TotalOf(g) \in Nat
      /\ IsFiniteSet(Units(f)) /\ TotalOf(f) = Cardinality(Units(f)) /\ TotalOf(f) \in Nat
  BY UnitsAreFinite
<1>2. IsFiniteSet(1 .. c) /\ Cardinality(1 .. c) = c
  BY FS_Interval
<1>3. IsFiniteSet(P) /\ Cardinality(P) = Cardinality(Units(g)) * c
  <2> DEFINE U == Units(g)
             C == 1 .. c
  <2>1. IsFiniteSet(U) /\ IsFiniteSet(C) /\ Cardinality(C) = c
    BY <1>1, <1>2
  <2> HIDE DEF U, C
  <2>2. IsFiniteSet(U \X C) /\ Cardinality(U \X C) = Cardinality(U) * Cardinality(C)
    BY ONLY <2>1, FS_Product, Zenon
  <2>3. QED
    BY <2>1, <2>2 DEF U, C
<1>4. ASSUME NEW p \in P
      PROVE  /\ p[1][1] \in S /\ p[1][2] \in 1 .. g[p[1][1]] /\ p[2] \in 1 .. c
             /\ p = <<p[1], p[2]>> /\ p[1] = <<p[1][1], p[1][2]>>
  <2>1. PICK u \in Units(g), i \in 1 .. c : p = <<u, i>>
    OBVIOUS
  <2>2. PICK e \in S : u \in {e} \X (1 .. g[e])
    BY UnitsAre
  <2>3. QED
    BY <2>1, <2>2
<1>5. h \in [P -> Units(f)]
  <2>1. SUFFICES ASSUME NEW p \in P PROVE h[p] \in Units(f)
    OBVIOUS
  <2>2. /\ p[1][1] \in S /\ p[1][2] \in 1 .. g[p[1][1]] /\ p[2] \in 1 .. c
    BY <1>4
  <2>3. c * (p[1][2] - 1) + p[2] \in 1 .. c * g[p[1][1]]
    BY <2>2, PartInRange
  <2>4. h[p] \in {p[1][1]} \X (1 .. f[p[1][1]])
    BY <2>2, <2>3
  <2>5. QED
    BY <2>2, <2>4, UnitsAre
<1>6. ASSUME NEW p \in P, NEW r \in P, h[p] = h[r]
      PROVE  p = r
  <2>1. /\ p[1][1] \in S /\ p[1][2] \in 1 .. g[p[1][1]] /\ p[2] \in 1 .. c
        /\ r[1][1] \in S /\ r[1][2] \in 1 .. g[r[1][1]] /\ r[2] \in 1 .. c
    BY <1>4
  <2>2. p[1][1] = r[1][1] /\ c * (p[1][2] - 1) + p[2] = c * (r[1][2] - 1) + r[2]
    BY <1>6
  <2>3. p[1][2] = r[1][2] /\ p[2] = r[2]
    <3>1. p[1][2] \in Nat /\ r[1][2] \in Nat
      BY <2>1
    <3> DEFINE n == p[1][2]
               k == r[1][2]
               i == p[2]
               j == r[2]
    <3>2. n \in Nat /\ k \in Nat /\ i \in 1 .. c /\ j \in 1 .. c
          /\ c * (n - 1) + i = c * (k - 1) + j
      BY <2>1, <2>2, <3>1
    <3> HIDE DEF n, k, i, j
    <3>3. n = k /\ i = j
      BY ONLY <3>2, OnePart, c \in Nat \ {0}
    <3>4. QED
      BY <3>3 DEF n, k, i, j
  <2>4. QED
    BY <1>4, <2>2, <2>3
<1>7. ASSUME NEW u \in Units(f)
      PROVE  \E p \in P : h[p] = u
  <2>1. PICK e \in S : u \in {e} \X (1 .. f[e])
    BY UnitsAre
  <2>2. u = <<e, u[2]>> /\ u[2] \in 1 .. c * g[e] /\ g[e] \in Nat
    BY <2>1
  <2>3. PICK n \in 1 .. g[e], i \in 1 .. c : u[2] = c * (n - 1) + i
    BY <2>2, PartsOfUnits
  <2>4. <<e, n>> \in Units(g)
    BY UnitsAre
  <2>5. <<<<e, n>>, i>> \in P /\ h[<<<<e, n>>, i>>] = <<e, c * (n - 1) + i>>
    BY <2>4
  <2>6. QED
    BY <2>2, <2>3, <2>5
<1> HIDE DEF P, h
<1>8. Cardinality(Units(f)) = Cardinality(P)
  BY <1>3, <1>5, <1>6, <1>7, SameSize
<1>9. QED
  BY <1>1, <1>3, <1>8

LEMMA FullBatches ==
  ASSUME NEW b \in Nat \ {0}, NEW n \in Nat, NEW r \in 0 .. b - 1, NEW m \in Nat, m = b * n + r
  PROVE  m \div b = n
<1> DEFINE q == m \div b
<1>1. q \in Int /\ b * q <= m /\ m < b * q + b
  BY SMT
<1> HIDE DEF q
<1>2. b * n \in Int /\ b * q \in Int /\ b * n <= m /\ m < b * n + b
  BY <1>1
<1>3. ASSUME NEW x \in Int, NEW y \in Int, b * x <= m, m < b * y + b
      PROVE  x <= y
  <2>1. SUFFICES ASSUME y + 1 <= x PROVE FALSE
    OBVIOUS
  <2>2. b * (y + 1) <= b * x
    BY <2>1, SMT
  <2>3. b * (y + 1) = b * y + b
    BY SMT
  <2>4. b * x \in Int /\ b * y \in Int
    BY SMT
  <2>5. QED
    BY <1>3, <2>2, <2>3, <2>4
<1>4. q <= n /\ n <= q
  BY <1>1, <1>2, <1>3
<1>5. QED
  BY <1>1, <1>4 DEF q

LEMMA SeqOfItsOwn ==
  ASSUME NEW S, NEW s \in Seq(S)
  PROVE  s \in Seq(Range(s))
BY DEF Range

-----------------------------------------------------------------------------
(* What one event does to an item *)

LEMMA EventIs ==
  ASSUME NEW e \in Events
  PROVE  /\ Observed[e].time \in 0 .. MaxTime /\ MaxTime \in Nat /\ Observed[e].quality \in Nat
         /\ IsFiniteSet(Violated(e))
BY GraphSizes DEF Violated

LEMMA FiveAreFinite ==
  ASSUME NEW a, NEW b, NEW c, NEW d, NEW x
  PROVE  IsFiniteSet({a, b, c, d, x})
<1>1. IsFiniteSet({a})
  BY FS_Singleton
<1>2. IsFiniteSet({a} \cup {b})
  BY <1>1, FS_AddElement
<1>3. IsFiniteSet(({a} \cup {b}) \cup {c})
  BY <1>2, FS_AddElement
<1>4. IsFiniteSet((({a} \cup {b}) \cup {c}) \cup {d})
  BY <1>3, FS_AddElement
<1>5. IsFiniteSet(((({a} \cup {b}) \cup {c}) \cup {d}) \cup {x})
  BY <1>4, FS_AddElement
<1>6. {a, b, c, d, x} = ((({a} \cup {b}) \cup {c}) \cup {d}) \cup {x}
  OBVIOUS
<1>7. QED
  BY <1>5, <1>6

LEMMA NodeUpsertsFinite ==
  ASSUME NEW e \in Events
  PROVE  IsFiniteSet(NodeUpserts(e))
<1> DEFINE V == Violated(e)
           d == [n \in V |-> <<n, DriftOf(e, n)>>]
           c == [n \in V |-> <<n, ContractOf(e, n)>>]
           D == {d[n] : n \in V}
           C == {c[n] : n \in V}
           F == {<<0, Workload(e)>>, <<0, Container(e)>>, <<0, Process(e)>>, <<0, Component(e)>>,
                 <<0, Target(e)>>}
<1>1. NodeUpserts(e) \subseteq F \cup D \cup C
  BY DEF NodeUpserts, Once, When
<1>2. IsFiniteSet(V)
  BY EventIs
<1>3. DOMAIN d = V /\ DOMAIN c = V
  OBVIOUS
<1>4. IsFiniteSet(F)
  BY FiveAreFinite
<1> HIDE DEF d, c, F, V
<1>5. IsFiniteSet(D) /\ IsFiniteSet(C)
  BY <1>2, <1>3, ImageIsFinite
<1> HIDE DEF D, C
<1>6. IsFiniteSet(F \cup D \cup C)
  BY <1>4, <1>5, FS_Union
<1>7. QED
  BY <1>1, <1>6, FS_Subset

LEMMA EdgeUpsertsFinite ==
  ASSUME NEW e \in Events
  PROVE  IsFiniteSet(EdgeUpserts(e))
<1> DEFINE V == Violated(e)
           a == [n \in V |-> <<n, <<Process(e), DriftOf(e, n), "derived_from">>>>]
           b == [n \in V |-> <<n, <<Component(e), DriftOf(e, n), "violates">>>>]
           c == [n \in V |-> <<n, <<DriftOf(e, n), ContractOf(e, n), "violates">>>>]
           A == {a[n] : n \in V}
           B == {b[n] : n \in V}
           C == {c[n] : n \in V}
           F == {<<0, <<Workload(e), Container(e), "runs">>>>, <<0, <<Container(e), Process(e), "executes">>>>,
                 <<0, Belonging(e)>>, <<0, <<Process(e), Target(e), Observed[e].relation.edge>>>>}
<1>1. EdgeUpserts(e) \subseteq F \cup A \cup B \cup C
  BY DEF EdgeUpserts, Once, When
<1>2. IsFiniteSet(V)
  BY EventIs
<1>3. DOMAIN a = V /\ DOMAIN b = V /\ DOMAIN c = V
  OBVIOUS
<1>4. IsFiniteSet(F)
  <2> DEFINE w == <<0, <<Workload(e), Container(e), "runs">>>>
             x == <<0, <<Container(e), Process(e), "executes">>>>
             y == <<0, Belonging(e)>>
             z == <<0, <<Process(e), Target(e), Observed[e].relation.edge>>>>
  <2>1. F = {w, x, y, z, z}
    OBVIOUS
  <2> HIDE DEF F, w, x, y, z
  <2>2. QED
    BY <2>1, FiveAreFinite
<1> HIDE DEF a, b, c, F, V
<1>5. IsFiniteSet(A) /\ IsFiniteSet(B) /\ IsFiniteSet(C)
  BY <1>2, <1>3, ImageIsFinite
<1> HIDE DEF A, B, C
<1>6. IsFiniteSet(F \cup A \cup B \cup C)
  BY <1>4, <1>5, FS_Union
<1>7. QED
  BY <1>1, <1>6, FS_Subset

LEMMA TimesAreNumbers ==
  ASSUME NEW e \in Events, NEW k
  PROVE  Times(NodeUpserts(e), k) \in Nat /\ Times(EdgeUpserts(e), k) \in Nat
<1>1. ASSUME NEW U, IsFiniteSet(U)
      PROVE  Times(U, k) \in Nat
  BY <1>1, FS_Subset, FS_CardinalityType DEF Times
<1>2. QED
  BY <1>1, NodeUpsertsFinite, EdgeUpsertsFinite

LEMMA NodeKeys ==
  ASSUME NEW e \in Events, NEW k \in Items(NodeUpserts(e))
  PROVE  k[1] \in NodeTypes
<1>1. PICK u \in NodeUpserts(e) : k = u[2]
  BY DEF Items
<1>2. Related(e) => Observed[e].relation.type \in NodeTypes
  BY GraphSizes DEF Related, RelationTypes, NodeTypes
<1>3. QED
  BY <1>1, <1>2 DEF NodeUpserts, Once, When, Workload, Container, Process, Component, Target, DriftOf,
     ContractOf, Drift, Contract, Node, NodeTypes

\* The edges of an event join its nodes, which are of its tenant.
LEMMA EdgeEnds ==
  ASSUME NEW e \in Events, NEW k \in Items(EdgeUpserts(e))
  PROVE  {k[1], k[2]} \subseteq Items(NodeUpserts(e)) /\ k[1][2] = k[2][2]
<1>1. PICK u \in EdgeUpserts(e) : k = u[2]
  BY DEF Items
<1>2. /\ {Workload(e), Container(e), Process(e)} \subseteq Items(NodeUpserts(e))
      /\ Bound(e) => Component(e) \in Items(NodeUpserts(e))
      /\ Related(e) => Target(e) \in Items(NodeUpserts(e))
      /\ \A n \in Violated(e) : {DriftOf(e, n), ContractOf(e, n)} \subseteq Items(NodeUpserts(e))
  <2>1. /\ \A x \in {Workload(e), Container(e), Process(e)} : <<0, x>> \in NodeUpserts(e)
        /\ Bound(e) => <<0, Component(e)>> \in NodeUpserts(e)
        /\ Related(e) => <<0, Target(e)>> \in NodeUpserts(e)
        /\ \A n \in Violated(e) :
              <<n, DriftOf(e, n)>> \in NodeUpserts(e) /\ <<n, ContractOf(e, n)>> \in NodeUpserts(e)
    BY DEF NodeUpserts, Once, When
  <2>2. \A n, x : <<n, x>> \in NodeUpserts(e) => x \in Items(NodeUpserts(e))
    BY DEF Items
  <2>3. QED
    BY <2>1, <2>2
<1>3. \/ k = <<Workload(e), Container(e), "runs">>
      \/ k = <<Container(e), Process(e), "executes">>
      \/ Bound(e) /\ k = Belonging(e)
      \/ Related(e) /\ k = <<Process(e), Target(e), Observed[e].relation.edge>>
      \/ \E n \in Violated(e) : k = <<Process(e), DriftOf(e, n), "derived_from">>
      \/ Bound(e) /\ \E n \in Violated(e) : k = <<Component(e), DriftOf(e, n), "violates">>
      \/ \E n \in Violated(e) : k = <<DriftOf(e, n), ContractOf(e, n), "violates">>
  BY <1>1 DEF EdgeUpserts, Once, When
<1>4. /\ Workload(e)[2] = Observed[e].tenant /\ Container(e)[2] = Observed[e].tenant
      /\ Process(e)[2] = Observed[e].tenant /\ Component(e)[2] = Observed[e].tenant
      /\ Target(e)[2] = Observed[e].tenant
      /\ \A n \in Violated(e) :
           DriftOf(e, n)[2] = Observed[e].tenant /\ ContractOf(e, n)[2] = Observed[e].tenant
  BY DEF Workload, Container, Process, Component, Target, DriftOf, ContractOf, Drift, Contract, Node
<1>5. QED
  BY <1>2, <1>3, <1>4 DEF Belonging

\* t is the time of the last of these events.
IsLast(es, t) == (\A e \in es : Observed[e].time <= t) /\ \E e \in es : Observed[e].time = t

LEMMA LastIs ==
  ASSUME NEW es \in SUBSET Events, NEW t, IsLast(es, t)
  PROVE  LastTime(es) = t
<1>1. \A e \in es : Observed[e].time \in Int
  BY EventIs
<1>2. t \in {Observed[e].time : e \in es}
  BY DEF IsLast
<1>3. \A s \in {Observed[e].time : e \in es} : (\A e \in es : Observed[e].time <= s) => s = t
  BY <1>1 DEF IsLast
<1>4. QED
  BY <1>2, <1>3 DEF LastTime, IsLast

LEMMA LatestIsLast ==
  ASSUME NEW es \in SUBSET Events, NEW t \in 0 .. MaxTime, NEW e \in Events, IsLast(es, t)
  PROVE  IsLast(es \cup {e}, Latest(t, Observed[e].time)) /\ Latest(t, Observed[e].time) \in 0 .. MaxTime
<1>1. \A x \in es \cup {e} : Observed[x].time \in 0 .. MaxTime
  BY EventIs
<1>2. QED
  BY <1>1 DEF IsLast, Latest

LEMMA ReferredIs ==
  ASSUME NEW own \in SUBSET Events, NEW e \in Events, NEW refs \in Seq(Events), NEW n \in Nat,
         Range(refs) \subseteq own
  PROVE  Referred(refs, e, n) \in Seq(Events) /\ Range(Referred(refs, e, n)) \subseteq own \cup {e}
<1> DEFINE room == MaxRefs - Len(refs)
           m == IF n < room THEN n ELSE room
           more == [i \in 1 .. m |-> e]
<1>1. room \in Int
  BY GraphSizes
<1>2. m \in Int
  BY <1>1
<1> HIDE DEF m, room
<1>3. more \in Seq(Events) /\ \A i \in DOMAIN more : more[i] = e
  BY <1>2
<1> HIDE DEF more
<1>4. refs \o more \in Seq(Events)
  BY <1>3
<1>5. \A i \in DOMAIN (refs \o more) : (refs \o more)[i] \in own \cup {e}
  <2>1. /\ Len(refs \o more) = Len(refs) + Len(more) /\ Len(refs) \in Nat /\ Len(more) \in Nat
        /\ DOMAIN (refs \o more) = 1 .. Len(refs) + Len(more)
        /\ DOMAIN refs = 1 .. Len(refs) /\ DOMAIN more = 1 .. Len(more)
    BY <1>3
  <2>2. ASSUME NEW i \in 1 .. Len(refs) + Len(more)
        PROVE  (refs \o more)[i] = IF i <= Len(refs) THEN refs[i] ELSE more[i - Len(refs)]
    BY <1>3
  <2>3. \A i \in 1 .. Len(refs) : refs[i] \in own
    BY <2>1 DEF Range
  <2>4. QED
    BY <1>3, <2>1, <2>2, <2>3
<1>6. QED
  BY <1>4, <1>5 DEF Referred, Range, more, m, room

\* What the graph says of an item is what the events say that touch it.
NodeNow(k, x, own) ==
  /\ x \in GraphNodes /\ IsLast(own, x.last) /\ Range(x.refs) \subseteq own
  /\ x.count = TotalOf([e \in own |-> Times(NodeUpserts(e), k)])

EdgeNow(k, x, own) ==
  /\ x \in GraphEdges /\ IsLast(own, x.last) /\ Range(x.refs) \subseteq own
  /\ x.count = TotalOf([e \in own |-> Times(EdgeUpserts(e), k)])

Qualities(k, own) == TotalOf([e \in own |-> Times(EdgeUpserts(e), k) * Gain(e)])
Ideal(k, own, last) ==
  TotalOf([e \in own |-> Decayed(Times(EdgeUpserts(e), k) * Gain(e), last - Observed[e].time)])

\* A weight is whole after any time that is left.
Weighs(k, x, own) ==
  /\ \E q \in Nat : x.weight = q * Decay[MaxTime - x.last]
  /\ Ideal(k, own, x.last) <= x.weight /\ x.weight <= Qualities(k, own)

LEMMA DecayIs ==
  ASSUME NEW a \in 0 .. MaxTime
  PROVE  /\ MaxTime \in Nat /\ a \in Nat /\ MaxTime - a \in 0 .. MaxTime
         /\ Decay[a] \in Nat \ {0} /\ Decay[0] = 1
         /\ \A b \in 0 .. MaxTime : a + b <= MaxTime => Decay[a + b] = Decay[a] * Decay[b]
<1>1. MaxTime \in Nat
  BY GraphSizes
<1>2. a \in Nat /\ MaxTime - a \in 0 .. MaxTime
  BY <1>1
<1>3. Decay \in [0 .. MaxTime -> Nat \ {0}] /\ Decay[0] = 1
  BY DecayAssumption
<1>4. Decay[a] \in Nat \ {0}
  BY <1>3
<1>5. \A b \in 0 .. MaxTime : a + b <= MaxTime => Decay[a + b] = Decay[a] * Decay[b]
  BY DecayAssumption
<1>6. QED
  BY <1>1, <1>2, <1>3, <1>4, <1>5

LEMMA ExactQuotient ==
  ASSUME NEW a \in Nat, NEW b \in Nat \ {0}
  PROVE  (a * b) \div b = a
<1> DEFINE q == (a * b) \div b
<1>1. a * b \in Nat
  BY SMT
<1>2. q \in Int /\ b * q <= a * b /\ a * b < b * q + b
  BY <1>1, SMT
<1> HIDE DEF q
<1>3. ~ q < a
  <2>1. SUFFICES ASSUME q + 1 <= a PROVE FALSE
    BY <1>2
  <2>2. b * (q + 1) <= b * a
    BY <1>2, <2>1
  <2>3. b * (q + 1) = b * q + b /\ b * a = a * b
    BY <1>2
  <2>4. b * q \in Int
    BY <1>2
  <2>5. QED
    BY <1>1, <1>2, <2>2, <2>3, <2>4
<1>4. ~ a < q
  <2>1. SUFFICES ASSUME a + 1 <= q PROVE FALSE
    BY <1>2
  <2>2. b * (a + 1) <= b * q
    BY <1>2, <2>1
  <2>3. b * (a + 1) = a * b + b
    OBVIOUS
  <2>4. b * q \in Int
    BY <1>2
  <2>5. QED
    BY <1>1, <1>2, <2>2, <2>3, <2>4
<1>5. q = a
  BY <1>2, <1>3, <1>4
<1>6. QED
  BY <1>5 DEF q

\* What is left of a whole weight is whole.
LEMMA WholeDecays ==
  ASSUME NEW q \in Nat, NEW a \in 0 .. MaxTime, NEW d \in 0 .. MaxTime, d <= a
  PROVE  /\ Decayed(q * Decay[a], d) = q * Decay[a - d]
         /\ q * Decay[a] = Decay[d] * (q * Decay[a - d])
         /\ q * Decay[a - d] \in Nat /\ q * Decay[a] \in Nat /\ q * Decay[a - d] <= q * Decay[a]
<1> DEFINE x == Decay[a - d]
           y == Decay[d]
           z == Decay[a]
<1>1. a - d \in 0 .. MaxTime /\ (a - d) + d = a /\ a \in Nat /\ d \in Nat /\ a <= MaxTime
  BY DecayIs
<1>2. x \in Nat \ {0} /\ y \in Nat \ {0} /\ z \in Nat \ {0} /\ z = x * y /\ (d = 0 => y = 1)
  BY <1>1, DecayIs
<1> HIDE DEF x, y, z
<1>3. q * x \in Nat /\ q * z \in Nat
  BY <1>2, SMT
<1>4. q * z = (q * x) * y
  BY <1>2, SMT
<1>5. (q * z) \div y = q * x
  BY <1>2, <1>3, <1>4, ExactQuotient
<1>6. q * x <= (q * x) * y
  <2> DEFINE p == q * x
  <2>1. p \in Nat
    BY <1>3
  <2> HIDE DEF p
  <2>2. p <= p * y
    BY <1>2, <2>1, SMT
  <2>3. QED
    BY <2>2 DEF p
<1>7. d = 0 => q * z = q * x
  BY <1>2, <1>3, <1>4
<1>8. Decayed(q * z, d) = q * x
  BY <1>1, <1>5, <1>7 DEF Decayed, y
<1>9. q * z = y * (q * x)
  BY <1>2, <1>3, <1>4, SMT
<1>10. QED
  BY <1>3, <1>4, <1>6, <1>8, <1>9 DEF x, y, z

\* What is left of the weight of one event.
LEMMA GainDecays ==
  ASSUME NEW e \in Events, NEW k, NEW d \in 0 .. MaxTime
  PROVE  /\ Times(EdgeUpserts(e), k) * Observed[e].quality \in Nat
         /\ Times(EdgeUpserts(e), k) * Gain(e) \in Nat
         /\ Times(EdgeUpserts(e), k) * Gain(e) = (Times(EdgeUpserts(e), k) * Observed[e].quality) * Decay[MaxTime]
         /\ Decayed(Times(EdgeUpserts(e), k) * Gain(e), d) =
              (Times(EdgeUpserts(e), k) * Observed[e].quality) * Decay[MaxTime - d]
         /\ Decayed(Times(EdgeUpserts(e), k) * Gain(e), d) \in Nat
         /\ Decayed(Times(EdgeUpserts(e), k) * Gain(e), d) <= Times(EdgeUpserts(e), k) * Gain(e)
<1> DEFINE n == Times(EdgeUpserts(e), k)
           q == Observed[e].quality
           D == Decay[MaxTime]
<1>1. n \in Nat /\ q \in Nat /\ MaxTime \in Nat
  BY TimesAreNumbers, EventIs
<1>2. MaxTime \in 0 .. MaxTime
  BY <1>1
<1>3. D \in Nat \ {0}
  BY <1>2, DecayIs
<1>4. Gain(e) = q * D
  BY DEF Gain, WeightUnit
<1> HIDE DEF n, q, D
<1>5. n * q \in Nat /\ n * (q * D) = (n * q) * D
  BY <1>1, <1>3, SMT
<1>6. /\ Decayed((n * q) * Decay[MaxTime], d) = (n * q) * Decay[MaxTime - d]
      /\ (n * q) * Decay[MaxTime - d] \in Nat /\ (n * q) * Decay[MaxTime] \in Nat
      /\ (n * q) * Decay[MaxTime - d] <= (n * q) * Decay[MaxTime]
  <2>1. d <= MaxTime
    BY <1>1
  <2> DEFINE m == n * q
  <2>2. m \in Nat
    BY <1>5
  <2> HIDE DEF m
  <2>3. /\ Decayed(m * Decay[MaxTime], d) = m * Decay[MaxTime - d]
        /\ m * Decay[MaxTime - d] \in Nat /\ m * Decay[MaxTime] \in Nat
        /\ m * Decay[MaxTime - d] <= m * Decay[MaxTime]
    BY ONLY <1>2, <2>1, <2>2, WholeDecays
  <2>4. QED
    BY <2>3 DEF m
<1>7. QED
  BY <1>4, <1>5, <1>6 DEF n, q, D

LEMMA WeightIsWhole ==
  ASSUME NEW e \in Events, NEW k, NEW t \in 0 .. MaxTime
  PROVE  LET g == Times(EdgeUpserts(e), k) * Gain(e)
         IN g \in Nat /\ \E q \in Nat : g = q * Decay[MaxTime - t]
<1> DEFINE m == Times(EdgeUpserts(e), k) * Observed[e].quality
           g == Times(EdgeUpserts(e), k) * Gain(e)
<1>1. MaxTime \in 0 .. MaxTime /\ t <= MaxTime /\ MaxTime \in Nat
  BY GraphSizes
<1>2. m \in Nat /\ g = m * Decay[MaxTime] /\ g \in Nat
  BY GainDecays
<1> HIDE DEF m, g
<1>3. m * Decay[MaxTime] = Decay[t] * (m * Decay[MaxTime - t])
  BY ONLY <1>1, <1>2, t \in 0 .. MaxTime, WholeDecays
<1>4. Decay[t] \in Nat /\ Decay[MaxTime - t] \in Nat
  BY <1>1, DecayIs
<1> DEFINE a == Decay[t]
           b == Decay[MaxTime - t]
<1> HIDE DEF a, b
<1>5. a \in Nat /\ b \in Nat /\ g = a * (m * b)
  BY <1>2, <1>3, <1>4 DEF a, b
<1>6. a * (m * b) = (a * m) * b /\ a * m \in Nat
  BY <1>2, <1>5, SMT
<1>7. \E q \in Nat : g = q * b
  BY <1>5, <1>6
<1>8. QED
  BY <1>2, <1>7 DEF b, g

LEMMA Cancels ==
  ASSUME NEW d \in Nat \ {0}, NEW a \in Nat, NEW b \in Nat, d * a <= d * b
  PROVE  a <= b /\ (d * a = d * b => a = b)
<1>1. ~ b < a
  <2>1. SUFFICES ASSUME b + 1 <= a PROVE FALSE
    OBVIOUS
  <2>2. d * (b + 1) <= d * a
    BY <2>1, SMT
  <2>3. d * (b + 1) = d * b + d
    BY SMT
  <2>4. d * a \in Int /\ d * b \in Int
    BY SMT
  <2>5. QED
    BY <2>2, <2>3, <2>4
<1>2. d * a = d * b => ~ a < b
  <2>1. SUFFICES ASSUME a + 1 <= b, d * a = d * b PROVE FALSE
    OBVIOUS
  <2>2. d * (a + 1) <= d * b
    BY <2>1, SMT
  <2>3. d * (a + 1) = d * a + d
    BY SMT
  <2>4. d * a \in Int /\ d * b \in Int
    BY SMT
  <2>5. QED
    BY <2>1, <2>2, <2>3, <2>4
<1>3. QED
  BY <1>1, <1>2

\* One more event, and the sums over the events of an edge.
LEMMA QualitiesGrow ==
  ASSUME NEW k, NEW own \in SUBSET Events, IsFiniteSet(own), NEW e \in Events, e \notin own
  PROVE  /\ Qualities(k, own) \in Nat
         /\ Qualities(k, own \cup {e}) = Qualities(k, own) + Times(EdgeUpserts(e), k) * Gain(e)
<1> DEFINE f == [x \in own \cup {e} |-> Times(EdgeUpserts(x), k) * Gain(x)]
           g == [x \in own |-> f[x]]
<1>1. f \in [own \cup {e} -> Nat]
  <2>1. \A x \in own \cup {e} : Times(EdgeUpserts(x), k) * Gain(x) \in Nat
    <3>1. 0 \in 0 .. MaxTime
      BY EventIs
    <3>2. QED
      BY <3>1, GainDecays
  <2>2. QED
    BY <2>1
<1>2. g = [x \in own |-> Times(EdgeUpserts(x), k) * Gain(x)]
  OBVIOUS
<1>3. f[e] = Times(EdgeUpserts(e), k) * Gain(e)
  OBVIOUS
<1>4. Qualities(k, own \cup {e}) = TotalOf(f) /\ Qualities(k, own) = TotalOf(g)
  BY <1>2 DEF Qualities
<1> HIDE DEF f
<1>5. TotalOf(g) \in Nat /\ TotalOf(f) = TotalOf(g) + f[e]
  BY <1>1, TotalGrows
<1>6. QED
  BY <1>3, <1>4, <1>5

LEMMA IdealGrows ==
  ASSUME NEW k, NEW own \in SUBSET Events, IsFiniteSet(own), NEW e \in Events, e \notin own,
         NEW t \in 0 .. MaxTime, \A x \in own \cup {e} : Observed[x].time <= t
  PROVE  /\ Ideal(k, own, t) \in Nat
         /\ Ideal(k, own \cup {e}, t) =
              Ideal(k, own, t) + Decayed(Times(EdgeUpserts(e), k) * Gain(e), t - Observed[e].time)
<1> DEFINE f == [x \in own \cup {e} |-> Decayed(Times(EdgeUpserts(x), k) * Gain(x), t - Observed[x].time)]
           g == [x \in own |-> f[x]]
<1>1. f \in [own \cup {e} -> Nat]
  <2>1. ASSUME NEW x \in own \cup {e}
        PROVE  Decayed(Times(EdgeUpserts(x), k) * Gain(x), t - Observed[x].time) \in Nat
    <3>1. t - Observed[x].time \in 0 .. MaxTime
      BY EventIs
    <3>2. QED
      BY <3>1, GainDecays
  <2>2. QED
    BY <2>1
<1>2. g = [x \in own |-> Decayed(Times(EdgeUpserts(x), k) * Gain(x), t - Observed[x].time)]
  OBVIOUS
<1>3. f[e] = Decayed(Times(EdgeUpserts(e), k) * Gain(e), t - Observed[e].time)
  OBVIOUS
<1>4. Ideal(k, own \cup {e}, t) = TotalOf(f) /\ Ideal(k, own, t) = TotalOf(g)
  BY <1>2 DEF Ideal
<1> HIDE DEF f
<1>5. TotalOf(g) \in Nat /\ TotalOf(f) = TotalOf(g) + f[e]
  BY <1>1, TotalGrows
<1>6. QED
  BY <1>3, <1>4, <1>5

LEMMA IdealOfOne ==
  ASSUME NEW k, NEW e \in Events
  PROVE  /\ Ideal(k, {e}, Observed[e].time) = Times(EdgeUpserts(e), k) * Gain(e)
         /\ Qualities(k, {e}) = Times(EdgeUpserts(e), k) * Gain(e)
<1> DEFINE f == [x \in {e} |-> Decayed(Times(EdgeUpserts(x), k) * Gain(x), Observed[e].time - Observed[x].time)]
           g == [x \in {e} |-> Times(EdgeUpserts(x), k) * Gain(x)]
           m == Times(EdgeUpserts(e), k) * Gain(e)
<1>1. m \in Nat /\ Observed[e].time - Observed[e].time = 0
  <2>1. 0 \in 0 .. MaxTime /\ Observed[e].time - Observed[e].time = 0
    BY EventIs
  <2>2. QED
    BY <2>1, GainDecays
<1>2. Decayed(m, 0) = m
  BY DEF Decayed
<1>3. f[e] = m /\ g[e] = m
  BY <1>1, <1>2
<1>4. f \in [{e} -> Nat] /\ g \in [{e} -> Nat]
  BY <1>1, <1>2
<1>5. Ideal(k, {e}, Observed[e].time) = TotalOf(f) /\ Qualities(k, {e}) = TotalOf(g)
  BY DEF Ideal, Qualities
<1> HIDE DEF f, g
<1>6. TotalOf(f) = f[e] /\ TotalOf(g) = g[e]
  BY <1>4, TotalOfOne
<1>7. QED
  BY <1>3, <1>5, <1>6

\* The sum at an earlier time is so many times the sum at a later one.
LEMMA IdealDecays ==
  ASSUME NEW k, NEW own \in SUBSET Events, IsFiniteSet(own), NEW l \in 0 .. MaxTime, NEW t \in 0 .. MaxTime,
         l <= t, \A x \in own : Observed[x].time <= l
  PROVE  Ideal(k, own, l) = Decay[t - l] * Ideal(k, own, t)
<1> DEFINE f == [x \in own |-> Decayed(Times(EdgeUpserts(x), k) * Gain(x), l - Observed[x].time)]
           g == [x \in own |-> Decayed(Times(EdgeUpserts(x), k) * Gain(x), t - Observed[x].time)]
           d == t - l
<1>1. d \in 0 .. MaxTime /\ MaxTime \in Nat /\ l \in Nat /\ t \in Nat
  BY GraphSizes
<1>2. Decay[d] \in Nat \ {0}
  BY <1>1, DecayIs
<1>3. ASSUME NEW x \in own
      PROVE  f[x] \in Nat /\ g[x] \in Nat /\ f[x] = Decay[d] * g[x]
  <2> DEFINE a == l - Observed[x].time
             b == t - Observed[x].time
             m == Times(EdgeUpserts(x), k) * Observed[x].quality
  <2>1. /\ Observed[x].time \in 0 .. MaxTime /\ a \in 0 .. MaxTime /\ b \in 0 .. MaxTime
        /\ MaxTime - a \in 0 .. MaxTime /\ MaxTime - b \in 0 .. MaxTime /\ d <= MaxTime - a
        /\ (MaxTime - a) - d = MaxTime - b
    BY <1>1, EventIs
  <2>2. f[x] = Decayed(Times(EdgeUpserts(x), k) * Gain(x), a) /\ g[x] = Decayed(Times(EdgeUpserts(x), k) * Gain(x), b)
    OBVIOUS
  <2> HIDE DEF f, g, a, b, d
  <2>3. m \in Nat /\ f[x] = m * Decay[MaxTime - a] /\ g[x] = m * Decay[MaxTime - b] /\ f[x] \in Nat /\ g[x] \in Nat
    BY <2>1, <2>2, GainDecays
  <2> HIDE DEF m
  <2>4. m * Decay[MaxTime - a] = Decay[d] * (m * Decay[(MaxTime - a) - d])
    <3> DEFINE A == MaxTime - a
    <3>1. m \in Nat /\ A \in 0 .. MaxTime /\ d \in 0 .. MaxTime /\ d <= A
      BY <1>1, <2>1, <2>3
    <3> HIDE DEF A
    <3>2. m * Decay[A] = Decay[d] * (m * Decay[A - d])
      BY ONLY <3>1, WholeDecays
    <3>3. QED
      BY <3>2 DEF A
  <2>5. QED
    BY <2>1, <2>3, <2>4
<1>4. f \in [own -> Nat] /\ g \in [own -> Nat]
  <2>1. f = [x \in own |-> f[x]] /\ g = [x \in own |-> g[x]]
    OBVIOUS
  <2> HIDE DEF f, g
  <2>2. QED
    BY <1>3, <2>1
<1>5. Ideal(k, own, l) = TotalOf(f) /\ Ideal(k, own, t) = TotalOf(g)
  BY DEF Ideal
<1> HIDE DEF f, g, d
<1>6. \A x \in own : f[x] = Decay[d] * g[x]
  BY <1>3
<1>7. TotalOf(f) = Decay[d] * TotalOf(g)
  BY <1>2, <1>4, <1>6, TotalScales
<1>8. QED
  BY <1>5, <1>7 DEF d

LEMMA CountsGrow ==
  ASSUME NEW k, NEW own \in SUBSET Events, IsFiniteSet(own), NEW e \in Events, e \notin own
  PROVE  /\ TotalOf([x \in own \cup {e} |-> Times(EdgeUpserts(x), k)]) =
              TotalOf([x \in own |-> Times(EdgeUpserts(x), k)]) + Times(EdgeUpserts(e), k)
         /\ TotalOf([x \in own \cup {e} |-> Times(NodeUpserts(x), k)]) =
              TotalOf([x \in own |-> Times(NodeUpserts(x), k)]) + Times(NodeUpserts(e), k)
         /\ TotalOf([x \in {e} |-> Times(EdgeUpserts(x), k)]) = Times(EdgeUpserts(e), k)
         /\ TotalOf([x \in {e} |-> Times(NodeUpserts(x), k)]) = Times(NodeUpserts(e), k)
<1>1. ASSUME NEW n \in [Events -> Nat]
      PROVE  /\ TotalOf([x \in own \cup {e} |-> n[x]]) = TotalOf([x \in own |-> n[x]]) + n[e]
             /\ TotalOf([x \in {e} |-> n[x]]) = n[e]
  <2> DEFINE f == [x \in own \cup {e} |-> n[x]]
             g == [x \in own |-> f[x]]
             h == [x \in {e} |-> n[x]]
  <2>1. f \in [own \cup {e} -> Nat] /\ h \in [{e} -> Nat] /\ f[e] = n[e] /\ h[e] = n[e] /\ g = [x \in own |-> n[x]]
    OBVIOUS
  <2> HIDE DEF f, h
  <2>2. TotalOf(f) = TotalOf(g) + f[e]
    BY <2>1, TotalGrows
  <2>3. TotalOf(h) = h[e]
    BY <2>1, TotalOfOne
  <2>4. QED
    BY <2>1, <2>2, <2>3 DEF f, h
<1> DEFINE c == [x \in Events |-> Times(EdgeUpserts(x), k)]
           d == [x \in Events |-> Times(NodeUpserts(x), k)]
<1>2. c \in [Events -> Nat] /\ d \in [Events -> Nat]
  BY TimesAreNumbers
<1>3. /\ [x \in own \cup {e} |-> Times(EdgeUpserts(x), k)] = [x \in own \cup {e} |-> c[x]]
      /\ [x \in own |-> Times(EdgeUpserts(x), k)] = [x \in own |-> c[x]]
      /\ [x \in {e} |-> Times(EdgeUpserts(x), k)] = [x \in {e} |-> c[x]]
      /\ Times(EdgeUpserts(e), k) = c[e]
  OBVIOUS
<1>4. /\ [x \in own \cup {e} |-> Times(NodeUpserts(x), k)] = [x \in own \cup {e} |-> d[x]]
      /\ [x \in own |-> Times(NodeUpserts(x), k)] = [x \in own |-> d[x]]
      /\ [x \in {e} |-> Times(NodeUpserts(x), k)] = [x \in {e} |-> d[x]]
      /\ Times(NodeUpserts(e), k) = d[e]
  OBVIOUS
<1> HIDE DEF c, d
<1>5. QED
  BY <1>1, <1>2, <1>3, <1>4

\* A node an event makes, and one it touches again.
LEMMA NodeIsMade ==
  ASSUME NEW e \in Events, NEW k \in Items(NodeUpserts(e)), k \notin DOMAIN nodes
  PROVE  NodeNow(k, UpsertNode(k, e, Times(NodeUpserts(e), k)), {e})
<1> DEFINE n == Times(NodeUpserts(e), k)
           r == Referred(<<>>, e, n)
           t == Observed[e].time
<1>1. n \in Nat /\ k[1] \in NodeTypes /\ t \in 0 .. MaxTime
  BY TimesAreNumbers, NodeKeys, EventIs
<1>2. r \in Seq(Events) /\ Range(r) \subseteq {e}
  <2>1. <<>> \in Seq(Events) /\ Range(<<>>) \subseteq {}
    BY DEF Range
  <2> HIDE DEF n
  <2>2. Referred(<<>>, e, n) \in Seq(Events) /\ Range(Referred(<<>>, e, n)) \subseteq {} \cup {e}
    BY <1>1, <2>1, ReferredIs
  <2>3. QED
    BY <2>2
<1>3. n = TotalOf([x \in {e} |-> Times(NodeUpserts(x), k)])
  BY CountsGrow, FS_EmptySet
<1>4. UpsertNode(k, e, n) = [type |-> k[1], first |-> t, last |-> t, count |-> n, refs |-> r]
  BY DEF UpsertNode
<1>5. IsLast({e}, t)
  BY <1>1 DEF IsLast
<1> HIDE DEF n, r, t
<1>6. UpsertNode(k, e, n) \in GraphNodes
  BY <1>1, <1>2, <1>4 DEF GraphNodes
<1>7. QED
  BY <1>2, <1>3, <1>4, <1>5, <1>6 DEF NodeNow, n

LEMMA NodeIsTouched ==
  ASSUME NEW own \in SUBSET Events, IsFiniteSet(own), NEW e \in Events, e \notin own, NEW k,
         k \in DOMAIN nodes, NodeNow(k, nodes[k], own)
  PROVE  NodeNow(k, UpsertNode(k, e, Times(NodeUpserts(e), k)), own \cup {e})
<1> DEFINE n == Times(NodeUpserts(e), k)
           x == nodes[k]
           y == UpsertNode(k, e, n)
           l == Latest(x.last, Observed[e].time)
           r == Referred(x.refs, e, n)
<1>1. /\ x \in GraphNodes /\ IsLast(own, x.last) /\ Range(x.refs) \subseteq own
      /\ x.count = TotalOf([a \in own |-> Times(NodeUpserts(a), k)])
  BY DEF NodeNow
<1>2. n \in Nat /\ x.last \in 0 .. MaxTime /\ x.refs \in Seq(Events) /\ x.count \in Nat
  BY <1>1, TimesAreNumbers DEF GraphNodes
<1>3. y = [x EXCEPT !.last = l, !.count = @ + n, !.refs = r]
  BY DEF UpsertNode
<1> HIDE DEF n, x, y
<1>4. IsLast(own \cup {e}, l) /\ l \in 0 .. MaxTime
  BY <1>1, <1>2, LatestIsLast
<1>5. r \in Seq(Events) /\ Range(r) \subseteq own \cup {e}
  <2> DEFINE old == x.refs
  <2>1. old \in Seq(Events) /\ Range(old) \subseteq own
    BY <1>1, <1>2
  <2> HIDE DEF old
  <2>2. Referred(old, e, n) \in Seq(Events) /\ Range(Referred(old, e, n)) \subseteq own \cup {e}
    BY ONLY <1>2, <2>1, own \in SUBSET Events, e \in Events, ReferredIs
  <2>3. QED
    BY <2>2 DEF old
<1>6. TotalOf([a \in own \cup {e} |-> Times(NodeUpserts(a), k)]) = x.count + n
  BY <1>1, CountsGrow DEF n
<1> HIDE DEF l, r
<1>7. y = [type |-> x.type, first |-> x.first, last |-> l, count |-> x.count + n, refs |-> r]
  BY <1>1, <1>3 DEF GraphNodes
<1>8. x.type \in NodeTypes /\ x.first \in 0 .. MaxTime /\ x.count + n \in Nat
  BY <1>1, <1>2 DEF GraphNodes
<1>9. y \in GraphNodes /\ y.last = l /\ y.refs = r /\ y.count = x.count + n
  BY ONLY <1>4, <1>5, <1>7, <1>8 DEF GraphNodes
<1>10. NodeNow(k, y, own \cup {e})
  BY <1>4, <1>5, <1>6, <1>9 DEF NodeNow
<1>11. QED
  BY <1>10 DEF y, n

\* An edge an event makes, and one it touches again.
LEMMA EdgeIsMade ==
  ASSUME NEW e \in Events, NEW k, k \notin DOMAIN edges
  PROVE  LET x == UpsertEdge(k, e, Times(EdgeUpserts(e), k))
         IN /\ EdgeNow(k, x, {e}) /\ Weighs(k, x, {e})
            /\ x.weight = Ideal(k, {e}, x.last)
<1> DEFINE n == Times(EdgeUpserts(e), k)
           x == UpsertEdge(k, e, n)
           r == Referred(<<>>, e, n)
           t == Observed[e].time
           w == n * Gain(e)
<1>1. n \in Nat /\ t \in 0 .. MaxTime /\ MaxTime - t \in 0 .. MaxTime
  BY TimesAreNumbers, EventIs
<1>2. r \in Seq(Events) /\ Range(r) \subseteq {e}
  <2>1. <<>> \in Seq(Events) /\ Range(<<>>) \subseteq {}
    BY DEF Range
  <2> HIDE DEF n
  <2>2. Referred(<<>>, e, n) \in Seq(Events) /\ Range(Referred(<<>>, e, n)) \subseteq {} \cup {e}
    BY <1>1, <2>1, ReferredIs
  <2>3. QED
    BY <2>2
<1>3. n = TotalOf([a \in {e} |-> Times(EdgeUpserts(a), k)])
  BY CountsGrow, FS_EmptySet
<1>4. x = [weight |-> w, last |-> t, count |-> n, refs |-> r]
  BY DEF UpsertEdge
<1>5. IsLast({e}, t)
  BY <1>1 DEF IsLast
<1>6. w \in Nat /\ \E q \in Nat : w = q * Decay[MaxTime - t]
  BY <1>1, WeightIsWhole
<1>7. Ideal(k, {e}, t) = w /\ Qualities(k, {e}) = w
  BY IdealOfOne
<1> HIDE DEF n, r, t, w, x
<1>8. x \in GraphEdges /\ x.weight = w /\ x.last = t /\ x.refs = r /\ x.count = n
  BY <1>1, <1>2, <1>4, <1>6 DEF GraphEdges
<1>9. EdgeNow(k, x, {e})
  BY <1>2, <1>3, <1>5, <1>8 DEF EdgeNow
<1>10. Weighs(k, x, {e}) /\ x.weight = Ideal(k, {e}, x.last)
  BY <1>6, <1>7, <1>8 DEF Weighs
<1>11. QED
  BY <1>9, <1>10 DEF x, n

LEMMA EdgeIsTouched ==
  ASSUME NEW own \in SUBSET Events, IsFiniteSet(own), NEW e \in Events, e \notin own, NEW k,
         k \in DOMAIN edges, EdgeNow(k, edges[k], own), Weighs(k, edges[k], own)
  PROVE  LET x == UpsertEdge(k, e, Times(EdgeUpserts(e), k))
         IN /\ EdgeNow(k, x, own \cup {e}) /\ Weighs(k, x, own \cup {e})
            /\ edges[k].weight = Ideal(k, own, edges[k].last) /\ edges[k].last <= Observed[e].time
                 => x.weight = Ideal(k, own \cup {e}, x.last)
<1> DEFINE n == Times(EdgeUpserts(e), k)
           y == edges[k]
           x == UpsertEdge(k, e, n)
           t == Observed[e].time
           l == Latest(y.last, t)
           r == Referred(y.refs, e, n)
           g == n * Gain(e)
           w == Decayed(y.weight, t - y.last)
<1>1. /\ y \in GraphEdges /\ IsLast(own, y.last) /\ Range(y.refs) \subseteq own
      /\ y.count = TotalOf([a \in own |-> Times(EdgeUpserts(a), k)])
  BY DEF EdgeNow
<1>2. n \in Nat /\ y.last \in 0 .. MaxTime /\ y.refs \in Seq(Events) /\ y.count \in Nat /\ y.weight \in Nat
  BY <1>1, TimesAreNumbers DEF GraphEdges
<1>3. x = [weight |-> w + g, last |-> l, count |-> y.count + n, refs |-> r]
  BY DEF UpsertEdge
<1>4. /\ \E q \in Nat : y.weight = q * Decay[MaxTime - y.last]
      /\ Ideal(k, own, y.last) <= y.weight /\ y.weight <= Qualities(k, own)
  BY DEF Weighs
<1>5. t \in 0 .. MaxTime /\ MaxTime \in Nat
  BY EventIs
<1>6. /\ \A a \in own : Observed[a].time <= y.last
      /\ \A a \in own : Observed[a].time \in 0 .. MaxTime
  BY <1>1, EventIs DEF IsLast
<1>7. IsLast(own \cup {e}, l) /\ l \in 0 .. MaxTime
  <2> HIDE DEF y
  <2>1. QED
    BY <1>1, <1>2, LatestIsLast
<1>8. r \in Seq(Events) /\ Range(r) \subseteq own \cup {e}
  <2> DEFINE old == y.refs
  <2>1. old \in Seq(Events) /\ Range(old) \subseteq own /\ n \in Nat
    BY <1>1, <1>2
  <2> HIDE DEF y, n, old
  <2>2. Referred(old, e, n) \in Seq(Events) /\ Range(Referred(old, e, n)) \subseteq own \cup {e}
    BY <2>1, ReferredIs
  <2>3. QED
    BY <2>2 DEF old
<1>9. TotalOf([a \in own \cup {e} |-> Times(EdgeUpserts(a), k)]) = y.count + n
  BY <1>1, CountsGrow
<1>10. Qualities(k, own) \in Nat /\ Qualities(k, own \cup {e}) = Qualities(k, own) + g
  BY QualitiesGrow
<1>11. g \in Nat /\ \E q \in Nat : g = q * Decay[MaxTime - l]
  BY <1>7, WeightIsWhole
<1>12. \A a \in own \cup {e} : Observed[a].time <= l
  BY <1>7 DEF IsLast
<1>13. /\ Ideal(k, own, l) \in Nat
       /\ Ideal(k, own \cup {e}, l) = Ideal(k, own, l) + Decayed(g, l - t)
  <2> HIDE DEF l
  <2>1. QED
    BY <1>7, <1>12, IdealGrows
<1>14. Decayed(g, l - t) \in Nat /\ Decayed(g, l - t) <= g /\ (l = t => Decayed(g, l - t) = g)
  <2>1. l - t \in 0 .. MaxTime
    BY <1>2, <1>5 DEF Latest
  <2>2. l = t => l - t = 0
    BY <1>5
  <2> HIDE DEF l, t
  <2>3. Decayed(g, l - t) \in Nat /\ Decayed(g, l - t) <= g
    BY <2>1, GainDecays
  <2>4. Decayed(g, 0) = g
    BY DEF Decayed
  <2>5. QED
    BY <2>2, <2>3, <2>4
\* w is what is left of the weight at the later of the two times.
<1>15. /\ w \in Nat /\ w <= y.weight /\ Ideal(k, own, l) <= w /\ \E q \in Nat : w = q * Decay[MaxTime - l]
       /\ y.weight = Ideal(k, own, y.last) => w = Ideal(k, own, l)
  <2>1. CASE t <= y.last
    <3>1. w = y.weight /\ l = y.last
      BY <1>2, <1>5, <2>1 DEF Decayed, Latest
    <3> HIDE DEF w, l, y
    <3>2. QED
      BY <1>2, <1>4, <3>1
  <2>2. CASE y.last < t
    <3> DEFINE d == t - y.last
               a == MaxTime - y.last
               D == Decay[d]
               I == Ideal(k, own, l)
    <3>1. l = t /\ d \in 0 .. MaxTime /\ a \in 0 .. MaxTime /\ d <= a /\ a - d = MaxTime - l
      <4> DEFINE v == y.last
      <4>1. v \in 0 .. MaxTime /\ t \in 0 .. MaxTime /\ MaxTime \in Nat /\ v < t /\ l = Latest(v, t)
        BY <1>2, <1>5, <2>2
      <4> HIDE DEF v, t, l
      <4>2. /\ l = t /\ t - v \in 0 .. MaxTime /\ MaxTime - v \in 0 .. MaxTime /\ t - v <= MaxTime - v
            /\ (MaxTime - v) - (t - v) = MaxTime - l
        BY ONLY <4>1 DEF Latest
      <4>3. QED
        BY <4>2 DEF v, t
    <3>2. PICK q \in Nat : y.weight = q * Decay[a]
      BY <1>4
    <3>3. w = Decayed(q * Decay[a], d)
      BY <3>2
    <3>4. Ideal(k, own, y.last) = Decay[l - y.last] * Ideal(k, own, l)
      <4> HIDE DEF y, l
      <4>1. y.last <= l
        BY <1>2, <1>5, <2>2, <3>1
      <4>2. QED
        BY ONLY <1>2, <1>6, <1>7, <4>1, own \in SUBSET Events, IsFiniteSet(own), IdealDecays
    <3>5. l - y.last = d
      BY <3>1
    <3>6. D \in Nat \ {0}
      <4> HIDE DEF d
      <4>1. QED
        BY <3>1, DecayIs
    <3> HIDE DEF w, l, y, d, a
    <3>7. /\ Decayed(q * Decay[a], d) = q * Decay[a - d]
          /\ q * Decay[a] = Decay[d] * (q * Decay[a - d])
          /\ q * Decay[a - d] \in Nat /\ q * Decay[a] \in Nat /\ q * Decay[a - d] <= q * Decay[a]
      BY ONLY <3>1, q \in Nat, WholeDecays
    <3>8. w \in Nat /\ w <= y.weight /\ w = q * Decay[MaxTime - l] /\ y.weight = D * w
      BY <3>1, <3>2, <3>3, <3>7
    <3>9. Ideal(k, own, y.last) = D * I /\ I \in Nat
      BY <1>13, <3>4, <3>5
    <3>10. D * I <= D * w
      BY <1>4, <3>8, <3>9
    <3> HIDE DEF D, I
    <3>11. I <= w /\ (D * I = D * w => I = w)
      BY <3>6, <3>8, <3>9, <3>10, Cancels
    <3>12. QED
      BY <3>8, <3>9, <3>11 DEF I
  <2>3. QED
    BY <1>2, <1>5, <2>1, <2>2
<1>16. \E q \in Nat : w + g = q * Decay[MaxTime - l]
  <2>1. PICK q \in Nat : w = q * Decay[MaxTime - l]
    BY <1>15
  <2>2. PICK p \in Nat : g = p * Decay[MaxTime - l]
    BY <1>11
  <2> DEFINE D == Decay[MaxTime - l]
  <2>3. D \in Nat
    <3>1. MaxTime - l \in 0 .. MaxTime
      BY <1>7, DecayIs
    <3> HIDE DEF l
    <3>2. QED
      BY <3>1, DecayIs
  <2> HIDE DEF D, w, g
  <2>4. w + g = (q + p) * D
    BY <2>1, <2>2, <2>3 DEF D
  <2>5. QED
    BY <2>4 DEF D
<1>17. edges[k].last <= t => l = t
  BY <1>2, <1>5 DEF Latest
<1> HIDE DEF n, x, l, r, g, w, t
<1>18. x \in GraphEdges /\ x.weight = w + g /\ x.last = l /\ x.refs = r /\ x.count = y.count + n
  <2>1. w + g \in Nat /\ y.count + n \in Nat
    BY <1>2, <1>11, <1>15
  <2> HIDE DEF y
  <2>2. QED
    BY ONLY <1>3, <1>7, <1>8, <2>1 DEF GraphEdges
<1>19. EdgeNow(k, x, own \cup {e})
  BY <1>7, <1>8, <1>9, <1>18 DEF EdgeNow
<1>20. Weighs(k, x, own \cup {e})
  <2>1. Ideal(k, own \cup {e}, l) <= w + g
    BY <1>11, <1>13, <1>14, <1>15
  <2>2. w + g <= Qualities(k, own \cup {e})
    BY <1>2, <1>4, <1>10, <1>11, <1>15
  <2>3. QED
    BY <1>16, <1>18, <2>1, <2>2 DEF Weighs
<1>21. ASSUME y.weight = Ideal(k, own, y.last), y.last <= t
       PROVE  x.weight = Ideal(k, own \cup {e}, x.last)
  <2>1. w = Ideal(k, own, l) /\ Decayed(g, l - t) = g
    BY <1>14, <1>15, <1>17, <1>21 DEF y
  <2>2. QED
    BY <1>13, <1>18, <2>1
<1>22. QED
  BY <1>19, <1>20, <1>21 DEF x, n, t, y

-----------------------------------------------------------------------------
(* The graph is what its events make it *)

NodeOwn(k) == {e \in Range(applied) : k \in Items(NodeUpserts(e))}
EdgeOwn(k) == {e \in Range(applied) : k \in Items(EdgeUpserts(e))}

\* The events of a batch that is not full are counted.
BatchesCount ==
  /\ applied \in Seq(Events) /\ snapshots \in Seq(Range(snapshots)) /\ since \in 0 .. BatchSize - 1
  /\ Len(applied) = BatchSize * Len(snapshots) + since

ItemsFollow ==
  /\ DOMAIN nodes = NodesOf(Range(applied)) /\ DOMAIN edges = EdgesOf(Range(applied))
  /\ \A k \in DOMAIN nodes : NodeNow(k, nodes[k], NodeOwn(k))
  /\ \A k \in DOMAIN edges : EdgeNow(k, edges[k], EdgeOwn(k))

WeightsFollow ==
  \A k \in DOMAIN edges :
    /\ Weighs(k, edges[k], EdgeOwn(k))
    /\ CameInOrder(k) => edges[k].weight = Ideal(k, EdgeOwn(k), edges[k].last)

CutsFollow ==
  \A n \in 1 .. Len(snapshots) :
    /\ snapshots[n].mark = applied[n * BatchSize]
    /\ DOMAIN snapshots[n].nodes = NodesOf(Prefix(n * BatchSize))
    /\ DOMAIN snapshots[n].edges = EdgesOf(Prefix(n * BatchSize))

GraphInv == BatchesCount /\ ItemsFollow /\ WeightsFollow /\ CutsFollow

LEMMA EventsAreFinite ==
  ASSUME applied \in Seq(Events)
  PROVE  /\ IsFiniteSet(Range(applied)) /\ Range(applied) \subseteq Events
         /\ Range(applied) = {applied[i] : i \in 1 .. Len(applied)} /\ Len(applied) \in Nat
<1>1. DOMAIN applied = 1 .. Len(applied) /\ Len(applied) \in Nat /\ Range(applied) \subseteq Events
  BY DEF Range
<1>2. IsFiniteSet(1 .. Len(applied))
  BY <1>1, FS_Interval
<1> DEFINE D == 1 .. Len(applied)
<1>3. DOMAIN applied = D /\ IsFiniteSet(D)
  BY <1>1, <1>2
<1> HIDE DEF D
<1>4. IsFiniteSet({applied[i] : i \in D})
  BY <1>3, ImageIsFinite
<1>5. QED
  BY <1>1, <1>3, <1>4 DEF Range

LEMMA EventIsApplied ==
  ASSUME applied \in Seq(Events), NEW e \in Events, Update(e)
  PROVE  /\ applied' \in Seq(Events) /\ Len(applied') = Len(applied) + 1 /\ Len(applied) \in Nat
         /\ \A i \in 1 .. Len(applied) : applied'[i] = applied[i]
         /\ applied'[Len(applied) + 1] = e
         /\ e \notin Range(applied) /\ (Range(applied))' = Range(applied) \cup {e}
<1>1. applied' = Append(applied, e) /\ e \notin Range(applied)
  BY DEF Update, IsNew
<1>2. /\ applied' \in Seq(Events) /\ Len(applied') = Len(applied) + 1 /\ Len(applied) \in Nat
      /\ \A i \in 1 .. Len(applied) : applied'[i] = applied[i]
      /\ applied'[Len(applied) + 1] = e
  BY <1>1
<1>3. (Range(applied))' = {applied'[i] : i \in 1 .. Len(applied) + 1}
  BY <1>2 DEF Range
<1>4. Range(applied) = {applied[i] : i \in 1 .. Len(applied)}
  BY EventsAreFinite
<1>5. {applied'[i] : i \in 1 .. Len(applied) + 1} = {applied[i] : i \in 1 .. Len(applied)} \cup {e}
  <2>1. ASSUME NEW i \in 1 .. Len(applied) + 1
        PROVE  (i \in 1 .. Len(applied) /\ applied'[i] = applied[i]) \/ applied'[i] = e
    BY <1>2
  <2>2. \A i \in 1 .. Len(applied) : i \in 1 .. Len(applied) + 1
    BY <1>2
  <2>3. Len(applied) + 1 \in 1 .. Len(applied) + 1
    BY <1>2
  <2> HIDE DEF Update
  <2>4. QED
    BY <1>2, <2>1, <2>2, <2>3
<1>6. QED
  BY <1>1, <1>2, <1>3, <1>4, <1>5

LEMMA OwnGrows ==
  ASSUME applied \in Seq(Events), NEW e \in Events, Update(e), NEW k
  PROVE  /\ IsFiniteSet(NodeOwn(k)) /\ NodeOwn(k) \in SUBSET Events /\ e \notin NodeOwn(k)
         /\ IsFiniteSet(EdgeOwn(k)) /\ EdgeOwn(k) \in SUBSET Events /\ e \notin EdgeOwn(k)
         /\ (NodeOwn(k))' = IF k \in Items(NodeUpserts(e)) THEN NodeOwn(k) \cup {e} ELSE NodeOwn(k)
         /\ (EdgeOwn(k))' = IF k \in Items(EdgeUpserts(e)) THEN EdgeOwn(k) \cup {e} ELSE EdgeOwn(k)
<1>1. /\ IsFiniteSet(Range(applied)) /\ Range(applied) \subseteq Events
      /\ e \notin Range(applied) /\ (Range(applied))' = Range(applied) \cup {e}
  BY EventsAreFinite, EventIsApplied
<1>2. NodeOwn(k) \subseteq Range(applied) /\ EdgeOwn(k) \subseteq Range(applied)
  BY DEF NodeOwn, EdgeOwn
<1>3. IsFiniteSet(NodeOwn(k)) /\ IsFiniteSet(EdgeOwn(k))
  BY <1>1, <1>2, FS_Subset
<1>4. (NodeOwn(k))' = {x \in Range(applied) \cup {e} : k \in Items(NodeUpserts(x))}
  BY <1>1 DEF NodeOwn
<1>5. (EdgeOwn(k))' = {x \in Range(applied) \cup {e} : k \in Items(EdgeUpserts(x))}
  BY <1>1 DEF EdgeOwn
<1>6. QED
  BY <1>1, <1>2, <1>3, <1>4, <1>5 DEF NodeOwn, EdgeOwn

LEMMA DomainsGrow ==
  ASSUME applied \in Seq(Events), ItemsFollow, NEW e \in Events, Update(e)
  PROVE  /\ DOMAIN nodes' = NodesOf((Range(applied))') /\ DOMAIN edges' = EdgesOf((Range(applied))')
         /\ DOMAIN nodes' = DOMAIN nodes \cup Items(NodeUpserts(e))
         /\ DOMAIN edges' = DOMAIN edges \cup Items(EdgeUpserts(e))
         /\ \A k \in DOMAIN nodes' :
              nodes'[k] = IF k \in Items(NodeUpserts(e))
                            THEN UpsertNode(k, e, Times(NodeUpserts(e), k)) ELSE nodes[k]
         /\ \A k \in DOMAIN edges' :
              edges'[k] = IF k \in Items(EdgeUpserts(e))
                            THEN UpsertEdge(k, e, Times(EdgeUpserts(e), k)) ELSE edges[k]
<1>1. nodes' = [k \in DOMAIN nodes \cup Items(NodeUpserts(e)) |->
                  IF k \in Items(NodeUpserts(e)) THEN UpsertNode(k, e, Times(NodeUpserts(e), k)) ELSE nodes[k]]
  BY DEF Update
<1>2. edges' = [k \in DOMAIN edges \cup Items(EdgeUpserts(e)) |->
                  IF k \in Items(EdgeUpserts(e)) THEN UpsertEdge(k, e, Times(EdgeUpserts(e), k)) ELSE edges[k]]
  BY DEF Update
<1>3. (Range(applied))' = Range(applied) \cup {e}
  BY EventIsApplied
<1>4. DOMAIN nodes = NodesOf(Range(applied)) /\ DOMAIN edges = EdgesOf(Range(applied))
  BY DEF ItemsFollow
<1>5. \A es : /\ NodesOf(es \cup {e}) = NodesOf(es) \cup Items(NodeUpserts(e))
              /\ EdgesOf(es \cup {e}) = EdgesOf(es) \cup Items(EdgeUpserts(e))
  BY DEF NodesOf, EdgesOf
<1>6. QED
  BY <1>1, <1>2, <1>3, <1>4, <1>5

LEMMA NodesFollow ==
  ASSUME applied \in Seq(Events), ItemsFollow, NEW e \in Events, Update(e), NEW k, k \in DOMAIN nodes'
  PROVE  NodeNow(k, nodes'[k], (NodeOwn(k))')
<1> DEFINE own == NodeOwn(k)
<1>1. /\ IsFiniteSet(own) /\ own \in SUBSET Events /\ e \notin own
      /\ (NodeOwn(k))' = IF k \in Items(NodeUpserts(e)) THEN own \cup {e} ELSE own
  BY OwnGrows
<1>2. /\ nodes'[k] = IF k \in Items(NodeUpserts(e))
                       THEN UpsertNode(k, e, Times(NodeUpserts(e), k)) ELSE nodes[k]
      /\ k \in DOMAIN nodes \cup Items(NodeUpserts(e))
  BY DomainsGrow
<1>3. CASE k \notin Items(NodeUpserts(e))
  BY <1>1, <1>2, <1>3 DEF ItemsFollow
<1>4. CASE k \in Items(NodeUpserts(e)) /\ k \in DOMAIN nodes
  <2>1. NodeNow(k, nodes[k], own)
    BY <1>4 DEF ItemsFollow
  <2> HIDE DEF own
  <2>2. NodeNow(k, UpsertNode(k, e, Times(NodeUpserts(e), k)), own \cup {e})
    BY <1>1, <1>4, <2>1, NodeIsTouched
  <2>3. QED
    BY <1>1, <1>2, <1>4, <2>2
<1>5. CASE k \in Items(NodeUpserts(e)) /\ k \notin DOMAIN nodes
  <2>1. own = {}
    BY <1>5 DEF ItemsFollow, NodesOf, NodeOwn
  <2> HIDE DEF own
  <2>2. NodeNow(k, UpsertNode(k, e, Times(NodeUpserts(e), k)), {e})
    BY <1>5, NodeIsMade
  <2>3. QED
    BY <1>1, <1>2, <1>5, <2>1, <2>2
<1>6. QED
  BY <1>3, <1>4, <1>5

\* What came in the order of its times had done so before, and what came last is latest.
LEMMA OrderWas ==
  ASSUME applied \in Seq(Events), NEW e \in Events, Update(e), NEW k, (CameInOrder(k))'
  PROVE  /\ CameInOrder(k)
         /\ k \in Items(EdgeUpserts(e)) => \A x \in EdgeOwn(k) : Observed[x].time <= Observed[e].time
<1>1. /\ Len(applied') = Len(applied) + 1 /\ Len(applied) \in Nat
      /\ \A i \in 1 .. Len(applied) : applied'[i] = applied[i]
      /\ applied'[Len(applied) + 1] = e
  BY EventIsApplied
<1>2. \A i, j \in 1 .. Len(applied') :
        i < j /\ k \in Items(EdgeUpserts(applied'[i])) /\ k \in Items(EdgeUpserts(applied'[j]))
          => Observed[applied'[i]].time <= Observed[applied'[j]].time
  BY DEF CameInOrder
<1>3. CameInOrder(k)
  <2>1. SUFFICES ASSUME NEW i \in 1 .. Len(applied), NEW j \in 1 .. Len(applied), i < j,
                        k \in Items(EdgeUpserts(applied[i])), k \in Items(EdgeUpserts(applied[j]))
                 PROVE  Observed[applied[i]].time <= Observed[applied[j]].time
    BY DEF CameInOrder
  <2>2. i \in 1 .. Len(applied') /\ j \in 1 .. Len(applied') /\ applied'[i] = applied[i] /\ applied'[j] = applied[j]
    BY <1>1
  <2>3. QED
    BY <1>2, <2>1, <2>2
<1>4. ASSUME k \in Items(EdgeUpserts(e)), NEW x \in EdgeOwn(k)
      PROVE  Observed[x].time <= Observed[e].time
  <2>1. x \in Range(applied) /\ k \in Items(EdgeUpserts(x))
    BY DEF EdgeOwn
  <2>2. PICK i \in 1 .. Len(applied) : applied[i] = x
    BY <2>1, EventsAreFinite
  <2> DEFINE j == Len(applied) + 1
  <2>3. i \in 1 .. Len(applied') /\ j \in 1 .. Len(applied') /\ i < j /\ applied'[i] = x /\ applied'[j] = e
    BY <1>1, <2>2
  <2> HIDE DEF j
  <2>4. QED
    BY <1>2, <1>4, <2>1, <2>3
<1>5. QED
  BY <1>3, <1>4

LEMMA EdgesFollow ==
  ASSUME applied \in Seq(Events), ItemsFollow, WeightsFollow, NEW e \in Events, Update(e), NEW k, k \in DOMAIN edges'
  PROVE  /\ EdgeNow(k, edges'[k], (EdgeOwn(k))') /\ Weighs(k, edges'[k], (EdgeOwn(k))')
         /\ (CameInOrder(k))' => edges'[k].weight = Ideal(k, (EdgeOwn(k))', edges'[k].last)
<1> DEFINE own == EdgeOwn(k)
           x == UpsertEdge(k, e, Times(EdgeUpserts(e), k))
<1>1. /\ IsFiniteSet(own) /\ own \in SUBSET Events /\ e \notin own
      /\ (EdgeOwn(k))' = IF k \in Items(EdgeUpserts(e)) THEN own \cup {e} ELSE own
  BY OwnGrows
<1>2. /\ edges'[k] = IF k \in Items(EdgeUpserts(e)) THEN x ELSE edges[k]
      /\ k \in DOMAIN edges \cup Items(EdgeUpserts(e))
  BY DomainsGrow
<1>3. k \in DOMAIN edges => /\ EdgeNow(k, edges[k], own) /\ Weighs(k, edges[k], own)
                            /\ CameInOrder(k) => edges[k].weight = Ideal(k, own, edges[k].last)
  BY DEF ItemsFollow, WeightsFollow
<1>4. (CameInOrder(k))' => /\ CameInOrder(k)
                           /\ k \in Items(EdgeUpserts(e)) => \A a \in own : Observed[a].time <= Observed[e].time
  BY OrderWas
<1>5. CASE k \notin Items(EdgeUpserts(e))
  <2> HIDE DEF own, x
  <2>1. QED
    BY <1>1, <1>2, <1>3, <1>4, <1>5
<1>6. CASE k \in Items(EdgeUpserts(e)) /\ k \in DOMAIN edges
  <2>1. (CameInOrder(k))' => edges[k].weight = Ideal(k, own, edges[k].last) /\ edges[k].last <= Observed[e].time
    BY <1>3, <1>4, <1>6 DEF EdgeNow, IsLast
  <2> HIDE DEF own
  <2>2. /\ EdgeNow(k, x, own \cup {e}) /\ Weighs(k, x, own \cup {e})
        /\ edges[k].weight = Ideal(k, own, edges[k].last) /\ edges[k].last <= Observed[e].time
             => x.weight = Ideal(k, own \cup {e}, x.last)
    BY <1>1, <1>3, <1>6, EdgeIsTouched
  <2> HIDE DEF x
  <2>3. QED
    BY <1>1, <1>2, <1>6, <2>1, <2>2
<1>7. CASE k \in Items(EdgeUpserts(e)) /\ k \notin DOMAIN edges
  <2>1. own = {}
    BY <1>7 DEF ItemsFollow, EdgesOf, EdgeOwn
  <2> HIDE DEF own
  <2>2. EdgeNow(k, x, {e}) /\ Weighs(k, x, {e}) /\ x.weight = Ideal(k, {e}, x.last)
    BY <1>7, EdgeIsMade
  <2> HIDE DEF x
  <2>3. QED
    BY <1>1, <1>2, <1>7, <2>1, <2>2
<1>8. QED
  BY <1>2, <1>5, <1>6, <1>7

\* A prefix stays what it was, and that of every event is all of them.
LEMMA PrefixStays ==
  ASSUME applied \in Seq(Events), NEW e \in Events, Update(e), NEW n \in 0 .. Len(applied)
  PROVE  (Prefix(n))' = Prefix(n)
<1>1. \A i \in 1 .. Len(applied) : applied'[i] = applied[i]
  BY EventIsApplied
<1>2. \A i \in 1 .. n : i \in 1 .. Len(applied)
  BY EventsAreFinite
<1>3. \A i \in 1 .. n : applied'[i] = applied[i]
  BY <1>1, <1>2
<1>4. (Prefix(n))' = {applied'[i] : i \in 1 .. n}
  BY DEF Prefix
<1>5. {applied'[i] : i \in 1 .. n} = {applied[i] : i \in 1 .. n}
  BY <1>3
<1>6. QED
  BY <1>4, <1>5 DEF Prefix

LEMMA CutsStay ==
  ASSUME BatchesCount, ItemsFollow, CutsFollow, NEW e \in Events, Update(e)
  PROVE  BatchesCount' /\ CutsFollow'
<1> DEFINE m == Len(applied)
           s == Len(snapshots)
           B == BatchSize
<1>1. B \in Nat \ {0}
  BY GraphSizes
<1>2. /\ applied \in Seq(Events) /\ m \in Nat /\ s \in Nat /\ since \in 0 .. B - 1 /\ m = B * s + since
      /\ snapshots \in Seq(Range(snapshots))
  BY DEF BatchesCount
<1>3. /\ applied' \in Seq(Events) /\ Len(applied') = m + 1 /\ applied'[m + 1] = e
      /\ \A i \in 1 .. m : applied'[i] = applied[i]
      /\ (Range(applied))' = Range(applied) \cup {e}
  BY <1>2, EventIsApplied
<1>4. ASSUME NEW n \in 1 .. s
      PROVE  n * B \in 1 .. m /\ n * B \in 0 .. m
  <2>1. n * B >= 1 /\ n * B <= B * s /\ n * B \in Int
    <3> HIDE DEF B, s
    <3>1. n * B >= 1
      BY <1>1, <1>2, SMT
    <3>2. n * B <= s * B
      BY <1>1, <1>2, SMT
    <3>3. s * B = B * s /\ n * B \in Int
      BY <1>1, <1>2, SMT
    <3>4. QED
      BY <3>1, <3>2, <3>3
  <2> DEFINE p == n * B
             q == B * s
  <2>2. q \in Int
    BY <1>1, <1>2
  <2> HIDE DEF p, q, m, s, B
  <2>3. QED
    BY <1>2, <2>1, <2>2 DEF p, q
<1>5. ASSUME NEW n \in 1 .. s
      PROVE  /\ snapshots[n].mark = applied'[n * B]
             /\ DOMAIN snapshots[n].nodes = NodesOf((Prefix(n * B))')
             /\ DOMAIN snapshots[n].edges = EdgesOf((Prefix(n * B))')
  <2>1. n * B \in 1 .. m /\ n * B \in 0 .. m
    BY <1>4
  <2>2. applied'[n * B] = applied[n * B]
    BY <1>3, <2>1
  <2>3. (Prefix(n * B))' = Prefix(n * B)
    BY <1>2, <2>1, PrefixStays
  <2>4. QED
    BY <2>2, <2>3 DEF CutsFollow
<1>6. CASE since + 1 >= B
  <2> DEFINE r == Serialized(e, nodes', edges')
  <2>1. since' = 0 /\ snapshots' = Append(snapshots, r) /\ since + 1 = B
    BY <1>1, <1>2, <1>6 DEF Update, NextCount
  <2>2. m + 1 = (s + 1) * B
    <3> HIDE DEF m, s, B
    <3>1. (s + 1) * B = B * s + B
      BY <1>1, <1>2, SMT
    <3>2. QED
      BY <1>1, <1>2, <2>1, <3>1
  <2> DEFINE S == Range(snapshots) \cup {r}
  <2>3. snapshots \in Seq(S) /\ r \in S
    BY <1>2
  <2>4. r.mark = e /\ r.nodes = nodes' /\ r.edges = edges'
    BY DEF Serialized
  <2> HIDE DEF r, S
  <2>5. /\ snapshots' \in Seq(S) /\ Len(snapshots') = s + 1 /\ snapshots'[s + 1] = r
        /\ \A n \in 1 .. s : snapshots'[n] = snapshots[n]
    BY <1>2, <2>1, <2>3
  <2>6. (snapshots \in Seq(Range(snapshots)))'
    BY <2>5, SeqOfItsOwn
  <2>7. BatchesCount'
    <3>1. B * (s + 1) = m + 1
      BY <1>1, <1>2, <2>2
    <3>2. since' \in 0 .. B - 1
      BY <1>1, <2>1
    <3> HIDE DEF B, m, s
    <3>3. Len(applied') = B * Len(snapshots') + since'
      BY <1>2, <1>3, <2>1, <2>5, <3>1
    <3>4. QED
      BY <1>3, <2>6, <3>2, <3>3 DEF BatchesCount, B
  <2>8. ASSUME NEW p, p = m + 1
        PROVE  (Prefix(p))' = (Range(applied))'
    <3>1. DOMAIN applied' = 1 .. p
      BY <1>3, <2>8
    <3>2. QED
      BY <3>1 DEF Prefix, Range
  <2>9. /\ DOMAIN nodes' = NodesOf((Range(applied))') /\ DOMAIN edges' = EdgesOf((Range(applied))')
    BY <1>2, DomainsGrow
  <2>10. ASSUME NEW n \in 1 .. s + 1
         PROVE  /\ snapshots'[n].mark = applied'[n * B]
                /\ DOMAIN snapshots'[n].nodes = NodesOf((Prefix(n * B))')
                /\ DOMAIN snapshots'[n].edges = EdgesOf((Prefix(n * B))')
    <3>1. CASE n = s + 1
      <4> DEFINE p == n * B
      <4>1. p = m + 1
        BY <2>2, <3>1
      <4>2. (Prefix(p))' = (Range(applied))'
        BY <2>8, <4>1
      <4>3. snapshots'[n] = r /\ applied'[p] = e
        BY <1>3, <2>5, <3>1, <4>1
      <4> HIDE DEF p
      <4>4. QED
        BY <2>4, <2>9, <4>2, <4>3 DEF p
    <3>2. CASE n \in 1 .. s
      BY <1>5, <2>5, <3>2
    <3>3. QED
      BY <1>2, <3>1, <3>2
  <2>11. CutsFollow'
    BY <2>5, <2>10 DEF CutsFollow
  <2>12. QED
    BY <2>7, <2>11
<1>7. CASE ~ since + 1 >= B
  <2>1. since' = since + 1 /\ snapshots' = snapshots /\ since + 1 \in 0 .. B - 1
    BY <1>1, <1>2, <1>7 DEF Update, NextCount
  <2>2. BatchesCount'
    <3>1. (Range(snapshots))' = Range(snapshots) /\ Len(snapshots') = s
      BY <2>1 DEF Range
    <3>2. snapshots' \in Seq((Range(snapshots))')
      BY <1>2, <2>1, <3>1
    <3>3. m + 1 = B * s + (since + 1)
      <4> DEFINE q == B * s
      <4>1. q \in Int
        BY <1>1, <1>2
      <4> HIDE DEF q, m, B, s
      <4>2. QED
        BY <1>1, <1>2, <4>1 DEF q
    <3> HIDE DEF m, B, s
    <3>4. Len(applied') = B * Len(snapshots') + since' /\ since' \in 0 .. B - 1
      BY <1>3, <2>1, <3>1, <3>3
    <3>5. QED
      BY <1>3, <3>2, <3>4 DEF BatchesCount, B
  <2>3. CutsFollow'
    BY <1>5, <2>1 DEF CutsFollow
  <2>4. QED
    BY <2>2, <2>3
<1>8. QED
  BY <1>6, <1>7

\* The graph is at every moment what the events applied to it make it: upsert_node and
\* upsert_edge keep every item, its weight and the snapshots in step with the events.
THEOREM GraphInvariance == GraphSpec => []GraphInv
<1>1. GraphInit => GraphInv
  <2> SUFFICES ASSUME GraphInit PROVE GraphInv
    OBVIOUS
  <2>1. applied = <<>> /\ snapshots = <<>> /\ since = 0 /\ DOMAIN nodes = {} /\ DOMAIN edges = {}
    BY DEF GraphInit
  <2>2. Range(applied) = {} /\ Range(snapshots) = {}
    BY <2>1 DEF Range
  <2>3. BatchesCount
    <3>1. BatchSize \in Nat \ {0}
      BY GraphSizes
    <3>2. applied \in Seq(Events) /\ snapshots \in Seq(Range(snapshots)) /\ Len(applied) = 0 /\ Len(snapshots) = 0
      BY <2>1
    <3>3. BatchSize * 0 = 0
      BY <3>1
    <3>4. QED
      BY <2>1, <3>1, <3>2, <3>3 DEF BatchesCount
  <2>4. ItemsFollow /\ WeightsFollow
    BY <2>1, <2>2 DEF ItemsFollow, WeightsFollow, NodesOf, EdgesOf
  <2>5. CutsFollow
    BY <2>1 DEF CutsFollow
  <2>6. QED
    BY <2>3, <2>4, <2>5 DEF GraphInv
<1>2. GraphInv /\ [GraphNext]_graphVars => GraphInv'
  <2> SUFFICES ASSUME GraphInv, [GraphNext]_graphVars PROVE GraphInv'
    OBVIOUS
  <2>1. ASSUME NEW e \in Events, Update(e)
        PROVE  GraphInv'
    <3>1. applied \in Seq(Events) /\ BatchesCount /\ ItemsFollow /\ WeightsFollow /\ CutsFollow
      BY DEF GraphInv, BatchesCount
    <3>2. BatchesCount' /\ CutsFollow'
      BY <2>1, <3>1, CutsStay
    <3>3. ItemsFollow'
      <4>1. DOMAIN nodes' = NodesOf((Range(applied))') /\ DOMAIN edges' = EdgesOf((Range(applied))')
        BY <2>1, <3>1, DomainsGrow
      <4>2. ASSUME NEW k, k \in DOMAIN nodes'
            PROVE  NodeNow(k, nodes'[k], (NodeOwn(k))')
        BY <2>1, <3>1, <4>2, NodesFollow
      <4>3. ASSUME NEW k, k \in DOMAIN edges'
            PROVE  EdgeNow(k, edges'[k], (EdgeOwn(k))')
        BY <2>1, <3>1, <4>3, EdgesFollow
      <4>4. NodesOf((Range(applied))') = (NodesOf(Range(applied)))' /\ EdgesOf((Range(applied))') = (EdgesOf(Range(applied)))'
        BY DEF NodesOf, EdgesOf
      <4>5. QED
        BY <4>1, <4>2, <4>3, <4>4 DEF ItemsFollow, NodeNow, EdgeNow
    <3>4. WeightsFollow'
      <4>1. ASSUME NEW k, k \in DOMAIN edges'
            PROVE  /\ Weighs(k, edges'[k], (EdgeOwn(k))')
                   /\ (CameInOrder(k))' => edges'[k].weight = Ideal(k, (EdgeOwn(k))', edges'[k].last)
        BY <2>1, <3>1, <4>1, EdgesFollow
      <4>2. QED
        BY <4>1 DEF WeightsFollow, Weighs, Ideal, Qualities
    <3>5. QED
      BY <3>2, <3>3, <3>4 DEF GraphInv
  <2>2. CASE UNCHANGED graphVars
    <3>1. nodes' = nodes /\ edges' = edges /\ applied' = applied /\ since' = since /\ snapshots' = snapshots
      BY <2>2 DEF graphVars
    <3>2. BatchesCount'
      BY <3>1 DEF GraphInv, BatchesCount, Range
    <3>3. (Range(applied))' = Range(applied)
      BY <3>1 DEF Range
    <3>4. (NodesOf(Range(applied)))' = NodesOf(Range(applied)) /\ (EdgesOf(Range(applied)))' = EdgesOf(Range(applied))
      BY <3>3 DEF NodesOf, EdgesOf
    <3>5. ASSUME NEW k
          PROVE  /\ (NodeOwn(k))' = NodeOwn(k) /\ (EdgeOwn(k))' = EdgeOwn(k) /\ (CameInOrder(k))' = CameInOrder(k)
                 /\ (NodeNow(k, nodes[k], NodeOwn(k)))' = NodeNow(k, nodes[k], NodeOwn(k))
                 /\ (EdgeNow(k, edges[k], EdgeOwn(k)))' = EdgeNow(k, edges[k], EdgeOwn(k))
                 /\ (Weighs(k, edges[k], EdgeOwn(k)))' = Weighs(k, edges[k], EdgeOwn(k))
                 /\ (Ideal(k, EdgeOwn(k), edges[k].last))' = Ideal(k, EdgeOwn(k), edges[k].last)
      <4>1. (NodeOwn(k))' = NodeOwn(k) /\ (EdgeOwn(k))' = EdgeOwn(k)
        BY <3>3 DEF NodeOwn, EdgeOwn
      <4>2. (CameInOrder(k))' = CameInOrder(k)
        BY <3>1 DEF CameInOrder
      <4>3. (NodeNow(k, nodes[k], NodeOwn(k)))' = NodeNow(k, nodes[k], NodeOwn(k))
        BY <3>1, <4>1 DEF NodeNow
      <4>4. (EdgeNow(k, edges[k], EdgeOwn(k)))' = EdgeNow(k, edges[k], EdgeOwn(k))
        BY <3>1, <4>1 DEF EdgeNow
      <4>5. (Weighs(k, edges[k], EdgeOwn(k)))' = Weighs(k, edges[k], EdgeOwn(k))
        BY <3>1, <4>1 DEF Weighs, Ideal, Qualities
      <4>6. (Ideal(k, EdgeOwn(k), edges[k].last))' = Ideal(k, EdgeOwn(k), edges[k].last)
        BY <3>1, <4>1 DEF Ideal
      <4>7. QED
        BY <4>1, <4>2, <4>3, <4>4, <4>5, <4>6
    <3>6. ItemsFollow'
      BY <3>1, <3>4, <3>5 DEF GraphInv, ItemsFollow
    <3>7. WeightsFollow'
      <4>1. ASSUME NEW k, k \in DOMAIN edges'
            PROVE  /\ (Weighs(k, edges[k], EdgeOwn(k)))'
                   /\ (CameInOrder(k))' => (edges[k].weight)' = (Ideal(k, EdgeOwn(k), edges[k].last))'
        <5>1. /\ Weighs(k, edges[k], EdgeOwn(k))
              /\ CameInOrder(k) => edges[k].weight = Ideal(k, EdgeOwn(k), edges[k].last)
          BY <3>1, <4>1 DEF GraphInv, WeightsFollow
        <5>2. (edges[k].weight)' = edges[k].weight
          BY <3>1
        <5>3. QED
          BY <3>5, <5>1, <5>2
      <4>2. QED
        BY <4>1 DEF WeightsFollow
    <3>8. CutsFollow'
      <4>1. ASSUME NEW n
            PROVE  (Prefix(n))' = Prefix(n)
        BY <3>1 DEF Prefix
      <4>2. ASSUME NEW n \in 1 .. Len(snapshots)
            PROVE  /\ snapshots'[n].mark = applied'[n * BatchSize]
                   /\ DOMAIN snapshots'[n].nodes = NodesOf((Prefix(n * BatchSize))')
                   /\ DOMAIN snapshots'[n].edges = EdgesOf((Prefix(n * BatchSize))')
        <5> DEFINE p == n * BatchSize
        <5>1. /\ snapshots[n].mark = applied[p]
              /\ DOMAIN snapshots[n].nodes = NodesOf(Prefix(p))
              /\ DOMAIN snapshots[n].edges = EdgesOf(Prefix(p))
          BY DEF GraphInv, CutsFollow
        <5> HIDE DEF p
        <5>2. (Prefix(p))' = Prefix(p)
          BY <4>1
        <5>3. QED
          BY <3>1, <5>1, <5>2 DEF p
      <4>3. QED
        BY <3>1, <4>2 DEF CutsFollow
    <3>9. QED
      BY <3>2, <3>6, <3>7, <3>8 DEF GraphInv
  <2>3. QED
    BY <2>1, <2>2 DEF GraphNext, Duplicate
<1>3. QED
  BY <1>1, <1>2, PTL DEF GraphSpec

\* Whatever the order in which the events come and however often one of them comes, the
\* graph and its snapshots are functions of them: update() applies an event once, and a
\* late one adds to a weight without undoing the decay.
THEOREM GraphIsAlwaysItsEvents == GraphSpec => []GraphIsItsEvents
<1>1. GraphInv => GraphIsItsEvents
  <2> SUFFICES ASSUME GraphInv PROVE GraphIsItsEvents
    OBVIOUS
  <2>1. BatchesCount /\ ItemsFollow /\ WeightsFollow /\ CutsFollow /\ applied \in Seq(Events)
    BY DEF GraphInv, BatchesCount
  <2>2. IsFiniteSet(Range(applied)) /\ Range(applied) \subseteq Events
    BY <2>1, EventsAreFinite
  <2>3. ASSUME NEW k \in DOMAIN nodes
        PROVE  LET own == {e \in Range(applied) : k \in Items(NodeUpserts(e))}
               IN /\ nodes[k].count = TotalOf([e \in own |-> Times(NodeUpserts(e), k)])
                  /\ nodes[k].last = LastTime(own) /\ Range(nodes[k].refs) \subseteq own
    <3>1. NodeNow(k, nodes[k], NodeOwn(k))
      BY <2>1 DEF ItemsFollow
    <3>2. LastTime(NodeOwn(k)) = nodes[k].last
      <4>1. NodeOwn(k) \in SUBSET Events /\ IsLast(NodeOwn(k), nodes[k].last)
        BY <2>2, <3>1 DEF NodeOwn, NodeNow
      <4>2. QED
        BY <4>1, LastIs
    <3>3. QED
      BY <3>1, <3>2 DEF NodeNow, NodeOwn
  <2>4. ASSUME NEW k \in DOMAIN edges
        PROVE  LET own == {e \in Range(applied) : k \in Items(EdgeUpserts(e))}
               IN /\ edges[k].count = TotalOf([e \in own |-> Times(EdgeUpserts(e), k)])
                  /\ edges[k].last = LastTime(own) /\ Range(edges[k].refs) \subseteq own
                  /\ {k[1], k[2]} \subseteq DOMAIN nodes /\ k[1][2] = k[2][2]
    <3>1. EdgeNow(k, edges[k], EdgeOwn(k))
      BY <2>1 DEF ItemsFollow
    <3>2. LastTime(EdgeOwn(k)) = edges[k].last
      <4>1. EdgeOwn(k) \in SUBSET Events /\ IsLast(EdgeOwn(k), edges[k].last)
        BY <2>2, <3>1 DEF EdgeOwn, EdgeNow
      <4>2. QED
        BY <4>1, LastIs
    <3>3. PICK e \in Range(applied) : k \in Items(EdgeUpserts(e))
      BY <2>1 DEF ItemsFollow, EdgesOf
    <3>4. {k[1], k[2]} \subseteq Items(NodeUpserts(e)) /\ k[1][2] = k[2][2]
      BY <2>2, <3>3, EdgeEnds
    <3>5. {k[1], k[2]} \subseteq DOMAIN nodes
      BY <2>1, <3>3, <3>4 DEF ItemsFollow, NodesOf
    <3>6. QED
      BY <3>1, <3>2, <3>4, <3>5 DEF EdgeNow, EdgeOwn
  <2>5. ItemsAreOfEvents
    BY <2>1, <2>3, <2>4 DEF ItemsAreOfEvents, ItemsFollow
  <2>6. WeightsAreBounded
    BY <2>1 DEF WeightsAreBounded, WeightsFollow, Weighs, EdgeOwn, Ideal, Qualities
  <2>7. SnapshotsAreCuts
    <3> DEFINE B == BatchSize
               m == Len(applied)
               s == Len(snapshots)
    <3>1. B \in Nat \ {0} /\ m \in Nat /\ s \in Nat /\ since \in 0 .. B - 1 /\ m = B * s + since
      BY <2>1, GraphSizes DEF BatchesCount
    <3>2. DOMAIN snapshots = 1 .. s
      BY <2>1 DEF BatchesCount
    <3> HIDE DEF B, m, s
    <3>3. m \div B = s
      BY <3>1, FullBatches
    <3>4. QED
      BY <2>1, <3>2, <3>3 DEF SnapshotsAreCuts, CutsFollow, B, m, s
  <2>8. QED
    BY <2>5, <2>6, <2>7 DEF GraphIsItsEvents
<1>2. QED
  BY <1>1, GraphInvariance, PTL

-----------------------------------------------------------------------------
(* The causal model of a graph *)

\* The variables of the model, by how far from the treatment the graph puts them.
Rank(v) ==
  CASE v = "environment" -> 0          [] v = "image" -> 1
    [] v = "component_version" -> 2    [] v = "component_version_treatment" -> 2
    [] v = "process_behavior" -> 2     [] v = "file_behavior" -> 3
    [] v = "network_behavior" -> 3     [] v = "runtime_sbom_drift" -> 4
    [] v = "contract_deviation" -> 5

\* An edge leads to a variable of a higher rank.
LEMMA EdgesRise ==
  ASSUME NEW e \in Events, NEW k \in Items(EdgeUpserts(e)), NEW a, NEW b,
         a = Semantic(k[1][1]), b = Semantic(k[2][1])
  PROVE  Rank(a) \in Nat /\ Rank(b) \in Nat /\ Rank(a) < Rank(b)
<1>1. PICK u \in EdgeUpserts(e) : k = u[2]
  BY DEF Items
<1>2. \/ k = <<Workload(e), Container(e), "runs">>
      \/ k = <<Container(e), Process(e), "executes">>
      \/ k = <<Container(e), Component(e), "belongs_to">>
      \/ Related(e) /\ k = <<Process(e), Target(e), Observed[e].relation.edge>>
      \/ \E n \in Violated(e) : k = <<Process(e), DriftOf(e, n), "derived_from">>
      \/ \E n \in Violated(e) : k = <<Component(e), DriftOf(e, n), "violates">>
      \/ \E n \in Violated(e) : k = <<DriftOf(e, n), ContractOf(e, n), "violates">>
  BY <1>1 DEF EdgeUpserts, Once, When, Belonging
<1>3. /\ Workload(e)[1] = "workload" /\ Container(e)[1] = "container" /\ Process(e)[1] = "process"
      /\ Component(e)[1] = "purl" /\ Target(e)[1] = Observed[e].relation.type
      /\ \A n \in Violated(e) : DriftOf(e, n)[1] = "drift_event" /\ ContractOf(e, n)[1] = "contract"
  BY DEF Workload, Container, Process, Component, Target, DriftOf, ContractOf, Drift, Contract, Node
<1>4. Related(e) => Observed[e].relation.type \in {"file", "network_endpoint"}
  BY GraphSizes DEF Related, RelationTypes
<1>5. \/ k[1][1] = "workload" /\ k[2][1] = "container"
      \/ k[1][1] = "container" /\ k[2][1] \in {"process", "purl"}
      \/ k[1][1] = "process" /\ k[2][1] \in {"file", "network_endpoint", "drift_event"}
      \/ k[1][1] = "purl" /\ k[2][1] = "drift_event"
      \/ k[1][1] = "drift_event" /\ k[2][1] = "contract"
  BY <1>2, <1>3, <1>4
<1>6. \/ a = "environment" /\ b = "image"
      \/ a = "image" /\ b \in {"process_behavior", "component_version"}
      \/ a = "process_behavior" /\ b \in {"file_behavior", "network_behavior", "runtime_sbom_drift"}
      \/ a = "component_version" /\ b = "runtime_sbom_drift"
      \/ a = "runtime_sbom_drift" /\ b = "contract_deviation"
  BY <1>5 DEF Semantic
<1>7. QED
  BY <1>6 DEF Rank

\* What rises has no cycle.
LEMMA RisingIsAcyclic ==
  ASSUME NEW links, \A l \in links : Rank(l[1]) \in Nat /\ Rank(l[1]) < Rank(l[2])
  PROVE  Acyclic(links)
<1>1. SUFFICES ASSUME NEW vs \in SUBSET {l[1] : l \in links}, vs # {}
               PROVE  \E v \in vs : \A l \in links : l[2] = v => l[1] \notin vs
  BY DEF Acyclic
<1> DEFINE R == {Rank(v) : v \in vs}
<1>2. R \in SUBSET Nat /\ R # {}
  BY <1>1
<1>3. PICK r \in R : \A x \in R : r <= x
  <2> HIDE DEF R
  <2>1. QED
    BY <1>2, LeastExists
<1>4. PICK v \in vs : Rank(v) = r
  BY <1>3
<1>5. ASSUME NEW l \in links, l[2] = v
      PROVE  l[1] \notin vs
  <2>1. SUFFICES ASSUME l[1] \in vs PROVE FALSE
    OBVIOUS
  <2>2. Rank(l[1]) \in R /\ r \in Nat
    BY <1>2, <2>1
  <2>3. r <= Rank(l[1]) /\ Rank(l[1]) < r
    BY <1>3, <1>4, <1>5, <2>2
  <2>4. QED
    BY <1>2, <2>2, <2>3
<1>6. QED
  BY <1>5

\* The causal model that build_scm_graph derives has no cycle, whatever events made the
\* graph and in whatever order: every edge it keeps or adds leads to a variable of a higher
\* rank.
THEOREM ScmIsAlwaysAcyclic == GraphSpec => []ScmIsAcyclic
<1>1. GraphInv => ScmIsAcyclic
  <2> SUFFICES ASSUME GraphInv PROVE ScmIsAcyclic
    OBVIOUS
  <2>1. SUFFICES ASSUME NEW t \in {"component_version", "component_version_treatment"},
                        NEW c \in {{}, {"environment", "image"}}
                 PROVE  Acyclic(Scm(Projected(Links(DOMAIN edges)), t, "runtime_sbom_drift", c))
    BY DEF ScmIsAcyclic
  <2>2. ASSUME NEW l \in Links(DOMAIN edges)
        PROVE  Rank(l[1]) \in Nat /\ Rank(l[1]) < Rank(l[2])
    <3>1. DOMAIN edges = EdgesOf(Range(applied)) /\ Range(applied) \subseteq Events
      BY EventsAreFinite DEF GraphInv, BatchesCount, ItemsFollow
    <3>2. PICK k \in DOMAIN edges : l = <<Semantic(k[1][1]), Semantic(k[2][1])>>
      BY DEF Links
    <3>3. PICK e \in Events : k \in Items(EdgeUpserts(e))
      BY <3>1 DEF EdgesOf
    <3>4. l[1] = Semantic(k[1][1]) /\ l[2] = Semantic(k[2][1])
      BY <3>2
    <3>5. QED
      BY <3>3, <3>4, EdgesRise
  <2> DEFINE projected == Projected(Links(DOMAIN edges))
  <2>3. ASSUME NEW p \in projected
        PROVE  Rank(p[1][1]) \in Nat /\ Rank(p[1][1]) < Rank(p[2][1])
    <3>1. PICK l \in Links(DOMAIN edges), w \in 0 .. Windows - 1, x \in 0 .. Windows - 1 : p = <<<<l[1], w>>, <<l[2], x>>>>
      BY DEF Projected
    <3>2. QED
      BY <2>2, <3>1
  <2> DEFINE kept == {l \in {<<p[1][1], p[2][1]>> : p \in projected} : l[1] # l[2] /\ ~(l[2] = t /\ Mediator(l[1]))}
             asked == {x \in c : ~Mediator(x)} \X {t, "runtime_sbom_drift"}
  <2>4. ASSUME NEW l \in kept
        PROVE  Rank(l[1]) \in Nat /\ Rank(l[1]) < Rank(l[2])
    <3>1. PICK p \in projected : l = <<p[1][1], p[2][1]>>
      OBVIOUS
    <3> HIDE DEF projected
    <3>2. QED
      BY <2>3, <3>1
  <2>5. ASSUME NEW l \in asked
        PROVE  Rank(l[1]) \in Nat /\ Rank(l[1]) < Rank(l[2])
    <3>1. l[1] \in {"environment", "image"} /\ l[2] \in {t, "runtime_sbom_drift"}
      OBVIOUS
    <3>2. QED
      BY <3>1 DEF Rank
  <2>6. Rank(t) \in Nat /\ Rank(t) < Rank("runtime_sbom_drift")
    <3>1. Rank("component_version") = 2 /\ Rank("component_version_treatment") = 2 /\ Rank("runtime_sbom_drift") = 4
      BY DEF Rank
    <3>2. QED
      BY <3>1
  <2>7. Scm(projected, t, "runtime_sbom_drift", c) = (kept \cup {<<t, "runtime_sbom_drift">>}) \cup asked
    BY DEF Scm
  <2> HIDE DEF projected, kept, asked
  <2>8. \A l \in (kept \cup {<<t, "runtime_sbom_drift">>}) \cup asked : Rank(l[1]) \in Nat /\ Rank(l[1]) < Rank(l[2])
    BY <2>4, <2>5, <2>6
  <2>9. QED
    BY <2>7, <2>8, RisingIsAcyclic DEF projected
<1>2. QED
  BY <1>1, GraphInvariance, PTL
===============================================================================
