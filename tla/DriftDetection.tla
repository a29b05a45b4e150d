----------------------------- MODULE DriftDetection -----------------------------
(***************************************************************************)
(* Behavioural contracts and the drift decision (services/ebpf-agent):     *)
(* GenerateContractUseCase trains a variable-order Markov model on the     *)
(* tokens of an image and a component, has it signed and stores it;        *)
(* ThresholdCalibrator takes a threshold from benign windows; DriftDecider *)
(* scores a window by its divergence from the model and decides.           *)
(*                                                                         *)
(* A logarithm of a product decides nothing that the product does not: the *)
(* score of a window is kept as the fraction whose logarithm it is, times  *)
(* the length of the window, with that length.  The information criterion, *)
(* which chooses the order of the model and prunes its contexts, may       *)
(* choose anything.  The weight of novelty is its default, zero.           *)
(***************************************************************************)
EXTENDS Integers, Sequences, FiniteSets, Functions

CONSTANTS
  Trainings,       \* sets of token sequences that may be fetched, as sequences
  Calibrations,    \* sequences of benign windows, [tokens, lost]
  Observations,    \* windows to be decided, [tokens, lost]
  Reserved,        \* the UNK and OTHER_RESOURCE tokens
  MaxOrder,        \* k_max
  MinTraining,     \* minimum_training_tokens, min_training_tokens
  MinWindow,       \* min_observation_tokens
  MinCalibration,  \* min_calibration_windows
  Percent,         \* calibration_quantile
  LossPenalty,     \* loss_penalty_factor, as a numerator and a denominator
  None             \* no model, contract, threshold or decision

ASSUME DriftSizes ==
  /\ {MinTraining, MinWindow} \subseteq Nat \ {0} /\ MaxOrder \in Nat
  /\ LossPenalty \in (Nat \ {0}) \X (Nat \ {0}) /\ LossPenalty[1] >= LossPenalty[2]
  /\ MinCalibration \in Nat \ {0, 1} /\ Percent \in 1 .. 100

IsSequence(s) == s \in Seq(Range(s))
IsWindow(seen) == IsSequence(seen.tokens) /\ seen.lost \in BOOLEAN

ASSUME DriftInputs ==
  /\ IsFiniteSet(Reserved)
  /\ \A seqs \in Trainings : IsSequence(seqs) /\ \A i \in DOMAIN seqs : IsSequence(seqs[i])
  /\ \A windows \in Calibrations :
       IsSequence(windows) /\ \A i \in DOMAIN windows : IsWindow(windows[i])
  /\ \A seen \in Observations : IsWindow(seen)

\* A score: the logarithm of a fraction, over the length of a window.
Scores == (Nat \ {0}) \X (Nat \ {0}) \X Nat

ASSUME NoneIsNoThreshold == None \notin [low : Scores, high : Scores]

VARIABLES
  fetched,     \* the training sequences
  stage,       \* "fetch", "train", "sign", "save", "saved" or "raised"
  model,       \* [order, retained] of the trained model, or None
  contract,    \* the stored model, or None
  benign,      \* the windows that the last calibration scored, by their place
  threshold,   \* the two scores it lies between, or None for infinity
  decision     \* [seen, identified, outcome], or None

driftVars == <<fetched, stage, model, contract, benign, threshold, decision>>

DriftInit ==
  /\ fetched = <<>> /\ stage = "fetch" /\ model = None /\ contract = None
  /\ benign = <<>> /\ threshold = None /\ decision = None

-----------------------------------------------------------------------------
(* The Markov model *)

Least(a, b) == IF a < b THEN a ELSE b

\* The places of the tokens: a sequence, and a position in it.
Positions(seqs) == UNION {{j} \X DOMAIN seqs[j] : j \in DOMAIN seqs}
Total(seqs) == Cardinality(Positions(seqs))

TokensOf(seqs) == UNION {Range(seqs[j]) : j \in DOMAIN seqs}
Sigma == TokensOf(fetched) \cup Reserved

\* The tokens before position i, order of them at the most.
ContextAt(s, i, order) == SubSeq(s, i - Least(order, i - 1), i - 1)

\* _build_count_map; the empty context is that of order 0.
Count(order, h, x) ==
  Cardinality({p \in Positions(fetched) :
    /\ fetched[p[1]][p[2]] = x
    /\ ContextAt(fetched[p[1]], p[2], IF h = <<>> THEN 0 ELSE order) = h})

Counted(order) == {ContextAt(fetched[p[1]], p[2], order) : p \in Positions(fetched)}

Occurrences(order, h) == SumFunction([x \in Sigma |-> Count(order, h, x)])

\* The longest retained suffix.
EffectiveContext(m, h) ==
  LET suffixes == {SubSeq(h, i, Len(h)) : i \in 1 .. Len(h) + 1} \cap m.retained
  IN CHOOSE s \in suffixes : \A r \in suffixes : Len(r) <= Len(s)

\* n(h) + m, under n(h, x) + 1.
Denominator(m, h) == Occurrences(m.order, h) + Cardinality(Sigma)
Numerator(m, h, x) == Count(m.order, h, x) + 1

-----------------------------------------------------------------------------
(* The score *)

Product(f) == FoldFunction(LAMBDA a, b : a * b, 1, f)

Power(x, n) == Product([i \in 1 .. n |-> x])

\* The product, over the window, of what a token's frequency after its context is
\* to its probability in the model; a novel token has the least probability.
Divergence(m, w) ==
  LET context == [i \in DOMAIN w |-> EffectiveContext(m, ContextAt(w, i, m.order))]
      Alike(i) == {j \in DOMAIN w : context[j] = context[i]}
      Same(i) == {j \in Alike(i) : w[j] = w[i]}
  IN <<Product([i \in DOMAIN w |-> Cardinality(Same(i)) * Denominator(m, context[i])]),
       Product([i \in DOMAIN w |-> Cardinality(Alike(i)) * Numerator(m, context[i], w[i])])>>

\* A fraction in its lowest terms, which keeps the numbers small.
Reduced(d) ==
  LET common == {g \in 1 .. Least(d[1], d[2]) : d[1] % g = 0 /\ d[2] % g = 0}
      greatest == CHOOSE g \in common : \A h \in common : h <= g
  IN <<d[1] \div greatest, d[2] \div greatest>>

\* A window in which records were lost scores by so much higher.
Score(m, seen) ==
  LET d == Reduced(Divergence(m, seen.tokens))
      penalty == IF seen.lost THEN LossPenalty ELSE <<1, 1>>
  IN <<Power(d[1], penalty[1]), Power(d[2], penalty[1]), Len(seen.tokens) * penalty[2]>>

\* A score is the logarithm over the length; scores over one length need no powers.
Above(s, t) ==
  IF s[3] = t[3] THEN s[1] * t[2] > t[1] * s[2]
  ELSE Power(s[1], t[3]) * Power(t[2], s[3]) > Power(t[1], s[3]) * Power(s[2], t[3])

-----------------------------------------------------------------------------
(* Generating a contract *)

Fetch ==
  /\ stage = "fetch"
  /\ \/ /\ fetched' \in Trainings
        /\ stage' = IF Total(fetched') < MinTraining THEN "raised" ELSE "train"
     \/ stage' = "raised" /\ UNCHANGED fetched
  /\ UNCHANGED <<model, contract, benign, threshold, decision>>

\* The models among which the information criterion decides: of an order up to the
\* limit of the data, with any contexts besides the empty one.
TrainedModels ==
  LET longest == CHOOSE n \in {Len(s) : s \in Range(fetched)} :
                   \A s \in Range(fetched) : Len(s) <= n
  IN UNION {{[order |-> k, retained |-> kept \cup {<<>>}] : kept \in SUBSET Counted(k)} :
              k \in 0 .. (IF longest > 1 THEN Least(MaxOrder, longest - 1) ELSE 0)}

Train ==
  /\ stage = "train" /\ stage' = "sign" /\ model' \in TrainedModels
  /\ UNCHANGED <<fetched, contract, benign, threshold, decision>>

\* Signing and storing may raise, and nothing of the contract is left then.
Sign ==
  /\ stage = "sign" /\ stage' \in {"save", "raised"}
  /\ UNCHANGED <<fetched, model, contract, benign, threshold, decision>>

SaveContract ==
  /\ stage = "save"
  /\ \/ stage' = "saved" /\ contract' = model
     \/ stage' = "raised" /\ UNCHANGED contract
  /\ UNCHANGED <<fetched, model, benign, threshold, decision>>

-----------------------------------------------------------------------------
(* Calibration *)

\* The windows that are long enough; the others are scored as no number.
Scored(windows) == Restrict(windows, {i \in DOMAIN windows : Len(windows[i].tokens) >= MinWindow})

ScoresOf(windows) == [i \in DOMAIN windows |-> Score(contract, windows[i])]

\* The score at place k of the sorted ones, counted from zero: no more than k are
\* below it, and more than k are not above it.
Ranked(scores, k) ==
  CHOOSE s \in Range(scores) :
    /\ Cardinality({i \in DOMAIN scores : Above(s, scores[i])}) <= k
    /\ Cardinality({i \in DOMAIN scores : ~Above(scores[i], s)}) > k

\* Faulty variant: the quantile is taken from the other end.
LowTail(n) == ((100 - Percent) * (n - 1)) \div 100

\* The place below the interpolated quantile, counted from zero.
Rank(n) == (Percent * (n - 1)) \div 100

\* _quantile lies between two neighbours, or on one.
Quantile(scores) ==
  LET n == Cardinality(DOMAIN scores)
      high == IF (Percent * (n - 1)) % 100 = 0 THEN Rank(n) ELSE Rank(n) + 1
  IN [low |-> Ranked(scores, Rank(n)), high |-> Ranked(scores, high)]

\* With too few windows the threshold is infinite.
ThresholdOf(windows) ==
  IF Cardinality(DOMAIN windows) < MinCalibration THEN None ELSE Quantile(ScoresOf(windows))

Calibrate ==
  /\ contract # None /\ decision = None
  /\ \E windows \in Calibrations : benign' = Scored(windows)
  /\ threshold' = ThresholdOf(benign')
  /\ UNCHANGED <<fetched, stage, model, contract, decision>>

-----------------------------------------------------------------------------
(* The decision *)

\* A score between the two may be on either side of the threshold.
Outcomes(seen, identified) ==
  IF ~identified \/ Total(fetched) < MinTraining \/ Len(seen.tokens) < MinWindow
    THEN {"insufficient_evidence"}
  ELSE IF threshold = None THEN {"no_drift"}
  ELSE LET s == Score(contract, seen)
       IN {o \in {"drift", "no_drift"} :
             o = (IF Above(s, threshold.high) THEN "drift" ELSE "no_drift")
             \/ (Above(s, threshold.low) /\ Above(threshold.high, s))}

Decide ==
  /\ contract # None
  /\ \E seen \in Observations, identified \in BOOLEAN :
     \E o \in Outcomes(seen, identified) :
       decision' = [seen |-> seen, identified |-> identified, outcome |-> o]
  /\ UNCHANGED <<fetched, stage, model, contract, benign, threshold>>

DriftNext == Fetch \/ Train \/ Sign \/ SaveContract \/ Calibrate \/ Decide

DriftSpec == DriftInit /\ [][DriftNext]_driftVars

-----------------------------------------------------------------------------
(* Properties *)

\* The score of a window whose tokens were all trained on is a divergence: it is
\* never negative, whatever order and contexts the criterion chose and whatever
\* suffix the contexts of the window fall back to.
KnownScoresAreDivergences ==
  contract # None =>
    \A n \in 1 .. MinWindow + 1 : \A w \in [1 .. n -> TokensOf(fetched)] :
      LET d == Divergence(contract, w) IN d[1] >= d[2]

\* Drift is reported only of an identified component whose contract was stored and
\* trained on enough, and of a long window that scores above all but the tail of
\* the long benign windows, of which there were enough; and a window that a
\* calibrated contract decides as no drift is not above all of these.
DriftIsAboveBenign ==
  decision # None =>
    LET s == Score(contract, decision.seen)
        below == {i \in DOMAIN benign : Above(s, Score(contract, benign[i]))}
        n == Cardinality(DOMAIN benign)
    IN /\ decision.outcome = "drift" =>
            /\ stage = "saved" /\ decision.identified /\ Total(fetched) >= MinTraining
            /\ \A i \in DOMAIN benign : Len(benign[i].tokens) >= MinWindow
            /\ Len(decision.seen.tokens) >= MinWindow /\ n >= MinCalibration
            /\ 100 * (Cardinality(below) - 1) >= Percent * (n - 1) - 99
       /\ decision.outcome = "no_drift" /\ n >= MinCalibration => Cardinality(below) < n

\* A decision rests on scores that mean something, and on the benign windows.
DecisionsAreSound == KnownScoresAreDivergences /\ DriftIsAboveBenign
=============================================================================
