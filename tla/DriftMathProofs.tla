--------------------------- MODULE DriftMathProofs ---------------------------
(***************************************************************************)
(* The invariants of DriftMath that hold for every bound on its inputs:    *)
(* those of a training, the bins of the reference, and the two rankings of *)
(* a report.  The state is one call, so that no invariant needs another:   *)
(* each is proved of the call that its action makes.                       *)
(***************************************************************************)
EXTENDS DriftMath, MathLemmas, SequenceTheorems

LEMMA CallsAreNamed ==
    /\ Init => call.fn = "idle"
    /\ Train => call'.fn = "train"
    /\ PsiResult => call'.fn = "psi"
    /\ Chi2Result => call'.fn = "chi2"
    /\ ComputeOutputDrift => call'.fn = "output"
    /\ BuildDriftReport => call'.fn = "report"
    /\ Return => call'.fn = "idle"
<1>1. Init => call.fn = "idle"
  BY DEF Init, Idle
<1>2. Train => call'.fn = "train"
  BY DEF Train
<1>3. PsiResult => call'.fn = "psi"
  BY DEF PsiResult
<1>4. Chi2Result => call'.fn = "chi2"
  BY DEF Chi2Result
<1>5. ComputeOutputDrift => call'.fn = "output"
  BY DEF ComputeOutputDrift
<1>6. BuildDriftReport => call'.fn = "report"
  BY DEF BuildDriftReport
<1>7. Return => call'.fn = "idle"
  BY DEF Return, Idle
<1> QED BY <1>1, <1>2, <1>3, <1>4, <1>5, <1>6, <1>7

-----------------------------------------------------------------------------
(* The counts on one sample.                                               *)

\* A sample of a part that has rows, some of them positive.
Sample(s) == \E rows \in Nat : \E pos \in 1 .. rows : s \in Samples(rows, pos)

LEMMA SampleType ==
    ASSUME NEW s, Sample(s)
    PROVE  /\ s.pos \in Nat \ {0}
           /\ \E rows \in Nat : s.pos <= rows /\ s.score \in [1 .. rows -> 0 .. Grid]
BY DEF Sample, Samples

\* Rows that are labelled one, and true positives, are numbers, and no more than
\* the positive rows are true positives.
LEMMA CountsType ==
    ASSUME NEW s, Sample(s), NEW t
    PROVE  /\ IsFiniteSet(LabelledOne(s, t))
           /\ Cardinality(LabelledOne(s, t)) \in Nat
           /\ TruePositives(s, t) \in 0 .. s.pos
<1>1. PICK rows \in Nat : s.pos <= rows /\ s.score \in [1 .. rows -> 0 .. Grid]
  BY SampleType
<1>2. s.pos \in Nat \ {0}
  BY SampleType
<1>3. IsFiniteSet(1 .. rows) /\ IsFiniteSet(1 .. s.pos) /\ Cardinality(1 .. s.pos) = s.pos
  BY <1>2, FS_Interval
<1>4. IsFiniteSet(LabelledOne(s, t))
  <2>1. LabelledOne(s, t) \subseteq 1 .. rows
    BY <1>1 DEF LabelledOne
  <2> QED BY <2>1, <1>3, FS_Subset
<1>5. TruePositives(s, t) \in 0 .. s.pos
  <2>1. /\ Cardinality(LabelledOne(s, t) \cap 1 .. s.pos) <= Cardinality(1 .. s.pos)
        /\ IsFiniteSet(LabelledOne(s, t) \cap 1 .. s.pos)
    BY <1>3, FS_Subset
  <2>2. Cardinality(LabelledOne(s, t) \cap 1 .. s.pos) \in Nat
    BY <2>1, FS_CardinalityType
  <2> QED BY <2>1, <2>2, <1>2, <1>3 DEF TruePositives
<1> QED BY <1>4, <1>5, FS_CardinalityType

\* The thresholds of the curve are scores.
LEMMA ThresholdsType ==
    ASSUME NEW s, Sample(s)
    PROVE  /\ Thresholds(s) \in SUBSET (0 .. Grid)
           /\ Thresholds(s) # {}
<1>1. PICK rows \in Nat : s.pos <= rows /\ s.score \in [1 .. rows -> 0 .. Grid]
  BY SampleType
<1>2. 1 \in DOMAIN s.score
  BY <1>1, SampleType
<1> QED BY <1>1, <1>2 DEF Thresholds

\* At the lowest score of the curve every positive row is labelled one.
LEMMA LowestIsEnough ==
    ASSUME NEW s, Sample(s)
    PROVE  EnoughRecall(s, Min(Thresholds(s)))
<1> DEFINE low == Min(Thresholds(s))
<1>1. PICK rows \in Nat : s.pos <= rows /\ s.score \in [1 .. rows -> 0 .. Grid]
  BY SampleType
<1>2. low \in 0 .. Grid /\ \A y \in Thresholds(s) : low <= y
  BY ThresholdsType, MinIsLeast, GridIsEven
<1>3. LabelledOne(s, low) \cap 1 .. s.pos = 1 .. s.pos
  <2>1. \A i \in 1 .. s.pos : i \in DOMAIN s.score /\ s.score[i] \in Thresholds(s)
    BY <1>1, SampleType DEF Thresholds
  <2>2. \A i \in 1 .. s.pos : s.score[i] >= low
    BY <1>2, <2>1
  <2> QED BY <2>1, <2>2 DEF LabelledOne
<1>4. TruePositives(s, low) = s.pos
  <2>1. Cardinality(1 .. s.pos) = s.pos
    BY SampleType, FS_Interval
  <2> QED BY <2>1, <1>3 DEF TruePositives
<1> QED BY <1>4, SampleType, RecallIsPercent DEF EnoughRecall

-----------------------------------------------------------------------------
(* find_threshold.                                                         *)

\* A threshold that finds enough of the positive rows is no higher than a score
\* that labels the same rows.
LEMMA NextScore ==
    ASSUME NEW s, Sample(s), NEW t \in Nat, EnoughRecall(s, t)
    PROVE  \E u \in Thresholds(s) : t <= u /\ EnoughRecall(s, u)
<1>1. PICK rows \in Nat : s.pos <= rows /\ s.score \in [1 .. rows -> 0 .. Grid]
  BY SampleType
<1> DEFINE above == {u \in Thresholds(s) : t <= u}
<1>2. above # {}
  <2>1. SUFFICES ASSUME above = {} PROVE FALSE
    OBVIOUS
  <2>2. \A i \in DOMAIN s.score : ~(s.score[i] >= t)
    BY <2>1, <1>1 DEF Thresholds
  <2>3. LabelledOne(s, t) \cap 1 .. s.pos = {}
    BY <2>2 DEF LabelledOne
  <2>4. TruePositives(s, t) = 0
    BY <2>3, FS_EmptySet DEF TruePositives
  <2>5. MinRecall * s.pos > 0
    BY SampleType, RecallIsPercent
  <2> QED BY <2>4, <2>5, SampleType, RecallIsPercent DEF EnoughRecall
<1>3. above \in SUBSET Nat
  BY ThresholdsType, GridIsEven
<1>4. PICK u \in above : \A v \in above : u <= v
  BY <1>2, <1>3, LeastMember
<1>5. LabelledOne(s, u) = LabelledOne(s, t)
  <2>1. ASSUME NEW i \in DOMAIN s.score PROVE s.score[i] >= u <=> s.score[i] >= t
    <3>1. s.score[i] \in Thresholds(s) /\ s.score[i] \in Nat /\ u \in Nat
      BY <1>1, <1>3, GridIsEven DEF Thresholds
    <3>2. s.score[i] >= t => s.score[i] >= u
      BY <3>1, <1>4
    <3> QED BY <3>1, <3>2
  <2> QED BY <2>1 DEF LabelledOne
<1>6. EnoughRecall(s, u)
  BY <1>5 DEF EnoughRecall, TruePositives
<1> QED BY <1>6

\* find_threshold never falls back on the best F1: the lowest score has enough
\* recall.  What it returns is the highest threshold of all that has it.
LEMMA FindThresholdIsHighest ==
    ASSUME NEW s, Sample(s)
    PROVE  /\ FindThreshold(s) \in Thresholds(s)
           /\ EnoughRecall(s, FindThreshold(s))
           /\ \A t \in Nat : EnoughRecall(s, t) => t <= FindThreshold(s)
<1> DEFINE enough == {t \in Thresholds(s) : EnoughRecall(s, t)}
<1>1. enough # {}
  BY LowestIsEnough, ThresholdsType, MinIsLeast, GridIsEven
<1>2. enough \in SUBSET (0 .. Grid) /\ enough \in SUBSET Nat /\ Grid \in Nat
  BY ThresholdsType, GridIsEven
<1>3. FindThreshold(s) = Max(enough)
  BY <1>1 DEF FindThreshold
<1> HIDE DEF enough
<1>4. FindThreshold(s) \in enough /\ \A u \in enough : u <= FindThreshold(s)
  BY <1>1, <1>2, <1>3, MaxIsLargest
<1>5. ASSUME NEW t \in Nat, EnoughRecall(s, t) PROVE t <= FindThreshold(s)
  <2>1. PICK u \in Thresholds(s) : t <= u /\ EnoughRecall(s, u)
    BY <1>5, NextScore
  <2>2. u \in enough
    BY <2>1 DEF enough
  <2>3. u <= FindThreshold(s)
    BY <2>2, <1>4
  <2>4. u \in Nat /\ FindThreshold(s) \in Nat
    BY <2>2, <1>2, <1>4
  <2> QED BY <2>1, <2>3, <2>4
<1> QED BY <1>4, <1>5 DEF enough

-----------------------------------------------------------------------------
(* The best candidate.                                                     *)

\* Rates with a positive denominator.
Rate == Nat \X (Nat \ {0})

LEMMA F1IsRate ==
    ASSUME NEW s, Sample(s), NEW t
    PROVE  F1(s, t) \in Rate
BY CountsType, SampleType DEF F1, Rate

LEMMA AtMostIsTotal ==
    ASSUME NEW p \in Rate, NEW q \in Rate
    PROVE  AtMost(p, q) \/ AtMost(q, p)
BY DEF AtMost, Rate

LEMMA AtMostIsTransitive ==
    ASSUME NEW p \in Rate, NEW q \in Rate, NEW r \in Rate, AtMost(p, q), AtMost(q, r)
    PROVE  AtMost(p, r)
<1> DEFINE a == p[1]  b == p[2]  c == q[1]  d == q[2]  e == r[1]  f == r[2]
<1>1. /\ a \in Nat /\ c \in Nat /\ e \in Nat
      /\ b \in Nat \ {0} /\ d \in Nat \ {0} /\ f \in Nat \ {0}
  BY DEF Rate
<1>2. a * d <= c * b /\ c * f <= e * d
  BY DEF AtMost
<1> HIDE DEF a, b, c, d, e, f
<1>3. (a * d) * f <= (c * b) * f
  BY <1>1, <1>2, ProductIsMonotonic
<1>4. (c * f) * b <= (e * d) * b
  BY <1>1, <1>2, ProductIsMonotonic
<1>5. (a * f) * d <= (e * b) * d
  <2>1. (a * d) * f = (a * f) * d /\ (c * b) * f = (c * f) * b /\ (e * d) * b = (e * b) * d
    BY <1>1
  <2> QED BY <2>1, <1>1, <1>3, <1>4
<1>6. a * f <= e * b
  <2>1. a * f \in Int /\ e * b \in Int
    BY <1>1
  <2> QED BY <2>1, <1>1, <1>5, ProductIsCancelled
<1> QED BY <1>6 DEF AtMost, a, b, e, f

\* Some candidate of the first n has the largest rate of them: the least n that
\* is a counterexample has a predecessor that is not.
LEMMA LargestRate ==
    ASSUME NEW f \in [1 .. Candidates -> Rate], NEW n \in 1 .. Candidates
    PROVE  \E c \in 1 .. n : \A d \in 1 .. n : AtMost(f[d], f[c])
<1> DEFINE Has(m) == \E c \in 1 .. m : \A d \in 1 .. m : AtMost(f[d], f[c])
           lacking == {m \in 1 .. Candidates : ~Has(m)}
<1>0. Candidates \in Nat \ {0}
  BY SomeCandidates
<1>1. SUFFICES ASSUME lacking # {} PROVE FALSE
  OBVIOUS
<1>2. PICK m \in lacking : \A k \in lacking : m <= k
  <2>1. lacking \in SUBSET Nat
    BY <1>0
  <2> HIDE DEF lacking
  <2> QED BY <1>1, <2>1, LeastMember
<1>3. m # 1
  <2>1. Has(1)
    BY <1>0, AtMostIsTotal
  <2> QED BY <2>1
<1>4. Has(m - 1)
  <2>1. SUFFICES ASSUME ~Has(m - 1) PROVE FALSE
    OBVIOUS
  <2>2. m - 1 \in 1 .. Candidates /\ m \in Nat
    BY <1>0, <1>3
  <2> HIDE DEF Has
  <2>3. m - 1 \in lacking
    BY <2>1, <2>2
  <2> QED BY <1>2, <2>2, <2>3
<1>5. PICK c \in 1 .. m - 1 : \A d \in 1 .. m - 1 : AtMost(f[d], f[c])
  BY <1>4
<1>6. f[c] \in Rate /\ f[m] \in Rate /\ \A d \in 1 .. m - 1 : f[d] \in Rate
  BY <1>0
<1>7. Has(m)
  <2>1. CASE AtMost(f[m], f[c])
    <3>1. c \in 1 .. m /\ \A d \in 1 .. m : AtMost(f[d], f[c])
      BY <2>1, <1>5, <1>0
    <3> QED BY <3>1
  <2>2. CASE AtMost(f[c], f[m])
    <3>1. \A d \in 1 .. m - 1 : AtMost(f[d], f[m])
      BY <2>2, <1>5, <1>6, AtMostIsTransitive
    <3>2. AtMost(f[m], f[m])
      BY <1>6, AtMostIsTotal
    <3>3. m \in 1 .. m /\ \A d \in 1 .. m : AtMost(f[d], f[m])
      BY <3>1, <3>2, <1>0
    <3> QED BY <3>3
  <2> QED BY <2>1, <2>2, <1>6, AtMostIsTotal
<1> QED BY <1>7

\* train returns a candidate, one whose F1 no other candidate exceeds.
LEMMA BestIsLargest ==
    ASSUME NEW results, DOMAIN results = 1 .. Candidates,
           \A c \in 1 .. Candidates : results[c].f1 \in Rate
    PROVE  /\ Best(results) \in 1 .. Candidates
           /\ \A d \in 1 .. Candidates :
                 AtMost(results[d].f1, results[Best(results)].f1)
<1> DEFINE f == [c \in 1 .. Candidates |-> results[c].f1]
           best == {c \in 1 .. Candidates :
                       \A d \in 1 .. Candidates : AtMost(results[d].f1, results[c].f1)}
<1>1. best # {}
  <2>1. Candidates \in 1 .. Candidates /\ f \in [1 .. Candidates -> Rate]
    BY SomeCandidates
  <2>2. PICK c \in 1 .. Candidates : \A d \in 1 .. Candidates : AtMost(f[d], f[c])
    BY <2>1, LargestRate
  <2> QED BY <2>2
<1>2. best \in SUBSET Nat
  BY SomeCandidates
<1>3. Best(results) = Min(best)
  BY DEF Best
<1> HIDE DEF best
<1>4. Best(results) \in best
  BY <1>1, <1>2, <1>3, MinIsLeast
<1> QED BY <1>4 DEF best

-----------------------------------------------------------------------------
(* The split.                                                              *)

\* A fifth of the data validates, so that both classes occur in it.
LEMMA ValidationIsAFifth ==
    ASSUME NEW n \in Nat, n % 5 = 0
    PROVE  5 * Split(n).val = n
<1>1. PICK k \in Nat : n = 5 * k
  <2>1. n = 5 * (n \div 5) + (n % 5) /\ n \div 5 \in Nat
    OBVIOUS
  <2> QED BY <2>1
<1>2. (2 * n + 4) \div 5 = 2 * k
  BY <1>1
<1>3. Half(2 * k) = k
  BY DEF Half
<1> QED BY <1>1, <1>2, <1>3 DEF Split

-----------------------------------------------------------------------------
(* train.                                                                  *)

\* The validation part of a stratified split is a sample for every candidate.
LEMMA ValidationIsSample ==
    ASSUME NEW d \in Datasets, NEW s \in Samples(Split(d[1]).val, Split(d[2]).val)
    PROVE  Sample(s)
<1>1. /\ d[1] \in Nat /\ d[2] \in Nat
      /\ d[1] % 5 = 0 /\ d[2] % 5 = 0 /\ 0 < d[2] /\ d[2] < d[1]
  BY DatasetsStratify
<1>2. 5 * Split(d[1]).val = d[1] /\ 5 * Split(d[2]).val = d[2]
  BY <1>1, ValidationIsAFifth
<1>3. Split(d[1]).val \in Int /\ Split(d[2]).val \in Int
  BY <1>1 DEF Split, Half
<1>4. Split(d[1]).val \in Nat /\ Split(d[2]).val \in 1 .. Split(d[1]).val
  BY <1>1, <1>2, <1>3
<1> QED BY <1>4 DEF Sample

\* What a training returns: the evaluation of a candidate on its own sample.
LEMMA TrainReturns ==
    ASSUME Train
    PROVE  /\ call'.best \in 1 .. Candidates
           /\ \A c \in 1 .. Candidates : Sample(call'.val[c])
           /\ call'.result = Evaluated(call'.val[call'.best])
           /\ \A c \in 1 .. Candidates :
                 AtMost(Evaluated(call'.val[c]).f1, call'.result.f1)
<1>0. PICK d \in Datasets :
        \E val \in [1 .. Candidates -> Samples(Split(d[1]).val, Split(d[2]).val)] :
           LET results == [c \in 1 .. Candidates |-> Evaluated(val[c])] IN
              call' = [fn |-> "train", val |-> val, best |-> Best(results),
                       result |-> results[Best(results)]]
  BY DEF Train
<1>1. PICK val \in [1 .. Candidates -> Samples(Split(d[1]).val, Split(d[2]).val)] :
        LET results == [c \in 1 .. Candidates |-> Evaluated(val[c])] IN
           call' = [fn |-> "train", val |-> val, best |-> Best(results),
                    result |-> results[Best(results)]]
  BY <1>0
<1> DEFINE results == [c \in 1 .. Candidates |-> Evaluated(val[c])]
<1>2. \A c \in 1 .. Candidates : Sample(val[c])
  BY ValidationIsSample
<1>3. \A c \in 1 .. Candidates : results[c].f1 \in Rate
  BY <1>2, F1IsRate DEF Evaluated
<1>4. /\ Best(results) \in 1 .. Candidates
      /\ \A c \in 1 .. Candidates : AtMost(results[c].f1, results[Best(results)].f1)
  BY <1>3, BestIsLargest
<1> QED BY <1>1, <1>2, <1>4

\* find_threshold: the threshold of a trained version has enough recall on the
\* validation part and no higher one has, whatever the candidates score, however
\* fine the scores and however large the parts are.
THEOREM ThresholdsAreHighest == Spec => []ThresholdIsHighest
<1>1. Init => ThresholdIsHighest
  BY CallsAreNamed DEF ThresholdIsHighest
<1>2. ASSUME ThresholdIsHighest, [Next]_call PROVE ThresholdIsHighest'
  <2>1. CASE Train
    <3> DEFINE s == call'.val[call'.best]
    <3>1. Sample(s) /\ call'.result.threshold = FindThreshold(s)
      BY <2>1, TrainReturns DEF Evaluated
    <3>2. /\ EnoughRecall(s, FindThreshold(s))
          /\ \A t \in Nat : EnoughRecall(s, t) => t <= FindThreshold(s)
      BY <3>1, FindThresholdIsHighest
    <3>3. 0 .. Grid + 1 \subseteq Nat
      BY GridIsEven
    <3> QED BY <3>1, <3>2, <3>3 DEF ThresholdIsHighest, EnoughRecall
  <2>2. CASE UNCHANGED call
    BY <1>2, <2>2 DEF ThresholdIsHighest
  <2>3. CASE PsiResult \/ Chi2Result \/ ComputeOutputDrift \/ BuildDriftReport \/ Return
    BY <2>3, CallsAreNamed DEF ThresholdIsHighest
  <2> QED BY <1>2, <2>1, <2>2, <2>3 DEF Next
<1> QED BY <1>1, <1>2, PTL DEF Spec

\* train and the third gate of the promotion: the recall tagged on a version is
\* at least the minimum, and no candidate at its own threshold has a higher F1.
THEOREM TrainedModelsPassTheGate == Spec => []TrainedModelPassesGate
<1>1. Init => TrainedModelPassesGate
  BY CallsAreNamed DEF TrainedModelPassesGate
<1>2. ASSUME TrainedModelPassesGate, [Next]_call PROVE TrainedModelPassesGate'
  <2>1. CASE Train
    <3> DEFINE s == call'.val[call'.best]
               t == FindThreshold(s)
    <3>1. Sample(s) /\ call'.result.recall = Recall(s, t)
      BY <2>1, TrainReturns DEF Evaluated
    <3>2. EnoughRecall(s, t)
      BY <3>1, FindThresholdIsHighest
    <3>3. AtMost(<<MinRecall, 100>>, Recall(s, t))
      <4>1. 100 * TruePositives(s, t) >= MinRecall * s.pos
        BY <3>2 DEF EnoughRecall
      <4>2. TruePositives(s, t) \in Nat /\ s.pos \in Nat /\ MinRecall \in Nat
        BY <3>1, CountsType, SampleType, RecallIsPercent
      <4>3. MinRecall * s.pos <= TruePositives(s, t) * 100
        BY <4>1, <4>2
      <4> QED BY <4>3 DEF AtMost, Recall
    <3>4. \A c \in 1 .. Candidates :
             AtMost(F1(call'.val[c], FindThreshold(call'.val[c])), call'.result.f1)
      BY <2>1, TrainReturns DEF Evaluated
    <3> QED BY <3>1, <3>3, <3>4 DEF TrainedModelPassesGate
  <2>2. CASE UNCHANGED call
    BY <1>2, <2>2 DEF TrainedModelPassesGate
  <2>3. CASE PsiResult \/ Chi2Result \/ ComputeOutputDrift \/ BuildDriftReport \/ Return
    BY <2>3, CallsAreNamed DEF TrainedModelPassesGate
  <2> QED BY <1>2, <2>1, <2>2, <2>3 DEF Next
<1> QED BY <1>1, <1>2, PTL DEF Spec

-----------------------------------------------------------------------------
(* sorted(...)[:n]: every item has a place of its own.                     *)

Keys(n) == [1 .. n -> Int \X Int]

Ahead(keys, i) == {j \in DOMAIN keys : Before(keys, j, i)}

LEMMA BeforeIsOrder ==
    ASSUME NEW n \in Nat, NEW keys \in Keys(n),
           NEW i \in 1 .. n, NEW j \in 1 .. n, NEW k \in 1 .. n
    PROVE  /\ ~Before(keys, i, i)
           /\ Before(keys, i, j) /\ Before(keys, j, k) => Before(keys, i, k)
           /\ i # j => Before(keys, i, j) \/ Before(keys, j, i)
<1>1. /\ keys[i] = <<keys[i][1], keys[i][2]>> /\ keys[i][1] \in Int /\ keys[i][2] \in Int
      /\ keys[j] = <<keys[j][1], keys[j][2]>> /\ keys[j][1] \in Int /\ keys[j][2] \in Int
      /\ keys[k] = <<keys[k][1], keys[k][2]>> /\ keys[k][1] \in Int /\ keys[k][2] \in Int
  BY DEF Keys
<1> QED BY <1>1 DEF Before, Larger

LEMMA PlaceType ==
    ASSUME NEW n \in Nat, NEW keys \in Keys(n), NEW i \in 1 .. n
    PROVE  /\ Ahead(keys, i) \in SUBSET (1 .. n \ {i})
           /\ IsFiniteSet(Ahead(keys, i))
           /\ Cardinality(Ahead(keys, i)) \in Nat
           /\ Place(keys, i) = 1 + Cardinality(Ahead(keys, i))
           /\ Place(keys, i) \in 1 .. n
<1>1. Ahead(keys, i) \in SUBSET (1 .. n \ {i})
  BY BeforeIsOrder DEF Ahead, Keys
<1>2. IsFiniteSet(1 .. n) /\ Cardinality(1 .. n) = n
  BY FS_Interval
<1>3. IsFiniteSet(1 .. n \ {i}) /\ Cardinality(1 .. n \ {i}) = n - 1
  BY <1>2, FS_RemoveElement
<1>4. IsFiniteSet(Ahead(keys, i)) /\ Cardinality(Ahead(keys, i)) <= n - 1
  BY <1>1, <1>3, FS_Subset
<1>5. Cardinality(Ahead(keys, i)) \in Nat
  BY <1>4, FS_CardinalityType
<1>6. Place(keys, i) = 1 + Cardinality(Ahead(keys, i))
  BY DEF Place, Ahead
<1> QED BY <1>1, <1>4, <1>5, <1>6

\* An item comes before another if and only if its place does.
LEMMA PlacesAreOrdered ==
    ASSUME NEW n \in Nat, NEW keys \in Keys(n), NEW i \in 1 .. n, NEW j \in 1 .. n,
           Before(keys, j, i)
    PROVE  Place(keys, j) < Place(keys, i)
<1>1. Ahead(keys, j) \in SUBSET Ahead(keys, i)
  BY BeforeIsOrder DEF Ahead, Keys
<1>2. j \in Ahead(keys, i) /\ j \notin Ahead(keys, j)
  BY BeforeIsOrder DEF Ahead, Keys
<1>3. Cardinality(Ahead(keys, j)) # Cardinality(Ahead(keys, i))
  BY <1>1, <1>2, PlaceType, FS_Subset
<1>4. Cardinality(Ahead(keys, j)) <= Cardinality(Ahead(keys, i))
  BY <1>1, PlaceType, FS_Subset
<1> QED BY <1>3, <1>4, PlaceType

LEMMA PlacesAreFilled ==
    ASSUME NEW n \in Nat, NEW keys \in Keys(n), NEW k \in 1 .. n
    PROVE  \E i \in 1 .. n : Place(keys, i) = k
<1> DEFINE f == [i \in 1 .. n |-> Place(keys, i)]
<1>1. f \in [1 .. n -> 1 .. n]
  BY PlaceType
<1>2. ASSUME NEW i \in 1 .. n, NEW j \in 1 .. n, i # j PROVE f[i] # f[j]
  <2>1. Before(keys, i, j) \/ Before(keys, j, i)
    BY <1>2, BeforeIsOrder
  <2>2. Place(keys, i) < Place(keys, j) \/ Place(keys, j) < Place(keys, i)
    BY <2>1, PlacesAreOrdered
  <2> QED BY <2>2, PlaceType
<1> HIDE DEF f
<1>3. f \in Injection(1 .. n, 1 .. n)
  BY <1>1, <1>2 DEF Injection, IsInjective
<1>4. IsFiniteSet(1 .. n)
  BY FS_Interval
<1>5. f \in Surjection(1 .. n, 1 .. n)
  BY <1>3, <1>4, FS_Injection
<1>6. PICK i \in 1 .. n : f[i] = k
  BY <1>5 DEF Surjection
<1> QED BY <1>6 DEF f

\* A list shows the first m of n items: at each place up to m the item with that
\* place, and every item whose place is no larger than m.
Shows(list, m, n, items, keys) ==
    /\ DOMAIN list = {k \in 1 .. n : k <= m}
    /\ \A k \in DOMAIN list : \E i \in 1 .. n : Place(keys, i) = k /\ list[k] = items[i]
    /\ \A i \in 1 .. n : Place(keys, i) <= m => list[Place(keys, i)] = items[i]

LEMMA FirstIsByPlace ==
    ASSUME NEW m \in Nat, NEW n \in Nat, NEW keys \in Keys(n),
           NEW items, DOMAIN items = 1 .. n, Len(items) = n
    PROVE  Shows(First(m, items, keys), m, n, items, keys)
<1> DEFINE shown == {k \in 1 .. n : k <= m}
           At(k) == CHOOSE i \in 1 .. n : Place(keys, i) = k
<1>1. 1 .. Min({m, n}) = shown
  <2>1. Min({m, n}) = IF m <= n THEN m ELSE n
    BY MinIsLeast
  <2> QED BY <2>1
<1>2. First(m, items, keys) = [k \in shown |-> items[At(k)]]
  <2>1. First(m, items, keys) = [k \in 1 .. Min({m, n}) |-> items[At(k)]]
    BY DEF First
  <2> HIDE DEF At, shown
  <2> QED BY <1>1, <2>1
<1>3. \A k \in 1 .. n : At(k) \in 1 .. n /\ Place(keys, At(k)) = k
  BY PlacesAreFilled
<1>4. ASSUME NEW i \in 1 .. n PROVE At(Place(keys, i)) = i
  <2> DEFINE j == At(Place(keys, i))
  <2>1. j \in 1 .. n /\ Place(keys, j) = Place(keys, i)
    BY <1>3, PlaceType
  <2> HIDE DEF j
  <2>2. ASSUME j # i PROVE FALSE
    <3>1. Before(keys, i, j) \/ Before(keys, j, i)
      BY <2>1, <2>2, BeforeIsOrder
    <3>2. Place(keys, i) < Place(keys, j) \/ Place(keys, j) < Place(keys, i)
      BY <2>1, <3>1, PlacesAreOrdered
    <3> QED BY <2>1, <3>2, PlaceType
  <2> QED BY <2>2 DEF j
<1> HIDE DEF At
<1>5. \A i \in 1 .. n : Place(keys, i) \in 1 .. n
  BY PlaceType
<1>6. \A k \in shown : First(m, items, keys)[k] = items[At(k)]
  BY <1>2
<1>7. DOMAIN First(m, items, keys) = shown
  BY <1>2
<1>8. \A i \in 1 .. n : Place(keys, i) <= m =>
         First(m, items, keys)[Place(keys, i)] = items[i]
  BY <1>4, <1>5, <1>6
<1> QED BY <1>3, <1>6, <1>7, <1>8 DEF Shows

-----------------------------------------------------------------------------
(* Severities, and the two rankings of the same results.                   *)

Severities == {"low", "medium", "high"}
Result == [metric : {"psi", "chi2"}, value : Nat, p : Int]
Rank(r) == SeverityRank[SeverityOf(r)]

LEMMA SeverityType ==
    /\ \A r : SeverityOf(r) \in Severities
    /\ DOMAIN SeverityRank = Severities
    /\ \A s \in Severities : SeverityRank[s] \in Nat
    /\ \A s, t \in Severities : SeverityRank[s] = SeverityRank[t] => s = t
<1>1. \A r : SeverityOf(r) \in Severities
  BY DEF SeverityOf, PsiSeverity, Severities
<1>2. DOMAIN SeverityRank = Severities
  BY DEF SeverityRank, Severities
<1>3. /\ SeverityRank["low"] = 0
      /\ SeverityRank["medium"] = 1
      /\ SeverityRank["high"] = 2
  BY DEF SeverityRank
<1> QED BY <1>1, <1>2, <1>3 DEF Severities

LEMMA RankType ==
    /\ \A r : Rank(r) \in Nat
    /\ \A r, q : Rank(r) = Rank(q) <=> SeverityOf(r) = SeverityOf(q)
    /\ \A r, q : Worse(SeverityOf(r), SeverityOf(q)) <=> Rank(r) > Rank(q)
BY SeverityType DEF Rank, Worse

\* Both rankings sort by severity first.
RankedBySeverity(keys, items) ==
    /\ keys \in Keys(Len(items))
    /\ \A i \in 1 .. Len(items) : keys[i][1] = Rank(items[i])

LEMMA BothRankBySeverity ==
    ASSUME NEW items \in Seq(Result)
    PROVE  /\ RankedBySeverity(WebhookKeys(items), items)
           /\ RankedBySeverity(DashboardKeys(items), items)
<1>1. Len(items) \in Nat /\ DOMAIN items = 1 .. Len(items)
  BY LenProperties
<1>2. ASSUME NEW i \in 1 .. Len(items)
      PROVE  /\ items[i].value \in Int /\ Strength(items[i]) \in Int
             /\ Rank(items[i]) \in Int
  <2>1. items[i] \in Result
    BY <1>1, ElementOfSeq
  <2>2. items[i].value \in Nat /\ items[i].p \in Int
    BY <2>1 DEF Result
  <2> QED BY <2>2, RankType DEF Strength
<1>3. WebhookKeys(items) = [i \in 1 .. Len(items) |-> <<Rank(items[i]), items[i].value>>]
  BY <1>1 DEF WebhookKeys, Rank
<1>4. DashboardKeys(items) =
        [i \in 1 .. Len(items) |-> <<Rank(items[i]), Strength(items[i])>>]
  BY <1>1 DEF DashboardKeys, Rank
<1> QED BY <1>2, <1>3, <1>4 DEF RankedBySeverity, Keys

\* A more severe result has the smaller place.
LEMMA SevereFirst ==
    ASSUME NEW items \in Seq(Result), NEW keys, RankedBySeverity(keys, items),
           NEW i \in 1 .. Len(items), NEW j \in 1 .. Len(items),
           Place(keys, i) <= Place(keys, j)
    PROVE  Rank(items[i]) >= Rank(items[j])
<1>1. Len(items) \in Nat /\ keys \in Keys(Len(items))
  BY LenProperties DEF RankedBySeverity
<1>2. SUFFICES ASSUME Rank(items[j]) > Rank(items[i]) PROVE FALSE
  BY RankType
<1>3. Before(keys, j, i)
  BY <1>2 DEF RankedBySeverity, Before, Larger
<1>4. Place(keys, j) < Place(keys, i)
  BY <1>1, <1>3, PlacesAreOrdered
<1> QED BY <1>1, <1>4, PlaceType

\* As many results are as severe as the one at a place, or more severe, as the
\* place says or more: in another ranking a less severe one is further down.
LEMMA LessSevereIsLower ==
    ASSUME NEW items \in Seq(Result),
           NEW keys, RankedBySeverity(keys, items),
           NEW other, RankedBySeverity(other, items),
           NEW i \in 1 .. Len(items), NEW j \in 1 .. Len(items),
           Rank(items[i]) > Rank(items[j])
    PROVE  Place(keys, i) < Place(other, j)
<1> DEFINE n == Len(items)
           severe == {x \in 1 .. n : Rank(items[x]) >= Rank(items[i])}
<1>1. n \in Nat /\ keys \in Keys(n) /\ other \in Keys(n)
  BY LenProperties DEF RankedBySeverity
<1>2. IsFiniteSet(severe) /\ Cardinality(severe) \in Nat
  <2>1. IsFiniteSet(1 .. n)
    BY <1>1, FS_Interval
  <2> QED BY <2>1, FS_Subset, FS_CardinalityType
<1>3. Cardinality(Ahead(keys, i)) < Cardinality(severe)
  <2>1. Ahead(keys, i) \in SUBSET (severe \ {i})
    <3>1. ASSUME NEW x \in Ahead(keys, i) PROVE x \in severe /\ x # i
      <4>1. x \in 1 .. n /\ x # i /\ Before(keys, x, i)
        BY <1>1, PlaceType DEF Ahead
      <4>2. keys[x][1] \in Int /\ keys[i][1] \in Int
        BY <1>1, <4>1 DEF Keys
      <4>3. keys[x][1] >= keys[i][1]
        BY <4>1, <4>2 DEF Before, Larger
      <4> QED BY <4>1, <4>3 DEF RankedBySeverity
    <3> QED BY <3>1
  <2>2. i \in severe
    BY RankType
  <2>3. IsFiniteSet(severe \ {i}) /\ Cardinality(severe \ {i}) = Cardinality(severe) - 1
    BY <1>2, <2>2, FS_RemoveElement
  <2>4. Cardinality(Ahead(keys, i)) <= Cardinality(severe) - 1
    BY <2>1, <2>3, FS_Subset
  <2>5. Cardinality(Ahead(keys, i)) \in Nat
    BY <1>1, PlaceType
  <2> QED BY <1>2, <2>4, <2>5
<1>4. Cardinality(severe) <= Cardinality(Ahead(other, j))
  <2>1. ASSUME NEW x \in severe PROVE x \in Ahead(other, j)
    <3>1. other[x][1] > other[j][1]
      BY RankType DEF RankedBySeverity
    <3> QED BY <1>1, <3>1 DEF Ahead, Before, Larger, Keys
  <2> QED BY <2>1, <1>1, PlaceType, FS_Subset
<1> HIDE DEF severe
<1>5. /\ Place(keys, i) = 1 + Cardinality(Ahead(keys, i))
      /\ Place(other, j) = 1 + Cardinality(Ahead(other, j))
      /\ Cardinality(Ahead(keys, i)) \in Nat /\ Cardinality(Ahead(other, j)) \in Nat
  BY <1>1, PlaceType
<1> QED BY <1>2, <1>3, <1>4, <1>5

\* The worst of some severities: one of them, and none of them is worse.
LEMMA AggregateIsWorst ==
    ASSUME NEW S \in SUBSET Severities, S # {}
    PROVE  /\ AggregateSeverity(S) \in S
           /\ \A t \in S : SeverityRank[t] <= SeverityRank[AggregateSeverity(S)]
<1>1. /\ SeverityRank["low"] = 0
      /\ SeverityRank["medium"] = 1
      /\ SeverityRank["high"] = 2
  BY DEF SeverityRank
<1>2. \E s \in S : \A t \in S : ~Worse(t, s)
  <2>1. CASE "high" \in S
    BY <1>1, <2>1 DEF Worse, Severities
  <2>2. CASE "high" \notin S /\ "medium" \in S
    BY <1>1, <2>2 DEF Worse, Severities
  <2>3. CASE "high" \notin S /\ "medium" \notin S
    <3>1. S = {"low"}
      BY <2>3 DEF Severities
    <3> QED BY <1>1, <3>1 DEF Worse
  <2> QED BY <2>1, <2>2, <2>3
<1>3. AggregateSeverity(S) \in S /\ \A t \in S : ~Worse(t, AggregateSeverity(S))
  BY <1>2 DEF AggregateSeverity
<1> QED BY <1>3, SeverityType DEF Worse

LEMMA ReportReturns ==
    ASSUME BuildDriftReport
    PROVE  /\ call'.features \in Seq(Result)
           /\ call'.output \in Severities
           /\ call'.severity
                = AggregateSeverity(SeveritiesIn(call'.features) \cup {call'.output})
           /\ call'.webhook = First(Top, call'.features, WebhookKeys(call'.features))
           /\ call'.dashboard
                = First(DashboardTop, call'.features, DashboardKeys(call'.features))
<1>1. PICK psi \in UNION {[1 .. n -> PsiResults] : n \in 0 .. 2},
           chi2 \in UNION {[1 .. n -> Chi2Results] : n \in 0 .. 2},
           output \in DOMAIN SeverityRank :
             LET features == psi \o chi2
                 all == {SeverityOf(features[i]) : i \in DOMAIN features}
             IN  call' = [fn |-> "report", features |-> features, output |-> output,
                          severity |-> AggregateSeverity(all \cup {output}),
                          webhook |-> First(Top, features, WebhookKeys(features)),
                          dashboard |-> First(DashboardTop, features,
                                              DashboardKeys(features))]
  BY DEF BuildDriftReport
<1>2. PsiResults \subseteq Result /\ Chi2Results \subseteq Result
  BY DEF PsiResults, Chi2Results, Result
<1>3. psi \in Seq(Result)
  <2>1. PICK n \in 0 .. 2 : psi \in [1 .. n -> PsiResults]
    OBVIOUS
  <2>2. psi \in [1 .. n -> Result] /\ n \in Nat
    BY <2>1, <1>2
  <2> QED BY <2>2
<1>4. chi2 \in Seq(Result)
  <2>1. PICK n \in 0 .. 2 : chi2 \in [1 .. n -> Chi2Results]
    OBVIOUS
  <2>2. chi2 \in [1 .. n -> Result] /\ n \in Nat
    BY <2>1, <1>2
  <2> QED BY <2>2
<1>5. psi \o chi2 \in Seq(Result)
  BY <1>3, <1>4, ConcatProperties
<1>6. output \in Severities
  BY SeverityType
<1> HIDE DEF Result
<1> QED BY <1>1, <1>5, <1>6 DEF SeveritiesIn

\* report_to_webhook and top_drift_features: for every bound on the two lists they
\* show the same severities, place by place.
THEOREM RankingsAgree == Spec => []ViewsAgree
<1>1. Init => ViewsAgree
  BY CallsAreNamed DEF ViewsAgree
<1>2. ASSUME ViewsAgree, [Next]_call PROVE ViewsAgree'
  <2>1. CASE BuildDriftReport
    <3> DEFINE items == call'.features
               w == WebhookKeys(items)
               d == DashboardKeys(items)
    <3>1. /\ items \in Seq(Result)
          /\ call'.webhook = First(Top, items, w)
          /\ call'.dashboard = First(DashboardTop, items, d)
      BY <2>1, ReportReturns
    <3>2. RankedBySeverity(w, items) /\ RankedBySeverity(d, items)
      BY <3>1, BothRankBySeverity
    <3> HIDE DEF items, w, d
    <3>0. Top \in Nat /\ DashboardTop \in Nat
      BY BinsAndTops
    <3>3. PICK n \in Nat : Len(items) = n /\ DOMAIN items = 1 .. n
      BY <3>1, LenProperties
    <3>4. w \in Keys(n) /\ d \in Keys(n)
      BY <3>2, <3>3 DEF RankedBySeverity
    <3>5. /\ Shows(call'.webhook, Top, n, items, w)
          /\ Shows(call'.dashboard, DashboardTop, n, items, d)
      BY <3>0, <3>1, <3>3, <3>4, FirstIsByPlace
    <3>6. ASSUME NEW k \in DOMAIN call'.webhook \cap DOMAIN call'.dashboard
          PROVE  SeverityOf(call'.webhook[k]) = SeverityOf(call'.dashboard[k])
      <4>1. PICK i \in 1 .. n : Place(w, i) = k /\ call'.webhook[k] = items[i]
        BY <3>5 DEF Shows
      <4>2. PICK j \in 1 .. n : Place(d, j) = k /\ call'.dashboard[k] = items[j]
        BY <3>5 DEF Shows
      <4>3. ~(Rank(items[i]) > Rank(items[j])) /\ ~(Rank(items[j]) > Rank(items[i]))
        <5>1. k \in Nat
          BY <3>5 DEF Shows
        <5>2. ASSUME Rank(items[i]) > Rank(items[j]) PROVE FALSE
          BY <3>1, <3>2, <3>3, <4>1, <4>2, <5>1, <5>2, LessSevereIsLower
        <5>3. ASSUME Rank(items[j]) > Rank(items[i]) PROVE FALSE
          BY <3>1, <3>2, <3>3, <4>1, <4>2, <5>1, <5>3, LessSevereIsLower
        <5> QED BY <5>2, <5>3
      <4>4. Rank(items[i]) = Rank(items[j])
        BY <4>3, RankType
      <4> QED BY <4>1, <4>2, <4>4, RankType
    <3> QED BY <3>6 DEF ViewsAgree
  <2>2. CASE UNCHANGED call
    BY <1>2, <2>2 DEF ViewsAgree
  <2>3. CASE Train \/ PsiResult \/ Chi2Result \/ ComputeOutputDrift \/ Return
    BY <2>3, CallsAreNamed DEF ViewsAgree
  <2> QED BY <1>2, <2>1, <2>2, <2>3 DEF Next
<1> QED BY <1>1, <1>2, PTL DEF Spec

\* build_drift_report and report_to_webhook: for every length of the webhook the
\* severity of a report is explained by a feature of the webhook or by the output
\* alone, and nothing left out is more severe than what is in.
THEOREM WebhooksExplainSeverity == Spec => []WebhookExplainsSeverity
<1>1. Init => WebhookExplainsSeverity
  BY CallsAreNamed DEF WebhookExplainsSeverity
<1>2. ASSUME WebhookExplainsSeverity, [Next]_call PROVE WebhookExplainsSeverity'
  <2>1. CASE BuildDriftReport
    <3> DEFINE items == call'.features
               keys == WebhookKeys(items)
               webhook == call'.webhook
               output == call'.output
               all == SeveritiesIn(items)
    <3>1. /\ items \in Seq(Result) /\ output \in Severities
          /\ webhook = First(Top, items, keys)
          /\ call'.severity = AggregateSeverity(all \cup {output})
      BY <2>1, ReportReturns
    <3>2. RankedBySeverity(keys, items)
      BY <3>1, BothRankBySeverity
    <3>3. PICK n \in Nat : Len(items) = n /\ DOMAIN items = 1 .. n
      BY <3>1, LenProperties
    <3>4. keys \in Keys(n)
      BY <3>2, <3>3 DEF RankedBySeverity
    <3>5. all = {SeverityOf(items[i]) : i \in 1 .. n}
      BY <3>3 DEF SeveritiesIn
    <3> HIDE DEF items, keys, webhook, output, all
    <3>6. Top \in Nat \ {0}
      BY BinsAndTops
    <3>7. Shows(webhook, Top, n, items, keys)
      BY <3>1, <3>3, <3>4, <3>6, FirstIsByPlace
    <3>8. \A i \in 1 .. n : Place(keys, i) \in 1 .. n
      BY <3>4, PlaceType
    <3>9. ASSUME NEW i \in 1 .. n
          PROVE  \/ \E k \in DOMAIN webhook : webhook[k] = items[i]
                 \/ \A k \in DOMAIN webhook :
                       ~Worse(SeverityOf(items[i]), SeverityOf(webhook[k]))
      <4>1. CASE Place(keys, i) <= Top
        BY <4>1, <3>7, <3>8 DEF Shows
      <4>2. CASE Place(keys, i) > Top
        <5>1. ASSUME NEW k \in DOMAIN webhook
              PROVE  ~Worse(SeverityOf(items[i]), SeverityOf(webhook[k]))
          <6>1. k \in 1 .. n /\ k <= Top
            BY <3>7 DEF Shows
          <6>2. PICK j \in 1 .. n : Place(keys, j) = k /\ webhook[k] = items[j]
            BY <3>7 DEF Shows
          <6>3. Place(keys, j) <= Place(keys, i)
            BY <4>2, <3>6, <3>8, <6>1, <6>2
          <6>4. Rank(items[j]) >= Rank(items[i])
            BY <3>1, <3>2, <3>3, <6>3, SevereFirst
          <6> QED BY <6>2, <6>4, RankType
        <5> QED BY <5>1
      <4> QED BY <4>1, <4>2, <3>6, <3>8
    <3>10. ASSUME ~(\A s \in all : Worse(output, s))
           PROVE  call'.severity \in SeveritiesIn(webhook)
      <4> DEFINE worst == AggregateSeverity(all \cup {output})
      <4>1. all \subseteq Severities
        BY <3>5, SeverityType
      <4>2. /\ worst \in all \cup {output}
            /\ \A t \in all \cup {output} : SeverityRank[t] <= SeverityRank[worst]
        BY <3>1, <4>1, AggregateIsWorst
      <4> HIDE DEF worst
      <4>3. worst \in all
        <5>1. PICK s \in all : ~Worse(output, s)
          BY <3>10
        <5>2. worst = output => SeverityRank[s] = SeverityRank[output]
          BY <3>1, <4>1, <4>2, <5>1, SeverityType DEF Worse
        <5> QED BY <3>1, <4>1, <4>2, <5>1, <5>2, SeverityType
      <4>4. PICK i \in 1 .. n : worst = SeverityOf(items[i])
        BY <3>5, <4>3
      <4>5. 1 \in DOMAIN webhook
        BY <3>6, <3>7 DEF Shows
      <4>6. PICK j \in 1 .. n : Place(keys, j) = 1 /\ webhook[1] = items[j]
        BY <3>7, <4>5 DEF Shows
      <4>7. Rank(items[j]) >= Rank(items[i])
        <5>1. Place(keys, j) <= Place(keys, i)
          BY <3>8, <4>6
        <5> QED BY <3>1, <3>2, <3>3, <5>1, SevereFirst
      <4>8. Rank(items[i]) >= Rank(items[j])
        <5>1. SeverityOf(items[j]) \in all
          BY <3>5
        <5> QED BY <4>2, <4>4, <5>1 DEF Rank
      <4>9. worst = SeverityOf(webhook[1])
        BY <4>4, <4>6, <4>7, <4>8, RankType
      <4> QED BY <3>1, <4>5, <4>9 DEF SeveritiesIn, worst
    <3>11. ASSUME \A s \in all : Worse(output, s)
           PROVE  call'.severity = output
      <4>1. all \subseteq Severities
        BY <3>5, SeverityType
      <4> DEFINE worst == AggregateSeverity(all \cup {output})
      <4>2. /\ worst \in all \cup {output}
            /\ SeverityRank[output] <= SeverityRank[worst]
        BY <3>1, <4>1, AggregateIsWorst
      <4> HIDE DEF worst
      <4>3. worst \notin all
        BY <3>1, <3>11, <4>1, <4>2, SeverityType DEF Worse
      <4> QED BY <3>1, <4>2, <4>3 DEF worst
    <3> QED BY <3>3, <3>9, <3>10, <3>11
            DEF WebhookExplainsSeverity, items, webhook, output, all
  <2>2. CASE UNCHANGED call
    BY <1>2, <2>2 DEF WebhookExplainsSeverity
  <2>3. CASE Train \/ PsiResult \/ Chi2Result \/ ComputeOutputDrift \/ Return
    BY <2>3, CallsAreNamed DEF WebhookExplainsSeverity
  <2> QED BY <1>2, <2>1, <2>2, <2>3 DEF Next
<1> QED BY <1>1, <1>2, PTL DEF Spec

-----------------------------------------------------------------------------
(* The edges of the bins.                                                  *)

LEMMA SortedIsMonotonic ==
    ASSUME NEW n \in Nat, NEW s \in Sorted(n), NEW a \in 1 .. n, NEW b \in a .. n
    PROVE  s[a] <= s[b]
<1> DEFINE lower == {j \in a .. n : s[a] > s[j]}
<1>1. \A i \in 1 .. n : s[i] \in Nat
  BY InputsAreNat DEF Sorted
<1>2. SUFFICES ASSUME lower # {} PROVE FALSE
  BY <1>1
<1>3. PICK j \in lower : \A i \in lower : j <= i
  <2>1. lower \in SUBSET Nat
    OBVIOUS
  <2> HIDE DEF lower
  <2> QED BY <1>2, <2>1, LeastMember
<1>4. j # a
  BY <1>1
<1>5. j - 1 \in a .. n /\ j - 1 \in 1 .. n - 1
  BY <1>4
<1>6. j - 1 \notin lower
  BY <1>3, <1>5
<1>7. s[j - 1] <= s[j]
  <2>1. s[j - 1] <= s[(j - 1) + 1]
    BY <1>5 DEF Sorted
  <2> QED BY <2>1
<1> QED BY <1>1, <1>5, <1>6, <1>7

Monotone(s, n) ==
    /\ s \in [1 .. n -> Nat]
    /\ \A i, j \in 1 .. n : i <= j => s[i] <= s[j]

LastOfValue(s, n, i) == i = n \/ s[i] < s[i + 1]

\* The k-th edge is not above the i-th value, the last of those equal to it, if and
\* only if it lies among the first i values.
LEMMA EdgeBelow ==
    ASSUME NEW n \in Nat \ {0}, NEW s, Monotone(s, n), Len(s) = n,
           NEW bins \in Nat \ {0}, NEW k \in 1 .. bins - 1,
           NEW i \in 1 .. n, LastOfValue(s, n, i)
    PROVE  Quantile(s, k, bins) <= bins * s[i] <=> (n - 1) * k <= bins * (i - 1)
<1> DEFINE pos == (n - 1) * k
           q == pos \div bins
           r == pos % bins
           lo == q + 1
           step == IF lo < n THEN s[lo + 1] - s[lo] ELSE 0
<1>1. pos \in Nat /\ pos <= bins * (n - 1)
  <2>1. n - 1 \in Nat /\ k \in Nat /\ k <= bins
    OBVIOUS
  <2>2. k * (n - 1) <= bins * (n - 1)
    BY <2>1, ProductIsMonotonic
  <2> QED BY <2>1, <2>2
<1>2. q \in Nat /\ r \in 0 .. bins - 1 /\ pos = bins * q + r
  BY <1>1, Division
<1>3. Quantile(s, k, bins) = bins * s[lo] + r * step
  BY DEF Quantile
<1> HIDE DEF pos, q, r
<1>4. /\ q <= n - 1
      /\ r > 0 => q < n - 1
  <2>1. bins * q <= bins * (n - 1)
    BY <1>1, <1>2
  <2>2. q <= n - 1
    BY <1>2, <2>1, ProductIsCancelled
  <2>3. q = n - 1 => r = 0
    BY <1>1, <1>2
  <2> QED BY <1>2, <2>2, <2>3
<1>5. lo \in 1 .. n /\ s[lo] \in Nat /\ s[i] \in Nat
  BY <1>2, <1>4 DEF Monotone, LastOfValue
<1>6. step \in Nat
  BY <1>5 DEF Monotone
<1>7. CASE lo < i
  <2>1. r * step <= bins * step
    BY <1>2, <1>6, ProductIsMonotonic
  <2>2. s[lo] + step = s[lo + 1] /\ s[lo + 1] <= s[i] /\ s[lo + 1] \in Nat
    BY <1>5, <1>7 DEF Monotone, LastOfValue
  <2>3. (s[lo] + step) * bins <= s[i] * bins
    BY <1>5, <2>2, ProductIsMonotonic
  <2>4. bins * s[lo] + bins * step <= bins * s[i]
    BY <1>5, <1>6, <2>3
  <2>5. bins * s[lo] + r * step <= bins * s[i]
    BY <1>2, <1>5, <1>6, <2>1, <2>4
  <2>6. lo * bins <= (i - 1) * bins
    BY <1>5, <1>7, ProductIsMonotonic
  <2>7. pos <= bins * (i - 1)
    BY <1>2, <2>6
  <2> QED BY <1>3, <2>5, <2>7 DEF pos
<1>8. CASE lo = i
  <2>1. bins * (i - 1) = bins * q
    BY <1>2, <1>8
  <2>2. pos <= bins * (i - 1) <=> r = 0
    BY <1>2, <2>1
  <2>3. r = 0 => r * step = 0
    BY <1>6
  <2>4. r > 0 => r * step > 0
    <3>1. r > 0 => step > 0
      BY <1>2, <1>4, <1>5, <1>8 DEF Monotone, LastOfValue
    <3> QED BY <1>2, <1>6, <3>1
  <2>5. bins * s[lo] + r * step <= bins * s[i] <=> r = 0
    BY <1>2, <1>5, <1>6, <1>8, <2>3, <2>4
  <2> QED BY <1>3, <2>2, <2>5 DEF pos
<1>9. CASE lo > i
  <2>1. i * bins <= q * bins
    BY <1>2, <1>9, ProductIsMonotonic
  <2>2. ~(pos <= bins * (i - 1))
    BY <1>2, <2>1
  <2>3. s[i] + 1 <= s[lo]
    BY <1>5, <1>9 DEF Monotone, LastOfValue
  <2>4. (s[i] + 1) * bins <= s[lo] * bins
    BY <1>5, <2>3, ProductIsMonotonic
  <2>5. r * step >= 0
    BY <1>2, <1>6
  <2>6. ~(bins * s[lo] + r * step <= bins * s[i])
    <3> DEFINE x == bins * s[lo]  y == bins * s[i]  z == r * step
    <3>1. x \in Int /\ y \in Int /\ z \in Nat
      BY <1>2, <1>5, <1>6, <2>5
    <3>2. y + bins <= x
      BY <1>5, <2>4
    <3> HIDE DEF x, y, z
    <3>3. ~(x + z <= y)
      BY <3>1, <3>2
    <3> QED BY <3>3 DEF x, y, z
  <2> QED BY <1>3, <2>2, <2>6 DEF pos
<1> QED BY <1>5, <1>7, <1>8, <1>9

-----------------------------------------------------------------------------
(* A window outside the range of the reference.                            *)

LEMMA SortedIsMonotone ==
    ASSUME NEW n \in Nat, NEW s \in Sorted(n)
    PROVE  Monotone(s, n)
<1>1. s \in [1 .. n -> Nat]
  BY InputsAreNat DEF Sorted
<1>2. ASSUME NEW i \in 1 .. n, NEW j \in 1 .. n, i <= j PROVE s[i] <= s[j]
  BY <1>2, SortedIsMonotonic
<1> QED BY <1>1, <1>2 DEF Monotone

\* The edges lie in the range of the reference.
LEMMA EdgesInRange ==
    ASSUME NEW n \in Nat \ {0}, NEW s, Monotone(s, n), Len(s) = n,
           NEW bins \in Nat \ {0}, NEW k \in 1 .. bins - 1
    PROVE  /\ Quantile(s, k, bins) \in Int
           /\ bins * s[1] <= Quantile(s, k, bins)
           /\ Quantile(s, k, bins) <= bins * s[n]
<1> DEFINE pos == (n - 1) * k
           q == pos \div bins
           r == pos % bins
           lo == q + 1
           step == IF lo < n THEN s[lo + 1] - s[lo] ELSE 0
<1>1. pos \in Nat /\ pos <= bins * (n - 1)
  <2>1. n - 1 \in Nat /\ k \in Nat /\ k <= bins
    OBVIOUS
  <2>2. k * (n - 1) <= bins * (n - 1)
    BY <2>1, ProductIsMonotonic
  <2> QED BY <2>1, <2>2
<1>2. Quantile(s, k, bins) <= bins * s[n]
  <2>1. n \in 1 .. n /\ LastOfValue(s, n, n)
    BY DEF LastOfValue
  <2> QED BY <1>1, <2>1, EdgeBelow
<1>3. q \in Nat /\ r \in 0 .. bins - 1 /\ pos = bins * q + r
  BY <1>1, Division
<1>4. Quantile(s, k, bins) = bins * s[lo] + r * step
  BY DEF Quantile
<1> HIDE DEF pos, q, r
<1>5. lo \in 1 .. n
  <2>1. q * bins <= (n - 1) * bins
    BY <1>1, <1>3
  <2> QED BY <1>3, <2>1, ProductIsCancelled
<1>6. s[lo] \in Nat /\ s[1] \in Nat /\ s[1] <= s[lo] /\ step \in Nat
  BY <1>5 DEF Monotone
<1>7. s[1] * bins <= s[lo] * bins
  BY <1>6, ProductIsMonotonic
<1>8. r * step \in Nat
  BY <1>3, <1>6
<1> QED BY <1>2, <1>4, <1>6, <1>7, <1>8

\* The edge lies between the values of two rows, or on that of one.
EdgeAfter(lo, r, step, s, n, k, bins) ==
    /\ (n - 1) * k = bins * (lo - 1) + r
    /\ r > 0 => lo < n
    /\ step = IF lo < n THEN s[lo + 1] - s[lo] ELSE 0
    /\ Quantile(s, k, bins) = bins * s[lo] + r * step
    /\ Interpolates(s, k, bins) <=> step > 0

LEMMA EdgePosition ==
    ASSUME NEW n \in Nat \ {0}, NEW s, Monotone(s, n), Len(s) = n,
           NEW bins \in Nat \ {0}, NEW k \in 1 .. bins - 1
    PROVE  \E lo \in 1 .. n, r \in 0 .. bins - 1, step \in Nat :
              EdgeAfter(lo, r, step, s, n, k, bins)
<1> DEFINE pos == (n - 1) * k
           q == pos \div bins
           r == pos % bins
           lo == q + 1
           step == IF lo < n THEN s[lo + 1] - s[lo] ELSE 0
<1>1. pos \in Nat /\ pos <= bins * (n - 1)
  <2>1. n - 1 \in Nat /\ k \in Nat /\ k <= bins
    OBVIOUS
  <2>2. k * (n - 1) <= bins * (n - 1)
    BY <2>1, ProductIsMonotonic
  <2> QED BY <2>1, <2>2
<1>2. q \in Nat /\ r \in 0 .. bins - 1 /\ pos = bins * q + r
  BY <1>1, Division
<1>3. Quantile(s, k, bins) = bins * s[lo] + r * step
  BY DEF Quantile
<1>4. Interpolates(s, k, bins) <=> lo < n /\ s[lo] # s[lo + 1]
  BY DEF Interpolates
<1> HIDE DEF pos, q, r
<1>5. q <= n - 1 /\ (r > 0 => q < n - 1)
  <2>1. bins * q <= bins * (n - 1)
    BY <1>1, <1>2
  <2>2. q <= n - 1
    BY <1>2, <2>1, ProductIsCancelled
  <2>3. q = n - 1 => r = 0
    BY <1>1, <1>2
  <2> QED BY <1>2, <2>2, <2>3
<1>6. lo \in 1 .. n
  BY <1>2, <1>5
<1>7. step \in Nat /\ (step > 0 <=> lo < n /\ s[lo] # s[lo + 1])
  BY <1>6 DEF Monotone
<1>8. pos = bins * (lo - 1) + r
  BY <1>2
<1>9. r > 0 => lo < n
  BY <1>2, <1>5
<1>10. EdgeAfter(lo, r, step, s, n, k, bins)
  BY <1>3, <1>4, <1>7, <1>8, <1>9 DEF EdgeAfter, pos
<1>11. step \in Nat
  BY <1>7
<1> HIDE DEF lo, step
<1> QED BY <1>2, <1>6, <1>10, <1>11

\* An edge among the first i rows and before the i-th is not above the value of the
\* i-th, however it is rounded; one that is not before it is not below that value.
LEMMA EdgeBefore ==
    ASSUME NEW n \in Nat \ {0}, NEW s, Monotone(s, n), Len(s) = n,
           NEW bins \in Nat \ {0}, NEW k \in 1 .. bins - 1, NEW rounded,
           NEW i \in 1 .. n
    PROVE  /\ (n - 1) * k < bins * (i - 1) => EdgeAtMost(s[i], s, k, bins, rounded)
           /\ bins * (i - 1) <= (n - 1) * k => bins * s[i] <= Quantile(s, k, bins)
<1>0. PICK lo \in 1 .. n, r \in 0 .. bins - 1, step \in Nat :
              EdgeAfter(lo, r, step, s, n, k, bins)
  BY EdgePosition
<1>1. /\ (n - 1) * k = bins * (lo - 1) + r
      /\ r > 0 => lo < n
      /\ step = IF lo < n THEN s[lo + 1] - s[lo] ELSE 0
      /\ Quantile(s, k, bins) = bins * s[lo] + r * step
      /\ Interpolates(s, k, bins) <=> step > 0
  BY <1>0 DEF EdgeAfter
<1>2. s[lo] \in Nat /\ s[i] \in Nat
  BY DEF Monotone
<1>3. ASSUME (n - 1) * k < bins * (i - 1)
      PROVE  EdgeAtMost(s[i], s, k, bins, rounded)
  <2>1. lo < i
    <3>1. ASSUME i <= lo PROVE FALSE
      <4> DEFINE x == bins * (i - 1)  y == bins * (lo - 1)  pos == (n - 1) * k
      <4>1. (i - 1) * bins <= (lo - 1) * bins
        BY <3>1, ProductIsMonotonic
      <4>2. x <= y /\ x \in Int /\ y \in Int
        BY <4>1
      <4>3. pos = y + r /\ pos < x
        BY <1>1, <1>3
      <4> HIDE DEF x, y, pos
      <4> QED BY <4>2, <4>3
    <3> QED BY <3>1
  <2>2. s[lo + 1] \in Nat /\ s[lo] + step = s[lo + 1] /\ s[lo + 1] <= s[i]
    <3>1. lo < n /\ lo + 1 \in 1 .. n /\ lo + 1 <= i
      BY <2>1
    <3>2. step = s[lo + 1] - s[lo]
      BY <1>1, <3>1
    <3>3. s[lo + 1] \in Nat /\ s[lo + 1] <= s[i]
      BY <3>1 DEF Monotone
    <3> QED BY <1>2, <3>2, <3>3
  <2>3. (s[lo] + step) * bins <= s[i] * bins
    BY <1>2, <2>2, ProductIsMonotonic
  <2>4. bins * s[lo] + bins * step <= bins * s[i]
    BY <1>2, <2>3
  <2>5. r * step <= bins * step /\ (step > 0 => r * step < bins * step)
    <3>1. r * step <= (bins - 1) * step
      BY ProductIsMonotonic
    <3>2. (bins - 1) * step = bins * step - step
      OBVIOUS
    <3>3. r * step \in Int /\ bins * step \in Int
      OBVIOUS
    <3> QED BY <3>1, <3>2, <3>3
  <2>6. /\ Quantile(s, k, bins) <= bins * s[i]
        /\ step > 0 => Quantile(s, k, bins) < bins * s[i]
        /\ Quantile(s, k, bins) \in Int /\ bins * s[i] \in Int
    <3> DEFINE x == bins * s[lo]  y == bins * s[i]  z == r * step  w == bins * step
    <3>1. x \in Int /\ y \in Int /\ z \in Int /\ w \in Int
      BY <1>2
    <3>2. x + w <= y /\ z <= w /\ (step > 0 => z < w)
      BY <2>4, <2>5
    <3>3. Quantile(s, k, bins) = x + z
      BY <1>1
    <3> HIDE DEF x, y, z, w
    <3>4. /\ Quantile(s, k, bins) <= y
          /\ step > 0 => Quantile(s, k, bins) < y
          /\ Quantile(s, k, bins) \in Int
      BY <3>1, <3>2, <3>3
    <3> QED BY <3>1, <3>4 DEF y
  <2> QED BY <1>1, <2>6 DEF EdgeAtMost
<1>4. ASSUME bins * (i - 1) <= (n - 1) * k
      PROVE  bins * s[i] <= Quantile(s, k, bins)
  <2>1. i <= lo
    <3>1. ASSUME lo < i PROVE FALSE
      <4> DEFINE x == bins * (i - 1)  y == bins * (lo - 1)  pos == (n - 1) * k
      <4>1. lo * bins <= (i - 1) * bins
        BY <3>1, ProductIsMonotonic
      <4>2. y + bins <= x /\ x \in Int /\ y \in Int
        BY <4>1
      <4>3. pos = y + r /\ x <= pos
        BY <1>1, <1>4
      <4> HIDE DEF x, y, pos
      <4> QED BY <4>2, <4>3
    <3> QED BY <3>1
  <2>2. s[i] * bins <= s[lo] * bins
    <3>1. s[i] <= s[lo]
      BY <2>1 DEF Monotone
    <3> QED BY <1>2, <3>1, ProductIsMonotonic
  <2>3. r * step \in Nat
    OBVIOUS
  <2> DEFINE x == bins * s[i]  y == bins * s[lo]  z == r * step
  <2>4. x \in Int /\ y \in Int /\ x <= y /\ z \in Nat
    BY <1>2, <2>2, <2>3
  <2>5. Quantile(s, k, bins) = y + z
    BY <1>1
  <2> HIDE DEF x, y, z
  <2>6. x <= Quantile(s, k, bins)
    BY <2>4, <2>5
  <2> QED BY <2>6 DEF x
<1> QED BY <1>3, <1>4

LEMMA SubsetOfFirst ==
    ASSUME NEW b \in Nat, NEW S \in SUBSET (1 .. b)
    PROVE  Cardinality(S) \in Nat /\ Cardinality(S) <= b
<1>1. IsFiniteSet(1 .. b) /\ Cardinality(1 .. b) = b
  BY FS_Interval
<1> QED BY <1>1, FS_Subset, FS_CardinalityType

LEMMA BinType ==
    ASSUME NEW v, NEW ref, NEW bins \in Nat \ {0}, NEW rounded
    PROVE  BinOf(v, ref, bins, rounded) \in 1 .. bins
<1> DEFINE edges == {k \in InnerEdges(bins) : EdgeAtMost(v, ref, k, bins, rounded)}
<1>1. edges \in SUBSET (1 .. bins - 1)
  BY DEF InnerEdges
<1>2. BinOf(v, ref, bins, rounded) = 1 + Cardinality(edges)
  BY DEF BinOf
<1> HIDE DEF edges
<1>3. bins - 1 \in Nat
  OBVIOUS
<1>4. Cardinality(edges) \in Nat /\ Cardinality(edges) <= bins - 1
  BY <1>1, <1>3, SubsetOfFirst
<1> QED BY <1>2, <1>4

\* A histogram counts every row of the series once.
LEMMA HistogramCounts ==
    ASSUME NEW m \in Nat, NEW series, DOMAIN series = 1 .. m,
           NEW ref, NEW bins \in Nat \ {0}, NEW rounded
    PROVE  /\ Histogram(series, ref, bins, rounded) \in [1 .. bins -> Nat]
           /\ Total(Histogram(series, ref, bins, rounded)) = m
           /\ \A b \in 1 .. bins : Histogram(series, ref, bins, rounded)[b] <= m
<1> DEFINE f == [i \in 1 .. m |-> BinOf(series[i], ref, bins, rounded)]
           h == Histogram(series, ref, bins, rounded)
<1>1. f \in [1 .. m -> 1 .. bins]
  BY BinType
<1>2. h = CountsOf(f, 1 .. m, 1 .. bins)
  BY DEF Histogram, RowsOf, CountsOf
<1>3. /\ IsFiniteSet(1 .. m) /\ Cardinality(1 .. m) = m
      /\ IsFiniteSet(1 .. bins)
  BY FS_Interval
<1> HIDE DEF f, h
<1>4. h \in [1 .. bins -> Nat] /\ SumFunctionOnSet(h, 1 .. bins) = m
  BY <1>1, <1>2, <1>3, SumOfCounts
<1>5. Total(h) = m
  BY <1>4 DEF Total, SumFunction
<1>6. \A b \in 1 .. bins : h[b] <= m
  BY <1>3, <1>4, SumIsAtLeast
<1> QED BY <1>4, <1>5, <1>6 DEF h

\* Rows that all fall into one bin leave the others empty.
AllIn(home, series, ref, bins, rounded) ==
    \A i \in DOMAIN series : BinOf(series[i], ref, bins, rounded) = home

LEMMA HistogramOfOneBin ==
    ASSUME NEW m \in Nat, NEW series, DOMAIN series = 1 .. m,
           NEW ref, NEW bins \in Nat \ {0}, NEW rounded,
           NEW home, AllIn(home, series, ref, bins, rounded)
    PROVE  \A b \in 1 .. bins : /\ b = home => Histogram(series, ref, bins, rounded)[b] = m
                                /\ b # home => Histogram(series, ref, bins, rounded)[b] = 0
<1> TAKE b \in 1 .. bins
<1> DEFINE rows == {i \in DOMAIN series : BinOf(series[i], ref, bins, rounded) = b}
<1>1. /\ b = home => rows = 1 .. m
      /\ b # home => rows = {}
  BY DEF AllIn
<1>2. Histogram(series, ref, bins, rounded)[b] = Cardinality(rows)
  BY DEF Histogram, RowsOf
<1>3. Cardinality(1 .. m) = m /\ Cardinality({}) = 0
  BY FS_Interval, FS_EmptySet
<1> HIDE DEF rows
<1> QED BY <1>1, <1>2, <1>3

\* A bin that some row falls into is not empty.
LEMMA HistogramOfRow ==
    ASSUME NEW m \in Nat, NEW series, DOMAIN series = 1 .. m,
           NEW ref, NEW bins \in Nat \ {0}, NEW rounded,
           NEW i \in 1 .. m
    PROVE  Histogram(series, ref, bins, rounded)[BinOf(series[i], ref, bins, rounded)] \in Nat \ {0}
<1> DEFINE b == BinOf(series[i], ref, bins, rounded)
           rows == {j \in DOMAIN series : BinOf(series[j], ref, bins, rounded) = b}
<1>1. b \in 1 .. bins
  BY BinType
<1>2. IsFiniteSet(rows) /\ rows # {}
  <2>1. IsFiniteSet(1 .. m)
    BY FS_Interval
  <2> QED BY <2>1, FS_Subset
<1>3. Cardinality(rows) \in Nat \ {0}
  BY <1>2, FS_CardinalityType, FS_EmptySet
<1> QED BY <1>1, <1>3 DEF Histogram, RowsOf

\* A share that occurs has a logarithm that is larger than that of an empty bin by
\* more than 16, for a reference and a window of at most six rows.
LEMMA LnOfNoneAndAll ==
    ASSUME NEW n \in 1 .. 6
    PROVE  LnShare(0, n) = -18421 /\ LnShare(n, n) = 0
BY DEF LnShare, LnEpsilon

LEMMA LnShares ==
    ASSUME NEW n \in 1 .. 6, NEW r \in 0 .. n
    PROVE  /\ LnShare(r, n) \in Int
           /\ LnShare(r, n) <= 0
           /\ r = 0 => LnShare(r, n) = -18421
           /\ r > 0 => LnShare(r, n) >= -1792
<1>1. /\ Ln(1) = 0 /\ Ln(2) = 693 /\ Ln(3) = 1099
      /\ Ln(4) = 1386 /\ Ln(5) = 1609 /\ Ln(6) = 1792
  BY DEF Ln
<1>2. CASE r = 0
  BY <1>2, LnOfNoneAndAll
<1>3. CASE r = n
  BY <1>3, LnOfNoneAndAll
<1>4. CASE r # 0 /\ r # n
  <2>1. LnShare(r, n) = Ln(r) - Ln(n)
    BY <1>4 DEF LnShare
  <2>2. n \in {1, 2, 3, 4, 5, 6} /\ r \in {1, 2, 3, 4, 5} /\ r < n
    BY <1>4
  <2> QED BY <1>1, <2>1, <2>2
<1> QED BY <1>2, <1>3, <1>4

\* What the logarithms of a share that occurs and of an empty bin differ by, at
\* least.
Gap == 18421 - 1792

\* The term of a bin that holds the whole window, and that of one that holds none
\* of it.
LEMMA TermOfAll ==
    ASSUME NEW n \in 1 .. 6, NEW m \in 1 .. 6, NEW r \in 0 .. n
    PROVE  PsiTerm(r, n, m, m) \in Nat
<1> DEFINE x == m * n - r * m  y == LnShare(m, m) - LnShare(r, n)
<1>1. y \in Nat
  BY LnOfNoneAndAll, LnShares
<1>2. x \in Nat
  <2>1. r * m <= n * m
    BY ProductIsMonotonic
  <2> QED BY <2>1
<1> HIDE DEF x, y
<1>3. x * y \in Nat
  BY <1>1, <1>2
<1> QED BY <1>3 DEF x, y, PsiTerm

LEMMA TermOfNone ==
    ASSUME NEW n \in 1 .. 6, NEW m \in 1 .. 6, NEW r \in 0 .. n, NEW c \in Nat, c = 0
    PROVE  /\ PsiTerm(r, n, c, m) \in Nat
           /\ r > 0 => PsiTerm(r, n, c, m) >= Gap * m
<1> DEFINE x == r * m  y == LnShare(r, n) - LnShare(c, m)
<1>1. y \in Nat /\ (r > 0 => y >= Gap)
  BY LnOfNoneAndAll, LnShares DEF Gap
<1>2. x \in Nat /\ (r > 0 => m <= x)
  <2>1. r > 0 => 1 * m <= r * m
    BY ProductIsMonotonic
  <2> QED BY <2>1
<1>3. PsiTerm(r, n, c, m) = x * y
  <2>1. c * n - r * m = -x
    OBVIOUS
  <2>2. LnShare(c, m) - LnShare(r, n) = -y
    BY LnOfNoneAndAll, LnShares
  <2> HIDE DEF x, y
  <2> QED BY <1>1, <1>2, <2>1, <2>2 DEF PsiTerm
<1> HIDE DEF x, y
<1>4. x * y \in Nat
  BY <1>1, <1>2
<1>5. r > 0 => Gap * m <= x * y
  <2>1. r > 0 => Gap * m <= y * m /\ m * y <= x * y
    BY <1>1, <1>2, ProductIsMonotonic DEF Gap
  <2> QED BY <1>1, <1>2, <2>1 DEF Gap
<1> QED BY <1>3, <1>4, <1>5

\* Both, for any bin.
LEMMA TermOfBin ==
    ASSUME NEW n \in 1 .. 6, NEW m \in 1 .. 6, NEW r \in 0 .. n, NEW c \in {0, m}
    PROVE  /\ PsiTerm(r, n, c, m) \in Nat
           /\ c = 0 /\ r > 0 => PsiTerm(r, n, c, m) >= Gap * m
<1>1. CASE c = m
  <2>1. PsiTerm(r, n, m, m) \in Nat /\ m # 0
    BY TermOfAll
  <2> QED BY <1>1, <2>1
<1>2. CASE c = 0
  <2>1. c \in Nat
    BY <1>2
  <2> QED BY <1>2, <2>1, TermOfNone
<1> QED BY <1>1, <1>2

\* A window whose rows all fall into one bin, next to a reference that has a row in
\* another, has a PSI of 0.25 or more: no term of the sum is negative, and that of
\* the other bin alone is large enough.
LEMMA ShiftIsHigh ==
    ASSUME NEW n \in 1 .. 6, NEW m \in 1 .. 6, NEW bins \in Nat \ {0}, NEW rounded,
           NEW ref, DOMAIN ref = 1 .. n, NEW cur, DOMAIN cur = 1 .. m,
           NEW home, AllIn(home, cur, ref, bins, rounded),
           NEW i \in 1 .. n, BinOf(ref[i], ref, bins, rounded) # home
    PROVE  ComputePsi(ref, cur, bins, rounded) >= 250
<1>1. \A b \in 1 .. bins : /\ b = home => Histogram(cur, ref, bins, rounded)[b] = m
                           /\ b # home => Histogram(cur, ref, bins, rounded)[b] = 0
  <2>1. m \in Nat
    OBVIOUS
  <2> QED BY <2>1, HistogramOfOneBin
<1> DEFINE r == Histogram(ref, ref, bins, rounded)
           c == Histogram(cur, ref, bins, rounded)
           other == BinOf(ref[i], ref, bins, rounded)
<1>2. /\ r \in [1 .. bins -> Nat] /\ Total(r) = n /\ \A b \in 1 .. bins : r[b] <= n
      /\ Total(c) = m
  <2>1. n \in Nat /\ m \in Nat
    OBVIOUS
  <2>2. r \in [1 .. bins -> Nat] /\ Total(r) = n /\ \A b \in 1 .. bins : r[b] <= n
    BY <2>1, HistogramCounts
  <2>3. Total(c) = m
    BY <2>1, HistogramCounts
  <2> QED BY <2>2, <2>3
<1> DEFINE term == [b \in 1 .. bins |-> PsiTerm(r[b], n, c[b], m)]
           sum == SumFunctionOnSet(term, 1 .. bins)
<1>3. other \in 1 .. bins /\ other # home /\ r[other] \in Nat \ {0}
  BY BinType, HistogramOfRow
<1>4. ComputePsi(ref, cur, bins, rounded) = sum \div (n * m)
  BY <1>2 DEF ComputePsi, SumFunction
<1> HIDE DEF r, c, other
<1>5. ASSUME NEW b \in 1 .. bins
      PROVE  /\ term[b] \in Nat
             /\ b # home /\ r[b] > 0 => term[b] >= Gap * m
  <2>1. r[b] \in 0 .. n
    BY <1>2
  <2>2. c[b] \in {0, m} /\ (b # home => c[b] = 0)
    BY <1>1 DEF c
  <2>3. PICK x \in 0 .. n : x = r[b]
    BY <2>1
  <2>4. PICK y \in {0, m} : y = c[b]
    BY <2>2
  <2>5. /\ PsiTerm(x, n, y, m) \in Nat
        /\ y = 0 /\ x > 0 => PsiTerm(x, n, y, m) >= Gap * m
    BY TermOfBin
  <2>6. term[b] = PsiTerm(x, n, y, m)
    BY <2>3, <2>4
  <2> HIDE DEF term
  <2> QED BY <2>2, <2>3, <2>4, <2>5, <2>6
<1>6. term \in [1 .. bins -> Nat]
  BY <1>5
<1>7. sum \in Nat /\ sum >= Gap * m
  <2>1. term[other] >= Gap * m /\ term[other] \in Nat
    BY <1>3, <1>5
  <2>2. IsFiniteSet(1 .. bins)
    BY FS_Interval
  <2> HIDE DEF term
  <2>3. sum \in Nat /\ term[other] <= sum
    BY <1>3, <1>6, <2>2, SumIsAtLeast
  <2> QED BY <2>1, <2>3 DEF Gap
<1> HIDE DEF sum
<1>8. n * m \in Nat \ {0} /\ 250 * (n * m) <= 1500 * m
  <2>1. n * m <= 6 * m
    BY ProductIsMonotonic
  <2> QED BY <2>1
<1>9. 250 * (n * m) <= sum
  BY <1>7, <1>8 DEF Gap
<1>10. sum \div (n * m) >= 250
  BY <1>7, <1>8, <1>9, QuotientIsAtLeast
<1> QED BY <1>4, <1>10

\* A value below the reference falls into the first bin, one that is not below its
\* largest into the last.
LEMMA BinOutside ==
    ASSUME NEW n \in Nat \ {0}, NEW s, Monotone(s, n), Len(s) = n,
           NEW bins \in Nat \ {0}, NEW rounded, NEW v \in Nat
    PROVE  /\ v < s[1] => BinOf(v, s, bins, rounded) = 1
           /\ v >= s[n] => BinOf(v, s, bins, rounded) = bins
<1> DEFINE edges == {k \in InnerEdges(bins) : EdgeAtMost(v, s, k, bins, rounded)}
<1>1. BinOf(v, s, bins, rounded) = 1 + Cardinality(edges)
  BY DEF BinOf
<1>2. s[1] \in Nat /\ s[n] \in Nat
  BY DEF Monotone
<1>3. ASSUME NEW k \in InnerEdges(bins)
      PROVE  /\ v < s[1] => ~EdgeAtMost(v, s, k, bins, rounded)
             /\ v >= s[n] => EdgeAtMost(v, s, k, bins, rounded)
  <2> DEFINE q == Quantile(s, k, bins)
  <2>1. k \in 1 .. bins - 1
    BY DEF InnerEdges
  <2>2. q \in Int /\ bins * s[1] <= q /\ q <= bins * s[n]
    BY <2>1, EdgesInRange
  <2> HIDE DEF q
  <2>3. ASSUME v < s[1] PROVE ~EdgeAtMost(v, s, k, bins, rounded)
    <3>1. (v + 1) * bins <= s[1] * bins
      BY <1>2, <2>3, ProductIsMonotonic
    <3>2. bins * v < q
      BY <1>2, <2>2, <3>1
    <3> QED BY <2>2, <3>2 DEF q, EdgeAtMost
  <2>4. ASSUME v = s[n] PROVE EdgeAtMost(v, s, k, bins, rounded)
    <3>1. CASE n = 1
      <4>1. ~Interpolates(s, k, bins)
        <5>1. PICK lo \in 1 .. n, r \in 0 .. bins - 1, step \in Nat :
                 EdgeAfter(lo, r, step, s, n, k, bins)
          BY <2>1, EdgePosition
        <5> QED BY <3>1, <5>1 DEF EdgeAfter
      <4>2. q < bins * v \/ q = bins * v
        BY <1>2, <2>2, <2>4
      <4> QED BY <4>1, <4>2 DEF q, EdgeAtMost
    <3>2. CASE n # 1
      <4>1. (n - 1) * k < bins * (n - 1)
        <5>1. k * (n - 1) <= (bins - 1) * (n - 1)
          BY <2>1, ProductIsMonotonic
        <5>2. (bins - 1) * (n - 1) = bins * (n - 1) - (n - 1)
          OBVIOUS
        <5> QED BY <2>1, <3>2, <5>1, <5>2
      <4> QED BY <2>1, <2>4, <4>1, EdgeBefore
    <3> QED BY <3>1, <3>2
  <2>5. ASSUME v > s[n] PROVE EdgeAtMost(v, s, k, bins, rounded)
    <3>1. (s[n] + 1) * bins <= v * bins
      BY <1>2, <2>5, ProductIsMonotonic
    <3>2. q < bins * v
      BY <1>2, <2>2, <3>1
    <3> QED BY <3>2 DEF q, EdgeAtMost
  <2>6. v >= s[n] => v = s[n] \/ v > s[n]
    BY <1>2
  <2> QED BY <2>3, <2>4, <2>5, <2>6
<1>4. Cardinality(1 .. bins - 1) = bins - 1 /\ Cardinality({}) = 0
  BY FS_Interval, FS_EmptySet
<1>5. /\ v < s[1] => edges = {}
      /\ v >= s[n] => edges = 1 .. bins - 1
  BY <1>3 DEF InnerEdges
<1> HIDE DEF edges
<1>6. ASSUME v < s[1] PROVE BinOf(v, s, bins, rounded) = 1
  <2>1. Cardinality(edges) = 0
    BY <1>4, <1>5, <1>6
  <2> QED BY <1>1, <2>1
<1>7. v >= s[n] => BinOf(v, s, bins, rounded) = bins
  BY <1>1, <1>4, <1>5
<1> QED BY <1>6, <1>7

\* The rows with the smallest value of a sorted series are its first ones.
LEMMA FirstRows ==
    ASSUME NEW n \in Nat \ {0}, NEW s, Monotone(s, n)
    PROVE  /\ Occurrences(s, s[1]) \in 1 .. n
           /\ s[Occurrences(s, s[1])] = s[1]
           /\ LastOfValue(s, n, Occurrences(s, s[1]))
<1> DEFINE rows == {i \in 1 .. n : s[i] = s[1]}
           last == Max(rows)
<1>1. last \in rows /\ \A i \in rows : i <= last
  <2>1. rows \in SUBSET (0 .. n) /\ rows # {}
    <3>1. 1 \in rows
      OBVIOUS
    <3>2. rows \in SUBSET (0 .. n)
      OBVIOUS
    <3> QED BY <3>1, <3>2
  <2> HIDE DEF rows
  <2> QED BY <2>1, MaxIsLargest
<1> HIDE DEF last
<1>2. rows = 1 .. last
  <2>1. ASSUME NEW i \in 1 .. last PROVE i \in rows
    <3>1. i \in 1 .. n /\ 1 <= i /\ i <= last /\ last \in 1 .. n
      BY <1>1
    <3>2. s[1] <= s[i] /\ s[i] <= s[last]
      BY <3>1 DEF Monotone
    <3>3. s[i] \in Nat /\ s[1] \in Nat /\ s[last] = s[1]
      BY <1>1, <3>1 DEF Monotone
    <3> QED BY <3>1, <3>2, <3>3
  <2>2. rows \subseteq 1 .. last
    BY <1>1
  <2> QED BY <2>1, <2>2
<1>3. Occurrences(s, s[1]) = last
  <2>1. DOMAIN s = 1 .. n
    BY DEF Monotone
  <2>2. Occurrences(s, s[1]) = Cardinality(rows)
    BY <2>1 DEF Occurrences
  <2>3. last \in Nat /\ last >= 1
    BY <1>1
  <2>4. Cardinality(1 .. last) = last
    BY <2>3, FS_Interval
  <2> HIDE DEF rows
  <2> QED BY <1>2, <2>2, <2>4
<1>4. last \in 1 .. n /\ s[last] = s[1]
  BY <1>1
<1>5. LastOfValue(s, n, last)
  <2>1. CASE last # n
    <3>1. last + 1 \in 1 .. n /\ last + 1 \notin rows
      BY <1>1, <1>4, <2>1
    <3>2. s[last + 1] # s[1] /\ s[1] <= s[last + 1]
      BY <3>1 DEF Monotone
    <3>3. s[last + 1] \in Nat /\ s[1] \in Nat
      BY <3>1 DEF Monotone
    <3> QED BY <1>4, <3>2, <3>3 DEF LastOfValue
  <2> QED BY <2>1 DEF LastOfValue
<1> QED BY <1>3, <1>4, <1>5

\* Unless so many rows have the smallest value that every edge falls on it, the last
\* edge lies above it.
LEMMA BinOfFirst ==
    ASSUME NEW n \in Nat \ {0}, NEW s, Monotone(s, n), Len(s) = n,
           NEW bins \in Nat \ {0, 1}, NEW rounded,
           ~(bins * (Occurrences(s, s[1]) - 1) >= (bins - 1) * (n - 1))
    PROVE  BinOf(s[1], s, bins, rounded) # bins
<1> DEFINE edges == {k \in InnerEdges(bins) : EdgeAtMost(s[1], s, k, bins, rounded)}
           i == Occurrences(s, s[1])
<1>1. i \in 1 .. n /\ s[i] = s[1] /\ LastOfValue(s, n, i)
  BY FirstRows
<1> HIDE DEF i
<1>2. bins - 1 \in 1 .. bins - 1
  OBVIOUS
<1>3. ~((n - 1) * (bins - 1) <= bins * (i - 1))
  <2>1. ~(bins * (i - 1) >= (bins - 1) * (n - 1))
    BY DEF i
  <2>2. (n - 1) * (bins - 1) = (bins - 1) * (n - 1)
    OBVIOUS
  <2> DEFINE x == (n - 1) * (bins - 1)  y == bins * (i - 1)
  <2>3. x \in Int /\ y \in Int
    BY <1>1
  <2>4. ~(y >= x)
    BY <2>1, <2>2
  <2> HIDE DEF x, y
  <2>5. ~(x <= y)
    BY <2>3, <2>4
  <2> QED BY <2>5 DEF x, y
<1>4. ~(Quantile(s, bins - 1, bins) <= bins * s[1])
  BY <1>1, <1>2, <1>3, EdgeBelow
<1>5. edges \in SUBSET (1 .. bins - 2)
  <2>1. ~EdgeAtMost(s[1], s, bins - 1, bins, rounded)
    <3>1. Quantile(s, bins - 1, bins) \in Int /\ s[1] \in Nat
      BY <1>2, EdgesInRange DEF Monotone
    <3> QED BY <1>4, <3>1 DEF EdgeAtMost
  <2> QED BY <2>1 DEF InnerEdges
<1>6. BinOf(s[1], s, bins, rounded) = 1 + Cardinality(edges)
  BY DEF BinOf
<1> HIDE DEF edges
<1>7. PICK b \in Nat : b = bins - 2
  OBVIOUS
<1>8. Cardinality(edges) \in Nat /\ Cardinality(edges) <= b
  <2>1. edges \in SUBSET (1 .. b)
    BY <1>5, <1>7
  <2> QED BY <2>1, SubsetOfFirst
<1> QED BY <1>6, <1>7, <1>8

\* compute_psi: a window outside the range of the reference is reported high, for
\* every number of bins, every reference and every window that the constants allow.
THEOREM ShiftsAreSeen == Spec => []ShiftIsSeen
<1>1. Init => ShiftIsSeen
  BY CallsAreNamed DEF ShiftIsSeen
<1>2. ASSUME ShiftIsSeen, [Next]_call PROVE ShiftIsSeen'
  <2>1. CASE PsiResult
    <3>1. PICK n \in 1 .. 6, m \in 1 .. 6 :
             \E ref \in Sorted(n), cur \in Sorted(m), rounded \in SUBSET InnerEdges(Bins) :
                call' = [fn |-> "psi", ref |-> ref, cur |-> cur, rounded |-> rounded,
                         severity |-> PsiSeverity(ComputePsi(ref, cur, Bins, rounded))]
      <4>1. RefSizes \subseteq 1 .. 6 /\ WindowSizes \subseteq 1 .. 6
        BY InputsAreNat
      <4> QED BY <2>1, <4>1 DEF PsiResult
    <3>2. PICK ref \in Sorted(n), cur \in Sorted(m), rounded \in SUBSET InnerEdges(Bins) :
                call' = [fn |-> "psi", ref |-> ref, cur |-> cur, rounded |-> rounded,
                         severity |-> PsiSeverity(ComputePsi(ref, cur, Bins, rounded))]
      BY <3>1
    <3>3. /\ Monotone(ref, n) /\ DOMAIN ref = 1 .. n /\ Len(ref) = n
          /\ DOMAIN cur = 1 .. m /\ cur \in [1 .. m -> Nat]
      <4>1. n \in Nat /\ m \in Nat
        OBVIOUS
      <4>2. Monotone(ref, n) /\ Monotone(cur, m)
        BY <4>1, SortedIsMonotone
      <4>3. DOMAIN ref = 1 .. n /\ Len(ref) = n
        BY <4>1, LenProperties, InputsAreNat DEF Sorted
      <4> QED BY <4>2, <4>3 DEF Monotone
    <3>4. ref[1] \in Nat /\ ref[n] \in Nat /\ 1 \in 1 .. n /\ n \in 1 .. n
      BY <3>3 DEF Monotone
    <3>5. Bins \in Nat \ {0, 1} /\ Bins \in Nat \ {0}
      BY BinsAndTops
    <3>6. ASSUME ComputePsi(ref, cur, Bins, rounded) >= 250 PROVE call'.severity = "high"
      BY <3>2, <3>6 DEF PsiSeverity
    <3>7. ASSUME \A i \in DOMAIN cur : cur[i] < ref[1] PROVE call'.severity = "high"
      <4>1. AllIn(1, cur, ref, Bins, rounded)
        BY <3>3, <3>5, <3>7, BinOutside DEF AllIn
      <4>2. BinOf(ref[n], ref, Bins, rounded) # 1
        BY <3>3, <3>4, <3>5, BinOutside
      <4> QED BY <3>3, <3>4, <3>5, <3>6, <4>1, <4>2, ShiftIsHigh
    <3>8. ASSUME \A i \in DOMAIN cur : cur[i] > ref[n],
                 ~(Bins * (Occurrences(ref, ref[1]) - 1) >= (Bins - 1) * (n - 1))
          PROVE  call'.severity = "high"
      <4>1. AllIn(Bins, cur, ref, Bins, rounded)
        BY <3>3, <3>4, <3>5, <3>8, BinOutside DEF AllIn
      <4>2. n \in Nat \ {0}
        OBVIOUS
      <4>3. BinOf(ref[1], ref, Bins, rounded) # Bins
        BY <3>3, <3>5, <3>8, <4>2, BinOfFirst
      <4> QED BY <3>3, <3>4, <3>5, <3>6, <4>1, <4>3, ShiftIsHigh
    <3>9. call'.ref = ref /\ call'.cur = cur
      BY <3>2
    <3> QED BY <3>3, <3>7, <3>8, <3>9 DEF ShiftIsSeen
  <2>2. CASE UNCHANGED call
    BY <1>2, <2>2 DEF ShiftIsSeen
  <2>3. CASE Train \/ Chi2Result \/ ComputeOutputDrift \/ BuildDriftReport \/ Return
    BY <2>3, CallsAreNamed DEF ShiftIsSeen
  <2> QED BY <1>2, <2>1, <2>2, <2>3 DEF Next
<1> QED BY <1>1, <1>2, PTL DEF Spec

-----------------------------------------------------------------------------
(* How much of the reference a bin has.                                    *)

\* A row that is not the least of its bin lies behind the lower edge of the bin, and
\* not behind the upper one.
LEMMA RowsAbove ==
    ASSUME NEW n \in Nat \ {0}, NEW s, Monotone(s, n), Len(s) = n,
           NEW bins \in Nat \ {0}, NEW rounded, NEW b \in 1 .. bins,
           NEW i \in 1 .. n, NEW j \in 1 .. n, s[j] < s[i],
           BinOf(s[i], s, bins, rounded) = b, BinOf(s[j], s, bins, rounded) = b
    PROVE  /\ (n - 1) * (b - 1) < bins * (i - 1)
           /\ bins * (i - 1) <= (n - 1) * (b - 1) + (n - 1)
<1> DEFINE edges(v) == {k \in InnerEdges(bins) : EdgeAtMost(v, s, k, bins, rounded)}
           row == bins * (i - 1)
           lower == (n - 1) * (b - 1)
<1>1. s[i] \in Nat /\ s[j] \in Nat /\ i > 1
  BY DEF Monotone
<1>2. /\ row \in Nat /\ lower \in Nat /\ n - 1 \in Nat
      /\ (n - 1) * b = lower + (n - 1)
  OBVIOUS
<1>3. /\ Cardinality(edges(s[i])) = b - 1
      /\ Cardinality(edges(s[j])) = b - 1
  <2>1. \A v : BinOf(v, s, bins, rounded) = 1 + Cardinality(edges(v))
    BY DEF BinOf
  <2>2. \A v : edges(v) \in SUBSET (1 .. bins - 1)
    BY DEF InnerEdges
  <2> HIDE DEF edges
  <2>3. \A v : Cardinality(edges(v)) \in Nat
    <3>1. bins - 1 \in Nat
      OBVIOUS
    <3> QED BY <2>2, <3>1, SubsetOfFirst
  <2> QED BY <2>1, <2>3
<1>4. lower < row
  <2>1. SUFFICES ASSUME row <= lower PROVE FALSE
    BY <1>2
  <2>2. b > 1
    <3>1. b = 1 => lower = 0
      OBVIOUS
    <3>2. row > 0
      BY <1>1
    <3> QED BY <2>1, <3>1, <3>2
  <2>3. ASSUME NEW k \in 1 .. bins - 1, EdgeAtMost(s[j], s, k, bins, rounded)
        PROVE  k \in 1 .. b - 2
    <3>1. ASSUME b - 1 <= k PROVE FALSE
      <4> DEFINE q == Quantile(s, k, bins)  x == bins * s[i]  y == bins * s[j]
      <4>1. lower <= (n - 1) * k
        <5>1. (b - 1) * (n - 1) <= k * (n - 1)
          BY <3>1, ProductIsMonotonic
        <5> QED BY <5>1
      <4>2. row <= (n - 1) * k
        BY <1>2, <2>1, <4>1
      <4>3. x <= q
        BY <4>2, EdgeBefore
      <4>4. y < x /\ x \in Int /\ y \in Int
        <5>1. (s[j] + 1) * bins <= s[i] * bins
          BY <1>1, ProductIsMonotonic
        <5> QED BY <1>1, <5>1
      <4>5. q < y \/ q = y
        BY <2>3 DEF EdgeAtMost
      <4>6. q \in Int
        BY EdgesInRange
      <4> HIDE DEF q, x, y
      <4> QED BY <4>3, <4>4, <4>5, <4>6
    <3> QED BY <3>1
  <2>4. edges(s[j]) \in SUBSET (1 .. b - 2)
    BY <2>3 DEF InnerEdges
  <2> HIDE DEF edges
  <2>5. Cardinality(edges(s[j])) <= b - 2
    <3>1. PICK c \in Nat : c = b - 2
      BY <2>2
    <3> QED BY <2>4, <3>1, SubsetOfFirst
  <2> QED BY <1>3, <2>5
<1>5. row <= lower + (n - 1)
  <2>1. SUFFICES ASSUME lower + (n - 1) < row PROVE FALSE
    BY <1>2
  <2>2. b < bins
    <3>1. (i - 1) * bins <= (n - 1) * bins
      BY ProductIsMonotonic
    <3>2. b = bins => (n - 1) * b = (n - 1) * bins
      OBVIOUS
    <3>3. row <= (n - 1) * bins /\ (n - 1) * bins \in Nat
      BY <3>1
    <3> QED BY <1>2, <2>1, <3>2, <3>3
  <2>3. ASSUME NEW k \in 1 .. b PROVE k \in edges(s[i])
    <3>1. k \in 1 .. bins - 1
      BY <2>2
    <3>2. (n - 1) * k < row
      <4>1. k * (n - 1) <= b * (n - 1)
        BY ProductIsMonotonic
      <4>2. (n - 1) * k <= (n - 1) * b /\ (n - 1) * k \in Nat
        BY <4>1
      <4> QED BY <1>2, <2>1, <4>2
    <3> QED BY <3>1, <3>2, EdgeBefore DEF InnerEdges
  <2>4. IsFiniteSet(edges(s[i])) /\ 1 .. b \subseteq edges(s[i])
    <3>1. edges(s[i]) \subseteq 1 .. bins - 1 /\ IsFiniteSet(1 .. bins - 1)
      BY FS_Interval DEF InnerEdges
    <3> QED BY <2>3, <3>1, FS_Subset
  <2> HIDE DEF edges
  <2>5. Cardinality(1 .. b) <= Cardinality(edges(s[i]))
    BY <2>4, FS_Subset
  <2>6. Cardinality(1 .. b) = b
    BY FS_Interval
  <2> QED BY <1>3, <2>5, <2>6
<1> QED BY <1>4, <1>5

\* As many rows as lie in a stretch of w are at most w divided by the distance of the
\* rows, rounded up.
LEMMA RowsBetween ==
    ASSUME NEW bins \in Nat \ {0}, NEW a \in Nat, NEW w \in Nat, NEW n \in Nat,
           NEW S \in SUBSET (1 .. n),
           \A i \in S : a < bins * (i - 1) /\ bins * (i - 1) <= a + w
    PROVE  bins * Cardinality(S) <= w + (bins - 1)
<1> DEFINE c == a \div bins
           d == (a + w) \div bins
           x == a % bins
           y == (a + w) % bins
<1>1. c \in Nat /\ x \in 0 .. bins - 1 /\ a = bins * c + x
  BY Division
<1>2. d \in Nat /\ y \in 0 .. bins - 1 /\ a + w = bins * d + y
  <2>1. a + w \in Nat
    OBVIOUS
  <2> QED BY <2>1, Division
<1> HIDE DEF c, d, x, y
<1>3. c <= d
  <2>1. ASSUME d < c PROVE FALSE
    <3>1. (d + 1) * bins <= c * bins
      BY <1>1, <1>2, <2>1, ProductIsMonotonic
    <3> QED BY <1>1, <1>2, <3>1
  <2> QED BY <1>1, <1>2, <2>1
<1>4. ASSUME NEW i \in S PROVE i \in c + 2 .. d + 1
  <2>1. i \in Nat /\ i > 0
    OBVIOUS
  <2> DEFINE row == bins * (i - 1)
  <2>2. row \in Nat /\ a < row /\ row <= a + w
    BY <2>1
  <2>3. c + 2 <= i
    <3>1. ASSUME i - 1 <= c PROVE FALSE
      <4>1. (i - 1) * bins <= c * bins
        BY <1>1, <2>1, <3>1, ProductIsMonotonic
      <4>2. row <= bins * c /\ bins * c \in Nat
        BY <1>1, <2>1, <4>1
      <4> HIDE DEF row
      <4> QED BY <1>1, <2>2, <4>2
    <3> QED BY <1>1, <2>1, <3>1
  <2>4. i <= d + 1
    <3>1. ASSUME d + 1 <= i - 1 PROVE FALSE
      <4>1. (d + 1) * bins <= (i - 1) * bins
        BY <1>2, <2>1, <3>1, ProductIsMonotonic
      <4>2. bins * d + bins <= row /\ bins * d \in Nat
        BY <1>2, <2>1, <4>1
      <4> HIDE DEF row
      <4> QED BY <1>2, <2>2, <4>2
    <3> QED BY <1>2, <2>1, <3>1
  <2> QED BY <1>1, <1>2, <2>1, <2>3, <2>4
<1>5. Cardinality(S) \in Nat /\ Cardinality(S) <= d - c
  <2>1. /\ IsFiniteSet(c + 2 .. d + 1)
        /\ Cardinality(c + 2 .. d + 1) = d - c
    <3>1. c + 2 \in Int /\ d + 1 \in Int
      BY <1>1, <1>2
    <3>2. /\ IsFiniteSet(c + 2 .. d + 1)
          /\ Cardinality(c + 2 .. d + 1) =
                IF c + 2 > d + 1 THEN 0 ELSE (d + 1) - (c + 2) + 1
      BY <3>1, FS_Interval
    <3> QED BY <1>1, <1>2, <1>3, <3>2
  <2> QED BY <1>4, <2>1, FS_Subset, FS_CardinalityType
<1>6. Cardinality(S) * bins <= (d - c) * bins
  BY <1>1, <1>2, <1>3, <1>5, ProductIsMonotonic
<1>7. (d - c) * bins = bins * d - bins * c
  BY <1>1, <1>2
<1> QED
  <2> DEFINE p == bins * d  q == bins * c  r == bins * Cardinality(S)
  <2>1. p \in Int /\ q \in Int /\ r \in Int /\ r <= p - q
    BY <1>1, <1>2, <1>5, <1>6, <1>7
  <2>2. a = q + x /\ a + w = p + y
    BY <1>1, <1>2
  <2> HIDE DEF p, q, r
  <2>3. r <= w + (bins - 1)
    BY <1>1, <1>2, <2>1, <2>2
  <2> QED BY <2>3 DEF r

\* compute_psi: for every number of bins, every reference the constants allow and
\* every choice of rounded edges, no bin is overfull.
THEOREM NoBinIsOverfull == Spec => []BinsAreBalanced
<1>1. Init => BinsAreBalanced
  BY CallsAreNamed DEF BinsAreBalanced
<1>2. ASSUME BinsAreBalanced, [Next]_call PROVE BinsAreBalanced'
  <2>1. CASE PsiResult
    <3>1. PICK n \in 1 .. 6 : \E ref \in Sorted(n) : call'.ref = ref
      <4>1. RefSizes \subseteq 1 .. 6
        BY InputsAreNat
      <4> QED BY <2>1, <4>1 DEF PsiResult
    <3> DEFINE s == call'.ref
    <3>0. s \in Sorted(n)
      BY <3>1
    <3> HIDE DEF s
    <3>2. /\ Monotone(s, n) /\ DOMAIN s = 1 .. n /\ Len(s) = n /\ n \in Nat \ {0}
      <4>1. n \in Nat
        OBVIOUS
      <4>2. Monotone(s, n)
        BY <3>0, <4>1, SortedIsMonotone
      <4>3. DOMAIN s = 1 .. n /\ Len(s) = n
        BY <3>0, <4>1, LenProperties, InputsAreNat DEF Sorted
      <4> QED BY <4>2, <4>3
    <3>3. Bins \in Nat \ {0}
      BY BinsAndTops
    <3> DEFINE rounded == call'.rounded
               rows(b) == RowsOf(b, s, s, Bins, rounded)
               above(b) == {i \in rows(b) : \E j \in rows(b) : s[j] < s[i]}
    <3> HIDE DEF rounded
    <3>4. ASSUME NEW b \in 1 .. Bins
          PROVE  Bins * Cardinality(above(b)) <= (n - 1) + (Bins - 1)
      <4>1. above(b) \in SUBSET (1 .. n)
        BY <3>2 DEF RowsOf
      <4>2. ASSUME NEW i \in above(b)
            PROVE  /\ (n - 1) * (b - 1) < Bins * (i - 1)
                   /\ Bins * (i - 1) <= (n - 1) * (b - 1) + (n - 1)
        <5>1. PICK j \in rows(b) : s[j] < s[i]
          OBVIOUS
        <5>2. /\ i \in 1 .. n /\ j \in 1 .. n
              /\ BinOf(s[i], s, Bins, rounded) = b /\ BinOf(s[j], s, Bins, rounded) = b
          BY <3>2 DEF RowsOf
        <5> QED BY <3>2, <3>3, <5>1, <5>2, RowsAbove
      <4> HIDE DEF above
      <4>3. (n - 1) * (b - 1) \in Nat /\ n - 1 \in Nat
        BY <3>2
      <4> QED BY <3>2, <3>3, <4>1, <4>2, <4>3, RowsBetween
    <3> QED BY <3>2, <3>4 DEF BinsAreBalanced, s, rounded
  <2>2. CASE UNCHANGED call
    BY <1>2, <2>2 DEF BinsAreBalanced
  <2>3. CASE Train \/ Chi2Result \/ ComputeOutputDrift \/ BuildDriftReport \/ Return
    BY <2>3, CallsAreNamed DEF BinsAreBalanced
  <2> QED BY <1>2, <2>1, <2>2, <2>3 DEF Next
<1> QED BY <1>1, <1>2, PTL DEF Spec

-----------------------------------------------------------------------------
(* Rows of unknown categories.                                             *)

\* One term of the statistic against a linear bound, which is the square of
\* d + u * r being no less than 0: d is the difference of a category, times n, and
\* u the number of unknown rows.
LEMMA TermIsAbove ==
    ASSUME NEW r \in Nat \ {0}, NEW q \in Nat \ {0}, NEW d \in Int, NEW u \in Nat
    PROVE  d * d * q >= (-2 * u * (r * q)) * d + (-1 * u * u * (r * q)) * r
<1> DEFINE w == d + u * r
<1>1. w \in Int /\ w * w \in Nat
  OBVIOUS
<1>2. (w * w) * q \in Nat
  BY <1>1
<1>3. w * w = d * d + 2 * u * r * d + u * u * r * r
  OBVIOUS
<1>4. (d * d + 2 * u * r * d + u * u * r * r) * q >= 0
  BY <1>2, <1>3
<1> QED BY <1>4

\* The bound of a term in the counts of its category, x of the window and r of the
\* reference; and the sum of those bounds over the categories.
LEMMA BoundInCounts ==
    ASSUME NEW e \in Int, NEW f \in Int, NEW n \in Int, NEW rows \in Int,
           NEW x \in Int, NEW r \in Int
    PROVE  (-1 * e) * (n * x - r * rows) + (-1 * f) * r
              = (-1 * (e * n)) * x + (e * rows - f) * r
OBVIOUS

LEMMA BoundOfTotal ==
    ASSUME NEW e \in Int, NEW f \in Int, NEW n \in Int, NEW total \in Int, NEW u \in Int
    PROVE  (-1 * (e * n)) * total + (e * (total + u) - f) * n = (e * u) * n - f * n
OBVIOUS

IsAbove(ref, cur, u) ==
    \E n \in Nat \ {0}, p \in Nat \ {0}, total \in Nat, t \in Int :
       /\ Total(cur) = total
       /\ Statistic(ref, cur, u) = <<t, n * (total + u) * p>>
       /\ t >= n * p * (u * u)

\* The statistic of a window of which u rows are unknown, as a fraction of n * rows
\* and the product of the reference counts, is at least u * u / rows.
LEMMA StatisticIsAbove ==
    ASSUME NEW k \in Nat \ {0}, NEW ref \in [1 .. k -> Nat \ {0}], NEW cur \in [1 .. k -> Nat],
           NEW u \in Nat
    PROVE  IsAbove(ref, cur, u)
<1> DEFINE n == Total(ref)
           total == Total(cur)
           rows == WindowRows(cur, u)
           p == Product(ref)
           term == [c \in 1 .. k |->
                       (n * cur[c] - ref[c] * rows) * (n * cur[c] - ref[c] * rows)
                          * (p \div ref[c])]
           t == SumFunctionOnSet(term, 1 .. k)
           e == 2 * u * p
           f == u * u * p
           a == -1 * (e * n)
           b == e * rows - f
<1>1. IsFiniteSet(1 .. k) /\ DOMAIN ref = 1 .. k /\ DOMAIN cur = 1 .. k
  BY FS_Interval
<1>2. n \in Nat \ {0} /\ n = SumFunctionOnSet(ref, 1 .. k)
  <2>1. n = SumFunctionOnSet(ref, 1 .. k)
    BY <1>1 DEF Total, SumFunction
  <2>2. ref \in [1 .. k -> Nat] /\ 1 \in 1 .. k /\ ref[1] \in Nat \ {0}
    OBVIOUS
  <2> HIDE DEF n
  <2> QED BY <1>1, <2>1, <2>2, SumIsAtLeast
<1>3. total \in Nat /\ total = SumFunctionOnSet(cur, 1 .. k)
  <2>1. total = SumFunctionOnSet(cur, 1 .. k)
    BY <1>1 DEF Total, SumFunction
  <2> HIDE DEF total
  <2> QED BY <1>1, <2>1, SumIsAtLeast
<1>4. rows = total + u
  BY DEF WindowRows
<1>5. /\ p \in Nat \ {0}
      /\ \A c \in 1 .. k : p \div ref[c] \in Nat \ {0} /\ ref[c] * (p \div ref[c]) = p
  <2>1. p = Multiplied(ref, 1 .. k)
    BY <1>1 DEF Product, FoldFunction, Multiplied
  <2> HIDE DEF p
  <2> QED BY <1>1, <2>1, ProductOfFactors
<1>6. Statistic(ref, cur, u) = <<t, n * rows * p>>
  BY <1>1 DEF Statistic, SumFunction
<1> HIDE DEF n, total, rows, p
<1>7. rows \in Nat
  BY <1>3, <1>4
<1>8. e \in Int /\ f \in Int /\ -2 * u * p = -1 * e /\ -1 * u * u * p = -1 * f
  BY <1>5
<1>9. e * u = 2 * f
  BY <1>5
<1> HIDE DEF e, f
<1>10. a \in Int /\ b \in Int
  BY <1>2, <1>7, <1>8
<1>11. ASSUME NEW c \in 1 .. k
      PROVE  term[c] \in Int /\ term[c] >= a * cur[c] + b * ref[c]
  <2> DEFINE r == ref[c]  q == p \div ref[c]  x == cur[c]  d == n * x - r * rows
  <2>1. r \in Nat \ {0} /\ q \in Nat \ {0} /\ x \in Nat /\ r * q = p
    BY <1>5
  <2>2. term[c] = d * d * q
    OBVIOUS
  <2> HIDE DEF r, q, x, term
  <2>3. d \in Int
    BY <1>2, <1>7, <2>1
  <2>4. d * d * q >= (-2 * u * (r * q)) * d + (-1 * u * u * (r * q)) * r
    BY <2>1, <2>3, TermIsAbove
  <2>5. d * d * q >= (-2 * u * p) * d + (-1 * u * u * p) * r
    BY <2>1, <2>4
  <2>6. (-1 * e) * d + (-1 * f) * r = a * x + b * r
    <3>1. e \in Int /\ f \in Int /\ n \in Int /\ rows \in Int /\ x \in Int /\ r \in Int
      BY <1>2, <1>7, <1>8, <2>1
    <3> QED BY <3>1, BoundInCounts
  <2>7. d * d * q \in Int
    BY <2>1, <2>3
  <2> QED BY <1>8, <2>2, <2>5, <2>6, <2>7 DEF r, x
<1>12. t \in Int /\ t >= a * total + b * n
  <2>1. term \in [1 .. k -> Int] /\ cur \in [1 .. k -> Int] /\ ref \in [1 .. k -> Int]
    BY <1>11
  <2>2. \A c \in 1 .. k : term[c] >= a * cur[c] + b * ref[c]
    BY <1>11
  <2> HIDE DEF term, a, b
  <2> QED BY <1>1, <1>2, <1>3, <1>10, <2>1, <2>2, SumIsLinear
<1>13. a * total + b * n = n * p * (u * u)
  <2>1. a * total + b * n = (e * u) * n - f * n
    <3>1. e \in Int /\ f \in Int /\ n \in Int /\ total \in Int /\ u \in Int
      BY <1>2, <1>3, <1>8
    <3>2. b = e * (total + u) - f
      BY <1>4
    <3> HIDE DEF b
    <3> QED BY <3>1, <3>2, BoundOfTotal
  <2>2. (2 * f) * n - f * n = f * n
    BY <1>2, <1>8
  <2>3. f * n = n * p * (u * u)
    BY <1>2, <1>5 DEF f
  <2> QED BY <1>9, <2>1, <2>2, <2>3
<1> HIDE DEF t
<1> QED BY <1>2, <1>3, <1>4, <1>5, <1>6, <1>12, <1>13 DEF total, IsAbove

\* chi2_result: unknown categories are seen, for every number of rows of the test
\* part and of the window.
THEOREM UnknownsAreSeen == Spec => []UnknownIsSeen
<1>1. Init => UnknownIsSeen
  BY CallsAreNamed DEF UnknownIsSeen
<1>2. ASSUME UnknownIsSeen, [Next]_call PROVE UnknownIsSeen'
  <2>1. CASE Chi2Result
    <3>1. PICK k \in 1 .. 3 : \E ref \in [1 .. k -> Nat \ {0}] :
             \E cur \in [1 .. k -> Nat], unknown \in Nat :
                call' = [fn |-> "chi2", ref |-> ref, cur |-> cur, unknown |-> unknown,
                         severity |-> Chi2Severity(Statistic(ref, cur, unknown), Dof(ref))]
      <4>1. PICK ref \in CategoryCounts :
               \E cur \in [DOMAIN ref -> WindowCounts], unknown \in Unknown :
                  call' = [fn |-> "chi2", ref |-> ref, cur |-> cur, unknown |-> unknown,
                           severity |-> Chi2Severity(Statistic(ref, cur, unknown), Dof(ref))]
        BY <2>1 DEF Chi2Result
      <4>2. PICK k \in 1 .. Categories : ref \in [1 .. k -> RefCounts]
        BY DEF CategoryCounts
      <4>3. k \in 1 .. 3 /\ ref \in [1 .. k -> Nat \ {0}] /\ DOMAIN ref = 1 .. k
        <5>1. k \in 1 .. 3
          BY <4>2, FewCategories
        <5>2. RefCounts \subseteq Nat \ {0}
          BY InputsAreNat
        <5> QED BY <4>2, <5>1, <5>2
      <4>4. Unknown \subseteq Nat /\ [1 .. k -> WindowCounts] \subseteq [1 .. k -> Nat]
        BY InputsAreNat
      <4> QED BY <4>1, <4>3, <4>4
    <3>2. PICK ref \in [1 .. k -> Nat \ {0}], cur \in [1 .. k -> Nat], unknown \in Nat :
             call' = [fn |-> "chi2", ref |-> ref, cur |-> cur, unknown |-> unknown,
                      severity |-> Chi2Severity(Statistic(ref, cur, unknown), Dof(ref))]
      BY <3>1
    <3>3. PICK n \in Nat \ {0}, p \in Nat \ {0}, total \in Nat, t \in Int :
              /\ Total(cur) = total
              /\ Statistic(ref, cur, unknown) = <<t, n * (total + unknown) * p>>
              /\ t >= n * p * (unknown * unknown)
      <4>1. k \in Nat \ {0}
        OBVIOUS
      <4>2. IsAbove(ref, cur, unknown)
        BY <4>1, StatisticIsAbove
      <4> QED BY <4>2 DEF IsAbove
    <3>4. PICK critical \in Nat : Critical.high[Dof(ref)] = critical
      <4>1. Len(ref) = k
        BY LenProperties
      <4>2. Dof(ref) \in 1 .. 2
        BY <4>1 DEF Dof
      <4> QED BY <4>2 DEF Critical
    <3>5. ASSUME 1000 * (unknown * unknown) > critical * (total + unknown)
          PROVE  1000 * t > critical * (n * (total + unknown) * p)
      <4> DEFINE w == n * p  x == 1000 * (unknown * unknown)  y == critical * (total + unknown)
      <4>1. w \in Nat \ {0} /\ x \in Nat /\ y \in Nat /\ y + 1 <= x
        BY <3>5
      <4>2. 1000 * (w * (unknown * unknown)) = x * w
        OBVIOUS
      <4>3. critical * (n * (total + unknown) * p) = y * w
        OBVIOUS
      <4> HIDE DEF x, y
      <4>4. (y + 1) * w <= x * w
        BY <4>1, ProductIsMonotonic
      <4>5. (y + 1) * w = y * w + w
        BY <4>1
      <4>6. 1000 * t >= 1000 * (w * (unknown * unknown))
        BY <3>3, <4>1
      <4> QED BY <4>1, <4>2, <4>3, <4>4, <4>5, <4>6
    <3>6. ASSUME Exceeds(<<unknown * unknown, total + unknown>>, critical)
          PROVE  call'.severity = "high"
      <4>1. 1000 * (unknown * unknown) > critical * (total + unknown)
        BY <3>6 DEF Exceeds
      <4>2. Exceeds(Statistic(ref, cur, unknown), critical)
        BY <3>3, <3>5, <4>1 DEF Exceeds
      <4> QED BY <3>2, <3>4, <4>2 DEF Chi2Severity
    <3>7. call'.ref = ref /\ call'.cur = cur /\ call'.unknown = unknown
      BY <3>2
    <3> QED BY <3>3, <3>4, <3>6, <3>7 DEF UnknownIsSeen
  <2>2. CASE UNCHANGED call
    BY <1>2, <2>2 DEF UnknownIsSeen
  <2>3. CASE Train \/ PsiResult \/ ComputeOutputDrift \/ BuildDriftReport \/ Return
    BY <2>3, CallsAreNamed DEF UnknownIsSeen
  <2> QED BY <1>2, <2>1, <2>2, <2>3 DEF Next
<1> QED BY <1>1, <1>2, PTL DEF Spec
===============================================================================
