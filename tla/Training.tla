-------------------------------- MODULE Training --------------------------------
(***************************************************************************)
(* ml/train.py and what it calls: the split of the data, the threshold of  *)
(* each candidate, the choice of the best, and the output proportions kept *)
(* for drift detection.  Nothing here interacts, so that the state is one  *)
(* call of a function: its arguments and its result.  A fitted pipeline is *)
(* the scores it gives; probabilities are multiples of 1/Grid and rates    *)
(* are pairs <<numerator, denominator>>.                                   *)
(***************************************************************************)
EXTENDS Integers, Sequences, FiniteSets, SequencesExt

CONSTANTS
    Grid,         \* the score that stands for probability 1
    MinRecall,    \* min_recall, in percent
    Candidates,   \* how many CANDIDATE_MODELS there are
    Datasets      \* inputs: pairs of numbers of rows and of positive rows

ASSUME GridIsEven == Grid \in Nat \ {0} /\ Grid % 2 = 0
ASSUME RecallIsPercent == MinRecall \in 1 .. 100
ASSUME SomeCandidates == Candidates \in Nat \ {0}
\* Stratification is exact on multiples of five, which is all it is used for.
ASSUME DatasetsStratify ==
    /\ Datasets \subseteq Nat \X Nat
    /\ \A d \in Datasets : d[1] % 5 = 0 /\ d[2] % 5 = 0 /\ 0 < d[2] /\ d[2] < d[1]

VARIABLE call   \* the call that has just returned, or Idle

Idle == [fn |-> "idle"]

Return == call.fn # "idle" /\ call' = Idle

-----------------------------------------------------------------------------
(* data.py: 60/20/20, the test parts rounded up.                           *)

Half(n) == (n + 1) \div 2

Split(n) == LET temp == (2 * n + 4) \div 5
            IN  [train |-> n - temp, val |-> temp - Half(temp), test |-> Half(temp)]

-----------------------------------------------------------------------------
(* A sample is what a candidate scores on one part; its first pos rows are *)
(* the positive ones.                                                      *)

Samples(rows, pos) == [score : [1 .. rows -> 0 .. Grid], pos : {pos}]

LabelledOne(s, t) == {i \in DOMAIN s.score : s.score[i] >= t}
TruePositives(s, t) == Cardinality(LabelledOne(s, t) \cap 1 .. s.pos)

Recall(s, t) == <<TruePositives(s, t), s.pos>>
F1(s, t) == <<2 * TruePositives(s, t), s.pos + Cardinality(LabelledOne(s, t))>>

AtMost(p, q) == p[1] * q[2] <= q[1] * p[2]

\* precision_recall_curve: one point for each score that occurs.
Thresholds(s) == {s.score[i] : i \in DOMAIN s.score}

\* Mutants: the recall has to exceed its minimum; any recall will do.
MoreRecall(s, t) == 100 * TruePositives(s, t) > MinRecall * s.pos
AnyRecall(s, t) == TruePositives(s, t) >= 0
EnoughRecall(s, t) == 100 * TruePositives(s, t) >= MinRecall * s.pos

BestF1(s) == LET best == {t \in Thresholds(s) :
                             \A u \in Thresholds(s) : AtMost(F1(s, u), F1(s, t))}
             IN  Min(best)

FindThreshold(s) == LET enough == {t \in Thresholds(s) : EnoughRecall(s, t)}
                    IN  IF enough # {} THEN Max(enough) ELSE BestF1(s)

-----------------------------------------------------------------------------
(* train: each candidate at its own threshold, the first best by F1.       *)

Evaluated(s) == LET t == FindThreshold(s)
                IN  [threshold |-> t, recall |-> Recall(s, t), f1 |-> F1(s, t)]

Best(results) == Min({c \in DOMAIN results :
                         \A d \in DOMAIN results :
                            AtMost(results[d].f1, results[c].f1)})

Train ==
    /\ call = Idle
    /\ \E d \in Datasets :
          \E val \in [1 .. Candidates -> Samples(Split(d[1]).val, Split(d[2]).val)] :
             LET results == [c \in 1 .. Candidates |-> Evaluated(val[c])] IN
             call' = [fn |-> "train", val |-> val, best |-> Best(results),
                      result |-> results[Best(results)]]

-----------------------------------------------------------------------------
(* reference_stats.py: the share of class 1 on the test part, at 0.5 and   *)
(* not at the operating threshold.                                         *)

ReferenceRate(score) ==
    <<Cardinality({i \in DOMAIN score : 2 * score[i] >= Grid}), Len(score)>>

-----------------------------------------------------------------------------
\* find_threshold: the highest threshold with enough recall, also among those
\* between two scores, which the curve leaves out.
ThresholdIsHighest ==
    call.fn = "train" =>
        LET s == call.val[call.best] IN
           /\ 100 * TruePositives(s, call.result.threshold) >= MinRecall * s.pos
           /\ \A t \in 0 .. Grid + 1 :
                 100 * TruePositives(s, t) >= MinRecall * s.pos
                    => t <= call.result.threshold

\* Whatever the candidates score on a stratified split, the recall that is tagged
\* on the version passes the third gate of the promotion, and no candidate that
\* passes it has a higher F1.
TrainedModelPassesGate ==
    call.fn = "train" =>
        /\ AtMost(<<MinRecall, 100>>, call.result.recall)
        /\ \A c \in 1 .. Candidates :
              AtMost(F1(call.val[c], FindThreshold(call.val[c])), call.result.f1)
=============================================================================
