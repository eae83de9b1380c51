-------------------------------- MODULE DriftMath --------------------------------
(***************************************************************************)
(* The tests of drift/ over integers: PSI on quantile bins, chi-squared on *)
(* categories, output drift, the report they are aggregated into, and its  *)
(* two summaries, the top features of the webhook and of the dashboard.    *)
(* Reference distributions come from Training.  PSI and statistics are in  *)
(* thousandths.                                                            *)
(***************************************************************************)
EXTENDS Training

CONSTANTS
    Bins,        \* bins of a numeric feature
    RefSizes, WindowSizes,   \* inputs: rows of the test part, of the window
    Value,       \* inputs: values of a numeric feature
    Categories,  \* inputs: the largest number of categories of a feature
    RefCounts, WindowCounts, Unknown,
                 \* inputs: rows of a category in the test part and in the window,
                 \* rows of unknown categories in the window
    LabelRows,   \* inputs: rows of the test part and of the window, for labels
    Top,         \* features in the webhook
    DashboardTop \* features on the dashboard

ASSUME BinsAndTops == {Bins, Top, DashboardTop} \subseteq Nat \ {0, 1}
ASSUME InputsAreNat ==
    /\ RefSizes \cup WindowSizes \subseteq 1 .. 6
    /\ Value \subseteq Nat
    /\ RefCounts \subseteq Nat \ {0}
    /\ WindowCounts \cup Unknown \subseteq Nat
    /\ LabelRows \in Nat \ {0}
\* Critical goes up to two degrees of freedom.
ASSUME FewCategories == Categories \in 1 .. 3

SeverityRank == [low |-> 0, medium |-> 1, high |-> 2]
Worse(s, t) == SeverityRank[s] > SeverityRank[t]

Total(counts) == SumFunction(counts)

-----------------------------------------------------------------------------
(* psi.py.  A series is sorted: PSI does not depend on its order.          *)

Sorted(n) == {s \in [1 .. n -> Value] : \A i \in 1 .. n - 1 : s[i] <= s[i + 1]}

\* np.nanquantile at k/bins, multiplied by bins.
\* Mutant: equal widths instead of quantiles.
EqualWidth(s, k, bins) == (bins - k) * s[1] + k * s[Len(s)]
Quantile(s, k, bins) ==
    LET pos == (Len(s) - 1) * k
        lo  == pos \div bins + 1
    IN  bins * s[lo] + (pos % bins) * (IF lo < Len(s) THEN s[lo + 1] - s[lo] ELSE 0)

\* The outer edges are infinite.  Mutant: one edge too few.
OneEdgeLess(bins) == 1 .. bins - 2
InnerEdges(bins) == 1 .. bins - 1

\* np.nanquantile computes with floats.  The edges in "rounded" come out just above
\* the value above: np.linspace(0, 1, 6)[3] is above 0.6.  An edge just below it bins
\* no value differently, and one between equal values is exact.
Interpolates(s, k, bins) ==
    LET lo == ((Len(s) - 1) * k) \div bins + 1
    IN  lo < Len(s) /\ s[lo] # s[lo + 1]
EdgeAtMost(v, ref, k, bins, rounded) ==
    \/ Quantile(ref, k, bins) < bins * v
    \/ Quantile(ref, k, bins) = bins * v /\ ~(k \in rounded /\ Interpolates(ref, k, bins))

\* np.histogram: bins are closed on the left.
BinOf(v, ref, bins, rounded) ==
    1 + Cardinality({k \in InnerEdges(bins) : EdgeAtMost(v, ref, k, bins, rounded)})
RowsOf(b, series, ref, bins, rounded) ==
    {i \in DOMAIN series : BinOf(series[i], ref, bins, rounded) = b}
Histogram(series, ref, bins, rounded) ==
    [b \in 1 .. bins |-> Cardinality(RowsOf(b, series, ref, bins, rounded))]

\* Natural logarithms of the counts that occur, and of the epsilon that is added
\* to a share.
Ln(count) == CASE count \in 1 .. 6 -> <<0, 693, 1099, 1386, 1609, 1792>>[count]
               [] count = 100 -> 4605
               [] count = 200 -> 5298
LnEpsilon == -18421
LnShare(count, total) == CASE count = 0 -> LnEpsilon
                           [] count = total -> 0
                           [] OTHER -> Ln(count) - Ln(total)

\* What one bin adds, from its counts and the totals, times both totals.
PsiTerm(r, n, c, m) == (c * n - r * m) * (LnShare(c, m) - LnShare(r, n))

ComputePsi(ref, cur, bins, rounded) ==
    LET r == Histogram(ref, ref, bins, rounded)
        c == Histogram(cur, ref, bins, rounded)
        n == Total(r)
        m == Total(c)
        term == [b \in 1 .. bins |-> PsiTerm(r[b], n, c[b], m)]
    IN  SumFunction(term) \div (n * m)

PsiSeverity(psi) == IF psi >= 250 THEN "high" ELSE IF psi >= 100 THEN "medium" ELSE "low"

PsiResult ==
    /\ call = Idle
    /\ \E n \in RefSizes, m \in WindowSizes :
          \E ref \in Sorted(n), cur \in Sorted(m), rounded \in SUBSET InnerEdges(Bins) :
             call' = [fn |-> "psi", ref |-> ref, cur |-> cur, rounded |-> rounded,
                      severity |-> PsiSeverity(ComputePsi(ref, cur, Bins, rounded))]

-----------------------------------------------------------------------------
(* chi2.py, over counts: of each category in the test part, of each of     *)
(* these in the window, and of unknown categories in the window.           *)

Product(counts) == FoldFunction(LAMBDA a, b : a * b, 1, counts)

\* Mutant: rows of unknown categories are dropped first.
KnownRows(cur, unknown) == Total(cur)
WindowRows(cur, unknown) == Total(cur) + unknown

\* The sum of (observed - expected)^2 / expected as a pair; expected is
\* ref[c] * rows / n.
Statistic(ref, cur, unknown) ==
    LET n    == Total(ref)
        rows == WindowRows(cur, unknown)
        term == [c \in DOMAIN ref |->
                    (n * cur[c] - ref[c] * rows) * (n * cur[c] - ref[c] * rows)
                       * (Product(ref) \div ref[c])]
    IN  <<SumFunction(term), n * rows * Product(ref)>>

\* scipy's chi2.cdf: the statistics at which p is 0.05 and 0.01.
Critical == [medium |-> <<3841, 5991>>, high |-> <<6635, 9210>>]
Dof(ref) == IF Len(ref) > 1 THEN Len(ref) - 1 ELSE 1

Exceeds(stat, critical) == 1000 * stat[1] > critical * stat[2]

Chi2Severity(stat, dof) ==
    IF Exceeds(stat, Critical.high[dof]) THEN "high"
    ELSE IF Exceeds(stat, Critical.medium[dof]) THEN "medium" ELSE "low"

\* Frequencies of the test part have no zero: value_counts lists what occurs.
CategoryCounts == UNION {[1 .. k -> RefCounts] : k \in 1 .. Categories}

Chi2Result ==
    /\ call = Idle
    /\ \E ref \in CategoryCounts :
          \E cur \in [DOMAIN ref -> WindowCounts], unknown \in Unknown :
             /\ WindowRows(cur, unknown) > 0
             /\ call' = [fn |-> "chi2", ref |-> ref, cur |-> cur, unknown |-> unknown,
                         severity |-> Chi2Severity(Statistic(ref, cur, unknown), Dof(ref))]

-----------------------------------------------------------------------------
(* output_drift.py: the reference is rebuilt from the rate of class 1 as a *)
(* hundred zeros and a number of ones.                                     *)

RebuiltReference(rate) ==
    [i \in 1 .. 100 |-> 0] \o [i \in 1 .. (100 * rate[1]) \div rate[2] |-> 1]

Labels(score, t) == [i \in DOMAIN score |-> IF score[i] >= t THEN 1 ELSE 0]

\* The scores of the test part and of the window, and the operating threshold.  The
\* one inner edge of two bins is at 0.5, which is a float.
ComputeOutputDrift ==
    /\ call = Idle
    /\ \E test, window \in [1 .. LabelRows -> 0 .. Grid], t \in 1 .. Grid :
          LET reference == RebuiltReference(ReferenceRate(test))
              psi == ComputePsi(reference, Labels(window, t), 2, {})
          IN  call' = [fn |-> "output", test |-> Labels(test, t),
                       window |-> Labels(window, t), severity |-> PsiSeverity(psi)]

-----------------------------------------------------------------------------
(* severity.py: the report and its webhook.                                *)

\* A p of 0 is one that underflows.
PsiResults  == [metric : {"psi"}, value : {50, 150, 300}, p : {-1}]
Chi2Results == [metric : {"chi2"}, value : {4000, 9000}, p : {0, 5, 30, 500}]

SeverityOf(r) ==
    IF r.metric = "psi" THEN PsiSeverity(r.value)
    ELSE IF r.p < 10 THEN "high" ELSE IF r.p < 50 THEN "medium" ELSE "low"

AggregateSeverity(severities) ==
    CHOOSE s \in severities : \A t \in severities : ~Worse(t, s)

\* sorted(..., reverse=True)[:n] on pairs, which keeps the order of equals.
Larger(j, i) == j[1] > i[1] \/ (j[1] = i[1] /\ j[2] > i[2])
Before(keys, j, i) == Larger(keys[j], keys[i]) \/ (keys[j] = keys[i] /\ j < i)
Place(keys, i) == 1 + Cardinality({j \in DOMAIN keys : Before(keys, j, i)})
First(n, items, keys) ==
    [k \in 1 .. Min({n, Len(items)}) |->
        items[CHOOSE i \in DOMAIN items : Place(keys, i) = k]]

\* Mutant: by the value alone.
ValueAlone(items) == [i \in DOMAIN items |-> <<0, items[i].value>>]
WebhookKeys(items) ==
    [i \in DOMAIN items |-> <<SeverityRank[SeverityOf(items[i])], items[i].value>>]

\* The dashboard ranks a category by 1 - p, and takes a p of 0 for none.
\* Mutant: by that alone.
Strength(r) == IF r.metric = "psi" THEN r.value
               ELSE IF r.p = 0 THEN 0 ELSE 1000 - r.p
StrengthAlone(items) == [i \in DOMAIN items |-> <<0, Strength(items[i])>>]
DashboardKeys(items) ==
    [i \in DOMAIN items |-> <<SeverityRank[SeverityOf(items[i])], Strength(items[i])>>]

\* The features that both the window and the reference have, none if the window
\* is empty.
BuildDriftReport ==
    /\ call = Idle
    /\ \E psi \in UNION {[1 .. n -> PsiResults] : n \in 0 .. 2},
          chi2 \in UNION {[1 .. n -> Chi2Results] : n \in 0 .. 2},
          output \in DOMAIN SeverityRank :
             LET features == psi \o chi2
                 all == {SeverityOf(features[i]) : i \in DOMAIN features}
             IN  call' = [fn |-> "report", features |-> features, output |-> output,
                          severity |-> AggregateSeverity(all \cup {output}),
                          webhook |-> First(Top, features, WebhookKeys(features)),
                          dashboard |-> First(DashboardTop, features,
                                              DashboardKeys(features))]

-----------------------------------------------------------------------------
Init == call = Idle

Next == \/ Train \/ PsiResult \/ Chi2Result \/ ComputeOutputDrift
        \/ BuildDriftReport \/ Return

Spec == Init /\ [][Next]_call

-----------------------------------------------------------------------------
SeveritiesIn(items) == {SeverityOf(items[i]) : i \in DOMAIN items}
Occurrences(s, v) == Cardinality({i \in DOMAIN s : s[i] = v})

\* compute_psi: a window that lies outside the range of the reference is reported
\* high, below it always and above it unless so much of the reference is its
\* minimum that every edge falls on it.
ShiftIsSeen ==
    call.fn = "psi" =>
        LET ref  == call.ref
            last == ref[Len(ref)]
            tied == Bins * (Occurrences(ref, ref[1]) - 1) >= (Bins - 1) * (Len(ref) - 1)
        IN  /\ (\A i \in DOMAIN call.cur : call.cur[i] < ref[1])
                  => call.severity = "high"
            /\ (\A i \in DOMAIN call.cur : call.cur[i] > last)
                  => call.severity = "high" \/ tied

\* compute_psi: whatever ties and however the edges are rounded, no bin has more than
\* its share of the reference, rounded up, besides the rows tied at its least value.
BinsAreBalanced ==
    call.fn = "psi" =>
        \A b \in 1 .. Bins :
            LET rows  == RowsOf(b, call.ref, call.ref, Bins, call.rounded)
                above == {i \in rows : \E j \in rows : call.ref[j] < call.ref[i]}
            IN  Bins * Cardinality(above) <= (Len(call.ref) - 1) + (Bins - 1)

\* chi2_result looks at known categories only, and still u rows of unknown ones
\* among n make the statistic at least u^2 / n.
UnknownIsSeen ==
    call.fn = "chi2" =>
        LET n == Total(call.cur) + call.unknown
            bound == <<call.unknown * call.unknown, n>>
        IN  Exceeds(bound, Critical.high[Dof(call.ref)]) => call.severity = "high"

\* The severity of a report is that of a feature named in the webhook, unless the
\* output drifts more than every feature, and no feature left out of the webhook
\* is more severe than one that is in it.
WebhookExplainsSeverity ==
    call.fn = "report" =>
        /\ \/ call.severity \in SeveritiesIn(call.webhook)
           \/ /\ call.severity = call.output
              /\ \A s \in SeveritiesIn(call.features) : Worse(call.output, s)
        /\ \A i \in DOMAIN call.features :
              \/ \E k \in DOMAIN call.webhook : call.webhook[k] = call.features[i]
              \/ \A k \in DOMAIN call.webhook :
                    ~Worse(SeverityOf(call.features[i]), SeverityOf(call.webhook[k]))

\* The dashboard and the webhook rank features differently and still show the
\* same severities, place by place.
ViewsAgree ==
    call.fn = "report" =>
        \A k \in DOMAIN call.webhook \cap DOMAIN call.dashboard :
            SeverityOf(call.webhook[k]) = SeverityOf(call.dashboard[k])

\* README.md:140, "catches silent drift where features look stable but model
\* output has shifted": labels that are all 0 in the test part and all 1 in the
\* window are reported.
OutputShiftIsSeen ==
    (/\ call.fn = "output"
     /\ \A i \in DOMAIN call.test : call.test[i] = 0
     /\ \A i \in DOMAIN call.window : call.window[i] = 1)
        => call.severity # "low"
=============================================================================
