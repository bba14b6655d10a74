---------------------------- MODULE CreatorStats ----------------------------
(***************************************************************************)
(* The creator statistics: what CreatorStatsService computes from the      *)
(* snapshots that scrapes leave behind.  Scrapes come when they come: days *)
(* without a reading, two readings on a day, broken readings of zero, dips,*)
(* old posts that are found late, views that come later than likes.  The   *)
(* reports are operators over the tables; the properties compare them with *)
(* each other and with definitions that do not go the way of the code.     *)
(*                                                                         *)
(* A day's last profile row stands for the day; posts are numbered by      *)
(* posted_at.  Rates, velocities and labels are left out.                  *)
(***************************************************************************)
EXTENDS Integers, FiniteSets, Sequences, Functions, FiniteSetsExt

CONSTANTS
  Subjects,      (* the kinds of behaviours, each with bounds of its own     *)
  MaxDays,       (* bound, by subject: the days of a behaviour               *)
  MaxPosts,      (* bound, by subject: the posts                             *)
  Values,        (* bound, by subject: the readings of a profile             *)
  Readings,      (* bound, by subject: the metrics rows of posts             *)
  Charts,        (* bound, by subject: the days that a chart shows           *)
  Thresholds,    (* MILESTONE_THRESHOLDS                                     *)
  Window,        (* the days that the summary looks back                     *)
  Lookback,      (* OUTLIER_LOOKBACK_POSTS                                   *)
  MinPosts,      (* MIN_POSTS_FOR_OUTLIER                                    *)
  Rescored,      (* RECENT_RESCORE_WINDOW                                    *)
  Limit,         (* the posts a page shows                                   *)
  Candidates,    (* TOP_SORT_CANDIDATE_POOL                                  *)
  Widened,       (* how many pages are fetched to find one of a format       *)
  Shorts         (* the posts of the format that a page may be filtered by   *)

Null  == 0 - 1                              (* NULL; and: there is no row    *)
Blank == [views |-> Null, likes |-> Null]   (* NULLs, also from outer joins  *)
NoRow == [views |-> 0 - 2, likes |-> 0 - 2]

ASSUME StatsAssumption ==
  /\ \A s \in Subjects :
       /\ MaxDays[s] \in Nat \ {0} /\ MaxPosts[s] \in Nat
       /\ Values[s] \subseteq Nat
       /\ Readings[s] \subseteq [views : Nat \union {Null}, likes : Nat \union {Null}]
       /\ Charts[s] \subseteq Nat
  /\ {Window, Lookback, Rescored, Limit, Candidates, Widened} \subseteq Nat
  /\ MinPosts \in Nat \ {0}
  /\ Thresholds \subseteq Nat \ {0}

VARIABLES
  subject, days,   (* days: what the charts are asked for                    *)
  today,
  profile,     (* profile[d]: followers or total_views read on day d         *)
  posted,      (* posted[p]: the day of posted_at, 0 before the first scrape *)
  snaps,       (* snaps[p][d]: the post's metrics row of day d               *)
  stored       (* stored[p]: baseline_multiple in post_outlier_metrics       *)

tables == <<subject, days, today, profile, posted, snaps, stored>>

Days    == 1 .. MaxDays[subject]
Posts   == 1 .. Len(posted)
Numbers == 1 .. MaxPosts[subject]

StatsInit ==
  /\ subject \in Subjects
  /\ days \in Charts[subject]
  /\ today = 1
  /\ profile = [d \in Days |-> Null]
  /\ posted = <<>>
  /\ snaps = [p \in Numbers |-> [d \in Days |-> NoRow]]
  /\ stored = [p \in Numbers |-> Null]

-----------------------------------------------------------------------------
(* Arithmetic of the reports.                                              *)

LargestOf(S) == IF S = {} THEN Null ELSE Max(S)

(* sum(f), over the first n.                                                *)
Total(f, n) ==
  LET upTo[i \in Nat] == IF i = 0 THEN 0 ELSE upTo[i - 1] + f[i] IN upTo[n]

(* round(n / d) of Python, halves to even.                                 *)
Rounded(n, d) ==
  LET q == n \div d
      r == n % d
  IN IF 2 * r < d \/ (2 * r = d /\ q % 2 = 0) THEN q ELSE q + 1

(* Photos have no views: their rows have NULL, and older ones zero.        *)
HasViews(row) == row.views \notin {Null, 0}

(* outlier_metric: views, or likes where there are no views.               *)
Usable(row) == IF HasViews(row) THEN row.views ELSE row.likes

OrZero(v) == IF v = Null THEN 0 ELSE v

DaysOf(p)       == {d \in Days : snaps[p][d] # NoRow}
LastBefore(p, d) == LargestOf({e \in DaysOf(p) : e < d})
LastDay(p)      == LargestOf(DaysOf(p))
Latest(p)       == IF DaysOf(p) = {} THEN Blank ELSE snaps[p][LastDay(p)]

-----------------------------------------------------------------------------
(* Outlier scores.                                                         *)

(* The latest metric of each post, and of the last n posts, oldest first.  *)
Metrics      == [p \in Posts |-> Usable(Latest(p))]
LastPosts(n) == SubSeq(Metrics, IF n < Len(posted) THEN Len(posted) - n + 1 ELSE 1, Len(posted))

(* Some posts in an order in which their metrics do not go down.           *)
Ascending(metrics, S) ==
  CHOOSE order \in Bijection(1 .. Cardinality(S), S) :
    \A i, j \in 1 .. Cardinality(S) : i <= j => metrics[order[i]] <= metrics[order[j]]

(* Twice statistics.median.                                                *)
TwiceMedian(metrics, S) ==
  LET order == Ascending(metrics, S)
      n == Cardinality(S)
  IN metrics[order[(n + 1) \div 2]] + metrics[order[(n \div 2) + 1]]

(* The posts that the i-th is measured against: of the last before it,     *)
(* those with a metric.                                                    *)
Prior(metrics, i) == {q \in 1 .. i - 1 : q >= i - Lookback /\ metrics[q] # Null}

(* The score of the i-th of some posts, in hundredths.                     *)
Score(metrics, i) ==
  LET prior == Prior(metrics, i)
  IN IF Cardinality(prior) < MinPosts \/ metrics[i] = Null \/ TwiceMedian(metrics, prior) = 0
     THEN Null ELSE Rounded(200 * metrics[i], TwiceMedian(metrics, prior))

(* The scores of the last k posts, given the metrics of so many or more.   *)
Scores(metrics, k) ==
  LET older == Len(posted) - Len(metrics)
  IN [p \in {q \in Posts : q > Len(posted) - k} |-> Score(metrics, p - older)]

(* The table of stored scores with some of them rewritten.                 *)
WithScores(scores) == [p \in Numbers |-> IF p \in DOMAIN scores THEN scores[p] ELSE stored[p]]

(* Faulty variant: fetches the posts to be scored and no more.             *)
Recompute_NoLookback ==
  \E metrics \in {LastPosts(Rescored)'} : stored' = WithScores(Scores(metrics, Rescored))

(* recompute_outlier_metrics scores the most recent posts again.           *)
Recompute ==
  \E metrics \in {LastPosts(Rescored + Lookback)'} : stored' = WithScores(Scores(metrics, Rescored))

(* How many posts are fetched for a page.                                  *)
Fetched(best, filtered) ==
  IF best THEN Candidates * (IF filtered THEN 2 ELSE 1)
  ELSE (IF filtered THEN Widened * Limit ELSE Limit) + Lookback

(* get_post_performance: the scores on a page of the best or of the latest *)
(* posts, of all of them or of a format.                                   *)
Shown(best, filtered) ==
  LET scores == Scores(LastPosts(Fetched(best, filtered)), Fetched(best, filtered))
      listed == {p \in DOMAIN scores : filtered => p \in Shorts}
      alike(p, q) == scores[p] = scores[q] /\ OrZero(Metrics[p]) = OrZero(Metrics[q])
      better(p, q) == \/ scores[p] > scores[q]
                      \/ scores[p] = scores[q] /\ OrZero(Metrics[p]) > OrZero(Metrics[q])
      ahead(p, q) == (best /\ better(p, q)) \/ ((best => alike(p, q)) /\ p > q)
  IN [p \in {q \in listed : Cardinality({r \in listed : ahead(r, q)}) < Limit} |-> scores[p]]

-----------------------------------------------------------------------------
(* The scrapes.                                                            *)

(* _closest_snapshot: the latest one on a day or before.                   *)
ClosestSnapshot(d) == LargestOf({e \in Days : e <= d /\ profile[e] # Null})

NextDay ==
  /\ today < MaxDays[subject]
  /\ today' = today + 1
  /\ UNCHANGED <<subject, days, profile, posted, snaps, stored>>

(* A later reading of the day takes the place of an earlier one.           *)
ReadProfile(v) ==
  /\ profile' = [profile EXCEPT ![today] = v]
  /\ UNCHANGED <<subject, days, today, posted, snaps, stored>>

(* A scrape, which has committed a reading of the profile, finds a post,   *)
(* made today or before the first scrape.  A post that is found late has no*)
(* row until then.                                                         *)
Publish(d) ==
  /\ ClosestSnapshot(today) # Null
  /\ Len(posted) < MaxPosts[subject]
  /\ d = 0 => \A p \in Posts : posted[p] = 0
  /\ posted' = Append(posted, d)
  /\ UNCHANGED <<subject, days, today, profile, snaps, stored>>

(* The metrics of a post are read, or those that the Graph API knows, and  *)
(* the scores recomputed, unless that fails and is rolled back.            *)
Scrape(p, row) ==
  /\ snaps' = [snaps EXCEPT ![p][today] = row]
  /\ UNCHANGED <<subject, days, today, profile, posted>>
  /\ Recompute \/ UNCHANGED stored

StatsNext ==
  \/ NextDay
  \/ \E v \in Values[subject] : ReadProfile(v)
  \/ \E d \in {0, today} : Publish(d)
  \/ \E p \in Posts, row \in Readings[subject] : Scrape(p, row)

StatsSpec == StatsInit /\ [][StatsNext]_tables

-----------------------------------------------------------------------------
(* Growth of the profile.                                                  *)

(* The first day of a chart.                                               *)
ChartStart == today - days

(* get_growth_series: the readings, by date.                               *)
RawSeries == [d \in {e \in Days : e >= ChartStart /\ profile[e] # Null} |-> profile[d]]

(* Faulty variant: the series as it is.                                    *)
Stripped_Not(series) == series

(* _strip_phantom_zero_lead goes on while a zero is followed by a positive *)
(* value, which is once at most.                                           *)
Stripped(series) ==
  LET later(d) == {e \in DOMAIN series : d < e}
      phantom  == {d \in DOMAIN series :
                     /\ series[d] = 0
                     /\ \A e \in DOMAIN series : d <= e
                     /\ later(d) # {}
                     /\ series[Min(later(d))] > 0}
  IN [d \in (DOMAIN series) \ phantom |-> series[d]]

GrowthSeries == Stripped(RawSeries)

HighWater(series, d) == Max({series[e] : e \in {c \in DOMAIN series : c < d}})

(* _detect_milestones.                                                     *)
Milestones ==
  LET s == GrowthSeries IN
  {e \in (DOMAIN s) \X Thresholds :
     /\ \E d \in DOMAIN s : d < e[1]
     /\ HighWater(s, e[1]) < e[2]
     /\ e[2] <= s[e[1]]}

(* The point of day d on the line between the readings of days a and b.    *)
Between(series, a, b, d) ==
  Rounded(series[a] * (b - a) + (series[b] - series[a]) * (d - a), b - a)

(* _interpolate_daily_gaps: every day from the first to the last reading.  *)
Interpolated(series) ==
  LET first  == Min(DOMAIN series)
      last   == Max(DOMAIN series)
      before(d) == Max({e \in DOMAIN series : e <= d})
      after(d)  == Min({e \in DOMAIN series : d < e})
  IN [d \in first .. last |-> IF d = last THEN series[d] ELSE Between(series, before(d), after(d), d)]

(* _get_earnings_series: the views that are paid for, day by day.          *)
PaidViews ==
  LET f == Interpolated(GrowthSeries)
      grown == {d \in Days : d \in DOMAIN f /\ d - 1 \in DOMAIN f /\ f[d] >= f[d - 1]}
  IN IF DOMAIN GrowthSeries = {} THEN 0
     ELSE Total([d \in Days |-> IF d \in grown THEN f[d] - f[d - 1] ELSE 0], MaxDays[subject])

(* get_summary: its window reaches back from the latest reading, which is  *)
(* compared with the closest one to the first day of the window.           *)
SummaryStart == ClosestSnapshot(today) - Window
SummaryBase  == ClosestSnapshot(SummaryStart)

-----------------------------------------------------------------------------
(* Views of an Instagram profile, put together from its posts.             *)

(* The last row of a post before the first day of a report.                *)
Baseline(p, start) ==
  IF LastBefore(p, start) = Null THEN Blank ELSE snaps[p][LastBefore(p, start)]

(* Faulty variant: a post without a baseline counts with all it has.       *)
Counted_All == {p \in Posts : DaysOf(p) # {}}

Counted ==
  {p \in Posts : DaysOf(p) # {} /\ (Baseline(p, SummaryStart) # Blank \/ posted[p] >= SummaryStart)}

Gained(p) ==
  LET latest == Latest(p)
      base   == Baseline(p, SummaryStart)
  IN CASE latest.views # Null -> latest.views - OrZero(base.views)
       [] latest.views = Null /\ latest.likes # Null -> latest.likes - OrZero(base.likes)
       [] OTHER -> 0

(* _instagram_views_in_window.                                             *)
ViewsInWindow ==
  LET sum == Total([p \in Posts |-> IF p \in Counted THEN Gained(p) ELSE 0], Len(posted))
  IN IF sum < 0 THEN 0 ELSE sum

(* The days of the chart, up to day d, on which post p had a number.       *)
Measured(p, d) ==
  {e \in DaysOf(p) : ChartStart <= e /\ e <= d /\ Usable(snaps[p][e]) # Null}

(* Faulty variant: every post starts from nothing.                         *)
Known_FromZero(p, d) ==
  IF Measured(p, d) # {} THEN Usable(snaps[p][Max(Measured(p, d))]) ELSE 0

(* _reconstruct_daily_views_series: what post p adds to the total of day d.*)
Known(p, d) ==
  IF Measured(p, d) # {} THEN Usable(snaps[p][Max(Measured(p, d))])
  ELSE OrZero(Usable(Baseline(p, ChartStart)))

(* _instagram_views_daily_series on the days with rows; interpolation fills*)
(* the days between and changes none of these.                             *)
ViewsSeries ==
  LET read == {d \in Days : d >= ChartStart /\ \E p \in Posts : d \in DaysOf(p)}
  IN Stripped([d \in read |-> Total([p \in Posts |-> Known(p, d)], Len(posted))])

-----------------------------------------------------------------------------
(* Properties.                                                             *)

(* The k-th of the metrics of some posts: fewer than k are below it, but   *)
(* not fewer are at most that.                                             *)
Nth(metrics, S, k) ==
  CHOOSE v \in {metrics[q] : q \in S} :
    /\ Cardinality({q \in S : metrics[q] < v}) < k
    /\ Cardinality({q \in S : metrics[q] <= v}) >= k

(* The definition of a score that takes no pool into account: against all  *)
(* the posts before, up to Lookback, half of them below the middle.        *)
Reference(metrics, p) ==
  LET prior == {q \in Posts : q < p /\ q >= p - Lookback /\ metrics[q] # Null}
      n == Cardinality(prior)
      middle == Nth(metrics, prior, (n + 1) \div 2) + Nth(metrics, prior, (n \div 2) + 1)
  IN IF n < MinPosts \/ metrics[p] = Null \/ middle = 0 THEN Null ELSE Rounded(200 * metrics[p], middle)

(* Of n posts that are fetched, some that p is measured against are none.  *)
Cut(p, n) == n < Len(posted) /\ p - Lookback <= Len(posted) - n

(* Whenever scores are rewritten, each of the recent posts gets the score  *)
(* that the whole history gives it, however few posts are fetched for that,*)
(* and the page of the latest posts, for which fewer are fetched, shows the*)
(* same.  So do the page of the best ones and the pages of a format, but   *)
(* for posts at the end of what is fetched for them.                       *)
ScoresAgree ==
  /\ [][stored' # stored =>
          \A metrics \in {Metrics'}, p \in Posts :
             p > Len(posted) - Rescored => stored'[p] = Reference(metrics, p)]_tables
  /\ [](\A best, filtered \in BOOLEAN : \A p \in DOMAIN Shown(best, filtered) :
          \/ Shown(best, filtered)[p] = Reference(Metrics, p)
          \/ (best \/ filtered) /\ Cut(p, Fetched(best, filtered)))

(* The readings that a chart of the profile has, those that are not zero,  *)
(* and those before the first of these.                                    *)
Charted == {d \in Days : d >= ChartStart /\ profile[d] # Null}
Real    == {d \in Charted : profile[d] > 0}
Broken  == {d \in Charted : \A e \in Real : d < e}

(* A threshold is announced once, on the first day on which it is reached, *)
(* whatever dips there are; and only if the first reading was below it,    *)
(* broken ones of zero aside, of which just one is told from a reading.    *)
MilestonesAreReal ==
  Milestones =
    {e \in Real \X Thresholds :
       /\ profile[e[1]] >= e[2]
       /\ \A d \in Real : profile[d] >= e[2] => e[1] <= d
       /\ profile[Min(Real)] < e[2] \/ Cardinality(Broken) > 1}

(* A channel is paid for what it rose from each reading to the next, also  *)
(* over days that are missing: for every rise, that after a dip included,  *)
(* but for the one from a single broken reading at the start.              *)
PaidForRises ==
  LET before(d) == {e \in Charted : e < d}
      risen(d)  == IF before(d) = {} \/ (before(d) = Broken /\ Cardinality(Broken) = 1)
                   THEN 0 ELSE Max({0, profile[d] - profile[Max(before(d))]})
  IN PaidViews = Total([d \in Days |-> IF d \in Charted THEN risen(d) ELSE 0], MaxDays[subject])

(* What is announced and paid for is what the readings of the chart show.  *)
GrowthIsReal == MilestonesAreReal /\ PaidForRises

(* The gain in the summary is the sum of the days of the growth chart      *)
(* between its two readings, if the chart begins with the older of them or *)
(* before it.                                                              *)
SummaryMatchesChart ==
  LET s == GrowthSeries
      last == ClosestSnapshot(today)
      between == {d \in DOMAIN s : SummaryBase < d}
      previous(d) == Max({e \in DOMAIN s : e < d})
      delta == [d \in Days |-> IF d \in between THEN s[d] - s[previous(d)] ELSE 0]
  IN SummaryBase \in DOMAIN s /\ SummaryBase # last =>
       profile[last] - profile[SummaryBase] = Total(delta, MaxDays[subject])

(* Views gained in the window are views that a post gained since they were *)
(* first seen, or all it has if it is newer than the window: never what an *)
(* old post had when a backfill found it.  A post whose row before the     *)
(* window lacks the number that its latest row has counts with all of it.  *)
GainsWereSeen ==
  LET number(p, row) == IF Latest(p).views # Null THEN row.views ELSE row.likes
      numbers(p) == {number(p, snaps[p][d]) : d \in DaysOf(p)} \ {Null}
      base(p) == Baseline(p, SummaryStart)
      whole(p) == posted[p] >= SummaryStart \/ (base(p) # Blank /\ number(p, base(p)) = Null)
      seen(p) == IF numbers(p) = {} THEN 0
                 ELSE IF whole(p) THEN Max(numbers(p)) ELSE Max(numbers(p)) - Min(numbers(p))
  IN ClosestSnapshot(today) # Null =>
       ViewsInWindow <= Total([p \in Posts |-> seen(p)], Len(posted))

(* The chart and the summary tell the same story if all posts count and    *)
(* have views in their latest rows: what the total of the chart ends above *)
(* where these posts stood before the summary's window is what the summary *)
(* says they gained, be it that the chart looks back to another day.       *)
ChartMatchesWindow ==
  LET videos == {p \in Counted : HasViews(Latest(p))}
      stood == [p \in Posts |-> OrZero(Baseline(p, SummaryStart).views)]
      rise == ViewsSeries[Max(DOMAIN ViewsSeries)] - Total(stood, Len(posted))
  IN DOMAIN ViewsSeries # {} /\ (\A p \in Posts : DaysOf(p) # {} => p \in videos)
     => ViewsInWindow = Max({0, rise})

(* The two pairs of numbers that one page puts side by side.               *)
WindowsAgree == SummaryMatchesChart /\ ChartMatchesWindow
=============================================================================
