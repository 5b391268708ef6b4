----------------------------- MODULE RetentionProofs ----------------------------
(***************************************************************************)
(* What maintenance may never do to the time worked, for any sessions and  *)
(* projects, any length of a day, thresholds and number of sweeps: a day   *)
(* of a session is compacted as a whole or not at all, its tokens once,    *)
(* and, where nobody works in a way the daily sums cannot express, a       *)
(* report over everything says the same before and after.                  *)
(*                                                                         *)
(* Two signals of different days, or of different sessions, are more than  *)
(* the idle threshold apart (Apart): every counted gap lies within one     *)
(* session's day, and the time of a project is the sum over those          *)
(* (DaysAddUp).                                                            *)
(***************************************************************************)
EXTENDS Retention, SumTheorems

\* What an instance is: sessions that are none of a probe's, and days of some length.
Sized ==
  /\ IsFiniteSet(Worked) /\ Probe \notin Worked
  /\ DayLen \in Nat \ {0} /\ {IdleTime, KeepDays, MaxTime, MaxLogged} \subseteq Nat

RetentionSpec == WorkInit /\ [][WorkNext]_workVars

--------------------------------------------------------------------------------
(* Days *)

\* The day of an instant, and the instants before a midnight.
LEMMA DivIsDay ==
  ASSUME NEW d \in Nat \ {0}, NEW t \in Nat
  PROVE  t \div d \in Nat /\ (t \div d) * d <= t /\ t < (t \div d) * d + d
BY SMT

LEMMA ProductGrows ==
  ASSUME NEW d \in Nat \ {0}, NEW a \in Nat, NEW b \in Nat, a < b
  PROVE  a * d + d <= b * d /\ a * d \in Nat /\ b * d \in Nat
BY SMT

LEMMA BeforeMidnight ==
  ASSUME Sized, NEW t \in Nat, NEW c \in Nat
  PROVE  /\ Day(t) \in Nat /\ Midnight(t) \in Nat /\ Midnight(t) <= t
         /\ t < Midnight(c) <=> Day(t) < Day(c)
         /\ t <= c => Day(t) <= Day(c)
<1> DEFINE a == t \div DayLen
           b == c \div DayLen
<1>1. /\ a \in Nat /\ b \in Nat /\ DayLen \in Nat \ {0}
      /\ a * DayLen <= t /\ t < a * DayLen + DayLen
      /\ b * DayLen <= c /\ c < b * DayLen + DayLen
  BY DivIsDay DEF Sized
<1>2. Day(t) = a /\ Day(c) = b /\ Midnight(t) = a * DayLen /\ Midnight(c) = b * DayLen
  BY DEF Day, Midnight
<1> HIDE DEF a, b
<1>3. a < b => a * DayLen + DayLen <= b * DayLen
  BY <1>1, ProductGrows
<1>4. b < a => b * DayLen + DayLen <= a * DayLen
  BY <1>1, ProductGrows
<1>5. a * DayLen \in Nat /\ b * DayLen \in Nat /\ (a = b => a * DayLen = b * DayLen)
  BY <1>1
<1> DEFINE x == a * DayLen
           y == b * DayLen
<1>6. x \in Nat /\ y \in Nat /\ (a < b => x + DayLen <= y) /\ (b < a => y + DayLen <= x)
      /\ (a = b => x = y) /\ x <= t /\ t < x + DayLen /\ y <= c /\ c < y + DayLen
  BY <1>1, <1>3, <1>4, <1>5
<1> HIDE DEF x, y
<1>7. t < y <=> a < b
  BY <1>1, <1>6
<1>8. t <= c => a <= b
  BY <1>1, <1>6
<1> QED BY <1>1, <1>2, <1>6, <1>7, <1>8 DEF x, y
--------------------------------------------------------------------------------
(* Counted seconds                                                         *)

Stamp(e) == <<Day(e.at), e.session>>
\* What a session left on a day.
Part(S, k) == {e \in Real(S) : Stamp(e) = k}
\* The rollup lines there can be of a project.
Keys(p) == {k \in Days \X Worked : Project[k[2]] = p}

\* Two signals are of one session's day, or more than the threshold apart.
ApartIn(S) ==
  \A e, f \in S : Earlier(e, f) /\ Stamp(e) # Stamp(f) => f.at - e.at > IdleTime
PromptsIn(S) == \A e \in S : e.kind = "prompt" /\ e.session \in Worked
TimedIn(S) == \A e \in S : e.at \in 0 .. MaxTime /\ e.id \in Nat

LEMMA FiniteKeys == ASSUME Sized, NEW p PROVE IsFiniteSet(Keys(p)) /\ IsFiniteSet(Days \X Worked)
<1>1. MaxTime \in Nat
  BY DEF Sized
<1>2. Day(MaxTime) \in Nat
  BY <1>1, BeforeMidnight
<1>3. IsFiniteSet(Days)
  BY <1>2, FS_Interval DEF Days
<1>4. IsFiniteSet(Days \X Worked)
  BY <1>3, FS_Product DEF Sized
<1>5. Keys(p) \subseteq Days \X Worked
  BY DEF Keys
<1> QED BY <1>4, <1>5, FS_Subset

LEMMA FiniteWindows ==
  ASSUME NEW S, IsFiniteSet(S) PROVE IsFiniteSet(WorkWindows(S)) /\ WorkWindows(S) \subseteq S \X S
<1>1. IsFiniteSet(S \X S)
  BY FS_Product
<1>2. WorkWindows(S) \subseteq S \X S
  BY DEF WorkWindows
<1> QED BY <1>1, <1>2, FS_Subset

LEMMA CountedGapIsNat ==
  ASSUME Sized, NEW S, TimedIn(S), NEW w \in WorkWindows(S)
  PROVE  WorkGap(w) \in Nat /\ CountedGap(w) \in Nat /\ (WorkGap(w) > IdleTime => CountedGap(w) = 0)
<1>1. /\ w[1] \in S /\ w[2] \in S /\ Earlier(w[1], w[2])
  BY DEF WorkWindows
<1>2. /\ w[1].at \in Nat /\ w[2].at \in Nat /\ w[1].at <= w[2].at /\ IdleTime \in Nat
  BY <1>1 DEF TimedIn, Earlier, Sized
<1>3. WorkGap(w) \in Nat
  BY <1>2 DEF WorkGap
<1> QED BY <1>2, <1>3 DEF CountedGap

\* The counted seconds of a set of windows, by any function that holds them.
LEMMA CountedBy ==
  ASSUME NEW W, IsFiniteSet(W), NEW f, \A w \in W : f[w] = CountedGap(w)
  PROVE  WorkSeconds(W) = SumFunctionOnSet(f, W)
<1> DEFINE g == [w \in W |-> CountedGap(w)]
<1>1. WorkSeconds(W) = SumFunctionOnSet(g, W)
  BY DEF WorkSeconds, SumFunction
<1>2. \A w \in W : g[w] = f[w]
  OBVIOUS
<1> HIDE DEF g
<1>3. SumFunctionOnSet(g, W) = SumFunctionOnSet(f, W)
  BY <1>2, SumCongruent
<1> QED BY <1>1, <1>3

LEMMA PartsOfReal == ASSUME NEW S, NEW k PROVE Part(Real(S), k) = Part(S, k)
BY DEF Part, Real

\* Of prompts alone.
LEMMA SignalsOfPrompts ==
  ASSUME NEW S, PromptsIn(S)
  PROVE  {e \in S : IsHumanSignal(e)} = S /\ {e \in S : IsAgentActivity(e)} = {}
BY DEF PromptsIn, IsHumanSignal, IsAgentActivity

\* The time of a project is the sum over its sessions' days.
LEMMA DaysAddUp ==
  ASSUME Sized, NEW S, IsFiniteSet(S), TimedIn(S), PromptsIn(S), ApartIn(S), NEW p, NEW h,
         \A k \in Keys(p) : h[k] = HumanSeconds(Part(S, k))
  PROVE  HumanOf(S, p) = SumFunctionOnSet(h, Keys(p)) /\ \A k \in Keys(p) : h[k] \in Nat
<1> DEFINE K == Keys(p)
           V == S \X S
           f == [w \in V |-> CountedGap(w)]
           A == {w \in WorkWindows(S) : Project[w[1].session] = p}
           W == [k \in K |-> WorkWindows(Part(S, k))]
           U == UNION {W[k] : k \in K}
           B == A \cap U
<1>1. Real(S) = S
  BY DEF Real, PromptsIn, Sized
<1>2. \A k : Part(S, k) = {e \in S : Stamp(e) = k} /\ Part(S, k) \subseteq S
  BY <1>1 DEF Part
<1>3. IsFiniteSet(WorkWindows(S)) /\ WorkWindows(S) \subseteq V
  BY FiniteWindows
<1>4. A \subseteq V /\ IsFiniteSet(A)
  BY <1>3, FS_Subset
<1>5. HumanOf(S, p) = WorkSeconds(A)
  BY SignalsOfPrompts DEF HumanOf
<1>6. ASSUME NEW k \in K
      PROVE  /\ IsFiniteSet(W[k]) /\ W[k] \subseteq V /\ W[k] = WorkWindows(Part(S, k))
             /\ h[k] = WorkSeconds(W[k])
             /\ TimedIn(Part(S, k))
  <2>1. IsFiniteSet(Part(S, k))
    BY <1>2, FS_Subset
  <2>2. W[k] = WorkWindows(Part(S, k))
    OBVIOUS
  <2>3. PromptsIn(Part(S, k)) /\ TimedIn(Part(S, k))
    BY <1>2 DEF PromptsIn, TimedIn
  <2>4. h[k] = WorkSeconds(WorkWindows(Part(S, k)))
    BY <2>3, SignalsOfPrompts DEF HumanSeconds
  <2>5. IsFiniteSet(WorkWindows(Part(S, k))) /\ WorkWindows(Part(S, k)) \subseteq V
    BY <1>2, <2>1, FiniteWindows
  <2> QED BY <2>2, <2>3, <2>4, <2>5
<1>7. \A w \in V : f[w] = CountedGap(w)
  OBVIOUS
<1>8. \A w \in A : f[w] \in Nat
  BY <1>4, <1>7, CountedGapIsNat
<1>9. ASSUME NEW k \in K, NEW w \in W[k] PROVE f[w] \in Nat /\ w[1] \in S /\ Stamp(w[1]) = k
  <2>1. w \in WorkWindows(Part(S, k)) /\ w \in V
    BY <1>6
  <2>2. CountedGap(w) \in Nat
    BY <1>6, <2>1, CountedGapIsNat
  <2>3. w[1] \in Part(S, k)
    BY <2>1 DEF WorkWindows
  <2> QED BY <1>2, <1>7, <2>1, <2>2, <2>3
<1>10. ASSUME NEW k \in K PROVE h[k] = SumFunctionOnSet(f, W[k]) /\ h[k] \in Nat
  <2>1. \A w \in W[k] : f[w] = CountedGap(w) /\ f[w] \in Nat
    BY <1>6, <1>7, <1>9
  <2>2. IsFiniteSet(W[k]) /\ h[k] = WorkSeconds(W[k])
    BY <1>6
  <2> DEFINE X == W[k]
  <2>3. (\A w \in X : f[w] = CountedGap(w) /\ f[w] \in Nat) /\ IsFiniteSet(X) /\ h[k] = WorkSeconds(X)
    BY <2>1, <2>2
  <2> HIDE DEF X, f
  <2>4. WorkSeconds(X) = SumFunctionOnSet(f, X) /\ SumFunctionOnSet(f, X) \in Nat
    BY <2>3, CountedBy, SumIsNat
  <2> QED BY <2>3, <2>4 DEF X
<1>11. \A k, l \in K : k # l => W[k] \cap W[l] = {}
  BY <1>9
<1>12. IsFiniteSet(K)
  BY FiniteKeys
<1>13. WorkSeconds(A) = SumFunctionOnSet(f, A)
  <2>1. \A w \in A : f[w] = CountedGap(w)
    BY <1>4, <1>7
  <2> HIDE DEF f, A
  <2> QED BY <1>4, <2>1, CountedBy
<1>14. /\ \A k \in K : IsFiniteSet(W[k]) /\ h[k] = SumFunctionOnSet(f, W[k])
       /\ \A k \in K : \A x \in W[k] : f[x] \in Nat
  BY <1>6, <1>9, <1>10
<1>15. IsFiniteSet(U) /\ SumFunctionOnSet(f, U) = SumFunctionOnSet(h, K)
  <2> HIDE DEF f, K, W
  <2>1. \A x : x \in U <=> \E k \in K : x \in W[k]
    OBVIOUS
  <2> HIDE DEF U
  <2> QED BY <1>11, <1>12, <1>14, <2>1, SumOfFamily
<1>16. \A w \in U : f[w] \in Nat
  BY <1>14
\* A counted window of the project lies within one day of one session ...
<1>17. ASSUME NEW w \in A, w \notin U PROVE f[w] = 0
  <2> DEFINE k == Stamp(w[1])
  <2>1. w \in S \X S /\ w[1] \in S /\ w[2] \in S /\ Earlier(w[1], w[2])
        /\ ~\E c \in S : Earlier(w[1], c) /\ Earlier(c, w[2])
    BY DEF WorkWindows
  <2>2. k \in K
    <3>1. w[1].at \in Nat /\ w[1].at <= MaxTime /\ MaxTime \in Nat /\ w[1].session \in Worked
      BY <2>1 DEF TimedIn, PromptsIn, Sized
    <3>2. Day(w[1].at) \in Nat /\ Day(MaxTime) \in Nat /\ Day(w[1].at) <= Day(MaxTime)
      BY <3>1, BeforeMidnight
    <3>3. Project[k[2]] = p
      BY DEF Stamp
    <3> QED BY <3>1, <3>2, <3>3 DEF Keys, Days, Stamp
  <2>3. CASE Stamp(w[2]) = k
    <3>1. w[1] \in Part(S, k) /\ w[2] \in Part(S, k) /\ Part(S, k) \subseteq S
      BY <1>2, <2>1, <2>3
    <3>2. w \in WorkWindows(Part(S, k))
      BY <2>1, <3>1 DEF WorkWindows
    <3>3. w \in W[k]
      BY <2>2, <3>2
    <3> QED BY <1>17, <2>2, <3>3
  <2>4. CASE Stamp(w[2]) # k
    <3>1. WorkGap(w) > IdleTime
      BY <2>1, <2>4 DEF ApartIn, WorkGap
    <3> QED BY <1>7, <2>1, <3>1, CountedGapIsNat
  <2> QED BY <2>3, <2>4
\* ... and the other way round.
<1>18. ASSUME NEW w \in U, w \notin A PROVE f[w] = 0
  <2>1. PICK k \in K : w \in W[k]
    OBVIOUS
  <2>2. /\ w \in WorkWindows(Part(S, k)) /\ w \in V /\ Part(S, k) \subseteq S
        /\ \A e \in S : Stamp(e) = k => e \in Part(S, k)
        /\ \A e \in Part(S, k) : Stamp(e) = k
    BY <1>2, <1>6, <2>1
  <2>3. /\ w[1] \in Part(S, k) /\ w[2] \in Part(S, k) /\ Earlier(w[1], w[2])
        /\ ~\E c \in Part(S, k) : Earlier(w[1], c) /\ Earlier(c, w[2])
    BY <2>2 DEF WorkWindows
  <2>4. Project[w[1].session] = p
    <3>1. Project[k[2]] = p
      BY DEF Keys
    <3> QED BY <2>2, <2>3, <3>1 DEF Stamp
  <2>5. w \notin WorkWindows(S)
    BY <1>18, <2>4
  <2>6. PICK c \in S : Earlier(w[1], c) /\ Earlier(c, w[2])
    BY <2>2, <2>3, <2>5 DEF WorkWindows
  <2>7. Stamp(c) # k
    BY <2>2, <2>3, <2>6
  <2>8. c.at - w[1].at > IdleTime
    BY <2>2, <2>3, <2>6, <2>7 DEF ApartIn
  <2>9. WorkGap(w) > IdleTime
    <3>1. c.at <= w[2].at /\ c.at \in Nat /\ w[2].at \in Nat /\ w[1].at \in Nat /\ IdleTime \in Nat
      BY <2>2, <2>3, <2>6 DEF Earlier, TimedIn, Sized
    <3> QED BY <2>8, <3>1 DEF WorkGap
  <2> QED BY <1>6, <1>7, <2>2, <2>9, CountedGapIsNat
<1>19. B \subseteq A /\ B \subseteq U /\ (\A w \in A \ B : f[w] = 0) /\ (\A w \in U \ B : f[w] = 0)
  BY <1>17, <1>18
<1> HIDE DEF A, U, B, f
<1>20. SumFunctionOnSet(f, A) = SumFunctionOnSet(f, B)
  BY <1>4, <1>8, <1>19, SumOfNonzero
<1>21. SumFunctionOnSet(f, U) = SumFunctionOnSet(f, B)
  BY <1>15, <1>16, <1>19, SumOfNonzero
<1> QED BY <1>5, <1>10, <1>13, <1>15, <1>20, <1>21

--------------------------------------------------------------------------------
(* Types                                                                   *)

WorkTyped ==
  /\ WorkTypeOK
  /\ events \subseteq logged /\ IsFiniteSet(logged)
  /\ logged \subseteq [id : 1 .. MaxLogged, at : 0 .. MaxTime,
                       session : Worked \cup {Probe}, kind : WorkKinds \cup {"start"}]
  /\ \A e \in logged : e.at <= now
  /\ DOMAIN tokens = Days \X Worked
  /\ \A k \in Days \X Worked : tokens[k] \in Nat /\ rollup[k].tokens \in Nat

LEMMA LargestOfTwo ==
  ASSUME NEW a \in Nat, NEW b \in Nat
  PROVE  Max({a, b}) \in {a, b} /\ Max({a, b}) >= a /\ Max({a, b}) >= b
<1>1. \E x \in {a, b} : \A y \in {a, b} : x >= y
  BY SMT
<1> DEFINE m == CHOOSE x \in {a, b} : \A y \in {a, b} : x >= y
<1>2. m \in {a, b} /\ \A y \in {a, b} : m >= y
  BY <1>1
<1>3. Max({a, b}) = m
  BY DEF Max
<1> HIDE DEF m
<1> QED BY <1>2, <1>3

LEMMA SmallestIsMin ==
  ASSUME NEW S \in SUBSET Nat, S # {} PROVE Min(S) \in S /\ \A n \in S : Min(S) <= n
<1>1. \E m \in S : \A n \in S : m <= n
  BY Smallest
<1> DEFINE m == CHOOSE x \in S : \A y \in S : x <= y
<1>2. m \in S /\ \A n \in S : m <= n
  BY <1>1
<1>3. Min(S) = m
  BY DEF Min
<1> HIDE DEF m
<1> QED BY <1>2, <1>3

\* The cutoff is a midnight that has been, of no unconfirmed event's morrow.
LEMMA CutoffIsMidnight ==
  ASSUME Sized, WorkTyped
  PROVE  \E c \in 0 .. now : Cutoff = Midnight(c) /\ \A f \in Unsynced : Cutoff <= Midnight(f.at)
<1> DEFINE old == IF now < KeepDays * DayLen THEN 0 ELSE now - KeepDays * DayLen
           S == {Aligned(old)} \cup {Aligned(e.at) : e \in Unsynced}
<1>1. now \in Nat /\ KeepDays \in Nat /\ DayLen \in Nat
  BY DEF Sized, WorkTyped, WorkTypeOK
<1>2. KeepDays * DayLen \in Nat
  BY <1>1
<1> DEFINE n == KeepDays * DayLen
<1>3. n \in Nat /\ old = IF now < n THEN 0 ELSE now - n
  BY <1>2
<1> HIDE DEF n
<1>4. old \in 0 .. now
  BY <1>1, <1>3
<1> HIDE DEF old
<1>5. \A e \in Unsynced : e.at \in Nat /\ e.at <= now
  BY DEF Unsynced, Real, WorkTyped
<1>6. /\ Midnight(old) \in Nat /\ \A e \in Unsynced : Midnight(e.at) \in Nat
  BY <1>1, <1>4, <1>5, BeforeMidnight
<1>7. S \in SUBSET Nat /\ S # {} /\ Cutoff = Min(S)
  BY <1>6 DEF Aligned, Cutoff, old
<1>8. /\ Midnight(old) \in S /\ \A e \in Unsynced : Midnight(e.at) \in S
      /\ \A x \in S : x = Midnight(old) \/ \E e \in Unsynced : x = Midnight(e.at)
  BY DEF Aligned
<1> HIDE DEF S
<1>9. Min(S) \in S /\ \A x \in S : Min(S) <= x
  BY <1>7, SmallestIsMin
<1>10. \A f \in Unsynced : Cutoff <= Midnight(f.at)
  BY <1>7, <1>8, <1>9
<1>11. \E c \in 0 .. now : Cutoff = Midnight(c)
  <2>1. CASE Cutoff = Midnight(old)
    BY <1>4, <2>1
  <2>2. CASE \E e \in Unsynced : Cutoff = Midnight(e.at)
    <3>1. PICK e \in Unsynced : Cutoff = Midnight(e.at)
      BY <2>2
    <3> QED BY <1>1, <1>5, <3>1
  <2> QED BY <1>7, <1>8, <1>9, <2>1, <2>2
<1> QED BY <1>10, <1>11

\* A day of a session is compacted as a whole or not at all, and only once it is over.
LEMMA WholeDays ==
  ASSUME Sized, WorkTyped, NEW k, NEW e \in Real(Compactable), Stamp(e) = k
  PROVE  Part(events, k) \subseteq Compactable /\ k[1] < Day(now)
<1>1. PICK c \in 0 .. now : Cutoff = Midnight(c) /\ \A f \in Unsynced : Cutoff <= Midnight(f.at)
  BY CutoffIsMidnight
<1>2. /\ e \in events /\ e.at \in Nat /\ e.at < Cutoff /\ c \in Nat /\ now \in Nat /\ c <= now
      /\ e.session # Probe
  BY <1>1 DEF Real, Compactable, WorkTyped, WorkTypeOK
<1>3. Day(e.at) < Day(c) /\ Day(c) <= Day(now) /\ Day(e.at) \in Nat /\ Day(c) \in Nat /\ Day(now) \in Nat
  BY <1>1, <1>2, BeforeMidnight
<1>4. ASSUME NEW f \in Part(events, k) PROVE f \in Compactable
  <2>1. f \in events /\ f \in Real(events) /\ Day(f.at) = Day(e.at) /\ f.at \in Nat
        /\ f.id \in Nat /\ cursor \in Nat
    BY DEF Part, Real, Stamp, WorkTyped, WorkTypeOK
  <2>2. f.at < Cutoff
    BY <1>1, <1>2, <1>3, <2>1, BeforeMidnight
  <2>3. f.id <= cursor
    <3>1. SUFFICES ASSUME f.id > cursor PROVE FALSE
      BY <2>1
    <3>2. Cutoff <= Midnight(f.at)
      BY <1>1, <2>1, <3>1 DEF Unsynced
    <3>3. Midnight(f.at) = Midnight(e.at)
      BY <2>1 DEF Midnight
    <3>4. Midnight(e.at) <= e.at /\ Midnight(e.at) \in Nat /\ Midnight(c) \in Nat
      BY <1>2, BeforeMidnight
    <3> QED BY <1>1, <1>2, <3>2, <3>3, <3>4
  <2> QED BY <2>1, <2>2, <2>3 DEF Compactable
<1> QED BY <1>3, <1>4 DEF Stamp

--------------------------------------------------------------------------------
(* Steps                                                                   *)

\* The row of a day, when S is what there was of it.
Line(k, S) ==
  IF \A e \in S : ~IsHumanSignal(e) /\ ~IsAgentActivity(e) THEN rollup[k]
  ELSE [human |-> rollup[k].human + HumanSeconds(S), active |-> rollup[k].active + ActiveSeconds(S),
        tokens |-> Max({rollup[k].tokens, tokens[k]}), rows |-> 1]

LEMMA FoldedIs ==
  ASSUME NEW k \in Days \X Worked
  PROVE  Folded(k) = IF Part(Compactable, k) = {} THEN rollup[k] ELSE Line(k, Part(Compactable, k))
<1>1. {e \in Of(Real(Compactable), k[2]) : Day(e.at) = k[1]} = Part(Compactable, k)
  <2>1. k = <<k[1], k[2]>>
    OBVIOUS
  <2>2. \A e : Stamp(e) = k <=> e.session = k[2] /\ Day(e.at) = k[1]
    BY <2>1 DEF Stamp
  <2> QED BY <2>2 DEF Of, Part
<1> QED BY <1>1 DEF Folded, Line

\* A sweep takes a day of a session whole, with a line for it, or leaves it alone.
LEMMA SweepEffect ==
  ASSUME Sized, WorkTyped, NEW r \in BOOLEAN, NEW c \in BOOLEAN, NEW v \in BOOLEAN, Sweep(r, c, v)
  PROVE  /\ now' = now /\ cursor' = cursor /\ tokens' = tokens /\ logged' = logged
         /\ events' \subseteq events /\ DOMAIN rollup' = Days \X Worked
         /\ dirty' \in BOOLEAN /\ holes' \in BOOLEAN
         /\ (holes => dirty) => (holes' => dirty')
         /\ \A k \in Days \X Worked :
              \/ rollup'[k] = rollup[k] /\ Part(events', k) = Part(events, k)
              \/ /\ Part(events', k) = {} /\ k[1] < Day(now)
                 /\ Part(events, k) # {} /\ rollup'[k] = Line(k, Part(events, k))
<1> DEFINE nothing == cursor = 0 \/ Real(Compactable) = {} \/ ~c
           gone == IF nothing THEN {} ELSE Compactable
           probes == IF r THEN Of(events, Probe) ELSE {}
           due == (dirty \/ gone # {}) /\ (sweeps + 1) % VacuumEvery = 0 /\ v
<1>1. /\ now' = now /\ cursor' = cursor /\ tokens' = tokens /\ logged' = logged
      /\ events' = events \ (gone \cup probes)
      /\ rollup' = IF nothing THEN rollup ELSE [k \in DOMAIN rollup |-> Folded(k)]
      /\ dirty' = ((dirty \/ gone # {}) /\ ~due)
      /\ holes' = ((holes \/ gone # {}) /\ ~due)
  BY DEF Sweep
<1>2. DOMAIN rollup = Days \X Worked /\ dirty \in BOOLEAN /\ holes \in BOOLEAN
  BY DEF WorkTyped, WorkTypeOK
<1>3. gone \subseteq events /\ probes \cap Real(events) = {} /\ Compactable \subseteq events
  BY DEF Compactable, Real, Of
<1>4. dirty' \in BOOLEAN /\ holes' \in BOOLEAN /\ ((holes => dirty) => (holes' => dirty'))
  <2> HIDE DEF gone, due
  <2> QED BY <1>1
<1>5. events' \subseteq events /\ DOMAIN rollup' = Days \X Worked
  BY <1>1, <1>2
<1>6. ASSUME NEW k \in Days \X Worked
      PROVE  \/ rollup'[k] = rollup[k] /\ Part(events', k) = Part(events, k)
             \/ /\ Part(events', k) = {} /\ k[1] < Day(now)
                /\ Part(events, k) # {} /\ rollup'[k] = Line(k, Part(events, k))
  <2>1. Part(events', k) = Part(events, k) \ gone
    <3>1. \A e : e \in Part(events', k) <=> e \in Part(events, k) /\ e \notin gone
      <4> HIDE DEF gone, probes
      <4>1. \A e \in Real(events) : e \notin probes
        BY <1>3
      <4> QED BY <1>1, <4>1 DEF Part, Real
    <3> QED BY <3>1
  <2>2. CASE nothing
    BY <1>1, <2>1, <2>2
  <2>3. CASE ~nothing /\ Part(Compactable, k) = {}
    <3>1. Part(events, k) \cap Compactable = {}
      BY <2>3 DEF Part, Real
    <3>2. gone = Compactable
      BY <2>3
    <3>3. rollup'[k] = Folded(k)
      BY <1>1, <1>2, <2>3
    <3> HIDE DEF gone, nothing
    <3>4. Part(events', k) = Part(events, k)
      BY <2>1, <3>1, <3>2
    <3>5. Folded(k) = rollup[k]
      BY <2>3, FoldedIs
    <3> QED BY <3>3, <3>4, <3>5
  <2>4. CASE ~nothing /\ Part(Compactable, k) # {}
    <3>1. PICK e \in Part(Compactable, k) : TRUE
      BY <2>4
    <3>2. e \in Real(Compactable) /\ Stamp(e) = k /\ e \in Part(events, k)
      BY <1>3, <3>1 DEF Part, Real
    <3>3. Part(events, k) \subseteq Compactable /\ k[1] < Day(now)
      BY <3>2, WholeDays
    <3>4. Part(Compactable, k) = Part(events, k)
      BY <1>3, <3>3 DEF Part, Real
    <3>5. gone = Compactable
      BY <2>4
    <3>6. rollup'[k] = Folded(k)
      BY <1>1, <1>2, <2>4
    <3>7. Folded(k) = Line(k, Part(events, k))
      BY <2>4, <3>4, FoldedIs
    <3> HIDE DEF gone, nothing
    <3>8. Part(events', k) = {}
      BY <2>1, <3>3, <3>5
    <3> QED BY <3>2, <3>3, <3>6, <3>7, <3>8
  <2> QED BY <2>2, <2>3, <2>4
<1> HIDE DEF nothing, gone, probes, due
<1> QED BY <1>1, <1>4, <1>5, <1>6

\* An appended event is the last by number.
Entered(e, s, k, t) ==
  /\ e = [id |-> Cardinality(logged) + 1, at |-> t, session |-> s, kind |-> k]
  /\ Cardinality(logged) \in Nat /\ e.id \in 1 .. MaxLogged
  /\ e.at = t /\ e.session = s /\ e.kind = k
  /\ events' = events \cup {e} /\ logged' = logged \cup {e}
  /\ now' = now /\ cursor' = cursor /\ tokens' = tokens /\ rollup' = rollup
  /\ dirty' = dirty /\ holes' = holes
LEMMA AppendEffect ==
  ASSUME Sized, WorkTyped, NEW s \in Worked \cup {Probe}, NEW k \in WorkKinds \cup {"start"},
         NEW t \in 0 .. now, AppendEvent(s, k, t)
  PROVE  \E e : Entered(e, s, k, t)
<1> DEFINE e == [id |-> Cardinality(logged) + 1, at |-> t, session |-> s, kind |-> k]
<1>1. /\ e.id <= MaxLogged
      /\ t = now \/ ("late" \in WorkHazards /\ k = "prompt")
      /\ Usual(s, k, t) \/ s = Probe
      /\ events' = events \cup {e} /\ logged' = logged \cup {e}
      /\ now' = now /\ cursor' = cursor /\ tokens' = tokens
      /\ rollup' = rollup /\ dirty' = dirty /\ holes' = holes
  BY DEF AppendEvent, Compaction
<1>2. Cardinality(logged) \in Nat /\ MaxLogged \in Nat
  BY FS_CardinalityType DEF WorkTyped, Sized
<1>3. e.id = Cardinality(logged) + 1 /\ e.at = t /\ e.session = s /\ e.kind = k
  OBVIOUS
<1>4. e.id \in 1 .. MaxLogged
  BY <1>1, <1>2, <1>3
<1>5. Entered(e, s, k, t)
  BY <1>1, <1>2, <1>3, <1>4 DEF Entered
<1> QED BY <1>5

LEMMA AppendIsTimely ==
  ASSUME NEW s, NEW k, NEW t, AppendEvent(s, k, t)
  PROVE  (t = now \/ "late" \in WorkHazards) /\ (Usual(s, k, t) \/ s = Probe)
BY DEF AppendEvent

LEMMA TypedInit == ASSUME Sized, WorkInit PROVE WorkTyped
<1>1. /\ 0 \in 0 .. MaxTime /\ 0 \in 0 .. MaxLogged
  BY DEF Sized
<1>2. IsFiniteSet({})
  BY FS_EmptySet
<1> QED BY <1>1, <1>2 DEF WorkInit, WorkTyped, WorkTypeOK, NoLine

LEMMA TypedStep == ASSUME Sized, WorkTyped, [WorkNext]_workVars PROVE WorkTyped'
<1> USE DEF WorkTyped, WorkTypeOK
<1>1. ASSUME NEW s \in Worked \cup {Probe}, NEW k \in WorkKinds \cup {"start"}, NEW t \in 0 .. now,
             AppendEvent(s, k, t)
      PROVE  WorkTyped'
  <2>1. PICK e : /\ e = [id |-> Cardinality(logged) + 1, at |-> t, session |-> s, kind |-> k]
                 /\ e.id \in 1 .. MaxLogged /\ e.at = t
                 /\ events' = events \cup {e} /\ logged' = logged \cup {e}
                 /\ now' = now /\ cursor' = cursor /\ tokens' = tokens /\ rollup' = rollup
                 /\ dirty' = dirty /\ holes' = holes
    <3>1. PICK e : Entered(e, s, k, t)
      BY <1>1, AppendEffect
    <3> QED BY <3>1 DEF Entered
  <2>2. e \in [id : 1 .. MaxLogged, at : 0 .. MaxTime,
               session : Worked \cup {Probe}, kind : WorkKinds \cup {"start"}]
    BY <2>1, <1>1 DEF Sized
  <2>3. IsFiniteSet(logged')
    BY <2>1, FS_AddElement
  <2>4. e.at <= now
    BY <1>1, <2>1
  <2> QED BY <2>1, <2>2, <2>3, <2>4
<1>2. CASE Reap
  BY <1>2 DEF Reap, Compaction, Real
<1>3. ASSUME NEW s \in Worked, TokenRow(s) PROVE WorkTyped'
  <2>1. <<Day(now), s>> \in Days \X Worked
    <3>1. Day(now) \in Nat /\ Day(MaxTime) \in Nat /\ Day(now) <= Day(MaxTime)
      BY BeforeMidnight DEF Sized
    <3> QED BY <3>1 DEF Days
  <2>2. /\ tokens' = [tokens EXCEPT ![<<Day(now), s>>] = @ + 1]
        /\ UNCHANGED <<now, events, cursor, logged, rollup, dirty, holes>>
    BY <1>3 DEF TokenRow, Compaction
  <2>3. DOMAIN tokens' = Days \X Worked /\ \A k \in Days \X Worked : tokens'[k] \in Nat
    BY <2>1, <2>2
  <2> QED BY <2>2, <2>3
<1>4. ASSUME NEW id \in 1 .. MaxLogged, Confirmed(id) PROVE WorkTyped'
  BY <1>4 DEF Confirmed, Compaction, Sized
<1>5. CASE Tick
  <2>1. now' = now + 1 /\ now < MaxTime /\ UNCHANGED <<events, cursor, tokens, logged, rollup, dirty, holes>>
    BY <1>5 DEF Tick, Compaction
  <2>2. now' \in 0 .. MaxTime
    BY <2>1 DEF Sized
  <2>3. \A e \in logged : e.at \in Nat /\ e.at <= now /\ now \in Nat
    OBVIOUS
  <2>4. \A e \in logged : e.at <= now + 1
    <3> HIDE DEF WorkTyped, WorkTypeOK
    <3> QED BY <2>3
  <2>5. \A e \in logged' : e.at <= now'
    <3> HIDE DEF WorkTyped, WorkTypeOK
    <3> QED BY <2>1, <2>4
  <2> HIDE DEF WorkTypeOK
  <2>6. WorkTypeOK'
    BY <2>1, <2>2 DEF WorkTypeOK
  <2> QED BY <2>1, <2>5, <2>6
<1>6. CASE Restart
  BY <1>6 DEF Restart
<1>7. ASSUME NEW r \in BOOLEAN, NEW c \in BOOLEAN, NEW v \in BOOLEAN, Sweep(r, c, v) PROVE WorkTyped'
  <2>1. /\ now' = now /\ cursor' = cursor /\ tokens' = tokens /\ logged' = logged
        /\ events' \subseteq events /\ DOMAIN rollup' = Days \X Worked
        /\ dirty' \in BOOLEAN /\ holes' \in BOOLEAN
        /\ \A k \in Days \X Worked :
             rollup'[k] = rollup[k] \/ rollup'[k] = Line(k, Part(events, k))
    <3> HIDE DEF WorkTyped, WorkTypeOK
    <3> QED BY <1>7, SweepEffect
  <2>2. ASSUME NEW k \in Days \X Worked PROVE rollup'[k].tokens \in Nat
    <3>1. rollup[k].tokens \in Nat /\ tokens[k] \in Nat
      OBVIOUS
    <3>2. Line(k, Part(events, k)).tokens \in {rollup[k].tokens, Max({rollup[k].tokens, tokens[k]})}
      BY DEF Line
    <3>3. Max({rollup[k].tokens, tokens[k]}) \in Nat
      BY <3>1, LargestOfTwo
    <3> QED BY <2>1, <3>1, <3>2, <3>3
  <2> QED BY <2>1, <2>2
<1>8. CASE UNCHANGED workVars
  BY <1>8 DEF workVars
<1> HIDE DEF WorkTyped, WorkTypeOK
<1>9. ASSUME NEW s \in Worked, NEW k \in WorkKinds, NEW t \in 0 .. now, AppendEvent(s, k, t) PROVE WorkTyped'
  BY <1>1, <1>9
<1>10. CASE AppendEvent(Probe, "start", now)
  <2>1. now \in 0 .. now
    BY DEF WorkTyped, WorkTypeOK
  <2> QED BY <1>1, <1>10, <2>1
<1> QED BY <1>2, <1>3, <1>4, <1>5, <1>6, <1>7, <1>8, <1>9, <1>10 DEF WorkNext

--------------------------------------------------------------------------------
(* Freed space, and days that are over                                     *)

LEMMA HolesStep ==
  ASSUME Sized, WorkTyped, "restart" \notin WorkHazards, HolesRemembered, [WorkNext]_workVars
  PROVE  HolesRemembered'
<1> USE DEF HolesRemembered
<1>1. ASSUME NEW r \in BOOLEAN, NEW c \in BOOLEAN, NEW v \in BOOLEAN, Sweep(r, c, v)
      PROVE  HolesRemembered'
  BY <1>1, SweepEffect
<1>2. CASE Restart
  BY <1>2 DEF Restart
<1>3. CASE Compaction
  BY <1>3 DEF Compaction
<1>4. ASSUME NEW s, NEW k, NEW t, AppendEvent(s, k, t) PROVE Compaction
  BY <1>4 DEF AppendEvent
<1>5. Reap \/ Tick \/ (\E s \in Worked : TokenRow(s)) \/ (\E id \in 1 .. MaxLogged : Confirmed(id))
      => Compaction
  BY DEF Reap, Tick, TokenRow, Confirmed
<1>6. CASE UNCHANGED workVars
  BY <1>6 DEF workVars
<1> QED BY <1>1, <1>2, <1>3, <1>4, <1>5, <1>6 DEF WorkNext

\* Lines are of days that are over, whose events are gone; tokens are the newest.
Rolled ==
  \A k \in Days \X Worked :
    /\ rollup[k].rows = 1 => Part(events, k) = {} /\ k[1] < Day(now)
    /\ rollup[k].tokens <= tokens[k]

LEMMA DaysPass ==
  ASSUME Sized, WorkTyped, [WorkNext]_workVars
  PROVE  now \in Nat /\ now' \in Nat /\ Day(now) \in Nat /\ Day(now') \in Nat /\ Day(now) <= Day(now')
<1>1. now \in Nat /\ now' \in Nat
  BY TypedStep DEF WorkTyped, WorkTypeOK
<1>2. now' = now \/ now' = now + 1
  <2>1. ASSUME NEW s, NEW k, NEW t, AppendEvent(s, k, t) PROVE now' = now
    BY <2>1 DEF AppendEvent
  <2>2. ASSUME NEW r, NEW c, NEW v, Sweep(r, c, v) PROVE now' = now
    BY <2>2 DEF Sweep
  <2> QED BY <2>1, <2>2 DEF WorkNext, Reap, TokenRow, Confirmed, Tick, Restart, workVars
<1> QED BY <1>1, <1>2, BeforeMidnight

\* The steps that neither append nor sweep leave what each day holds.
LEMMA OtherSteps ==
  ASSUME Sized, WorkTyped, [WorkNext]_workVars
  PROVE  \/ \E s \in Worked, k \in WorkKinds, t \in 0 .. now : AppendEvent(s, k, t)
         \/ AppendEvent(Probe, "start", now)
         \/ \E r, c, v \in BOOLEAN : Sweep(r, c, v)
         \/ /\ logged' = logged /\ rollup' = rollup /\ events' \in {events, Real(events)}
            /\ \A k : Part(events', k) = Part(events, k)
            /\ \A k \in Days \X Worked : tokens'[k] \in Nat /\ tokens[k] <= tokens'[k]
<1> DEFINE Other == /\ logged' = logged /\ rollup' = rollup /\ events' \in {events, Real(events)}
                    /\ \A k : Part(events', k) = Part(events, k)
                    /\ \A k \in Days \X Worked : tokens'[k] \in Nat /\ tokens[k] <= tokens'[k]
<1>1. \A k : Part(Real(events), k) = Part(events, k)
  BY DEF Part, Real
<1>2. \A k \in Days \X Worked : tokens[k] \in Nat
  BY DEF WorkTyped
<1>3. CASE Reap
  BY <1>1, <1>2, <1>3 DEF Reap, Compaction
<1>4. ASSUME NEW s \in Worked, TokenRow(s) PROVE Other
  <2>1. /\ tokens' = [tokens EXCEPT ![<<Day(now), s>>] = @ + 1]
        /\ UNCHANGED <<now, events, cursor, logged, rollup>>
    BY <1>4 DEF TokenRow, Compaction
  <2>2. DOMAIN tokens = Days \X Worked
    BY DEF WorkTyped
  <2>3. \A k \in Days \X Worked : tokens'[k] = tokens[k] \/ tokens'[k] = tokens[k] + 1
    BY <2>1, <2>2
  <2> QED BY <1>2, <2>1, <2>3
<1>5. CASE Tick \/ Restart \/ UNCHANGED workVars \/ \E id \in 1 .. MaxLogged : Confirmed(id)
  BY <1>2, <1>5 DEF Tick, Restart, workVars, Confirmed, Compaction
<1> HIDE DEF Other
<1> QED BY <1>3, <1>4, <1>5 DEF WorkNext, Other

LEMMA RolledStep ==
  ASSUME Sized, WorkTyped, "late" \notin WorkHazards, Rolled, [WorkNext]_workVars
  PROVE  Rolled'
<1>1. Day(now) \in Nat /\ Day(now') \in Nat /\ Day(now) <= Day(now')
  BY DaysPass
<1>2. ASSUME NEW s \in Worked \cup {Probe}, NEW a \in WorkKinds \cup {"start"}, NEW t \in 0 .. now,
             AppendEvent(s, a, t)
      PROVE  Rolled'
  <2>1. PICK e : /\ e.at = t /\ t = now
                 /\ events' = events \cup {e} /\ tokens' = tokens /\ rollup' = rollup /\ now' = now
    <3>0. t = now \/ "late" \in WorkHazards
      BY <1>2 DEF AppendEvent
    <3>1. PICK e : Entered(e, s, a, t)
      BY <1>2, AppendEffect
    <3> QED BY <3>0, <3>1 DEF Entered
  <2>2. \A k : k[1] < Day(now) => Part(events', k) = Part(events, k)
    <3>1. SUFFICES ASSUME NEW k, k[1] < Day(now) PROVE Part(events', k) = Part(events, k)
      OBVIOUS
    <3>2. Stamp(e) # k
      <4>1. Stamp(e) = k => Day(now) = k[1]
        BY <2>1 DEF Stamp
      <4> QED BY <1>1, <3>1, <4>1
    <3> QED BY <2>1, <3>2 DEF Part, Real
  <2> QED BY <2>1, <2>2 DEF Rolled
<1>3. ASSUME NEW r \in BOOLEAN, NEW c \in BOOLEAN, NEW v \in BOOLEAN, Sweep(r, c, v) PROVE Rolled'
  <2>1. /\ now' = now /\ tokens' = tokens
        /\ \A k \in Days \X Worked :
             \/ rollup'[k] = rollup[k] /\ Part(events', k) = Part(events, k)
             \/ /\ Part(events', k) = {} /\ k[1] < Day(now)
                /\ Part(events, k) # {} /\ rollup'[k] = Line(k, Part(events, k))
    BY <1>3, SweepEffect
  <2>2. SUFFICES ASSUME NEW k \in Days \X Worked
                 PROVE  /\ rollup'[k].rows = 1 => Part(events', k) = {} /\ k[1] < Day(now')
                        /\ rollup'[k].tokens <= tokens'[k]
    BY DEF Rolled
  <2>3. tokens[k] \in Nat /\ rollup[k].tokens \in Nat /\ rollup[k].tokens <= tokens[k]
        /\ (rollup[k].rows = 1 => Part(events, k) = {} /\ k[1] < Day(now))
    BY DEF WorkTyped, Rolled
  <2>4. CASE rollup'[k] = rollup[k] /\ Part(events', k) = Part(events, k)
    BY <2>1, <2>3, <2>4
  <2>5. CASE Part(events', k) = {} /\ k[1] < Day(now) /\ rollup'[k] = Line(k, Part(events, k))
    <3>1. Line(k, Part(events, k)).tokens \in {rollup[k].tokens, Max({rollup[k].tokens, tokens[k]})}
      BY DEF Line
    <3>2. Max({rollup[k].tokens, tokens[k]}) \in {rollup[k].tokens, tokens[k]}
      BY <2>3, LargestOfTwo
    <3> QED BY <2>1, <2>3, <2>5, <3>1, <3>2
  <2> QED BY <2>1, <2>4, <2>5
<1>4. ASSUME rollup' = rollup, \A k : Part(events', k) = Part(events, k),
             \A k \in Days \X Worked : tokens'[k] \in Nat /\ tokens[k] <= tokens'[k]
      PROVE  Rolled'
  <2>1. SUFFICES ASSUME NEW k \in Days \X Worked
                 PROVE  /\ rollup'[k].rows = 1 => Part(events', k) = {} /\ k[1] < Day(now')
                        /\ rollup'[k].tokens <= tokens'[k]
    BY DEF Rolled
  <2>2. /\ (rollup[k].rows = 1 => Part(events, k) = {} /\ k[1] < Day(now))
        /\ rollup[k].tokens <= tokens[k] /\ rollup[k].tokens \in Nat /\ tokens[k] \in Nat
    BY DEF Rolled, WorkTyped
  <2>3. rollup'[k] = rollup[k] /\ Part(events', k) = Part(events, k)
        /\ tokens'[k] \in Nat /\ tokens[k] <= tokens'[k]
    BY <1>4
  <2>4. k[1] \in Nat
    <3>1. Day(MaxTime) \in Nat
      BY BeforeMidnight DEF Sized
    <3> QED BY <3>1 DEF Days
  <2> QED BY <1>1, <2>2, <2>3, <2>4
<1>5. CASE \E s \in Worked, k \in WorkKinds, t \in 0 .. now : AppendEvent(s, k, t)
  BY <1>2, <1>5
<1>6. CASE AppendEvent(Probe, "start", now)
  <2>1. now \in 0 .. now
    BY DEF WorkTyped, WorkTypeOK
  <2> QED BY <1>2, <1>6, <2>1
<1> QED BY <1>3, <1>4, <1>5, <1>6, OtherSteps

LEMMA RolledIsSplit == ASSUME Sized, WorkTyped, Rolled PROVE SplitNowhere
<1>1. SUFFICES ASSUME NEW k \in Days \X Worked
               PROVE  /\ rollup[k].rows = 1 => ~\E e \in Of(events, k[2]) : Day(e.at) = k[1]
                      /\ rollup[k].tokens <= tokens[k]
  BY DEF SplitNowhere, WorkTyped, WorkTypeOK
<1>2. k = <<k[1], k[2]>> /\ k[2] # Probe
  BY DEF Sized
<1>3. \A e \in Of(events, k[2]) : Day(e.at) = k[1] => e \in Part(events, k)
  BY <1>2 DEF Of, Part, Real, Stamp
<1> QED BY <1>3 DEF Rolled

--------------------------------------------------------------------------------
(* The log, when nothing is logged for a day that is over                  *)

LogDated ==
  /\ \A e \in logged : e.id <= Cardinality(logged)
  /\ \A e, f \in logged : e.id = f.id => e = f
  /\ \A e, f \in logged : e.id < f.id => e.at <= f.at
Apart == ApartIn(Real(logged))
Prompts == PromptsIn(Real(logged))

LEMMA LoggedIs ==
  ASSUME Sized, WorkTyped, NEW e \in logged
  PROVE  /\ e.id \in Nat /\ e.at \in Nat /\ e.at <= now /\ e.at \in 0 .. MaxTime /\ now \in Nat
         /\ e \in Real(logged) <=> e.session # Probe
BY DEF WorkTyped, WorkTypeOK, Sized, Real

\* The latest event is the one no other comes after.
LEMMA LatestEvent ==
  ASSUME Sized, WorkTyped, LogDated, logged # {}
  PROVE  \E l \in logged : \A f \in logged : ~Earlier(l, f) /\ (f = l \/ Earlier(f, l))
<1> DEFINE N == Cardinality(logged)
           Lag == {N - e.id : e \in logged}
<1>1. N \in Nat
  BY FS_CardinalityType DEF WorkTyped
<1>2. \A e \in logged : e.id \in Nat /\ e.id <= N /\ N - e.id \in Lag
  BY LoggedIs DEF LogDated
<1> HIDE DEF N
<1>3. Lag \in SUBSET Nat /\ Lag # {}
  BY <1>1, <1>2
<1>4. PICK m \in Lag : \A n \in Lag : m <= n
  <2> HIDE DEF Lag
  <2> QED BY <1>3, Smallest
<1>5. PICK l \in logged : m = N - l.id
  BY <1>4
<1>6. ASSUME NEW f \in logged PROVE ~Earlier(l, f) /\ (f = l \/ Earlier(f, l))
  <2>1. l.id \in Nat /\ f.id \in Nat /\ l.at \in Nat /\ f.at \in Nat
    BY LoggedIs
  <2>2. f.id <= l.id
    <3> HIDE DEF Lag
    <3>1. N - f.id \in Lag /\ f.id <= N /\ l.id <= N
      BY <1>2
    <3>2. N - l.id <= N - f.id
      BY <1>4, <1>5, <3>1
    <3> QED BY <1>1, <2>1, <3>1, <3>2
  <2>3. CASE f.id = l.id
    BY <2>1, <2>3 DEF LogDated, Earlier
  <2>4. CASE f.id < l.id
    <3>1. f.at <= l.at
      BY <2>4 DEF LogDated
    <3> QED BY <2>1, <2>4, <3>1 DEF Earlier
  <2> QED BY <2>1, <2>2, <2>3, <2>4
<1> QED BY <1>6

LEMMA DatedStep ==
  ASSUME Sized, WorkTyped, "late" \notin WorkHazards, LogDated, [WorkNext]_workVars
  PROVE  LogDated'
<1>1. ASSUME NEW s \in Worked \cup {Probe}, NEW a \in WorkKinds \cup {"start"}, NEW t \in 0 .. now,
             AppendEvent(s, a, t)
      PROVE  LogDated'
  <2>1. t = now \/ "late" \in WorkHazards
    BY <1>1, AppendIsTimely
  <2>2. PICK e : /\ e = [id |-> Cardinality(logged) + 1, at |-> t, session |-> s, kind |-> a]
                 /\ logged' = logged \cup {e} /\ Cardinality(logged) \in Nat
    <3>1. PICK e : Entered(e, s, a, t)
      BY <1>1, AppendEffect
    <3> QED BY <3>1 DEF Entered
  <2> DEFINE N == Cardinality(logged)
  <2>3. N \in Nat /\ e.id = N + 1 /\ e.at = now
    BY <2>1, <2>2
  <2>4. \A f \in logged : f.id \in Nat /\ f.id <= N /\ f.at <= now
    BY LoggedIs DEF LogDated
  <2>5. e \notin logged
    <3> HIDE DEF N
    <3> QED BY <2>3, <2>4
  <2>6. Cardinality(logged') = N + 1
    <3>1. IsFiniteSet(logged)
      BY DEF WorkTyped
    <3>2. Cardinality(logged \cup {e}) = Cardinality(logged) + 1
      BY <2>5, <3>1, FS_AddElement
    <3> QED BY <2>2, <3>2
  <2>7. \A f, g \in logged : (f.id = g.id => f = g) /\ (f.id < g.id => f.at <= g.at)
    BY DEF LogDated
  <2>8. now \in Nat
    BY DEF WorkTyped, WorkTypeOK
  <2> HIDE DEF N
  <2>9. \A f \in logged' : f.id <= N + 1
    BY <2>2, <2>3, <2>4
  <2>10. ASSUME NEW f \in logged', NEW g \in logged'
         PROVE  (f.id = g.id => f = g) /\ (f.id < g.id => f.at <= g.at)
    <3>1. CASE f \in logged /\ g \in logged
      BY <2>7, <3>1
    <3>2. CASE f = e
      BY <2>2, <2>3, <2>4, <2>8, <3>2
    <3>3. CASE g = e
      BY <2>2, <2>3, <2>4, <2>8, <3>3
    <3> QED BY <2>2, <3>1, <3>2, <3>3
  <2> QED BY <2>6, <2>9, <2>10 DEF LogDated
<1>2. CASE \E r, c, v \in BOOLEAN : Sweep(r, c, v)
  BY <1>2 DEF Sweep, LogDated
<1>3. CASE logged' = logged
  BY <1>3 DEF LogDated
<1>4. CASE \E s \in Worked, k \in WorkKinds, t \in 0 .. now : AppendEvent(s, k, t)
  BY <1>1, <1>4
<1>5. CASE AppendEvent(Probe, "start", now)
  <2>1. now \in 0 .. now
    BY DEF WorkTyped, WorkTypeOK
  <2> QED BY <1>1, <1>5, <2>1
<1> QED BY <1>2, <1>3, <1>4, <1>5, OtherSteps

--------------------------------------------------------------------------------
(* The time worked                                                         *)

\* Work the daily sums can express: prompts of one session at a time, within a day.
Plain == {"tools", "parallel", "midnight", "late"} \cap WorkHazards = {}

\* A new prompt is of the last one's session and day, or far from all there were.
LEMMA NewPrompt ==
  ASSUME Sized, WorkTyped, LogDated, Apart, Plain, NEW s \in Worked, NEW a \in WorkKinds, NEW t \in 0 .. now,
         AppendEvent(s, a, t)
  PROVE  /\ a = "prompt" /\ t = now
         /\ \A f \in Real(logged) : Stamp(f) # <<Day(now), s>> => now - f.at > IdleTime
<1>1. t = now \/ "late" \in WorkHazards
  BY AppendIsTimely
<1>2. t = now /\ "tools" \notin WorkHazards /\ "parallel" \notin WorkHazards /\ "midnight" \notin WorkHazards
  BY <1>1 DEF Plain
<1>3. Usual(s, a, t)
  BY DEF AppendEvent, Sized
<1> DEFINE last == {e \in logged : ~\E f \in logged : Earlier(e, f)}
<1>4. /\ a = "prompt"
      /\ \A e \in last : e.session = s \/ now - e.at > IdleTime
      /\ \A e \in last : Day(e.at) = Day(now) \/ now - e.at > IdleTime
  BY <1>2, <1>3 DEF Usual
<1>5. ASSUME NEW f \in Real(logged), Stamp(f) # <<Day(now), s>> PROVE now - f.at > IdleTime
  <2>1. f \in logged /\ logged # {}
    BY DEF Real
  <2>2. PICK l \in logged : \A g \in logged : ~Earlier(l, g) /\ (g = l \/ Earlier(g, l))
    BY <2>1, LatestEvent
  <2>3. l \in last
    BY <2>2
  <2>4. WorkGap(<<l, [at |-> now]>>) = now - l.at
    BY DEF WorkGap
  <2>5. (l.session = s \/ now - l.at > IdleTime) /\ (Day(l.at) = Day(now) \/ now - l.at > IdleTime)
    BY <1>4, <2>3, <2>4
  <2>6. /\ f.at \in Nat /\ l.at \in Nat /\ now \in Nat /\ IdleTime \in Nat /\ l.at <= now
        /\ l \in Real(logged) <=> l.session # Probe
    BY <2>1, LoggedIs DEF Sized
  <2>7. f = l \/ Earlier(f, l)
    BY <2>1, <2>2
  <2>8. CASE now - l.at > IdleTime
    BY <2>6, <2>7, <2>8 DEF Earlier
  <2>9. CASE l.session = s /\ Day(l.at) = Day(now)
    <3>1. Stamp(l) = <<Day(now), s>> /\ l \in Real(logged)
      BY <2>6, <2>9 DEF Stamp, Sized
    <3>2. Earlier(f, l) /\ Stamp(f) # Stamp(l)
      BY <1>5, <2>7, <3>1
    <3>3. l.at - f.at > IdleTime
      BY <3>1, <3>2 DEF Apart, ApartIn
    <3> QED BY <2>6, <3>3
  <2> QED BY <2>5, <2>8, <2>9
<1> QED BY <1>2, <1>4, <1>5

LEMMA WorkedStep ==
  ASSUME Sized, WorkTyped, Plain, LogDated, Prompts, Apart, [WorkNext]_workVars
  PROVE  Prompts' /\ Apart'
<1>1. ASSUME NEW s \in Worked, NEW a \in WorkKinds, NEW t \in 0 .. now, AppendEvent(s, a, t)
      PROVE  Prompts' /\ Apart'
  <2>1. /\ a = "prompt" /\ t = now
        /\ \A f \in Real(logged) : Stamp(f) # <<Day(now), s>> => now - f.at > IdleTime
    BY <1>1, NewPrompt
  <2>2. PICK e : /\ e = [id |-> Cardinality(logged) + 1, at |-> t, session |-> s, kind |-> a]
                 /\ logged' = logged \cup {e} /\ Cardinality(logged) \in Nat
    <3>1. PICK e : Entered(e, s, a, t)
      BY <1>1, AppendEffect
    <3> QED BY <3>1 DEF Entered
  <2>3. e.id = Cardinality(logged) + 1 /\ e.at = now /\ e.session = s /\ e.kind = "prompt"
    BY <2>1, <2>2
  <2>4. Real(logged') = Real(logged) \cup {e} /\ Stamp(e) = <<Day(now), s>>
    BY <2>2, <2>3 DEF Real, Stamp, Sized
  <2>5. Prompts'
    BY <2>3, <2>4 DEF Prompts, PromptsIn
  <2>6. ASSUME NEW f \in Real(logged) PROVE ~Earlier(e, f)
    <3>1. f \in logged
      BY DEF Real
    <3>2. f.at <= now /\ f.at \in Nat /\ now \in Nat /\ f.id \in Nat /\ f.id <= Cardinality(logged)
      BY <3>1, LoggedIs DEF LogDated
    <3> QED BY <2>2, <2>3, <3>2 DEF Earlier
  <2>7. ~Earlier(e, e)
    <3>1. now \in Nat
      BY DEF WorkTyped, WorkTypeOK
    <3> QED BY <2>2, <2>3, <3>1 DEF Earlier
  <2>8. ASSUME NEW f \in Real(logged'), NEW g \in Real(logged'), Earlier(f, g), Stamp(f) # Stamp(g)
        PROVE  g.at - f.at > IdleTime
    <3>1. f \in Real(logged)
      BY <2>4, <2>6, <2>7, <2>8
    <3>2. CASE g \in Real(logged)
      BY <2>8, <3>1, <3>2 DEF Apart, ApartIn
    <3>3. CASE g = e
      BY <2>1, <2>3, <2>4, <2>8, <3>1, <3>3
    <3> QED BY <2>4, <3>2, <3>3
  <2>9. Apart'
    BY <2>8 DEF Apart, ApartIn
  <2> QED BY <2>5, <2>9
<1>2. CASE AppendEvent(Probe, "start", now)
  <2>1. \A e \in logged' : e \in logged \/ e.session = Probe
    BY <1>2 DEF AppendEvent
  <2>2. logged \subseteq logged'
    BY <1>2 DEF AppendEvent
  <2>3. Real(logged') = Real(logged)
    BY <2>1, <2>2 DEF Real
  <2> QED BY <2>3 DEF Prompts, Apart, PromptsIn, ApartIn
<1>3. CASE logged' = logged
  BY <1>3 DEF Prompts, Apart, PromptsIn, ApartIn
<1>4. CASE \E r, c, v \in BOOLEAN : Sweep(r, c, v)
  BY <1>3, <1>4 DEF Sweep
<1> QED BY <1>1, <1>2, <1>3, <1>4, OtherSteps

--------------------------------------------------------------------------------
(* A report over everything                                                *)

\* What a day of a session has lost to its line.
Gone(k) == Part(logged, k) \ events
Split ==
  \A k \in Days \X Worked :
    \/ Gone(k) = {} /\ rollup[k] = NoLine
    \/ /\ Part(events, k) = {} /\ k[1] < Day(now)
       /\ rollup[k].human = HumanSeconds(Part(logged, k)) /\ rollup[k].active = 0

LEMMA NoSeconds == WorkSeconds({}) = 0 /\ HumanSeconds({}) = 0
<1>1. WorkWindows({}) = {} /\ {e \in {} : IsHumanSignal(e)} = {}
  BY DEF WorkWindows
<1>2. WorkSeconds({}) = 0
  <2> DEFINE g == [w \in {} |-> CountedGap(w)]
  <2>1. WorkSeconds({}) = SumFunction(g) /\ DOMAIN g = {}
    BY DEF WorkSeconds
  <2> HIDE DEF g
  <2> QED BY <2>1, SumOfEmpty
<1>3. HumanSeconds({}) = WorkSeconds(WorkWindows({e \in {} : IsHumanSignal(e)}))
  BY DEF HumanSeconds
<1> QED BY <1>1, <1>2, <1>3

LEMMA PartsOfEvents ==
  ASSUME WorkTyped, Prompts, NEW k
  PROVE  /\ Part(events, k) \subseteq Part(logged, k) /\ PromptsIn(Part(logged, k))
         /\ PromptsIn(Part(events, k)) /\ PromptsIn(Real(events)) /\ Real(events) \subseteq Real(logged)
BY DEF WorkTyped, Prompts, PromptsIn, Part, Real

\* The line of prompts alone holds their seconds.
LEMMA LineOfPrompts ==
  ASSUME Sized, WorkTyped, NEW k, NEW S, S # {}, PromptsIn(S), rollup[k] = NoLine
  PROVE  Line(k, S).active = 0 /\ Line(k, S).human = 0 + HumanSeconds(S)
<1>1. ~\A e \in S : ~IsHumanSignal(e) /\ ~IsAgentActivity(e)
  BY DEF PromptsIn, IsHumanSignal
<1>2. /\ Line(k, S).human = rollup[k].human + HumanSeconds(S)
      /\ Line(k, S).active = rollup[k].active + ActiveSeconds(S)
  BY <1>1 DEF Line
<1>3. WorkWindows({e \in S : IsAgentActivity(e)}) = {}
  BY SignalsOfPrompts DEF WorkWindows
<1>4. ActiveSeconds(S) = 0
  BY <1>3, NoSeconds DEF ActiveSeconds
<1> QED BY <1>2, <1>4 DEF NoLine

\* The seconds of a day are a number.
LEMMA DayIsNat ==
  ASSUME Sized, NEW S, IsFiniteSet(S), TimedIn(S), PromptsIn(S) PROVE HumanSeconds(S) \in Nat
<1> DEFINE W == WorkWindows(S)
           g == [w \in W |-> CountedGap(w)]
<1>1. HumanSeconds(S) = WorkSeconds(W)
  BY SignalsOfPrompts DEF HumanSeconds
<1>2. IsFiniteSet(W) /\ \A w \in W : CountedGap(w) \in Nat
  BY FiniteWindows, CountedGapIsNat
<1>3. \A w \in W : g[w] = CountedGap(w) /\ g[w] \in Nat
  BY <1>2
<1> HIDE DEF W, g
<1>4. WorkSeconds(W) = SumFunctionOnSet(g, W) /\ SumFunctionOnSet(g, W) \in Nat
  BY <1>2, <1>3, CountedBy, SumIsNat
<1> QED BY <1>1, <1>4

LEMMA LogParts ==
  ASSUME Sized, WorkTyped, Prompts, NEW k
  PROVE  /\ IsFiniteSet(Part(logged, k)) /\ IsFiniteSet(Part(events, k))
         /\ IsFiniteSet(Real(logged)) /\ IsFiniteSet(Real(events))
         /\ TimedIn(Part(logged, k)) /\ TimedIn(Part(events, k))
         /\ TimedIn(Real(logged)) /\ TimedIn(Real(events))
<1>1. Part(logged, k) \subseteq logged /\ Part(events, k) \subseteq logged
      /\ Real(logged) \subseteq logged /\ Real(events) \subseteq logged /\ IsFiniteSet(logged)
  BY DEF Part, Real, WorkTyped
<1>2. \A e \in logged : e.at \in 0 .. MaxTime /\ e.id \in Nat
  BY LoggedIs
<1>3. \A S : S \subseteq logged => IsFiniteSet(S) /\ TimedIn(S)
  BY <1>1, <1>2, FS_Subset DEF TimedIn
<1> QED BY <1>1, <1>3

LEMMA SplitStep ==
  ASSUME Sized, WorkTyped, Plain, LogDated, Prompts, Apart, Split, [WorkNext]_workVars
  PROVE  Split'
<1>1. Day(now) \in Nat /\ Day(now') \in Nat /\ Day(now) <= Day(now')
  BY DaysPass
<1>2. ASSUME NEW s \in Worked \cup {Probe}, NEW a \in WorkKinds \cup {"start"}, NEW t \in 0 .. now,
             AppendEvent(s, a, t)
      PROVE  Split'
  <2>1. t = now
    <3>1. t = now \/ "late" \in WorkHazards
      BY <1>2, AppendIsTimely
    <3> QED BY <3>1 DEF Plain
  <2>2. PICK e : /\ e = [id |-> Cardinality(logged) + 1, at |-> t, session |-> s, kind |-> a]
                 /\ events' = events \cup {e} /\ logged' = logged \cup {e}
                 /\ rollup' = rollup /\ now' = now
    <3>1. PICK e : Entered(e, s, a, t)
      BY <1>2, AppendEffect
    <3> QED BY <3>1 DEF Entered
  <2>3. e.at = now
    BY <2>1, <2>2
  <2>4. SUFFICES ASSUME NEW k \in Days \X Worked
                 PROVE  \/ Gone(k)' = {} /\ rollup'[k] = NoLine
                        \/ /\ Part(events', k) = {} /\ k[1] < Day(now')
                           /\ rollup'[k].human = HumanSeconds(Part(logged', k)) /\ rollup'[k].active = 0
    BY DEF Split, Gone
  <2>5. Gone(k)' \subseteq Gone(k)
    BY <2>2 DEF Gone, Part, Real
  <2>6. CASE Gone(k) = {} /\ rollup[k] = NoLine
    BY <2>2, <2>5, <2>6
  <2>7. CASE /\ Part(events, k) = {} /\ k[1] < Day(now)
             /\ rollup[k].human = HumanSeconds(Part(logged, k)) /\ rollup[k].active = 0
    <3>1. Stamp(e) # k
      <4>1. Stamp(e) = k => Day(now) = k[1]
        BY <2>3 DEF Stamp
      <4> QED BY <1>1, <2>7, <4>1
    <3>2. Part(events', k) = Part(events, k) /\ Part(logged', k) = Part(logged, k)
      BY <2>2, <3>1 DEF Part, Real
    <3> QED BY <2>2, <2>7, <3>2
  <2> QED BY <2>6, <2>7 DEF Split
<1>3. ASSUME NEW r \in BOOLEAN, NEW c \in BOOLEAN, NEW v \in BOOLEAN, Sweep(r, c, v) PROVE Split'
  <2>1. /\ now' = now /\ logged' = logged
        /\ \A k \in Days \X Worked :
             \/ rollup'[k] = rollup[k] /\ Part(events', k) = Part(events, k)
             \/ /\ Part(events', k) = {} /\ k[1] < Day(now)
                /\ Part(events, k) # {} /\ rollup'[k] = Line(k, Part(events, k))
    BY <1>3, SweepEffect
  <2>2. SUFFICES ASSUME NEW k \in Days \X Worked
                 PROVE  \/ Gone(k)' = {} /\ rollup'[k] = NoLine
                        \/ /\ Part(events', k) = {} /\ k[1] < Day(now')
                           /\ rollup'[k].human = HumanSeconds(Part(logged', k)) /\ rollup'[k].active = 0
    BY DEF Split, Gone
  <2>3. CASE rollup'[k] = rollup[k] /\ Part(events', k) = Part(events, k)
    <3>1. Gone(k)' = Gone(k)
      <4>1. \A e \in Part(logged, k) : e \in events <=> e \in Part(events, k)
        BY DEF Part, Real
      <4>2. \A e \in Part(logged, k) : e \in events' <=> e \in Part(events', k)
        BY DEF Part, Real
      <4> QED BY <2>1, <2>3, <4>1, <4>2 DEF Gone
    <3> QED BY <2>1, <2>3, <3>1 DEF Split
  <2>4. CASE /\ Part(events', k) = {} /\ k[1] < Day(now)
             /\ Part(events, k) # {} /\ rollup'[k] = Line(k, Part(events, k))
    <3>1. Gone(k) = {} /\ rollup[k] = NoLine
      BY <2>4 DEF Split
    <3>2. Part(events, k) = Part(logged, k)
      <4>1. Part(events, k) \subseteq Part(logged, k)
        BY PartsOfEvents
      <4>2. \A e \in Part(logged, k) : e \in Part(events, k)
        BY <3>1 DEF Gone, Part, Real
      <4> QED BY <4>1, <4>2
    <3>3. PromptsIn(Part(events, k)) /\ PromptsIn(Part(logged, k))
      BY PartsOfEvents
    <3>4. /\ Line(k, Part(events, k)).active = 0
          /\ Line(k, Part(events, k)).human = 0 + HumanSeconds(Part(events, k))
      BY <2>4, <3>1, <3>3, LineOfPrompts
    <3>5. HumanSeconds(Part(logged, k)) \in Nat
      BY <3>3, LogParts, DayIsNat
    <3>6. 0 + HumanSeconds(Part(events, k)) = HumanSeconds(Part(logged, k))
      BY <3>2, <3>5
    <3> QED BY <2>1, <2>4, <3>4, <3>6
  <2> QED BY <2>1, <2>3, <2>4
<1>4. ASSUME logged' = logged, rollup' = rollup, events' \in {events, Real(events)},
             \A k : Part(events', k) = Part(events, k)
      PROVE  Split'
  <2>1. SUFFICES ASSUME NEW k \in Days \X Worked
                 PROVE  \/ Gone(k)' = {} /\ rollup'[k] = NoLine
                        \/ /\ Part(events', k) = {} /\ k[1] < Day(now')
                           /\ rollup'[k].human = HumanSeconds(Part(logged', k)) /\ rollup'[k].active = 0
    BY DEF Split, Gone
  <2>2. Gone(k)' = Gone(k)
    <3>1. \A e \in Part(logged, k) : e \in events <=> e \in events'
      BY <1>4 DEF Part, Real
    <3> QED BY <1>4, <3>1 DEF Gone
  <2>3. k[1] \in Nat
    <3>1. Day(MaxTime) \in Nat
      BY BeforeMidnight DEF Sized
    <3> QED BY <3>1 DEF Days
  <2>4. k[1] < Day(now) => k[1] < Day(now')
    BY <1>1, <2>3
  <2> QED BY <1>4, <2>2, <2>4 DEF Split
<1>5. CASE \E s \in Worked, k \in WorkKinds, t \in 0 .. now : AppendEvent(s, k, t)
  BY <1>2, <1>5
<1>6. CASE AppendEvent(Probe, "start", now)
  <2>1. now \in 0 .. now
    BY DEF WorkTyped, WorkTypeOK
  <2> QED BY <1>2, <1>6, <2>1
<1> QED BY <1>3, <1>4, <1>5, <1>6, OtherSteps

LEMMA NoAgents ==
  ASSUME Sized, NEW S, PromptsIn(S), NEW p PROVE AgentOf(S, p) = 0
<1> DEFINE D == {x \in Worked : Project[x] = p}
           g == [s \in D |-> AgentSeconds(Of(S, s))]
<1>1. IsFiniteSet(D)
  BY FS_Subset DEF Sized
<1>2. AgentOf(S, p) = SumFunctionOnSet(g, D)
  BY DEF AgentOf, SumFunction
<1>3. ASSUME NEW s \in D PROVE g[s] = 0
  <2>1. ~\E e \in Of(S, s) : IsAgentActivity(e)
    BY DEF Of, PromptsIn, IsAgentActivity
  <2> QED BY <2>1 DEF AgentSeconds
<1> HIDE DEF D, g
<1> QED BY <1>1, <1>2, <1>3, SumOfZeros

\* The lines and what is left of the log add up to the log.
LEMMA HumanTotals ==
  ASSUME Sized, WorkTyped, Prompts, Apart, Split, NEW p
  PROVE  HumanOf(Real(events), p) + SumFunction([k \in LinesOf(p) |-> rollup[k].human])
         = HumanOf(Real(logged), p)
<1> DEFINE K == Keys(p)
           f == [k \in K |-> HumanSeconds(Part(events, k))]
           h == [k \in K |-> HumanSeconds(Part(logged, k))]
           r == [k \in K |-> rollup[k].human]
<1>1. IsFiniteSet(K) /\ K \subseteq Days \X Worked /\ LinesOf(p) = K
  <2>1. DOMAIN rollup = Days \X Worked
    BY DEF WorkTyped, WorkTypeOK
  <2> QED BY <2>1, FiniteKeys DEF LinesOf, Keys
<1>2. \A k \in K : f[k] = HumanSeconds(Part(Real(events), k))
  BY PartsOfReal
<1>3. \A k \in K : h[k] = HumanSeconds(Part(Real(logged), k))
  BY PartsOfReal
<1>4. /\ PromptsIn(Real(events)) /\ PromptsIn(Real(logged))
      /\ Real(events) \subseteq Real(logged)
  BY PartsOfEvents DEF Prompts
<1>5. ApartIn(Real(events)) /\ ApartIn(Real(logged))
  BY <1>4 DEF Apart, ApartIn
<1>6. \A k \in K : r[k] \in Nat /\ f[k] \in Nat /\ h[k] = f[k] + r[k]
  <2>1. SUFFICES ASSUME NEW k \in K PROVE r[k] \in Nat /\ f[k] \in Nat /\ h[k] = f[k] + r[k]
    OBVIOUS
  <2>2. /\ r[k] = rollup[k].human /\ f[k] = HumanSeconds(Part(events, k))
        /\ h[k] = HumanSeconds(Part(logged, k)) /\ k \in Days \X Worked
    BY <1>1
  <2>3. PromptsIn(Part(events, k)) /\ PromptsIn(Part(logged, k))
    BY PartsOfEvents
  <2>4. HumanSeconds(Part(events, k)) \in Nat /\ HumanSeconds(Part(logged, k)) \in Nat
    BY <2>3, LogParts, DayIsNat
  <2>5. CASE Gone(k) = {} /\ rollup[k] = NoLine
    <3>1. Part(events, k) = Part(logged, k)
      <4>1. Part(events, k) \subseteq Part(logged, k)
        BY PartsOfEvents
      <4>2. \A e \in Part(logged, k) : e \in Part(events, k)
        BY <2>5 DEF Gone, Part, Real
      <4> QED BY <4>1, <4>2
    <3>2. rollup[k].human = 0
      BY <2>5 DEF NoLine
    <3> QED BY <2>2, <2>4, <3>1, <3>2
  <2>6. CASE Part(events, k) = {} /\ rollup[k].human = HumanSeconds(Part(logged, k))
    BY <2>2, <2>4, <2>6, NoSeconds
  <2> QED BY <2>2, <2>5, <2>6 DEF Split
<1>7. SumFunction([k \in LinesOf(p) |-> rollup[k].human]) = SumFunctionOnSet(r, K)
  BY <1>1 DEF SumFunction
<1> HIDE DEF f, h, r
<1>8. HumanOf(Real(events), p) = SumFunctionOnSet(f, K)
  BY <1>2, <1>4, <1>5, LogParts, DaysAddUp
<1>9. HumanOf(Real(logged), p) = SumFunctionOnSet(h, K)
  BY <1>3, <1>4, <1>5, LogParts, DaysAddUp
<1>10. SumFunctionOnSet(h, K) = SumFunctionOnSet(f, K) + SumFunctionOnSet(r, K)
  <2> HIDE DEF K
  <2> QED BY <1>1, <1>6, SumOfTwo
<1> QED BY <1>7, <1>8, <1>9, <1>10

LEMMA ActiveTotals ==
  ASSUME Sized, WorkTyped, Split, NEW p
  PROVE  SumFunction([k \in LinesOf(p) |-> rollup[k].active]) = 0
<1> DEFINE r == [k \in LinesOf(p) |-> rollup[k].active]
<1>1. DOMAIN rollup = Days \X Worked
  BY DEF WorkTyped, WorkTypeOK
<1>2. IsFiniteSet(LinesOf(p)) /\ LinesOf(p) \subseteq Days \X Worked
  BY <1>1, FiniteKeys, FS_Subset DEF LinesOf
<1>3. \A k \in LinesOf(p) : r[k] = 0
  BY <1>2 DEF Split, NoLine
<1>4. SumFunction(r) = SumFunctionOnSet(r, LinesOf(p))
  BY DEF SumFunction
<1> HIDE DEF r
<1>5. SumFunction(r) = 0
  BY <1>2, <1>3, <1>4, SumOfZeros
<1> QED BY <1>5 DEF r

LEMMA SplitIsTotal ==
  ASSUME Sized, WorkTyped, Prompts, Apart, Split PROVE TotalsSurvive
<1> DEFINE P == {Project[s] : s \in Worked}
<1>1. ASSUME NEW p \in P
      PROVE  /\ Build(events)[p].human + SumFunction([k \in LinesOf(p) |-> rollup[k].human])
                = Build(logged)[p].human
             /\ Build(events)[p].agent + SumFunction([k \in LinesOf(p) |-> rollup[k].active])
                = Build(logged)[p].agent
  <2>1. /\ Build(events)[p].human = HumanOf(Real(events), p)
        /\ Build(logged)[p].human = HumanOf(Real(logged), p)
        /\ Build(events)[p].agent = AgentOf(Real(events), p)
        /\ Build(logged)[p].agent = AgentOf(Real(logged), p)
    BY DEF Build
  <2>2. AgentOf(Real(events), p) = 0 /\ AgentOf(Real(logged), p) = 0
    BY PartsOfEvents, NoAgents DEF Prompts
  <2>3. SumFunction([k \in LinesOf(p) |-> rollup[k].active]) = 0
    BY ActiveTotals
  <2>4. HumanOf(Real(events), p) + SumFunction([k \in LinesOf(p) |-> rollup[k].human])
        = HumanOf(Real(logged), p)
    BY HumanTotals
  <2> QED BY <2>1, <2>2, <2>3, <2>4
<1>2. Report = [p \in P |-> [human |-> Build(logged)[p].human, agent |-> Build(logged)[p].agent]]
  BY <1>1 DEF Report
<1>3. Build(logged) = [p \in P |-> [human |-> Build(logged)[p].human, agent |-> Build(logged)[p].agent]]
  BY DEF Build
<1> QED BY <1>2, <1>3 DEF TotalsSurvive

--------------------------------------------------------------------------------
(* Theorems                                                                *)

\* The types of the log, the lines and the flags, whatever the hazards.
THEOREM RetentionTyped == ASSUME Sized PROVE RetentionSpec => []WorkTypeOK
<1>1. WorkInit => WorkTyped
  BY TypedInit
<1>2. WorkTyped /\ [WorkNext]_workVars => WorkTyped'
  BY TypedStep
<1>3. WorkTyped => WorkTypeOK
  BY DEF WorkTyped
<1> QED BY <1>1, <1>2, <1>3, PTL DEF RetentionSpec

\* Space that a compaction freed is remembered until a vacuum, as long as no
\* restart comes between them (maintenance_sweep's flag is the task's own).
THEOREM SpaceIsRemembered ==
  ASSUME Sized, "restart" \notin WorkHazards PROVE RetentionSpec => []HolesRemembered
<1>1. WorkInit => WorkTyped /\ HolesRemembered
  BY TypedInit DEF WorkInit, HolesRemembered
<1>2. WorkTyped /\ HolesRemembered /\ [WorkNext]_workVars => WorkTyped' /\ HolesRemembered'
  BY TypedStep, HolesStep
<1> QED BY <1>1, <1>2, PTL DEF RetentionSpec

LEMMA InitParts == ASSUME Sized, WorkInit PROVE \A k : Part(events, k) = {} /\ Part(logged, k) = {}
BY DEF WorkInit, Part, Real

\* A day of a session is a line or events, never both, and its tokens are counted
\* once, when nothing is logged for a day that is over (compact's aligned cutoff).
THEOREM DaysAreNotSplit ==
  ASSUME Sized, "late" \notin WorkHazards PROVE RetentionSpec => []SplitNowhere
<1>1. WorkInit => WorkTyped /\ Rolled
  <2>1. WorkInit => Rolled
    BY DEF WorkInit, Rolled, NoLine
  <2> QED BY <2>1, TypedInit
<1>2. WorkTyped /\ Rolled /\ [WorkNext]_workVars => WorkTyped' /\ Rolled'
  BY TypedStep, RolledStep
<1>3. WorkTyped /\ Rolled => SplitNowhere
  BY RolledIsSplit
<1> QED BY <1>1, <1>2, <1>3, PTL DEF RetentionSpec

\* A report over everything says of a project what the events said, however much
\* of the log has been compacted, for work the daily sums can express.
THEOREM ReportsSurvive == ASSUME Sized, Plain PROVE RetentionSpec => []TotalsSurvive
<1> DEFINE Inv == WorkTyped /\ LogDated /\ Prompts /\ Apart /\ Split
<1>0. "late" \notin WorkHazards
  BY DEF Plain
<1>1. WorkInit => Inv
  <2>1. WorkInit => LogDated /\ Prompts /\ Apart /\ Split
    <3>1. WorkInit => LogDated /\ Prompts /\ Apart
      BY DEF WorkInit, LogDated, Prompts, Apart, PromptsIn, ApartIn, Real
    <3>2. WorkInit => Split
      BY InitParts DEF Split, Gone, WorkInit
    <3> QED BY <3>1, <3>2
  <2> QED BY <2>1, TypedInit
<1>2. Inv /\ [WorkNext]_workVars => Inv'
  BY <1>0, TypedStep, DatedStep, WorkedStep, SplitStep
<1>3. Inv => TotalsSurvive
  BY SplitIsTotal
<1> QED BY <1>1, <1>2, <1>3, PTL DEF RetentionSpec

\* Together: a sweep loses nothing.
THEOREM NothingIsLost ==
  ASSUME Sized, Plain, "restart" \notin WorkHazards PROVE RetentionSpec => []SweepKeepsAll
<1>0. "late" \notin WorkHazards
  BY DEF Plain
<1>1. TotalsSurvive /\ SplitNowhere /\ HolesRemembered => SweepKeepsAll
  BY DEF SweepKeepsAll
<1> QED BY <1>0, <1>1, ReportsSurvive, DaysAreNotSplit, SpaceIsRemembered, PTL

================================================================================
