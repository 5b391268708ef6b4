-------------------------------- MODULE Retention ------------------------------
(***************************************************************************)
(* What a report says of the time worked, before and after the hourly      *)
(* maintenance sweep has replaced old events by daily sums: report.rs and  *)
(* accounting.rs over the event log, Store::compact and maintenance_sweep  *)
(* under them, and the rows of a capture probe that must never count.      *)
(*                                                                         *)
(* Time is in ticks, DayLen to a day.  WorkHazards: "tools" (an agent      *)
(* works between a PreTool and a PostTool), "parallel" (two sessions at    *)
(* once), "midnight" (somebody works past it), "late" (`dira log` for a    *)
(* day long gone), "restart" (of the daemon, with a vacuum due).           *)
(***************************************************************************)
EXTENDS Naturals, FiniteSets, FiniteSetsExt, Functions

CONSTANTS
  Worked, Project,        \* the sessions that work, and the project of each
  WorkKinds,              \* kinds of their events
  DayLen, IdleTime, MaxToolSpan, KeepDays, VacuumEvery,  \* the configuration
  MaxLogged, MaxTime,     \* bounds
  WorkHazards

VARIABLES
  now,
  events,    \* the log: [id, at, session, kind]
  cursor,    \* the last id the cloud confirmed, 0
  tokens,    \* <<day, session>> -> the tokens recorded for it
  rollup,    \* <<day, session>> -> [human, active, tokens], where there is one
  sweeps, dirty, holes,
  logged     \* history: every event ever appended

workVars == <<now, events, cursor, tokens, rollup, sweeps, dirty, holes, logged>>

Probe == "probe"
Day(t) == t \div DayLen
Days == 0 .. Day(MaxTime)
NoLine == [human |-> 0, active |-> 0, tokens |-> 0, rows |-> 0]

WorkTypeOK ==
  /\ now \in 0 .. MaxTime /\ cursor \in 0 .. MaxLogged
  /\ events \subseteq [id : 1 .. MaxLogged, at : 0 .. MaxTime,
                       session : Worked \cup {Probe}, kind : WorkKinds \cup {"start"}]
  /\ DOMAIN rollup = Days \X Worked /\ dirty \in BOOLEAN /\ holes \in BOOLEAN

WorkInit ==
  /\ now = 0 /\ events = {} /\ cursor = 0 /\ logged = {}
  /\ tokens = [k \in Days \X Worked |-> 0]
  /\ rollup = [k \in Days \X Worked |-> NoLine]
  /\ sweeps = 0 /\ dirty = FALSE /\ holes = FALSE

--------------------------------------------------------------------------------
(* accounting.rs, report.rs *)

IsHumanSignal(e) == e.kind = "prompt"
IsAgentActivity(e) == e.kind \in {"pre", "post"}

Earlier(a, b) == a.at < b.at \/ (a.at = b.at /\ a.id < b.id)
\* windows(2) of the sorted events.
WorkWindows(S) ==
  {w \in S \X S : Earlier(w[1], w[2]) /\ ~\E c \in S : Earlier(w[1], c) /\ Earlier(c, w[2])}
WorkGap(w) == w[2].at - w[1].at

\* counted_gaps: a gap of more than IdleTime is idle time; otherwise it is the
\* opening signal's.
CountedGap(w) == IF WorkGap(w) <= IdleTime THEN WorkGap(w) ELSE 0
WorkSeconds(W) == SumFunction([w \in W |-> CountedGap(w)])
HumanSeconds(S) == WorkSeconds(WorkWindows({e \in S : IsHumanSignal(e)}))
ActiveSeconds(S) == WorkSeconds(WorkWindows({e \in S : IsAgentActivity(e)}))

\* agent_active_seconds: a gap is cut off, not thrown away, and a tool's later.
AgentGap(w) == Min({WorkGap(w), IF w[1].kind = "pre" THEN MaxToolSpan ELSE IdleTime})
AgentSeconds(S) ==
  IF \E e \in S : IsAgentActivity(e) THEN SumFunction([w \in WorkWindows(S) |-> AgentGap(w)])
  ELSE 0

\* Sessions of a project are one stretch of human time, and the gap between two
\* projects' signals belongs to the first.
Of(S, s) == {e \in S : e.session = s}
HumanOf(S, p) ==
  WorkSeconds({w \in WorkWindows({e \in S : IsHumanSignal(e)}) : Project[w[1].session] = p})
AgentOf(S, p) ==
  SumFunction([s \in {x \in Worked : Project[x] = p} |-> AgentSeconds(Of(S, s))])
Real(S) == {e \in S : e.session # Probe}
Build(S) ==
  [p \in {Project[s] : s \in Worked} |->
     [human |-> HumanOf(Real(S), p), agent |-> AgentOf(Real(S), p)]]
\* build_merged: the rollup lines are added to the project's.
LinesOf(p) == {k \in DOMAIN rollup : Project[k[2]] = p}
Report ==
  [p \in {Project[s] : s \in Worked} |->
     [human |-> Build(events)[p].human + SumFunction([k \in LinesOf(p) |-> rollup[k].human]),
      agent |-> Build(events)[p].agent + SumFunction([k \in LinesOf(p) |-> rollup[k].active])]]

--------------------------------------------------------------------------------
(* The store and the sweep *)

Compaction == UNCHANGED <<rollup, sweeps, dirty, holes>>
Usual(s, k, t) ==
  LET mine == {e \in logged : e.session = s}
      last == {e \in logged : ~\E f \in logged : Earlier(e, f)}
  IN /\ k = "prompt" \/ "tools" \in WorkHazards
     /\ "tools" \in WorkHazards => \A e \in mine : Day(e.at) = Day(t)
     /\ \A e \in last : e.session = s \/ t - e.at > IdleTime \/ "parallel" \in WorkHazards
     /\ \A e \in last : Day(e.at) = Day(t) \/ t - e.at > IdleTime \/ "midnight" \in WorkHazards
AppendEvent(s, k, t) ==
  LET e == [id |-> Cardinality(logged) + 1, at |-> t, session |-> s, kind |-> k] IN
  /\ e.id <= MaxLogged
  /\ t = now \/ ("late" \in WorkHazards /\ k = "prompt")
  /\ Usual(s, k, t) \/ s = Probe
  /\ events' = events \cup {e} /\ logged' = logged \cup {e}
  /\ UNCHANGED <<now, cursor, tokens>> /\ Compaction
TokenRow(s) ==
  /\ tokens[<<Day(now), s>>] = 0 /\ \E e \in Of(events, s) : e.at = now
  /\ tokens' = [tokens EXCEPT ![<<Day(now), s>>] = @ + 1]
  /\ UNCHANGED <<now, events, cursor, logged>> /\ Compaction
Confirmed(id) ==
  /\ \E e \in logged : e.id = id
  /\ id > cursor /\ cursor' = id
  /\ UNCHANGED <<now, events, tokens, logged>> /\ Compaction
Tick ==
  /\ now < MaxTime /\ now' = now + 1
  /\ UNCHANGED <<events, cursor, tokens, logged>> /\ Compaction
\* probe::verify reaps on every path; a row it missed waits for the sweep.
Reap ==
  /\ Of(events, Probe) # {} /\ events' = Real(events)
  /\ UNCHANGED <<now, cursor, tokens, logged>> /\ Compaction

\* compact: up to the midnight before the retention window, and before the
\* oldest event that is not confirmed.
Midnight(t) == Day(t) * DayLen
Unaligned(t) == t
Aligned(t) == Midnight(t)
Unsynced == {e \in Real(events) : e.id > cursor}
Cutoff ==
  Min({Aligned(IF now < KeepDays * DayLen THEN 0 ELSE now - KeepDays * DayLen)}
      \cup {Aligned(e.at) : e \in Unsynced})
Compactable == {e \in events : e.id <= cursor /\ e.at < Cutoff}
Folded(k) ==
  LET S == {e \in Of(Real(Compactable), k[2]) : Day(e.at) = k[1]}
      r == rollup[k]
  IN IF S = {} \/ \A e \in S : ~IsHumanSignal(e) /\ ~IsAgentActivity(e) THEN r
     ELSE [human |-> r.human + HumanSeconds(S), active |-> r.active + ActiveSeconds(S),
           tokens |-> Max({r.tokens, tokens[k]}), rows |-> 1]

\* maintenance_sweep: each part may fail without the next.
Sweep(reaps, compacts, vacuums) ==
  LET nothing == cursor = 0 \/ Real(Compactable) = {} \/ ~compacts
      gone == IF nothing THEN {} ELSE Compactable
      \* nothing prunes what is left of a probe
      probes == IF reaps THEN Of(events, Probe) ELSE {}
      due == (dirty \/ gone # {}) /\ (sweeps + 1) % VacuumEvery = 0 /\ vacuums
  IN /\ events' = events \ (gone \cup probes)
     /\ rollup' = IF nothing THEN rollup ELSE [k \in DOMAIN rollup |-> Folded(k)]
     /\ sweeps' = (sweeps + 1) % VacuumEvery
     /\ dirty' = ((dirty \/ gone # {}) /\ ~due)
     /\ holes' = ((holes \/ gone # {}) /\ ~due)
     /\ UNCHANGED <<now, cursor, tokens, logged>>

\* The flag is the task's own.
Restart ==
  /\ "restart" \in WorkHazards \/ ~dirty
  /\ sweeps' = 0 /\ dirty' = FALSE
  /\ UNCHANGED <<now, events, cursor, tokens, rollup, holes, logged>>

WorkNext ==
  \/ \E s \in Worked, k \in WorkKinds, t \in 0 .. now : AppendEvent(s, k, t)
  \/ AppendEvent(Probe, "start", now) \/ Reap
  \/ \E s \in Worked : TokenRow(s)
  \/ \E id \in 1 .. MaxLogged : Confirmed(id)
  \/ Tick \/ Restart
  \/ \E r, c, v \in BOOLEAN : Sweep(r, c, v)

--------------------------------------------------------------------------------
\* A report over everything says the same before and after a compaction: "no data
\* is lost from `report --all` after a sweep" (report.rs).
TotalsSurvive == Report = Build(logged)

\* A day and session is never both a rollup row and events, which the report
\* would add up; and its tokens are counted once, whatever passes there were.
SplitNowhere ==
  \A k \in DOMAIN rollup :
    /\ rollup[k].rows = 1 => ~\E e \in Of(events, k[2]) : Day(e.at) = k[1]
    /\ rollup[k].tokens <= tokens[k]

\* Space that a compaction freed is never forgotten before a vacuum.
HolesRemembered == holes => dirty

\* Together: what a sweep may never do.
SweepKeepsAll == TotalsSurvive /\ SplitNowhere /\ HolesRemembered

================================================================================
