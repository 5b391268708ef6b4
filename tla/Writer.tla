-------------------------------- MODULE Writer --------------------------------
(***************************************************************************)
(* The capture path of dirad: hook and manual events cross a bounded queue *)
(* to the one writer task, which coalesces or prunes them, appends them to *)
(* the log and folds them into the live session registry.  Around it run   *)
(* the idle ticker, the control commands that mint manual events, the      *)
(* replay of the log after a restart (hydrate) and `nuke`.                 *)
(*                                                                         *)
(* Time is a clock of small integers.  Enrichment (project, branch, parent *)
(* lookup) changes fields no property reads and is left out; token capture *)
(* is TokenCapture, the nudge of the sync task is FlushLoop's.             *)
(*                                                                         *)
(* Hazards names what an instance admits:                                  *)
(*   "hydrate_race" the writer takes messages before hydrate has folded    *)
(*   "nuke_race"    it takes messages between nuke's two steps             *)
(*   "slow_send"    time passes while a stamped event waits to be queued   *)
(*   "overlap"      `dira log` records an interval that lies across other  *)
(*                  human signals                                          *)
(*   "stale_tick"   the ticker queues a tick of a session being stopped    *)
(*   "forgotten"    a session is older than the window hydrate replays     *)
(***************************************************************************)
EXTENDS Integers, Sequences, FiniteSets, SequencesExt

CONSTANTS
  Agents, Manuals,  \* session ids
  HookKinds,        \* kinds of agent events that arrive
  QueueCap,         \* QUEUE_CAPACITY
  Idle,             \* idle threshold of human time
  AgentIdle,        \* ceiling of an ordinary agent gap
  MaxSpan,          \* ceiling of a gap a tool call opened
  Coalesce,         \* coalescing window
  ReplayWindow,     \* how far back hydrate reads
  MaxClock, MaxEvents, MaxCrashes,  \* bounds
  Hazards

\* An agent's sessions and the manual ones are told apart by their ids.
ASSUME WriterConfig ==
  /\ {QueueCap, Idle, AgentIdle, MaxSpan, Coalesce, ReplayWindow} \subseteq Nat
  /\ MaxClock \in Nat \ {0} /\ {MaxEvents, MaxCrashes} \subseteq Nat
  /\ Agents \cap Manuals = {} /\ "none" \notin Agents \cup Manuals
  /\ HookKinds \subseteq {"start", "prompt", "permission", "pre", "post", "stop", "end"}

Sessions == Agents \cup Manuals
Human(k)    == k \in {"prompt", "permission", "mstart", "mtick", "mstop"}
Activity(k) == k \in {"pre", "post", "stop"}
Signal(k)   == Human(k) \/ Activity(k)
Terminal(k) == k \in {"end", "mstop"}
NoOne == "none"

VARIABLES
  clock,
  made,     \* events minted so far; an event's id is its rank
  queue,    \* Seq(Event): the mpsc channel
  outbox,   \* [ {"control", "ticker"} -> Seq(Event) ]: sends in progress
  hand,     \* the event the writer has appended but not yet observed
  log,      \* rowid -> Event: the events table
  live,     \* SessionRegistry.sessions
  opener,   \* last_human_signal_at and last_human_signal_session
  marks,    \* last_stored_activity
  booted,   \* "reading", "replay" (log read) or "done": hydrate
  replay,   \* what hydrate read
  unread,   \* history: rows of the log that hydrate did not read
  wiping,   \* nuke emptied the store, not yet the registry
  crashes,
  stored,   \* history: every event ever appended
  wiped,    \* history: events the nukes took
  dropped   \* history: events coalesced away

vars == <<clock, made, queue, outbox, hand, log, live, opener, marks, booted,
          replay, unread, wiping, crashes, stored, wiped, dropped>>

Event(s, k, at) == [id |-> made + 1, session |-> s, kind |-> k, at |-> at]
None == [id |-> 0, session |-> NoOne, kind |-> "none", at |-> 0]
Silent == [at |-> 0, session |-> NoOne]
Nothing == [e \in {} |-> 0]
Put(f, key, value) ==
  [k \in DOMAIN f \cup {key} |-> IF k = key THEN value ELSE f[k]]

--------------------------------------------------------------------------------
(* The registry's fold. *)

\* agent_gap_seconds: a gap is credited up to the ceiling its opener sets.
GapSeconds(gap, opens) ==
  IF gap <= 0 THEN 0
  ELSE LET ceiling == IF opens THEN MaxSpan ELSE AgentIdle
       IN IF gap < ceiling THEN gap ELSE ceiling

Fresh(ev) == [started |-> ev.at, last |-> ev.at, opens |-> FALSE, active |-> 0,
              engaged |-> 0, signal |-> FALSE, ended |-> FALSE]

\* observe: the session's own totals
TouchStickySpan(l, ev) ==
  LET e == IF ev.session \in DOMAIN l THEN l[ev.session] ELSE Fresh(ev)
  IN Put(l, ev.session,
         [e EXCEPT !.active = @ + GapSeconds(ev.at - e.last, e.opens),
                   !.last = ev.at,
                   !.opens = @ \/ (ev.kind = "pre"),
                   !.signal = @ \/ Signal(ev.kind),
                   !.ended = Terminal(ev.kind)])
Touch(l, ev) ==
  LET e == IF ev.session \in DOMAIN l THEN l[ev.session] ELSE Fresh(ev)
  IN Put(l, ev.session,
         [e EXCEPT !.active = @ + GapSeconds(ev.at - e.last, e.opens),
                   !.last = ev.at,
                   !.opens = (ev.kind = "pre"),
                   !.signal = @ \/ Signal(ev.kind),
                   !.ended = Terminal(ev.kind)])

\* observe: a human gap is credited to the session that opened it
Credit(l, o, ev) ==
  LET gap == ev.at - o.at
  IN IF Human(ev.kind) /\ o.session \in DOMAIN l /\ gap > 0 /\ gap <= Idle
     THEN [l EXCEPT ![o.session].engaged = @ + gap] ELSE l

Observe(r, ev) ==
  [live   |-> Credit(Touch(r.live, ev), r.opener, ev),
   opener |-> IF Human(ev.kind) THEN [at |-> ev.at, session |-> ev.session]
              ELSE r.opener]

Forget(s) ==
  /\ live' = Restrict(live, DOMAIN live \ {s})
  /\ opener' = IF opener.session = s THEN Silent ELSE opener

KnownManual == DOMAIN live \cap Manuals
ActiveManual == {s \in DOMAIN live \cap Manuals : ~live[s].ended}
IsDegenerateByTime(s) == s \in DOMAIN live /\ live[s].active = 0
IsDegenerate(s) == s \in DOMAIN live /\ ~live[s].signal

--------------------------------------------------------------------------------
Init ==
  /\ clock = 1 /\ made = 0 /\ crashes = 0 /\ unread = {}
  /\ queue = <<>> /\ outbox = [p \in {"control", "ticker"} |-> <<>>]
  /\ hand = None /\ log = Nothing /\ live = Nothing /\ opener = Silent
  /\ marks = Nothing /\ booted = "done" /\ replay = <<>> /\ wiping = FALSE
  /\ stored = {} /\ wiped = {} /\ dropped = {}

Busy == \E p \in DOMAIN outbox : outbox[p] # <<>>

Pass ==
  /\ clock < MaxClock
  /\ Busy => "slow_send" \in Hazards
  /\ clock' = clock + 1
  /\ UNCHANGED <<made, queue, outbox, hand, log, live, opener, marks, booted,
                 replay, unread, wiping, crashes, stored, wiped, dropped>>

\* Events on their way, and the ids that are taken: a minted one is new.
Pending == Range(queue) \cup {hand} \cup UNION {Range(outbox[p]) : p \in DOMAIN outbox}
NewManual(s) ==
  \A e \in stored \cup Pending : e.session # s
Backdated == \E e \in Pending : e # None /\ e.at < clock /\ e.kind = "mstart"

\* ingest_hook: stamped and queued at once; a full queue drops it and says Ok.
HookArrives(s, k) ==
  /\ made < MaxEvents
  /\ Human(k) /\ Backdated => "overlap" \in Hazards
  /\ made' = made + 1
  /\ queue' = IF Len(queue) < QueueCap THEN Append(queue, Event(s, k, clock))
              ELSE queue
  /\ UNCHANGED <<clock, outbox, hand, log, live, opener, marks, booted, replay,
                 unread, wiping, crashes, stored, wiped, dropped>>

\* A manual event is minted and stamped first, then waits for room.
Mint(p, evs) ==
  /\ outbox[p] = <<>>
  /\ made + Len(evs) <= MaxEvents
  /\ made' = made + Len(evs)
  /\ outbox' = [outbox EXCEPT ![p] = evs]
  /\ UNCHANGED <<clock, queue, hand, log, live, opener, marks, booted, replay,
                 unread, wiping, crashes, stored, wiped, dropped>>

Start(s) ==
  /\ NewManual(s)
  /\ Backdated => "overlap" \in Hazards
  /\ Mint("control", <<Event(s, "mstart", clock)>>)

\* Stops are addressed to sessions the registry calls active.
Stop(s) ==
  /\ s \in ActiveManual
  /\ "stale_tick" \in Hazards \/ outbox["ticker"] = <<>>
  /\ Mint("control", <<Event(s, "mstop", clock)>>)

\* `dira log`: materialize_interval's bookends, the first one in the past
LogInterval(s, d) ==
  /\ NewManual(s) /\ d < clock
  /\ "overlap" \in Hazards
     \/ \A e \in stored \cup Pending : Human(e.kind) => e.at <= clock - d
  /\ Mint("control", <<Event(s, "mstart", clock - d),
                       [Event(s, "mstop", clock) EXCEPT !.id = made + 2]>>)

StopPending ==
  \/ \E i \in 1 .. Len(queue) : queue[i].kind = "mstop"
  \/ outbox["control"] # <<>>
  \/ hand.kind = "mstop"

Ticker(s) ==
  /\ s \in ActiveManual
  /\ "stale_tick" \in Hazards \/ ~StopPending
  /\ Backdated => "overlap" \in Hazards
  /\ Mint("ticker", <<Event(s, "mtick", clock)>>)

Send(p) ==
  /\ outbox[p] # <<>> /\ Len(queue) < QueueCap
  /\ queue' = Append(queue, Head(outbox[p]))
  /\ outbox' = [outbox EXCEPT ![p] = Tail(@)]
  /\ UNCHANGED <<clock, made, hand, log, live, opener, marks, booted, replay,
                 unread, wiping, crashes, stored, wiped, dropped>>

--------------------------------------------------------------------------------
(* process_message *)

Ready ==
  /\ hand = None /\ queue # <<>>
  /\ booted # "done" => "hydrate_race" \in Hazards
  /\ wiping => "nuke_race" \in Hazards
Next0 == Head(queue)

\* coalesce_decision: too soon after the session's last stored PostTool
Coalesces(ev) ==
  /\ ev.kind = "post" /\ Coalesce > 0
  /\ ev.session \in DOMAIN marks /\ ev.at - marks[ev.session] < Coalesce

CoalesceDrop ==
  /\ Ready /\ Coalesces(Next0)
  /\ queue' = Tail(queue)
  /\ dropped' = dropped \cup {Next0}
  /\ UNCHANGED <<clock, made, outbox, hand, log, live, opener, marks, booted,
                 replay, unread, wiping, crashes, stored, wiped>>

Prunable(ev) == ev.kind = "end" /\ IsDegenerate(ev.session)

\* delete_session_events, then forget: the pair is gone
Prune ==
  /\ Ready /\ ~Coalesces(Next0) /\ Prunable(Next0)
  /\ queue' = Tail(queue)
  /\ log' = Restrict(log, {r \in DOMAIN log : log[r].session # Next0.session})
  /\ unread' = unread \cap DOMAIN log'
  /\ Forget(Next0.session)
  /\ UNCHANGED <<clock, made, outbox, hand, marks, booted, replay, wiping,
                 crashes, stored, wiped, dropped>>

MarksAfter(ev) ==
  IF ev.kind = "post" /\ Coalesce > 0 THEN Put(marks, ev.session, ev.at)
  ELSE IF Terminal(ev.kind) THEN Restrict(marks, DOMAIN marks \ {ev.session})
  ELSE marks

NextRow == IF DOMAIN log = {} THEN 1 ELSE Max(DOMAIN log) + 1

\* The append; a degenerate session whose delete failed comes here too.
Store ==
  /\ Ready /\ ~Coalesces(Next0) /\ ~Prunable(Next0)
  /\ queue' = Tail(queue)
  /\ log' = Put(log, NextRow, Next0)
  /\ stored' = stored \cup {Next0}
  /\ hand' = Next0
  /\ UNCHANGED <<clock, made, outbox, live, opener, marks, booted, replay,
                 unread, wiping, crashes, wiped, dropped>>

\* The watermark of an append that failed is left as it was.
MarksAppliedEarly(ev) == MarksAfter(ev)
MarksAfterFailure(ev) == marks

\* The append fails, or a caught panic drops the message before it.
Lose ==
  /\ Ready /\ ~Coalesces(Next0)
  /\ queue' = Tail(queue)
  /\ marks' = MarksAfterFailure(Next0)
  /\ UNCHANGED <<clock, made, outbox, hand, log, live, opener, booted, replay,
                 unread, wiping, crashes, stored, wiped, dropped>>

\* The registry's part, before another task may look.
Fold ==
  LET r == Observe([live |-> live, opener |-> opener], hand)
  IN live' = r.live /\ opener' = r.opener

Account ==
  /\ hand # None
  /\ Fold
  /\ marks' = MarksAfter(hand)
  /\ hand' = None
  /\ UNCHANGED <<clock, made, queue, outbox, log, booted, replay, unread,
                 wiping, crashes, stored, wiped, dropped>>

--------------------------------------------------------------------------------
(* Restarts and nuke *)

Crash ==
  /\ crashes < MaxCrashes
  /\ crashes' = crashes + 1
  /\ queue' = <<>> /\ outbox' = [p \in DOMAIN outbox |-> <<>>]
  /\ hand' = None /\ live' = Nothing /\ opener' = Silent /\ marks' = Nothing
  /\ booted' = "reading" /\ replay' = <<>> /\ wiping' = FALSE
  /\ UNCHANGED <<clock, made, log, unread, stored, wiped, dropped>>

\* events_since: ordered by instant; the ones of one instant in rowid order
Since(t) == {r \in DOMAIN log : log[r].at >= t}
Before(l, q, r) == l[q].at < l[r].at \/ (l[q].at = l[r].at /\ q < r)
InOrder(rows) ==
  {o \in [1 .. Cardinality(rows) -> rows] :
     Range(o) = rows /\ \A i, j \in DOMAIN o : i < j => Before(log, o[i], o[j])}

HydrateRead ==
  /\ booted = "reading"
  /\ LET since == clock - ReplayWindow
     IN /\ \E o \in InOrder(Since(since)) : replay' = [i \in DOMAIN o |-> log[o[i]]]
        /\ unread' = DOMAIN log \ Since(since)
        /\ "forgotten" \in Hazards \/ unread' = {}
  /\ booted' = "replay"
  /\ UNCHANGED <<clock, made, queue, outbox, hand, log, live, opener, marks,
                 wiping, crashes, stored, wiped, dropped>>

\* The registry is locked from the first event to the last.
replayed[i \in 0 .. Len(replay)] ==
  IF i = 0 THEN [live |-> live, opener |-> opener] ELSE Observe(replayed[i - 1], replay[i])

HydrateFold ==
  /\ booted = "replay"
  /\ LET r == replayed[Len(replay)] IN live' = r.live /\ opener' = r.opener
  /\ booted' = "done" /\ replay' = <<>>
  /\ UNCHANGED <<clock, made, queue, outbox, hand, log, marks, unread, wiping,
                 crashes, stored, wiped, dropped>>

NukeStore ==
  /\ ~wiping /\ log # Nothing
  /\ (hand # None \/ booted # "done") => "nuke_race" \in Hazards
  /\ log' = Nothing
  /\ wiped' = wiped \cup Range(log)
  /\ wiping' = TRUE /\ unread' = {}
  /\ UNCHANGED <<clock, made, queue, outbox, hand, live, opener, marks, booted,
                 replay, crashes, stored, dropped>>

NukeRegistry ==
  /\ wiping
  /\ live' = Nothing /\ opener' = Silent
  /\ wiping' = FALSE
  /\ UNCHANGED <<clock, made, queue, outbox, hand, log, marks, booted, replay,
                 unread, crashes, stored, wiped, dropped>>

Next ==
  \/ Pass
  \/ \E s \in Agents, k \in HookKinds : HookArrives(s, k)
  \/ \E s \in Manuals : Start(s) \/ Stop(s) \/ Ticker(s)
  \/ \E s \in Manuals, d \in 1 .. MaxClock : LogInterval(s, d)
  \/ \E p \in DOMAIN outbox : Send(p)
  \/ CoalesceDrop \/ Prune \/ Store \/ Lose \/ Account
  \/ Crash \/ HydrateRead \/ HydrateFold \/ NukeStore \/ NukeRegistry

Spec == Init /\ [][Next]_vars

--------------------------------------------------------------------------------
(* Properties *)

TypeOK ==
  /\ clock \in 1 .. MaxClock /\ made \in 0 .. MaxEvents
  /\ Len(queue) <= QueueCap
  /\ DOMAIN live \subseteq Sessions /\ DOMAIN marks \subseteq Agents
  /\ opener.session \in Sessions \cup {NoOne}
  /\ booted \in {"reading", "replay", "done"}
  /\ \A s \in DOMAIN live : live[s].active \in Nat /\ live[s].engaged \in Nat

\* The batch definitions of accounting.rs, over a log or a part of it: its windows
\* are the pairs of rows that follow each other.
Windows(l) ==
  {w \in (DOMAIN l) \X (DOMAIN l) :
     Before(l, w[1], w[2]) /\ ~\E r \in DOMAIN l : Before(l, w[1], r) /\ Before(l, r, w[2])}
Gap(l, w) == l[w[2]].at - l[w[1]].at
AgentActive(l) ==
  SumFunction([w \in Windows(l) |-> GapSeconds(Gap(l, w), l[w[1]].kind = "pre")])

Counted(gap) == IF gap > 0 /\ gap <= Idle THEN gap ELSE 0
Humans(l) == Restrict(l, {r \in DOMAIN l : Human(l[r].kind)})
CountedSeconds(l) == SumFunction([w \in Windows(l) |-> Counted(Gap(l, w))])
TotalHuman(l) == CountedSeconds(Humans(l))

Known == Restrict(log, DOMAIN log \ unread)
Mine(l, s) == Restrict(l, {r \in DOMAIN l : l[r].session = s})
Latest(l) == CHOOSE r \in DOMAIN l : \A q \in DOMAIN l : q # r => Before(l, q, r)
Settled == hand = None /\ booted = "done" /\ ~wiping

\* The registry, folded one event at a time and rebuilt by replays, is what
\* the batch accounting makes of the log: the same sessions, the same active
\* seconds, the same verdict on which of them ended or did anything, and
\* engaged seconds that sum to the de-duplicated human total.
RegistryMatchesLog ==
  Settled =>
    /\ DOMAIN live = {Known[r].session : r \in DOMAIN Known}
    /\ \A s \in DOMAIN live :
         LET seen == Mine(Known, s) IN
         /\ live[s].active = AgentActive(seen)
         /\ live[s].ended = Terminal(seen[Latest(seen)].kind)
         /\ live[s].signal = \E r \in DOMAIN seen : Signal(seen[r].kind)
    /\ SumFunction([s \in DOMAIN live |-> live[s].engaged]) = TotalHuman(Known)

\* The prune of a session that showed nothing never takes a signal with it:
\* an appended prompt, tool call or manual event leaves the log by nuke only.
SignalsKept ==
  \A e \in stored : Signal(e.kind) => e \in Range(log) \cup wiped

\* A tool event is coalesced away only behind one of its session that was
\* really stored less than the window before.
DropsOnlyBehindStored ==
  \A d \in dropped : \E e \in stored :
    e.session = d.session /\ e.kind = "post" /\ d.at - e.at < Coalesce

\* Once its stop is appended and folded, a manual session is never shown as running
\* again: not by a tick that was under way, and not by the replay after a restart.
StoppedStaysStopped ==
  \A e \in stored :
    e.kind = "mstop" /\ e # hand /\ e.session \in DOMAIN live => live[e.session].ended

\* Coalescing drops volume and preserves accounting: a session is credited no
\* more agent time than the full stream of its events earns.
CoalescingNeverInflates ==
  Settled => \A s \in DOMAIN live \cap Agents :
    LET all == {e \in stored \cup dropped : e.session = s}
    IN live[s].active <= AgentActive([i \in {e.id : e \in all} |-> CHOOSE e \in all : e.id = i])
================================================================================
