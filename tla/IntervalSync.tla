---------------------------- MODULE IntervalSync ----------------------------
(***************************************************************************)
(* The billable half of a flush: how a window of the event log becomes     *)
(* intervals of human time, and whether the minutes the cloud has settled  *)
(* are those `dira report` counts.  A flush cuts its window into chunks at *)
(* idle breaks and derives each chunk's intervals on its own, the first    *)
(* with the help of already synced signals next to the window (the seed).  *)
(* `dira log` records time in the past: its events get new ids and old     *)
(* times.                                                                  *)
(*                                                                         *)
(* The log is in id order.  An event keeps its time and whether it is a    *)
(* human signal; an interval keeps its two times (it is attributed to the  *)
(* signal that opens it, which is left out).  What the cursor goes through *)
(* when it is rewound or races with a command is DeviceSync's subject:     *)
(* here a resync and a reset of the cloud find no flush in flight.         *)
(*                                                                         *)
(* Hazards may hold "torn_past": a window that is cut into chunks while it *)
(* holds an event recorded in the past.                                    *)
(***************************************************************************)
EXTENDS Naturals, Sequences

CONSTANTS
  Idle,         \* config.idle()
  ChunkEvents,  \* CHUNK_EVENTS
  MaxTime,      \* bound: times
  MaxEvents,    \* bound: events in the log
  Hazards

ASSUME IntervalSyncAssumption ==
  /\ Idle \in Nat /\ ChunkEvents \in Nat \ {0}
  /\ MaxTime \in Nat /\ MaxEvents \in Nat
  /\ Hazards \subseteq {"torn_past"}

Time == 0 .. MaxTime
Event == [at : Time, human : BOOLEAN]

VARIABLES
  log,     \* the events, in id order
  cursor,  \* how many of them are confirmed
  step,    \* of the flush
  base,    \* the flush's snapshot: its cursor
  until,   \* ... and its upper bound
  from,    \* first event of the chunk to send
  billed   \* the intervals the cloud has settled

flush == <<step, base, until, from>>
vars  == <<log, cursor, flush, billed>>

TypeOK ==
  /\ log \in Seq(Event)
  /\ cursor \in 0 .. Len(log)
  /\ step \in {"idle", "post", "acked"}
  /\ base \in 0 .. Len(log) /\ until \in 0 .. Len(log)
  /\ from \in 1 .. Len(log) + 1
  /\ billed \subseteq Time \X Time

Init ==
  /\ log = <<>> /\ cursor = 0
  /\ step = "idle" /\ base = 0 /\ until = 0 /\ from = 1
  /\ billed = {}

-----------------------------------------------------------------------------
(* Human time. *)

\* The times of the human signals among events i to j.
Signals(i, j) == {log[k].at : k \in {n \in i .. j : log[n].human}}

\* counted_gaps: neighbouring signals no more than Idle apart.
Gaps(T) == {g \in T \X T : /\ g[1] < g[2] /\ g[2] <= g[1] + Idle
                           /\ \A t \in T : ~(g[1] < t /\ t < g[2])}

\* How the intervals were built before: a run of touching gaps as one.
IntervalsCoalesced(Sd, W) ==
  LET G == Gaps(Sd \cup W)
      opens(t) == \A g \in G : g[2] # t
      closes(t) == \A g \in G : g[1] # t
  IN {g \in Time \X Time :
        /\ g[1] < g[2]
        /\ \E h \in G : h[1] = g[1] /\ opens(g[1])
        /\ \E h \in G : h[2] = g[2] /\ closes(g[2])
        /\ \A t \in Time : g[1] <= t /\ t < g[2] =>
             \E h \in G : h[1] <= t /\ t < h[2]}

\* build_intervals_seeded: the gaps that touch a signal of the window W.  Of
\* signals at one time the seed's sort first, so a gap that opens at a signal of
\* both is opened by the window's, one that closes there is closed by the seed's.
Intervals(Sd, W) == {g \in Gaps(Sd \cup W) : g[1] \in W \/ g[2] \notin Sd}

Overlap(g, h) == g[1] < h[2] /\ h[1] < g[2]
Minutes(G) == {t \in Time : \E g \in G : g[1] <= t /\ t < g[2]}

-----------------------------------------------------------------------------
(* Capture. *)

InPast(k) == \E j \in 1 .. k - 1 : log[j].at > log[k].at

\* An event is logged as it happens; a manual one may be given an earlier time.
Capture(e) ==
  /\ Len(log) < MaxEvents
  /\ e.human \/ \A k \in 1 .. Len(log) : log[k].at <= e.at
  /\ log' = Append(log, e)
  /\ UNCHANGED <<cursor, flush, billed>>

-----------------------------------------------------------------------------
(* One flush. *)

\* chunk_ranges: a chunk of at least ChunkEvents closes before the first event
\* that comes more than Idle after the one before it.
BreakAtIdle(i) == log[i].at >= log[i - 1].at + Idle
Break(i) == log[i].at > log[i - 1].at + Idle

ChunkEnd(f, u) ==
  LET breaks == {i \in f + ChunkEvents .. u : Break(i)}
  IN IF breaks = {} THEN u
     ELSE (CHOOSE i \in breaks : \A j \in breaks : i <= j) - 1

Snapshot ==
  /\ step = "idle" /\ cursor < Len(log)
  /\ \/ \A k \in cursor + 1 .. Len(log) : ~InPast(k)
     \/ ChunkEnd(cursor + 1, Len(log)) = Len(log)
     \/ "torn_past" \in Hazards
  /\ step' = "post"
  /\ base' = cursor /\ until' = Len(log) /\ from' = cursor + 1
  /\ UNCHANGED <<log, cursor, billed>>

\* human_signal_seed: signals at or before the cursor, within one Idle of the
\* window's span.
NoSeed == {}
Seed == {t \in Signals(1, base) :
           /\ \E w \in Signals(base + 1, until) : w <= t + Idle
           /\ \E w \in Signals(base + 1, until) : t <= w + Idle}

\* What the next chunk carries; only the first has the seed.
Chunk == Intervals(IF from = base + 1 THEN Seed ELSE {},
                   Signals(from, ChunkEnd(from, until)))

\* The cloud settles the chunk: intervals that overlap a new one give way.
Settle(new) == {g \in billed : \A n \in new : ~Overlap(g, n)} \cup new

Post ==
  /\ step = "post"
  /\ billed' = Settle(Chunk)
  /\ step' = "acked"
  /\ UNCHANGED <<log, cursor, base, until, from>>

\* The chunk's 2xx moves the cursor to its last event.
NewCursorPastChunk == ChunkEnd(from, until) + 1
NewCursor == ChunkEnd(from, until)

Acked ==
  /\ step = "acked"
  /\ cursor' = NewCursor
  /\ IF ChunkEnd(from, until) = until
     THEN step' = "idle" /\ UNCHANGED from
     ELSE step' = "post" /\ from' = ChunkEnd(from, until) + 1
  /\ UNCHANGED <<log, base, until, billed>>

\* A lost request, a lost response, a crash.
Fail ==
  /\ step # "idle"
  /\ step' = "idle"
  /\ UNCHANGED <<log, cursor, base, until, from, billed>>

\* `dira device resync [--from]`.
Resync(k) ==
  /\ step = "idle"
  /\ cursor' = k
  /\ UNCHANGED <<log, flush, billed>>

\* The cloud lost its log and the device blanked its cursor.
CloudReset ==
  /\ step = "idle"
  /\ cursor' = 0 /\ billed' = {}
  /\ UNCHANGED <<log, flush>>

-----------------------------------------------------------------------------
Next ==
  \/ \E e \in Event : Capture(e)
  \/ Snapshot \/ Post \/ Acked \/ Fail
  \/ \E k \in 0 .. cursor : Resync(k)
  \/ CloudReset

Spec == Init /\ [][Next]_vars

-----------------------------------------------------------------------------
(* Properties. *)

\* Every minute of human time up to the cursor is settled at the cloud, wherever
\* flushes and chunks were cut and whatever was recorded in the past since.
EveryMinuteSent ==
  Minutes(Gaps(Signals(1, cursor))) \subseteq Minutes(billed)

\* Once a flush has drained the log, the cloud bills exactly the gaps
\* `dira report` counts over the whole log: no other windowing shows through.
BilledAsReported ==
  step = "idle" /\ cursor = Len(log) => billed = Gaps(Signals(1, Len(log)))

\* A chunk never makes the cloud give up an interval that is still a gap of the
\* log: a minute is rebuilt only when a signal in the past has split its gap.
RebuildsOnlySplitGaps ==
  [][Post => (billed \ billed') \cap Gaps(Signals(1, Len(log))) = {}]_vars
=============================================================================
