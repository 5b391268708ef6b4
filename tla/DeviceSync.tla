----------------------------- MODULE DeviceSync -----------------------------
(***************************************************************************)
(* The device-to-cloud delivery of dirad: the local store's tables, the    *)
(* cursors kept in its `meta` table, the two background tasks that flush   *)
(* them (attestation: events, artifacts, token usage; knowledge:           *)
(* decisions, specs, trailers, guard events), the data-epoch handshake     *)
(* that starts a full re-send when the cloud lost its log, the operator's  *)
(* `resync` and `nuke`, and the hourly compaction.                         *)
(*                                                                         *)
(* A lane is one table with its cursor.  A row is known by the key its     *)
(* lane's cursor compares (ULID, rowid or touched_seq) and by the          *)
(* incarnation of the store it was captured in: emptying a table lets      *)
(* SQLite hand the same rowid to another row.  Payloads, batch ids and the *)
(* pacing between chunks are left out; scheduling (trigger, debounce,      *)
(* backstop, backoff) is the freedom of a task to start a flush at any     *)
(* time.                                                                   *)
(*                                                                         *)
(* Hazards names the interleavings and faults an instance admits on top of *)
(* the ordinary ones (concurrent appends, lost requests and responses,     *)
(* rejected chunks, crashes between flush steps, a cloud that is reset):   *)
(*   "command_race"    resync and nuke may run while a flush is in flight  *)
(*   "unordered_ids"   an event is appended below an id handed out after   *)
(*                     its own: `dira start/stop/log` mint an id before    *)
(*                     they queue the event, and ULIDs of one millisecond  *)
(*                     sort by their random tails                          *)
(*   "crash_mid_reset" the daemon may die while it applies an epoch reset  *)
(*   "garbled_ack"     a 2xx body may be unreadable                        *)
(*   "stale_sweep"     the cursor may move under a running compaction      *)
(*   "forward_resync"  `resync --from` may name an id above the cursor     *)
(***************************************************************************)
EXTENDS Naturals, FiniteSets

CONSTANTS
  Channels,   \* the flush tasks that run, of "attestation" and "knowledge"
  Lanes,      \* the tables of the instance
  ChunkCap,   \* rows of a lane a chunk carries
  WindowCap,  \* rows of a knowledge lane a flush loads
  Ops,        \* of "resync", "nuke", "prune", "compact": those that happen
  MaxKey,     \* bound: keys handed out per lane
  MaxGen,     \* bound: how often the store is nuked
  MaxEpoch,   \* bound: data epochs of the cloud
  Hazards

AttestationLanes == {"event", "artifact", "token"}
KnowledgeLanes   == {"guard", "decision", "spec", "trailer"}
HazardNames == {"command_race", "unordered_ids", "crash_mid_reset",
                "garbled_ack", "stale_sweep", "forward_resync"}

ASSUME DeviceSyncAssumption ==
  /\ Channels \subseteq {"attestation", "knowledge"}
  /\ Lanes \subseteq AttestationLanes \cup KnowledgeLanes
  /\ "event" \in Lanes
  /\ ChunkCap \in [Lanes -> Nat \ {0}]
  /\ WindowCap \in [Lanes -> Nat \ {0}]
  /\ Ops \subseteq {"resync", "nuke", "prune", "compact"}
  /\ MaxKey \in Nat /\ MaxGen \in Nat /\ MaxEpoch \in Nat \ {0}
  /\ Hazards \subseteq HazardNames

LanesOf(c) == Lanes \cap (IF c = "attestation" THEN AttestationLanes
                                               ELSE KnowledgeLanes)
Key == 0 .. MaxKey
Row == [key : 1 .. MaxKey, gen : 0 .. MaxGen]
NoRows == [l \in Lanes |-> {}]
NoKeys == [l \in Lanes |-> 0]

VARIABLES
  rows,       \* [Lanes -> SUBSET Row]: the tables
  top,        \* [Lanes -> Key]: last key handed out (of an emptied table: 0)
  gen,        \* incarnation of the store
  minted,     \* ids of manual events that wait in the writer's queue
  cursor,     \* [Lanes -> Key]: the meta cursors, 0 when blank
  epoch,      \* META_LAST_EPOCH, 0 when blank
  cloud,      \* [Lanes -> SUBSET Row]: rows the cloud holds
  cloudEpoch, \* the cloud's data epoch
  pc,         \* [Channels -> step of the flush]
  win,        \* [Channels -> [Lanes -> SUBSET Row]]: snapshot still to advance
  high,       \* [Channels -> [Lanes -> Key]]: high-water marks of the chunk
  ack,        \* [Channels -> epoch in the ack being handled, 0 unreadable]
  todo,       \* [Channels -> lanes whose cursor the reset has yet to blank]
  wasReset,   \* [Channels -> BOOLEAN]: flush's epoch_reset
  sweep,      \* cursor the maintenance task has read, 0 when it is idle
  owed        \* history: rows a resync promised and no POST carried since

store == <<rows, top, gen, minted>>
meta  == <<cursor, epoch>>
far   == <<cloud, cloudEpoch>>
task  == <<pc, win, high, ack, todo, wasReset>>
vars  == <<store, meta, far, task, sweep, owed>>

Steps == {"idle", "post", "acked", "blank", "advance"}

TypeOK ==
  /\ rows \in [Lanes -> SUBSET Row]
  /\ top \in [Lanes -> Key]
  /\ gen \in 0 .. MaxGen
  /\ minted \subseteq 1 .. MaxKey
  /\ cursor \in [Lanes -> Key]
  /\ epoch \in 0 .. MaxEpoch
  /\ cloud \in [Lanes -> SUBSET Row]
  /\ cloudEpoch \in 1 .. MaxEpoch
  /\ pc \in [Channels -> Steps]
  /\ win \in [Channels -> [Lanes -> SUBSET Row]]
  /\ high \in [Channels -> [Lanes -> Key]]
  /\ ack \in [Channels -> 0 .. MaxEpoch]
  /\ todo \in [Channels -> SUBSET Lanes]
  /\ wasReset \in [Channels -> BOOLEAN]
  /\ sweep \in Key
  /\ owed \in [Lanes -> SUBSET Row]

Init ==
  /\ rows = NoRows
  /\ top = NoKeys
  /\ gen = 0
  /\ minted = {}
  /\ cursor = NoKeys
  /\ epoch = 0
  /\ cloud = NoRows
  /\ cloudEpoch = 1
  /\ pc = [c \in Channels |-> "idle"]
  /\ win = [c \in Channels |-> NoRows]
  /\ high = [c \in Channels |-> NoKeys]
  /\ ack = [c \in Channels |-> 0]
  /\ todo = [c \in Channels |-> {}]
  /\ wasReset = [c \in Channels |-> FALSE]
  /\ sweep = 0
  /\ owed = NoRows

-----------------------------------------------------------------------------
(* Capture: the writer, the capture tasks and the knowledge indexer. *)

\* A row of an insert-only lane: the next ULID or the next rowid.
Append(l) ==
  /\ top[l] < MaxKey
  /\ rows' = [rows EXCEPT ![l] = @ \cup {[key |-> top[l] + 1, gen |-> gen]}]
  /\ top' = [top EXCEPT ![l] = @ + 1]
  /\ UNCHANGED <<gen, minted, meta, far, task, sweep, owed>>

\* A decision or spec is captured again: its row moves to the next touched_seq.
Upsert(l, r) ==
  /\ l \in {"decision", "spec"}
  /\ r \in rows[l]
  /\ top[l] < MaxKey
  /\ rows' = [rows EXCEPT
       ![l] = (@ \ {r}) \cup {[key |-> top[l] + 1, gen |-> gen]}]
  /\ top' = [top EXCEPT ![l] = @ + 1]
  /\ UNCHANGED <<gen, minted, meta, far, task, sweep, owed>>

\* `dira start/stop/log` mint the event's ULID, then queue it for the writer...
MintManual ==
  /\ "unordered_ids" \in Hazards
  /\ top["event"] < MaxKey
  /\ minted' = minted \cup {top["event"] + 1}
  /\ top' = [top EXCEPT !["event"] = @ + 1]
  /\ UNCHANGED <<rows, gen, meta, far, task, sweep, owed>>

\* ... which appends it behind the events queued before it.
AppendManual(k) ==
  /\ k \in minted
  /\ minted' = minted \ {k}
  /\ rows' = [rows EXCEPT !["event"] = @ \cup {[key |-> k, gen |-> gen]}]
  /\ UNCHANGED <<top, gen, meta, far, task, sweep, owed>>

\* The SessionEnd of a session without a signal deletes the session's events.
Prune(S) ==
  /\ "prune" \in Ops
  /\ S # {} /\ S \subseteq rows["event"]
  /\ rows' = [rows EXCEPT !["event"] = @ \ S]
  /\ UNCHANGED <<top, gen, minted, meta, far, task, sweep, owed>>

-----------------------------------------------------------------------------
(* One flush: snapshot the windows, then POST, read the ack and advance the *)
(* cursors chunk by chunk.                                                  *)

UpTo(S, k)  == {r \in S : r.key <= k}
Whole(S, k) == UpTo(S, k) = S /\ \E r \in S : r.key = k
First(S, n) == {r \in S : Cardinality(UpTo(S, r.key)) <= n}

\* The rows above the cursor: all of them, or the first WindowCap of a
\* knowledge lane, whose query has a LIMIT.
UnsyncedSkipsFirst(l) == {r \in rows[l] : r.key > cursor[l] + 1}
Unsynced(l) == {r \in rows[l] : r.key > cursor[l]}

Window(c, l) ==
  IF l \notin LanesOf(c) THEN {}
  ELSE IF c = "attestation" THEN Unsynced(l)
  ELSE First(Unsynced(l), WindowCap[l])

\* The flush reads its cursors and windows; with all of them empty it is
\* Nothing and stays idle.
Pending(c) == \E l \in Lanes : Window(c, l) # {}

Snapshot(c) ==
  /\ pc[c] = "idle"
  /\ Pending(c)
  /\ pc' = [pc EXCEPT ![c] = "post"]
  /\ win' = [win EXCEPT ![c] = [l \in Lanes |-> Window(c, l)]]
  /\ UNCHANGED <<store, meta, far, high, ack, todo, wasReset, sweep, owed>>

\* Whether a chunk of window S of lane l may end at key k.  Row lanes are cut
\* into slices of ChunkCap rows.  Events close at the first idle break after
\* ChunkCap of them, wherever that is.
EndsAt(l, S, k) ==
  \/ S = {} /\ k = 0
  \/ Whole(S, k) /\ (l = "event" \/ Cardinality(S) <= ChunkCap[l])
  \/ /\ \E r \in S : r.key = k
     /\ IF l = "event" THEN Cardinality(UpTo(S, k)) >= ChunkCap[l]
                       ELSE Cardinality(UpTo(S, k)) = ChunkCap[l]

\* Decisions, specs and trailers ride the chunk that carries the last guard
\* events; every other lane is cut on its own.
ChunkEnds(c, k) ==
  \A l \in Lanes :
    IF c = "knowledge" /\ l # "guard"
    THEN IF win[c][l] # {} /\ ("guard" \in Lanes =>
                 win[c]["guard"] = UpTo(win[c]["guard"], k["guard"]))
         THEN Whole(win[c][l], k[l]) ELSE k[l] = 0
    ELSE EndsAt(l, win[c][l], k[l])

\* The cloud accepts the next chunk; its 2xx carries the epoch it is in.
Post(c) ==
  /\ pc[c] = "post"
  /\ \E k \in [Lanes -> Key], e \in {0, cloudEpoch} :
       /\ ChunkEnds(c, k)
       /\ e = 0 => "garbled_ack" \in Hazards
       /\ high' = [high EXCEPT ![c] = k]
       /\ ack' = [ack EXCEPT ![c] = e]
       /\ cloud' = [l \in Lanes |-> cloud[l] \cup UpTo(win[c][l], k[l])]
       /\ owed' = [l \in Lanes |-> owed[l] \ UpTo(win[c][l], k[l])]
  /\ pc' = [pc EXCEPT ![c] = "acked"]
  /\ UNCHANGED <<store, meta, cloudEpoch, win, todo, wasReset, sweep>>

\* The flush returns; its locals die with it.
Abandon(c) ==
  /\ pc' = [pc EXCEPT ![c] = "idle"]
  /\ win' = [win EXCEPT ![c] = NoRows]
  /\ high' = [high EXCEPT ![c] = NoKeys]
  /\ ack' = [ack EXCEPT ![c] = 0]
  /\ wasReset' = [wasReset EXCEPT ![c] = FALSE]

\* The POST fails: no route, a timeout, a 4xx or 5xx, or an accepted chunk
\* whose response is lost.  Chunks acked before keep their cursors.
Fail(c) ==
  /\ pc[c] \in {"post", "acked"}
  /\ Abandon(c)
  /\ UNCHANGED <<store, meta, far, todo, sweep, owed>>

\* The cursors a reset blanks: all of them, both channels'.
ResetLanesWithoutGuards == Lanes \ {"guard"}
ResetLanes == Lanes

\* note_data_epoch: adopt a first epoch; on another one store it, then blank
\* every cursor.
NoteEpoch(c) ==
  /\ pc[c] = "acked"
  /\ \/ /\ ack[c] = 0 \/ ack[c] = epoch
        /\ pc' = [pc EXCEPT ![c] = "advance"]
        /\ UNCHANGED <<epoch, todo>>
     \/ /\ ack[c] # 0 /\ epoch = 0
        /\ epoch' = ack[c]
        /\ pc' = [pc EXCEPT ![c] = "advance"]
        /\ UNCHANGED todo
     \/ /\ ack[c] # 0 /\ epoch # 0 /\ ack[c] # epoch
        /\ epoch' = ack[c]
        /\ pc' = [pc EXCEPT ![c] = "blank"]
        /\ todo' = [todo EXCEPT ![c] = ResetLanes]
  /\ UNCHANGED <<store, cursor, far, win, high, ack, wasReset, sweep, owed>>

\* One write of the reset.  The code blanks the seven keys in a fixed order;
\* no property depends on which.
BlankCursor(c, l) ==
  /\ pc[c] = "blank"
  /\ l \in todo[c]
  /\ cursor' = [cursor EXCEPT ![l] = 0]
  /\ todo' = [todo EXCEPT ![c] = @ \ {l}]
  /\ UNCHANGED <<store, epoch, far, pc, win, high, ack, wasReset, sweep, owed>>

\* The reset is applied.  The attestation flush goes on without advancing; the
\* knowledge flush ends here.
ResetDone(c) ==
  /\ pc[c] = "blank"
  /\ todo[c] = {}
  /\ IF c = "attestation"
     THEN /\ pc' = [pc EXCEPT ![c] = "advance"]
          /\ wasReset' = [wasReset EXCEPT ![c] = TRUE]
          /\ UNCHANGED <<win, high, ack>>
     ELSE Abandon(c)
  /\ UNCHANGED <<store, meta, far, todo, sweep, owed>>

\* The chunk's rows are acked: each lane's cursor moves to the chunk's own
\* high-water mark, unless this flush saw a reset.  Then the next chunk.
Rest(c) == [l \in Lanes |-> win[c][l] \ UpTo(win[c][l], high[c][l])]

NewCursorDespiteReset(c, l) == IF high[c][l] = 0 THEN cursor[l] ELSE high[c][l]
NewCursorPastChunk(c, l) ==
  IF wasReset[c] \/ high[c][l] = 0 THEN cursor[l] ELSE high[c][l] + 1
NewCursorToSnapshot(c, l) ==
  IF wasReset[c] \/ win[c][l] = {} THEN cursor[l]
  ELSE CHOOSE k \in Key : Whole(win[c][l], k)
NewCursorOnLastChunk(c, l) ==
  IF wasReset[c] \/ high[c][l] = 0 \/ Rest(c) # NoRows
  THEN cursor[l] ELSE high[c][l]
NewCursor(c, l) ==
  IF wasReset[c] \/ high[c][l] = 0 THEN cursor[l] ELSE high[c][l]

Advance(c) ==
  /\ pc[c] = "advance"
  /\ cursor' = [l \in Lanes |-> NewCursor(c, l)]
  /\ IF \E l \in Lanes : Rest(c)[l] # {}
     THEN /\ pc' = [pc EXCEPT ![c] = "post"]
          /\ win' = [win EXCEPT ![c] = Rest(c)]
          /\ high' = [high EXCEPT ![c] = NoKeys]
          /\ ack' = [ack EXCEPT ![c] = 0]
          /\ UNCHANGED wasReset
     ELSE Abandon(c)
  /\ UNCHANGED <<store, epoch, far, todo, sweep, owed>>

-----------------------------------------------------------------------------
(* Operator commands, maintenance, the cloud's reset, a crash. *)

Quiet == \A c \in Channels : pc[c] = "idle"
MayCommand == Quiet \/ "command_race" \in Hazards

\* `dira device resync`: blank the attestation cursors, or rewind the event
\* cursor alone to an event.
Resync ==
  /\ "resync" \in Ops /\ MayCommand
  /\ cursor' = [l \in Lanes |-> IF l \in AttestationLanes THEN 0 ELSE cursor[l]]
  /\ owed' = [l \in Lanes |-> IF l \in AttestationLanes THEN rows[l] ELSE owed[l]]
  /\ UNCHANGED <<store, epoch, far, task, sweep>>

ResyncFrom(k) ==
  /\ "resync" \in Ops /\ MayCommand
  /\ k < cursor["event"] \/ "forward_resync" \in Hazards
  /\ cursor' = [cursor EXCEPT !["event"] = k]
  /\ owed' = [owed EXCEPT
       !["event"] = @ \cup {r \in rows["event"] : r.key > k}]
  /\ UNCHANGED <<store, epoch, far, task, sweep>>

\* `dira nuke`: one transaction that empties the attestation tables and blanks
\* every cursor and the epoch.  Rowids start over, ULIDs do not.
Nuke ==
  /\ "nuke" \in Ops /\ MayCommand
  /\ gen < MaxGen
  /\ gen' = gen + 1
  /\ rows' = [l \in Lanes |-> IF l \in AttestationLanes THEN {} ELSE rows[l]]
  /\ top' = [l \in Lanes |-> IF l \in {"artifact", "token"} THEN 0 ELSE top[l]]
  /\ cursor' = NoKeys
  /\ epoch' = 0
  /\ owed' = [l \in Lanes |-> IF l \in AttestationLanes THEN {} ELSE owed[l]]
  /\ UNCHANGED <<minted, far, task, sweep>>

\* The maintenance sweep reads the event cursor...
SweepRead ==
  /\ "compact" \in Ops
  /\ sweep = 0 /\ cursor["event"] # 0
  /\ sweep' = cursor["event"]
  /\ UNCHANGED <<store, meta, far, task, owed>>

\* ... and deletes events up to it: whole old days, so some of them.
DeletableBySnapshot == rows["event"]
Deletable == UpTo(rows["event"], sweep)

SweepCompact(S) ==
  /\ sweep # 0
  /\ "stale_sweep" \in Hazards \/ sweep = cursor["event"]
  /\ S \subseteq Deletable
  /\ rows' = [rows EXCEPT !["event"] = @ \ S]
  /\ sweep' = 0
  /\ UNCHANGED <<top, gen, minted, meta, far, task, owed>>

\* The cloud loses its durable log and comes back with another data epoch.
CloudReset ==
  /\ cloudEpoch < MaxEpoch
  /\ cloudEpoch' = cloudEpoch + 1
  /\ cloud' = NoRows
  /\ UNCHANGED <<store, meta, task, sweep, owed>>

\* The daemon dies or a write to its store fails in mid-flush: memory is lost,
\* the store stays as it is.
Crash ==
  /\ (\E c \in Channels : pc[c] = "blank") => "crash_mid_reset" \in Hazards
  /\ pc' = [c \in Channels |-> "idle"]
  /\ win' = [c \in Channels |-> NoRows]
  /\ high' = [c \in Channels |-> NoKeys]
  /\ ack' = [c \in Channels |-> 0]
  /\ todo' = [c \in Channels |-> {}]
  /\ wasReset' = [c \in Channels |-> FALSE]
  /\ minted' = {}
  /\ sweep' = 0
  /\ UNCHANGED <<rows, top, gen, meta, far, owed>>

-----------------------------------------------------------------------------
Capture ==
  \/ \E l \in Lanes : Append(l) \/ \E r \in rows[l] : Upsert(l, r)
  \/ MintManual
  \/ \E k \in minted : AppendManual(k)
  \/ \E S \in SUBSET rows["event"] : Prune(S)

Flush(c) ==
  \/ Snapshot(c) \/ Post(c) \/ NoteEpoch(c) \/ ResetDone(c) \/ Advance(c)
  \/ \E l \in Lanes : BlankCursor(c, l)

Command == Resync \/ Nuke \/ \E k \in Key : ResyncFrom(k)

Sweep == SweepRead \/ \E S \in SUBSET rows["event"] : SweepCompact(S)

Next ==
  \/ Capture \/ Command \/ Sweep \/ CloudReset \/ Crash
  \/ \E c \in Channels : Flush(c) \/ Fail(c)

Spec == Init /\ [][Next]_vars

\* Trigger and backstop start flushes for ever, the cloud answers infinitely
\* often, and the daemon is not killed at every step.
Fairness == \A c \in Channels :
  /\ WF_vars(Snapshot(c))
  /\ SF_vars(Post(c)) /\ SF_vars(NoteEpoch(c)) /\ SF_vars(Advance(c))
  /\ SF_vars(ResetDone(c)) /\ \A l \in Lanes : SF_vars(BlankCursor(c, l))

LiveSpec == Spec /\ Fairness

-----------------------------------------------------------------------------
(* Properties. *)

Blanking(l) == \E c \in Channels : l \in todo[c]

\* Once the device knows the cloud's epoch (and is not in the middle of
\* blanking the lane), the cloud holds every row at or below the lane's cursor:
\* no cursor passes a row that was never sent, however flushes, lost acks,
\* crashes, resets, resyncs and nukes interleave.
CursorSound ==
  \A l \in Lanes : epoch = cloudEpoch /\ ~Blanking(l) =>
    UpTo(rows[l], cursor[l]) \subseteq cloud[l]

\* A resync is not undone: a row it promised to re-send stays above the cursor
\* until a POST carries it again.
ResyncHonoured ==
  \A l \in Lanes : UpTo(rows[l] \cap owed[l], cursor[l]) = {}

\* The device implements ConfirmedDelivery: a row is confirmed when its lane's
\* cursor has passed it and the device knows the cloud's epoch.
Confirmed ==
  [l \in Lanes |-> IF epoch = cloudEpoch /\ ~Blanking(l)
                   THEN UpTo(rows[l], cursor[l]) ELSE {}]
Delivery == INSTANCE ConfirmedDelivery WITH
  stored <- rows, held <- cloud, confirmed <- Confirmed
ImplementsDelivery == Delivery!DSpec

\* What the sound instances leave out: a reset of the cloud under two tasks, and
\* every hazard but the stale sweep.
Undisturbed ==
  /\ Hazards \subseteq {"stale_sweep"}
  /\ MaxEpoch = 1 \/ \A c, d \in Channels : c = d

\* Compaction deletes only events the cloud holds.
CompactionKeepsUnsynced ==
  [][(\E S \in SUBSET rows["event"] : SweepCompact(S)) =>
       (epoch = cloudEpoch /\ ~Blanking("event") =>
          rows["event"] \ rows'["event"] \subseteq cloud["event"])]_vars

\* No failure wedges a lane: again and again its cursor reaches the end of its
\* table.
EventuallyDrained ==
  \A c \in Channels : \A l \in LanesOf(c) : []<>(Unsynced(l) = {})

\* A device that still holds the epoch of a log the cloud lost, and has a row
\* to send, notices and re-sends everything the flush tasks that run carry.
ResetRecovered ==
  (/\ epoch # 0 /\ epoch # cloudEpoch
   /\ \E c \in Channels : pc[c] = "idle" /\ Pending(c))
    ~> (/\ epoch = cloudEpoch
        /\ \A c \in Channels : \A l \in LanesOf(c) : rows[l] \subseteq cloud[l])
=============================================================================
