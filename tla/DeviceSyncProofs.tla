-------------------------- MODULE DeviceSyncProofs --------------------------
(***************************************************************************)
(* DeviceSync, proved for every instance of the constants that             *)
(* DeviceSyncAssumption admits: type correctness, then CursorSound,        *)
(* ResyncHonoured and what rests on them, for every instance in which the  *)
(* cloud is reset under one task only and no command races a flush.        *)
(***************************************************************************)
EXTENDS DeviceSync, FiniteSetTheorems, TLAPS

USE DEF Key, Row, NoRows, NoKeys, store, meta, far, task

-----------------------------------------------------------------------------
(* Type correctness. *)

LEMMA InitTypeOK == Init => TypeOK
BY DeviceSyncAssumption DEF Init, TypeOK, Steps

\* A flush's windows hold rows of the tables, and only of its own lanes.
LEMMA WindowRows ==
  ASSUME NEW c \in Channels, NEW l \in Lanes
  PROVE  Window(c, l) \subseteq rows[l]
BY DEF Window, First, Unsynced, UpTo

LEMMA NewCursorType ==
  ASSUME TypeOK, NEW c \in Channels, NEW l \in Lanes
  PROVE  NewCursor(c, l) \in Key
BY DEF TypeOK, NewCursor

LEMMA CaptureTypeOK == TypeOK /\ Capture => TypeOK'
<1> SUFFICES ASSUME TypeOK, Capture PROVE TypeOK'
  OBVIOUS
<1>1. ASSUME NEW l \in Lanes, Append(l) PROVE TypeOK'
  BY <1>1, DeviceSyncAssumption DEF Append, TypeOK
<1>2. ASSUME NEW l \in Lanes, NEW r \in rows[l], Upsert(l, r) PROVE TypeOK'
  BY <1>2, DeviceSyncAssumption DEF Upsert, TypeOK
<1>3. ASSUME MintManual PROVE TypeOK'
  <2>1. top["event"] + 1 \in 1 .. MaxKey /\ top' \in [Lanes -> Key]
    BY <1>3, DeviceSyncAssumption DEF MintManual, TypeOK
  <2>2. minted' \subseteq 1 .. MaxKey
    BY <1>3, <2>1 DEF MintManual, TypeOK
  <2> QED
    BY <1>3, <2>1, <2>2 DEF MintManual, TypeOK
<1>4. ASSUME NEW k \in minted, AppendManual(k) PROVE TypeOK'
  BY <1>4, DeviceSyncAssumption DEF AppendManual, TypeOK
<1>5. ASSUME NEW S \in SUBSET rows["event"], Prune(S) PROVE TypeOK'
  BY <1>5, DeviceSyncAssumption DEF Prune, TypeOK
<1> QED
  BY <1>1, <1>2, <1>3, <1>4, <1>5 DEF Capture

LEMMA AbandonType ==
  ASSUME TypeOK, NEW c \in Channels, Abandon(c)
  PROVE  /\ pc' \in [Channels -> Steps]
         /\ win' \in [Channels -> [Lanes -> SUBSET Row]]
         /\ high' \in [Channels -> [Lanes -> Key]]
         /\ ack' \in [Channels -> 0 .. MaxEpoch]
         /\ wasReset' \in [Channels -> BOOLEAN]
BY DeviceSyncAssumption DEF Abandon, TypeOK, Steps

LEMMA FlushTypeOK ==
  ASSUME TypeOK, NEW c \in Channels, Flush(c) \/ Fail(c)
  PROVE  TypeOK'
<1>1. ASSUME Snapshot(c) PROVE TypeOK'
  BY <1>1, WindowRows DEF Snapshot, TypeOK, Steps
<1>2. ASSUME Post(c) PROVE TypeOK'
  <2>1. PICK k \in [Lanes -> Key], e \in {0, cloudEpoch} :
          /\ high' = [high EXCEPT ![c] = k]
          /\ ack' = [ack EXCEPT ![c] = e]
          /\ cloud' = [l \in Lanes |-> cloud[l] \cup UpTo(win[c][l], k[l])]
          /\ owed' = [l \in Lanes |-> owed[l] \ UpTo(win[c][l], k[l])]
    BY <1>2 DEF Post
  <2>2. high' \in [Channels -> [Lanes -> Key]] /\ ack' \in [Channels -> 0 .. MaxEpoch]
    BY <2>1, DeviceSyncAssumption DEF TypeOK
  <2>3. cloud' \in [Lanes -> SUBSET Row] /\ owed' \in [Lanes -> SUBSET Row]
    BY <2>1 DEF TypeOK, UpTo
  <2> QED
    BY <1>2, <2>2, <2>3 DEF Post, TypeOK, Steps
<1>3. ASSUME NoteEpoch(c) PROVE TypeOK'
  <2>1. pc' \in [Channels -> Steps]
    BY <1>3 DEF NoteEpoch, TypeOK, Steps
  <2>2. epoch' \in 0 .. MaxEpoch
    BY <1>3 DEF NoteEpoch, TypeOK
  <2>3. todo' = todo \/ todo' = [todo EXCEPT ![c] = Lanes]
    BY <1>3 DEF NoteEpoch, ResetLanes
  <2>4. todo' \in [Channels -> SUBSET Lanes]
    BY <2>3 DEF TypeOK
  <2> QED
    BY <1>3, <2>1, <2>2, <2>4 DEF NoteEpoch, TypeOK
<1>4. ASSUME ResetDone(c) PROVE TypeOK'
  BY <1>4, AbandonType DEF ResetDone, TypeOK, Steps
<1>5. ASSUME Advance(c) PROVE TypeOK'
  <2>1. cursor' \in [Lanes -> Key]
    BY <1>5, NewCursorType DEF Advance
  <2>2. Rest(c) \in [Lanes -> SUBSET Row]
    BY DEF Rest, TypeOK
  <2>3. CASE \E l \in Lanes : Rest(c)[l] # {}
    BY <1>5, <2>1, <2>2, <2>3, DeviceSyncAssumption DEF Advance, TypeOK, Steps
  <2>4. CASE ~ \E l \in Lanes : Rest(c)[l] # {}
    BY <1>5, <2>1, <2>4, AbandonType DEF Advance, TypeOK
  <2> QED
    BY <2>3, <2>4
<1>6. ASSUME NEW l \in Lanes, BlankCursor(c, l) PROVE TypeOK'
  BY <1>6, DeviceSyncAssumption DEF BlankCursor, TypeOK
<1>7. ASSUME Fail(c) PROVE TypeOK'
  BY <1>7, AbandonType DEF Fail, TypeOK
<1> QED
  BY <1>1, <1>2, <1>3, <1>4, <1>5, <1>6, <1>7 DEF Flush

LEMMA EnvironmentTypeOK ==
  TypeOK /\ (Command \/ Sweep \/ CloudReset \/ Crash) => TypeOK'
<1> SUFFICES ASSUME TypeOK PROVE
      Command \/ Sweep \/ CloudReset \/ Crash => TypeOK'
  OBVIOUS
<1>1. ASSUME Resync PROVE TypeOK'
  BY <1>1, DeviceSyncAssumption DEF Resync, TypeOK
<1>2. ASSUME Nuke PROVE TypeOK'
  BY <1>2, DeviceSyncAssumption DEF Nuke, TypeOK
<1>3. ASSUME NEW k \in Key, ResyncFrom(k) PROVE TypeOK'
  BY <1>3, DeviceSyncAssumption DEF ResyncFrom, TypeOK
<1>4. ASSUME SweepRead PROVE TypeOK'
  BY <1>4, DeviceSyncAssumption DEF SweepRead, TypeOK
<1>5. ASSUME NEW S \in SUBSET rows["event"], SweepCompact(S) PROVE TypeOK'
  BY <1>5, DeviceSyncAssumption DEF SweepCompact, TypeOK
<1>6. ASSUME CloudReset PROVE TypeOK'
  BY <1>6, DeviceSyncAssumption DEF CloudReset, TypeOK
<1>7. ASSUME Crash PROVE TypeOK'
  BY <1>7, DeviceSyncAssumption DEF Crash, TypeOK, Steps
<1> QED
  BY <1>1, <1>2, <1>3, <1>4, <1>5, <1>6, <1>7 DEF Command, Sweep

\* Every table, cursor, epoch and flush variable keeps its range: cursors stay
\* keys that were handed out, whatever the tasks, faults and commands do.
THEOREM TypeCorrect == Spec => []TypeOK
<1>1. TypeOK /\ [Next]_vars => TypeOK'
  <2>1. TypeOK /\ UNCHANGED vars => TypeOK'
    BY DEF TypeOK, vars
  <2> QED
    BY <2>1, CaptureTypeOK, FlushTypeOK, EnvironmentTypeOK DEF Next
<1> QED
  BY <1>1, InitTypeOK, PTL DEF Spec

-----------------------------------------------------------------------------
(* The inductive invariant. *)

InFlight(c) == pc[c] \in {"acked", "blank", "advance"}
Chunk(c, l) == UpTo(win[c][l], high[c][l])

\* New rows land above every cursor.
KeysBelowTop ==
  \A l \in Lanes : cursor[l] <= top[l] /\ \A r \in rows[l] : r.key <= top[l]

\* A flush loads its own lanes.
OwnLanes == \A c \in Channels : pc[c] # "idle" =>
  \A l \in Lanes : \A w \in win[c][l] : l \in LanesOf(c) /\ w.key <= top[l]

\* What a flush has yet to send is all of the table between the cursor and the
\* window's end.
WindowCovers ==
  \A c \in Channels : pc[c] \in {"post", "acked", "advance"} /\ ~wasReset[c] =>
    \A l \in Lanes : \A w \in win[c][l] :
      /\ cursor[l] < w.key
      /\ \A r \in rows[l] :
           r.key <= w.key => r \in win[c][l] \/ r.key <= cursor[l]

\* The mark of a chunk is the key of one of its rows.
MarksAreKeys == \A c \in Channels : InFlight(c) =>
  \A l \in Lanes : high[c][l] = 0 \/ \E w \in win[c][l] : w.key = high[c][l]

\* An acked chunk is held by the cloud of the epoch it was acked in.
AckedIsHeld == \A c \in Channels : InFlight(c) =>
  /\ ack[c] \in 1 .. cloudEpoch
  /\ \A l \in Lanes : /\ ack[c] = cloudEpoch => Chunk(c, l) \subseteq cloud[l]
                      /\ Chunk(c, l) \cap owed[l] = {}

\* A flush advances only under the epoch it was acked in.
EpochNoted ==
  /\ epoch <= cloudEpoch
  /\ epoch = 0 => cursor = NoKeys
  /\ \A c \in Channels :
       /\ pc[c] \in {"blank", "advance"} => epoch = ack[c]
       /\ pc[c] = "blank" => MaxEpoch # 1
       /\ todo[c] # {} => pc[c] = "blank"

IInv ==
  /\ TypeOK /\ minted = {} /\ KeysBelowTop /\ OwnLanes /\ WindowCovers
  /\ MarksAreKeys /\ AckedIsHeld /\ EpochNoted /\ CursorSound /\ ResyncHonoured

-----------------------------------------------------------------------------
(* Windows and chunks. *)

LEMMA RowIsFinite == IsFiniteSet(Row)
<1> DEFINE D == (1 .. MaxKey) \X (0 .. MaxGen)
           f == [p \in D |-> [key |-> p[1], gen |-> p[2]]]
<1>1. IsFiniteSet(1 .. MaxKey) /\ IsFiniteSet(0 .. MaxGen)
  <2>1. 1 \in Int /\ 0 \in Int /\ MaxKey \in Int /\ MaxGen \in Int
    BY DeviceSyncAssumption
  <2>2. IsFiniteSet(1 .. MaxKey)
    BY <2>1, FS_Interval
  <2>3. IsFiniteSet(0 .. MaxGen)
    BY <2>1, FS_Interval
  <2> QED BY <2>2, <2>3
<1>2. IsFiniteSet(D)
  BY <1>1, FS_Product
<1>3. f \in Surjection(D, Row)
  <2>1. ASSUME NEW r \in Row PROVE \E p \in D : f[p] = r
    <3>1. r.key \in 1 .. MaxKey /\ r.gen \in 0 .. MaxGen
      OBVIOUS
    <3>2. [key |-> r.key, gen |-> r.gen] = r
      OBVIOUS
    <3>3. <<r.key, r.gen>> \in D
      BY <3>1
    <3>4. f[<<r.key, r.gen>>] = r
      BY <3>2, <3>3
    <3> QED
      BY <3>3, <3>4
  <2>2. f \in [D -> Row]
    <3>1. ASSUME NEW p \in D PROVE f[p] \in Row
      <4>1. p[1] \in 1 .. MaxKey /\ p[2] \in 0 .. MaxGen
        OBVIOUS
      <4> QED
        BY <4>1
    <3> QED
      BY <3>1
  <2> QED
    BY <2>1, <2>2 DEF Surjection
<1> QED
  BY <1>2, <1>3, FS_Surjection

\* The first rows of a set have no gap between them.
LEMMA FirstIsPrefix ==
  ASSUME NEW S \in SUBSET Row, NEW n \in Nat,
         NEW w \in First(S, n), NEW r \in S, r.key <= w.key
  PROVE  r \in First(S, n)
<1>1. IsFiniteSet(UpTo(S, w.key)) /\ UpTo(S, r.key) \subseteq UpTo(S, w.key)
  <2>1. UpTo(S, w.key) \subseteq Row
    BY DEF UpTo
  <2>2. \A s \in S : s.key <= r.key => s.key <= w.key
    BY DeviceSyncAssumption DEF First
  <2> QED
    BY <2>1, <2>2, RowIsFinite, FS_Subset DEF UpTo
<1>2. Cardinality(UpTo(S, r.key)) <= Cardinality(UpTo(S, w.key))
  BY <1>1, FS_Subset
<1>3. /\ Cardinality(UpTo(S, r.key)) \in Nat
      /\ Cardinality(UpTo(S, w.key)) \in Nat
  BY <1>1, FS_Subset, FS_CardinalityType
<1> QED
  BY <1>2, <1>3 DEF First

\* A window leaves out no row between the cursor and its end.
LEMMA WindowHasNoGap ==
  ASSUME TypeOK, NEW c \in Channels, NEW l \in Lanes,
         NEW w \in Window(c, l), NEW r \in rows[l], r.key <= w.key
  PROVE  /\ l \in LanesOf(c) /\ w \in rows[l] /\ cursor[l] < w.key
         /\ r \in Window(c, l) \/ r.key <= cursor[l]
<1>1. w \in Unsynced(l) /\ l \in LanesOf(c)
  BY DEF Window, First
<1>2. CASE r.key <= cursor[l]
  BY <1>1, <1>2 DEF Unsynced
<1>3. CASE ~ r.key <= cursor[l]
  <2>1. r \in Unsynced(l)
    BY <1>3 DEF Unsynced, TypeOK
  <2>2. Unsynced(l) \in SUBSET Row /\ WindowCap[l] \in Nat
    BY DeviceSyncAssumption DEF Unsynced, TypeOK
  <2>3. r \in Window(c, l)
    BY <1>1, <2>1, <2>2, FirstIsPrefix DEF Window
  <2> QED
    BY <1>1, <2>3 DEF Unsynced
<1> QED
  BY <1>2, <1>3

\* No lane belongs to two channels.
LEMMA LanesApart ==
  ASSUME NEW c \in Channels, NEW d \in Channels, c # d, NEW l \in LanesOf(c)
  PROVE  l \notin LanesOf(d)
BY DeviceSyncAssumption DEF LanesOf, AttestationLanes, KnowledgeLanes

\* A chunk's mark is 0 or the key of one of its rows.
LEMMA ChunkMark ==
  ASSUME TypeOK, NEW c \in Channels, NEW k \in [Lanes -> Key], ChunkEnds(c, k),
         NEW l \in Lanes
  PROVE  k[l] = 0 \/ \E w \in win[c][l] : w.key = k[l]
BY DEF ChunkEnds, EndsAt, Whole
-----------------------------------------------------------------------------
(* Every step preserves the invariant. *)

LEMMA InitIInv == Init => IInv
<1> SUFFICES ASSUME Init PROVE IInv
  OBVIOUS
<1>1. KeysBelowTop /\ OwnLanes /\ WindowCovers /\ MarksAreKeys /\ AckedIsHeld
  BY DEF Init, KeysBelowTop, OwnLanes, WindowCovers, MarksAreKeys, AckedIsHeld,
         InFlight
<1>2. EpochNoted /\ CursorSound /\ ResyncHonoured
  BY DEF Init, EpochNoted, CursorSound, ResyncHonoured, UpTo
<1> QED
  BY <1>1, <1>2, InitTypeOK DEF IInv, Init

\* Rows leave a table, or arrive above every key it handed out.
LEMMA RowsStep ==
  ASSUME IInv, TypeOK', UNCHANGED <<minted, meta, far, task, owed>>,
         \A l \in Lanes : top[l] <= top'[l],
         \A l \in Lanes : \A r \in rows'[l] :
           r \in rows[l] \/ (top[l] < r.key /\ r.key <= top'[l])
  PROVE  IInv'
<1>1. KeysBelowTop'
  BY DEF IInv, KeysBelowTop, TypeOK
<1>2. OwnLanes'
  BY DEF IInv, OwnLanes, TypeOK
<1>3. WindowCovers'
  <2> SUFFICES ASSUME NEW c \in Channels, pc[c] \in {"post", "acked", "advance"},
                      ~wasReset[c], NEW l \in Lanes, NEW w \in win[c][l],
                      NEW r \in rows'[l], r.key <= w.key
               PROVE  r \in win[c][l] \/ r.key <= cursor[l]
    BY DEF IInv, WindowCovers
  <2>1. w.key <= top[l]
    BY DEF IInv, OwnLanes
  <2>2. w \in Row /\ r \in Row /\ top[l] \in Nat
    BY DEF TypeOK, IInv
  <2>3. r \in rows[l]
    BY <2>1, <2>2
  <2> QED
    BY <2>3 DEF IInv, WindowCovers
<1>4. MarksAreKeys' /\ AckedIsHeld' /\ EpochNoted'
  BY DEF IInv, MarksAreKeys, AckedIsHeld, EpochNoted, InFlight, Chunk, UpTo
<1>5. ASSUME NEW l \in Lanes PROVE UpTo(rows'[l], cursor[l]) \subseteq UpTo(rows[l], cursor[l])
  <2> SUFFICES ASSUME NEW r \in rows'[l], r.key <= cursor[l] PROVE r \in rows[l]
    BY DEF UpTo
  <2>1. cursor[l] <= top[l]
    BY DEF IInv, KeysBelowTop
  <2>2. r \in Row /\ top[l] \in Nat /\ cursor[l] \in Nat
    BY DEF TypeOK, IInv
  <2> QED
    BY <2>1, <2>2
<1>6. CursorSound' /\ ResyncHonoured'
  BY <1>5 DEF IInv, CursorSound, ResyncHonoured, Blanking, UpTo
<1> QED
  BY <1>1, <1>2, <1>3, <1>4, <1>6 DEF IInv

LEMMA CaptureStep ==
  ASSUME IInv, Undisturbed, Capture
  PROVE  IInv'
<1>0. TypeOK /\ TypeOK'
  BY CaptureTypeOK DEF IInv
<1>1. ASSUME NEW l \in Lanes, Append(l) PROVE IInv'
  BY <1>0, <1>1, RowsStep DEF Append, TypeOK
<1>2. ASSUME NEW l \in Lanes, NEW r \in rows[l], Upsert(l, r) PROVE IInv'
  BY <1>0, <1>2, RowsStep DEF Upsert, TypeOK
<1>3. ASSUME NEW S \in SUBSET rows["event"], Prune(S) PROVE IInv'
  BY <1>0, <1>3, RowsStep DEF Prune, TypeOK
<1> QED
  BY <1>1, <1>2, <1>3 DEF Capture, MintManual, Undisturbed, IInv

LEMMA SweepStep ==
  ASSUME IInv, Sweep
  PROVE  IInv'
<1>0. TypeOK /\ TypeOK'
  BY EnvironmentTypeOK DEF IInv
<1>1. ASSUME SweepRead PROVE IInv'
  BY <1>0, <1>1, RowsStep DEF SweepRead, TypeOK
<1>2. ASSUME NEW S \in SUBSET rows["event"], SweepCompact(S) PROVE IInv'
  BY <1>0, <1>2, RowsStep DEF SweepCompact, TypeOK
<1> QED
  BY <1>1, <1>2 DEF Sweep

LEMMA SnapshotStep ==
  ASSUME IInv, NEW c \in Channels, Snapshot(c)
  PROVE  IInv'
<1>0. TypeOK /\ TypeOK'
  BY FlushTypeOK DEF IInv, Flush
<1> DEFINE W == [l \in Lanes |-> Window(c, l)]
<1>a. win' = [win EXCEPT ![c] = W] /\ pc' = [pc EXCEPT ![c] = "post"]
  BY DEF Snapshot
<1>1. \A l \in Lanes : win'[c][l] = Window(c, l)
  <2>1. win'[c] = W
    <3> HIDE DEF W
    <3> QED BY <1>0, <1>a DEF TypeOK
  <2> QED
    BY <2>1
<1>2. pc'[c] = "post" /\ \A d \in Channels \ {c} : pc'[d] = pc[d] /\ win'[d] = win[d]
  <2> HIDE DEF W
  <2> QED
    BY <1>0, <1>a DEF TypeOK
<1> HIDE DEF W
<1>b. UNCHANGED <<rows, top, cursor, wasReset>>
  BY DEF Snapshot
<1>c. \A l \in Lanes : \A w \in Window(c, l) :
        /\ l \in LanesOf(c) /\ w.key <= top[l] /\ cursor[l] < w.key
        /\ \A r \in rows[l] :
             r.key <= w.key => r \in Window(c, l) \/ r.key <= cursor[l]
  <2> SUFFICES ASSUME NEW l \in Lanes, NEW w \in Window(c, l)
               PROVE  /\ l \in LanesOf(c) /\ w.key <= top[l] /\ cursor[l] < w.key
                      /\ \A r \in rows[l] :
                           r.key <= w.key => r \in Window(c, l) \/ r.key <= cursor[l]
    OBVIOUS
  <2>1. w \in rows[l] /\ w.key \in Nat
    BY <1>0, WindowRows DEF TypeOK
  <2>2. w.key <= top[l] /\ w.key <= w.key
    BY <2>1 DEF IInv, KeysBelowTop
  <2>3. l \in LanesOf(c) /\ cursor[l] < w.key
    BY <1>0, <2>1, <2>2, WindowHasNoGap
  <2>4. ASSUME NEW r \in rows[l], r.key <= w.key
        PROVE  r \in Window(c, l) \/ r.key <= cursor[l]
    BY <1>0, <2>4, WindowHasNoGap
  <2> QED
    BY <2>2, <2>3, <2>4
<1>3. OwnLanes'
  <2> SUFFICES ASSUME NEW d \in Channels, pc'[d] # "idle", NEW l \in Lanes,
                      NEW w \in win'[d][l]
               PROVE  l \in LanesOf(d) /\ w.key <= top[l]
    BY <1>b DEF OwnLanes
  <2>1. CASE d = c
    BY <2>1, <1>1, <1>c
  <2>2. CASE d # c
    BY <2>2, <1>2 DEF IInv, OwnLanes
  <2> QED
    BY <2>1, <2>2
<1>4. WindowCovers'
  BY <1>1, <1>2, <1>b, <1>c DEF IInv, WindowCovers
<1>5. MarksAreKeys' /\ AckedIsHeld'
  BY <1>2 DEF Snapshot, IInv, MarksAreKeys, AckedIsHeld, InFlight, Chunk, UpTo
<1>6. EpochNoted'
  BY <1>2 DEF Snapshot, IInv, EpochNoted
<1>7. KeysBelowTop' /\ CursorSound' /\ ResyncHonoured'
  BY DEF Snapshot, IInv, KeysBelowTop, CursorSound, ResyncHonoured, Blanking, UpTo
<1> QED
  BY <1>0, <1>3, <1>4, <1>5, <1>6, <1>7 DEF Snapshot, IInv

LEMMA PostStep ==
  ASSUME IInv, Undisturbed, NEW c \in Channels, Post(c)
  PROVE  IInv'
<1>0. TypeOK /\ TypeOK'
  BY FlushTypeOK DEF IInv, Flush
<1>1. PICK k \in [Lanes -> Key] :
        /\ ChunkEnds(c, k)
        /\ high' = [high EXCEPT ![c] = k]
        /\ ack' = [ack EXCEPT ![c] = cloudEpoch]
        /\ cloud' = [l \in Lanes |-> cloud[l] \cup UpTo(win[c][l], k[l])]
        /\ owed' = [l \in Lanes |-> owed[l] \ UpTo(win[c][l], k[l])]
  BY DEF Post, Undisturbed
<1>2. /\ pc[c] = "post" /\ pc'[c] = "acked"
      /\ high'[c] = k /\ ack'[c] = cloudEpoch
      /\ \A d \in Channels \ {c} :
           pc'[d] = pc[d] /\ high'[d] = high[d] /\ ack'[d] = ack[d]
  BY <1>0, <1>1 DEF Post, TypeOK
<1>3. MarksAreKeys'
  <2>1. \A l \in Lanes : k[l] = 0 \/ \E w \in win[c][l] : w.key = k[l]
    BY <1>0, <1>1, ChunkMark
  <2> QED
    BY <1>2, <2>1 DEF Post, IInv, MarksAreKeys, InFlight
<1>4. AckedIsHeld'
  <2> SUFFICES ASSUME NEW d \in Channels, InFlight(d)' PROVE
        /\ ack'[d] \in 1 .. cloudEpoch
        /\ \A l \in Lanes :
             /\ ack'[d] = cloudEpoch => UpTo(win[d][l], high'[d][l]) \subseteq cloud'[l]
             /\ UpTo(win[d][l], high'[d][l]) \cap owed'[l] = {}
    BY DEF Post, AckedIsHeld, Chunk, UpTo
  <2>1. CASE d = c
    BY <1>0, <1>1, <1>2, <2>1 DEF TypeOK
  <2>2. CASE d # c
    BY <1>0, <1>1, <1>2, <2>2 DEF IInv, AckedIsHeld, InFlight, Chunk
  <2> QED
    BY <2>1, <2>2
<1>5. OwnLanes' /\ WindowCovers'
  BY <1>2 DEF Post, IInv, OwnLanes, WindowCovers
<1>6. EpochNoted'
  BY <1>2 DEF Post, IInv, EpochNoted
<1>7. KeysBelowTop' /\ CursorSound' /\ ResyncHonoured'
  BY <1>0, <1>1 DEF Post, IInv, KeysBelowTop, CursorSound, ResyncHonoured, Blanking, UpTo
<1> QED
  BY <1>0, <1>3, <1>4, <1>5, <1>6, <1>7 DEF Post, IInv

\* A flush that ends leaves nothing behind but its cursors.
LEMMA AbandonStep ==
  ASSUME IInv, TypeOK', NEW c \in Channels, todo[c] = {}, Abandon(c),
         UNCHANGED <<store, meta, far, todo, sweep, owed>>
  PROVE  IInv'
<1>1. pc'[c] = "idle"
  BY DEF Abandon, IInv, TypeOK
<1>2. \A d \in Channels \ {c} : /\ pc'[d] = pc[d] /\ win'[d] = win[d]
                                /\ high'[d] = high[d] /\ ack'[d] = ack[d]
                                /\ wasReset'[d] = wasReset[d]
  BY DEF Abandon, IInv, TypeOK
<1>3. OwnLanes' /\ WindowCovers' /\ MarksAreKeys'
  BY <1>1, <1>2 DEF IInv, OwnLanes, WindowCovers, MarksAreKeys, InFlight
<1>4. AckedIsHeld'
  BY <1>1, <1>2 DEF IInv, AckedIsHeld, InFlight, Chunk, UpTo
<1>5. EpochNoted'
  BY <1>1, <1>2 DEF IInv, EpochNoted
<1>6. KeysBelowTop' /\ CursorSound' /\ ResyncHonoured'
  BY DEF IInv, KeysBelowTop, CursorSound, ResyncHonoured, Blanking, UpTo
<1> QED
  BY <1>3, <1>4, <1>5, <1>6 DEF IInv

LEMMA FailStep ==
  ASSUME IInv, NEW c \in Channels, Fail(c)
  PROVE  IInv'
<1>1. TypeOK' /\ todo[c] = {}
  BY FlushTypeOK DEF IInv, Fail, EpochNoted
<1> QED
  BY <1>1, AbandonStep DEF Fail

LEMMA NoteEpochStep ==
  ASSUME IInv, Undisturbed, NEW c \in Channels, NoteEpoch(c)
  PROVE  IInv'
<1>0. TypeOK /\ TypeOK'
  BY FlushTypeOK DEF IInv, Flush
<1>1. pc[c] = "acked" /\ ack[c] \in 1 .. cloudEpoch /\ epoch <= cloudEpoch
  BY DEF NoteEpoch, IInv, AckedIsHeld, EpochNoted, InFlight
<1>2. /\ pc'[c] \in {"advance", "blank"} /\ epoch' = ack[c]
      /\ \A d \in Channels \ {c} : pc'[d] = pc[d] /\ todo'[d] = todo[d]
      /\ pc'[c] = "advance" => todo' = todo /\ (epoch' = epoch \/ epoch = 0)
      /\ pc'[c] = "blank" => todo'[c] = Lanes /\ epoch \notin {0, ack[c]}
  BY <1>0, <1>1 DEF NoteEpoch, TypeOK, ResetLanes
<1>3. MaxEpoch = 1 \/ \A d \in Channels : d = c
  BY DEF Undisturbed
<1>4. MaxEpoch = 1 => cloudEpoch = 1 /\ epoch' = 1 /\ epoch \in {0, 1} /\ ack[c] = 1
  BY <1>0, <1>1, <1>2 DEF TypeOK
<1>5. KeysBelowTop' /\ OwnLanes' /\ WindowCovers' /\ MarksAreKeys'
  BY <1>1, <1>2 DEF NoteEpoch, IInv, KeysBelowTop, OwnLanes, WindowCovers,
                    MarksAreKeys, InFlight
<1>6. AckedIsHeld'
  BY <1>1, <1>2 DEF NoteEpoch, IInv, AckedIsHeld, InFlight, Chunk, UpTo
<1>7. EpochNoted'
  <2>1. epoch' <= cloudEpoch' /\ epoch' # 0
    BY <1>0, <1>1, <1>2 DEF NoteEpoch, TypeOK
  <2> SUFFICES ASSUME NEW d \in Channels
               PROVE  /\ pc'[d] \in {"blank", "advance"} => epoch' = ack[d]
                      /\ pc'[d] = "blank" => MaxEpoch # 1
                      /\ todo'[d] # {} => pc'[d] = "blank"
    BY <2>1 DEF NoteEpoch, EpochNoted
  <2>2. CASE d = c
    BY <1>1, <1>2, <1>4, <2>2 DEF IInv, EpochNoted
  <2>3. CASE d # c
    <3>1. MaxEpoch = 1 /\ epoch' = 1
      BY <1>3, <1>4, <2>3
    <3>2. pc[d] \in {"blank", "advance"} => ack[d] = 1
      BY <1>0, <3>1 DEF IInv, AckedIsHeld, InFlight, TypeOK
    <3> QED
      BY <1>2, <2>3, <3>1, <3>2 DEF IInv, EpochNoted
  <2> QED
    BY <2>2, <2>3
<1>8. CursorSound'
  <2> SUFFICES ASSUME NEW l \in Lanes, epoch' = cloudEpoch, ~Blanking(l)'
               PROVE  UpTo(rows[l], cursor[l]) \subseteq cloud[l]
    BY DEF NoteEpoch, CursorSound, UpTo
  <2>1. pc'[c] = "advance" /\ todo' = todo
    BY <1>2 DEF Blanking
  <2>2. CASE epoch = 0
    BY <1>0, <2>2 DEF IInv, EpochNoted, TypeOK, UpTo
  <2>3. CASE epoch' = epoch
    BY <2>1, <2>3 DEF IInv, CursorSound, Blanking
  <2> QED
    BY <1>2, <2>1, <2>2, <2>3
<1>9. ResyncHonoured'
  BY DEF NoteEpoch, IInv, ResyncHonoured, UpTo
<1> QED
  BY <1>0, <1>5, <1>6, <1>7, <1>8, <1>9 DEF NoteEpoch, IInv

LEMMA BlankCursorStep ==
  ASSUME IInv, Undisturbed, NEW c \in Channels, NEW l \in Lanes, BlankCursor(c, l)
  PROVE  IInv'
<1>0. TypeOK /\ TypeOK'
  BY FlushTypeOK DEF IInv, Flush
<1>1. pc[c] = "blank" /\ \A d \in Channels : d = c
  BY DEF BlankCursor, IInv, EpochNoted, Undisturbed
<1>2. cursor'[l] = 0 /\ \A m \in Lanes \ {l} : cursor'[m] = cursor[m]
  BY <1>0 DEF BlankCursor, TypeOK
<1>3. todo'[c] = todo[c] \ {l}
  BY <1>0 DEF BlankCursor, TypeOK
<1>4. KeysBelowTop'
  BY <1>0, <1>2 DEF BlankCursor, IInv, KeysBelowTop, TypeOK
<1>5. OwnLanes' /\ WindowCovers' /\ MarksAreKeys' /\ AckedIsHeld'
  BY <1>1 DEF BlankCursor, IInv, OwnLanes, WindowCovers, MarksAreKeys, AckedIsHeld,
              InFlight, Chunk, UpTo
<1>6. EpochNoted'
  <2>1. epoch # 0
    BY <1>0, <1>1 DEF IInv, EpochNoted, AckedIsHeld, InFlight
  <2> QED
    BY <1>1, <2>1 DEF BlankCursor, IInv, EpochNoted
<1>7. UpTo(rows[l], cursor'[l]) = {}
  BY <1>0, <1>2 DEF TypeOK, UpTo
<1>8. CursorSound' /\ ResyncHonoured'
  <2> SUFFICES ASSUME NEW m \in Lanes
               PROVE  /\ epoch = cloudEpoch /\ ~Blanking(m)' =>
                           UpTo(rows[m], cursor'[m]) \subseteq cloud[m]
                      /\ UpTo(rows[m] \cap owed[m], cursor'[m]) = {}
    BY DEF BlankCursor, CursorSound, ResyncHonoured, UpTo
  <2>1. CASE m = l
    BY <1>7, <2>1 DEF UpTo
  <2>2. CASE m # l
    <3>1. ~Blanking(m)' => ~Blanking(m)
      BY <1>1, <1>3, <2>2 DEF Blanking
    <3> QED
      BY <1>2, <2>2, <3>1 DEF IInv, CursorSound, ResyncHonoured
  <2> QED
    BY <2>1, <2>2
<1> QED
  BY <1>0, <1>4, <1>5, <1>6, <1>8 DEF BlankCursor, IInv

LEMMA ResetDoneStep ==
  ASSUME IInv, NEW c \in Channels, ResetDone(c)
  PROVE  IInv'
<1>0. TypeOK /\ TypeOK'
  BY FlushTypeOK DEF IInv, Flush
<1>1. CASE c = "attestation"
  <2>1. /\ pc[c] = "blank" /\ pc'[c] = "advance" /\ wasReset'[c] = TRUE
        /\ todo[c] = {}
        /\ \A d \in Channels \ {c} : pc'[d] = pc[d] /\ wasReset'[d] = wasReset[d]
    BY <1>0, <1>1 DEF ResetDone, TypeOK
  <2>2. UNCHANGED <<store, meta, far, todo, sweep, owed, win, high, ack>>
    BY <1>1 DEF ResetDone
  <2>3. OwnLanes' /\ WindowCovers' /\ MarksAreKeys'
    BY <2>1, <2>2 DEF IInv, OwnLanes, WindowCovers, MarksAreKeys, InFlight
  <2>4. AckedIsHeld'
    BY <2>1, <2>2 DEF IInv, AckedIsHeld, InFlight, Chunk, UpTo
  <2>5. EpochNoted'
    BY <2>1, <2>2 DEF IInv, EpochNoted
  <2>6. KeysBelowTop' /\ CursorSound' /\ ResyncHonoured'
    BY <2>2 DEF IInv, KeysBelowTop, CursorSound, ResyncHonoured, Blanking, UpTo
  <2> QED
    BY <1>0, <2>2, <2>3, <2>4, <2>5, <2>6 DEF IInv
<1>2. CASE c # "attestation"
  BY <1>0, <1>2, AbandonStep DEF ResetDone
<1> QED
  BY <1>1, <1>2

\* What an advance does to one lane: nothing, or it moves the cursor up to the
\* mark of an acked chunk that holds every stored row it passes.
LEMMA CursorMoves ==
  ASSUME IInv, NEW c \in Channels, pc[c] = "advance", NEW l \in Lanes,
         NewCursor(c, l) # cursor[l]
  PROVE  /\ ~wasReset[c] /\ NewCursor(c, l) = high[c][l] /\ l \in LanesOf(c)
         /\ cursor[l] < high[c][l] /\ high[c][l] <= top[l]
         /\ UpTo(rows[l], high[c][l]) \subseteq Chunk(c, l) \cup UpTo(rows[l], cursor[l])
<1>1. ~wasReset[c] /\ NewCursor(c, l) = high[c][l] /\ high[c][l] # 0
  BY DEF NewCursor
<1>2. PICK w \in win[c][l] : w.key = high[c][l]
  BY <1>1 DEF IInv, MarksAreKeys, InFlight
<1>3. l \in LanesOf(c) /\ w.key <= top[l]
  BY <1>2 DEF IInv, OwnLanes
<1>4. cursor[l] < w.key /\ \A r \in rows[l] :
        r.key <= w.key => r \in win[c][l] \/ r.key <= cursor[l]
  BY <1>1 DEF IInv, WindowCovers
<1> QED
  BY <1>1, <1>2, <1>3, <1>4 DEF Chunk, UpTo

LEMMA AdvanceStep ==
  ASSUME IInv, NEW c \in Channels, Advance(c)
  PROVE  IInv'
<1>0. TypeOK /\ TypeOK'
  BY FlushTypeOK DEF IInv, Flush
<1>1. \A l \in Lanes : cursor'[l] = NewCursor(c, l)
  BY DEF Advance
<1>2. pc[c] = "advance" /\ UNCHANGED <<store, epoch, far, todo, owed>>
  BY DEF Advance
<1>3. /\ \/ pc'[c] = "post" /\ win'[c] = Rest(c)
         \/ pc'[c] = "idle"
      /\ pc'[c] = "post" => wasReset' = wasReset
      /\ \A d \in Channels \ {c} : /\ pc'[d] = pc[d] /\ win'[d] = win[d]
                                   /\ high'[d] = high[d] /\ ack'[d] = ack[d]
                                   /\ wasReset'[d] = wasReset[d]
  <2> DEFINE W == Rest(c)
  <2> HIDE DEF W
  <2>1. \/ /\ pc' = [pc EXCEPT ![c] = "post"]
           /\ win' = [win EXCEPT ![c] = W]
           /\ high' = [high EXCEPT ![c] = NoKeys]
           /\ ack' = [ack EXCEPT ![c] = 0]
           /\ wasReset' = wasReset
        \/ Abandon(c)
    BY DEF Advance, W
  <2>2. \/ pc'[c] = "post" /\ win'[c] = W /\ wasReset' = wasReset
        \/ pc'[c] = "idle"
    BY <1>0, <2>1 DEF TypeOK, Abandon
  <2>3. \A d \in Channels \ {c} : /\ pc'[d] = pc[d] /\ win'[d] = win[d]
                                  /\ high'[d] = high[d] /\ ack'[d] = ack[d]
                                  /\ wasReset'[d] = wasReset[d]
    BY <1>0, <2>1 DEF TypeOK, Abandon
  <2> QED
    BY <2>2, <2>3 DEF W
<1>4. \A l \in Lanes : NewCursor(c, l) # cursor[l] =>
        /\ ~wasReset[c] /\ NewCursor(c, l) = high[c][l] /\ l \in LanesOf(c)
        /\ cursor[l] < high[c][l] /\ high[c][l] <= top[l]
        /\ UpTo(rows[l], high[c][l]) \subseteq Chunk(c, l) \cup UpTo(rows[l], cursor[l])
  BY <1>2, CursorMoves
<1>5. KeysBelowTop'
  BY <1>1, <1>2, <1>4 DEF IInv, KeysBelowTop
<1>6. \A l \in Lanes : Rest(c)[l] = win[c][l] \ Chunk(c, l)
  BY DEF Rest, Chunk
<1>7. OwnLanes'
  <2> SUFFICES ASSUME NEW d \in Channels, pc'[d] # "idle", NEW l \in Lanes,
                      NEW w \in win'[d][l]
               PROVE  l \in LanesOf(d) /\ w.key <= top[l]
    BY <1>2 DEF OwnLanes
  <2>1. w \in win[d][l] /\ pc[d] # "idle"
    BY <1>2, <1>3, <1>6
  <2> QED
    BY <2>1 DEF IInv, OwnLanes
<1>8. WindowCovers'
  <2> SUFFICES ASSUME NEW d \in Channels, pc'[d] \in {"post", "acked", "advance"},
                      ~wasReset'[d], NEW l \in Lanes, NEW w \in win'[d][l]
               PROVE  /\ cursor'[l] < w.key
                      /\ \A r \in rows[l] : r.key <= w.key =>
                            r \in win'[d][l] \/ r.key <= cursor'[l]
    BY <1>2 DEF WindowCovers
  <2>1. CASE d = c
    <3>1. win'[c] = Rest(c) /\ ~wasReset[c]
      BY <1>3, <2>1
    <3>2. w \in win[c][l] /\ w \notin Chunk(c, l)
      BY <1>6, <2>1, <3>1
    <3>3. cursor[l] < w.key /\ \A r \in rows[l] :
            r.key <= w.key => r \in win[c][l] \/ r.key <= cursor[l]
      BY <1>2, <3>1, <3>2 DEF IInv, WindowCovers
    <3>4. w.key \in Nat /\ high[c][l] \in Nat /\ cursor[l] \in Nat /\ high[c][l] < w.key
      BY <1>0, <3>2 DEF TypeOK, Chunk, UpTo
    <3>5. cursor'[l] = IF high[c][l] = 0 THEN cursor[l] ELSE high[c][l]
      BY <1>1, <3>1 DEF NewCursor
    <3>6. ASSUME NEW r \in rows[l], r.key <= w.key
          PROVE  r \in win'[d][l] \/ r.key <= cursor'[l]
      <4>1. CASE r.key <= cursor[l]
        <5>1. r.key \in Nat /\ cursor'[l] \in Nat
          BY <1>0 DEF TypeOK
        <5>2. cursor'[l] = cursor[l] \/ cursor[l] < cursor'[l]
          BY <1>1, <1>4
        <5> QED
          BY <3>4, <4>1, <5>1, <5>2
      <4>2. CASE r \in win[c][l] /\ r \notin Chunk(c, l)
        BY <1>6, <2>1, <3>1, <4>2
      <4>3. CASE r \in Chunk(c, l)
        <5>1. r \in win[c][l] /\ r.key <= high[c][l]
          BY <4>3 DEF Chunk, UpTo
        <5>2. r.key \in Nat /\ r.key # 0
          BY <1>0, <5>1 DEF TypeOK
        <5> QED
          BY <3>4, <3>5, <5>1, <5>2
      <4> QED
        BY <3>3, <3>6, <4>1, <4>2, <4>3
    <3> QED
      BY <3>3, <3>4, <3>5, <3>6
  <2>2. CASE d # c
    <3>1. w \in win[d][l] /\ pc'[d] = pc[d] /\ ~wasReset[d] /\ win'[d] = win[d]
      BY <1>3, <2>2
    <3>2. l \in LanesOf(d)
      BY <3>1 DEF IInv, OwnLanes
    <3>3. cursor'[l] = cursor[l]
      BY <1>1, <1>4, <2>2, <3>2, LanesApart
    <3> QED
      BY <3>1, <3>3 DEF IInv, WindowCovers
  <2> QED
    BY <2>1, <2>2
<1>9. MarksAreKeys' /\ AckedIsHeld'
  BY <1>2, <1>3 DEF IInv, MarksAreKeys, AckedIsHeld, InFlight, Chunk, UpTo
<1>10. EpochNoted'
  <2>1. epoch = ack[c] /\ ack[c] \in 1 .. cloudEpoch /\ todo[c] = {}
    BY <1>2 DEF IInv, EpochNoted, AckedIsHeld, InFlight
  <2>2. epoch # 0
    BY <1>0, <2>1 DEF TypeOK
  <2> QED
    BY <1>2, <1>3, <2>1, <2>2 DEF IInv, EpochNoted
<1>11. CursorSound' /\ ResyncHonoured'
  <2> SUFFICES ASSUME NEW l \in Lanes
               PROVE  /\ epoch = cloudEpoch /\ ~Blanking(l) =>
                           UpTo(rows[l], cursor'[l]) \subseteq cloud[l]
                      /\ UpTo(rows[l] \cap owed[l], cursor'[l]) = {}
    BY <1>2 DEF CursorSound, ResyncHonoured, Blanking, UpTo
  <2>1. CASE cursor'[l] = cursor[l]
    BY <2>1 DEF IInv, CursorSound, ResyncHonoured
  <2>2. CASE cursor'[l] # cursor[l]
    <3>1. UpTo(rows[l], cursor'[l]) \subseteq Chunk(c, l) \cup UpTo(rows[l], cursor[l])
      BY <1>1, <1>4, <2>2
    <3>2. /\ ack[c] = cloudEpoch => Chunk(c, l) \subseteq cloud[l]
          /\ Chunk(c, l) \cap owed[l] = {}
          /\ epoch = ack[c]
      BY <1>2 DEF IInv, AckedIsHeld, EpochNoted, InFlight
    <3>3. epoch = cloudEpoch /\ ~Blanking(l) => UpTo(rows[l], cursor[l]) \subseteq cloud[l]
      BY DEF IInv, CursorSound
    <3>4. UpTo(rows[l] \cap owed[l], cursor[l]) = {}
      BY DEF IInv, ResyncHonoured
    <3>5. UpTo(rows[l] \cap owed[l], cursor'[l]) = UpTo(rows[l], cursor'[l]) \cap owed[l]
      BY DEF UpTo
    <3>6. UpTo(rows[l] \cap owed[l], cursor[l]) = UpTo(rows[l], cursor[l]) \cap owed[l]
      BY DEF UpTo
    <3> QED
      BY <3>1, <3>2, <3>3, <3>4, <3>5, <3>6
  <2> QED
    BY <2>1, <2>2
<1> QED
  BY <1>0, <1>2, <1>5, <1>7, <1>8, <1>9, <1>10, <1>11 DEF IInv

\* With no flush in flight every clause about one is void.
LEMMA QuietStep ==
  ASSUME IInv, TypeOK', Quiet, UNCHANGED <<minted, cloud, cloudEpoch, task>>,
         epoch' <= cloudEpoch, epoch' = 0 => cursor' = NoKeys,
         KeysBelowTop', CursorSound', ResyncHonoured'
  PROVE  IInv'
<1>1. OwnLanes' /\ WindowCovers' /\ MarksAreKeys' /\ AckedIsHeld'
  BY DEF Quiet, OwnLanes, WindowCovers, MarksAreKeys, AckedIsHeld, InFlight, Chunk, UpTo
<1>2. EpochNoted'
  BY DEF Quiet, IInv, EpochNoted
<1> QED
  BY <1>1, <1>2 DEF IInv

LEMMA CommandStep ==
  ASSUME IInv, Undisturbed, Command
  PROVE  IInv'
<1>0. TypeOK /\ TypeOK'
  BY EnvironmentTypeOK DEF IInv
<1>q. MayCommand => Quiet
  BY DEF MayCommand, Undisturbed
<1>e. epoch <= cloudEpoch /\ (epoch = 0 => cursor = NoKeys)
  BY DEF IInv, EpochNoted
<1>b. \A l \in Lanes : Blanking(l)' = (\E c \in Channels : l \in todo'[c])
  BY DEF Blanking
<1>1. ASSUME Resync PROVE IInv'
  <2>1. Quiet /\ UNCHANGED <<store, epoch, far, task>>
    BY <1>1, <1>q DEF Resync
  <2>2. \A l \in Lanes : \/ cursor'[l] = 0
                         \/ cursor'[l] = cursor[l] /\ owed'[l] = owed[l]
    <3> TAKE l \in Lanes
    <3>1. CASE l \in AttestationLanes
      BY <1>1, <3>1 DEF Resync
    <3>2. CASE l \notin AttestationLanes
      BY <1>1, <3>2 DEF Resync
    <3> QED
      BY <3>1, <3>2
  <2>3. \A l \in Lanes : UpTo(rows[l], 0) = {} /\ UpTo(rows[l] \cap owed'[l], 0) = {}
    BY <1>0 DEF TypeOK, UpTo
  <2>4. KeysBelowTop'
    <3> SUFFICES ASSUME NEW l \in Lanes
                 PROVE  cursor'[l] <= top[l] /\ \A r \in rows[l] : r.key <= top[l]
      BY <2>1 DEF KeysBelowTop
    <3>1. top[l] \in Nat
      BY <1>0 DEF TypeOK
    <3> QED
      BY <2>2, <3>1 DEF IInv, KeysBelowTop
  <2>5. CursorSound' /\ ResyncHonoured'
    BY <2>1, <2>2, <2>3 DEF IInv, CursorSound, ResyncHonoured, Blanking, UpTo
  <2>6. epoch = 0 => cursor' = NoKeys
    BY <1>0, <1>1, <1>e DEF Resync, TypeOK
  <2> QED
    BY <1>0, <1>e, <2>1, <2>4, <2>5, <2>6, QuietStep
<1>2. ASSUME NEW k \in Key, ResyncFrom(k) PROVE IInv'
  <2>1. Quiet /\ UNCHANGED <<store, epoch, far, task>> /\ k < cursor["event"]
    BY <1>2, <1>q DEF ResyncFrom, Undisturbed
  <2>2. /\ cursor'["event"] = k /\ \A l \in Lanes \ {"event"} :
             cursor'[l] = cursor[l] /\ owed'[l] = owed[l]
        /\ owed'["event"] = owed["event"] \cup {r \in rows["event"] : r.key > k}
    BY <1>0, <1>2, DeviceSyncAssumption DEF ResyncFrom, TypeOK
  <2>3. "event" \in Lanes /\ cursor["event"] \in Nat
        /\ \A r \in rows["event"] : r.key \in Nat
    BY <1>0, DeviceSyncAssumption DEF TypeOK
  <2>4. KeysBelowTop'
    <3>1. cursor["event"] <= top["event"] /\ top["event"] \in Nat
      BY <1>0, <2>3 DEF IInv, KeysBelowTop, TypeOK
    <3> QED
      BY <2>1, <2>2, <2>3, <3>1 DEF IInv, KeysBelowTop
  <2>5. UpTo(rows["event"], k) \subseteq UpTo(rows["event"], cursor["event"])
    BY <2>1, <2>3 DEF UpTo
  <2>6. CursorSound'
    BY <2>1, <2>2, <2>3, <2>5 DEF IInv, CursorSound, Blanking, UpTo
  <2>7. UpTo(rows["event"] \cap owed'["event"], k) = {}
    <3>1. UpTo(rows["event"] \cap owed["event"], cursor["event"]) = {}
      BY <2>3 DEF IInv, ResyncHonoured
    <3> QED
      BY <2>1, <2>2, <2>3, <3>1 DEF UpTo
  <2>8. ResyncHonoured'
    BY <2>1, <2>2, <2>7 DEF IInv, ResyncHonoured, UpTo
  <2>9. epoch # 0
    BY <1>e, <2>1, <2>3
  <2> QED
    BY <1>0, <1>e, <2>1, <2>4, <2>6, <2>8, <2>9, QuietStep
<1>3. ASSUME Nuke PROVE IInv'
  <2>1. Quiet /\ cursor' = NoKeys /\ epoch' = 0 /\ UNCHANGED <<minted, far, task>>
    BY <1>3, <1>q DEF Nuke
  <2>2. \A l \in Lanes : UpTo(rows'[l], 0) = {} /\ UpTo(rows'[l] \cap owed'[l], 0) = {}
    BY <1>0 DEF TypeOK, UpTo
  <2>3. CursorSound' /\ ResyncHonoured'
    BY <2>1, <2>2 DEF CursorSound, ResyncHonoured, UpTo
  <2>4. KeysBelowTop'
    <3>1. \A l \in Lanes : \/ rows'[l] = {}
                           \/ rows'[l] = rows[l] /\ top'[l] = top[l]
      <4> TAKE l \in Lanes
      <4>1. CASE l \in AttestationLanes
        BY <1>3, <4>1 DEF Nuke
      <4>2. CASE l \notin AttestationLanes
        BY <1>3, <4>2 DEF Nuke, AttestationLanes
      <4> QED
        BY <4>1, <4>2
    <3> SUFFICES ASSUME NEW l \in Lanes
                 PROVE  cursor'[l] <= top'[l] /\ \A r \in rows'[l] : r.key <= top'[l]
      BY DEF KeysBelowTop
    <3>2. top'[l] \in Nat /\ cursor'[l] = 0
      BY <1>0, <2>1 DEF TypeOK
    <3> QED
      BY <3>1, <3>2 DEF IInv, KeysBelowTop
  <2>5. epoch' <= cloudEpoch
    BY <1>0, <2>1 DEF TypeOK
  <2> QED
    BY <1>0, <2>1, <2>3, <2>4, <2>5, QuietStep
<1> QED
  BY <1>1, <1>2, <1>3 DEF Command

LEMMA CloudResetStep ==
  ASSUME IInv, CloudReset
  PROVE  IInv'
<1>0. TypeOK /\ TypeOK' /\ cloudEpoch' = cloudEpoch + 1
  BY EnvironmentTypeOK DEF IInv, CloudReset
<1>1. AckedIsHeld'
  BY <1>0 DEF CloudReset, IInv, AckedIsHeld, InFlight, Chunk, UpTo, TypeOK
<1>2. EpochNoted' /\ CursorSound'
  BY <1>0 DEF CloudReset, IInv, EpochNoted, CursorSound, TypeOK
<1>3. OwnLanes' /\ WindowCovers' /\ MarksAreKeys'
  BY DEF CloudReset, IInv, OwnLanes, WindowCovers, MarksAreKeys, InFlight
<1>4. KeysBelowTop' /\ ResyncHonoured'
  BY DEF CloudReset, IInv, KeysBelowTop, ResyncHonoured, UpTo
<1> QED
  BY <1>0, <1>1, <1>2, <1>3, <1>4 DEF CloudReset, IInv

LEMMA CrashStep ==
  ASSUME IInv, Undisturbed, Crash
  PROVE  IInv'
<1>0. TypeOK /\ TypeOK'
  BY EnvironmentTypeOK DEF IInv
<1>1. \A c \in Channels : pc'[c] = "idle" /\ todo[c] = {} /\ todo'[c] = {}
  BY DEF Crash, Undisturbed, IInv, EpochNoted
<1>2. OwnLanes' /\ WindowCovers' /\ MarksAreKeys' /\ AckedIsHeld'
  BY <1>1 DEF OwnLanes, WindowCovers, MarksAreKeys, AckedIsHeld, InFlight
<1>3. EpochNoted'
  BY <1>1 DEF Crash, IInv, EpochNoted
<1>4. KeysBelowTop' /\ CursorSound' /\ ResyncHonoured'
  BY <1>1 DEF Crash, IInv, KeysBelowTop, CursorSound, ResyncHonoured, Blanking, UpTo
<1> QED
  BY <1>0, <1>2, <1>3, <1>4 DEF Crash, IInv

LEMMA NextStep ==
  ASSUME IInv, Undisturbed, [Next]_vars
  PROVE  IInv'
<1>1. ASSUME NEW c \in Channels, Flush(c) \/ Fail(c) PROVE IInv'
  BY <1>1, SnapshotStep, PostStep, NoteEpochStep, BlankCursorStep, ResetDoneStep,
     AdvanceStep, FailStep DEF Flush
<1>2. CASE UNCHANGED vars
  <2>1. TypeOK' /\ minted' = {} /\ KeysBelowTop' /\ OwnLanes' /\ WindowCovers'
    BY <1>2 DEF vars, IInv, TypeOK, KeysBelowTop, OwnLanes, WindowCovers
  <2>2. MarksAreKeys' /\ AckedIsHeld' /\ EpochNoted'
    BY <1>2 DEF vars, IInv, MarksAreKeys, AckedIsHeld, EpochNoted, InFlight, Chunk, UpTo
  <2>3. CursorSound' /\ ResyncHonoured'
    BY <1>2 DEF vars, IInv, CursorSound, ResyncHonoured, Blanking, UpTo
  <2> QED
    BY <2>1, <2>2, <2>3 DEF IInv
<1> QED
  BY <1>1, <1>2, CaptureStep, SweepStep, CommandStep, CloudResetStep, CrashStep DEF Next

-----------------------------------------------------------------------------
\* No cursor passes a row the cloud of the known epoch does not hold, for any
\* number of rows, lanes, chunks, epochs and nukes, when Undisturbed.
THEOREM CursorIsSound == ASSUME Undisturbed PROVE Spec => []CursorSound
<1>1. IInv /\ [Next]_vars => IInv'
  BY NextStep
<1>2. IInv => CursorSound
  BY DEF IInv
<1> QED
  BY <1>1, <1>2, InitIInv, PTL DEF Spec

\* A row a resync promised stays above its cursor until a POST carries it, when
\* Undisturbed.
THEOREM ResyncIsHonoured == ASSUME Undisturbed PROVE Spec => []ResyncHonoured
<1>1. IInv /\ [Next]_vars => IInv'
  BY NextStep
<1>2. IInv => ResyncHonoured
  BY DEF IInv
<1> QED
  BY <1>1, <1>2, InitIInv, PTL DEF Spec

\* Compaction deletes only events the cloud holds, when Undisturbed and when no
\* cursor moves under a running sweep.
THEOREM CompactionIsSafe ==
  ASSUME Undisturbed, "stale_sweep" \notin Hazards
  PROVE  Spec => CompactionKeepsUnsynced
<1>1. IInv /\ [Next]_vars => IInv'
  BY NextStep
<1>2. IInv => \A S \in SUBSET rows["event"] : SweepCompact(S) =>
        (epoch = cloudEpoch /\ ~Blanking("event") =>
           rows["event"] \ rows'["event"] \subseteq cloud["event"])
  <2> SUFFICES ASSUME IInv, NEW S \in SUBSET rows["event"], SweepCompact(S),
                      epoch = cloudEpoch, ~Blanking("event")
               PROVE  rows["event"] \ rows'["event"] \subseteq cloud["event"]
    OBVIOUS
  <2>1. "event" \in Lanes /\ rows \in [Lanes -> SUBSET Row]
    BY DeviceSyncAssumption DEF IInv, TypeOK
  <2>2. S \subseteq UpTo(rows["event"], cursor["event"])
    BY DEF SweepCompact, Deletable
  <2>3. rows["event"] \ rows'["event"] \subseteq S
    BY <2>1 DEF SweepCompact
  <2> QED
    BY <2>1, <2>2, <2>3 DEF IInv, CursorSound
<1>3. IInv => [(\E S \in SUBSET rows["event"] : SweepCompact(S)) =>
                 (epoch = cloudEpoch /\ ~Blanking("event") =>
                    rows["event"] \ rows'["event"] \subseteq cloud["event"])]_vars
  BY <1>2
<1> QED
  BY <1>1, <1>3, InitIInv, PTL DEF Spec, CompactionKeepsUnsynced

-----------------------------------------------------------------------------
(* DeviceSync implements ConfirmedDelivery, for every Undisturbed          *)
(* instance: the initial state maps to an initial state and every step to  *)
(* a change, a delivery, a confirmation, a loss, or a stutter.             *)

Held(l) == epoch = cloudEpoch /\ ~Blanking(l)

LEMMA ConfirmedType ==
  ASSUME TypeOK
  PROVE  /\ Confirmed \in [Lanes -> SUBSET Row]
         /\ \A l \in Lanes : Confirmed[l] = IF Held(l) THEN UpTo(rows[l], cursor[l])
                                                       ELSE {}
BY DEF Confirmed, Held, TypeOK, UpTo

LEMMA ConfirmedTypeNext ==
  ASSUME TypeOK'
  PROVE  /\ Confirmed' \in [Lanes -> SUBSET Row]
         /\ \A l \in Lanes : Confirmed'[l] = IF Held(l)' THEN UpTo(rows'[l], cursor'[l])
                                                         ELSE {}
BY DEF Confirmed, Held, TypeOK, UpTo

LEMMA InitRefines == Init => Delivery!DInit
<1> SUFFICES ASSUME Init PROVE Delivery!DInit
  OBVIOUS
<1>1. Confirmed = [l \in Lanes |-> {}]
  BY DEF Init, Confirmed, UpTo
<1> QED
  BY <1>1 DEF Init, Delivery!DInit

\* A step that confirms nothing new maps to Change.
LEMMA ChangeStep ==
  ASSUME TypeOK, TypeOK', cloud' = cloud,
         \A l \in Lanes : Held(l)' =>
           \A r \in rows'[l] : r.key <= cursor'[l] =>
             Held(l) /\ r \in rows[l] /\ r.key <= cursor[l]
  PROVE  Delivery!Change
<1>1. \A l \in Lanes : Confirmed'[l] \subseteq Confirmed[l] \cap rows'[l]
  BY ConfirmedType, ConfirmedTypeNext DEF UpTo
<1> QED
  BY <1>1, ConfirmedTypeNext DEF Delivery!Change, TypeOK

\* The rows at or below a cursor were there before.
LEMMA StaleRows ==
  ASSUME IInv, TypeOK', NEW l \in Lanes, NEW r \in rows'[l], r.key <= cursor[l],
         r \in rows[l] \/ top[l] < r.key
  PROVE  r \in rows[l]
<1>1. cursor[l] <= top[l] /\ cursor[l] \in Nat /\ top[l] \in Nat /\ r.key \in Nat
  BY DEF IInv, KeysBelowTop, TypeOK
<1> QED
  BY <1>1

LEMMA StoreRefines ==
  ASSUME IInv, Undisturbed, Capture \/ Sweep
  PROVE  Delivery!Change
<1>0. TypeOK /\ TypeOK'
  BY CaptureTypeOK, EnvironmentTypeOK DEF IInv
<1>1. UNCHANGED <<cursor, epoch, cloud, cloudEpoch, todo>>
  BY DEF Capture, Sweep, Append, Upsert, MintManual, AppendManual, Prune, SweepRead,
         SweepCompact
<1>2. \A l \in Lanes : \A r \in rows'[l] : r \in rows[l] \/ top[l] < r.key
  <2>1. ASSUME NEW m \in Lanes, Append(m)
        PROVE  \A l \in Lanes : \A r \in rows'[l] : r \in rows[l] \/ top[l] < r.key
    BY <1>0, <2>1 DEF Append, TypeOK
  <2>2. ASSUME NEW m \in Lanes, NEW s \in rows[m], Upsert(m, s)
        PROVE  \A l \in Lanes : \A r \in rows'[l] : r \in rows[l] \/ top[l] < r.key
    BY <1>0, <2>2 DEF Upsert, TypeOK
  <2>3. ASSUME NEW S \in SUBSET rows["event"], Prune(S) \/ SweepCompact(S)
        PROVE  \A l \in Lanes : \A r \in rows'[l] : r \in rows[l]
    BY <1>0, <2>3 DEF Prune, SweepCompact, TypeOK
  <2>4. ASSUME SweepRead
        PROVE  \A l \in Lanes : \A r \in rows'[l] : r \in rows[l]
    BY <2>4 DEF SweepRead
  <2> QED
    BY <2>1, <2>2, <2>3, <2>4 DEF Capture, Sweep, MintManual, Undisturbed, IInv
<1>3. \A l \in Lanes : Held(l)' = Held(l)
  BY <1>1 DEF Held, Blanking
<1> QED
  BY <1>0, <1>1, <1>2, <1>3, StaleRows, ChangeStep

\* The steps of a flush other than Post and Advance.
LEMMA FlushRefines ==
  ASSUME IInv, Undisturbed, NEW c \in Channels,
         Snapshot(c) \/ NoteEpoch(c) \/ ResetDone(c) \/ Fail(c)
           \/ \E l \in Lanes : BlankCursor(c, l)
  PROVE  Delivery!Change
<1>0. TypeOK /\ TypeOK'
  BY FlushTypeOK DEF IInv, Flush
<1>1. CASE Snapshot(c) \/ ResetDone(c) \/ Fail(c)
  <2>1. UNCHANGED <<rows, cursor, epoch, cloud, cloudEpoch, todo>>
    BY <1>1 DEF Snapshot, ResetDone, Fail
  <2>2. \A l \in Lanes : Held(l)' = Held(l)
    BY <2>1 DEF Held, Blanking
  <2> QED
    BY <1>0, <2>1, <2>2, ChangeStep
<1>2. CASE NoteEpoch(c)
  <2>1. UNCHANGED <<rows, cursor, cloud, cloudEpoch>> /\ pc[c] = "acked"
    BY <1>2 DEF NoteEpoch
  <2>2. \/ todo' = todo /\ (epoch' = epoch \/ epoch = 0)
        \/ todo'[c] = Lanes
    BY <1>0, <1>2 DEF NoteEpoch, ResetLanes, TypeOK
  <2>3. CASE todo' = todo /\ epoch' = epoch
    <3>1. \A l \in Lanes : Held(l)' = Held(l)
      BY <2>1, <2>3 DEF Held, Blanking
    <3> QED
      BY <1>0, <2>1, <3>1, ChangeStep
  <2>4. CASE epoch = 0
    <3>1. \A l \in Lanes : cursor'[l] = 0 /\ \A r \in rows'[l] : ~(r.key <= 0)
      BY <1>0, <2>1, <2>4 DEF IInv, EpochNoted, TypeOK
    <3> QED
      BY <1>0, <2>1, <3>1, ChangeStep
  <2>5. CASE todo'[c] = Lanes
    <3>1. \A l \in Lanes : ~Held(l)'
      BY <2>5 DEF Held, Blanking
    <3> QED
      BY <1>0, <2>1, <3>1, ChangeStep
  <2> QED
    BY <2>2, <2>3, <2>4, <2>5
<1>3. ASSUME NEW m \in Lanes, BlankCursor(c, m) PROVE Delivery!Change
  <2>1. UNCHANGED <<rows, epoch, cloud, cloudEpoch>>
    BY <1>3 DEF BlankCursor
  <2>2. cursor'[m] = 0 /\ \A r \in rows'[m] : ~(r.key <= 0)
    BY <1>0, <1>3 DEF BlankCursor, TypeOK
  <2>3. ASSUME NEW l \in Lanes \ {m} PROVE cursor'[l] = cursor[l] /\ Held(l)' = Held(l)
    <3>1. \A d \in Channels : l \in todo'[d] <=> l \in todo[d]
      BY <1>0, <1>3 DEF BlankCursor, TypeOK
    <3>2. Blanking(l)' = Blanking(l)
      BY <3>1 DEF Blanking
    <3> QED
      BY <1>0, <1>3, <2>1, <3>2 DEF BlankCursor, Held, TypeOK
  <2> QED
    BY <1>0, <2>1, <2>2, <2>3, ChangeStep
<1> QED
  BY <1>1, <1>2, <1>3

LEMMA PostRefines ==
  ASSUME IInv, NEW c \in Channels, Post(c)
  PROVE  Delivery!Deliver
<1>0. TypeOK /\ TypeOK'
  BY FlushTypeOK DEF IInv, Flush
<1>1. UNCHANGED <<rows, cursor, epoch, cloudEpoch, todo>>
      /\ \A l \in Lanes : cloud[l] \subseteq cloud'[l]
  BY DEF Post
<1>2. Confirmed' = Confirmed
  BY <1>1 DEF Confirmed, Blanking, UpTo
<1> QED
  BY <1>0, <1>1, <1>2 DEF Delivery!Deliver, TypeOK

LEMMA AdvanceRefines ==
  ASSUME IInv, NEW c \in Channels, Advance(c)
  PROVE  Delivery!Confirm
<1>0. TypeOK /\ TypeOK' /\ IInv'
  BY FlushTypeOK, AdvanceStep DEF IInv, Flush
<1>1. UNCHANGED <<rows, epoch, cloud, cloudEpoch, todo>> /\ pc[c] = "advance"
  BY DEF Advance
<1>2. \A l \in Lanes : cursor'[l] = cursor[l] \/ cursor[l] < cursor'[l]
  <2>1. \A l \in Lanes : cursor'[l] = NewCursor(c, l)
    BY DEF Advance
  <2> QED
    BY <1>1, <2>1, CursorMoves
<1>3. ASSUME NEW l \in Lanes
      PROVE  /\ Confirmed[l] \subseteq Confirmed'[l]
             /\ Confirmed'[l] \subseteq rows[l] \cap cloud[l]
  <2>1. Held(l)' = Held(l)
    BY <1>1 DEF Held, Blanking
  <2>2. \A r \in rows[l] : r.key <= cursor[l] => r.key <= cursor'[l]
    <3>1. \A r \in rows[l] : r.key \in Nat
      BY <1>0 DEF TypeOK
    <3>2. cursor[l] \in Nat /\ cursor'[l] \in Nat
      BY <1>0 DEF TypeOK
    <3> QED
      BY <1>2, <3>1, <3>2
  <2>3. Held(l)' => UpTo(rows[l], cursor'[l]) \subseteq rows[l] \cap cloud[l]
    BY <1>0, <1>1 DEF IInv, CursorSound, Held, UpTo
  <2> QED
    BY <1>0, <1>1, <2>1, <2>2, <2>3, ConfirmedType, ConfirmedTypeNext DEF UpTo
<1> QED
  BY <1>0, <1>1, <1>3, ConfirmedTypeNext DEF Delivery!Confirm

LEMMA CommandRefines ==
  ASSUME IInv, Undisturbed, Command
  PROVE  Delivery!Change
<1>0. TypeOK /\ TypeOK'
  BY EnvironmentTypeOK DEF IInv
<1>1. CASE Resync
  <2>1. UNCHANGED <<rows, epoch, cloud, cloudEpoch, todo>>
    BY <1>1 DEF Resync
  <2>2. ASSUME NEW l \in Lanes, NEW r \in rows[l], r.key <= cursor'[l]
        PROVE  r.key <= cursor[l]
    <3>1. cursor'[l] = 0 \/ cursor'[l] = cursor[l]
      BY <1>1 DEF Resync
    <3>2. r.key \in Nat /\ r.key # 0
      BY <1>0 DEF TypeOK
    <3> QED
      BY <2>2, <3>1, <3>2
  <2>3. \A l \in Lanes : Held(l)' = Held(l)
    BY <2>1 DEF Held, Blanking
  <2> QED
    BY <1>0, <2>1, <2>2, <2>3, ChangeStep
<1>2. ASSUME NEW k \in Key, ResyncFrom(k) PROVE Delivery!Change
  <2>1. UNCHANGED <<rows, epoch, cloud, cloudEpoch, todo>>
    BY <1>2 DEF ResyncFrom
  <2>2. ASSUME NEW l \in Lanes, NEW r \in rows[l], r.key <= cursor'[l]
        PROVE  r.key <= cursor[l]
    <3>1. cursor'[l] = cursor[l] \/ cursor'[l] < cursor[l]
      BY <1>0, <1>2 DEF ResyncFrom, Undisturbed, TypeOK
    <3>2. r.key \in Nat /\ cursor[l] \in Nat /\ cursor'[l] \in Nat
      BY <1>0 DEF TypeOK
    <3> QED
      BY <2>2, <3>1, <3>2
  <2>3. \A l \in Lanes : Held(l)' = Held(l)
    BY <2>1 DEF Held, Blanking
  <2> QED
    BY <1>0, <2>1, <2>2, <2>3, ChangeStep
<1>3. CASE Nuke
  <2>1. cloud' = cloud /\ cloudEpoch' = cloudEpoch /\ epoch' = 0
    BY <1>3 DEF Nuke
  <2>2. \A l \in Lanes : ~Held(l)'
    BY <1>0, <2>1 DEF Held, TypeOK
  <2> QED
    BY <1>0, <2>1, <2>2, ChangeStep
<1> QED
  BY <1>1, <1>2, <1>3 DEF Command

LEMMA LossRefines ==
  ASSUME IInv, CloudReset
  PROVE  Delivery!Lose
<1>0. TypeOK /\ TypeOK'
  BY EnvironmentTypeOK DEF IInv
<1>1. rows' = rows /\ cloud' = NoRows /\ epoch' = epoch /\ cloudEpoch' = cloudEpoch + 1
  BY DEF CloudReset
<1>2. epoch' # cloudEpoch'
  BY <1>0, <1>1 DEF IInv, EpochNoted, TypeOK
<1>3. Confirmed' = [l \in Lanes |-> {}]
  BY <1>2 DEF Confirmed
<1> QED
  BY <1>1, <1>3 DEF Delivery!Lose

LEMMA CrashRefines ==
  ASSUME IInv, Undisturbed, Crash
  PROVE  Delivery!Change
<1>0. TypeOK /\ TypeOK'
  BY EnvironmentTypeOK DEF IInv
<1>1. UNCHANGED <<rows, cursor, epoch, cloud, cloudEpoch>>
      /\ \A c \in Channels : todo[c] = {} /\ todo'[c] = {}
  BY DEF Crash, Undisturbed, IInv, EpochNoted
<1>2. \A l \in Lanes : Held(l)' = Held(l)
  BY <1>1 DEF Held, Blanking
<1> QED
  BY <1>0, <1>1, <1>2, ChangeStep

LEMMA NextRefines ==
  ASSUME IInv, Undisturbed, [Next]_vars
  PROVE  [Delivery!DNext]_(Delivery!dvars)
<1>1. CASE UNCHANGED vars
  <2>1. Confirmed' = Confirmed
    BY <1>1 DEF vars, Confirmed, Blanking, UpTo
  <2> QED
    BY <1>1, <2>1 DEF vars, Delivery!dvars
<1>2. ASSUME NEW c \in Channels, Flush(c) \/ Fail(c) PROVE Delivery!DNext
  BY <1>2, FlushRefines, PostRefines, AdvanceRefines DEF Flush, Delivery!DNext
<1> QED
  BY <1>1, <1>2, StoreRefines, CommandRefines, LossRefines, CrashRefines
     DEF Next, Delivery!DNext

\* The device implements ConfirmedDelivery: it confirms only rows that are stored
\* and held by the cloud, and takes every confirmation back when the cloud loses
\* its log.
THEOREM DeliveryIsImplemented ==
  ASSUME Undisturbed
  PROVE  Spec => ImplementsDelivery
<1>1. IInv /\ [Next]_vars => IInv'
  BY NextStep
<1>2. IInv /\ [Next]_vars => [Delivery!DNext]_(Delivery!dvars)
  BY NextRefines
<1> QED
  BY <1>1, <1>2, InitIInv, InitRefines, PTL
     DEF Spec, ImplementsDelivery, Delivery!DSpec

=============================================================================
