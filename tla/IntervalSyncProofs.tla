------------------------- MODULE IntervalSyncProofs -------------------------
(***************************************************************************)
(* The minutes the cloud settles are the minutes the device reports, for   *)
(* every idle threshold, chunk size and log, however the log is cut into   *)
(* flushes and chunks and whatever is recorded in the past: as long as no  *)
(* window that holds such an event is cut.                                 *)
(***************************************************************************)
EXTENDS IntervalSync, TLAPS, WellFoundedInduction

-----------------------------------------------------------------------------
(* Sets of times. *)

\* A non-empty set of naturals has a least element.
LEMMA Least == ASSUME NEW T, T \subseteq Nat, T # {}
               PROVE  \E m \in T : \A t \in T : m <= t
<1> DEFINE R == {p \in Nat \X Nat : p[1] < p[2]}
<1>1. IsWellFoundedOn(OpToRel(<, Nat), Nat)
  BY NatLessThanWellFounded
<1>2. OpToRel(<, Nat) = R
  BY DEF OpToRel
<1>3. PICK m \in T : \A t \in T : <<t, m>> \notin R
  BY <1>1, <1>2, WFMin
<1>4. ASSUME NEW t \in T PROVE m <= t
  <2>1. <<t, m>> \in Nat \X Nat /\ ~(t < m)
    BY <1>3, SMT
  <2> QED BY <2>1, SMT
<1> QED BY <1>4

\* A bounded one has a greatest.
LEMMA Greatest == ASSUME NEW T, T \subseteq Nat, T # {},
                         NEW b \in Nat, \A t \in T : t <= b
                  PROVE  \E m \in T : \A t \in T : t <= m
<1> DEFINE D == {b - t : t \in T}
<1>1. D \subseteq Nat /\ D # {}
  <2>1. \A t \in T : b - t \in Nat
    BY SMT
  <2> QED BY <2>1
<1>2. PICK d \in D : \A x \in D : d <= x
  <2> HIDE DEF D
  <2> QED BY <1>1, Least
<1>3. PICK m \in T : d = b - m
  BY <1>2
<1>4. ASSUME NEW t \in T PROVE t <= m
  <2>1. b - m <= b - t
    BY <1>2, <1>3
  <2> QED BY <2>1, SMT
<1> QED BY <1>4

\* What it is to be a gap.
LEMMA GapPair ==
  ASSUME NEW T, T \subseteq Nat, NEW g
  PROVE  g \in Gaps(T) <=>
           /\ g = <<g[1], g[2]>> /\ g[1] \in T /\ g[2] \in T
           /\ g[1] < g[2] /\ g[2] <= g[1] + Idle
           /\ \A t \in T : ~(g[1] < t /\ t < g[2])
BY SMT DEF Gaps

\* The gaps of a set of times do not overlap.
LEMMA GapsDisjoint ==
  ASSUME NEW T, T \subseteq Nat, NEW g \in Gaps(T), NEW h \in Gaps(T), g # h
  PROVE  ~Overlap(g, h)
<1>1. /\ g = <<g[1], g[2]>> /\ h = <<h[1], h[2]>>
      /\ g[1] \in T /\ g[2] \in T /\ h[1] \in T /\ h[2] \in T
      /\ g[1] < g[2] /\ h[1] < h[2]
      /\ \A t \in T : ~(g[1] < t /\ t < g[2]) /\ ~(h[1] < t /\ t < h[2])
  BY GapPair
<1>2. ASSUME Overlap(g, h) PROVE g[1] = h[1] /\ g[2] = h[2]
  BY <1>1, <1>2, SMT DEF Overlap
<1> QED BY <1>1, <1>2

\* More signals never cover fewer minutes.
LEMMA MinutesGrow ==
  ASSUME NEW U, U \subseteq Nat, NEW T, T \subseteq U
  PROVE  Minutes(Gaps(T)) \subseteq Minutes(Gaps(U))
<1> USE IntervalSyncAssumption
<1> SUFFICES ASSUME NEW t \in Time, NEW g \in Gaps(T), g[1] <= t, t < g[2]
             PROVE  \E h \in Gaps(U) : h[1] <= t /\ t < h[2]
  BY DEF Minutes
<1>1. /\ g[1] \in U /\ g[2] \in U /\ g[2] <= g[1] + Idle /\ t \in Nat
      /\ g[1] \in Nat /\ g[2] \in Nat
  BY GapPair DEF Time
<1>2. PICK lo \in {u \in U : u <= t} : \A u \in {v \in U : v <= t} : u <= lo
  <2> DEFINE L == {u \in U : u <= t}
  <2>1. L \subseteq Nat /\ L # {} /\ \A u \in L : u <= t
    BY <1>1
  <2> HIDE DEF L
  <2>2. \E m \in L : \A u \in L : u <= m
    BY <1>1, <2>1, Greatest
  <2> QED BY <2>2 DEF L
<1>3. PICK hi \in {u \in U : t < u} : \A u \in {v \in U : t < v} : hi <= u
  <2> DEFINE H == {u \in U : t < u}
  <2>1. H \subseteq Nat /\ H # {}
    BY <1>1
  <2> HIDE DEF H
  <2>2. \E m \in H : \A u \in H : m <= u
    BY <2>1, Least
  <2> QED BY <2>2 DEF H
<1>4. lo \in U /\ hi \in U /\ lo <= t /\ t < hi /\ lo \in Nat /\ hi \in Nat
  BY <1>2, <1>3
<1>5. g[1] <= lo /\ hi <= g[2]
  BY <1>1, <1>2, <1>3
<1>6. lo < hi /\ hi <= lo + Idle
  BY <1>1, <1>4, <1>5, SMT
<1>7. ASSUME NEW u \in U PROVE ~(lo < u /\ u < hi)
  <2>1. u \in Nat
    OBVIOUS
  <2>2. u <= t => u <= lo
    BY <1>2
  <2>3. t < u => hi <= u
    BY <1>3
  <2> QED BY <1>1, <1>4, <2>1, <2>2, <2>3, SMT
<1>8. <<lo, hi>> \in Gaps(U)
  BY <1>4, <1>6, <1>7, GapPair
<1> QED BY <1>4, <1>8

-----------------------------------------------------------------------------
(* What a chunk does to the cloud, when the cloud has settled exactly the gaps *)
(* of some signals P: B are the signals before the chunk, W those in it.       *)

\* Sd holds every earlier signal that can bound a gap with one of the chunk.
Anchored(B, W, Sd) ==
  \A c \in B, w \in W : c <= w + Idle /\ w <= c + Idle => c \in Sd

LEMMA ChunkIsGaps ==
  ASSUME NEW B \in SUBSET Nat, NEW W \in SUBSET Nat, NEW Sd \in SUBSET B,
         Anchored(B, W, Sd)
  PROVE  Intervals(Sd, W) =
           {g \in Gaps(B \cup W) : g[1] \in W \/ g[2] \in W \ Sd}
<1> USE IntervalSyncAssumption
<1>1. ASSUME NEW g \in Gaps(Sd \cup W), g[1] \in W \/ g[2] \in W \ Sd
      PROVE  g \in Gaps(B \cup W)
  <2>1. /\ g = <<g[1], g[2]>> /\ g[1] \in Sd \cup W /\ g[2] \in Sd \cup W
        /\ g[1] < g[2] /\ g[2] <= g[1] + Idle
        /\ \A t \in Sd \cup W : ~(g[1] < t /\ t < g[2])
    BY GapPair
  <2>2. ASSUME NEW c \in B, g[1] < c, c < g[2] PROVE c \in Sd
    BY <1>1, <2>1, <2>2, SMT DEF Anchored
  <2>3. \A t \in B \cup W : ~(g[1] < t /\ t < g[2])
    BY <2>1, <2>2
  <2> QED BY <2>1, <2>3, GapPair
<1>2. ASSUME NEW g \in Gaps(B \cup W), g[1] \in W \/ g[2] \in W \ Sd
      PROVE  g \in Gaps(Sd \cup W)
  <2>1. /\ g = <<g[1], g[2]>> /\ g[1] \in B \cup W /\ g[2] \in B \cup W
        /\ g[1] < g[2] /\ g[2] <= g[1] + Idle
        /\ \A t \in B \cup W : ~(g[1] < t /\ t < g[2])
    BY GapPair
  <2>2. g[1] \in Sd \cup W /\ g[2] \in Sd \cup W
    BY <1>2, <2>1, SMT DEF Anchored
  <2> QED BY <2>1, <2>2, GapPair
<1>3. ASSUME NEW g \in Gaps(Sd \cup W)
      PROVE  g[2] \in Sd \cup W
  BY GapPair
<1>4. ASSUME NEW g \in Intervals(Sd, W)
      PROVE  g \in Gaps(B \cup W) /\ (g[1] \in W \/ g[2] \in W \ Sd)
  <2>1. g \in Gaps(Sd \cup W) /\ (g[1] \in W \/ g[2] \notin Sd)
    BY DEF Intervals
  <2> QED BY <2>1, <1>1, <1>3
<1>5. ASSUME NEW g \in Gaps(B \cup W), g[1] \in W \/ g[2] \in W \ Sd
      PROVE  g \in Intervals(Sd, W)
  BY <1>2, <1>5 DEF Intervals
<1> QED BY <1>4, <1>5

LEMMA WindowSettles ==
  ASSUME NEW B \in SUBSET Nat, NEW W \in SUBSET Nat, NEW Sd \in SUBSET B,
         NEW P \in SUBSET (B \cup W), B \subseteq P,
         Anchored(B, W, Sd),
         billed = Gaps(P)
  PROVE  Settle(Intervals(Sd, W)) = Gaps(B \cup W)
<1> USE IntervalSyncAssumption
<1> DEFINE A == B \cup W
           New == {g \in Gaps(A) : g[1] \in W \/ g[2] \in W \ Sd}
<1>1. Intervals(Sd, W) = New
  BY ChunkIsGaps
\* A gap the chunk does not carry is one of P, and nothing in the chunk
\* overlaps it.
<1>2. ASSUME NEW h \in Gaps(A), h \notin New
      PROVE  h \in billed /\ \A n \in New : ~Overlap(h, n)
  <2>1. /\ h = <<h[1], h[2]>> /\ h[1] \in A /\ h[2] \in A
        /\ h[1] < h[2] /\ h[2] <= h[1] + Idle
        /\ \A t \in A : ~(h[1] < t /\ t < h[2])
    BY GapPair
  <2>2. h[1] \in B /\ h[2] \in B
    BY <1>2, <2>1
  <2>3. h \in Gaps(P)
    BY <2>1, <2>2, GapPair
  <2>4. \A n \in New : ~Overlap(h, n)
    BY <1>2, GapsDisjoint
  <2> QED BY <2>3, <2>4
\* A gap of P that is none of A was split by a signal of the chunk, and the gap
\* that opens there is in the chunk.
<1>3. ASSUME NEW g \in Gaps(P), g \notin Gaps(A)
      PROVE  \E n \in New : Overlap(g, n)
  <2>1. /\ g = <<g[1], g[2]>> /\ g[1] \in P /\ g[2] \in P
        /\ g[1] < g[2] /\ g[2] <= g[1] + Idle
        /\ \A t \in P : ~(g[1] < t /\ t < g[2])
    BY GapPair
  <2>2. PICK c \in A : g[1] < c /\ c < g[2]
    BY <1>3, <2>1, GapPair
  <2>3. c \in W
    BY <2>1, <2>2
  <2>4. PICK d \in {t \in A : c < t} : \A t \in {x \in A : c < x} : d <= t
    <3>1. {t \in A : c < t} \subseteq Nat /\ g[2] \in {t \in A : c < t}
      BY <2>1, <2>2
    <3> QED BY <3>1, Least
  <2>5. c < d /\ d <= g[2] /\ d \in A
    BY <2>1, <2>2, <2>4
  <2>6. \A t \in A : ~(c < t /\ t < d)
    BY <2>4, SMT
  <2>7. d <= c + Idle
    BY <2>1, <2>2, <2>5, SMT
  <2>8. <<c, d>> \in Gaps(A)
    BY <2>2, <2>5, <2>6, <2>7, GapPair
  <2>9. Overlap(g, <<c, d>>)
    BY <2>1, <2>2, <2>5, SMT DEF Overlap
  <2> QED BY <2>3, <2>8, <2>9
<1> QED BY <1>1, <1>2, <1>3 DEF Settle

\* A chunk that was settled before changes nothing: what came after it was
\* logged in time order.
LEMMA ResendSettles ==
  ASSUME NEW B \in SUBSET Nat, NEW W \in SUBSET Nat, NEW Sd \in SUBSET B,
         NEW P \in SUBSET Nat, B \cup W \subseteq P,
         Anchored(B, W, Sd),
         \A c \in P \ (B \cup W), t \in B \cup W : t <= c,
         billed = Gaps(P)
  PROVE  Settle(Intervals(Sd, W)) = billed
<1>1. Intervals(Sd, W) \subseteq Gaps(B \cup W)
  BY ChunkIsGaps
<1>2. ASSUME NEW g \in Gaps(B \cup W) PROVE g \in Gaps(P)
  <2>1. /\ g = <<g[1], g[2]>> /\ g[1] \in B \cup W /\ g[2] \in B \cup W
        /\ g[1] < g[2] /\ g[2] <= g[1] + Idle
        /\ \A t \in B \cup W : ~(g[1] < t /\ t < g[2])
    BY GapPair
  <2>2. \A t \in P : ~(g[1] < t /\ t < g[2])
    BY <2>1, SMT
  <2> QED BY <2>1, <2>2, GapPair
<1>3. \A g \in billed, n \in Intervals(Sd, W) : Overlap(g, n) => g = n
  BY <1>1, <1>2, GapsDisjoint
<1> QED BY <1>1, <1>2, <1>3 DEF Settle

-----------------------------------------------------------------------------
(* The inductive invariant. *)

Undisturbed == Hazards = {}

\* A flush works on the window behind its snapshot's cursor.  Either it sends the
\* window in one chunk, or the window holds nothing recorded in the past and its
\* next chunk opens at an idle break.
FlushKnows ==
  step # "idle" =>
    /\ base <= cursor /\ cursor = from - 1 /\ from <= until
    /\ \/ from = base + 1 /\ ChunkEnd(from, until) = until
       \/ /\ \A k \in base + 1 .. until : ~InPast(k)
          /\ from = base + 1 \/ Break(from)

\* The cloud has settled exactly the gaps of the first p events, for some p at or
\* beyond the cursor.
SettledUpTo(p) ==
  /\ billed = Gaps(Signals(1, p))
  /\ step # "idle" => p <= until
  /\ step = "acked" => ChunkEnd(from, until) <= p

IInv == /\ TypeOK /\ FlushKnows
        /\ \E p \in cursor .. Len(log) : SettledUpTo(p)

LEMMA SignalsAreTimes ==
  ASSUME TypeOK, NEW i \in Nat \ {0}, NEW j \in 0 .. Len(log)
  PROVE  Signals(i, j) \in SUBSET Nat
<1>1. ASSUME NEW k \in i .. j PROVE log[k].at \in Nat
  <2>1. k \in 1 .. Len(log)
    BY SMT DEF TypeOK
  <2>2. log[k] \in Event
    BY <2>1, SMT DEF TypeOK
  <2> QED BY <2>2, IntervalSyncAssumption, SMT DEF Event, Time
<1> QED BY <1>1 DEF Signals

LEMMA SignalsSplit ==
  ASSUME NEW i \in Nat, NEW m \in Nat, NEW j \in Nat, i <= m + 1, m <= j
  PROVE  Signals(i, j) = Signals(i, m) \cup Signals(m + 1, j)
<1>1. i .. j = (i .. m) \cup (m + 1 .. j)
  BY SMT
<1> QED BY <1>1 DEF Signals

LEMMA ChunkEndRange ==
  ASSUME NEW f \in Nat, NEW u \in Nat, f <= u
  PROVE  /\ ChunkEnd(f, u) \in f .. u
         /\ ChunkEnd(f, u) # u => Break(ChunkEnd(f, u) + 1)
<1> DEFINE breaks == {i \in f + ChunkEvents .. u : Break(i)}
<1>1. CASE breaks = {}
  <2>1. ChunkEnd(f, u) = u
    BY <1>1 DEF ChunkEnd
  <2> QED BY <2>1
<1>2. CASE breaks # {}
  <2> DEFINE b == CHOOSE i \in breaks : \A j \in breaks : i <= j
  <2>1. breaks \subseteq Nat
    BY IntervalSyncAssumption, SMT
  <2>2. b \in breaks
    BY <1>2, <2>1, Least
  <2>3. ChunkEnd(f, u) = b - 1
    BY <1>2 DEF ChunkEnd
  <2>4. b \in f + ChunkEvents .. u /\ Break(b)
    BY <2>2
  <2> HIDE DEF b, breaks
  <2>5. b - 1 \in f .. u /\ (b - 1) + 1 = b
    BY <2>4, IntervalSyncAssumption, SMT
  <2> QED BY <2>3, <2>4, <2>5
<1> QED BY <1>1, <1>2

-----------------------------------------------------------------------------
(* Every action keeps the invariant. *)

LEMMA IInvInit == Init => IInv
<1> SUFFICES ASSUME Init PROVE IInv
  OBVIOUS
<1>1. TypeOK /\ FlushKnows
  BY SMT DEF Init, TypeOK, FlushKnows
<1>2. Signals(1, 0) = {}
  BY SMT DEF Signals
<1>3. SettledUpTo(0)
  BY <1>2, SMT DEF Init, SettledUpTo, Gaps
<1> QED BY <1>1, <1>3, SMT DEF IInv, Init

LEMMA CaptureKeeps == ASSUME IInv, NEW e \in Event, Capture(e) PROVE IInv'
<1> USE DEF IInv, Capture, flush
<1>1. /\ Len(log') = Len(log) + 1
      /\ \A k \in 1 .. Len(log) : log'[k] = log[k]
  BY SMT DEF TypeOK
<1>2. TypeOK'
  BY SMT DEF TypeOK
<1>3. ASSUME NEW j \in 0 .. Len(log) PROVE Signals(1, j)' = Signals(1, j)
  <2>1. \A k \in 1 .. j : log'[k] = log[k]
    BY <1>1, SMT DEF TypeOK
  <2>2. {n \in 1 .. j : log'[n].human} = {n \in 1 .. j : log[n].human}
    BY <2>1
  <2> QED BY <2>1, <2>2 DEF Signals
<1>4. \A k \in 1 .. Len(log) : InPast(k)' = InPast(k)
  BY <1>1, SMT DEF InPast, TypeOK
<1>5. \A k \in 2 .. Len(log) : Break(k)' = Break(k)
  BY <1>1, SMT DEF Break, TypeOK
<1>6. ChunkEnd(from, until)' = ChunkEnd(from, until)
  <2> DEFINE breaks == {i \in from + ChunkEvents .. until : Break(i)}
             before(S) == IF S = {} THEN until
                          ELSE (CHOOSE i \in S : \A j \in S : i <= j) - 1
  <2>1. breaks' = breaks
    BY <1>5, IntervalSyncAssumption, SMT DEF TypeOK
  <2>2. ChunkEnd(from, until) = before(breaks)
    BY DEF ChunkEnd
  <2>3. ChunkEnd(from, until)' = before(breaks')
    BY DEF ChunkEnd
  <2> QED BY <2>1, <2>2, <2>3
<1>7. FlushKnows'
  BY <1>4, <1>5, <1>6, SMT DEF FlushKnows, TypeOK
<1>8. PICK p \in cursor .. Len(log) : SettledUpTo(p)
  BY DEF IInv
<1>9. SettledUpTo(p)'
  BY <1>3, <1>6, <1>8, SMT DEF SettledUpTo, TypeOK
<1> QED BY <1>1, <1>2, <1>7, <1>8, <1>9, SMT DEF TypeOK

LEMMA SnapshotKeeps == ASSUME Undisturbed, IInv, Snapshot PROVE IInv'
<1> USE DEF IInv, Snapshot
<1>1. TypeOK'
  BY SMT DEF TypeOK
<1>2. ChunkEnd(from, until)' = ChunkEnd(cursor + 1, Len(log))
  BY DEF ChunkEnd, Break
<1>3. FlushKnows'
  BY <1>2, SMT DEF FlushKnows, TypeOK, Undisturbed, InPast
<1>4. PICK p \in cursor .. Len(log) : SettledUpTo(p)
  BY DEF IInv
<1>5. SettledUpTo(p)'
  BY <1>4, SMT DEF SettledUpTo, TypeOK, Signals
<1> QED BY <1>1, <1>3, <1>4, <1>5

LEMMA FailKeeps == ASSUME IInv, Fail PROVE IInv'
<1> USE DEF IInv, Fail
<1>1. TypeOK' /\ FlushKnows'
  BY SMT DEF TypeOK, FlushKnows
<1>2. PICK p \in cursor .. Len(log) : SettledUpTo(p)
  BY DEF IInv
<1>3. SettledUpTo(p)' /\ p \in (cursor .. Len(log))'
  BY <1>2, SMT DEF SettledUpTo, Signals
<1> QED BY <1>1, <1>3

LEMMA ResyncKeeps == ASSUME IInv, NEW k \in 0 .. cursor, Resync(k) PROVE IInv'
<1> USE DEF IInv, Resync, flush
<1>1. TypeOK' /\ FlushKnows'
  BY SMT DEF TypeOK, FlushKnows
<1>2. PICK p \in cursor .. Len(log) : SettledUpTo(p)
  BY DEF IInv
<1>3. SettledUpTo(p)' /\ p \in (cursor .. Len(log))'
  BY <1>2, SMT DEF SettledUpTo, TypeOK, Signals
<1> QED BY <1>1, <1>3

LEMMA CloudResetKeeps == ASSUME IInv, CloudReset PROVE IInv'
<1> USE DEF IInv, CloudReset, flush
<1>1. TypeOK' /\ FlushKnows'
  BY SMT DEF TypeOK, FlushKnows
<1>2. Signals(1, 0)' = {}
  BY SMT DEF Signals
<1>3. SettledUpTo(0)'
  BY <1>2, SMT DEF SettledUpTo, Gaps
<1> QED BY <1>1, <1>3, SMT DEF TypeOK

\* The heart of it: the next chunk brings the cloud to the gaps of the events up
\* to its end, or leaves it where it is when it was beyond.
LEMMA PostKeeps ==
  ASSUME IInv, Post
  PROVE  /\ IInv'
         /\ \E p, q \in 0 .. Len(log) :
              /\ p <= q
              /\ billed = Gaps(Signals(1, p)) /\ billed' = Gaps(Signals(1, q))
<1> USE IntervalSyncAssumption
<1> DEFINE e == ChunkEnd(from, until)
           B == Signals(1, from - 1)
           W == Signals(from, e)
           Sd == IF from = base + 1 THEN Seed ELSE {}
<1>1. /\ TypeOK /\ step = "post"
      /\ base <= cursor /\ cursor = from - 1 /\ from <= until
      /\ from \in 1 .. Len(log) /\ until \in 1 .. Len(log)
      /\ base \in 0 .. Len(log) /\ Len(log) \in Nat
  BY SMT DEF IInv, FlushKnows, Post, TypeOK
<1>2. /\ from = base + 1 /\ e = until
      \/ /\ \A k \in base + 1 .. until : ~InPast(k)
         /\ from = base + 1 \/ Break(from)
  BY <1>1 DEF IInv, FlushKnows
<1>3. e \in from .. until
  BY <1>1, ChunkEndRange, SMT
<1>4. PICK p \in cursor .. Len(log) : SettledUpTo(p)
  BY DEF IInv
<1>5. p <= until /\ billed = Gaps(Signals(1, p))
  BY <1>1, <1>4 DEF SettledUpTo
<1>6. \A k \in 1 .. Len(log) : log[k] \in Event /\ log[k].at \in Nat
  <2>1. \A k \in 1 .. Len(log) : log[k] \in Event
    BY <1>1, SMT DEF TypeOK
  <2>2. \A x \in Event : x.at \in Nat
    BY SMT DEF Event, Time
  <2> QED BY <2>1, <2>2
<1>7. B \in SUBSET Nat /\ W \in SUBSET Nat
  BY <1>1, <1>3, SignalsAreTimes, SMT
<1>8. Signals(1, e) = B \cup W
  <2>1. (from - 1) + 1 = from
    BY <1>1, SMT
  <2>2. /\ 1 \in Nat /\ from - 1 \in Nat /\ e \in Nat
        /\ 1 <= (from - 1) + 1 /\ from - 1 <= e
    BY <1>1, <1>3, SMT
  <2>3. Signals(1, e) = Signals(1, from - 1) \cup Signals((from - 1) + 1, e)
    BY <2>2, SignalsSplit
  <2> QED BY <2>1, <2>3
<1> HIDE DEF e
<1>9. Sd \in SUBSET B /\ Anchored(B, W, Sd)
  <2>1. CASE from = base + 1
    <3>1. Signals(1, base) = B /\ W \subseteq Signals(base + 1, until)
      BY <1>1, <1>3, <2>1, SMT DEF Signals
    <3> QED BY <2>1, <3>1 DEF Seed, Anchored
  <2>2. CASE from # base + 1
    <3>1. from - 1 \in base + 1 .. until
      BY <1>1, <2>2, SMT
    <3>2. log[from].at > log[from - 1].at + Idle
      BY <1>2, <2>2 DEF Break
    <3>3. \A k \in base + 1 .. until : ~InPast(k)
      BY <1>2, <2>2
    <3>4. \A k \in 1 .. from - 1 : log[k].at <= log[from - 1].at
      BY <1>1, <1>6, <3>1, <3>3, SMT DEF InPast
    <3>5. \A k \in from .. until : log[from].at <= log[k].at
      BY <1>1, <1>6, <3>1, <3>3, SMT DEF InPast
    <3>6. \A k \in 1 .. from - 1, m \in from .. e : ~(log[m].at <= log[k].at + Idle)
      <4> TAKE k \in 1 .. from - 1, m \in from .. e
      <4>1. log[k].at <= log[from - 1].at /\ log[from].at <= log[m].at
        <5>1. m \in from .. until
          BY <1>1, <1>3, SMT
        <5> QED BY <3>4, <3>5, <5>1
      <4>2. /\ log[k].at \in Nat /\ log[m].at \in Nat
            /\ log[from].at \in Nat /\ log[from - 1].at \in Nat
        BY <1>1, <1>3, <1>6, <2>2, SMT
      <4>3. ASSUME NEW a \in Nat, NEW b \in Nat, NEW c \in Nat, NEW d \in Nat,
                   a <= b, c <= d, c > b + Idle
            PROVE  ~(d <= a + Idle)
        BY <4>3, SMT
      <4> QED BY <3>2, <4>1, <4>2, <4>3
    <3>7. Anchored(B, W, {})
      BY <3>6 DEF Anchored, Signals
    <3> QED BY <2>2, <3>7
  <2> QED BY <2>1, <2>2
<1>10. billed' = Settle(Intervals(Sd, W))
  BY DEF Post, Chunk, e
<1>11. TypeOK'
  <2>1. Intervals(Sd, W) \subseteq Time \X Time
    <3>1. Signals(1, e) \subseteq Time
      BY <1>1, <1>3, <1>6, SMT DEF Signals, Event
    <3>2. Intervals(Sd, W) \subseteq Gaps(Signals(1, e))
      BY <1>7, <1>8, <1>9, ChunkIsGaps
    <3> QED BY <3>1, <3>2 DEF Gaps
  <2>2. billed' \subseteq Time \X Time
    BY <1>1, <1>10, <2>1 DEF Settle, TypeOK
  <2> QED BY <1>1, <2>2, SMT DEF TypeOK, Post
<1>12. ChunkEnd(from, until)' = e
  BY DEF ChunkEnd, Break, Post, e
<1>13. FlushKnows'
  BY <1>1, <1>2, <1>12, SMT DEF FlushKnows, Post, Break, InPast
<1>14. \E q \in cursor .. Len(log) :
         /\ p <= q /\ q <= until /\ e <= q
         /\ billed' = Gaps(Signals(1, q))
  <2>1. CASE p <= e
    <3>1. B \subseteq Signals(1, p) /\ Signals(1, p) \subseteq B \cup W
      <4>1. B \subseteq Signals(1, p) /\ Signals(1, p) \subseteq Signals(1, e)
        BY <1>1, <1>3, <1>4, <2>1, SMT DEF Signals
      <4> QED BY <1>8, <4>1
    <3>2. billed' = Gaps(Signals(1, e))
      BY <1>5, <1>7, <1>8, <1>9, <1>10, <3>1, WindowSettles
    <3>3. e \in cursor .. Len(log)
      BY <1>1, <1>3, SMT
    <3> QED BY <1>1, <1>3, <2>1, <3>2, <3>3, SMT
  <2>2. CASE p > e
    <3>1. e # until
      BY <1>3, <1>4, <1>5, <2>2, SMT
    <3>2. \A k \in base + 1 .. until : ~InPast(k)
      BY <1>2, <3>1
    <3>3. Signals(1, p) = (B \cup W) \cup Signals(e + 1, p)
      <4>1. /\ 1 \in Nat /\ e \in Nat /\ p \in Nat /\ 1 <= e + 1 /\ e <= p
        BY <1>1, <1>3, <1>4, <2>2, SMT
      <4>2. Signals(1, p) = Signals(1, e) \cup Signals(e + 1, p)
        BY <4>1, SignalsSplit
      <4> QED BY <1>8, <4>2
    <3>4. \A k \in e + 1 .. p, m \in 1 .. e : log[m].at <= log[k].at
      <4> TAKE k \in e + 1 .. p, m \in 1 .. e
      <4>1. k \in base + 1 .. until /\ m \in 1 .. k - 1 /\ k \in 1 .. Len(log)
            /\ m \in 1 .. Len(log)
        BY <1>1, <1>3, <1>4, <1>5, SMT
      <4> QED BY <1>6, <3>2, <4>1, SMT DEF InPast
    <3>5. \A c \in Signals(e + 1, p), t \in B \cup W : t <= c
      <4>1. \A c \in Signals(e + 1, p), t \in Signals(1, e) : t <= c
        BY <3>4 DEF Signals
      <4> QED BY <4>1, <1>8
    <3>6. Signals(1, p) \in SUBSET Nat
      BY <1>1, <1>4, SignalsAreTimes, SMT
    <3>7. billed' = billed
      BY <1>5, <1>7, <1>9, <1>10, <3>3, <3>5, <3>6, ResendSettles
    <3>8. e <= p /\ p <= p
      BY <1>1, <1>3, <2>2, SMT
    <3> QED BY <1>4, <1>5, <3>7, <3>8
  <2> QED BY <1>1, <1>3, <1>4, <2>1, <2>2, SMT
<1>15. PICK q \in cursor .. Len(log) :
         /\ p <= q /\ q <= until /\ e <= q
         /\ billed' = Gaps(Signals(1, q))
  BY <1>14
<1>16. SettledUpTo(q)' /\ q \in (cursor .. Len(log))'
  BY <1>12, <1>15, SMT DEF SettledUpTo, Post, Signals
<1>17. IInv'
  BY <1>11, <1>13, <1>16 DEF IInv
<1>18. p \in 0 .. Len(log) /\ q \in 0 .. Len(log)
  BY <1>1, <1>4, <1>15, SMT
<1> QED BY <1>5, <1>15, <1>17, <1>18

LEMMA AckedKeeps == ASSUME IInv, Acked PROVE IInv'
<1> DEFINE e == ChunkEnd(from, until)
<1>1. /\ TypeOK /\ step = "acked"
      /\ base <= cursor /\ cursor = from - 1 /\ from <= until
      /\ from \in 1 .. Len(log) /\ until \in 1 .. Len(log)
      /\ base \in 0 .. Len(log) /\ Len(log) \in Nat
  BY SMT DEF IInv, FlushKnows, Acked, TypeOK
<1>2. /\ from = base + 1 /\ e = until
      \/ \A k \in base + 1 .. until : ~InPast(k)
  BY <1>1 DEF IInv, FlushKnows
<1>3. e \in from .. until /\ (e # until => Break(e + 1))
  BY <1>1, ChunkEndRange, SMT
<1> HIDE DEF e
<1>4. PICK p \in cursor .. Len(log) : SettledUpTo(p)
  BY DEF IInv
<1>5. e <= p /\ p <= until
  BY <1>1, <1>4 DEF SettledUpTo, e
<1>6. /\ cursor' = e /\ UNCHANGED <<log, base, until, billed>>
      /\ IF e = until THEN step' = "idle" /\ UNCHANGED from
         ELSE step' = "post" /\ from' = e + 1
  BY DEF Acked, NewCursor, e
<1>7. TypeOK'
  BY <1>1, <1>3, <1>6, SMT DEF TypeOK
<1>8. FlushKnows'
  BY <1>1, <1>2, <1>3, <1>6, SMT DEF FlushKnows, Break, InPast
<1>9. SettledUpTo(p)' /\ p \in (cursor .. Len(log))'
  BY <1>1, <1>3, <1>4, <1>5, <1>6, SMT DEF SettledUpTo, Signals
<1> QED BY <1>7, <1>8, <1>9 DEF IInv

LEMMA IInvStep == Undisturbed /\ IInv /\ [Next]_vars => IInv'
<1> SUFFICES ASSUME Undisturbed, IInv, [Next]_vars PROVE IInv'
  OBVIOUS
<1>1. ASSUME NEW e \in Event, Capture(e) PROVE IInv'
  BY <1>1, CaptureKeeps
<1>2. CASE Snapshot
  BY <1>2, SnapshotKeeps
<1>3. CASE Post
  BY <1>3, PostKeeps
<1>4. CASE Acked
  BY <1>4, AckedKeeps
<1>5. CASE Fail
  BY <1>5, FailKeeps
<1>6. ASSUME NEW k \in 0 .. cursor, Resync(k) PROVE IInv'
  BY <1>6, ResyncKeeps
<1>7. CASE CloudReset
  BY <1>7, CloudResetKeeps
<1>8. CASE UNCHANGED vars
  BY <1>8 DEF vars, flush, IInv, TypeOK, FlushKnows, SettledUpTo, ChunkEnd,
              Break, InPast, Signals
<1> QED BY <1>1, <1>2, <1>3, <1>4, <1>5, <1>6, <1>7, <1>8 DEF Next

LEMMA IInvHolds == ASSUME Undisturbed PROVE Spec => []IInv
<1>1. Init => IInv
  BY IInvInit
<1>2. IInv /\ [Next]_vars => IInv'
  BY IInvStep
<1> QED BY <1>1, <1>2, PTL DEF Spec

-----------------------------------------------------------------------------
(* The theorems. *)

\* The state of a flush stays within the log (chunk_ranges, the cursor's
\* advance), and the cloud is only given times the log may hold.
THEOREM TypeCorrect == ASSUME Undisturbed PROVE Spec => []TypeOK
<1>1. IInv => TypeOK
  BY DEF IInv
<1> QED BY <1>1, IInvHolds, PTL

\* However the log was windowed and chunked, resent or rewound, once it is
\* drained the cloud bills exactly what `dira report` counts (build_intervals_seeded
\* against counted_gaps), unless a window that held a backdated event was cut.
THEOREM BilledIsReported ==
  ASSUME Undisturbed PROVE Spec => []BilledAsReported
<1>1. IInv => BilledAsReported
  <2> SUFFICES ASSUME IInv, step = "idle", cursor = Len(log)
               PROVE  billed = Gaps(Signals(1, Len(log)))
    BY DEF BilledAsReported
  <2>1. PICK p \in cursor .. Len(log) : SettledUpTo(p)
    BY DEF IInv
  <2>2. p = Len(log)
    BY <2>1, SMT DEF IInv, TypeOK
  <2> QED BY <2>1, <2>2 DEF SettledUpTo
<1> QED BY <1>1, IInvHolds, PTL

\* No minute of human time at or before the cursor is missing at the cloud: what
\* the cursor passes was sent whole, and a later backdated signal loses nothing.
THEOREM EveryMinuteIsSent ==
  ASSUME Undisturbed PROVE Spec => []EveryMinuteSent
<1>1. IInv => EveryMinuteSent
  <2> SUFFICES ASSUME IInv PROVE EveryMinuteSent
    OBVIOUS
  <2>1. PICK p \in cursor .. Len(log) : SettledUpTo(p)
    BY DEF IInv
  <2>2. TypeOK /\ p \in 0 .. Len(log)
    BY <2>1, SMT DEF IInv, TypeOK
  <2>3. Signals(1, cursor) \subseteq Signals(1, p)
    BY <2>1, <2>2, SMT DEF Signals, TypeOK
  <2>4. Signals(1, p) \subseteq Nat
    BY <2>2, SignalsAreTimes, SMT
  <2> QED BY <2>1, <2>3, <2>4, MinutesGrow DEF EveryMinuteSent, SettledUpTo
<1> QED BY <1>1, IInvHolds, PTL

\* A chunk makes the cloud give up an interval only when a signal has since split
\* the gap it stood for: re-sending a window, or sending it in other chunks,
\* leaves every settled interval that is still a gap in place.
THEOREM OnlySplitGapsAreRebuilt ==
  ASSUME Undisturbed PROVE Spec => RebuildsOnlySplitGaps
<1>1. ASSUME IInv, Post
      PROVE  (billed \ billed') \cap Gaps(Signals(1, Len(log))) = {}
  <2>1. PICK p, q \in 0 .. Len(log) :
          /\ p <= q
          /\ billed = Gaps(Signals(1, p)) /\ billed' = Gaps(Signals(1, q))
    BY <1>1, PostKeeps
  <2>2. TypeOK /\ Len(log) \in 0 .. Len(log)
    BY <1>1, SMT DEF IInv, TypeOK
  <2>3. /\ Signals(1, p) \subseteq Signals(1, q)
        /\ Signals(1, q) \subseteq Signals(1, Len(log))
    BY <2>1, <2>2, SMT DEF Signals
  <2>4. Signals(1, Len(log)) \subseteq Nat
    BY <2>2, SignalsAreTimes, SMT
  <2>5. ASSUME NEW g \in Gaps(Signals(1, p)),
               g \in Gaps(Signals(1, Len(log)))
        PROVE  g \in Gaps(Signals(1, q))
    BY <2>3, <2>4, <2>5, GapPair
  <2> QED BY <2>1, <2>5
<1>2. IInv /\ [Next]_vars => [Post => (billed \ billed')
                                 \cap Gaps(Signals(1, Len(log))) = {}]_vars
  BY <1>1
<1> QED BY <1>2, IInvHolds, PTL DEF Spec, RebuildsOnlySplitGaps
=============================================================================
