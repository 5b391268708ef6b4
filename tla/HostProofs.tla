------------------------------ MODULE HostProofs -------------------------------
(***************************************************************************)
(* The tasks and commands around the store.  The flush loop, for any       *)
(* backoff ladder, any Retry-After and any set of ended sessions: a nudge  *)
(* waits until a snapshot takes it, and the lineage marker says that the   *)
(* cloud holds every corrected rollup.  The heartbeat, for any cadences,   *)
(* times-to-live, hints and clamps: a running device is shown all the      *)
(* time, and a change is told in time.  The daemon's life, for any number  *)
(* of processes and commands: one daemon at most has the database open,    *)
(* and, while commands take turns, one that serves can be reached.  Its    *)
(* update, for any versions and killed at any step: both binaries are      *)
(* replaced or neither, the daemon that runs is the one installed, and the *)
(* notice counts the attempts that failed.                                 *)
(***************************************************************************)
EXTENDS MCHost, FiniteSetTheorems, WellFoundedInduction, TLAPS

--------------------------------------------------------------------------------
(* The flush loop *)

\* What a re-send pass counts as sent the cloud has stored: an answer comes only
\* to what was.
SentIsFixed == sent \subseteq fixed

IInv == NudgeNotLost /\ LineageMarkerHonest /\ SentIsFixed /\ fixed \subseteq Old

--------------------------------------------------------------------------------
LEMMA InitHolds == Init => IInv
BY DEF Init, IInv, NudgeNotLost, LineageMarkerHonest, SentIsFixed

LEMMA LineageKeeps == IInv /\ Lineage => IInv'
<1> SUFFICES ASSUME IInv, Lineage PROVE IInv'
  OBVIOUS
<1> USE DEF IInv, NudgeNotLost, LineageMarkerHonest, SentIsFixed
<1>1. CASE LineageDone
  BY <1>1 DEF LineageDone, Move
<1>4. CASE LineageSkip
  BY <1>4 DEF LineageSkip, Resending, Same
<1>2. CASE LineageMark
  <2>1. sent = Old /\ sent \subseteq fixed /\ fixed \subseteq Old
    BY <1>2 DEF LineageMark, MayMark, AllAnswered
  <2> QED BY <1>2, <2>1 DEF LineageMark, Resending
<1>3. ASSUME NEW s \in Old, NEW stored \in BOOLEAN, NEW answered \in BOOLEAN,
             LineageChunk(s, stored, answered)
      PROVE IInv'
  <2>1. ~marker /\ marker' = marker /\ fixed' \subseteq Old
    BY <1>3 DEF LineageChunk, Resending
  <2>2. CASE answered
    BY <1>3, <2>1, <2>2 DEF LineageChunk, Resending
  <2>3. CASE ~answered
    BY <1>3, <2>1, <2>3 DEF LineageChunk, Resending
  <2> QED BY <2>2, <2>3
<1> QED BY <1>1, <1>2, <1>3, <1>4 DEF Lineage

LEMMA OutcomeKeeps == IInv /\ Outcome => IInv'
<1> SUFFICES ASSUME IInv, Outcome PROVE IInv'
  OBVIOUS
<1> USE DEF IInv, NudgeNotLost, LineageMarkerHonest, SentIsFixed, Move
<1>1. CASE Healthy
  BY <1>1 DEF Healthy, Kept
<1>2. CASE Skip \/ Healed
  BY <1>2 DEF Skip, Healed
<1>3. ASSUME NEW e \in Bad, NEW ra \in RetryAfters, Fail(e, ra) PROVE IInv'
  BY <1>3 DEF Fail
<1> QED BY <1>1, <1>2, <1>3 DEF Outcome

LEMMA StepKeeps == IInv /\ [Next]_vars => IInv'
<1> SUFFICES ASSUME IInv, [Next]_vars PROVE IInv'
  OBVIOUS
<1> USE DEF IInv, NudgeNotLost, LineageMarkerHonest, SentIsFixed
<1>1. ASSUME NEW b \in BOOLEAN, Capture(b) PROVE IInv'
  BY <1>1 DEF Capture
<1>2. ASSUME NEW b \in BOOLEAN, Link(b) PROVE IInv'
  BY <1>2 DEF Link
<1>3. CASE Receive \/ Drain \/ NoKey \/ Snapshot \/ Wake
  BY <1>3 DEF Receive, Drain, NoKey, Snapshot, Wake, Move, Same
<1>4. CASE Backstop
  BY <1>4 DEF Backstop, Move, Same
<1>5. CASE Crash
  BY <1>5 DEF Crash
<1>6. CASE UNCHANGED vars
  BY <1>6 DEF vars
<1> QED BY <1>1, <1>2, <1>3, <1>4, <1>5, <1>6, OutcomeKeeps, LineageKeeps DEF Next, Step

\* A lifecycle event's nudge is in the channel or at the loop's hands until a
\* snapshot takes the event, whatever outcomes, sleeps and restarts lie between.
THEOREM NudgeIsKept == Spec => []NudgeNotLost
<1>1. IInv => NudgeNotLost
  BY DEF IInv
<1> QED BY <1>1, InitHolds, StepKeeps, PTL DEF Spec

\* The lineage marker is never set before the cloud holds every corrected rollup.
THEOREM MarkerIsHonest == Spec => []LineageMarkerHonest
<1>1. IInv => LineageMarkerHonest
  BY DEF IInv
<1> QED BY <1>1, InitHolds, StepKeeps, PTL DEF Spec

--------------------------------------------------------------------------------
(* Presence: the cloud never lets a running device lapse, and a change is  *)
(* told within the ordinary cadence.                                       *)

PresenceSpec == PresenceInit /\ [][PresenceNext]_presenceVars

\* Answers come within the headroom.
Prompt == "slow_post" \notin PresenceHazards
\* A wake finds the loop asleep, and no session comes back without one.
Woken == PresenceHazards \cap {"busy_wake", "silent_return"} = {}

Flags == [shape : Shapes, ttl : Nat, age : {0, 1}, deep : BOOLEAN, arrived : BOOLEAN,
          acks : BOOLEAN]
Intended(deep) == IF deep THEN DeepTtl ELSE Ttl

Ranges ==
  /\ shape \in Shapes /\ quiet \in Nat /\ sleep \in Nat /\ doze \in BOOLEAN
  /\ sentAge \in Nat /\ acked \in Nat /\ hint \in Nat
  /\ left \in Int /\ owed \in Nat \cup {-1} /\ failedPosts \in BOOLEAN
  /\ post \in Flags \cup {NoPost}

\* A request under way: what it asked for, and what the cloud has left of it.
Sending ==
  post # NoPost =>
    /\ 1 < post.ttl /\ post.ttl <= Intended(post.deep)
    /\ post.acks \/ post.ttl = Intended(post.deep)
    /\ sleep = 0 /\ doze = post.deep
    /\ IF post.arrived THEN left >= post.ttl - post.age ELSE failedPosts

\* The cloud outlasts the sleep, and it has as much left as the next skip reckons
\* with; LastTtl is what the last answered beat asked for, or less.
LastTtl == IF acked > 0 THEN acked ELSE Ttl
Resting ==
  post = NoPost /\ ~failedPosts =>
    left >= sleep /\ (sentAge < DeepTtl => left >= LastTtl - 1 - sentAge)

Pause == Larger(IdleCadence + Spread(IdleCadence),
                Ceiling(IF failedPosts THEN Larger(Ttl, acked) ELSE Ttl))
\* Nothing is owed that is older than the request under way, or the sleep.
Telling ==
  IF post = NoPost
  THEN (~doze => sleep <= Pause) /\ (owed # -1 => owed + sleep <= Pause + 1)
  ELSE owed <= post.age /\ (post.deep => owed = -1)

PresenceInv == Ranges /\ Sending /\ Resting /\ (Woken => Telling)

--------------------------------------------------------------------------------
LEMMA CeilingBounds ==
  ASSUME NEW t \in Nat, 1 < t PROVE Ceiling(t) \in Nat \ {0} /\ Ceiling(t) <= t - 1
BY DEF Ceiling, Larger, Headroom

LEMMA CeilingIsMonotonic ==
  ASSUME NEW s \in Nat, NEW t \in Nat, s <= t PROVE Ceiling(s) <= Ceiling(t)
BY DEF Ceiling, Larger, Headroom

LEMMA CeilingPositive ==
  ASSUME NEW t \in Nat PROVE Ceiling(t) \in Nat \ {0} /\ t - 1 <= Ceiling(t)
BY DEF Ceiling, Larger, Headroom

LEMMA SpreadIsNat == ASSUME NEW d \in Nat PROVE Spread(d) \in Nat
BY DEF Spread

LEMMA EffectiveIsNat ==
  ASSUME NEW deep \in BOOLEAN, NEW ak \in Nat PROVE EffectiveTtl(deep, ak) \in Nat
BY PresenceConfig DEF EffectiveTtl, Smaller

LEMMA BaseIsNat ==
  ASSUME NEW deep \in BOOLEAN, NEW busy \in BOOLEAN, NEW noop \in BOOLEAN,
         NEW ak \in Nat, NEW h \in Nat
  PROVE  CadenceBase(deep, busy, noop, ak, h) \in Nat
<1>1. Ceiling(EffectiveTtl(deep, ak)) \in Nat
  BY EffectiveIsNat, CeilingPositive
<1>2. ActiveCadence \in Nat /\ IdleCadence \in Nat
  BY PresenceConfig
<1> QED BY <1>1, <1>2 DEF CadenceBase

\* No sleep reaches the time-to-live, nor exceeds the band with its jitter.
LEMMA CadenceIsBounded ==
  ASSUME NEW deep \in BOOLEAN, NEW busy \in BOOLEAN, NEW noop \in BOOLEAN,
         NEW ak \in Nat, NEW h \in Nat,
         NEW next \in Cadences(deep, busy, noop, ak, h)
  PROVE  LET base == CadenceBase(deep, busy, noop, ak, h) IN
         /\ next \in Nat \ {0} /\ next <= Ceiling(EffectiveTtl(deep, ak))
         /\ next <= Larger(1, Smaller(base + Spread(base), Ceiling(EffectiveTtl(deep, ak))))
<1> DEFINE base == CadenceBase(deep, busy, noop, ak, h)
           top  == Ceiling(EffectiveTtl(deep, ak))
<1>1. base \in Nat /\ top \in Nat \ {0}
  BY EffectiveIsNat, CeilingPositive, BaseIsNat
<1>2. Spread(base) \in Nat
  BY <1>1, SpreadIsNat
<1>3. PICK d \in base - Spread(base) .. base + Spread(base) :
        next = Larger(1, Smaller(d, top))
  BY DEF Cadences
<1> HIDE DEF base, top
<1>4. next \in Nat \ {0} /\ next <= top /\ next <= Larger(1, Smaller(base + Spread(base), top))
  BY <1>1, <1>2, <1>3 DEF Larger, Smaller
<1> QED BY <1>4 DEF base, top

--------------------------------------------------------------------------------
LEMMA PresenceInitHolds == PresenceInit => PresenceInv
<1> SUFFICES ASSUME PresenceInit PROVE PresenceInv
  OBVIOUS
<1>1. Spread(IdleCadence) \in Nat /\ IdleCadence \in Nat /\ Ttl \in Nat
  BY PresenceConfig, SpreadIsNat
<1>2. Ranges /\ post = NoPost /\ failedPosts
  <2>1. /\ shape \in Shapes /\ quiet \in Nat /\ sleep \in Nat /\ sentAge \in Nat
        /\ acked \in Nat /\ hint \in Nat /\ left \in Int /\ owed \in Nat \cup {-1}
    BY DEF PresenceInit, Shapes
  <2> QED BY <2>1 DEF PresenceInit, Ranges
<1>3. Larger(Ttl, 0) = Ttl /\ Ceiling(Ttl) \in Nat
  BY <1>1, CeilingPositive DEF Larger
<1>4. Telling
  BY <1>1, <1>3 DEF PresenceInit, Telling, Pause, Larger
<1> QED BY <1>2, <1>4 DEF PresenceInv, Sending, Resting

LEMMA PauseIsNat == ASSUME PresenceInv PROVE Pause \in Nat
<1>1. Spread(IdleCadence) \in Nat /\ IdleCadence \in Nat /\ Ttl \in Nat
  BY PresenceConfig, SpreadIsNat
<1>2. acked \in Nat
  BY DEF PresenceInv, Ranges
<1>3. Ceiling(IF failedPosts THEN Larger(Ttl, acked) ELSE Ttl) \in Nat
  BY <1>1, <1>2, CeilingPositive DEF Larger
<1> QED BY <1>1, <1>3 DEF Pause, Larger

LEMMA TickKeeps == ASSUME Prompt, PresenceInv, Tick PROVE PresenceInv'
<1> USE DEF PresenceInv
<1>0. DeepTtl \in Nat /\ DeepAfter \in Nat
  BY PresenceConfig
<1>1. Pause \in Nat /\ Pause' = Pause
  BY PauseIsNat DEF Tick, Pause
<1>2. CASE post = NoPost
  <2>1. /\ sleep > 0 /\ sleep' = sleep - 1 /\ left' = Larger(left - 1, -1) /\ post' = NoPost
        /\ owed' = IF owed = -1 THEN -1 ELSE Smaller(owed + 1, DeepTtl)
        /\ sentAge' = Smaller(sentAge + 1, DeepTtl) /\ quiet' = Smaller(quiet + 1, DeepAfter)
        /\ UNCHANGED <<shape, doze, acked, hint, failedPosts>>
    BY <1>2 DEF Tick, Due, Older, Horizon, Ranges
  <2>2. Ranges'
    BY <1>0, <1>2, <2>1 DEF Ranges, Larger, Smaller
  <2>3. Resting'
    <3>1. ASSUME ~failedPosts PROVE left >= sleep /\ left' = left - 1
      BY <1>2, <2>1, <3>1 DEF Ranges, Resting, Larger
    <3>2. sentAge' < DeepTtl => sentAge' = sentAge + 1 /\ sentAge < DeepTtl
      BY <1>0, <2>1 DEF Ranges, Smaller
    <3>3. LastTtl' = LastTtl /\ LastTtl \in Nat
      BY <2>1, PresenceConfig DEF LastTtl, Ranges
    <3> QED BY <1>2, <2>1, <3>1, <3>2, <3>3 DEF Ranges, Resting
  <2>4. Woken => Telling'
    BY <1>0, <1>1, <1>2, <2>1 DEF Ranges, Telling, Smaller
  <2> QED BY <2>1, <2>2, <2>3, <2>4 DEF Sending
<1>3. CASE post # NoPost
  <2>1. /\ post.age < 1 /\ sleep' = 0 /\ left' = Larger(left - 1, -1)
        /\ post' = [post EXCEPT !.age = @ + 1]
        /\ owed' = IF owed = -1 THEN -1 ELSE Smaller(owed + 1, DeepTtl)
        /\ sentAge' = Smaller(sentAge + 1, DeepTtl) /\ quiet' = Smaller(quiet + 1, DeepAfter)
        /\ UNCHANGED <<shape, doze, acked, hint, failedPosts>>
    BY <1>3 DEF Tick, Older, Horizon, Prompt, Latency, Headroom
  <2>2. post \in Flags /\ post.age = 0
    BY <1>3, <2>1 DEF Ranges, Flags
  <2>3. /\ post' \in Flags /\ post'.age = 1 /\ post'.ttl = post.ttl /\ post'.deep = post.deep
        /\ post'.acks = post.acks /\ post'.arrived = post.arrived /\ post' # NoPost
    BY <2>1, <2>2 DEF Flags, NoPost, Shapes
  <2>4. Ranges'
    BY <1>0, <2>1, <2>3 DEF Ranges, Larger, Smaller
  <2>5. Sending'
    BY <1>0, <1>3, <2>1, <2>2, <2>3 DEF Ranges, Flags, Sending, Larger, Intended
  <2>6. Woken => Telling'
    BY <1>3, <2>1, <2>2, <2>3, <1>0 DEF Ranges, Telling, Smaller
  <2> QED BY <2>3, <2>4, <2>5, <2>6 DEF Resting
<1> QED BY <1>2, <1>3

LEMMA EventKeeps ==
  ASSUME PresenceInv, NEW v \in Shapes, NEW lifecycle \in BOOLEAN, Event(v, lifecycle)
  PROVE  PresenceInv'
<1> USE DEF PresenceInv
<1>1. Pause \in Nat /\ Pause' = Pause
  BY PauseIsNat DEF Event, Pause
<1>2. /\ shape' = v /\ quiet' = 0 /\ sleep' = IF lifecycle THEN 0 ELSE sleep
      /\ Woken => (lifecycle => post = NoPost) /\ (v # shape /\ doze => lifecycle)
      /\ owed' = IF owed = -1 /\ (lifecycle \/ v # shape) THEN 0 ELSE owed
      /\ UNCHANGED <<doze, post, sentShape, sentAge, acked, hint, left, failedPosts>>
  BY DEF Event, Woken, SleepAfter
<1>3. Ranges'
  BY <1>2 DEF Ranges
<1>4. Sending'
  BY <1>2 DEF Ranges, Flags, Sending, Intended
<1>5. Resting'
  BY <1>2 DEF Ranges, Resting, LastTtl
<1>6. Woken => Telling'
  BY <1>1, <1>2 DEF Ranges, Flags, Sending, Telling
<1> QED BY <1>3, <1>4, <1>5, <1>6

LEMMA StaleKeeps == ASSUME PresenceInv, Stale PROVE PresenceInv'
BY DEF PresenceInv, Stale, Ranges, Shapes, Sending, Resting, Telling, Pause, LastTtl, Intended

\* A skip is safe only for as long as the cloud has the device.
LEMMA SkipKeeps ==
  ASSUME PresenceInv, NEW next \in Nat, SkipBeat(next) PROVE PresenceInv'
<1> USE DEF PresenceInv
<1>0. {Ttl, DeepTtl} \subseteq Nat /\ 1 < Ttl /\ Ttl <= DeepTtl
  BY PresenceConfig
<1> DEFINE base  == CadenceBase(DeepIdle, shape # 0, FALSE, acked, hint)
           top   == Ceiling(EffectiveTtl(DeepIdle, acked))
           bound == CadenceBound
<1>1. /\ post = NoPost /\ sleep = 0 /\ sleep' = next /\ doze' = DeepIdle /\ owed' = -1
      /\ next \in Cadences(DeepIdle, shape # 0, FALSE, acked, hint)
      /\ sentAge + bound + 3 < Window(Advertised)
      /\ UNCHANGED <<shape, quiet, post, sentAge, acked, hint, left, failedPosts>>
  BY DEF SkipBeat, Due, SafeToSkip, Margin
<1>2. acked \in Nat /\ hint \in Nat /\ sentAge \in Nat /\ left \in Int /\ DeepIdle \in BOOLEAN
  BY DEF Ranges, DeepIdle
<1>3. base \in Nat /\ Spread(base) \in Nat /\ top \in Nat \ {0}
  BY <1>2, BaseIsNat, SpreadIsNat, EffectiveIsNat, CeilingPositive
<1>4. next \in Nat \ {0} /\ next <= Larger(1, bound)
  BY <1>1, <1>2, CadenceIsBounded DEF CadenceBound
<1>5. bound = Smaller(base + Spread(base), top)
  BY DEF CadenceBound
<1>6. bound \in Nat /\ (DeepIdle => bound = top)
  <2>1. DeepIdle => base = top
    BY DEF CadenceBase
  <2> HIDE DEF base, top, bound
  <2> QED BY <1>3, <1>5, <2>1 DEF Smaller
<1>7. Window(Advertised) <= DeepTtl /\ (acked > 0 => Window(Advertised) <= acked)
      /\ (~DeepIdle => Window(Advertised) <= Ttl)
  BY <1>0, <1>2 DEF Window, Advertised, Smaller
<1>8. ~(DeepIdle /\ acked = 0)
  <2>1. DeepIdle /\ acked = 0 => top = Ceiling(DeepTtl) /\ Window(Advertised) = DeepTtl
    BY <1>2 DEF EffectiveTtl, Window, Advertised
  <2>2. DeepTtl - 1 <= Ceiling(DeepTtl) /\ Ceiling(DeepTtl) \in Nat
    BY <1>0, CeilingPositive
  <2> HIDE DEF top, bound
  <2> QED BY <1>0, <1>1, <1>2, <1>6, <2>1, <2>2
<1>9. sentAge < DeepTtl /\ (~failedPosts => left >= next) /\ Window(Advertised) <= LastTtl
  <2>1. Window(Advertised) \in Int /\ Window(Advertised) <= LastTtl
    BY <1>0, <1>2, <1>7, <1>8 DEF LastTtl, Window, Advertised, Smaller
  <2> HIDE DEF bound
  <2> QED BY <1>0, <1>1, <1>2, <1>4, <1>6, <1>7, <2>1 DEF Resting, LastTtl, Larger
<1>10. Ranges' /\ Sending' /\ Resting'
  BY <1>1, <1>4, <1>9, <1>2 DEF Ranges, Sending, Resting, LastTtl
<1>11. Telling'
  <2>1. Pause' = Pause /\ Pause \in Nat /\ Ttl - 1 <= Ceiling(Ttl) /\ Ceiling(Ttl) \in Nat
    BY <1>0, <1>1, PauseIsNat, CeilingPositive DEF Pause
  <2>2. Ceiling(Ttl) <= Pause
    <3>1. Ceiling(Ttl) <= Ceiling(IF failedPosts THEN Larger(Ttl, acked) ELSE Ttl)
      BY <1>0, <1>2, CeilingIsMonotonic DEF Larger
    <3>2. Ceiling(IF failedPosts THEN Larger(Ttl, acked) ELSE Ttl) \in Nat
      BY <1>0, <1>2, CeilingPositive DEF Larger
    <3>3. IdleCadence + Spread(IdleCadence) \in Nat
      BY PresenceConfig, SpreadIsNat
    <3> QED BY <2>1, <3>1, <3>2, <3>3 DEF Pause, Larger
  <2>3. ~DeepIdle => next <= Larger(1, Ttl - 4)
    <3>1. Window(Advertised) \in Int
      BY <1>0, <1>2 DEF Window, Advertised, Smaller
    <3> HIDE DEF bound
    <3> QED BY <1>0, <1>1, <1>2, <1>4, <1>6, <1>7, <3>1 DEF Larger
  <2>4. ~DeepIdle => next <= Pause
    BY <1>0, <1>4, <2>1, <2>2, <2>3 DEF Larger
  <2> QED BY <1>1, <2>1, <2>4 DEF Telling
<1> QED BY <1>10, <1>11

LEMMA PostKeeps ==
  ASSUME PresenceInv, NEW arrives \in BOOLEAN, NEW cap \in CloudCaps, Post(arrives, cap)
  PROVE  PresenceInv'
<1> USE DEF PresenceInv
<1>0. {Ttl, DeepTtl} \subseteq Nat /\ 1 < Ttl /\ Ttl <= DeepTtl /\ cap \in Nat \ {1}
  BY PresenceConfig
<1> DEFINE ttl == IF cap = 0 THEN Advertised ELSE Smaller(Advertised, cap)
<1>1. ttl \in Nat /\ 1 < ttl /\ ttl <= Intended(DeepIdle)
      /\ (cap # 0 \/ ttl = Intended(DeepIdle))
  BY <1>0 DEF Advertised, Intended, Smaller
<1>2. /\ post' = [shape |-> shape, age |-> 0, deep |-> DeepIdle, arrived |-> arrives,
                  ttl |-> ttl, acks |-> cap # 0]
      /\ left' = (IF arrives THEN ttl ELSE left)
      /\ failedPosts' = (failedPosts \/ ~arrives) /\ doze' = DeepIdle /\ owed' = -1
      /\ sleep = 0 /\ UNCHANGED <<shape, quiet, sleep, sentAge, acked, hint>>
  BY DEF Post, Due
<1> HIDE DEF ttl
<1>3. post' \in Flags /\ post' # NoPost
  BY <1>1, <1>2 DEF Ranges, Flags, DeepIdle, NoPost, Shapes
<1>4. Ranges'
  BY <1>1, <1>2, <1>3 DEF Ranges, DeepIdle
<1>5. Sending'
  <2>1. post'.ttl = ttl /\ post'.deep = DeepIdle /\ post'.age = 0 /\ post'.arrived = arrives
    BY <1>2
  <2>2. post'.acks <=> cap # 0
    BY <1>2
  <2>3. post'.acks \/ post'.ttl = Intended(post'.deep)
    BY <1>1, <2>1, <2>2
  <2>4. IF post'.arrived THEN left' >= post'.ttl - post'.age ELSE failedPosts'
    <3>1. CASE arrives
      BY <1>1, <1>2, <2>1, <3>1
    <3>2. CASE ~arrives
      BY <1>2, <2>1, <3>2
    <3> QED BY <3>1, <3>2
  <2>5. doze' = post'.deep /\ sleep' = 0 /\ 1 < post'.ttl /\ post'.ttl <= Intended(post'.deep)
    BY <1>1, <1>2, <2>1
  <2> QED BY <2>3, <2>4, <2>5 DEF Sending, Intended
<1>6. Telling'
  BY <1>2, <1>3 DEF Telling
<1> QED BY <1>3, <1>4, <1>5, <1>6 DEF Resting

LEMMA IntendedIsEffective ==
  ASSUME PresenceInv, post # NoPost
  PROVE  EffectiveTtl(post.deep, IF post.acks THEN post.ttl ELSE 0) = post.ttl
<1>0. {Ttl, DeepTtl} \subseteq Nat
  BY PresenceConfig
<1> QED BY <1>0 DEF PresenceInv, Ranges, Flags, Sending, EffectiveTtl, Intended, Smaller

LEMMA AnswerKeeps ==
  ASSUME PresenceInv, NEW h \in BeatHints, NEW next \in Nat, Answer(h, next)
  PROVE  PresenceInv'
<1> USE DEF PresenceInv
<1>0. {Ttl, DeepTtl} \subseteq Nat /\ 1 < Ttl /\ Ttl <= DeepTtl /\ h \in Nat
  BY PresenceConfig
<1> DEFINE ak == IF post.acks THEN post.ttl ELSE 0
<1>1. /\ post # NoPost /\ post.arrived
      /\ next \in Cadences(post.deep, post.shape # 0, FALSE, ak, h)
      /\ sentAge' = 0 /\ acked' = ak /\ hint' = h /\ failedPosts' = FALSE
      /\ post' = NoPost /\ sleep' = next /\ UNCHANGED <<shape, quiet, doze, left, owed>>
  BY DEF Answer
<1>2. post \in Flags /\ ak \in Nat
  BY <1>1 DEF Ranges, Flags
<1>3. next \in Nat \ {0} /\ next <= Ceiling(post.ttl)
  <2>1. EffectiveTtl(post.deep, ak) = post.ttl
    BY <1>1, IntendedIsEffective
  <2>2. post.deep \in BOOLEAN /\ (post.shape # 0) \in BOOLEAN
    BY <1>2 DEF Flags
  <2> QED BY <1>0, <1>1, <1>2, <2>1, <2>2, CadenceIsBounded
<1>4. post.ttl \in Nat /\ 1 < post.ttl /\ Ceiling(post.ttl) \in Nat
      /\ Ceiling(post.ttl) <= post.ttl - 1
  BY <1>1, <1>2, CeilingBounds DEF Sending, Flags
<1>5. Ranges'
  BY <1>0, <1>1, <1>2, <1>3 DEF Ranges
<1>6. left >= post.ttl - 1 /\ left \in Int
  BY <1>1, <1>2, <1>4 DEF Sending, Flags, Ranges
<1>7. Resting'
  <2>1. (IF ak > 0 THEN ak ELSE Ttl) <= post.ttl
    BY <1>0, <1>1, <1>2, <1>4 DEF Sending, Intended
  <2> QED BY <1>0, <1>1, <1>2, <1>3, <1>4, <1>6, <2>1 DEF Resting, LastTtl
<1>8. Woken => Telling'
  <2>1. ~post.deep => Ceiling(post.ttl) <= Ceiling(Ttl)
    BY <1>0, <1>1, <1>4, CeilingIsMonotonic DEF Sending, Intended
  <2>2. Ceiling(Ttl) \in Nat /\ IdleCadence + Spread(IdleCadence) \in Nat
    BY <1>0, PresenceConfig, CeilingPositive, SpreadIsNat
  <2>3. Ceiling(Ttl) <= Pause' /\ Pause' \in Nat
    BY <1>1, <2>2 DEF Pause, Larger
  <2>4. Woken => owed <= 1 /\ owed \in Int /\ (post.deep => owed = -1) /\ doze = post.deep
    BY <1>1, <1>2 DEF Sending, Telling, Flags, Ranges
  <2>5. ~post.deep => next <= Pause'
    BY <1>3, <1>4, <2>1, <2>2, <2>3
  <2> QED BY <1>1, <1>2, <1>3, <2>3, <2>4, <2>5 DEF Telling, Flags
<1> QED BY <1>1, <1>5, <1>7, <1>8 DEF Sending

LEMMA PostRefusedKeeps ==
  ASSUME PresenceInv, NEW h \in BeatHints, NEW next \in Nat, PostRefused(h, next)
  PROVE  PresenceInv'
<1> USE DEF PresenceInv
<1>0. {Ttl, DeepTtl} \subseteq Nat /\ 1 < Ttl /\ Ttl <= DeepTtl /\ h \in Nat
  BY PresenceConfig
<1>1. /\ post # NoPost /\ hint' = (IF h > 0 THEN h ELSE hint)
      /\ next \in Cadences(post.deep, post.shape # 0, TRUE, acked, hint')
      /\ failedPosts' = TRUE /\ post' = NoPost /\ sleep' = next
      /\ UNCHANGED <<shape, quiet, doze, sentShape, sentAge, acked, left, owed>>
  BY DEF PostRefused
<1>2. post \in Flags /\ acked \in Nat /\ hint' \in Nat
  BY <1>0, <1>1 DEF Ranges
<1>3. next \in Nat \ {0} /\ next <= Ceiling(EffectiveTtl(post.deep, acked))
  <2>1. post.deep \in BOOLEAN /\ (post.shape # 0) \in BOOLEAN
    BY <1>2 DEF Flags
  <2> QED BY <1>0, <1>1, <1>2, <2>1, CadenceIsBounded
<1>4. Ranges'
  BY <1>0, <1>1, <1>2, <1>3 DEF Ranges
<1>5. Woken => Telling'
  <2>1. ~post.deep => Ceiling(EffectiveTtl(post.deep, acked)) <= Ceiling(Larger(Ttl, acked))
    <3>1. EffectiveTtl(FALSE, acked) \in Nat /\ Larger(Ttl, acked) \in Nat
          /\ EffectiveTtl(FALSE, acked) <= Larger(Ttl, acked)
      BY <1>0, <1>2 DEF EffectiveTtl, Larger
    <3>2. Ceiling(EffectiveTtl(FALSE, acked)) <= Ceiling(Larger(Ttl, acked))
      BY <3>1, CeilingIsMonotonic
    <3> QED BY <1>2, <3>2 DEF Flags
  <2>2. Ceiling(Larger(Ttl, acked)) \in Nat /\ IdleCadence + Spread(IdleCadence) \in Nat
        /\ Ceiling(EffectiveTtl(post.deep, acked)) \in Nat
    BY <1>0, <1>2, PresenceConfig, CeilingPositive, SpreadIsNat, EffectiveIsNat DEF Larger, Flags
  <2>3. Ceiling(Larger(Ttl, acked)) <= Pause' /\ Pause' \in Nat
    BY <1>1, <2>2 DEF Pause, Larger
  <2>4. Woken => owed <= 1 /\ owed \in Int /\ (post.deep => owed = -1) /\ doze = post.deep
    BY <1>1, <1>2 DEF Sending, Telling, Flags, Ranges
  <2>5. ~post.deep => next <= Pause'
    BY <1>3, <2>1, <2>2, <2>3
  <2> QED BY <1>1, <1>2, <1>3, <2>3, <2>4, <2>5 DEF Telling, Flags
<1> QED BY <1>1, <1>4, <1>5 DEF Sending, Resting

LEMMA PresenceStep == ASSUME Prompt, PresenceInv, [PresenceNext]_presenceVars PROVE PresenceInv'
<1>0. 1 .. DeepTtl \subseteq Nat
  OBVIOUS
<1>1. CASE Tick \/ Stale
  BY <1>1, TickKeeps, StaleKeeps
<1>2. CASE \E c \in CloudCaps, b \in BOOLEAN : Post(b, c)
  BY <1>2, PostKeeps
<1>3. CASE \E v \in Shapes, b \in BOOLEAN : Event(v, b)
  BY <1>3, EventKeeps
<1>4. CASE \E n \in 1 .. DeepTtl : SkipBeat(n)
  BY <1>0, <1>4, SkipKeeps
<1>5. CASE \E n \in 1 .. DeepTtl, h \in BeatHints : Answer(h, n) \/ PostRefused(h, n)
  BY <1>0, <1>5, AnswerKeeps, PostRefusedKeeps
<1>6. CASE UNCHANGED presenceVars
  BY <1>6 DEF presenceVars, PresenceInv, Ranges, Sending, Resting, Telling, Pause,
     LastTtl, Intended
<1> QED BY <1>1, <1>2, <1>3, <1>4, <1>5, <1>6 DEF PresenceNext

LEMMA PresenceHolds == ASSUME Prompt PROVE PresenceSpec => []PresenceInv
<1>1. PresenceInv /\ [PresenceNext]_presenceVars => PresenceInv'
  BY PresenceStep
<1> QED BY <1>1, PresenceInitHolds, PTL DEF PresenceSpec

\* A running device never lapses in the cloud: for any cadences, times-to-live and
\* hints, and whatever the cloud clamps to, when answers come within the headroom.
THEOREM DeviceStaysShown == ASSUME Prompt PROVE PresenceSpec => []PresenceKept
<1>1. PresenceInv => PresenceKept
  BY DEF PresenceInv, Ranges, Flags, Sending, Resting, PresenceKept
<1> QED BY <1>1, PresenceHolds, PTL

\* A change of what is shown is told within one ordinary sleep and one answer, also
\* after a deep idle whose long time-to-live the cloud still honours.
THEOREM ChangesAreTold == ASSUME Prompt, Woken PROVE PresenceSpec => []ChangeIsTold
<1>1. ASSUME PresenceInv PROVE ChangeIsTold
  <2>1. Pause \in Nat /\ Latency = 1
    BY <1>1, PauseIsNat DEF Prompt, Latency, Headroom
  <2>2. owed <= Pause + 1
    BY <1>1, <2>1 DEF PresenceInv, Ranges, Flags, Sending, Telling
  <2> QED BY <2>1, <2>2 DEF ChangeIsTold, Pause
<1> QED BY <1>1, PresenceHolds, PTL

--------------------------------------------------------------------------------
(* Lifecycle: the flock alone sees to it that the store is open once.      *)

\* From the lock on to its end a process holds the flock.
Holding == {"probe", "bind"} \cup WithStore
Held == \A p \in Pids : proc[p] \in Holding => lock = p

Base == proc \in [Pids -> Stages] /\ Held

--------------------------------------------------------------------------------
LEMMA BaseInit == LifeInit => Base
BY DEF LifeInit, Base, Held, Holding, WithStore, Answering, Stages

\* A step of a process to its end, or a SIGKILL.
LEMMA DiesKeepsBase == ASSUME Base, NEW p, Dies(p) PROVE Base'
BY DEF Base, Held, Holding, WithStore, Answering, Stages, Dies

LEMMA SpawnKeepsBase == ASSUME Base, Spawn, UNCHANGED lock PROVE Base'
BY DEF Base, Held, Holding, WithStore, Answering, Stages, Spawn

LEMMA DiradKeepsBase == ASSUME MaxPid \in Nat, Base, Dirad PROVE Base'
<1>1. PICK p \in Pids :
        \/ Lock(p) \/ Refused(p) \/ Probe(p) \/ Bind(p) \/ OpenStore(p)
        \/ Signalled(p) \/ OfflineBeat(p) \/ Unlink(p) \/ Exit(p)
  BY DEF Dirad
<1> USE DEF Base, Held, Holding, WithStore, Answering, Stages, Becomes
<1>2. CASE Lock(p)
  <2>1. \A q \in Pids : proc[q] \notin Holding
    BY <1>2 DEF Lock, MayLock, FlockFree, Pids
  <2> QED BY <1>2, <2>1 DEF Lock
<1>3. CASE Refused(p) \/ Bind(p) \/ OpenStore(p) \/ Signalled(p) \/ OfflineBeat(p)
      \/ Unlink(p)
  BY <1>3 DEF Refused, Bind, OpenStore, Signalled, OfflineBeat, Unlink
<1>4. CASE Probe(p)
  BY <1>4 DEF Probe
<1>5. CASE Exit(p)
  BY <1>5 DEF Exit
<1> QED BY <1>1, <1>2, <1>3, <1>4, <1>5

LEMMA CommandKeepsBase == ASSUME Base, Command PROVE Base'
<1>1. PICK t \in Terminals :
        \/ StartUp(t) \/ StartSpawn(t) \/ StartAnswered(t) \/ StartFailed(t)
        \/ Terminate(t) \/ Waited(t) \/ ForceKill(t) \/ Clean(t)
  BY DEF Command
<1>2. CASE StartUp(t) \/ StartAnswered(t) \/ StartFailed(t) \/ Terminate(t)
      \/ Waited(t) \/ Clean(t)
  BY <1>2 DEF StartUp, StartAnswered, StartFailed, Terminate, Waited, Clean, Daemons,
    Base, Held
<1>3. CASE StartSpawn(t)
  BY <1>3, SpawnKeepsBase DEF StartSpawn
<1>4. CASE ForceKill(t)
  BY <1>4, DiesKeepsBase DEF ForceKill, Daemons, Base, Held
<1> QED BY <1>1, <1>2, <1>3, <1>4

LEMMA BaseStep == ASSUME MaxPid \in Nat PROVE Base /\ [LifeNext]_lifeVars => Base'
<1> SUFFICES ASSUME Base, [LifeNext]_lifeVars PROVE Base'
  OBVIOUS
<1>1. CASE ForeignStart
  BY <1>1, SpawnKeepsBase DEF ForeignStart
<1>2. ASSUME NEW p \in Pids, Killed(p) PROVE Base'
  BY <1>2, DiesKeepsBase DEF Killed
<1>3. ASSUME NEW t \in Terminals, StartCommand(t) \/ StopCommand(t) \/ RestartCommand(t)
      PROVE Base'
  BY <1>3 DEF StartCommand, StopCommand, RestartCommand, Begin, Daemons, Base, Held
<1>4. CASE UNCHANGED lifeVars
  BY <1>4 DEF lifeVars, Base, Held
<1> QED BY <1>1, <1>2, <1>3, <1>4, DiradKeepsBase, CommandKeepsBase DEF LifeNext

LEMMA HeldIsOne == ASSUME Base PROVE OneStore
<1> DEFINE S == {p \in Pids : proc[p] \in WithStore}
<1>1. S \subseteq {lock}
  BY DEF Base, Held, Holding
<1>2. IsFiniteSet({lock}) /\ Cardinality({lock}) = 1
  BY FS_Singleton
<1>3. Cardinality(S) <= 1
  BY <1>1, <1>2, FS_Subset
<1> QED BY <1>3 DEF OneStore

\* No two daemons ever have the database open, whatever crashes, signals, stale
\* files and terminals there are: every hazard of the model is allowed here.
THEOREM StoreIsOpenOnce == ASSUME MaxPid \in Nat PROVE LifeSpec => []OneStore
<1>1. Base /\ [LifeNext]_lifeVars => Base'
  BY BaseStep
<1>2. Base => OneStore
  BY HeldIsOne
<1> QED BY <1>1, <1>2, BaseInit, PTL DEF LifeSpec

--------------------------------------------------------------------------------
(* Lifecycle: the types.                                                   *)

\* A set of numbers has a smallest one.
LEMMA Smallest == ASSUME NEW S \in SUBSET Nat, S # {}
  PROVE \E m \in S : \A n \in S : m <= n
<1>1. PICK m \in S : \A n \in S : ~(<<n, m>> \in OpToRel(<, Nat))
  BY NatLessThanWellFounded, WFMin
<1>2. \A n \in S : n < m => <<n, m>> \in OpToRel(<, Nat)
  BY Zenon DEF OpToRel
<1>3. \A n \in S : ~(n < m)
  BY <1>1, <1>2, Zenon
<1> QED BY <1>3

\* A spawned process has a pid of its own.
LEMMA SpawnType == ASSUME MaxPid \in Nat, Spawn PROVE NextPid \in Pids
<1>1. \E m \in Unborn : \A q \in Unborn : m <= q
  <2>1. Unborn \in SUBSET Nat /\ Unborn # {}
    BY DEF Spawn, Unborn, Pids
  <2> QED BY <2>1, Smallest
<1> QED BY <1>1 DEF NextPid, Unborn

LEMMA DiradType == ASSUME MaxPid \in Nat, LifeTypeOK, Dirad PROVE LifeTypeOK'
<1>1. PICK p \in Pids :
        \/ Lock(p) \/ Refused(p) \/ Probe(p) \/ Bind(p) \/ OpenStore(p)
        \/ Signalled(p) \/ OfflineBeat(p) \/ Unlink(p) \/ Exit(p)
  BY DEF Dirad
<1>2. proc' \in [Pids -> Stages] /\ UNCHANGED <<asked, pidfile, cli>>
  BY <1>1 DEF Lock, Refused, Probe, Bind, OpenStore, Signalled, OfflineBeat, Unlink,
    Exit, Becomes, Outside, LifeTypeOK, Stages
<1>3. lock' \in {lock, p, 0} /\ sock' \in {sock, p, 0}
  BY <1>1 DEF Lock, Refused, Probe, Bind, OpenStore, Signalled, OfflineBeat, Unlink,
    Exit
<1> QED BY <1>2, <1>3 DEF LifeTypeOK, Pids

LEMMA DiesType == ASSUME MaxPid \in Nat, LifeTypeOK, NEW p, Dies(p)
  PROVE proc' \in [Pids -> Stages] /\ lock' \in {lock, 0}
BY DEF Dies, LifeTypeOK, Stages

LEMMA CommandType == ASSUME MaxPid \in Nat, LifeTypeOK, Command PROVE LifeTypeOK'
<1>1. PICK t \in Terminals :
        \/ StartUp(t) \/ StartSpawn(t) \/ StartAnswered(t) \/ StartFailed(t)
        \/ Terminate(t) \/ Waited(t) \/ ForceKill(t) \/ Clean(t)
  BY DEF Command
<1> USE DEF LifeTypeOK, Run, Done, Idle, Daemons
<1>2. CASE StartUp(t) \/ StartFailed(t) \/ Waited(t) \/ Clean(t)
  BY <1>2 DEF StartUp, StartFailed, Waited, Clean
<1>3. CASE StartAnswered(t)
  BY <1>3 DEF StartAnswered
<1>4. CASE StartSpawn(t)
  <2>1. NextPid \in Pids
    BY <1>4, SpawnType DEF StartSpawn
  <2> QED BY <1>4, <2>1 DEF StartSpawn, Spawn, Stages, Pids
<1>5. CASE Terminate(t)
  <2>1. Alive(cli[t].pid) => cli[t].pid \in Pids
    BY DEF Alive, Pids
  <2> QED BY <1>5, <2>1 DEF Terminate
<1>6. CASE ForceKill(t)
  <2>1. proc' \in [Pids -> Stages] /\ lock' \in {lock, 0}
    BY <1>6, DiesType DEF ForceKill
  <2> QED BY <1>6, <2>1 DEF ForceKill
<1> QED BY <1>1, <1>2, <1>3, <1>4, <1>5, <1>6

LEMMA TypeStep == ASSUME MaxPid \in Nat
  PROVE LifeTypeOK /\ [LifeNext]_lifeVars => LifeTypeOK'
<1> SUFFICES ASSUME LifeTypeOK, [LifeNext]_lifeVars PROVE LifeTypeOK'
  OBVIOUS
<1>1. CASE ForeignStart
  <2>1. NextPid \in Pids
    BY <1>1, SpawnType DEF ForeignStart
  <2> QED BY <1>1, <2>1 DEF ForeignStart, Spawn, LifeTypeOK, Stages
<1>2. ASSUME NEW p \in Pids, Killed(p) PROVE LifeTypeOK'
  BY <1>2, DiesType DEF Killed, LifeTypeOK
<1>3. ASSUME NEW t \in Terminals, StartCommand(t) \/ StopCommand(t) \/ RestartCommand(t)
      PROVE LifeTypeOK'
  BY <1>3 DEF StartCommand, StopCommand, RestartCommand, Begin, Run, Daemons, LifeTypeOK
<1>4. CASE UNCHANGED lifeVars
  BY <1>4 DEF lifeVars, LifeTypeOK
<1> QED BY <1>1, <1>2, <1>3, <1>4, DiradType, CommandType DEF LifeNext

\* Whatever the hazards: the socket, the pidfile and the commands name processes
\* there may be, and each of those is at a step of dirad's life.
THEOREM LifeTyped == ASSUME MaxPid \in Nat PROVE LifeSpec => []LifeTypeOK
<1>1. LifeInit => LifeTypeOK
  BY DEF LifeInit, LifeTypeOK, Stages, Idle, Pids
<1> QED BY <1>1, TypeStep, PTL DEF LifeSpec

--------------------------------------------------------------------------------
(* Lifecycle: while one terminal is used, dirad is not started by hand     *)
(* over a pidfile, and a daemon answers before the start gives up on it.   *)

Expected ==
  MaxPid \in Nat /\ LifeHazards \cap {"foreign", "slow_start", "two_terminals"} = {}

\* Whoever has opened the path, or answers on it, has its file.
Bound == \A p \in Pids : proc[p] \in {"open"} \cup Answering => sock = p

\* While a stop or a restart waits for its process there is no other, and when it
\* removes the files only one that has removed its own.
Ready == Answering \cup {"exit"}
Replacing ==
  \A p \in Pids :
    /\ (At(1, "kill") \/ At(1, "force")) /\ Alive(p) =>
         p = cli[1].pid /\ proc[p] \in Ready
    /\ At(1, "clean") /\ Alive(p) => proc[p] = "exit"
\* A start spawns next to none that is starting, and waits next to none that serves.
Launching ==
  \A p \in Pids :
    /\ At(1, "check") => proc[p] \notin {"lock", "probe", "bind", "open"}
    /\ At(1, "wait") /\ Alive(p) => p = cli[1].pid \/ proc[p] = "exit"
\* The pidfile, when there is one, names whatever is alive.
Named ==
  \A p \in Pids :
    pidfile # 0 /\ Alive(p) =>
      /\ At(1, "idle") \/ At(1, "check") => p = pidfile
      /\ At(1, "wait") => p \in {pidfile, cli[1].pid}
CliType == cli \in [{1} -> [op : {"none", "start", "stop", "restart"},
                            step : {"idle", "check", "wait", "kill", "force",
                                    "clean"},
                            pid : {cli[1].pid}]]
LifeInv == Base /\ CliType /\ Bound /\ Replacing /\ Launching /\ Named

LEMMA OneTerminal == ASSUME Expected PROVE Terminals = {1}
BY DEF Expected, Terminals

LEMMA LifeInitHolds == ASSUME Expected PROVE LifeInit => LifeInv
BY OneTerminal DEF LifeInit, LifeInv, Base, Held, Holding, WithStore, Answering,
  Stages, Bound, Replacing, Launching,
  Named, CliType, At, Alive, Idle

LEMMA DiradKeeps == ASSUME Expected, LifeInv, Dirad, Base' PROVE LifeInv'
<1>1. PICK p \in Pids :
        \/ Lock(p) \/ Refused(p) \/ Probe(p) \/ Bind(p) \/ OpenStore(p)
        \/ Signalled(p) \/ OfflineBeat(p) \/ Unlink(p) \/ Exit(p)
  BY DEF Dirad
<1> USE DEF LifeInv, Base, Stages, Becomes, Outside
<1>0. /\ UNCHANGED <<pidfile, cli>> 
      /\ \A q \in Pids : q # p => proc'[q] = proc[q]
      /\ Alive(p)
  BY <1>1 DEF Lock, Refused, Probe, Bind, OpenStore, Signalled, OfflineBeat, Unlink,
    Exit, Alive, Pids, Expected
<1>a. CliType' /\ \A q \in Pids : Alive(q)' => Alive(q)
  BY <1>0 DEF CliType, Alive
<1>2. Bound'
  <2>1. CASE Lock(p) \/ Refused(p) \/ Probe(p) \/ OpenStore(p) \/ Signalled(p)
        \/ OfflineBeat(p) \/ Exit(p)
    BY <2>1 DEF Lock, Refused, Probe, OpenStore, Signalled, OfflineBeat, Exit, Bound,
      Answering
  <2>2. CASE Bind(p)
    BY <2>2 DEF Bind, Bound, Answering, Held, Holding, WithStore
  <2>3. CASE Unlink(p)
    BY <2>3 DEF Unlink, Bound, Answering, Held, Holding, WithStore
  <2> QED BY <1>1, <2>1, <2>2, <2>3
<1>3. Replacing'
  BY <1>0, <1>a, <1>1 DEF Replacing, Ready, At, Answering, Alive, Lock, Refused, Probe,
    Bind, OpenStore, Signalled, OfflineBeat, Unlink, Exit
<1>4. Launching'
  BY <1>0, <1>a, <1>1 DEF Launching, At, Alive, Lock, Refused, Probe, Bind, OpenStore,
    Signalled, OfflineBeat, Unlink, Exit
<1>5. Named'
  BY <1>0, <1>a DEF Named, At
<1> QED BY <1>a, <1>2, <1>3, <1>4, <1>5

LEMMA OneHolds == ASSUME LifeInv, NEW p \in Pids, NEW q \in Pids,
  proc[p] \in WithStore, proc[q] \in WithStore PROVE p = q
BY DEF LifeInv, Base, Held, Holding

\* What IsUp finds is alive and has the store.
LEMMA UpHasStore == ASSUME Expected, LifeInv, IsUp, sock \in Pids
  PROVE proc[sock] \in WithStore
BY DEF IsUp, WithStore, Answering

LEMMA BeginKeeps == ASSUME Expected, LifeInv,
  StartCommand(1) \/ StopCommand(1) \/ RestartCommand(1), sock \in 0 .. MaxPid, Base' PROVE LifeInv'
<1> USE DEF LifeInv
<1>1. UNCHANGED <<proc, lock, sock, pidfile>> /\ ~Starting /\ cli[1].step = "idle"
  BY DEF StartCommand, StopCommand, RestartCommand, Begin, Expected, Daemons, At
<1>2. Bound'
  BY <1>1 DEF Bound
<1>3. \A p \in Pids : Alive(p) => proc[p] \in Ready /\ proc[p] \in WithStore
  BY <1>1 DEF Starting, Alive, Base, Stages, Ready, WithStore, Answering
<1>4. CASE StartCommand(1)
  <2>1. cli' = [cli EXCEPT ![1] = [op |-> "start", step |-> "check", pid |-> 0]]
    BY <1>4 DEF StartCommand, Begin, Run
  <2> QED BY <1>1, <1>2, <2>1 DEF CliType, Replacing, Launching, Named, At, Alive,
    Starting
<1>5. CASE StopCommand(1)
  <2>1. cli' = [cli EXCEPT ![1] = [op |-> "stop", step |-> "kill", pid |-> pidfile]]
        /\ pidfile # 0
    BY <1>5 DEF StopCommand, Begin, Run
  <2> QED BY <1>1, <1>2, <1>3, <2>1 DEF CliType, Replacing, Launching, Named, At, Alive
<1>6. CASE RestartCommand(1)
  <2> DEFINE found == IF Alive(pidfile) THEN pidfile ELSE IF IsUp THEN sock ELSE 0
  <2>1. cli' = [cli EXCEPT ![1] = [op |-> "restart", step |-> "kill",
        pid |-> found]] /\ found # 0
    BY <1>6 DEF RestartCommand, Begin, Run
  <2>2. \A p \in Pids : Alive(p) => p = found
    <3> SUFFICES ASSUME NEW p \in Pids, Alive(p) PROVE p = found
      OBVIOUS
    <3>1. CASE pidfile # 0
      BY <3>1, <1>1 DEF Named, At
    <3>2. CASE pidfile = 0
      <4>1. found = sock /\ IsUp /\ sock \in Pids
        BY <3>2, <2>1 DEF Alive, IsUp, Pids, Expected
      <4> QED BY <4>1, <1>3, OneHolds, UpHasStore
    <3> QED BY <3>1, <3>2
  <2> QED BY <1>1, <1>2, <1>3, <2>1, <2>2 DEF CliType, Replacing, Launching, Named, At,
    Alive
<1> QED BY <1>4, <1>5, <1>6

LEMMA StartingKeeps == ASSUME Expected, LifeTypeOK, LifeInv,
  StartUp(1) \/ StartSpawn(1) \/ StartAnswered(1) \/ StartFailed(1), Base' PROVE LifeInv'
<1> USE DEF LifeInv
<1>1. UNCHANGED sock /\ CliType'
  BY DEF StartUp, StartSpawn, StartAnswered, StartFailed, CliType, Done, Run, Idle
<1>2. CASE StartUp(1)
  BY <1>2, <1>1 DEF StartUp, Done, Idle, Daemons, Bound, CliType, Replacing, Launching,
    Named, At, Alive
<1>3. CASE StartSpawn(1)
  <2>1. NextPid \in Pids /\ proc' = [proc EXCEPT ![NextPid] = "lock"]
        /\ pidfile' = pidfile /\ cli[1].step = "check"
    BY <1>3, SpawnType DEF StartSpawn, Spawn, Expected, At
  <2>2. cli'[1].step = "wait" /\ cli'[1].pid = NextPid
    BY <1>3 DEF StartSpawn, Run, CliType
  <2>3. \A p \in Pids : p # NextPid /\ Alive(p)' => Alive(p) /\ proc'[p] = proc[p]
        /\ proc[p] = "exit"
    BY <1>3, <2>1 DEF Alive, Base, Stages, Launching, Bound, StartSpawn, IsUp,
      Answering, At, Pids, Expected
  <2>4. Bound'
    BY <1>1, <2>1 DEF Bound, Base, Answering
  <2> QED BY <1>1, <2>1, <2>2, <2>3, <2>4 DEF Replacing, Launching, Named, At
<1>4. CASE StartAnswered(1)
  <2>1. IsUp /\ UNCHANGED proc /\ cli[1].step = "wait" /\ pidfile' = cli[1].pid
        /\ cli'[1].step = "idle"
    BY <1>4 DEF StartAnswered, Expected, At, Daemons, Done, Idle, CliType
  <2>2. sock \in Pids /\ Alive(sock) /\ proc[sock] # "exit"
    BY <2>1 DEF IsUp, Alive, Answering, LifeTypeOK, Pids, Expected
  <2>3. sock = cli[1].pid
    BY <2>1, <2>2 DEF Launching, At
  <2>4. \A p \in Pids : Alive(p) => p = sock
    BY <2>1, <2>2, <2>3, OneHolds, UpHasStore DEF Launching, At, WithStore
  <2> QED BY <1>1, <2>1, <2>3, <2>4 DEF Bound, Replacing, Launching, Named, At, Alive
<1>5. CASE StartFailed(1)
  <2>1. ~Alive(cli[1].pid) /\ UNCHANGED <<proc, pidfile>> /\ cli[1].step = "wait"
        /\ cli'[1].step = "idle"
    BY <1>5 DEF StartFailed, At, Daemons, Done, Idle, CliType
  <2> QED BY <1>1, <2>1 DEF Bound, Replacing, Launching, Named, At, Alive
<1> QED BY <1>2, <1>3, <1>4, <1>5

LEMMA StoppingKeeps == ASSUME Expected, LifeTypeOK, LifeInv,
  Terminate(1) \/ Waited(1) \/ ForceKill(1) \/ Clean(1), Base' PROVE LifeInv'
<1> USE DEF LifeInv
<1>1. CliType'
  BY DEF Terminate, Waited, ForceKill, Clean, CliType, Done, Run, Idle
<1>2. CASE Terminate(1)
  <2>1. UNCHANGED <<proc, sock, pidfile>> /\ cli[1].step = "kill"
        /\ cli'[1].step = "force" /\ cli'[1].pid = cli[1].pid
    BY <1>2 DEF Terminate, At, Daemons, Run, CliType
  <2> QED BY <1>1, <2>1 DEF Bound, Replacing, Launching, Named, At, Alive
<1>3. CASE Waited(1)
  <2>1. UNCHANGED <<proc, sock, pidfile>> /\ cli[1].step = "force"
        /\ cli'[1].step = "clean" /\ cli'[1].pid = cli[1].pid
    BY <1>3 DEF Waited, At, Daemons, Run, CliType
  <2>2. \A p \in Pids : Alive(p) => proc[p] = "exit"
    <3> SUFFICES ASSUME NEW p \in Pids, Alive(p) PROVE proc[p] = "exit"
      OBVIOUS
    <3>1. p = cli[1].pid /\ proc[p] \in Ready
      BY <2>1 DEF Replacing, At
    <3>2. ~IsUp
      BY <1>3, <3>1 DEF Waited, ExitSeen
    <3> QED BY <3>1, <3>2 DEF Bound, IsUp, Ready, Pids, Expected
  <2> QED BY <1>1, <2>1, <2>2 DEF Bound, Replacing, Launching, Named, At, Alive
<1>4. CASE ForceKill(1)
  <2>1. UNCHANGED <<sock, pidfile>> /\ cli[1].step = "force"
        /\ cli'[1].step = "clean" /\ cli'[1].pid = cli[1].pid
    BY <1>4 DEF ForceKill, At, Run, CliType
  <2>2. \A p \in Pids : ~Alive(p)'
    BY <1>4, <2>1 DEF ForceKill, Dies, Daemons, Replacing, Alive, At, Base
  <2>3. Bound'
    BY <2>2 DEF Alive, Bound, Answering, Pids, Expected
  <2> QED BY <1>1, <2>1, <2>2, <2>3 DEF Replacing, Launching, Named, At, Alive, Pids,
    Expected
<1>5. CASE Clean(1)
  <2>1. pidfile' = 0 /\ sock' = 0 /\ cli[1].step = "clean"
        /\ cli'[1].step \in {"idle", "check"} /\ UNCHANGED proc
    BY <1>5 DEF Clean, At, Run, Done, CliType, Idle, Daemons
  <2>2. \A p \in Pids : proc[p] \in {"unborn", "dead", "exit"}
    BY <2>1 DEF Replacing, At, Alive, Pids, Expected
  <2>3. Bound'
    BY <2>1, <2>2 DEF Bound, Answering
  <2> QED BY <1>1, <2>1, <2>2, <2>3 DEF Replacing, Launching, Named, At, Alive
<1> QED BY <1>2, <1>3, <1>4, <1>5

LEMMA OutsideKeeps == ASSUME Expected, LifeTypeOK, LifeInv,
  ForeignStart \/ \E p \in Pids : Killed(p), Base' PROVE LifeInv'
<1> USE DEF LifeInv
<1>1. CASE ForeignStart
  <2>1. pidfile = 0 /\ cli[1].step = "idle" /\ UNCHANGED <<sock, pidfile, cli>>
    BY <1>1, OneTerminal DEF ForeignStart, Expected, Idle
  <2>2. \A p \in Pids : proc'[p] \in {proc[p], "lock"}
    BY <1>1 DEF ForeignStart, Spawn, Base
  <2>3. Bound'
    BY <2>1, <2>2 DEF Bound, Answering
  <2> QED BY <2>1, <2>3 DEF CliType, Replacing, Launching, Named, At
<1>2. ASSUME NEW p \in Pids, Killed(p) PROVE LifeInv'
  <2>1. proc' = [proc EXCEPT ![p] = "dead"] /\ UNCHANGED <<sock, pidfile, cli>>
    BY <1>2 DEF Killed, Dies
  <2>2. \A q \in Pids : /\ Alive(q)' => Alive(q) /\ proc'[q] = proc[q]
                         /\ proc'[q] \in {proc[q], "dead"}
    BY <2>1 DEF Alive, Base
  <2>3. Bound'
    BY <2>1, <2>2 DEF Bound, Answering
  <2> QED BY <2>1, <2>2, <2>3 DEF CliType, Replacing, Launching, Named, At
<1> QED BY <1>1, <1>2

LEMMA LifeStepKeeps ==
  ASSUME Expected, LifeTypeOK, LifeInv, Base', [LifeNext]_lifeVars PROVE LifeInv'
<1>1. CASE Dirad
  BY <1>1, DiradKeeps
<1>2. CASE Command
  BY <1>2, OneTerminal, StartingKeeps, StoppingKeeps DEF Command
<1>3. CASE ForeignStart \/ \E p \in Pids : Killed(p)
  BY <1>3, OutsideKeeps
<1>4. CASE \E t \in Terminals : StartCommand(t) \/ StopCommand(t) \/ RestartCommand(t)
  <2>1. sock \in 0 .. MaxPid
    BY DEF LifeTypeOK
  <2> QED BY <1>4, <2>1, OneTerminal, BeginKeeps
<1>5. CASE UNCHANGED lifeVars
  BY <1>5 DEF lifeVars, LifeInv, CliType, Bound, Replacing, Launching, Named, At, Alive
<1> QED BY <1>1, <1>2, <1>3, <1>4, <1>5 DEF LifeNext

\* A daemon that serves keeps its socket file, whatever was killed before it and
\* whatever stale files a start, a stop or a restart has removed.
THEOREM ServingIsReachable == ASSUME Expected PROVE LifeSpec => []Reachable
<1>1. LifeInit => LifeInv /\ LifeTypeOK
  <2>1. LifeInit => LifeTypeOK
    BY DEF Expected, LifeInit, LifeTypeOK, Stages, Idle, Pids
  <2> QED BY <2>1, LifeInitHolds
<1>2. Base /\ [LifeNext]_lifeVars => Base'
  BY BaseStep DEF Expected
<1>3. LifeTypeOK /\ [LifeNext]_lifeVars => LifeTypeOK'
  BY TypeStep DEF Expected
<1>4. LifeTypeOK /\ LifeInv /\ Base' /\ [LifeNext]_lifeVars => LifeInv'
  BY LifeStepKeeps
<1>5. LifeInv => Base /\ Reachable
  BY DEF LifeInv, Bound, Reachable, Answering
<1> QED BY <1>1, <1>2, <1>3, <1>4, <1>5, PTL DEF LifeSpec

--------------------------------------------------------------------------------
(* Update: both binaries or neither, while a backup can be put back and no *)
(* kill falls into the moment in which Windows has moved a file aside.     *)

Undisturbed == MaxVersion \in Nat \ {0} /\ "locked" \notin UpdateHazards
  /\ "stuck" \notin UpdateHazards

Sound ==
  /\ disk \in [Binaries -> Versions] /\ bak \in [Binaries -> Versions]
  /\ step \in Steps
  /\ step # "idle" =>
       /\ run.target \in Versions \ {0} /\ run.claims \in Versions \ {0}
       /\ run.before \in [Binaries -> Versions \ {0}]
  /\ step \notin {"idle", "report"} => result = "ok"

\* The backup is what was there, from its making to the end.
Swapping == {"swap_dirad", "dirad_aside", "swap_dira", "dira_aside", "verify",
  "restart"}
BackedUp == step \in Swapping => bak = run.before

\* How far the update has got.
Progress ==
  /\ step \in {"download", "backup", "swap_dirad"} => disk = run.before
  /\ step = "dirad_aside" => disk["dira"] = run.before["dira"]
  /\ step \in {"swap_dira", "dira_aside", "verify", "restart", "clean"}
       => disk["dirad"] = run.target
  /\ step = "swap_dira" => disk["dira"] = run.before["dira"]
  /\ step = "verify" => disk["dira"] = run.claims
  /\ step \in {"restart", "clean"} => disk["dira"] = run.target

UpdateInv == Sound /\ BackedUp /\ Progress /\ BothOrNeither

--------------------------------------------------------------------------------
LEMMA UpdateInitHolds == ASSUME Undisturbed PROVE UpdateInit => UpdateInv
BY DEF Undisturbed, UpdateInit, UpdateInv, Sound, BackedUp, Progress, BothOrNeither,
  NeverMissing, AllOrNothing,
       Swapping, Binaries, Versions, Steps, Aside

\* Restoring from a backup that is what was there leaves what was there.
LEMMA RestoresBefore ==
  ASSUME Undisturbed, UpdateInv, step \in Swapping, Restore
  PROVE disk' = run.before
<1>1. bak = run.before /\ \A b \in Binaries : bak[b] # 0 /\ run.before[b] # 0
  BY DEF UpdateInv, Sound, BackedUp, Swapping
<1>2. disk' = [b \in Binaries |-> bak[b]]
  BY <1>1 DEF Restore, RestoresAll, RestoreAll, Restored, Undisturbed
<1> QED BY <1>1, <1>2 DEF UpdateInv, Sound

\* An update that ends in an error with its files restored.
LEMMA GivenUp ==
  ASSUME Undisturbed, UpdateInv, step \in Swapping, Restore, step' = "report",
         result' = "error", UNCHANGED <<bak, run>>
  PROVE UpdateInv'
<1>1. disk' = run.before
  BY RestoresBefore
<1> QED
  BY <1>1 DEF UpdateInv, Sound, BackedUp, Progress, BothOrNeither, NeverMissing,
    AllOrNothing,
              Swapping, Steps, Binaries, Aside

--------------------------------------------------------------------------------
LEMMA PreparingKeeps ==
  ASSUME Undisturbed, UpdateInv,
         \/ \E t, c \in Versions \ {0}, r, p \in BOOLEAN : UpdateStarts(t, c, r, p)
         \/ Download \/ DownloadFails \/ Backup \/ \E b \in Binaries : BackupFails(b)
  PROVE UpdateInv'
<1> USE DEF UpdateInv, Sound, BackedUp, Progress, BothOrNeither, NeverMissing,
    AllOrNothing,
            Swapping, Steps, Binaries, Aside, Files, Around, Goes, Ends
<1>1. ASSUME NEW t \in Versions \ {0}, NEW c \in Versions \ {0}, NEW r \in BOOLEAN,
             NEW p \in BOOLEAN, UpdateStarts(t, c, r, p)
      PROVE UpdateInv'
  <2>1. disk \in [Binaries -> Versions \ {0}]
    BY <1>1 DEF UpdateStarts
  <2>2. /\ run'.target = t /\ run'.claims = c /\ run'.before = disk
        /\ disk' = disk /\ bak' = bak
    BY <1>1 DEF UpdateStarts
  <2>3. \/ step' = "report" /\ result' = "refused"
        \/ step' = "download" /\ result' = "ok"
    BY <1>1 DEF UpdateStarts
  <2> QED BY <2>1, <2>2, <2>3
<1>2. CASE Download
  BY <1>2 DEF Download
<1>3. CASE DownloadFails
  BY <1>3 DEF DownloadFails
<1>4. CASE Backup
  <2>1. bak' = disk /\ disk' = disk /\ disk = run.before
    BY <1>4 DEF Backup, Linked, StillThere
  <2> QED BY <1>4, <2>1 DEF Backup
<1>5. ASSUME NEW b \in Binaries, BackupFails(b) PROVE UpdateInv'
  <2>1. bak' \in [Binaries -> Versions] /\ disk' = disk /\ disk = run.before
    BY <1>5 DEF BackupFails, Linked, Versions, Undisturbed
  <2> QED BY <1>5, <2>1 DEF BackupFails
<1> QED BY <1>1, <1>2, <1>3, <1>4, <1>5

LEMMA SwappingKeeps ==
  ASSUME Undisturbed, UpdateInv, NEW b \in Binaries,
         Swap(b) \/ SwapFails(b) \/ MoveAside(b) \/ SwapAside(b) \/ SwapAsideFails(b)
  PROVE UpdateInv'
<1> USE DEF Goes, Ends, Around
<1>1. CASE SwapFails(b) \/ SwapAsideFails(b)
  <2>1. step \in Swapping /\ Restore /\ step' = "report" /\ result' = "error"
    BY <1>1 DEF SwapFails, SwapAsideFails, Swapping, SwapStep, Aside, Binaries
  <2> QED BY <1>1, <2>1, GivenUp DEF SwapFails, SwapAsideFails
<1> USE DEF UpdateInv, Sound, BackedUp, Progress, BothOrNeither, NeverMissing,
    AllOrNothing,
            Swapping, Steps, Binaries, Aside, SwapStep, AfterSwap, Content
<1>2. CASE Swap(b) \/ SwapAside(b)
  <2>1. /\ disk' \in [Binaries -> Versions] /\ disk'[b] = Content(b)
        /\ \A c \in Binaries \ {b} : disk'[c] = disk[c]
    BY <1>2 DEF Swap, SwapAside
  <2>2. /\ step \in {SwapStep(b), Aside(b)} /\ step' = AfterSwap(b) /\ result' = result
        /\ bak' = bak /\ run' = run
    BY <1>2 DEF Swap, SwapAside
  <2>3. CASE b = "dirad"
    BY <2>1, <2>2, <2>3
  <2>4. CASE b = "dira"
    BY <2>1, <2>2, <2>4
  <2> QED BY <2>3, <2>4
<1>3. CASE MoveAside(b)
  <2>1. /\ disk' \in [Binaries -> Versions] /\ disk'[b] = 0
        /\ \A c \in Binaries \ {b} : disk'[c] = disk[c]
    BY <1>3 DEF MoveAside, Versions, Undisturbed
  <2>2. /\ step = SwapStep(b) /\ step' = Aside(b) /\ result' = result
        /\ bak' = bak /\ run' = run
    BY <1>3 DEF MoveAside
  <2>3. CASE b = "dirad"
    BY <2>1, <2>2, <2>3
  <2>4. CASE b = "dira"
    BY <2>1, <2>2, <2>4
  <2> QED BY <2>3, <2>4
<1> QED BY <1>1, <1>2, <1>3

LEMMA EndingKeeps ==
  ASSUME Undisturbed, UpdateInv,
         Verify \/ RollBack \/ RestartOk \/ RestartFails \/ DropBackups \/ Report
           \/ UpdateKilled
  PROVE UpdateInv'
<1> USE DEF Goes, Ends, Around
<1>1. CASE RollBack \/ RestartFails
  <2>1. step \in Swapping /\ Restore /\ step' = "report" /\ result' = "error"
    BY <1>1 DEF RollBack, RestartFails, Swapping
  <2> QED BY <1>1, <2>1, GivenUp DEF RollBack, RestartFails
<1> USE DEF UpdateInv, Sound, BackedUp, Progress, BothOrNeither, NeverMissing,
    AllOrNothing,
            Swapping, Steps, Binaries, Aside, Files
<1>2. CASE Verify
  BY <1>2 DEF Verify, Verified
<1>3. CASE RestartOk
  BY <1>3 DEF RestartOk
<1>4. CASE DropBackups
  <2>1. disk = [b \in Binaries |-> run.target]
    BY <1>4 DEF DropBackups
  <2>2. bak' \in [Binaries -> Versions]
    BY <1>4 DEF DropBackups, Versions, Undisturbed
  <2> QED BY <1>4, <2>1, <2>2 DEF DropBackups
<1>5. CASE Report
  BY <1>5 DEF Report
<1>6. CASE UpdateKilled
  BY <1>6 DEF UpdateKilled, Undisturbed
<1> QED BY <1>1, <1>2, <1>3, <1>4, <1>5, <1>6

LEMMA UpdateStepKeeps == ASSUME Undisturbed
  PROVE UpdateInv /\ [UpdateNext]_updateVars => UpdateInv'
<1> SUFFICES ASSUME UpdateInv, [UpdateNext]_updateVars PROVE UpdateInv'
  OBVIOUS
<1> USE DEF UpdateInv, Sound, BackedUp, Progress, BothOrNeither, NeverMissing,
    AllOrNothing
<1>1. CASE CheckStarts
  BY <1>1 DEF CheckStarts
<1>2. ASSUME NEW l \in Versions, CheckRecords(l) PROVE UpdateInv'
  BY <1>2 DEF CheckRecords
<1>3. CASE UNCHANGED updateVars
  BY <1>3 DEF updateVars
<1> QED BY <1>1, <1>2, <1>3, PreparingKeeps, SwappingKeeps, EndingKeeps DEF UpdateNext

\* Whatever fails and whenever the update is killed, there is a dira and a dirad,
\* and an update that returns has replaced both or neither.
THEOREM UpdateIsAtomic == ASSUME Undisturbed PROVE UpdateSpec => []BothOrNeither
<1>1. UpdateInv /\ [UpdateNext]_updateVars => UpdateInv'
  BY UpdateStepKeeps
<1>2. UpdateInv => BothOrNeither
  BY DEF UpdateInv
<1> QED BY <1>1, <1>2, UpdateInitHolds, PTL DEF UpdateSpec

--------------------------------------------------------------------------------
\* The daemon that runs, while nobody else starts one of another directory and
\* none answers after the restart has given it up.
OwnDaemon ==
  Undisturbed /\ "other_dir" \notin UpdateHazards /\ "late_start" \notin UpdateHazards

\* The daemon is the one the update found until it restarts it.
Watched ==
  /\ step \in {"download", "backup"} \cup Swapping => running = run.alive
  /\ step = "clean" /\ run.restart => running \in {0, disk["dirad"]}
  /\ step = "report" /\ run.restart /\ result = "ok" => running \in {0, disk["dirad"]}
  /\ step = "report" /\ result # "ok" => running \in {0, run.alive}

LEMMA WatchedStep ==
  ASSUME OwnDaemon, UpdateInv, UpdateInv', Watched, [UpdateNext]_updateVars
  PROVE Watched'
<1> USE DEF Watched, Swapping, Goes, Ends, Around, Files
<1>1. ASSUME NEW t \in Versions \ {0}, NEW c \in Versions \ {0}, NEW r \in BOOLEAN,
             NEW p \in BOOLEAN, UpdateStarts(t, c, r, p)
      PROVE Watched'
  <2>1. run'.alive = running /\ running' = running
    BY <1>1 DEF UpdateStarts
  <2>2. \/ step' = "report" /\ result' = "refused"
        \/ step' = "download" /\ result' = "ok"
    BY <1>1 DEF UpdateStarts
  <2> QED BY <2>1, <2>2
<1>2. CASE Download \/ DownloadFails \/ Backup \/ \E b \in Binaries : BackupFails(b)
  BY <1>2 DEF Download, DownloadFails, Backup, BackupFails
<1>3. ASSUME NEW b \in Binaries,
             Swap(b) \/ SwapFails(b) \/ MoveAside(b) \/ SwapAside(b)
               \/ SwapAsideFails(b)
      PROVE Watched'
  <2>1. step \in Swapping /\ UNCHANGED <<running, run>>
    BY <1>3 DEF Swap, SwapFails, MoveAside, SwapAside, SwapAsideFails, SwapStep, Aside,
      Binaries
  <2>2. step' \in Swapping \/ (step' = "report" /\ result' = "error")
    BY <1>3 DEF Swap, SwapFails, MoveAside, SwapAside, SwapAsideFails, AfterSwap,
      Aside, Binaries
  <2> QED BY <2>1, <2>2
<1>4. CASE Verify
  BY <1>4 DEF Verify
<1>5. CASE RollBack \/ RestartFails
  <2>1. step \in Swapping /\ step' = "report" /\ result' = "error" /\ run' = run
        /\ running' \in {running, 0}
    BY <1>5 DEF RollBack, RestartFails, OwnDaemon
  <2> QED BY <2>1
<1>6. CASE RestartOk
  <2>1. running' \in {0, disk["dirad"]} /\ UNCHANGED <<disk, result, run>>
        /\ step' = "clean"
    BY <1>6 DEF RestartOk, Started, OwnDaemon
  <2> QED BY <2>1
<1>7. CASE DropBackups
  BY <1>7 DEF DropBackups, UpdateInv, Sound
<1>8. CASE Report \/ UpdateKilled
  BY <1>8 DEF Report, UpdateKilled
<1>9. CASE CheckStarts \/ \E l \in Versions : CheckRecords(l)
  BY <1>9 DEF CheckStarts, CheckRecords
<1>10. CASE UNCHANGED updateVars
  BY <1>10 DEF updateVars
<1> QED BY <1>1, <1>2, <1>3, <1>4, <1>5, <1>6, <1>7, <1>8, <1>9, <1>10 DEF UpdateNext

\* The daemon an update leaves running is the installed one, whatever of it fails
\* and whenever it is killed, if the one it found was.
THEOREM DaemonIsInstalled == ASSUME OwnDaemon PROVE UpdateSpec => []RunsWhatIsInstalled
<1>1. Undisturbed
  BY DEF OwnDaemon
<1>2. UpdateInit => Watched
  BY DEF UpdateInit, Watched, Swapping
<1>3. UpdateInv /\ [UpdateNext]_updateVars => UpdateInv'
  BY <1>1, UpdateStepKeeps
<1>4. UpdateInv /\ UpdateInv' /\ Watched /\ [UpdateNext]_updateVars => Watched'
  BY WatchedStep
<1>5. UpdateInv /\ Watched => RunsWhatIsInstalled
  BY DEF UpdateInv, Watched, RunsWhatIsInstalled, BothOrNeither, AllOrNothing
<1> QED BY <1>1, <1>2, <1>3, <1>4, <1>5, UpdateInitHolds, PTL DEF UpdateSpec

--------------------------------------------------------------------------------
\* The count in the cache file is that of the attempts that failed, whatever the
\* detached check writes.
Honest == cache \in [failures : Nat, latest : Versions] /\ cache.failures = failed

LEMMA HonestStep ==
  ASSUME MaxVersion \in Nat, "racing_check" \notin UpdateHazards, Honest,
    [UpdateNext]_updateVars
  PROVE Honest'
<1> USE DEF Honest
<1>1. CASE Report
  BY <1>1 DEF Report, Counted
<1>2. CASE CheckStarts
  BY <1>2 DEF CheckStarts, Sentinel, Versions
<1>3. ASSUME NEW l \in Versions, CheckRecords(l) PROVE Honest'
  BY <1>3 DEF CheckRecords
<1>4. CASE \/ \E t, c \in Versions \ {0}, r, p \in BOOLEAN : UpdateStarts(t, c, r, p)
           \/ Download \/ DownloadFails \/ Backup \/ \E b \in Binaries : BackupFails(b)
  BY <1>4 DEF UpdateStarts, Download, DownloadFails, Backup, BackupFails, Around
<1>5. CASE \E b \in Binaries :
             Swap(b) \/ SwapFails(b) \/ MoveAside(b) \/ SwapAside(b)
               \/ SwapAsideFails(b)
  BY <1>5 DEF Swap, SwapFails, MoveAside, SwapAside, SwapAsideFails, Around
<1>6. CASE Verify \/ RollBack \/ RestartOk \/ RestartFails \/ DropBackups
      \/ UpdateKilled
  BY <1>6 DEF Verify, RollBack, RestartOk, RestartFails, DropBackups, UpdateKilled,
    Around
<1>7. CASE UNCHANGED updateVars
  BY <1>7 DEF updateVars
<1> QED BY <1>1, <1>2, <1>3, <1>4, <1>5, <1>6, <1>7 DEF UpdateNext

\* The notice escalates with the attempts that really failed in a row, never
\* later and never sooner, at any threshold.
THEOREM NoticeIsOnTime ==
  ASSUME MaxVersion \in Nat, "racing_check" \notin UpdateHazards
  PROVE UpdateSpec => []EscalatesOnTime
<1>1. UpdateInit => Honest
  BY DEF UpdateInit, Honest, Versions
<1>2. Honest /\ [UpdateNext]_updateVars => Honest'
  BY HonestStep
<1>3. Honest => EscalatesOnTime
  BY DEF Honest, EscalatesOnTime
<1> QED BY <1>1, <1>2, <1>3, PTL DEF UpdateSpec

--------------------------------------------------------------------------------
(* The types of every part, alone and together                             *)

\* The ladder's bounds and the times the cloud sends are numbers of seconds.
Seconds == Seed \in Nat /\ MaxBackoff \in Nat /\ RetryAfters \subseteq Nat
LoopTyped == TypeOK /\ fails \in Nat

LEMMA BackoffBounded ==
  ASSUME Seconds, LoopTyped, NEW e \in Bad, NEW ra \in RetryAfters
  PROVE  BackoffAfter(e, ra) \in 0 .. MaxBackoff
<1> USE DEF Seconds, LoopTyped, TypeOK, Min2
<1>1. NextBackoff(backoff) \in 0 .. MaxBackoff
  BY DEF NextBackoff
<1>2. TransientWait(ra, backoff) \in 0 .. MaxBackoff
  BY <1>1 DEF TransientWait
<1> QED BY <1>1, <1>2 DEF BackoffAfter

LEMMA LoopTypeInit == ASSUME Seconds PROVE Init => LoopTyped
BY DEF Seconds, Init, LoopTyped, TypeOK

LEMMA LoopTypeStep == ASSUME Seconds, LoopTyped, [Next]_vars PROVE LoopTyped'
<1> USE DEF LoopTyped, TypeOK
<1>1. CASE UNCHANGED vars
  BY <1>1 DEF vars
<1>2. ASSUME NEW b \in BOOLEAN, Capture(b) \/ Link(b) PROVE LoopTyped'
  BY <1>2 DEF Capture, Link
<1>3. CASE Receive \/ Drain \/ NoKey \/ Snapshot \/ Wake \/ Backstop
  BY <1>3 DEF Receive, Drain, NoKey, Snapshot, Wake, Backstop, Move, Same
<1>4. CASE Healthy \/ Healed \/ Skip
  BY <1>4 DEF Healthy, Healed, Skip, Move, Record, Seconds
<1>5. ASSUME NEW e \in Bad, NEW ra \in RetryAfters, Fail(e, ra) PROVE LoopTyped'
  <2>1. backoff' \in 0 .. MaxBackoff
    BY <1>5, BackoffBounded DEF Fail
  <2>2. fails' \in Nat /\ phase' \in {"wait", "sleep"} /\ fixed' = fixed /\ sent' = sent
    BY <1>5 DEF Fail, Move
  <2>3. health' = [error |-> e, fails |-> fails', backoff |-> backoff']
    BY <1>5 DEF Fail, Record
  <2> QED BY <2>1, <2>2, <2>3
<1>6. CASE LineageDone \/ LineageSkip \/ LineageMark
  BY <1>6 DEF LineageDone, LineageSkip, LineageMark, Move, Same
<1>7. ASSUME NEW s \in Old, NEW stored \in BOOLEAN, NEW answered \in BOOLEAN,
             LineageChunk(s, stored, answered)
      PROVE  LoopTyped'
  BY <1>7 DEF LineageChunk
<1>8. CASE Crash
  BY <1>8 DEF Crash, Seconds
<1> QED BY <1>1, <1>2, <1>3, <1>4, <1>5, <1>6, <1>7, <1>8
        DEF Next, Step, Outcome, Lineage

\* The type invariant of the flush loop: the wait never exceeds the ceiling of the
\* ladder, whatever the cloud asks for with Retry-After (Backoff::next,
\* transient_wait), and neither does the one `doctor` reads.
THEOREM LoopIsTyped == ASSUME Seconds PROVE Spec => []TypeOK
<1>1. Init => LoopTyped
  BY LoopTypeInit
<1>2. LoopTyped /\ [Next]_vars => LoopTyped'
  BY LoopTypeStep
<1>3. LoopTyped => TypeOK
  BY DEF LoopTyped
<1> QED BY <1>1, <1>2, <1>3, PTL DEF Spec

LEMMA PresenceTypeInit == ASSUME 0 \in BeatHints PROVE PresenceInit => PresenceTypeOK
<1> SUFFICES ASSUME PresenceInit PROVE PresenceTypeOK
  OBVIOUS
<1>1. DeepTtl \in Nat /\ DeepTtl >= 2 /\ DeepAfter \in Nat
  BY PresenceConfig
<1> HIDE PresenceConfig
<1>2. quiet \in 0 .. DeepAfter /\ sleep \in 0 .. DeepTtl /\ acked \in 0 .. DeepTtl
  BY <1>1 DEF PresenceInit
<1>3. sentAge \in 0 .. Horizon /\ left \in -1 .. DeepTtl /\ owed \in -1 .. Horizon
  BY <1>1 DEF PresenceInit, Horizon
<1>4. shape \in Shapes /\ sentShape \in Shapes \cup {-1}
  BY DEF PresenceInit, Shapes
<1>5. doze \in BOOLEAN
  BY DEF PresenceInit
<1> QED BY <1>2, <1>3, <1>4, <1>5 DEF PresenceInit, PresenceTypeOK

LEMMA PresenceTypeStep ==
  ASSUME PresenceTypeOK, [PresenceNext]_presenceVars PROVE PresenceTypeOK'
<1> USE PresenceConfig DEF PresenceTypeOK, Shapes, Horizon, Smaller, Larger
<1>1. CASE UNCHANGED presenceVars
  BY <1>1 DEF presenceVars
<1>2. CASE Tick
  <2>1. post' \in [shape : Shapes, ttl : 1 .. DeepTtl, age : 0 .. 2, deep : BOOLEAN,
                   arrived : BOOLEAN, acks : BOOLEAN] \cup {NoPost}
    <3>1. CASE post = NoPost
      BY <1>2, <3>1 DEF Tick
    <3>2. CASE post # NoPost
      <4>1. post.age \in 0 .. 2 /\ post.age < 2 /\ post' = [post EXCEPT !.age = @ + 1]
        BY <1>2, <3>2 DEF Tick, Latency, Headroom
      <4> QED BY <3>2, <4>1
    <3> QED BY <3>1, <3>2
  <2>2. sleep' \in 0 .. DeepTtl
    BY <1>2 DEF Tick, Due
  <2> QED BY <1>2, <2>1, <2>2 DEF Tick, Older
<1>3. CASE Stale
  BY <1>3 DEF Stale
<1>4. ASSUME NEW c \in CloudCaps, NEW b \in BOOLEAN, Post(b, c) PROVE PresenceTypeOK'
  <2>1. Advertised \in 2 .. DeepTtl
    BY DEF Advertised
  <2>2. post'.ttl \in 1 .. DeepTtl /\ post' \in
          [shape : Shapes, ttl : 1 .. DeepTtl, age : 0 .. 2, deep : BOOLEAN,
           arrived : BOOLEAN, acks : BOOLEAN]
    BY <1>4, <2>1 DEF Post, DeepIdle
  <2> QED BY <1>4, <2>2 DEF Post, DeepIdle
<1>5. ASSUME NEW v \in Shapes, NEW b \in BOOLEAN, Event(v, b) PROVE PresenceTypeOK'
  BY <1>5 DEF Event, SleepAfter
<1>6. ASSUME NEW n \in 1 .. DeepTtl, SkipBeat(n) PROVE PresenceTypeOK'
  BY <1>6 DEF SkipBeat, DeepIdle
<1>7. ASSUME NEW n \in 1 .. DeepTtl, NEW h \in BeatHints, Answer(h, n)
      PROVE  PresenceTypeOK'
  BY <1>7 DEF Answer
<1>8. ASSUME NEW n \in 1 .. DeepTtl, NEW h \in BeatHints, PostRefused(h, n)
      PROVE  PresenceTypeOK'
  BY <1>8 DEF PostRefused
<1> QED BY <1>1, <1>2, <1>3, <1>4, <1>5, <1>6, <1>7, <1>8 DEF PresenceNext

\* A version and a run are bounded by the instance; an update has something to
\* install.
Counts == MaxVersion \in Nat \ {0} /\ MaxRuns \in Nat
\* What the update's and the check's own state hold, and that a failure is counted
\* once for each update started: also the stale count a racing check writes back.
CacheSet == [failures : 0 .. MaxRuns, latest : Versions]
Arguments ==
  /\ run \in [target : Versions, claims : Versions, restart : BOOLEAN,
              pinned : BOOLEAN, before : [Binaries -> Versions], alive : Versions]
  /\ cache \in CacheSet /\ check \in CacheSet \cup {Away}
Tried ==
  /\ runs \in 0 .. MaxRuns /\ (step # "idle" => runs > 0)
  /\ cache.failures <= runs /\ (step # "idle" => cache.failures < runs)
  /\ check # Away =>
       check.failures <= runs /\ (step # "idle" => check.failures < runs)
UpdateTyped == UpdateTypeOK /\ Arguments /\ Tried

LEMMA UpdateTypeInit == ASSUME Counts PROVE UpdateInit => UpdateTyped
<1> SUFFICES ASSUME UpdateInit PROVE UpdateTyped
  OBVIOUS
<1>1. 0 \in Versions /\ 1 \in Versions /\ 0 \in 0 .. MaxRuns
  BY DEF Counts, Versions
<1>2. UpdateTypeOK
  BY <1>1 DEF UpdateInit, UpdateTypeOK, Steps
<1>3. Arguments
  BY <1>1 DEF UpdateInit, Arguments, NoRun, CacheSet
<1>4. Tried
  BY <1>1 DEF UpdateInit, Tried
<1> QED BY <1>2, <1>3, <1>4 DEF UpdateTyped

LEMMA RestoreTyped ==
  ASSUME UpdateTypeOK, Restore PROVE disk' \in [Binaries -> Versions]
<1>1. \A b \in Binaries : Restored(b) \in Versions
  BY DEF UpdateTypeOK, Restored
<1> QED BY <1>1 DEF UpdateTypeOK, Restore, RestoreAll, RestoresAll, RestoreSome

\* Steps of the update that keep its arguments and its counts.
LEMMA KeepsTyped ==
  ASSUME UpdateTyped, step # "idle", step' # "idle" , step' \in Steps,
         result' \in {"ok", "error", "refused"}, running' \in Versions,
         disk' \in [Binaries -> Versions], bak' \in [Binaries -> Versions],
         UNCHANGED <<run, cache, check, runs>>
  PROVE  UpdateTyped'
<1>1. UpdateTypeOK'
  BY DEF UpdateTyped, UpdateTypeOK
<1>2. Arguments'
  BY DEF UpdateTyped, Arguments, CacheSet, Versions
<1>3. Tried'
  BY DEF UpdateTyped, Tried
<1> QED BY <1>1, <1>2, <1>3 DEF UpdateTyped

LEMMA FilesTyped ==
  ASSUME Counts, UpdateTyped
  PROVE  /\ \A b \in Binaries : /\ Linked(b) \in Versions /\ StillThere(b) \in Versions
                                /\ Content(b) \in Versions
                                /\ Aside(b) \in Steps /\ AfterSwap(b) \in Steps
                                /\ Aside(b) # "idle" /\ AfterSwap(b) # "idle"
                                /\ SwapStep(b) # "idle"
         /\ 0 \in Versions /\ 1 \in Versions /\ disk["dirad"] \in Versions
<1>1. 0 \in Versions /\ 1 \in Versions
  BY DEF Counts, Versions
<1>2. \A b \in Binaries : disk[b] \in Versions /\ bak[b] \in Versions
  BY DEF UpdateTyped, UpdateTypeOK
<1>3. run.claims \in Versions /\ run.target \in Versions
  BY DEF UpdateTyped, Arguments
<1> QED BY <1>1, <1>2, <1>3
        DEF Linked, StillThere, Content, Aside, AfterSwap, SwapStep, Steps, Binaries

LEMMA WorkTyped ==
  ASSUME Counts, UpdateTyped,
         \/ Download \/ DownloadFails \/ Backup \/ \E b \in Binaries : BackupFails(b)
         \/ \E b \in Binaries : Swap(b) \/ SwapFails(b) \/ MoveAside(b) \/ SwapAside(b)
                                \/ SwapAsideFails(b)
         \/ Verify \/ RollBack \/ RestartOk \/ RestartFails \/ DropBackups
  PROVE  UpdateTyped'
<1> USE FilesTyped
<1>0. /\ disk \in [Binaries -> Versions] /\ bak \in [Binaries -> Versions]
      /\ running \in Versions /\ result \in {"ok", "error", "refused"}
  BY DEF UpdateTyped, UpdateTypeOK
<1>1. step # "idle" /\ step' # "idle" /\ step' \in Steps
  BY DEF Download, DownloadFails, Backup, BackupFails, Swap, SwapFails, MoveAside,
         SwapAside, SwapAsideFails, Verify, RollBack, RestartOk, RestartFails,
         DropBackups, Goes, Ends, Steps
<1>2. result' \in {"ok", "error", "refused"}
  BY <1>0 DEF Download, DownloadFails, Backup, BackupFails, Swap, SwapFails, MoveAside,
         SwapAside, SwapAsideFails, Verify, RollBack, RestartOk, RestartFails,
         DropBackups, Ends
<1>3. running' \in Versions
  BY <1>0 DEF Download, DownloadFails, Backup, BackupFails, Swap, SwapFails, MoveAside,
         SwapAside, SwapAsideFails, Verify, RollBack, RestartOk, RestartFails,
         DropBackups, Around, Started
<1>4. UNCHANGED <<run, cache, check, runs>>
  BY DEF Download, DownloadFails, Backup, BackupFails, Swap, SwapFails, MoveAside,
         SwapAside, SwapAsideFails, Verify, RollBack, RestartOk, RestartFails,
         DropBackups, Around
<1>5. Restore => disk' \in [Binaries -> Versions]
  BY RestoreTyped DEF UpdateTyped
<1>6. disk' \in [Binaries -> Versions]
  BY <1>0, <1>5 DEF Download, DownloadFails, Backup, BackupFails, Swap, SwapFails,
         MoveAside, SwapAside, SwapAsideFails, Verify, RollBack, RestartOk,
         RestartFails, DropBackups, Files
<1>7. bak' \in [Binaries -> Versions]
  BY <1>0 DEF Download, DownloadFails, Backup, BackupFails, Swap, SwapFails,
         MoveAside, SwapAside, SwapAsideFails, Verify, RollBack, RestartOk,
         RestartFails, DropBackups, Files
<1> QED BY <1>1, <1>2, <1>3, <1>4, <1>6, <1>7, KeepsTyped

LEMMA ReportTyped == ASSUME Counts, UpdateTyped, Report PROVE UpdateTyped'
<1>0. 0 \in Versions
  BY FilesTyped
<1>1. cache.failures \in 0 .. MaxRuns /\ cache.failures < runs /\ runs \in 0 .. MaxRuns
  BY DEF UpdateTyped, Arguments, CacheSet, Tried, Report, Goes
<1>2. Counted(cache.failures) \in 0 .. runs
  BY <1>1 DEF Counted, Counts
<1>3. cache' \in CacheSet /\ cache'.failures <= runs /\ cache'.latest = cache.latest
  BY <1>1, <1>2 DEF UpdateTyped, Arguments, CacheSet, Report, Counts
<1>4. /\ step' = "idle" /\ run' = NoRun /\ UNCHANGED <<result, running, check, runs>>
      /\ UNCHANGED <<disk, bak>>
  BY DEF Report, Goes, Files
<1>5. UpdateTypeOK'
  BY <1>3, <1>4 DEF UpdateTyped, UpdateTypeOK, Steps, Arguments, CacheSet
<1>6. NoRun \in [target : Versions, claims : Versions, restart : BOOLEAN,
              pinned : BOOLEAN, before : [Binaries -> Versions], alive : Versions]
  BY <1>0 DEF NoRun
<1>7. Arguments'
  BY <1>3, <1>4, <1>6 DEF UpdateTyped, Arguments, CacheSet, Versions
<1>8. Tried'
  BY <1>3, <1>4 DEF UpdateTyped, Tried
<1> QED BY <1>5, <1>7, <1>8 DEF UpdateTyped

LEMMA StartTyped ==
  ASSUME Counts, UpdateTyped, NEW t \in Versions \ {0}, NEW c \in Versions \ {0},
         NEW r \in BOOLEAN, NEW p \in BOOLEAN, UpdateStarts(t, c, r, p)
  PROVE  UpdateTyped'
<1>1. /\ step' \in {"report", "download"} /\ result' \in {"ok", "refused"}
      /\ UNCHANGED <<disk, bak, running, cache, check>>
      /\ runs' = runs + 1 /\ runs < MaxRuns /\ step = "idle"
  BY DEF UpdateStarts, Files
<1>2. run' \in [target : Versions, claims : Versions, restart : BOOLEAN,
              pinned : BOOLEAN, before : [Binaries -> Versions], alive : Versions]
  BY DEF UpdateStarts, UpdateTyped, UpdateTypeOK
<1>3. UpdateTypeOK'
  BY <1>1 DEF UpdateTyped, UpdateTypeOK, Steps
<1>4. Arguments'
  BY <1>1, <1>2 DEF UpdateTyped, Arguments, CacheSet, Versions
<1>5. cache.failures \in Nat /\ (check # Away => check.failures \in Nat) /\ runs \in Nat
  BY DEF UpdateTyped, Arguments, CacheSet, Tried, Counts
<1>6. Tried'
  BY <1>1, <1>5 DEF UpdateTyped, Tried, Counts
<1> QED BY <1>3, <1>4, <1>6 DEF UpdateTyped

LEMMA CheckTyped ==
  ASSUME Counts, UpdateTyped, CheckStarts \/ \E l \in Versions : CheckRecords(l)
  PROVE  UpdateTyped'
<1>0. 0 \in Versions
  BY FilesTyped
<1>1. UNCHANGED <<disk, bak, running, step, run, result, runs>>
  BY DEF CheckStarts, CheckRecords
<1>2. /\ cache' \in CacheSet /\ check' \in CacheSet \cup {Away}
      /\ (cache'.failures = cache.failures
          \/ (check # Away /\ cache'.failures = check.failures))
      /\ (check' # Away => check'.failures = cache.failures)
  <2>1. CASE CheckStarts
    <3>1. cache.failures \in 0 .. MaxRuns
      BY DEF UpdateTyped, Arguments, CacheSet
    <3>2. Sentinel \in CacheSet /\ Sentinel.failures = cache.failures
      BY <3>1, <1>0 DEF Sentinel, CacheSet
    <3>3. cache' = Sentinel /\ check' = Sentinel
      BY <2>1 DEF CheckStarts
    <3>4. cache' \in CacheSet /\ check' \in CacheSet
      BY <3>2, <3>3
    <3>5. cache'.failures = cache.failures /\ check'.failures = cache.failures
      BY <3>2, <3>3
    <3> QED BY <3>4, <3>5
  <2>2. ASSUME NEW l \in Versions, CheckRecords(l), cache' = [cache EXCEPT !.latest = l]
        PROVE  cache' \in CacheSet /\ cache'.failures = cache.failures
    BY <2>2 DEF UpdateTyped, Arguments, CacheSet
  <2>3. ASSUME NEW l \in Versions, CheckRecords(l), cache' = [check EXCEPT !.latest = l]
        PROVE  /\ cache' \in CacheSet /\ check # Away
               /\ cache'.failures = check.failures
    BY <2>3 DEF CheckRecords, UpdateTyped, Arguments, CacheSet
  <2>4. ASSUME NEW l \in Versions, CheckRecords(l)
        PROVE  /\ check' = Away
               /\ cache' = [cache EXCEPT !.latest = l] \/ cache' = [check EXCEPT !.latest = l]
    BY <2>4 DEF CheckRecords
  <2>5. ASSUME NEW l \in Versions, CheckRecords(l)
        PROVE  /\ cache' \in CacheSet
               /\ (cache'.failures = cache.failures
                   \/ (check # Away /\ cache'.failures = check.failures))
    BY <2>2, <2>3, <2>4, <2>5
  <2> QED BY <2>1, <2>4, <2>5
<1>3. UpdateTypeOK'
  BY <1>1, <1>2 DEF UpdateTyped, UpdateTypeOK, CacheSet
<1>4. Arguments'
  BY <1>1, <1>2 DEF UpdateTyped, Arguments, CacheSet, Versions
<1>5. Tried'
  BY <1>1, <1>2 DEF UpdateTyped, Tried
<1> QED BY <1>3, <1>4, <1>5 DEF UpdateTyped

LEMMA UpdateTypeStep ==
  ASSUME Counts, UpdateTyped, [UpdateNext]_updateVars PROVE UpdateTyped'
<1>1. CASE UNCHANGED updateVars
  BY <1>1 DEF updateVars, UpdateTyped, UpdateTypeOK, Arguments, CacheSet, Tried, Versions
<1>2. CASE UpdateKilled
  <2>1. /\ step' = "idle" /\ run' = NoRun
        /\ UNCHANGED <<result, running, cache, check, runs, disk, bak>>
    BY <1>2 DEF UpdateKilled, Files
  <2>2. UpdateTypeOK'
    BY <2>1 DEF UpdateTyped, UpdateTypeOK, Steps
  <2>3. NoRun \in [target : Versions, claims : Versions, restart : BOOLEAN,
              pinned : BOOLEAN, before : [Binaries -> Versions], alive : Versions]
    BY FilesTyped DEF NoRun
  <2>4. Arguments'
    BY <2>1, <2>3 DEF UpdateTyped, Arguments, CacheSet, Versions
  <2>5. Tried'
    BY <2>1 DEF UpdateTyped, Tried
  <2> QED BY <2>2, <2>4, <2>5 DEF UpdateTyped
<1> QED BY <1>1, <1>2, WorkTyped, ReportTyped, StartTyped, CheckTyped DEF UpdateNext

\* The types of the update's state: the versions on disk are versions, and the
\* notice counts no more failures than updates were started, also when a racing
\* check writes an old count back (update.rs run, Report; maybe_print).
THEOREM UpdateIsTyped == ASSUME Counts PROVE UpdateSpec => []UpdateTypeOK
<1>1. UpdateInit => UpdateTyped
  BY UpdateTypeInit
<1>2. UpdateTyped /\ [UpdateNext]_updateVars => UpdateTyped'
  BY UpdateTypeStep
<1>3. UpdateTyped => UpdateTypeOK
  BY DEF UpdateTyped
<1> QED BY <1>1, <1>2, <1>3, PTL DEF UpdateSpec

LEMMA BillTypeInit == Billed!Init => Billed!TypeOK
<1> SUFFICES ASSUME Billed!Init PROVE Billed!TypeOK
  OBVIOUS
<1> USE DEF Billed!Init
<1>1. idle \in 0 .. 4 /\ timer \in 0 .. 6 /\ hold \in 0 .. 5
  OBVIOUS
<1>2. mode \in {"due", "fetch", "select", "delay"}
  OBVIOUS
<1>3. {open, unsent, behind, permit, covered} \subseteq BOOLEAN
  OBVIOUS
<1>4. fetched \in [still : BOOLEAN, same : BOOLEAN]
  OBVIOUS
<1> QED BY <1>1, <1>2, <1>3, <1>4 DEF Billed!TypeOK, Billed!MaxHold

\* The booleans and the numbers of a state each have their own step in the proofs.
BillFlags ==
  /\ {open, unsent, behind, permit, covered} \subseteq BOOLEAN
  /\ fetched \in [still : BOOLEAN, same : BOOLEAN]
BillTimes ==
  /\ idle \in 0 .. 4 /\ mode \in {"due", "fetch", "select", "delay"}
  /\ timer \in 0 .. 6 /\ hold \in 0 .. 5

LEMMA BillFlagsStep == ASSUME BillFlags, [Billed!Next]_billing PROVE BillFlags'
<1> USE DEF BillFlags
<1>0. /\ open \in BOOLEAN /\ unsent \in BOOLEAN /\ behind \in BOOLEAN
      /\ permit \in BOOLEAN /\ covered \in BOOLEAN
      /\ fetched \in [still : BOOLEAN, same : BOOLEAN] /\ fetched.still \in BOOLEAN
  OBVIOUS
<1>1. CASE UNCHANGED billing
  BY <1>0, <1>1 DEF billing
<1>2. ASSUME NEW b \in BOOLEAN, Billed!Activity(b) PROVE BillFlags'
  <2>1. fetched' = [fetched EXCEPT !.still = FALSE]
    BY <1>2 DEF Billed!Activity
  <2>2. fetched' \in [still : BOOLEAN, same : BOOLEAN]
    BY <1>0, <2>1
  <2> QED BY <1>0, <1>2, <2>2, Zenon DEF Billed!Activity
<1>3. CASE Billed!Flush
  <2>1. fetched' = [fetched EXCEPT !.same = FALSE]
    BY <1>3 DEF Billed!Flush
  <2>2. fetched' \in [still : BOOLEAN, same : BOOLEAN]
    BY <1>0, <2>1
  <2> QED BY <1>0, <1>3, <2>2, Zenon DEF Billed!Flush
<1>4. CASE Billed!Stale
  BY <1>0, <1>4, Zenon DEF Billed!Stale
<1>5. CASE Billed!Restart
  BY <1>0, <1>5, Zenon DEF Billed!Restart
<1>6. CASE Billed!Tick
  BY <1>0, <1>6, Zenon DEF Billed!Tick
<1>7. CASE Billed!Notified \/ Billed!Elapsed
  BY <1>0, <1>7, Zenon DEF Billed!Notified, Billed!Elapsed
<1>8. CASE Billed!Fetch
  <2>1. fetched' = [still |-> TRUE, same |-> TRUE]
    BY <1>8 DEF Billed!Fetch
  <2>2. fetched' \in [still : BOOLEAN, same : BOOLEAN]
    BY <2>1
  <2> QED BY <1>0, <1>8, <2>2, Zenon DEF Billed!Fetch
<1>9. ASSUME NEW d \in Billed!Jittered, Billed!Skip(d) PROVE BillFlags'
  BY <1>0, <1>9, Zenon DEF Billed!Skip
<1>10. ASSUME NEW d \in Billed!Jittered, Billed!Answer(d) PROVE BillFlags'
  <2>1. behind' = (behind /\ ~fetched.same) /\ covered' = fetched.still
        /\ UNCHANGED <<open, unsent, permit, fetched>>
    BY <1>10 DEF Billed!Answer, Billed!Covered, Billed!CoveredByAnswer
  <2>2. behind' \in BOOLEAN
    BY <2>1
  <2> QED BY <1>0, <2>1, <2>2, Zenon
<1>11. ASSUME NEW d \in Billed!Jittered, NEW ra \in {0, 3}, Billed!Failure(ra, d)
       PROVE  BillFlags'
  <2>1. covered' = covered /\ UNCHANGED <<open, unsent, behind, permit, fetched>>
    BY <1>11 DEF Billed!Failure, Billed!Covered, Billed!CoveredByAnswer
  <2> QED BY <1>0, <2>1, Zenon
<1> QED BY <1>1, <1>2, <1>3, <1>4, <1>5, <1>6, <1>7, <1>8, <1>9, <1>10, <1>11
        DEF Billed!Next

LEMMA BillTimesStep == ASSUME BillTimes, [Billed!Next]_billing PROVE BillTimes'
<1> USE DEF BillTimes
<1>1. CASE UNCHANGED billing
  BY <1>1 DEF billing
<1>2. ASSUME NEW b \in BOOLEAN, Billed!Activity(b) PROVE BillTimes'
  BY <1>2 DEF Billed!Activity
<1>3. CASE Billed!Stale \/ Billed!Flush \/ Billed!Restart
  BY <1>3 DEF Billed!Stale, Billed!Flush, Billed!Restart
<1>4. CASE Billed!Tick
  BY <1>4 DEF Billed!Tick, Billed!Less
<1>5. CASE Billed!Notified \/ Billed!Elapsed \/ Billed!Fetch
  BY <1>5 DEF Billed!Notified, Billed!Elapsed, Billed!Fetch, Billed!Delay
<1>6. ASSUME NEW d \in Billed!Jittered, Billed!Skip(d) \/ Billed!Answer(d)
      PROVE  BillTimes'
  <2>1. UNCHANGED <<idle, hold>> /\ mode' = "select" /\ timer' = d
    BY <1>6, Zenon DEF Billed!Skip, Billed!Answer, Billed!Wait
  <2>2. d \in 4 .. 6
    BY DEF Billed!Jittered
  <2> QED BY <2>1, <2>2
<1>7. ASSUME NEW d \in Billed!Jittered, NEW ra \in {0, 3}, Billed!Failure(ra, d)
      PROVE  BillTimes'
  BY <1>7 DEF Billed!Failure, Billed!Wait, Billed!Jittered, Billed!Most
<1> QED BY <1>1, <1>2, <1>3, <1>4, <1>5, <1>6, <1>7 DEF Billed!Next

LEMMA BillTypeSplit == Billed!TypeOK <=> BillFlags /\ BillTimes
BY DEF Billed!TypeOK, Billed!MaxHold, BillFlags, BillTimes

LEMMA BillTypeStep == ASSUME Billed!TypeOK, [Billed!Next]_billing PROVE Billed!TypeOK'
<1>1. BillFlags /\ BillTimes
  BY BillTypeSplit
<1>2. BillFlags' /\ BillTimes'
  BY <1>1, BillFlagsStep, BillTimesStep
<1> QED BY <1>2 DEF Billed!TypeOK, Billed!MaxHold, BillFlags, BillTimes

HostTyped ==
  LoopTyped /\ LifeTypeOK /\ UpdateTyped /\ PresenceTypeOK /\ Billed!TypeOK

LEMMA HostTypeInit ==
  ASSUME Seconds, Counts, MaxPid \in Nat, 0 \in BeatHints PROVE HostInit => HostTyped
<1>1. LifeInit => LifeTypeOK
  BY DEF LifeInit, LifeTypeOK, Stages, Idle, Pids
<1> QED BY <1>1, LoopTypeInit, UpdateTypeInit, PresenceTypeInit, BillTypeInit
        DEF HostInit, HostTyped

LEMMA HostTypeStep ==
  ASSUME Seconds, Counts, MaxPid \in Nat, HostTyped, [HostNext]_hostVars
  PROVE  HostTyped'
<1>1. [Next]_vars /\ [LifeNext]_lifeVars /\ [UpdateNext]_updateVars
      /\ [PresenceNext]_presenceVars /\ [Billed!Next]_billing
  BY DEF HostNext, hostVars, Alone
<1>2. LoopTyped'
  BY <1>1, LoopTypeStep DEF HostTyped
<1>3. LifeTypeOK'
  BY <1>1, TypeStep DEF HostTyped
<1>4. UpdateTyped'
  BY <1>1, UpdateTypeStep DEF HostTyped
<1>5. PresenceTypeOK'
  BY <1>1, PresenceTypeStep DEF HostTyped
<1>6. Billed!TypeOK'
  BY <1>1, BillTypeStep DEF HostTyped
<1> QED BY <1>2, <1>3, <1>4, <1>5, <1>6 DEF HostTyped

\* What the composed run checks of every part: the types of the flush loop, the
\* heartbeat, the daemon's life, its update and the billing task are kept by every
\* step of whichever part runs, under all hazards.  The constants of the billing
\* task are those of the instance.
THEOREM HostIsTyped ==
  ASSUME Seconds, Counts, MaxPid \in Nat, 0 \in BeatHints
  PROVE  HostSpec => []TypesOK
<1>1. HostInit => HostTyped
  BY HostTypeInit
<1>2. HostTyped /\ [HostNext]_hostVars => HostTyped'
  BY HostTypeStep
<1>3. HostTyped => TypesOK
  BY DEF HostTyped, LoopTyped, UpdateTyped, TypesOK
<1> QED BY <1>1, <1>2, <1>3, PTL DEF HostSpec

================================================================================
