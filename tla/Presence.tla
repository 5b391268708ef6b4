------------------------------- MODULE Presence -------------------------------
(***************************************************************************)
(* The heartbeat (heartbeat.rs): how long to sleep between two presence    *)
(* beats, when a beat may be skipped because the cloud already shows the   *)
(* same picture, and what the cloud's answer changes.  The cloud shows a   *)
(* device until the time-to-live of the last beat it received runs out.    *)
(*                                                                         *)
(* Time is counted in units of five seconds, as ages and remaining times,  *)
(* so that no clock is needed.  PresenceHazards: "slow_post" (an answer    *)
(* takes longer than the headroom below the time-to-live), "busy_wake" (a  *)
(* wake comes while a beat is under way; notify_waiters keeps no permit),  *)
(* "silent_return" (a session comes back with an event that wakes nobody). *)
(***************************************************************************)
EXTENDS Integers

CONSTANTS
  ActiveCadence, IdleCadence, Ttl, DeepTtl, DeepAfter,  \* the configuration
  CloudCaps,   \* the cloud clamps to one of these, 0: it sends none
  BeatHints,   \* next_beat_hint_secs and Retry-After, 0 when absent
  PresenceHazards

\* The time-to-live is ten seconds at least, and the deep-idle one is clamped to
\* no less (presence_ttl_deep_idle); a cloud clamps to no less than ten seconds.
ASSUME PresenceConfig ==
  /\ {ActiveCadence, IdleCadence, DeepAfter, Ttl, DeepTtl} \subseteq Nat
  /\ 1 < Ttl /\ Ttl <= DeepTtl
  /\ CloudCaps \subseteq Nat \ {1} /\ BeatHints \subseteq Nat

Margin == 3      \* DEDUP_SKIP_MARGIN
Headroom == 1    \* ttl_ceiling_std's five seconds
Latency == IF "slow_post" \in PresenceHazards THEN 2 ELSE Headroom  \* HTTP_TIMEOUT

VARIABLES
  shape,     \* the session snapshot: 0 is the empty one
  quiet,     \* age of the newest event
  sleep,     \* what is left of the sleep; 0: a beat is due
  doze,      \* the last beat found the device deep idle
  post,      \* the POST under way, or NoPost
  sentShape, \* last_sent_sessions, -1 before the first success
  sentAge,   \* age of last_sent_at
  acked, hint, \* presence_hints
  left,      \* the cloud: what is left of the time-to-live
  failedPosts, \* history: a POST failed since the last success
  owed       \* history: age of the oldest lifecycle event no beat answered, -1

presenceVars == <<shape, quiet, sleep, doze, post, sentShape, sentAge, acked, hint, left,
          failedPosts, owed>>

NoPost == [shape |-> -1, ttl |-> 0, age |-> 0, deep |-> FALSE,
           arrived |-> FALSE, acks |-> FALSE]
Shapes == 0 .. 1
Smaller(a, b) == IF a < b THEN a ELSE b
Larger(a, b) == IF a > b THEN a ELSE b
Horizon == DeepTtl

PresenceTypeOK ==
  /\ shape \in Shapes /\ quiet \in 0 .. DeepAfter
  /\ sleep \in 0 .. DeepTtl /\ doze \in BOOLEAN
  /\ post \in [shape : Shapes, ttl : 1 .. DeepTtl, age : 0 .. 2,
               deep : BOOLEAN,
               arrived : BOOLEAN, acks : BOOLEAN] \cup {NoPost}
  /\ sentShape \in Shapes \cup {-1} /\ sentAge \in 0 .. Horizon
  /\ acked \in 0 .. DeepTtl /\ hint \in BeatHints
  /\ left \in -1 .. DeepTtl /\ owed \in -1 .. Horizon

PresenceInit ==
  /\ shape = 0 /\ quiet = 0 /\ sleep = 0 /\ doze = FALSE /\ post = NoPost
  /\ sentShape = -1 /\ sentAge = 0 /\ acked = 0 /\ hint = 0
  /\ left = -1 /\ failedPosts = TRUE /\ owed = -1

--------------------------------------------------------------------------------
(* The pacing *)

DeepIdle == shape = 0 /\ quiet >= DeepAfter
Advertised == IF DeepIdle THEN DeepTtl ELSE Ttl
\* dedup_ttl_secs
Window(ttl) == IF acked > 0 THEN Smaller(ttl, acked) ELSE ttl
\* effective_ttl_secs
EffectiveTtl(deep, ak) ==
  IF ak = 0 THEN (IF deep THEN DeepTtl ELSE Ttl)
  ELSE IF deep THEN Smaller(DeepTtl, ak) ELSE ak
\* ttl_ceiling_std
Ceiling(ttl) == Larger(Larger(ttl - Headroom, ttl \div 2), 1)
\* select_cadence_base; the beat decided whether it is deep idle, or busy
CadenceBase(deep, busy, noop, ak, h) ==
  IF deep THEN Ceiling(EffectiveTtl(deep, ak))
  ELSE IF h > 0 THEN h
  ELSE IF ~noop /\ busy THEN ActiveCadence
  ELSE IdleCadence
Spread(d) == (d + 9) \div 10
\* jittered_cadence, and the upper bound the skip check reckons with
Cadences(deep, busy, noop, ak, h) ==
  LET base == CadenceBase(deep, busy, noop, ak, h) IN
  {Larger(1, Smaller(d, Ceiling(EffectiveTtl(deep, ak)))) :
     d \in base - Spread(base) .. base + Spread(base)}
CadenceBound ==
  LET base == CadenceBase(DeepIdle, shape # 0, FALSE, acked, hint) IN
  Smaller(base + Spread(base), Ceiling(EffectiveTtl(DeepIdle, acked)))

SafeByBareTtl == sentAge < Window(Advertised)
SafeToSkip == sentAge + CadenceBound + Margin < Window(Advertised)

--------------------------------------------------------------------------------
(* The world *)

Due == sleep = 0 /\ post = NoPost
Older(age, cap) == Smaller(age + 1, cap)

Tick ==
  /\ ~Due
  /\ post # NoPost => post.age < Latency
  /\ sleep' = (IF post = NoPost THEN sleep - 1 ELSE 0)
  /\ post' = (IF post = NoPost THEN post ELSE [post EXCEPT !.age = @ + 1])
  /\ quiet' = Older(quiet, DeepAfter) /\ sentAge' = Older(sentAge, Horizon)
  /\ left' = Larger(left - 1, -1)
  /\ owed' = (IF owed = -1 THEN -1 ELSE Older(owed, Horizon))
  /\ UNCHANGED <<shape, doze, sentShape, acked, hint, failedPosts>>

\* An event; one of a session's bookends wakes the sleeper.
SleepsThrough(lifecycle) == sleep
SleepAfter(lifecycle) == IF lifecycle THEN 0 ELSE sleep
Event(v, lifecycle) ==
  /\ quiet' = 0 /\ shape' = v
  /\ lifecycle => "busy_wake" \in PresenceHazards \/ post = NoPost
  /\ v # shape /\ doze => lifecycle \/ "silent_return" \in PresenceHazards
  /\ sleep' = SleepAfter(lifecycle)
  /\ owed' = (IF owed = -1 /\ (lifecycle \/ v # shape) THEN 0 ELSE owed)
  /\ UNCHANGED <<doze, post, sentShape, sentAge, acked, hint, left, failedPosts>>

\* Sessions go stale without an event.
Stale ==
  /\ shape # 0 /\ shape' = 0
  /\ UNCHANGED <<quiet, sleep, doze, post, sentShape, sentAge, acked, hint, left,
                 failedPosts, owed>>

--------------------------------------------------------------------------------
(* beat *)

SkipBeat(next) ==
  /\ Due /\ shape = sentShape /\ SafeToSkip
  /\ next \in Cadences(DeepIdle, shape # 0, FALSE, acked, hint)
  /\ sleep' = next /\ doze' = DeepIdle /\ owed' = -1
  /\ UNCHANGED <<shape, quiet, post, sentShape, sentAge, acked, hint, left,
                 failedPosts>>

\* The request reaches the cloud at once or never; its answer takes a while.
Post(arrives, cap) ==
  /\ Due /\ ~(shape = sentShape /\ SafeToSkip)
  /\ post' = [shape |-> shape, age |-> 0, deep |-> DeepIdle, arrived |-> arrives,
              ttl |-> IF cap = 0 THEN Advertised ELSE Smaller(Advertised, cap),
              acks |-> cap # 0]
  /\ left' = (IF arrives THEN post'.ttl ELSE left)
  /\ failedPosts' = (failedPosts \/ ~arrives)
  /\ doze' = DeepIdle /\ owed' = -1
  /\ UNCHANGED <<shape, quiet, sleep, sentShape, sentAge, acked, hint>>


\* 2xx: the answer brings the clamped time-to-live and the cloud's hint.
Answer(h, next) ==
  LET ak == IF post.acks THEN post.ttl ELSE 0 IN
  /\ post # NoPost /\ post.arrived
  /\ next \in Cadences(post.deep, post.shape # 0, FALSE, ak, h)
  /\ sentShape' = post.shape /\ sentAge' = 0
  /\ acked' = ak /\ hint' = h
  /\ failedPosts' = FALSE
  /\ post' = NoPost /\ sleep' = next
  /\ UNCHANGED <<shape, quiet, doze, left, owed>>

\* 429 keeps a Retry-After as the next hint; any other failure keeps nothing.
PostRefused(h, next) ==
  /\ post # NoPost
  /\ hint' = (IF h > 0 THEN h ELSE hint)
  /\ next \in Cadences(post.deep, post.shape # 0, TRUE, acked, hint')
  /\ failedPosts' = TRUE
  /\ post' = NoPost /\ sleep' = next
  /\ UNCHANGED <<shape, quiet, doze, sentShape, sentAge, acked, left, owed>>

PresenceNext ==
  \/ Tick \/ Stale
  \/ \E c \in CloudCaps, b \in BOOLEAN : Post(b, c)
  \/ \E v \in Shapes, b \in BOOLEAN : Event(v, b)
  \/ \E n \in 1 .. DeepTtl :
       \/ SkipBeat(n)
       \/ \E h \in BeatHints :
            Answer(h, n) \/ PostRefused(h, n)

--------------------------------------------------------------------------------
\* As long as beats are answered, the cloud never lets a running device lapse:
\* not when beats are skipped, not at the change to and from deep idle, not
\* with a hint longer than the time-to-live.
PresenceKept == ~failedPosts => left >= 0

\* What changed is beaten out within the ordinary idle cadence: no change waits
\* out a deep-idle sleep.  After a POST that failed the time-to-live the cloud
\* acknowledged last counts, which may still be the deep-idle one.
ChangeIsTold ==
  owed <= Larger(IdleCadence + Spread(IdleCadence),
                 Ceiling(IF failedPosts THEN Larger(Ttl, acked) ELSE Ttl)) + Latency

================================================================================
