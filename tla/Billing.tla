-------------------------------- MODULE Billing -------------------------------
(***************************************************************************)
(* The billing-summary task (billing.rs): when the daemon asks the cloud   *)
(* for the priced summary that `dira status` shows, and when it does not:  *)
(* within the minimum gap of the last attempt, and while the device is     *)
(* deep idle and the cache looks as new as the newest activity.            *)
(*                                                                         *)
(* Time is counted in POST_SYNC_DELAYs of thirty seconds.  Hazard:         *)
(* "early_fetch" (a fetch is answered after an event and before the flush  *)
(* that carries it).                                                       *)
(***************************************************************************)
EXTENDS Naturals

CONSTANTS
  Gap, Interval, DeepAfter,   \* MIN_FETCH_GAP, REFRESH_INTERVAL, deep_idle_after
  RetryAfters,                \* of a 429, 0 when absent
  MaxRestarts, Hazards

Delay == 1                    \* POST_SYNC_DELAY

VARIABLES
  quiet,   \* age of the newest event of the registry
  open,    \* a session counts as active
  unsent,  \* captured work the cloud does not have
  behind,  \* the cloud's summary differs from the cached one
  permit,  \* billing_refresh holds its one permit
  mode,    \* "due", "fetch", "select", "delay"
  timer,   \* of "select" and "delay"
  hold,    \* no attempt before this has passed: last_attempt and the gap
  covered, \* last_success is no older than the newest activity
  asked,   \* the fetch under way: no activity, and no flush, since it began
  restarts

vars == <<quiet, open, unsent, behind, permit, mode, timer, hold, covered, asked,
          restarts>>

Most(a, b) == IF a > b THEN a ELSE b
MaxHold == Interval

TypeOK ==
  /\ quiet \in 0 .. DeepAfter /\ mode \in {"due", "fetch", "select", "delay"}
  /\ timer \in 0 .. Interval + 1 /\ hold \in 0 .. MaxHold
  /\ {open, unsent, behind, permit, covered} \subseteq BOOLEAN
  /\ asked \in [still : BOOLEAN, same : BOOLEAN]

Init ==
  /\ quiet = DeepAfter /\ open = FALSE /\ unsent = FALSE /\ behind \in BOOLEAN
  /\ permit = FALSE /\ mode = "due" /\ timer = 0 /\ hold = 0 /\ covered = FALSE
  /\ asked = [still |-> TRUE, same |-> TRUE]
  /\ restarts = 0

--------------------------------------------------------------------------------
(* The rest of the daemon *)

\* Of the events of one unit the last counts.
Activity(b) ==
  /\ quiet > 0
  /\ quiet' = 0 /\ open' = b /\ unsent' = TRUE
  /\ covered' = FALSE /\ asked' = [asked EXCEPT !.still = FALSE]
  /\ UNCHANGED <<behind, permit, mode, timer, hold, restarts>>

Stale ==
  /\ open /\ open' = FALSE
  /\ UNCHANGED <<quiet, unsent, behind, permit, mode, timer, hold, covered, asked,
                 restarts>>

\* A flush was accepted (sync.rs run); the cloud prices it at once.
Flush ==
  /\ unsent /\ unsent' = FALSE
  /\ behind' = TRUE /\ permit' = TRUE
  /\ asked' = [asked EXCEPT !.same = FALSE]
  /\ UNCHANGED <<quiet, open, mode, timer, hold, covered, restarts>>

Less(n) == IF n = 0 THEN 0 ELSE n - 1

Tick ==
  /\ mode = "delay" \/ (mode = "select" /\ ~permit)
  /\ timer > 0
  /\ quiet' = (IF quiet < DeepAfter THEN quiet + 1 ELSE quiet)
  /\ timer' = timer - 1 /\ hold' = Less(hold)
  /\ UNCHANGED <<open, unsent, behind, permit, mode, covered, asked,
                 restarts>>

Restart ==
  /\ restarts < MaxRestarts /\ restarts' = restarts + 1
  /\ quiet' = DeepAfter /\ open' = FALSE   \* the registry starts empty
  /\ permit' = FALSE /\ mode' = "due" /\ timer' = 0 /\ hold' = 0
  /\ covered' = FALSE
  /\ UNCHANGED <<unsent, behind, asked>>

--------------------------------------------------------------------------------
(* run and fetch_once *)

\* select!: a permit, then the delay; or the refresh interval, jittered.
Notified ==
  /\ mode = "select" /\ permit
  /\ mode' = "delay" /\ timer' = Delay /\ permit' = FALSE
  /\ UNCHANGED <<quiet, open, unsent, behind, hold, covered, asked,
                 restarts>>
Elapsed ==
  /\ mode \in {"select", "delay"} /\ timer = 0
  /\ mode' = "due"
  /\ UNCHANGED <<quiet, open, unsent, behind, permit, timer, hold, covered, asked,
                 restarts>>

Jittered == Interval - 1 .. Interval + 1
Wait(d) == mode' = "select" /\ timer' = d

DeepIdle == ~open /\ quiet = DeepAfter
\* should_skip_deep_idle_fetch
ShouldSkip == DeepIdle /\ covered

Skip(d) ==
  /\ mode = "due" /\ (hold > 0 \/ ShouldSkip)
  /\ Wait(d)
  /\ UNCHANGED <<quiet, open, unsent, behind, permit, hold, covered, asked,
                 restarts>>

Fetch ==
  /\ mode = "due" /\ hold = 0 /\ ~ShouldSkip
  /\ ~unsent \/ "early_fetch" \in Hazards
  /\ mode' = "fetch" /\ hold' = Gap
  /\ asked' = [still |-> TRUE, same |-> TRUE]
  /\ UNCHANGED <<quiet, open, unsent, behind, permit, timer, covered, restarts>>

CoveredByAnswer(ok) == IF ok THEN asked.still ELSE covered
CoveredByAttempt(ok) == asked.still
Covered(ok) == CoveredByAnswer(ok)

Answer(d) ==
  /\ mode = "fetch" /\ Wait(d)
  /\ behind' = (behind /\ ~asked.same) /\ covered' = Covered(TRUE)
  /\ UNCHANGED <<quiet, open, unsent, permit, hold, asked,
                 restarts>>

\* A 429 with a Retry-After moves the next attempt; other failures do not.
Failure(ra, d) ==
  /\ mode = "fetch" /\ Wait(d)
  /\ hold' = (IF ra = 0 THEN hold ELSE Most(Gap, ra))
  /\ covered' = Covered(FALSE)
  /\ UNCHANGED <<quiet, open, unsent, behind, permit, asked,
                 restarts>>

Next ==
  \/ \E b \in BOOLEAN : Activity(b)
  \/ Stale \/ Flush \/ Tick \/ Restart \/ Notified \/ Elapsed \/ Fetch
  \/ \E d \in Jittered :
       Skip(d) \/ Answer(d) \/ \E ra \in RetryAfters : Failure(ra, d)

\* Timers run down and requests end; a cloud that is asked often enough answers.
Answered == \E d \in Jittered : Answer(d)
Run ==
  \/ Notified \/ Elapsed \/ Fetch
  \/ \E d \in Jittered : Skip(d) \/ \E ra \in RetryAfters : Failure(ra, d)
Fairness == WF_vars(Tick) /\ WF_vars(Flush) /\ WF_vars(Run) /\ SF_vars(Answered)

--------------------------------------------------------------------------------
\* Once flushes cease, what they brought to the cloud is in the cached summary
\* in the end, also when nothing else ever happens on the device: a failed
\* fetch is repeated even in deep idle, and a skip hides no change.
CacheCatchesUp == <>[]~unsent => (behind ~> ~behind)

================================================================================
