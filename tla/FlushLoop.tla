------------------------------ MODULE FlushLoop -------------------------------
(***************************************************************************)
(* The loop around a flush (sync.rs run): a nudge of capacity one, a       *)
(* debounce that drains it, a backstop timer, the exponential backoff with *)
(* the cloud's Retry-After, the health row a `doctor` reads, and the       *)
(* one-off re-send of ended sessions after a change of the lineage rules.  *)
(* What a flush does inside is DeviceSync's; here it ends in one of its    *)
(* outcomes and carries what was stored when it took its snapshot.         *)
(***************************************************************************)
EXTENDS Naturals, FiniteSets

CONSTANTS
  Seed, MaxBackoff,  \* the ladder, in seconds
  RetryAfters,       \* Retry-After values the cloud sends, 0 when none
  Old,               \* ended sessions in the re-send window, in chunks of one
  MaxFails, MaxCrashes  \* bounds

Good == {"synced", "nothing"}
Waiting == {"transient", "payload_too_large", "fatal"}        \* ladder
Stopped == {"signature_rejected", "schema_skew"}              \* the ceiling
Bad == Waiting \cup Stopped \cup {"unknown_device"}

VARIABLES
  phase,    \* "wait", "debounce", "due", "flush", "lineage", "sleep"
  nudge,    \* the trigger channel holds its one message
  fresh,    \* events stored since the last snapshot
  carried,  \* events of the running or last failed snapshot, not confirmed
  linked,   \* the device key can be loaded
  backoff, fails,
  health,   \* [error, fails, backoff]: the meta row sync_health
  resend,   \* LineageResend: [done, wait]
  marker,   \* META_LINEAGE_RULES_VERSION is current
  fixed,    \* ended sessions whose corrected rollup the cloud holds
  sent,     \* of this re-send pass
  crashes,
  promised  \* history: an event nudged since the last snapshot

vars == <<phase, nudge, fresh, carried, linked, backoff, fails, health, resend,
          marker, fixed, sent, crashes, promised>>

Min2(a, b) == IF a < b THEN a ELSE b
\* Backoff::next, Backoff::transient_wait
UncappedBackoff(b) == IF b = 0 THEN Seed ELSE 2 * b
NextBackoff(b) == Min2(IF b = 0 THEN Seed ELSE 2 * b, MaxBackoff)
TransientWait(ra, b) == Min2(IF ra > 0 THEN ra ELSE NextBackoff(b), MaxBackoff)

TypeOK ==
  /\ phase \in {"wait", "debounce", "due", "flush", "lineage", "sleep"}
  /\ backoff \in 0 .. MaxBackoff
  /\ health \in [error : {"none", "skipped"} \cup Bad, fails : Nat,
                 backoff : 0 .. MaxBackoff]
  /\ fixed \subseteq Old /\ sent \subseteq Old

Init ==
  /\ phase = "wait" /\ nudge = FALSE /\ fresh = FALSE /\ carried = FALSE
  /\ linked \in BOOLEAN /\ backoff = 0 /\ fails = 0
  /\ health = [error |-> "none", fails |-> 0, backoff |-> 0]
  /\ resend = [done |-> FALSE, wait |-> 0]
  /\ marker = FALSE /\ fixed = {} /\ sent = {} /\ crashes = 0
  /\ promised = FALSE

\* The writer stores an event; a lifecycle one also nudges (try_send).
Capture(lifecycle) ==
  /\ fresh' = TRUE
  /\ nudge' = (nudge \/ lifecycle)
  /\ promised' = (promised \/ lifecycle)
  /\ UNCHANGED <<phase, carried, linked, backoff, fails, health, resend, marker,
                 fixed, sent, crashes>>

Link(b) ==
  /\ linked # b /\ linked' = b
  /\ UNCHANGED <<phase, nudge, fresh, carried, backoff, fails, health, resend,
                 marker, fixed, sent, crashes, promised>>

Move(from, to) == phase = from /\ phase' = to
Same == UNCHANGED <<linked, backoff, fails, health, resend, marker, fixed, sent,
                    crashes>>

Receive ==
  /\ Move("wait", "debounce") /\ nudge /\ nudge' = FALSE
  /\ Same /\ UNCHANGED <<fresh, carried, promised>>
\* After the debounce every nudge that came meanwhile is drained.
Drain ==
  /\ Move("debounce", "due") /\ nudge' = FALSE
  /\ Same /\ UNCHANGED <<fresh, carried, promised>>
BackstopNeedsNudge ==
  /\ Move("wait", "due") /\ nudge
  /\ Same /\ UNCHANGED <<nudge, fresh, carried, promised>>
Backstop ==
  /\ Move("wait", "due")
  /\ Same /\ UNCHANGED <<nudge, fresh, carried, promised>>
\* Without a key the round is over, and with it the nudge's promise.
NoKey ==
  /\ Move("due", "wait") /\ ~linked
  /\ promised' = FALSE
  /\ Same /\ UNCHANGED <<nudge, fresh, carried>>

Snapshot ==
  /\ Move("due", "flush") /\ linked
  /\ carried' = (carried \/ fresh) /\ fresh' = FALSE
  /\ promised' = FALSE
  /\ Same /\ UNCHANGED nudge

Record(error, n, b) == health' = [error |-> error, fails |-> n, backoff |-> b]

\* A nudge that came while the flush ran waits for the next round.
DrainedAfterFlush == FALSE
Kept == nudge

\* Synced, Nothing: the ladder restarts; then the lineage re-send may run.
Healthy ==
  /\ Move("flush", "lineage")
  /\ backoff' = 0 /\ fails' = 0 /\ Record("none", 0, 0)
  /\ carried' = FALSE /\ sent' = {} /\ nudge' = Kept
  /\ UNCHANGED <<fresh, linked, resend, marker, fixed, crashes, promised>>

\* A rejected signature, and then another key that the cloud accepted
\* (KeyRotation): the round succeeded, without the re-send after it.
Healed ==
  /\ Move("flush", "wait")
  /\ backoff' = 0 /\ fails' = 0 /\ Record("none", 0, 0)
  /\ carried' = FALSE
  /\ UNCHANGED <<nudge, fresh, linked, resend, marker, fixed, sent, crashes,
                 promised>>

\* Skipped: no cloud or no device id was found; nothing was proved.
Skip ==
  /\ Move("flush", "wait")
  /\ backoff' = 0 /\ fails' = 0 /\ Record("skipped", 0, 0)
  /\ UNCHANGED <<nudge, fresh, carried, linked, resend, marker, fixed, sent,
                 crashes, promised>>

BackoffAfter(e, ra) ==
  CASE e = "transient" -> TransientWait(ra, backoff)
    [] e \in Stopped -> MaxBackoff
    [] e = "unknown_device" -> 0
    [] OTHER -> NextBackoff(backoff)

Fail(e, ra) ==
  /\ Move("flush", IF e = "unknown_device" THEN "wait" ELSE "sleep")
  /\ fails < MaxFails
  /\ backoff' = BackoffAfter(e, ra) /\ fails' = fails + 1
  /\ Record(e, fails', backoff')
  /\ UNCHANGED <<nudge, fresh, carried, linked, resend, marker, fixed, sent,
                 crashes, promised>>

Wake ==
  /\ Move("sleep", "wait")
  /\ Same /\ UNCHANGED <<nudge, fresh, carried, promised>>

--------------------------------------------------------------------------------
(* LineageResend::step and resend_lineage *)

LineageDone ==
  /\ Move("lineage", "wait") /\ (resend.done \/ resend.wait > 0 \/ marker)
  /\ resend' = IF marker THEN [resend EXCEPT !.done = TRUE]
               ELSE [resend EXCEPT !.wait = 0]
  /\ UNCHANGED <<nudge, fresh, carried, linked, backoff, fails, health, marker,
                 fixed, sent, crashes, promised>>

Resending == phase = "lineage" /\ ~resend.done /\ resend.wait = 0 /\ ~marker

\* Unlinked since the flush: the re-send stays owed.
LineageSkip ==
  /\ Resending /\ ~linked /\ phase' = "wait"
  /\ Same /\ UNCHANGED <<nudge, fresh, carried, promised>>

\* One chunk is posted: stored (its answer may be lost) or refused.
LineageChunk(s, stored, answered) ==
  /\ Resending /\ s \in Old \ sent
  /\ stored \/ ~answered
  /\ fixed' = IF stored THEN fixed \cup {s} ELSE fixed
  /\ IF answered
     THEN sent' = sent \cup {s} /\ UNCHANGED <<phase, resend>>
     ELSE /\ phase' = "wait" /\ sent' = {}
          /\ resend' = [resend EXCEPT !.wait = 1]
  /\ UNCHANGED <<nudge, fresh, carried, linked, backoff, fails, health, marker,
                 crashes, promised>>

AllAnswered == sent = Old
AnyAnswered == sent # {}
MayMark == AllAnswered

\* The marker moves last.
LineageMark ==
  /\ Resending /\ MayMark
  /\ marker' = TRUE /\ resend' = [resend EXCEPT !.done = TRUE]
  /\ phase' = "wait"
  /\ UNCHANGED <<nudge, fresh, carried, linked, backoff, fails, health, fixed,
                 sent, crashes, promised>>

\* A restart: the store keeps events, marker and health, the rest is gone.
Crash ==
  /\ crashes < MaxCrashes /\ crashes' = crashes + 1
  /\ phase' = "wait" /\ nudge' = FALSE /\ promised' = FALSE
  /\ fresh' = (fresh \/ carried) /\ carried' = FALSE
  /\ backoff' = 0 /\ fails' = 0
  /\ resend' = [done |-> FALSE, wait |-> 0] /\ sent' = {}
  /\ UNCHANGED <<linked, health, marker, fixed>>

Outcome == Healthy \/ Healed \/ Skip \/ \E e \in Bad, ra \in RetryAfters : Fail(e, ra)
Lineage == LineageDone \/ LineageSkip \/ LineageMark
           \/ \E s \in Old, st, an \in BOOLEAN : LineageChunk(s, st, an)
Step == Receive \/ Drain \/ NoKey \/ Snapshot \/ Outcome \/ Wake \/ Lineage

Next ==
  \/ \E b \in BOOLEAN : Capture(b) \/ Link(b)
  \/ Step \/ Backstop \/ Crash

\* Timers fire and a flush ends, by its timeouts if need be; a cloud that is
\* asked again and again answers at last.
Fairness ==
  WF_vars(Step) /\ WF_vars(Backstop) /\ SF_vars(Healthy)

Spec == Init /\ [][Next]_vars /\ Fairness

--------------------------------------------------------------------------------
\* A nudge is not lost: from a lifecycle event on, until a snapshot takes it
\* (or a round without a key gives up), either a message waits in the channel
\* or the loop stands before its snapshot.
NudgeNotLost == promised => nudge \/ phase \in {"debounce", "due"}

\* While the device stays linked, every stored event is taken by a snapshot
\* and every snapshot is confirmed in the end, nudged or not, whatever came
\* before.
EverythingShipped ==
  <>[]linked => (fresh ~> ~fresh) /\ (carried ~> ~carried)

\* The rules version is recorded only once the cloud holds the corrected
\* rollup of every ended session, whatever answers, crashes and retries.
LineageMarkerHonest == marker => fixed = Old

================================================================================
