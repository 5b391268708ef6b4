--------------------------------- MODULE MCHost --------------------------------
(***************************************************************************)
(* Small instances of the tasks and commands around the store: the flush   *)
(* loop, the heartbeat, the billing summary, the daemon's life and its     *)
(* update.  They share no state (a wake, a clock of their own, files of    *)
(* their own), so that a behaviour takes one part and runs it alone.       *)
(***************************************************************************)
EXTENDS FlushLoop, Lifecycle, Update, Presence

CONSTANT Parts

VARIABLES
  part,
  idle, open, unsent, behind, permit, mode, timer, hold, covered, fetched, restarts

billing == <<idle, open, unsent, behind, permit, mode, timer, hold, covered, fetched,
             restarts>>
hostVars == <<part, vars, presenceVars, billing, lifeVars, updateVars>>

Billed == INSTANCE Billing WITH
  Gap <- 2, Interval <- 5, DeepAfter <- 4, RetryAfters <- {0, 3}, MaxRestarts <- 1,
  Hazards <- {}, quiet <- idle, asked <- fetched

\* A part that does not run has one initial state.
HostInit ==
  /\ part \in Parts
  /\ Init /\ (part # "loop" => ~linked)
  /\ PresenceInit
  /\ Billed!Init /\ (part # "billing" => ~behind)
  /\ LifeInit
  /\ UpdateInit /\ (part # "update" => running = 0)

Alone(p, others) == part = p /\ UNCHANGED <<part, others>>
HostNext ==
  \/ Alone("loop", <<presenceVars, billing, lifeVars, updateVars>>) /\ Next
  \/ Alone("presence", <<vars, billing, lifeVars, updateVars>>) /\ PresenceNext
  \/ Alone("billing", <<vars, presenceVars, lifeVars, updateVars>>) /\ Billed!Next
  \/ Alone("life", <<vars, presenceVars, billing, updateVars>>) /\ LifeNext
  \/ Alone("update", <<vars, presenceVars, billing, lifeVars>>) /\ UpdateNext

\* Fairness is that of the part which runs.
Flush(A) == Alone("loop", <<presenceVars, billing, lifeVars, updateVars>>) /\ A
Bill(A) == Alone("billing", <<vars, presenceVars, lifeVars, updateVars>>) /\ A
HostFairness ==
  /\ WF_hostVars(Flush(Step)) /\ WF_hostVars(Flush(Backstop))
  /\ SF_hostVars(Flush(Healthy))
  /\ WF_hostVars(Bill(Billed!Tick)) /\ WF_hostVars(Bill(Billed!Flush))
  /\ WF_hostVars(Bill(Billed!Run)) /\ SF_hostVars(Bill(Billed!Answered))

HostSpec == HostInit /\ [][HostNext]_hostVars /\ HostFairness

--------------------------------------------------------------------------------
(* The properties of the flush loop (NudgeNotLost, LineageMarkerHonest,    *)
(* EverythingShipped), of the daemon's life (OneStore, Reachable), of the  *)
(* update (BothOrNeither, RunsWhatIsInstalled, EscalatesOnTime) and of the *)
(* heartbeat (PresenceKept, ChangeIsTold) are those of their modules: the  *)
(* initial states of a part that does not run satisfy them.                *)

\* The states of every part have their types.
TypesOK ==
  /\ TypeOK /\ LifeTypeOK /\ UpdateTypeOK /\ PresenceTypeOK
  /\ part = "billing" => Billed!TypeOK
\* The cached summary catches up with the last flush (Billing).
CacheCatchesUp == part = "billing" => Billed!CacheCatchesUp

================================================================================
