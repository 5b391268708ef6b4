------------------------------- MODULE SpecSources -----------------------------
(***************************************************************************)
(* Specs that live in another framework's files (zavet_sources.rs): a      *)
(* commit that touches a declared root makes capture resolve the working   *)
(* tree's units and store them, or mark removed what is gone; and a        *)
(* session is bound, once, to the spec its commits name.                   *)
(*                                                                         *)
(* SourceHazards: "moving_head" (a checkout between resolving and asking   *)
(* for the branch), "partial" (the resolver misses units without an        *)
(* error), "overlap" (two captures bind one session), "writer" (an event   *)
(* is enriched while the binding is under way).                            *)
(***************************************************************************)
EXTENDS Naturals, FiniteSets, Sequences

CONSTANTS Units, MaxTreeSteps, MaxStamps, SourceHazards

VARIABLES
  tree,      \* branch -> the units its tree has
  branch,    \* what is checked out
  touched,   \* a commit touched a declared root since the last walk
  unitState, \* unit -> "none", "live" or "removed"
  sweep,     \* capture -> [step, units, allow, name, there]
  spec,      \* the registry's spec of the session, or None
  stamps,    \* the specs the session's stored events carry, in order
  commits

sourceVars == <<tree, branch, touched, unitState, sweep, spec, stamps, commits>>

Branches == {"main", "feature"}
NoSpec == "none"
Captures == IF "overlap" \in SourceHazards THEN {1, 2} ELSE {1}
\* there: what the default branch has had since the resolve (a ghost).
RestSweep == [step |-> "rest", units |-> {}, allow |-> FALSE, name |-> NoSpec, there |-> {}]
SweepBusy == \E c \in Captures : sweep[c].step # "rest"

SourceTypeOK ==
  /\ tree \in [Branches -> SUBSET Units] /\ branch \in Branches
  /\ touched \in BOOLEAN /\ unitState \in [Units -> {"none", "live", "removed"}]
  /\ sweep \in [Captures -> [step : {"rest", "resolve", "branch", "store", "check", "events",
                                   "registry"},
                           units : SUBSET Units, allow : BOOLEAN, name : Units \cup {NoSpec},
                           there : SUBSET Units]]
  /\ spec \in Units \cup {NoSpec}
  /\ \A i \in DOMAIN stamps : stamps[i] \in Units \cup {NoSpec}

SourceInit ==
  /\ tree = [b \in Branches |-> {}] /\ branch = "main" /\ touched = FALSE
  /\ unitState = [u \in Units |-> "none"] /\ sweep = [c \in Captures |-> RestSweep]
  /\ spec = NoSpec /\ stamps = << >> /\ commits = 0

--------------------------------------------------------------------------------
(* The repository and the session *)

TreeCommit(units) ==
  /\ commits < MaxTreeSteps /\ commits' = commits + 1
  /\ units # tree[branch]
  /\ tree' = [tree EXCEPT ![branch] = units]
  /\ touched' = TRUE
  /\ UNCHANGED <<branch, unitState, sweep, spec, stamps>>
\* From main to a branch with its tree, or back with its merge or without.
TreeCheckout(merges) ==
  /\ "moving_head" \in SourceHazards \/ \A c \in Captures : sweep[c].step # "branch"
  /\ commits < MaxTreeSteps /\ commits' = commits + 1
  /\ branch' = (IF branch = "main" THEN "feature" ELSE "main")
  /\ tree' = [tree EXCEPT ![branch'] =
                IF branch = "main" \/ merges THEN tree[branch] ELSE tree[branch']]
  /\ touched' = (touched \/ tree'["main"] # tree["main"])
  /\ UNCHANGED <<unitState, sweep, spec, stamps>>
\* The writer stamps an event with what the registry knows (enrich).
StampEvent ==
  /\ Len(stamps) < MaxStamps
  /\ "writer" \in SourceHazards \/ \A c \in Captures : sweep[c].step # "registry"
  /\ stamps' = Append(stamps, spec)
  /\ UNCHANGED <<tree, branch, touched, unitState, sweep, spec, commits>>

--------------------------------------------------------------------------------
(* refresh_sources, persist_units *)

SweepGoes(c, j) == sweep' = [sweep EXCEPT ![c] = j]
Repo == UNCHANGED <<tree, branch, commits>>
Session == UNCHANGED <<spec, stamps>>

\* A walk: its commits touched a root or not, and name a spec or none.
Begin(c, name) ==
  /\ sweep[c].step = "rest" /\ (touched \/ name # NoSpec)
  /\ SweepGoes(c, [RestSweep EXCEPT !.step = IF touched THEN "resolve" ELSE "check", !.name = name])
  /\ touched' = FALSE
  /\ UNCHANGED unitState /\ Repo /\ Session
\* The plugin's answer is the working tree, or nothing, although there is.
Answers == {tree[branch], {}} \cup (IF "partial" \in SourceHazards THEN SUBSET tree[branch] ELSE {})
Resolve(c) ==
  /\ sweep[c].step = "resolve"
  /\ \E units \in Answers :
       SweepGoes(c, [sweep[c] EXCEPT !.step = "branch", !.units = units, !.there = tree["main"]])
  /\ UNCHANGED <<touched, unitState>> /\ Repo /\ Session
\* No answer within twelve seconds, or an error: this sweep is skipped.
ResolveFails(c) ==
  /\ sweep[c].step = "resolve" /\ SweepGoes(c, [sweep[c] EXCEPT !.step = "check"])
  /\ UNCHANGED <<touched, unitState>> /\ Repo /\ Session
\* removal_allowed: only the default branch speaks for what is gone, and an
\* empty answer only if the roots are gone as well.
Corroborated(c) == sweep[c].units # {} \/ tree[branch] = {}
OnAnyBranch(c) == Corroborated(c)
MayRemove(c) == branch = "main" /\ Corroborated(c)
AskBranch(c) ==
  /\ sweep[c].step = "branch"
  /\ SweepGoes(c, [sweep[c] EXCEPT !.step = "store", !.allow = MayRemove(c),
                            !.there = @ \cap tree["main"]])
  /\ UNCHANGED <<touched, unitState>> /\ Repo /\ Session
\* One transaction: all of it, or (an error) nothing.
Persist(c, fails) ==
  /\ sweep[c].step = "store" /\ SweepGoes(c, [sweep[c] EXCEPT !.step = "check"])
  /\ unitState' = IF fails THEN unitState ELSE [u \in Units |->
       IF u \in sweep[c].units THEN "live"
       ELSE IF unitState[u] = "live" /\ sweep[c].allow THEN "removed" ELSE unitState[u]]
  /\ UNCHANGED touched /\ Repo /\ Session

\* attribute_session: an explicit or earlier binding stays; a removed spec is
\* not bound to.
Bindable(u) == u # NoSpec /\ unitState[u] = "live"
Check(c) ==
  /\ sweep[c].step = "check"
  /\ IF spec = NoSpec /\ Bindable(sweep[c].name)
     THEN SweepGoes(c, [sweep[c] EXCEPT !.step = "events"]) ELSE SweepGoes(c, RestSweep)
  /\ UNCHANGED <<touched, unitState>> /\ Repo /\ Session
\* session_spec_set, WHERE spec IS NULL; then set_spec_if_none.
StampedAlready(e) == e # NoSpec
Unstamped(e) == e = NoSpec
StampEvents(c) ==
  /\ sweep[c].step = "events" /\ SweepGoes(c, [sweep[c] EXCEPT !.step = "registry"])
  /\ stamps' = [i \in DOMAIN stamps |->
                  IF Unstamped(stamps[i]) THEN sweep[c].name ELSE stamps[i]]
  /\ UNCHANGED <<touched, unitState, spec>> /\ Repo
SetRegistry(c) ==
  /\ sweep[c].step = "registry" /\ SweepGoes(c, RestSweep)
  /\ spec' = (IF spec = NoSpec THEN sweep[c].name ELSE spec)
  /\ UNCHANGED <<touched, unitState, stamps>> /\ Repo

SourceNext ==
  \/ \E u \in SUBSET Units : TreeCommit(u)
  \/ \E m \in BOOLEAN : TreeCheckout(m)
  \/ StampEvent
  \/ \E c \in Captures :
       \/ \E u \in Units \cup {NoSpec} : Begin(c, u)
       \/ Resolve(c) \/ ResolveFails(c) \/ AskBranch(c)
       \/ \E fails \in BOOLEAN : Persist(c, fails)
       \/ Check(c) \/ StampEvents(c) \/ SetRegistry(c)

--------------------------------------------------------------------------------
\* A unit is marked removed only by a sweep during which the default branch
\* lacked it: not for a feature branch that does, and not for a resolver that
\* answers with nothing while the roots are there (refresh_sources).
RemovedWasGone ==
  [][\A u \in Units : unitState[u] = "live" /\ unitState'[u] = "removed" =>
       \E c \in Captures : sweep[c].step = "store" /\ u \notin sweep[c].there]_sourceVars

\* A bound session's events carry its spec, all of them and no other, however
\* the walk that binds it and the writer interleave (attribute_session).
OneSpecPerSession ==
  ~SweepBusy /\ spec # NoSpec => \A i \in DOMAIN stamps : stamps[i] = spec

================================================================================
