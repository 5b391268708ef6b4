--------------------------------- MODULE Capture -------------------------------
(***************************************************************************)
(* How commits and the decision records in them get from a git repository  *)
(* into the store: capture_commits and git_walk (capture.rs), run by a     *)
(* task the writer spawns or by the ticker's sweep, against a repository   *)
(* whose owner commits and checks out at any moment.                       *)
(*                                                                         *)
(* A commit is a number; one decision record stands for them all, and its  *)
(* content is the number of the commit that wrote it.  WalkHazards:        *)
(* "overlap" (a second task before the first is done: the throttle is 5 s, *)
(* a walk may take 10), "moving_head" (HEAD moves to another branch        *)
(* between two git calls), "git_fails", "store_fails", "many" (more        *)
(* commits than one walk lists).                                           *)
(***************************************************************************)
EXTENDS Naturals, FiniteSets, FiniteSetsExt

CONSTANTS MaxCommits, Old, BackfillLimit, CaptureLimit, MaxWalkCrashes,
          MaxCheckouts, WalkHazards

\* A repository worth a look has a commit.
ASSUME WalkConfig ==
  /\ Old \in Nat \ {0} /\ MaxCommits \in Nat /\ Old <= MaxCommits
  /\ {BackfillLimit, CaptureLimit, MaxWalkCrashes, MaxCheckouts} \subseteq Nat

VARIABLES
  anc,        \* commit -> its ancestors and itself, {} when there is none yet
  touches,    \* the commits that write the decision
  head, tips, \* HEAD, and the tips of the branches
  baseline,   \* repo_baseline: 0 or the commit last walked to
  artifacts,  \* the commits recorded
  decision,   \* the content of zavet_decisions' row, 0
  task,       \* task -> [step, base, head, found]
  branched,   \* history: how often HEAD has moved to another branch
  unwalked,   \* history: what the first walk left out
  walkCrashes

walkVars == <<anc, touches, head, tips, baseline, artifacts, decision, task,
          branched, unwalked, walkCrashes>>
repo == <<anc, touches, head, tips, branched>>
store == <<baseline, artifacts, decision, unwalked>>

Commits == 1 .. MaxCommits
Born == {c \in Commits : anc[c] # {}}
Tasks == IF "overlap" \in WalkHazards THEN {1, 2} ELSE {1}
Rest == [step |-> "rest", base |-> 0, head |-> 0, found |-> {}]

WalkTypeOK ==
  /\ anc \in [Commits -> SUBSET Commits] /\ touches \subseteq Commits
  /\ head \in Born /\ tips \subseteq Born /\ baseline \in {0} \cup Born
  /\ artifacts \subseteq Born /\ decision \in {0} \cup touches
  /\ task \in [Tasks -> [step : {"rest", "head", "log", "record", "decide", "set"},
                         base : {0} \cup Commits, head : {0} \cup Commits,
                         found : SUBSET Commits]]

\* A repository with Old commits the daemon has never seen.
WalkInit ==
  /\ anc = [c \in Commits |-> IF c <= Old THEN 1 .. c ELSE {}]
  /\ touches = {} /\ head = Old /\ tips = {Old}
  /\ baseline = 0 /\ artifacts = {} /\ decision = 0 /\ unwalked = {}
  /\ task = [t \in Tasks |-> Rest] /\ branched = 0 /\ walkCrashes = 0

--------------------------------------------------------------------------------
(* The owner of the repository *)

Reach(c) == IF c = 0 THEN {} ELSE anc[c]
\* A walk is under way that has already asked for HEAD.
Walking == \E t \in Tasks : task[t].step = "log"
FewEnough(S) ==
  \/ baseline # 0 /\ Cardinality(S \ anc[baseline]) <= CaptureLimit
  \/ "many" \in WalkHazards
Commit(decides) ==
  LET c == Cardinality(Born) + 1 IN
  /\ c \in Commits /\ FewEnough(anc[head] \cup {c})
  /\ anc' = [anc EXCEPT ![c] = anc[head] \cup {c}]
  /\ touches' = (IF decides THEN touches \cup {c} ELSE touches)
  /\ head' = c /\ tips' = (tips \ {head}) \cup {c}
  /\ UNCHANGED <<task, branched, walkCrashes, store>>
\* Another branch, or a new one started at an older commit.
Checkout(c) ==
  /\ ~Walking \/ "moving_head" \in WalkHazards
  /\ branched < MaxCheckouts
  /\ c \in tips \cup Reach(head) /\ c # head /\ FewEnough(anc[c])
  /\ head' = c /\ tips' = tips \cup {c} /\ branched' = branched + 1
  /\ UNCHANGED <<anc, touches, task, walkCrashes, store>>

--------------------------------------------------------------------------------
(* capture_commits *)

At(t, step) == task[t].step = step
Goes(t, to) == task' = [task EXCEPT ![t] = to]

ReadBaseline(t) ==
  /\ At(t, "rest") /\ Goes(t, [Rest EXCEPT !.step = "head", !.base = baseline])
  /\ UNCHANGED <<walkCrashes, repo, store>>
ReadHead(t) ==
  /\ At(t, "head")
  /\ IF head = task[t].base THEN Goes(t, Rest)
     ELSE Goes(t, [task[t] EXCEPT !.step = "log", !.head = head])
  /\ UNCHANGED <<walkCrashes, repo, store>>
\* `git log base..HEAD`, the newest first and at most so many of them; git asks
\* for HEAD again, and no output is no commits.
NewestFew(S, n) == {c \in S : Cardinality({d \in S : d > c}) < n}
BaseToHead(base) == Reach(head) \ Reach(base)
Listed(base) == NewestFew(BaseToHead(base), IF base = 0 THEN BackfillLimit ELSE CaptureLimit)
ReadLog(t) ==
  /\ At(t, "log")
  /\ \E found \in {Listed(task[t].base)} \cup (IF "git_fails" \in WalkHazards THEN {{}} ELSE {}) :
       Goes(t, [task[t] EXCEPT !.step = "record", !.found = found])
  /\ UNCHANGED <<walkCrashes, repo, store>>
\* Ten seconds for the git calls, and the walk is dropped.
TimesOut(t) ==
  /\ task[t].step \in {"head", "log"} /\ Goes(t, Rest)
  /\ UNCHANGED <<walkCrashes, repo, store>>

\* A commit is recorded once; what cannot be written is logged and passed over.
Writable(S) == {S} \cup (IF "store_fails" \in WalkHazards THEN SUBSET S ELSE {})
Record(t) ==
  /\ At(t, "record") /\ Goes(t, [task[t] EXCEPT !.step = "decide"])
  /\ \E S \in Writable(task[t].found) : artifacts' = artifacts \cup S
  /\ unwalked' = (IF task[t].base = 0 THEN Reach(task[t].head) \ task[t].found ELSE unwalked)
  /\ UNCHANGED <<baseline, decision, walkCrashes, repo>>
\* From the oldest commit to the newest, so that the newest wins.
LastOf(S) == Max(S)
FirstOf(S) == Min(S)
Winner(S) == LastOf(S)
Decide(t) ==
  LET mine == task[t].found \cap touches IN
  /\ At(t, "decide") /\ Goes(t, [task[t] EXCEPT !.step = "set"])
  /\ decision' = (IF mine = {} THEN decision ELSE Winner(mine))
  /\ UNCHANGED <<baseline, artifacts, unwalked, walkCrashes, repo>>
\* The baseline is the HEAD asked for first; it is written last.
NewBaseline(t) == task[t].head
Target(t) == NewBaseline(t)
SetBaseline(t) ==
  /\ At(t, "set") /\ Goes(t, Rest)
  /\ baseline' = Target(t)
  /\ UNCHANGED <<artifacts, decision, unwalked, walkCrashes, repo>>
SetFails(t) ==
  /\ At(t, "set") /\ Goes(t, Rest) /\ UNCHANGED <<walkCrashes, repo, store>>

WalkCrash ==
  /\ walkCrashes < MaxWalkCrashes /\ walkCrashes' = walkCrashes + 1
  /\ task' = [t \in Tasks |-> Rest]
  /\ UNCHANGED <<repo, store>>

WalkNext ==
  \/ \E d \in BOOLEAN : Commit(d)
  \/ \E c \in Commits : Checkout(c)
  \/ \E t \in Tasks :
       \/ ReadBaseline(t) \/ ReadHead(t) \/ ReadLog(t) \/ TimesOut(t)
       \/ Record(t) \/ Decide(t) \/ SetBaseline(t) \/ SetFails(t)
  \/ WalkCrash

--------------------------------------------------------------------------------
\* "Commits are never lost" (lib.rs): whatever the baseline has passed has been
\* recorded, but for what the first walk's limit left out; it is behind the
\* baseline that nobody looks again.
NoCommitLost == Reach(baseline) \subseteq artifacts \cup unwalked

\* With the baseline at HEAD, the store has the decision as its newest commit
\* wrote it: no walk puts an older text over a newer one for good.
DecisionCurrent ==
  LET known == (Reach(head) \cap touches) \ unwalked IN
  baseline = head /\ branched = 0 /\ (\A t \in Tasks : At(t, "rest")) /\ known # {}
  => decision = Max(known)

CaptureComplete == NoCommitLost /\ DecisionCurrent

================================================================================
