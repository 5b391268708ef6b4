----------------------------- MODULE RecordProofs -----------------------------
(***************************************************************************)
(* What dirad takes out of git, proved for any history, branches, limits   *)
(* and number of walks: that a capture misses no commit and knows each     *)
(* record's last one, that a record's row is dated to and billed to the    *)
(* commit which introduced it, that a unit is removed only when the        *)
(* default branch lacks it, and that a session keeps the spec it was       *)
(* bound to.  At the end, the types of all that dirad records, the writer, *)
(* the tokens and the retention of WriterProofs and RetentionProofs        *)
(* included, as MCRecord composes them.                                    *)
(***************************************************************************)
EXTENDS MCRecord, WriterProofs, RetentionProofs, FiniteSetTheorems, WellFoundedInduction, TLAPS

--------------------------------------------------------------------------------
(* The repository *)

WalkSpec == WalkInit /\ [][WalkNext]_walkVars

LEMMA WalkBounds ==
  /\ MaxCommits \in Nat /\ Old \in Commits /\ 0 \notin Commits
  /\ BackfillLimit \in Nat /\ CaptureLimit \in Nat
BY WalkConfig DEF Commits

\* Commits are numbered as they come, and a branch is a chain: an ancestor's
\* ancestors are the ones up to it.
Branching ==
  /\ anc \in [Commits -> SUBSET Commits]
  /\ \E b \in Nat : Born = 1 .. b
  /\ \A c \in Born : c \in anc[c] /\ anc[c] \subseteq Born /\ anc[c] \subseteq 1 .. c
  /\ \A c \in Born : \A a \in anc[c] : anc[a] = anc[c] \cap 1 .. a

WalkTyped ==
  /\ WalkTypeOK /\ Branching /\ unwalked \subseteq Born
  /\ \A t \in Tasks : /\ task[t].base \in {0} \cup Born /\ task[t].head \in {0} \cup Born
                      /\ task[t].found \subseteq Born

LEMMA InitIsWalkTyped == ASSUME WalkInit PROVE WalkTyped
<1>1. Old \in Nat \ {0} /\ Old \in Commits /\ MaxCommits \in Nat
  BY WalkBounds, WalkConfig
<1>2. \A c \in Commits : anc[c] = IF c <= Old THEN 1 .. c ELSE {}
  BY DEF WalkInit
<1>3. \A c \in Commits : c \in Nat /\ c >= 1 /\ c \in 1 .. c /\ 1 .. c \subseteq Commits
  BY <1>1 DEF Commits
<1>4. Born = 1 .. Old
  <2>1. \A c \in Commits : c <= Old <=> anc[c] # {}
    BY <1>1, <1>2, <1>3
  <2> QED BY <1>1, <2>1 DEF Born, Commits
<1>5. anc \in [Commits -> SUBSET Commits]
  BY <1>3 DEF WalkInit
<1>6. \A c \in Born : c \in Commits /\ c <= Old /\ anc[c] = 1 .. c
  BY <1>1, <1>2, <1>4 DEF Commits
<1>7. \A c \in Born : c \in anc[c] /\ anc[c] \subseteq Born /\ anc[c] \subseteq 1 .. c
  BY <1>1, <1>3, <1>4, <1>6
<1>8. \A c \in Born : \A a \in anc[c] : anc[a] = anc[c] \cap 1 .. a
  <2> SUFFICES ASSUME NEW c \in Born, NEW a \in anc[c] PROVE anc[a] = anc[c] \cap 1 .. a
    OBVIOUS
  <2>1. a \in Born /\ anc[c] = 1 .. c /\ a \in 1 .. c
    BY <1>6, <1>7
  <2>2. anc[a] = 1 .. a
    BY <1>6, <2>1
  <2> QED BY <1>3, <1>6, <2>1, <2>2
<1>9. Old \in Born
  BY <1>1, <1>4
<1>10. Branching
  BY <1>1, <1>4, <1>5, <1>7, <1>8 DEF Branching
<1>11. task \in [Tasks -> [step : {"rest", "head", "log", "record", "decide", "set"},
                         base : {0} \cup Commits, head : {0} \cup Commits,
                         found : SUBSET Commits]]
       /\ \A t \in Tasks : task[t] = Rest
  BY DEF WalkInit, Rest
<1> QED BY <1>5, <1>9, <1>10, <1>11 DEF WalkInit, WalkTyped, WalkTypeOK, Rest

\* A new commit changes nothing of the ones there are.
LEMMA CommitGrows ==
  ASSUME WalkTyped, NEW d \in BOOLEAN, Commit(d)
  PROVE  LET c == Cardinality(Born) + 1 IN
         /\ c \in Commits \ Born /\ Born' = Born \cup {c} /\ \A a \in Born : a < c
         /\ anc' \in [Commits -> SUBSET Commits]
         /\ anc'[c] = anc[head] \cup {c} /\ \A a \in Commits \ {c} : anc'[a] = anc[a]
         /\ \A a \in Born \cup {0} : Reach(a)' = Reach(a)
         /\ Branching'
<1> DEFINE c == Cardinality(Born) + 1
<1>1. PICK b \in Nat : Born = 1 .. b
  BY DEF WalkTyped, Branching
<1>2. c = b + 1
  BY <1>1, FS_Interval
<1>3. c \in Commits /\ anc' = [anc EXCEPT ![c] = anc[head] \cup {c}] /\ head \in Born
  BY DEF Commit, WalkTyped, WalkTypeOK
<1> HIDE DEF c
<1>4. c \notin Born /\ \A a \in Born : a < c
  BY <1>1, <1>2
<1>5. head \in Commits /\ anc[head] \subseteq Born /\ anc[head] \subseteq Commits
      /\ Born \subseteq Commits
      /\ anc \in [Commits -> SUBSET Commits]
  BY <1>3 DEF WalkTyped, Branching, Born
<1>6. /\ anc' \in [Commits -> SUBSET Commits]
      /\ anc'[c] = anc[head] \cup {c} /\ \A a \in Commits \ {c} : anc'[a] = anc[a]
  BY <1>3, <1>5
<1>7. Born' = Born \cup {c}
  BY <1>3, <1>6 DEF Born
<1>8. \A a \in Born \cup {0} : Reach(a)' = Reach(a)
  BY <1>4, <1>5, <1>6 DEF Reach
<1>9. Branching'
  <2>1. Born' = 1 .. c /\ c \in Nat
    BY <1>1, <1>2, <1>7
  <2>2. \A a \in Born : anc'[a] = anc[a]
    BY <1>4, <1>5, <1>6
  <2>3. \A a \in Born' : a \in anc'[a] /\ anc'[a] \subseteq Born' /\ anc'[a] \subseteq 1 .. a
    <3>1. \A a \in Born : a \in anc[a] /\ anc[a] \subseteq Born /\ anc[a] \subseteq 1 .. a
      BY DEF WalkTyped, Branching
    <3>2. anc'[c] \subseteq 1 .. c
      BY <1>5, <1>6, <1>7, <2>1
    <3> QED BY <1>5, <1>6, <1>7, <2>2, <3>1, <3>2
  <2>4. ASSUME NEW e \in Born', NEW a \in anc'[e] PROVE anc'[a] = anc'[e] \cap 1 .. a
    <3>1. \A x \in Born : \A y \in anc[x] : y \in Born /\ anc[y] = anc[x] \cap 1 .. y
      BY DEF WalkTyped, Branching
    <3>2. CASE e \in Born
      BY <2>2, <2>4, <3>1, <3>2
    <3>3. CASE e = c
      <4>1. CASE a \in anc[head]
        <5>1. a \in Born /\ anc'[a] = anc[head] \cap 1 .. a
          BY <1>3, <2>2, <3>1, <4>1
        <5>2. c \notin 1 .. a
          BY <1>1, <1>2, <5>1
        <5> QED BY <1>6, <3>3, <5>1, <5>2
      <4>2. CASE a = c
        BY <2>1, <2>3, <3>3, <4>2
      <4> QED BY <1>6, <2>4, <3>3, <4>1, <4>2
    <3> QED BY <1>7, <3>2, <3>3
  <2> QED BY <1>6, <2>1, <2>3, <2>4 DEF Branching
<1> QED BY <1>3, <1>4, <1>6, <1>7, <1>8, <1>9 DEF c

LEMMA MaxOf ==
  ASSUME NEW S \in SUBSET Commits, S # {}
  PROVE  Max(S) \in S /\ \A n \in S : n <= Max(S)
<1>1. S \in SUBSET Nat /\ MaxCommits \in Nat /\ \A n \in S : n <= MaxCommits
  BY WalkBounds DEF Commits
<1> QED BY <1>1, Greatest

Steps == {"rest", "head", "log", "record", "decide", "set"}

Walks(r) == r = [step |-> r.step, base |-> r.base, head |-> r.head, found |-> r.found]

\* A step of a walk that leaves the repository alone.
LEMMA GoesTyped ==
  ASSUME WalkTyped, UNCHANGED repo, NEW t \in Tasks, NEW to, Goes(t, to),
         to.step \in Steps, to.base \in {0} \cup Born, to.head \in {0} \cup Born,
         to.found \subseteq Born,
         Walks(to),
         baseline' \in {0} \cup Born, artifacts' \subseteq Born,
         decision' \in {0} \cup touches, unwalked' \subseteq Born
  PROVE  WalkTyped'
<1>1. Born' = Born /\ Born \subseteq Commits
  BY DEF repo, Born
<1>2. Branching'
  BY <1>1 DEF WalkTyped, Branching, repo
<1>3. task' = [task EXCEPT ![t] = to]
  BY DEF Goes
<1>4. to \in [step : Steps, base : {0} \cup Commits, head : {0} \cup Commits,
              found : SUBSET Commits]
  BY <1>1 DEF Walks
<1>5. task' \in [Tasks -> [step : Steps, base : {0} \cup Commits, head : {0} \cup Commits,
                          found : SUBSET Commits]]
  BY <1>3, <1>4 DEF WalkTyped, WalkTypeOK, Steps
<1>6. \A u \in Tasks : /\ task'[u].base \in {0} \cup Born /\ task'[u].head \in {0} \cup Born
                       /\ task'[u].found \subseteq Born
  BY <1>3 DEF WalkTyped, WalkTypeOK
<1>7. head' \in Born' /\ tips' \subseteq Born' /\ anc' \in [Commits -> SUBSET Commits]
      /\ touches' \subseteq Commits /\ touches' = touches
  BY <1>1 DEF WalkTyped, WalkTypeOK, repo
<1> QED BY <1>1, <1>2, <1>5, <1>6, <1>7 DEF WalkTyped, WalkTypeOK, Steps

LEMMA NextIsWalkTyped == ASSUME WalkTyped, [WalkNext]_walkVars PROVE WalkTyped'
<1>0. /\ head \in Born /\ tips \subseteq Born /\ baseline \in {0} \cup Born
      /\ artifacts \subseteq Born
      /\ decision \in {0} \cup touches /\ unwalked \subseteq Born /\ touches \subseteq Commits
      /\ Born \subseteq Commits /\ \A c \in {0} \cup Born : Reach(c) \subseteq Born
  <2>1. \A c \in {0} \cup Born : Reach(c) \subseteq Born
    BY DEF WalkTyped, Branching, Reach
  <2> QED BY <2>1 DEF WalkTyped, WalkTypeOK, Born
<1>1. ASSUME NEW d \in BOOLEAN, Commit(d) PROVE WalkTyped'
  <2> DEFINE c == Cardinality(Born) + 1
  <2>1. c \in Commits \ Born /\ Born' = Born \cup {c}
        /\ anc' \in [Commits -> SUBSET Commits] /\ Branching'
    BY <1>1, CommitGrows
  <2>2. /\ touches' \in {touches, touches \cup {c}} /\ head' = c
        /\ tips' = (tips \ {head}) \cup {c}
        /\ UNCHANGED <<task, baseline, artifacts, decision, unwalked>>
    BY <1>1 DEF Commit, store
  <2> HIDE DEF c
  <2>3. \A t \in Tasks : /\ task'[t].base \in {0} \cup Born' /\ task'[t].head \in {0} \cup Born'
                         /\ task'[t].found \subseteq Born'
    BY <2>1, <2>2 DEF WalkTyped
  <2>4. task' \in [Tasks -> [step : {"rest", "head", "log", "record", "decide", "set"},
                         base : {0} \cup Commits, head : {0} \cup Commits,
                         found : SUBSET Commits]]
    BY <2>2 DEF WalkTyped, WalkTypeOK
  <2> QED BY <1>0, <2>1, <2>2, <2>3, <2>4 DEF WalkTyped, WalkTypeOK
<1>2. ASSUME NEW c \in Commits, Checkout(c) PROVE WalkTyped'
  <2>1. c \in Born
    BY <1>0, <1>2 DEF Checkout
  <2>2. Born' = Born /\ UNCHANGED <<anc, touches, task, baseline, artifacts, decision, unwalked>>
        /\ head' = c /\ tips' = tips \cup {c}
    BY <1>2 DEF Checkout, store, Born
  <2>3. Branching'
    BY <2>2 DEF WalkTyped, Branching
  <2> QED BY <1>0, <2>1, <2>2, <2>3 DEF WalkTyped, WalkTypeOK
<1>3. ASSUME NEW t \in Tasks,
             ReadBaseline(t) \/ ReadHead(t) \/ ReadLog(t) \/ TimesOut(t)
             \/ Record(t) \/ Decide(t) \/ SetBaseline(t) \/ SetFails(t)
      PROVE  WalkTyped'
  <2>0. /\ task[t].base \in {0} \cup Born /\ task[t].head \in {0} \cup Born
        /\ task[t].found \subseteq Born /\ task[t].step \in Steps
        /\ Walks(task[t])
    BY DEF WalkTyped, WalkTypeOK, Steps, Walks
  <2>1. CASE TimesOut(t) \/ SetFails(t)
    <3>1. Goes(t, Rest) /\ UNCHANGED <<repo, store>>
      BY <2>1 DEF TimesOut, SetFails
    <3> QED BY <1>0, <3>1, GoesTyped DEF Walks, Rest, Steps, store
  <2>2. CASE ReadBaseline(t)
    <3> DEFINE to == [Rest EXCEPT !.step = "head", !.base = baseline]
    <3>1. Goes(t, to) /\ UNCHANGED <<repo, store>>
      BY <2>2 DEF ReadBaseline
    <3>2. to = [step |-> "head", base |-> baseline, head |-> 0, found |-> {}]
      <4> DEFINE q == [Rest EXCEPT !.step = "head"]
      <4>1. q = [step |-> "head", base |-> 0, head |-> 0, found |-> {}]
        BY DEF Rest
      <4>2. to = [q EXCEPT !.base = baseline]
        OBVIOUS
      <4> HIDE DEF q, to
      <4> QED BY <4>1, <4>2
    <3> HIDE DEF to
    <3> QED BY <1>0, <3>1, <3>2, GoesTyped DEF Walks, Steps, store
  <2>3. CASE ReadHead(t)
    <3>1. CASE head = task[t].base
      <4>1. Goes(t, Rest) /\ UNCHANGED <<repo, store>>
        BY <2>3, <3>1 DEF ReadHead
      <4> QED BY <1>0, <4>1, GoesTyped DEF Walks, Rest, Steps, store
    <3>2. CASE head # task[t].base
      <4> DEFINE to == [task[t] EXCEPT !.step = "log", !.head = head]
      <4>1. Goes(t, to) /\ UNCHANGED <<repo, store>>
        BY <2>3, <3>2 DEF ReadHead
      <4>2. to = [step |-> "log", base |-> task[t].base, head |-> head, found |-> task[t].found]
        <5> DEFINE q == [task[t] EXCEPT !.step = "log"]
        <5>1. q = [step |-> "log", base |-> task[t].base, head |-> task[t].head,
                   found |-> task[t].found]
          BY <2>0 DEF Walks
        <5>2. to = [q EXCEPT !.head = head]
          OBVIOUS
        <5> HIDE DEF q, to
        <5> QED BY <5>1, <5>2
      <4> HIDE DEF to
      <4> QED BY <1>0, <2>0, <4>1, <4>2, GoesTyped DEF Walks, Steps, store
    <3> QED BY <3>1, <3>2
  <2>4. CASE ReadLog(t)
    <3>1. PICK found \in {Listed(task[t].base)}
                         \cup (IF "git_fails" \in WalkHazards THEN {{}} ELSE {}) :
            Goes(t, [task[t] EXCEPT !.step = "record", !.found = found])
      BY <2>4 DEF ReadLog
    <3>2. found \subseteq Born
      BY <1>0, <3>1 DEF Listed, NewestFew, BaseToHead
    <3> DEFINE to == [task[t] EXCEPT !.step = "record", !.found = found]
    <3>3. UNCHANGED <<repo, store>>
      BY <2>4 DEF ReadLog
    <3>4. to = [step |-> "record", base |-> task[t].base, head |-> task[t].head, found |-> found]
      <4> DEFINE q == [task[t] EXCEPT !.step = "record"]
      <4>1. q = [step |-> "record", base |-> task[t].base, head |-> task[t].head,
                 found |-> task[t].found]
        BY <2>0 DEF Walks
      <4>2. to = [q EXCEPT !.found = found]
        OBVIOUS
      <4> HIDE DEF q, to
      <4> QED BY <4>1, <4>2
    <3>5. Goes(t, to)
      BY <3>1
    <3> HIDE DEF to
    <3> QED BY <1>0, <2>0, <3>2, <3>3, <3>4, <3>5, GoesTyped DEF Walks, Steps, store
  <2>5. CASE Record(t)
    <3> DEFINE to == [task[t] EXCEPT !.step = "decide"]
    <3>1. Goes(t, to) /\ UNCHANGED <<repo, baseline, decision>>
      BY <2>5 DEF Record
    <3>2. artifacts' \subseteq Born
      <4>1. PICK S \in Writable(task[t].found) : artifacts' = artifacts \cup S
        BY <2>5 DEF Record
      <4>2. S \subseteq task[t].found
        BY <4>1 DEF Writable
      <4> QED BY <1>0, <2>0, <4>1, <4>2
    <3>3. unwalked' \subseteq Born
      BY <1>0, <2>0, <2>5 DEF Record
    <3>4. to = [step |-> "decide", base |-> task[t].base, head |-> task[t].head,
                found |-> task[t].found]
      BY <2>0 DEF Walks
    <3> HIDE DEF to
    <3> QED BY <1>0, <2>0, <3>1, <3>2, <3>3, <3>4, GoesTyped DEF Walks, Steps
  <2>6. CASE Decide(t)
    <3> DEFINE to == [task[t] EXCEPT !.step = "set"]
               mine == task[t].found \cap touches
    <3>1. Goes(t, to) /\ UNCHANGED <<repo, baseline, artifacts, unwalked>>
      BY <2>6 DEF Decide
    <3>2. decision' \in {0} \cup touches
      <4>1. mine # {} => Max(mine) \in mine
        BY <1>0, MaxOf
      <4>2. decision' = IF mine = {} THEN decision ELSE Max(mine)
        BY <2>6 DEF Decide, Winner, LastOf
      <4> QED BY <1>0, <4>1, <4>2
    <3>3. to = [step |-> "set", base |-> task[t].base, head |-> task[t].head,
                found |-> task[t].found]
      BY <2>0 DEF Walks
    <3> HIDE DEF to, mine
    <3> QED BY <1>0, <2>0, <3>1, <3>2, <3>3, GoesTyped DEF Walks, Steps
  <2>7. CASE SetBaseline(t)
    <3>1. Goes(t, Rest) /\ UNCHANGED <<repo, artifacts, decision, unwalked>>
          /\ baseline' = task[t].head
      BY <2>7 DEF SetBaseline, Target, NewBaseline
    <3> QED BY <1>0, <2>0, <3>1, GoesTyped DEF Walks, Rest, Steps
  <2> QED BY <1>3, <2>1, <2>2, <2>3, <2>4, <2>5, <2>6, <2>7
<1>4. CASE WalkCrash
  <2>1. Born' = Born /\ UNCHANGED <<repo, store>> /\ task' = [t \in Tasks |-> Rest]
    BY <1>4 DEF WalkCrash, repo, Born
  <2>2. Branching'
    BY <2>1 DEF WalkTyped, Branching, repo
  <2> QED BY <1>0, <2>1, <2>2 DEF WalkTyped, WalkTypeOK, Rest, repo, store
<1>5. CASE UNCHANGED walkVars
  <2>1. Born' = Born /\ UNCHANGED <<repo, store, task>>
    BY <1>5 DEF walkVars, repo, store, Born
  <2>2. Branching'
    BY <2>1 DEF WalkTyped, Branching, repo
  <2> QED BY <1>0, <2>1, <2>2 DEF WalkTyped, WalkTypeOK, repo, store
<1> QED BY <1>1, <1>2, <1>3, <1>4, <1>5 DEF WalkNext

\* Whatever the hazards: the baseline, the rows and the walks under way only name
\* commits there are.
THEOREM WalksTyped == WalkSpec => []WalkTypeOK
<1>1. WalkInit => WalkTyped
  BY InitIsWalkTyped
<1>2. WalkTyped /\ [WalkNext]_walkVars => WalkTyped'
  BY NextIsWalkTyped
<1>3. WalkTyped => WalkTypeOK
  BY DEF WalkTyped
<1> QED BY <1>1, <1>2, <1>3, PTL DEF WalkSpec

--------------------------------------------------------------------------------
(* Nothing behind the baseline is lost. *)

\* The build whose hazards are off: one walk at a time, HEAD on its branch while
\* git answers, git and the store obeying, and no more commits between two walks
\* than one lists.
Calm == {"overlap", "moving_head", "git_fails", "store_fails", "many"} \cap WalkHazards = {}

Done == artifacts \cup unwalked
AncestorClosed(S) == \A c \in S : Reach(c) \subseteq S
Job == task[1]
Asked == {"log", "record", "decide", "set"}

\* The commits nobody looks at again and those left out are closed under
\* ancestry, and what a walk has not seen yet is few enough for one list.
Recording ==
  /\ baseline = 0 => Born \subseteq Reach(head) /\ (Job.step \in Asked => Job.head = head)
  /\ Job.step # "rest" => Job.base = baseline
  /\ Job.step \in Asked => Job.head \in Born
  /\ AncestorClosed(Done)
  /\ baseline # 0 => Cardinality(Reach(head) \ Done) <= CaptureLimit
  /\ Job.step = "log" => Job.head \in Reach(head)
  /\ Job.step = "record" /\ Job.base # 0 =>
       AncestorClosed(Done \cup Job.found) /\ Reach(Job.head) \subseteq Done \cup Job.found
  /\ Job.step \in {"decide", "set"} => Reach(Job.head) \subseteq Done
  /\ NoCommitLost

LEMMA CommitsCounted == ASSUME NEW S \in SUBSET Commits PROVE IsFiniteSet(S) /\ Cardinality(S) \in Nat
<1>1. IsFiniteSet(Commits)
  BY WalkBounds, FS_Interval DEF Commits
<1> QED BY <1>1, FS_Subset, FS_CardinalityType

LEMMA Fewer ==
  ASSUME NEW S \in SUBSET Commits, NEW U \in SUBSET S PROVE Cardinality(U) <= Cardinality(S)
<1>1. IsFiniteSet(S)
  BY CommitsCounted
<1> QED BY <1>1, FS_Subset

\* The newest of S, if they are few enough, are all in what git lists.
LEMMA FewAreListed ==
  ASSUME NEW S \in SUBSET Commits, NEW U \in SUBSET S, NEW n \in Nat, Cardinality(U) <= n,
         \A u \in U, d \in S : d > u => d \in U
  PROVE  U \subseteq NewestFew(S, n)
<1> SUFFICES ASSUME NEW u \in U PROVE Cardinality({d \in S : d > u}) < n
  BY DEF NewestFew
<1> DEFINE above == {d \in S : d > u}
<1>1. above \subseteq U \ {u}
  <2>1. \A d \in above : d \in U
    OBVIOUS
  <2>2. u \in Nat
    BY WalkBounds DEF Commits
  <2>3. ~(u > u)
    BY <2>2
  <2> QED BY <2>1, <2>3
<1>2. IsFiniteSet(U) /\ U \ {u} \in SUBSET Commits
  BY CommitsCounted
<1>3. Cardinality(U \ {u}) = Cardinality(U) - 1
  BY <1>2, FS_RemoveElement
<1>4. Cardinality(above) <= Cardinality(U \ {u})
  BY <1>1, <1>2, Fewer
<1>5. Cardinality(above) \in Nat /\ Cardinality(U) \in Nat
  BY CommitsCounted
<1> HIDE DEF above
<1>6. Cardinality(above) < n
  BY <1>3, <1>4, <1>5
<1> QED BY <1>6 DEF above

\* A walk from a baseline lists all it has to.
LEMMA ListsUnseen ==
  ASSUME Calm, WalkTyped, Recording, baseline # 0
  PROVE  Reach(head) \ Done \subseteq Listed(baseline)
<1> DEFINE S == BaseToHead(baseline)
           U == Reach(head) \ Done
<1>1. head \in Born /\ Reach(head) = anc[head] /\ Reach(head) \subseteq Commits
      /\ Reach(head) \subseteq Born /\ 0 \notin Born
  BY WalkBounds DEF WalkTyped, WalkTypeOK, Branching, Born, Reach
<1>2. S \in SUBSET Commits /\ U \in SUBSET S
  BY <1>1 DEF BaseToHead, Recording, NoCommitLost, Done
<1>3. ASSUME NEW u \in U, NEW d \in S, d > u PROVE d \in U
  <2>1. d \in anc[head] /\ u \in anc[head] /\ d \in Born
    BY <1>1 DEF BaseToHead
  <2>2. anc[d] = anc[head] \cap 1 .. d
    BY <1>1, <2>1 DEF WalkTyped, Branching
  <2>3. d \in Nat /\ u \in Nat /\ u >= 1
    BY <1>1, <2>1, WalkBounds DEF Commits
  <2>4. u \in anc[d]
    BY <1>3, <2>1, <2>2, <2>3
  <2>5. d \in Done => u \in Done
    BY <1>1, <2>1, <2>4 DEF Recording, AncestorClosed, Reach
  <2> QED BY <2>1, <2>5, <1>1
<1>4. Cardinality(U) <= CaptureLimit /\ CaptureLimit \in Nat
  BY WalkBounds DEF Recording
<1> HIDE DEF S, U
<1>5. U \subseteq NewestFew(S, CaptureLimit)
  BY <1>2, <1>3, <1>4, FewAreListed
<1> QED BY <1>5 DEF S, U, Listed

LEMMA InitRecording == ASSUME WalkInit PROVE Recording
<1>1. Old \in Commits /\ Old \in Nat \ {0} /\ MaxCommits \in Nat
  BY WalkBounds, WalkConfig
<1>2. Reach(head) = 1 .. Old
  BY <1>1 DEF WalkInit, Reach
<1>3. Born \subseteq 1 .. Old
  BY <1>1 DEF WalkInit, Born, Commits
<1>4. Job = Rest
  BY DEF WalkInit, Job, Tasks
<1> QED BY <1>2, <1>3, <1>4
        DEF WalkInit, Recording, Rest, Asked, Done, AncestorClosed, NoCommitLost, Reach

\* With few enough commits to come, the unseen ones fit one list.
LEMMA FewStay ==
  ASSUME Calm, WalkTyped, Recording, NEW S \in SUBSET Commits, FewEnough(S)
  PROVE  baseline # 0 /\ Cardinality(S \ Done) <= CaptureLimit
<1>1. baseline # 0 /\ Cardinality(S \ anc[baseline]) <= CaptureLimit
  BY DEF FewEnough, Calm
<1>2. S \ Done \subseteq S \ anc[baseline]
  BY <1>1 DEF Recording, NoCommitLost, Reach, Done
<1>3. Cardinality(S \ Done) <= Cardinality(S \ anc[baseline])
  BY <1>2, Fewer
<1>4. Cardinality(S \ Done) \in Nat /\ Cardinality(S \ anc[baseline]) \in Nat
  BY CommitsCounted
<1> QED BY <1>1, <1>3, <1>4, WalkBounds

LEMMA NextRecording ==
  ASSUME Calm, WalkTyped, Recording, [WalkNext]_walkVars
  PROVE  Recording'
<1>0. /\ head \in Born /\ baseline \in {0} \cup Born /\ Done \subseteq Born
      /\ Born \subseteq Commits
      /\ Job.head \in {0} \cup Born /\ Job.found \subseteq Born /\ Job.base \in {0} \cup Born
      /\ Tasks = {1} /\ task = [t \in {1} |-> task[t]] /\ Walks(Job) /\ 0 \notin Born
      /\ \A c \in {0} \cup Born : Reach(c) \subseteq Born
      /\ Job.step \in Steps
  <2>1. Tasks = {1}
    BY DEF Calm, Tasks
  <2>2. \A c \in {0} \cup Born : Reach(c) \subseteq Born
    BY DEF WalkTyped, Branching, Reach
  <2> QED BY <2>1, <2>2, WalkBounds DEF WalkTyped, WalkTypeOK, Done, Job, Walks, Born, Steps
<1>1. ASSUME NEW d \in BOOLEAN, Commit(d) PROVE Recording'
  <2>0. PICK c : c = Cardinality(Born) + 1
    OBVIOUS
  <2>1. /\ c \in Commits \ Born /\ Born' = Born \cup {c} /\ anc'[c] = anc[head] \cup {c}
        /\ \A a \in Born \cup {0} : Reach(a)' = Reach(a)
    BY <1>1, <2>0, CommitGrows
  <2>2. /\ head' = c /\ UNCHANGED <<task, baseline, artifacts, decision, unwalked>>
        /\ FewEnough(anc[head] \cup {c})
    BY <1>1, <2>0 DEF Commit, store
  <2>3. Reach(c)' = Reach(head) \cup {c} /\ Reach(head) = anc[head]
    BY <1>0, <2>1, WalkBounds DEF Reach
  <2>4. baseline # 0 /\ Cardinality(Reach(c)' \ Done) <= CaptureLimit
    <3>1. anc[head] \cup {c} \in SUBSET Commits
      BY <1>0, <2>1, <2>3
    <3> QED BY <2>2, <2>3, <3>1, FewStay
  <2>5. Done' = Done /\ Job' = Job /\ baseline' = baseline
    BY <2>2 DEF Done, Job
  <2>6. \A a \in Done : Reach(a)' = Reach(a)
    BY <1>0, <2>1
  <2>7. AncestorClosed(Done)' /\ (AncestorClosed(Done \cup Job.found) => AncestorClosed(Done \cup Job.found)')
    BY <1>0, <2>1, <2>5, <2>6 DEF Recording, AncestorClosed
  <2>8. Reach(Job.head)' = Reach(Job.head) /\ Reach(baseline)' = Reach(baseline)
    BY <1>0, <2>1, <2>5 DEF Reach
  <2>9. NoCommitLost'
    BY <2>5, <2>8 DEF Recording, NoCommitLost, Done
  <2>10. Reach(head)' = Reach(c)'
    BY <2>2 DEF Reach
  <2> QED BY <2>1, <2>3, <2>4, <2>5, <2>7, <2>8, <2>9, <2>10 DEF Recording
<1>2. ASSUME NEW c \in Commits, Checkout(c) PROVE Recording'
  <2>1. UNCHANGED <<anc, task, baseline, artifacts, unwalked>> /\ head' = c /\ FewEnough(anc[c])
        /\ Job.step # "log"
    BY <1>0, <1>2 DEF Checkout, store, Calm, Walking, Job
  <2>2. c \in Born /\ Reach(c) = anc[c] /\ anc[c] \in SUBSET Commits
    <3>1. tips \subseteq Born
      BY DEF WalkTyped, WalkTypeOK
    <3>2. c \in Born
      BY <1>0, <1>2, <3>1 DEF Checkout
    <3> QED BY <1>0, <3>2 DEF Reach
  <2>3. baseline # 0 /\ Cardinality(Reach(c) \ Done) <= CaptureLimit
    BY <2>1, <2>2, FewStay
  <2>4. Done' = Done /\ Job' = Job /\ baseline' = baseline /\ Born' = Born
        /\ Reach(head)' = Reach(c)
        /\ \A a : Reach(a)' = Reach(a)
    BY <2>1 DEF Done, Job, Born, Reach
  <2>5. AncestorClosed(Done)' /\ (AncestorClosed(Done \cup Job.found) => AncestorClosed(Done \cup Job.found)')
    BY <2>4 DEF Recording, AncestorClosed
  <2>6. NoCommitLost' /\ Reach(Job.head)' = Reach(Job.head)
    BY <2>1, <2>4 DEF Recording, NoCommitLost, Reach
  <2> QED BY <2>1, <2>3, <2>4, <2>5, <2>6 DEF Recording
<1>3. ASSUME UNCHANGED repo
      PROVE  /\ Born' = Born /\ head' = head /\ Reach(head)' = Reach(head)
             /\ \A a : Reach(a)' = Reach(a)
             /\ \A S : AncestorClosed(S)' <=> AncestorClosed(S)
  BY <1>3 DEF repo, Born, Reach, AncestorClosed
<1>4. ASSUME NEW to, Goes(1, to) PROVE Job' = to
  BY <1>0, <1>4 DEF Goes, Job
\* The walk ends before it wrote anything: as when it crashes.
<1>5. ASSUME UNCHANGED <<repo, store>>, Job' = Rest PROVE Recording'
  <2>1. Done' = Done /\ UNCHANGED <<baseline, artifacts, unwalked>>
    BY <1>5 DEF Done, store
  <2>2. /\ Born' = Born /\ head' = head /\ Reach(head)' = Reach(head)
        /\ Reach(baseline)' = Reach(baseline) /\ AncestorClosed(Done)'
    BY <1>3, <1>5, <2>1 DEF Recording
  <2>3. Job'.step = "rest"
    BY <1>5 DEF Rest
  <2> QED BY <2>1, <2>2, <2>3 DEF Recording, Asked, NoCommitLost
<1>6. CASE ReadBaseline(1)
  <2>1. Goes(1, [Rest EXCEPT !.step = "head", !.base = baseline]) /\ UNCHANGED <<repo, store>>
    BY <1>6 DEF ReadBaseline
  <2>2. Job'.step = "head" /\ Job'.base = baseline
    BY <1>4, <2>1 DEF Rest
  <2>3. Done' = Done /\ UNCHANGED <<baseline, artifacts, unwalked>>
    BY <2>1 DEF Done, store
  <2>4. /\ Born' = Born /\ head' = head /\ Reach(head)' = Reach(head)
        /\ Reach(baseline)' = Reach(baseline) /\ AncestorClosed(Done)'
    BY <1>3, <2>1, <2>3 DEF Recording
  <2> QED BY <2>2, <2>3, <2>4 DEF Recording, Asked, NoCommitLost
<1>7. CASE ReadHead(1)
  <2>1. UNCHANGED <<repo, store>>
    BY <1>7 DEF ReadHead
  <2>2. CASE head = task[1].base
    BY <1>4, <1>5, <1>7, <2>1, <2>2 DEF ReadHead
  <2>3. CASE head # task[1].base
    <3>1. Goes(1, [task[1] EXCEPT !.step = "log", !.head = head]) /\ Job.step = "head"
      BY <1>7, <2>3 DEF ReadHead, At, Job
    <3>2. Job'.step = "log" /\ Job'.base = Job.base /\ Job'.head = head
      BY <1>0, <1>4, <3>1 DEF Job, Walks
    <3>3. Done' = Done /\ UNCHANGED <<baseline, artifacts, unwalked>>
      BY <2>1 DEF Done, store
    <3>4. /\ Born' = Born /\ head' = head /\ Reach(head)' = Reach(head)
          /\ Reach(baseline)' = Reach(baseline) /\ AncestorClosed(Done)'
      BY <1>3, <2>1, <3>3 DEF Recording
    <3>5. head \in Reach(head)
      BY <1>0 DEF WalkTyped, Branching, Reach
    <3> QED BY <1>0, <3>1, <3>2, <3>3, <3>4, <3>5 DEF Recording, Asked, NoCommitLost
  <2> QED BY <2>2, <2>3
<1>8. CASE ReadLog(1)
  <2>1. Goes(1, [task[1] EXCEPT !.step = "record", !.found = Listed(task[1].base)])
        /\ Job.step = "log" /\ UNCHANGED <<repo, store>>
    BY <1>8 DEF ReadLog, At, Job, Calm
  <2>2. Job'.step = "record" /\ Job'.base = Job.base /\ Job'.head = Job.head
        /\ Job'.found = Listed(Job.base)
    BY <1>0, <1>4, <2>1 DEF Job, Walks
  <2>3. Done' = Done /\ UNCHANGED <<baseline, artifacts, unwalked>>
    BY <2>1 DEF Done, store
  <2>4. /\ Born' = Born /\ head' = head /\ Reach(head)' = Reach(head)
        /\ Reach(baseline)' = Reach(baseline) /\ AncestorClosed(Done)'
    BY <1>3, <2>1, <2>3 DEF Recording
  <2>5. Job.base = baseline
    BY <2>1 DEF Recording
  <2>6. ASSUME Job.base # 0
        PROVE  AncestorClosed(Done \cup Job.found)' /\ Reach(Job.head) \subseteq Done \cup Job'.found
    <3> DEFINE F == Listed(baseline)
    <3>1. F \subseteq Reach(head) /\ Reach(head) \subseteq Done \cup F
      <4>1. F \subseteq Reach(head)
        BY DEF Listed, NewestFew, BaseToHead
      <4> QED BY <2>5, <2>6, <4>1, ListsUnseen
    <3>2. \A a \in Reach(head) : Reach(a) \subseteq Reach(head)
      <4>1. Reach(head) = anc[head] /\ \A a \in anc[head] : a \in Born
            /\ anc[a] \subseteq anc[head]
        BY <1>0 DEF Reach, WalkTyped, Branching
      <4> QED BY <1>0, <4>1 DEF Reach
    <3> HIDE DEF F
    <3>3. AncestorClosed(Done \cup F)
      BY <3>1, <3>2 DEF Recording, AncestorClosed
    <3>4. Job.head \in Reach(head)
      BY <2>1 DEF Recording
    <3>5. Job'.found = F
      BY <2>2, <2>5 DEF F
    <3>6. AncestorClosed(Done \cup Job.found)'
      <4>1. \A a : Reach(a)' = Reach(a)
        BY <1>3, <2>1
      <4>2. (Done \cup Job.found)' = Done \cup F
        BY <2>3, <3>5
      <4> QED BY <3>3, <4>1, <4>2 DEF AncestorClosed
    <3> QED BY <3>1, <3>2, <3>4, <3>5, <3>6
  <2> QED BY <2>1, <2>2, <2>3, <2>4, <2>5, <2>6, <1>3 DEF Recording, Asked, NoCommitLost
<1>9. CASE TimesOut(1) \/ SetFails(1)
  BY <1>4, <1>5, <1>9 DEF TimesOut, SetFails
<1>10. CASE Record(1)
  <2>1. Goes(1, [task[1] EXCEPT !.step = "decide"]) /\ Job.step = "record"
        /\ artifacts' = artifacts \cup Job.found /\ UNCHANGED <<repo, baseline>>
        /\ unwalked' = IF Job.base = 0 THEN Reach(Job.head) \ Job.found ELSE unwalked
    BY <1>10 DEF Record, At, Job, Calm, Writable
  <2>2. Job'.step = "decide" /\ Job'.base = Job.base /\ Job'.head = Job.head
        /\ Job'.found = Job.found
    BY <1>0, <1>4, <2>1 DEF Job, Walks
  <2>3. Job.base = baseline /\ Job.head \in Born
    BY <2>1 DEF Recording, Asked
  <2>4. /\ Born' = Born /\ head' = head /\ Reach(head)' = Reach(head)
        /\ Reach(baseline)' = Reach(baseline) /\ Reach(Job.head)' = Reach(Job.head)
    BY <1>3, <2>1, <2>2
  <2>5. AncestorClosed(Done)' /\ Reach(Job.head) \subseteq Done' /\ Done \subseteq Done'
    <3>1. CASE Job.base = 0
      <4>1. Job.head = head /\ Born \subseteq Reach(head) /\ Reach(head) \subseteq Born
        BY <1>0, <2>1, <2>3, <3>1 DEF Recording, Asked
      <4>2. Done' = Born
        BY <1>0, <2>1, <3>1, <4>1 DEF Done
      <4>3. \A c \in Born : Reach(c)' \subseteq Born
        BY <1>0, <1>3, <2>1
      <4> QED BY <1>0, <4>1, <4>2, <4>3 DEF AncestorClosed
    <3>2. CASE Job.base # 0
      <4>1. Done' = Done \cup Job.found
        BY <2>1, <3>2 DEF Done
      <4>2. AncestorClosed(Done \cup Job.found) /\ Reach(Job.head) \subseteq Done \cup Job.found
        BY <2>1, <3>2 DEF Recording
      <4>3. \A a : Reach(a)' = Reach(a)
        BY <1>3, <2>1
      <4> QED BY <4>1, <4>2, <4>3 DEF AncestorClosed
    <3> QED BY <3>1, <3>2
  <2>6. baseline # 0 => Cardinality(Reach(head) \ Done') <= CaptureLimit
    <3>1. Reach(head) \ Done \in SUBSET Commits
          /\ Reach(head) \ Done' \in SUBSET (Reach(head) \ Done)
      BY <1>0, <2>5
    <3>2. Cardinality(Reach(head) \ Done') <= Cardinality(Reach(head) \ Done)
      BY <3>1, Fewer
    <3>3. Cardinality(Reach(head) \ Done') \in Nat /\ Cardinality(Reach(head) \ Done) \in Nat
      BY <3>1, CommitsCounted
    <3> QED BY <3>2, <3>3, WalkBounds DEF Recording
  <2>7. NoCommitLost'
    BY <2>1, <2>4, <2>5 DEF Recording, NoCommitLost, Done
  <2> QED BY <2>1, <2>2, <2>3, <2>4, <2>5, <2>6, <2>7 DEF Recording, Asked
<1>11. CASE Decide(1)
  <2>1. Goes(1, [task[1] EXCEPT !.step = "set"]) /\ Job.step = "decide"
        /\ UNCHANGED <<repo, baseline, artifacts, unwalked>>
    BY <1>11 DEF Decide, At, Job
  <2>2. Job'.step = "set" /\ Job'.base = Job.base /\ Job'.head = Job.head
    BY <1>0, <1>4, <2>1 DEF Job, Walks
  <2>3. Done' = Done
    BY <2>1 DEF Done
  <2>4. /\ Born' = Born /\ head' = head /\ Reach(head)' = Reach(head)
        /\ Reach(baseline)' = Reach(baseline) /\ Reach(Job.head)' = Reach(Job.head)
        /\ AncestorClosed(Done)'
    BY <1>3, <2>1, <2>2, <2>3 DEF Recording
  <2> QED BY <2>1, <2>2, <2>3, <2>4 DEF Recording, Asked, NoCommitLost
<1>12. CASE SetBaseline(1)
  <2>1. Goes(1, Rest) /\ Job.step = "set" /\ UNCHANGED <<repo, artifacts, unwalked>>
        /\ baseline' = Job.head
    BY <1>12 DEF SetBaseline, At, Job, Target, NewBaseline
  <2>2. Job'.step = "rest"
    BY <1>4, <2>1 DEF Rest
  <2>3. Job.head \in Born /\ Reach(Job.head) \subseteq Done /\ Done' = Done
    BY <2>1 DEF Recording, Asked, Done
  <2>4. /\ Born' = Born /\ head' = head /\ Reach(head)' = Reach(head)
        /\ Reach(baseline)' = Reach(Job.head) /\ AncestorClosed(Done)'
    BY <1>3, <2>1, <2>3 DEF Recording
  <2>5. Cardinality(Reach(head) \ Done) <= CaptureLimit
    <3>1. CASE baseline # 0
      BY <3>1 DEF Recording
    <3>2. CASE baseline = 0
      <4>1. Reach(head) \ Done = {}
        BY <2>1, <2>3, <3>2 DEF Recording, Asked
      <4> QED BY <4>1, FS_EmptySet, WalkBounds
    <3> QED BY <3>1, <3>2
  <2> QED BY <1>0, <2>1, <2>2, <2>3, <2>4, <2>5 DEF Recording, Asked, NoCommitLost, Done
<1>13. CASE WalkCrash
  <2>1. Job' = Rest
    BY <1>0, <1>13 DEF WalkCrash, Job
  <2> QED BY <1>5, <1>13, <2>1 DEF WalkCrash
<1>14. CASE UNCHANGED walkVars
  <2>1. UNCHANGED <<repo, store, task>>
    BY <1>14 DEF walkVars, repo, store
  <2>2. Done' = Done /\ Job' = Job /\ UNCHANGED <<baseline, artifacts, unwalked>>
    BY <2>1 DEF Done, store, Job
  <2>3. /\ Born' = Born /\ head' = head /\ Reach(head)' = Reach(head)
        /\ Reach(baseline)' = Reach(baseline) /\ Reach(Job.head)' = Reach(Job.head)
        /\ \A a : Reach(a)' = Reach(a)
    BY <1>3, <2>1, <2>2
  <2>4. AncestorClosed(Done)' /\ (AncestorClosed(Done \cup Job.found) => AncestorClosed(Done \cup Job.found)')
    BY <2>2, <2>3 DEF Recording, AncestorClosed
  <2> QED BY <2>2, <2>3, <2>4 DEF Recording, NoCommitLost
<1> QED BY <1>0, <1>1, <1>2, <1>6, <1>7, <1>8, <1>9, <1>10, <1>11, <1>12, <1>13,
           <1>14 DEF WalkNext

--------------------------------------------------------------------------------
(* On one branch, the newest text wins. *)

\* While HEAD has kept to its branch, the decision is no older than any text up to
\* the baseline, and a walk has found what is newer up to the HEAD it asked for.
OnOneBranch ==
  /\ \A c \in Born : Reach(c) = 1 .. c /\ c <= head
  /\ touches \subseteq Born /\ touches \cap unwalked = {}
  /\ baseline = 0 => touches = {}
  /\ baseline # 0 => Cardinality(Reach(head) \ Reach(baseline)) <= CaptureLimit
  /\ Job.step \in Asked => baseline <= Job.head
  /\ \A x \in touches : x <= baseline => x <= decision
  /\ Job.step \in {"record", "decide"} =>
       /\ \A x \in touches : baseline < x /\ x <= Job.head => x \in Job.found
       /\ \A y \in Job.found : baseline < y
  /\ Job.step = "set" => \A x \in touches : x <= Job.head => x <= decision
Deciding == branched \in Nat /\ (branched = 0 => OnOneBranch)

LEMMA InitDeciding == ASSUME WalkInit PROVE Deciding
<1>1. Old \in Commits /\ Old \in Nat \ {0} /\ MaxCommits \in Nat /\ Job = Rest
  BY WalkBounds, WalkConfig DEF WalkInit, Job, Tasks
<1>2. Born \subseteq 1 .. Old
  BY <1>1 DEF WalkInit, Born, Commits
<1>3. \A c \in Born : Reach(c) = 1 .. c
  BY <1>1, <1>2 DEF WalkInit, Reach, Commits
<1> QED BY <1>1, <1>2, <1>3 DEF WalkInit, Deciding, OnOneBranch, Rest, Asked

LEMMA NextDeciding ==
  ASSUME Calm, WalkTyped, Recording, Deciding, [WalkNext]_walkVars
  PROVE  Deciding'
<1>0. /\ head \in Born /\ baseline \in {0} \cup Born /\ Born \subseteq Commits
      /\ Job.head \in {0} \cup Born /\ Job.found \subseteq Born
      /\ Tasks = {1} /\ task = [t \in {1} |-> task[t]] /\ Walks(Job) /\ 0 \notin Born
      /\ \A c \in {0} \cup Born : Reach(c) \subseteq Born /\ c \in Nat
      /\ touches \subseteq Commits /\ decision \in {0} \cup touches /\ unwalked \subseteq Born
  <2>1. Tasks = {1}
    BY DEF Calm, Tasks
  <2>2. \A c \in {0} \cup Born : Reach(c) \subseteq Born /\ c \in Nat
    BY DEF WalkTyped, Branching, Reach
  <2> QED BY <2>1, <2>2, WalkBounds DEF WalkTyped, WalkTypeOK, Job, Walks, Born
<1>1. ASSUME NEW d \in BOOLEAN, Commit(d) PROVE Deciding'
  <2>0. PICK c : c = Cardinality(Born) + 1
    OBVIOUS
  <2>1. /\ c \in Commits \ Born /\ Born' = Born \cup {c} /\ anc'[c] = anc[head] \cup {c}
        /\ \A a \in Born \cup {0} : Reach(a)' = Reach(a)
        /\ \A a \in Born : a < c
    BY <1>1, <2>0, CommitGrows
  <2>2. /\ head' = c /\ UNCHANGED <<task, branched, baseline, artifacts, decision, unwalked>>
        /\ FewEnough(anc[head] \cup {c}) /\ touches' \in {touches, touches \cup {c}}
    BY <1>1, <2>0 DEF Commit, store
  <2>3. baseline # 0 /\ Cardinality((anc[head] \cup {c}) \ anc[baseline]) <= CaptureLimit
    BY <2>2 DEF FewEnough, Calm
  <2> SUFFICES ASSUME OnOneBranch PROVE OnOneBranch'
    BY <2>2 DEF Deciding
  <2>4. /\ \A a \in Born : Reach(a) = 1 .. a /\ a <= head
        /\ Reach(head) = 1 .. head /\ Reach(head) = anc[head] /\ Born \subseteq Reach(head)
    BY <1>0 DEF OnOneBranch, Reach
  <2>5. c = head + 1 /\ c \in Nat
    <3>1. PICK b \in Nat : Born = 1 .. b
      BY DEF WalkTyped, Branching
    <3>2. c = b + 1
      <4>1. Cardinality(1 .. b) = b
        BY FS_Interval
      <4> QED BY <2>0, <3>1, <4>1
    <3>3. b = head
      BY <1>0, <2>4, <3>1
    <3> QED BY <3>2, <3>3, <1>0
  <2>6. Reach(c)' = 1 .. c
    <3>1. Reach(c)' = anc[head] \cup {c}
      BY <2>1, WalkBounds DEF Reach
    <3>2. anc[head] = 1 .. head /\ head \in Nat
      BY <1>0, <2>4
    <3>3. (1 .. head) \cup {head + 1} = 1 .. head + 1
      BY <3>2
    <3> QED BY <2>5, <3>1, <3>2, <3>3
  <2>7. \A a \in Born' : Reach(a)' = 1 .. a /\ a <= head'
    BY <1>0, <2>1, <2>2, <2>4, <2>5, <2>6
  <2>8. Job' = Job /\ baseline' = baseline /\ decision' = decision /\ unwalked' = unwalked
        /\ Reach(baseline)' = anc[baseline] /\ Reach(head)' = anc[head] \cup {c}
    BY <1>0, <2>1, <2>2, <2>3 DEF Job, Reach
  <2>9. ~(c <= baseline) /\ ~(c <= Job.head) /\ c \notin unwalked
    BY <1>0, <2>1, <2>5
  <2> QED BY <2>1, <2>2, <2>3, <2>7, <2>8, <2>9 DEF OnOneBranch
<1>2. ASSUME NEW c \in Commits, Checkout(c) PROVE Deciding'
  BY <1>2 DEF Checkout, Deciding
\* A step of the walk's: the repository stays.
<1>3. ASSUME UNCHANGED repo, OnOneBranch => OnOneBranch' PROVE Deciding'
  BY <1>3 DEF Deciding, repo
<1>4. ASSUME UNCHANGED repo
      PROVE  /\ Born' = Born /\ head' = head /\ touches' = touches /\ Reach(head)' = Reach(head)
             /\ \A a : Reach(a)' = Reach(a)
  BY <1>4 DEF repo, Born, Reach
<1>5. ASSUME NEW to, Goes(1, to) PROVE Job' = to
  BY <1>0, <1>5 DEF Goes, Job
\* Steps that leave the store: what matters is what the job then knows.
<1>6. ASSUME OnOneBranch, UNCHANGED <<repo, store>>,
             Job'.step \in Asked => baseline <= Job'.head,
             Job'.step \in {"record", "decide"} =>
               /\ \A x \in touches : baseline < x /\ x <= Job'.head => x \in Job'.found
               /\ \A y \in Job'.found : baseline < y,
             Job'.step = "set" => \A x \in touches : x <= Job'.head => x <= decision
      PROVE  OnOneBranch'
  <2>1. UNCHANGED <<baseline, decision, unwalked>>
    BY <1>6 DEF store
  <2>2. Reach(baseline)' = Reach(baseline)
    BY <1>6, <2>1 DEF repo, Reach
  <2> QED BY <1>4, <1>6, <2>1, <2>2 DEF OnOneBranch
<1>7. ASSUME UNCHANGED <<repo, store>>, Job'.step \in {"rest", "head"} PROVE Deciding'
  BY <1>3, <1>6, <1>7 DEF Asked
<1>8. CASE ReadBaseline(1)
  <2>1. Job'.step = "head"
    BY <1>5, <1>8 DEF ReadBaseline, Rest
  <2> QED BY <1>7, <1>8, <2>1 DEF ReadBaseline
<1>9. CASE ReadHead(1)
  <2>1. UNCHANGED <<repo, store>>
    BY <1>9 DEF ReadHead
  <2>2. CASE head = task[1].base
    <3>1. Job'.step = "rest"
      BY <1>5, <1>9, <2>2 DEF ReadHead, Rest
    <3> QED BY <1>7, <2>1, <3>1
  <2>3. CASE head # task[1].base
    <3>1. Job'.step = "log" /\ Job'.head = head
      BY <1>0, <1>5, <1>9, <2>3 DEF ReadHead, Job, Walks
    <3>2. OnOneBranch => baseline <= head
      BY <1>0 DEF OnOneBranch
    <3> QED BY <1>3, <1>6, <2>1, <3>1, <3>2
  <2> QED BY <2>2, <2>3
<1>10. CASE ReadLog(1)
  <2>1. Goes(1, [task[1] EXCEPT !.step = "record", !.found = Listed(task[1].base)])
        /\ Job.step = "log" /\ UNCHANGED <<repo, store>>
    BY <1>10 DEF ReadLog, At, Job, Calm
  <2>2. Job'.step = "record" /\ Job'.head = Job.head /\ Job'.found = Listed(Job.base)
    BY <1>0, <1>5, <2>1 DEF Job, Walks
  <2>3. Job.base = baseline
    BY <2>1 DEF Recording
  <2>4. ASSUME OnOneBranch
        PROVE  /\ baseline <= Job.head
               /\ \A x \in touches : baseline < x /\ x <= Job.head => x \in Listed(baseline)
               /\ \A y \in Listed(baseline) : baseline < y
    <3> DEFINE S == BaseToHead(baseline)
    <3>1. baseline <= Job.head
      BY <2>1, <2>4 DEF OnOneBranch, Asked
    <3>2. S \subseteq Commits /\ S \subseteq Born
      BY <1>0 DEF BaseToHead
    <3>3. /\ \A y \in S : baseline < y
          /\ \A x \in touches : baseline < x => x \in S
      <4>1. Reach(head) = 1 .. head /\ \A c \in Born : c <= head
        BY <1>0, <2>4 DEF OnOneBranch
      <4>2. Reach(baseline) = 1 .. baseline
        BY <1>0, <2>4 DEF OnOneBranch, Reach
      <4> QED BY <1>0, <2>4, <4>1, <4>2 DEF BaseToHead, OnOneBranch
    <3>4. CASE baseline = 0
      <4>1. touches = {} /\ Listed(baseline) \subseteq S
        BY <2>4, <3>4 DEF OnOneBranch, Listed, NewestFew
      <4> QED BY <3>1, <3>3, <4>1
    <3>5. CASE baseline # 0
      <4>1. Cardinality(S) <= CaptureLimit
        BY <2>4, <3>5 DEF OnOneBranch, BaseToHead
      <4> HIDE DEF S
      <4>2. S \subseteq NewestFew(S, CaptureLimit)
        BY <3>2, <4>1, WalkBounds, FewAreListed
      <4>3. NewestFew(S, CaptureLimit) \subseteq S
        BY DEF NewestFew
      <4>4. Listed(baseline) = S
        BY <3>5, <4>2, <4>3 DEF Listed, S
      <4> QED BY <3>1, <3>3, <4>4
    <3> QED BY <3>4, <3>5
  <2> QED BY <1>3, <1>6, <2>1, <2>2, <2>3, <2>4
<1>11. CASE TimesOut(1) \/ SetFails(1)
  <2>1. Job'.step = "rest" /\ UNCHANGED <<repo, store>>
    BY <1>5, <1>11 DEF TimesOut, SetFails, Rest
  <2> QED BY <1>7, <2>1
<1>12. CASE Record(1)
  <2>1. Goes(1, [task[1] EXCEPT !.step = "decide"]) /\ Job.step = "record"
        /\ UNCHANGED <<repo, baseline, decision>>
        /\ unwalked' = IF Job.base = 0 THEN Reach(Job.head) \ Job.found ELSE unwalked
    BY <1>12 DEF Record, At, Job
  <2>2. Job'.step = "decide" /\ Job'.head = Job.head /\ Job'.found = Job.found
    BY <1>0, <1>5, <2>1 DEF Job, Walks
  <2>3. Job.base = baseline
    BY <2>1 DEF Recording
  <2>4. OnOneBranch => touches \cap unwalked' = {}
    BY <2>1, <2>3 DEF OnOneBranch
  <2>5. Reach(baseline)' = Reach(baseline)
    BY <1>4, <2>1 DEF repo, Reach
  <2>6. OnOneBranch => OnOneBranch'
    BY <1>4, <2>1, <2>2, <2>4, <2>5 DEF OnOneBranch, Asked
  <2> QED BY <1>3, <2>1, <2>6
<1>13. CASE Decide(1)
  <2> DEFINE mine == Job.found \cap touches
  <2>1. Goes(1, [task[1] EXCEPT !.step = "set"]) /\ Job.step = "decide"
        /\ UNCHANGED <<repo, baseline, artifacts, unwalked>>
        /\ decision' = IF mine = {} THEN decision ELSE Max(mine)
    BY <1>13 DEF Decide, At, Job, Winner, LastOf
  <2>2. Job'.step = "set" /\ Job'.head = Job.head
    BY <1>0, <1>5, <2>1 DEF Job, Walks
  <2>3. mine # {} => Max(mine) \in mine /\ \A n \in mine : n <= Max(mine)
    BY <1>0, MaxOf
  <2>4. ASSUME OnOneBranch
        PROVE  /\ \A x \in touches : x <= baseline => x <= decision'
               /\ \A x \in touches : x <= Job.head => x <= decision'
    <3>1. /\ \A x \in touches : baseline < x /\ x <= Job.head => x \in mine
          /\ \A y \in mine : baseline < y
          /\ \A x \in touches : x <= baseline => x <= decision
      BY <2>1, <2>4 DEF OnOneBranch
    <3>2. /\ baseline \in Nat /\ Job.head \in Nat /\ decision \in Nat
          /\ touches \subseteq Nat /\ mine \subseteq Nat
      BY <1>0, <2>4 DEF OnOneBranch
    <3>3. CASE mine = {}
      BY <2>1, <3>1, <3>2, <3>3
    <3>4. CASE mine # {}
      <4>1. decision' \in mine /\ \A n \in mine : n <= decision'
        BY <2>1, <2>3, <3>4
      <4> HIDE DEF mine
      <4> QED BY <3>1, <3>2, <4>1
    <3> QED BY <3>3, <3>4
  <2>5. Reach(baseline)' = Reach(baseline)
    BY <1>4, <2>1 DEF repo, Reach
  <2>6. OnOneBranch => OnOneBranch'
    BY <1>4, <2>1, <2>2, <2>4, <2>5 DEF OnOneBranch, Asked
  <2> QED BY <1>3, <2>1, <2>6
<1>14. CASE SetBaseline(1)
  <2>1. Goes(1, Rest) /\ Job.step = "set" /\ UNCHANGED <<repo, artifacts, decision, unwalked>>
        /\ baseline' = Job.head
    BY <1>14 DEF SetBaseline, At, Job, Target, NewBaseline
  <2>2. Job'.step = "rest"
    BY <1>5, <2>1 DEF Rest
  <2>3. ASSUME OnOneBranch
        PROVE  Cardinality(Reach(head) \ Reach(Job.head)) <= CaptureLimit
    <3>1. Job.head \in Born
      BY <2>1 DEF Recording, Asked
    <3>2. CASE baseline = 0
      <4>1. Reach(head) \ Reach(Job.head) = {}
        BY <2>1, <3>2 DEF Recording, Asked
      <4> QED BY <4>1, FS_EmptySet, WalkBounds
    <3>3. CASE baseline # 0
      <4>1. Reach(baseline) = 1 .. baseline /\ Reach(Job.head) = 1 .. Job.head
            /\ baseline <= Job.head
        BY <1>0, <2>1, <2>3, <3>1, <3>3 DEF OnOneBranch, Asked
      <4>2. Reach(head) \ Reach(Job.head) \subseteq Reach(head) \ Reach(baseline)
        BY <1>0, <3>1, <3>3, <4>1
      <4>3. Reach(head) \ Reach(baseline) \in SUBSET Commits
        BY <1>0
      <4>4. Cardinality(Reach(head) \ Reach(Job.head))
            <= Cardinality(Reach(head) \ Reach(baseline))
        BY <4>2, <4>3, Fewer
      <4>5. Cardinality(Reach(head) \ Reach(Job.head)) \in Nat
            /\ Cardinality(Reach(head) \ Reach(baseline)) \in Nat
        BY <4>2, <4>3, CommitsCounted
      <4> QED BY <2>3, <3>3, <4>4, <4>5, WalkBounds DEF OnOneBranch
    <3> QED BY <3>2, <3>3
  <2>4. Reach(baseline)' = Reach(Job.head)
    BY <2>1 DEF repo, Reach
  <2>5. OnOneBranch => OnOneBranch'
    <3>1. baseline' = 0 => FALSE
      BY <1>0, <2>1 DEF Recording, Asked
    <3> QED BY <1>4, <2>1, <2>2, <2>3, <2>4, <3>1 DEF OnOneBranch, Asked
  <2> QED BY <1>3, <2>1, <2>5
<1>15. CASE WalkCrash
  <2>1. Job'.step = "rest"
    BY <1>0, <1>15 DEF WalkCrash, Job, Rest
  <2> QED BY <1>7, <1>15, <2>1 DEF WalkCrash
<1>16. CASE UNCHANGED walkVars
  <2>1. UNCHANGED <<repo, store>> /\ Job' = Job
    BY <1>16 DEF walkVars, repo, store, Job
  <2> QED BY <1>3, <1>6, <2>1 DEF OnOneBranch
<1> QED BY <1>0, <1>1, <1>2, <1>8, <1>9, <1>10, <1>11, <1>12, <1>13, <1>14, <1>15,
           <1>16 DEF WalkNext

LEMMA DecidingIsCurrent ==
  ASSUME WalkTyped, Deciding, baseline = head, branched = 0,
         (Reach(head) \cap touches) \ unwalked # {}
  PROVE  decision = Max((Reach(head) \cap touches) \ unwalked)
<1> DEFINE known == (Reach(head) \cap touches) \ unwalked
<1>1. head \in Born /\ Born \subseteq Commits /\ touches \subseteq Commits
      /\ decision \in {0} \cup touches
  BY DEF WalkTyped, WalkTypeOK, Born
<1>2. /\ \A c \in Born : Reach(c) = 1 .. c /\ c <= head
      /\ touches \subseteq Born /\ touches \cap unwalked = {}
      /\ \A x \in touches : x <= head => x <= decision
  BY DEF Deciding, OnOneBranch
<1>3. known = touches
  <2>1. \A c \in Born : c \in 1 .. head
    BY <1>1, <1>2, WalkBounds DEF Commits
  <2> QED BY <1>1, <1>2, <2>1
<1>4. \A x \in touches : x \in Nat /\ x >= 1 /\ x <= decision
  BY <1>1, <1>2, WalkBounds DEF Commits
<1>5. decision \in touches
  BY <1>1, <1>3, <1>4
<1>6. Max(touches) \in touches /\ \A n \in touches : n <= Max(touches)
  BY <1>1, <1>5, MaxOf
<1> HIDE DEF known
<1>7. decision = Max(touches)
  BY <1>4, <1>5, <1>6
<1> QED BY <1>3, <1>7 DEF known

\* Whatever the baseline has passed is recorded, but for what the first walk's limit
\* left out; and with the baseline at HEAD the decision is as its newest commit wrote
\* it: for any history, branches, limits and crashes between two writes, when no
\* second walk runs and nothing fails.
THEOREM CaptureIsComplete == ASSUME Calm PROVE WalkSpec => []CaptureComplete
<1> DEFINE I == WalkTyped /\ Recording /\ Deciding
<1>1. WalkInit => I
  BY InitIsWalkTyped, InitRecording, InitDeciding
<1>2. I /\ [WalkNext]_walkVars => I'
  BY NextIsWalkTyped, NextRecording, NextDeciding
<1>3. I => CaptureComplete
  <2>1. I => NoCommitLost
    BY DEF Recording
  <2>2. I => DecisionCurrent
    BY DecidingIsCurrent DEF DecisionCurrent
  <2> QED BY <2>1, <2>2 DEF CaptureComplete
<1> QED BY <1>1, <1>2, <1>3, PTL DEF WalkSpec

--------------------------------------------------------------------------------
(* Reindex: where a record is said to come from.                           *)

HistorySpec == HistoryInit /\ [][HistoryNext]_historyVars

LEMMA OldestOf == ASSUME NEW S \in SUBSET Nat, S # {}
  PROVE Oldest(S) \in S /\ \A n \in S : Oldest(S) <= n
<1>1. PICK m \in S : \A n \in S : m <= n
  BY Smallest
<1>2. Min(S) \in S /\ \A n \in S : Min(S) <= n
  BY <1>1 DEF Min
<1> QED BY <1>2 DEF Oldest

LEMMA NewestOf == ASSUME NEW b \in Nat, NEW S \in SUBSET (1 .. b), S # {}
  PROVE Newest(S) \in S /\ \A n \in S : n <= Newest(S)
<1>1. S \in SUBSET Nat /\ \A n \in S : n <= b
  OBVIOUS
<1>2. Max(S) \in S /\ \A n \in S : n <= Max(S)
  BY <1>1, Greatest
<1> QED BY <1>2 DEF Newest

\* The build whose hazards are off: no capture writes during a reindex, no death
\* between a repository's first commits and its first records, and no commit
\* dated before an older one.
Straight == {"overlap", "crash", "skew"} \cap ReindexHazards = {}

\* What a row of the decisions holds.
Sightings == [first : Nat, created : Nat, last : Nat, text : Texts \cup {Untouched},
              session : Workers \cup {Nobody}]
HistoryTyped ==
  /\ Count \in Nat
  /\ DOMAIN texts = 1 .. Count /\ DOMAIN authored = 1 .. Count /\ DOMAIN recorded = 1 .. Count
  /\ \A c \in 1 .. Count : /\ texts[c] \in Texts \cup {Untouched} /\ authored[c] = 2 * c
                           /\ recorded[c] \in Workers \cup {Nobody, Unseen}
  /\ session \in Workers \cup {Nobody}
  /\ walkedTo \in 0 .. Count /\ reindexed \in 0 .. Count
  /\ row \in Sightings
  /\ reindexJob \in [step : {"rest", "known", "repair", "write"}, upto : 0 .. Count,
                     known : Sightings]

Seen == Touching({c \in 1 .. walkedTo : recorded[c] # Unseen} \cup 1 .. reindexed)

\* A row is dated to one of its record's commits, and so that every later reindex
\* walks it; a commit past the mark is met first by a capture that gives the record
\* its row; what a reindex has read of the row stays so; and after its repair the
\* row is dated to the oldest commit it walked.
Provenance ==
  /\ row # NoRow => row.first \in Touching(1 .. Count) /\ row.created = 2 * row.first
  /\ row = NoRow => \A c \in 1 .. Count : c > walkedTo => recorded[c] = Unseen
  /\ walkedTo = 0 => \A c \in 1 .. Count : recorded[c] = Unseen
  /\ reindexJob.step # "rest" =>
       /\ Group # {} /\ walkedTo <= reindexJob.upto /\ reindexed <= reindexJob.upto
       /\ row # NoRow => row.first <= reindexJob.upto
  /\ reindexJob.step = "repair" => reindexJob.known = row
  /\ reindexJob.step = "write" =>
       IF reindexJob.known = NoRow THEN row = NoRow
       ELSE row # NoRow /\ row.text = reindexJob.known.text /\ row.first = Oldest(Group)
  /\ Touching(1 .. reindexed) # {} => row.first = Oldest(Touching(1 .. reindexed))
  /\ AttributionTracks
  /\ Seen # {} => row.text = texts[Newest(Seen)]

LEMMA InitProvenance == ASSUME HistoryInit PROVE HistoryTyped /\ Provenance
<1>1. DOMAIN texts = {} /\ DOMAIN authored = {} /\ DOMAIN recorded = {}
  BY DEF HistoryInit
<1>2. Count = 0
  BY <1>1, FS_EmptySet DEF Count
<1>3. row = NoRow /\ reindexJob = NoJob /\ NoRow \in Sightings /\ walkedTo = 0 /\ reindexed = 0
      /\ session \in Workers \cup {Nobody}
  BY DEF HistoryInit, NoRow, Sightings
<1>4. HistoryTyped
  BY <1>1, <1>2, <1>3 DEF HistoryTyped, NoJob
<1>5. Touching(1 .. reindexed) = {} /\ Seen = {}
  BY <1>3 DEF Touching, Seen
<1> QED BY <1>2, <1>3, <1>4, <1>5 DEF Provenance, AttributionTracks, NoJob

\* What a row is after a sighting, and after the sightings of a set.
LEMMA UpsertSights ==
  ASSUME HistoryTyped, NEW r \in Sightings, r = NoRow \/ r.first # 0,
         NEW c \in 1 .. Count, NEW who \in Workers \cup {Nobody}
  PROVE  LET u == Upsert(r, c, who) IN
         /\ u \in Sightings /\ u # NoRow /\ u.first # 0 /\ u.text = texts[c]
         /\ r = NoRow => u.first = c /\ u.created = 2 * c /\ u.session = who
         /\ r # NoRow => u.first = r.first /\ u.created = r.created /\ u.session = r.session
<1> DEFINE u == Upsert(r, c, who)
           Sights == /\ u \in Sightings /\ u # NoRow /\ u.first # 0 /\ u.text = texts[c]
                     /\ r = NoRow => u.first = c /\ u.created = 2 * c /\ u.session = who
                     /\ r # NoRow => u.first = r.first /\ u.created = r.created
                                     /\ u.session = r.session
<1>1. c \in Nat /\ c # 0 /\ authored[c] = 2 * c /\ authored[c] \in Nat
      /\ texts[c] \in Texts \cup {Untouched}
  BY DEF HistoryTyped
<1>2. NoRow.first = 0
  BY DEF NoRow
<1>3. ASSUME r = NoRow PROVE Sights
  <2>1. u = [first |-> c, created |-> authored[c], last |-> c, text |-> texts[c], session |-> who]
    BY <1>3 DEF Upsert
  <2> HIDE DEF u
  <2>2. PICK x, y : x = texts[c] /\ y = authored[c]
    OBVIOUS
  <2>3. u = [first |-> c, created |-> y, last |-> c, text |-> x, session |-> who]
    BY <2>1, <2>2
  <2>4. u \in Sightings
    BY <1>1, <2>2, <2>3 DEF Sightings
  <2>5. u.first = c /\ u.created = y /\ u.text = x /\ u.session = who
    BY <2>3
  <2> QED BY <1>1, <1>2, <1>3, <2>2, <2>4, <2>5 DEF Sights
<1>4. ASSUME r # NoRow PROVE Sights
  <2> DEFINE q == [r EXCEPT !.last = c]
  <2>1. q \in Sightings /\ q.first = r.first /\ q.created = r.created /\ q.session = r.session
    BY <1>1 DEF Sightings
  <2>2. u = [q EXCEPT !.text = texts[c]]
    BY <1>4 DEF Upsert
  <2>3. PICK x : x = texts[c]
    OBVIOUS
  <2> HIDE DEF q, u
  <2>5. u = [q EXCEPT !.text = x] /\ x \in Texts \cup {Untouched}
    BY <1>1, <2>2, <2>3
  <2>6. u \in Sightings
    BY <2>1, <2>5 DEF Sightings
  <2>7. u.first = q.first /\ u.created = q.created /\ u.session = q.session /\ u.text = x
    BY <2>1, <2>5 DEF Sightings
  <2>4. u \in Sightings /\ u.first = q.first /\ u.created = q.created /\ u.session = q.session
        /\ u.text = x
    BY <2>6, <2>7
  <2> QED BY <1>2, <1>4, <2>1, <2>3, <2>4
<1> QED BY <1>3, <1>4

LEMMA UpsertAllSights ==
  ASSUME HistoryTyped, NEW r \in Sightings, r = NoRow \/ r.first # 0,
         NEW S \in SUBSET (1 .. Count), S # {}, NEW who \in Workers \cup {Nobody}
  PROVE  LET u == UpsertAll(r, S, who) IN
         /\ u \in Sightings /\ u # NoRow /\ u.text = texts[Newest(S)]
         /\ r = NoRow => u.first = Oldest(S) /\ u.created = 2 * Oldest(S) /\ u.session = who
         /\ r # NoRow => u.first = r.first /\ u.created = r.created /\ u.session = r.session
<1> DEFINE v == Upsert(r, Oldest(S), who)
           u == Upsert(v, Newest(S), who)
<1>1. Oldest(S) \in 1 .. Count /\ Newest(S) \in 1 .. Count
  <2>1. Count \in Nat /\ S \in SUBSET Nat
    BY DEF HistoryTyped
  <2>2. Oldest(S) \in S
    BY <2>1, OldestOf
  <2>3. Newest(S) \in S
    BY <2>1, NewestOf
  <2> QED BY <2>2, <2>3
<1>2. /\ v \in Sightings /\ v # NoRow /\ v.first # 0
      /\ r = NoRow => v.first = Oldest(S) /\ v.created = 2 * Oldest(S) /\ v.session = who
      /\ r # NoRow => v.first = r.first /\ v.created = r.created /\ v.session = r.session
  BY <1>1, UpsertSights
<1> HIDE DEF v
<1>3. /\ u \in Sightings /\ u # NoRow /\ u.text = texts[Newest(S)]
      /\ u.first = v.first /\ u.created = v.created /\ u.session = v.session
  BY <1>1, <1>2, UpsertSights
<1>4. UpsertAll(r, S, who) = u
  BY DEF UpsertAll, v
<1> HIDE DEF u
<1> QED BY <1>2, <1>3, <1>4

\* Steps that leave the history itself.
LEMMA SameTouching ==
  ASSUME UNCHANGED texts PROVE Count' = Count /\ \A S : Touching(S)' = Touching(S)
BY DEF Count, Touching

LEMMA TouchedAreCommits ==
  ASSUME HistoryTyped, NEW b \in 0 .. Count
  PROVE  Touching(1 .. b) \in SUBSET (1 .. Count) /\ Touching(1 .. b) \in SUBSET (1 .. b)
         /\ Touching(1 .. b) \in SUBSET Nat
BY DEF HistoryTyped, Touching

--------------------------------------------------------------------------------
(* History *)

LEMMA GrowsProvenance ==
  ASSUME Straight, HistoryTyped, Provenance, NEW x \in Texts \cup {Untouched},
         NEW at \in 1 .. 2 * MaxHistory, HistoryGrows(x, at)
  PROVE  HistoryTyped' /\ Provenance'
<1> DEFINE n == Count + 1
<1>1. /\ Count \in Nat /\ n \in Nat /\ at = 2 * n
      /\ UNCHANGED <<session, walkedTo, row, reindexJob, reindexed>>
  BY DEF HistoryTyped, HistoryGrows, Straight
<1>2. PICK m : m = n
  OBVIOUS
<1>3. /\ texts' = [i \in 1 .. m |-> IF i <= Count THEN texts[i] ELSE x]
      /\ authored' = [i \in 1 .. m |-> IF i <= Count THEN authored[i] ELSE at]
      /\ recorded' = [i \in 1 .. m |-> IF i <= Count THEN recorded[i] ELSE Unseen]
  BY <1>2 DEF HistoryGrows, Extended
<1>4. Count' = m
  <2>1. DOMAIN texts' = 1 .. m
    BY <1>3
  <2>2. Cardinality(1 .. m) = m
    BY <1>1, <1>2, FS_Interval
  <2> QED BY <2>1, <2>2 DEF Count
<1> HIDE DEF n
<1>5. m = Count + 1 /\ m \in Nat
  BY <1>1, <1>2 DEF n
<1>6. /\ \A c \in 1 .. Count : texts'[c] = texts[c] /\ authored'[c] = authored[c]
                               /\ recorded'[c] = recorded[c] /\ c \in 1 .. m
      /\ texts'[m] = x /\ authored'[m] = 2 * m /\ recorded'[m] = Unseen
      /\ \A c \in 1 .. m : c = m \/ c \in 1 .. Count
  BY <1>1, <1>2, <1>3, <1>5 DEF n
<1>7. HistoryTyped'
  <2>1. DOMAIN texts' = 1 .. m /\ DOMAIN authored' = 1 .. m /\ DOMAIN recorded' = 1 .. m
    BY <1>3
  <2>2. \A c \in 1 .. m : /\ texts'[c] \in Texts \cup {Untouched} /\ authored'[c] = 2 * c
                           /\ recorded'[c] \in Workers \cup {Nobody, Unseen}
    BY <1>6 DEF HistoryTyped
  <2>3. 0 .. Count \subseteq 0 .. m
    BY <1>1, <1>5
  <2>4. reindexJob \in [step : {"rest", "known", "repair", "write"}, upto : 0 .. m,
                        known : Sightings]
    BY <2>3 DEF HistoryTyped
  <2> QED BY <1>1, <1>4, <1>5, <2>1, <2>2, <2>3, <2>4 DEF HistoryTyped
\* Of the commits there were, everything is as it was.
<1>8. \A S \in SUBSET (1 .. Count) : Touching(S)' = Touching(S)
  BY <1>6 DEF Touching
<1>9. /\ \A b \in 0 .. Count : Touching(1 .. b)' = Touching(1 .. b)
      /\ reindexed \in 0 .. Count /\ reindexJob.upto \in 0 .. Count /\ walkedTo \in 0 .. Count
  BY <1>1, <1>8 DEF HistoryTyped
<1>10. Group' = Group /\ Touching(1 .. reindexed)' = Touching(1 .. reindexed)
  BY <1>1, <1>9 DEF Group
<1>11. Seen' = Seen
  <2>1. {c \in 1 .. walkedTo : recorded'[c] # Unseen}
        = {c \in 1 .. walkedTo : recorded[c] # Unseen}
    BY <1>1, <1>6, <1>9
  <2> DEFINE S == {c \in 1 .. walkedTo : recorded[c] # Unseen} \cup 1 .. reindexed
  <2>2. S \in SUBSET (1 .. Count)
    <3>1. 1 .. walkedTo \subseteq 1 .. Count /\ 1 .. reindexed \subseteq 1 .. Count
      BY <1>1, <1>9
    <3> QED BY <3>1
  <2>3. Seen = {c \in S : texts[c] # Untouched} /\ Seen' = {c \in S : texts'[c] # Untouched}
    BY <1>1, <2>1 DEF Seen, Touching
  <2> HIDE DEF S
  <2> QED BY <1>6, <2>2, <2>3
<1>12. \A c \in Seen : texts'[c] = texts[c]
  BY <1>1, <1>6, <1>9 DEF Seen, Touching
<1>13. Seen # {} => Newest(Seen) \in Seen
  <2>1. Seen \in SUBSET (1 .. Count)
    BY <1>1, <1>9 DEF Seen, Touching
  <2> QED BY <1>1, <2>1, NewestOf
<1>14. row # NoRow => row.first \in 1 .. Count /\ row.first \in Touching(1 .. m)'
                     /\ SessionOf(row.first)' = SessionOf(row.first)
  <2>1. row # NoRow => row.first \in 1 .. Count /\ texts[row.first] # Untouched
    BY DEF Provenance, Touching
  <2>2. row # NoRow => row.first \in Touching(1 .. m)'
    BY <1>6, <2>1 DEF Touching
  <2>3. row # NoRow => SessionOf(row.first)' = SessionOf(row.first)
    BY <1>1, <1>6, <2>1 DEF SessionOf
  <2> QED BY <2>1, <2>2, <2>3
<1>15. AttributionTracks'
  BY <1>1, <1>14 DEF Provenance, AttributionTracks
<1>16. \A c \in 1 .. m : recorded'[c] = Unseen \/ (c \in 1 .. Count /\ recorded'[c] = recorded[c])
  BY <1>6
<1>17. Touching(1 .. Count)' = Touching(1 .. m)'
  BY <1>4 DEF Touching
<1> QED BY <1>1, <1>4, <1>7, <1>10, <1>11, <1>12, <1>13, <1>14, <1>15, <1>16, <1>17 DEF Provenance

\* A step that leaves the commits, what is recorded of them and what has been walked.
HistoryStands == UNCHANGED <<texts, authored, recorded, walkedTo>>

LEMMA StandingHistory ==
  ASSUME HistoryStands
  PROVE  /\ Count' = Count /\ \A S : Touching(S)' = Touching(S)
         /\ \A c : SessionOf(c)' = SessionOf(c)
BY DEF HistoryStands, Count, Touching, SessionOf

LEMMA SessionProvenance ==
  ASSUME HistoryTyped, Provenance, NEW s \in Workers \cup {Nobody}, SessionChanges(s)
  PROVE  HistoryTyped' /\ Provenance'
<1>1. HistoryStands /\ UNCHANGED <<row, reindexJob, reindexed>> /\ session' = s
  BY DEF SessionChanges, HistoryStands
<1>2. Count' = Count
  BY <1>1, StandingHistory
<1>3. HistoryTyped'
  BY <1>1, <1>2 DEF HistoryTyped, HistoryStands
<1>4. Provenance'
  BY <1>1, <1>2 DEF Provenance, HistoryStands, Touching, Group, Seen, AttributionTracks, SessionOf
<1> QED BY <1>3, <1>4

--------------------------------------------------------------------------------
(* The reindex *)

LEMMA WalkProvenance ==
  ASSUME HistoryTyped, Provenance, Walk PROVE HistoryTyped' /\ Provenance'
<1>1. /\ HistoryStands /\ UNCHANGED <<row, session, reindexed>> /\ Touching(DOMAIN texts) # {}
      /\ reindexJob' = [step |-> "known", upto |-> Count, known |-> NoRow]
  BY DEF Walk, HistoryStands
<1>2. Count' = Count /\ Count \in 0 .. Count
  BY <1>1, StandingHistory DEF HistoryTyped
<1>3. NoRow \in Sightings
  BY DEF NoRow, Sightings
<1>4. HistoryTyped'
  <2>1. reindexJob' \in [step : {"rest", "known", "repair", "write"}, upto : 0 .. Count,
                         known : Sightings]
    BY <1>1, <1>2, <1>3
  <2> QED BY <1>1, <1>2, <2>1 DEF HistoryTyped, HistoryStands
<1>5. reindexJob'.step = "known" /\ reindexJob'.upto = Count
  BY <1>1
<1>6. Group' # {}
  BY <1>1, <1>5 DEF Group, Touching, HistoryTyped, HistoryStands
<1>7. walkedTo <= Count /\ reindexed <= Count /\ (row # NoRow => row.first <= Count)
  BY DEF HistoryTyped, Provenance, Touching
<1>8. Seen' = Seen /\ Touching(1 .. reindexed)' = Touching(1 .. reindexed) /\ AttributionTracks'
      /\ Touching(1 .. Count)' = Touching(1 .. Count)
  BY <1>1, <1>2 DEF Provenance, Seen, Touching, AttributionTracks, SessionOf, HistoryStands
<1> QED BY <1>1, <1>2, <1>4, <1>5, <1>6, <1>7, <1>8 DEF Provenance, HistoryStands

LEMMA ReadProvenance ==
  ASSUME HistoryTyped, Provenance, ReadKnown PROVE HistoryTyped' /\ Provenance'
<1>1. /\ HistoryStands /\ UNCHANGED <<row, session, reindexed>> /\ reindexJob.step = "known"
      /\ reindexJob' = [reindexJob EXCEPT !.step = "repair", !.known = row]
  BY DEF ReadKnown, HistoryStands
<1>2. Count' = Count
  BY <1>1, StandingHistory
<1> DEFINE q == [reindexJob EXCEPT !.step = "repair"]
<1>3. q \in [step : {"rest", "known", "repair", "write"}, upto : 0 .. Count, known : Sightings]
      /\ q.step = "repair" /\ q.upto = reindexJob.upto
  BY DEF HistoryTyped
<1>4. reindexJob' = [q EXCEPT !.known = row] /\ row \in Sightings
  BY <1>1 DEF HistoryTyped
<1> HIDE DEF q
<1>5. reindexJob' \in [step : {"rest", "known", "repair", "write"}, upto : 0 .. Count,
                       known : Sightings]
  BY <1>3, <1>4
<1>6. reindexJob'.step = "repair" /\ reindexJob'.upto = reindexJob.upto /\ reindexJob'.known = row
  BY <1>3, <1>4
<1>7. HistoryTyped'
  BY <1>1, <1>2, <1>5 DEF HistoryTyped, HistoryStands
<1>8. Seen' = Seen /\ Group' = Group /\ Touching(1 .. reindexed)' = Touching(1 .. reindexed)
      /\ AttributionTracks' /\ Touching(1 .. Count)' = Touching(1 .. Count)
  BY <1>1, <1>2, <1>6
  DEF Provenance, Seen, Group, Touching, AttributionTracks, SessionOf, HistoryStands
<1> QED BY <1>1, <1>2, <1>6, <1>7, <1>8 DEF Provenance, HistoryStands

\* What a walk has passed starts what the next one passes.
LEMMA SameOldest ==
  ASSUME HistoryTyped, NEW a \in 0 .. Count, NEW b \in 0 .. Count, a <= b,
         Touching(1 .. a) # {}
  PROVE  Oldest(Touching(1 .. a)) = Oldest(Touching(1 .. b))
<1>1. Count \in Nat /\ Touching(1 .. a) \in SUBSET Nat /\ Touching(1 .. b) \in SUBSET Nat
  BY DEF HistoryTyped, Touching
<1>2. Touching(1 .. a) \subseteq Touching(1 .. b)
  BY <1>1 DEF Touching
<1>3. PICK m, n : m = Oldest(Touching(1 .. a)) /\ n = Oldest(Touching(1 .. b))
  OBVIOUS
<1>4. m \in Touching(1 .. a) /\ \A c \in Touching(1 .. a) : m <= c
  BY <1>1, <1>3, OldestOf
<1>5. n \in Touching(1 .. b) /\ \A c \in Touching(1 .. b) : n <= c
  BY <1>1, <1>2, <1>3, OldestOf
<1>6. n <= m
  BY <1>2, <1>4, <1>5
<1>7. n \in Touching(1 .. a)
  BY <1>1, <1>4, <1>5, <1>6 DEF Touching
<1>8. m <= n /\ m \in Nat /\ n \in Nat
  BY <1>1, <1>4, <1>5, <1>7
<1> QED BY <1>3, <1>6, <1>8

LEMMA RepairProvenance ==
  ASSUME HistoryTyped, Provenance, RepairStep PROVE HistoryTyped' /\ Provenance'
<1>1. /\ HistoryStands /\ UNCHANGED <<session, reindexed>> /\ reindexJob.step = "repair"
      /\ reindexJob' = [reindexJob EXCEPT !.step = "write"]
      /\ row' = (IF RepairPlanned THEN Repair(row) ELSE row)
  BY DEF RepairStep, HistoryStands
<1>2. Count' = Count /\ Count \in Nat
  BY <1>1, StandingHistory DEF HistoryTyped
<1>3. /\ reindexJob' \in [step : {"rest", "known", "repair", "write"}, upto : 0 .. Count,
                          known : Sightings]
      /\ reindexJob'.step = "write" /\ reindexJob'.upto = reindexJob.upto
      /\ reindexJob'.known = reindexJob.known
  BY <1>1 DEF HistoryTyped
<1>4. /\ reindexJob.known = row /\ Group # {} /\ walkedTo <= reindexJob.upto
      /\ reindexed <= reindexJob.upto /\ (row # NoRow => row.first <= reindexJob.upto)
      /\ (row # NoRow => row.first \in Touching(1 .. Count) /\ row.created = 2 * row.first)
  BY <1>1 DEF Provenance
<1>5. reindexJob.upto \in 0 .. Count /\ reindexed \in 0 .. Count /\ row \in Sightings
  BY DEF HistoryTyped
<1>6. PICK o : o = Oldest(Group)
  OBVIOUS
<1>7. o \in Group /\ (\A c \in Group : o <= c) /\ o \in 1 .. reindexJob.upto /\ o \in Nat /\ o # 0
      /\ o \in 1 .. Count /\ texts[o] # Untouched
  <2>1. Group \in SUBSET Nat
    BY DEF Group, Touching
  <2>2. o \in Group /\ \A c \in Group : o <= c
    BY <1>4, <1>6, <2>1, OldestOf
  <2>3. o \in 1 .. reindexJob.upto /\ texts[o] # Untouched
    BY <2>2 DEF Group, Touching
  <2>4. o \in 1 .. Count
    BY <1>2, <1>5, <2>3
  <2> QED BY <1>2, <2>2, <2>3, <2>4
<1>8. authored[o] = 2 * o
  BY <1>7 DEF HistoryTyped
<1>9. SessionOf(o) \in Workers \cup {Nobody}
  BY <1>7 DEF HistoryTyped, SessionOf
\* Once the step has run, a record known before is first seen at the oldest commit.
<1>10. /\ row' \in Sightings /\ (row' = NoRow <=> row = NoRow) /\ row'.text = row.text
       /\ row # NoRow => /\ row'.first = o /\ row'.created = 2 * o
                         /\ row'.session \in {Nobody, SessionOf(o)}
  <2>1. CASE RepairPlanned
    <3> DEFINE q == [row EXCEPT !.first = o]
               p == [q EXCEPT !.created = authored[o]]
               r == [p EXCEPT !.session = SessionOf(o)]
    <3>1. q \in Sightings /\ q.first = o /\ q.text = row.text
      BY <1>5, <1>7 DEF Sightings
    <3>2. PICK d, s : d = authored[o] /\ s = SessionOf(o)
      OBVIOUS
    <3>3. d \in Nat /\ d = 2 * o /\ s \in Workers \cup {Nobody}
      BY <1>7, <1>8, <1>9, <3>2
    <3>4. row' = r
      BY <1>1, <1>6, <2>1 DEF Repair, Repaired
    <3>5. p = [q EXCEPT !.created = d]
      BY <3>2
    <3>6. r = [p EXCEPT !.session = s]
      BY <3>2
    <3> HIDE DEF q, p, r
    <3>7. p \in Sightings /\ p.first = o /\ p.text = row.text /\ p.created = d
      BY <3>1, <3>3, <3>5 DEF Sightings
    <3>8. r \in Sightings /\ r.first = o /\ r.text = row.text /\ r.created = d /\ r.session = s
      BY <3>3, <3>6, <3>7 DEF Sightings
    <3>9. r # NoRow /\ row # NoRow
      BY <1>4, <1>7, <2>1, <3>8 DEF NoRow, RepairPlanned
    <3> QED BY <3>2, <3>3, <3>4, <3>8, <3>9
  <2>2. CASE ~RepairPlanned
    <3>1. row' = row
      BY <1>1, <2>2
    <3>2. ASSUME row # NoRow PROVE row.first = o
      <4>1. row.first \in Group /\ row.first \in Nat
        BY <1>2, <1>4, <1>5, <3>2 DEF Group, Touching
      <4>2. o <= row.first /\ row.created = 2 * row.first
        BY <1>4, <1>7, <3>2, <4>1
      <4>3. authored[o] <= row.created
        BY <1>7, <1>8, <4>1, <4>2
      <4> QED BY <1>4, <1>6, <2>2, <3>2, <4>3 DEF RepairPlanned
    <3>3. row # NoRow => row.created = 2 * o /\ row.session \in {Nobody, SessionOf(o)}
      BY <1>4, <3>2 DEF Provenance, AttributionTracks
    <3> QED BY <1>5, <3>1, <3>2, <3>3
  <2> QED BY <2>1, <2>2
<1>11. HistoryTyped'
  BY <1>1, <1>2, <1>3, <1>10 DEF HistoryTyped, HistoryStands
<1>12. Group' = Group /\ Seen' = Seen /\ Touching(1 .. reindexed)' = Touching(1 .. reindexed)
       /\ Touching(1 .. Count)' = Touching(1 .. Count) /\ SessionOf(o)' = SessionOf(o)
  BY <1>1, <1>2, <1>3 DEF Group, Seen, Touching, HistoryStands, SessionOf
<1>13. AttributionTracks'
  BY <1>10, <1>12 DEF AttributionTracks, SessionOf, HistoryStands
<1>14. Touching(1 .. reindexed) # {} => row # NoRow /\ o = Oldest(Touching(1 .. reindexed))
  <2>1. ASSUME Touching(1 .. reindexed) # {}
        PROVE  row # NoRow /\ o = Oldest(Touching(1 .. reindexed))
    <3>1. o = Oldest(Touching(1 .. reindexed))
      BY <1>4, <1>5, <1>6, <2>1, SameOldest DEF Group
    <3>2. row.first = o
      BY <2>1, <3>1 DEF Provenance
    <3> QED BY <1>7, <3>1, <3>2 DEF NoRow
  <2> QED BY <2>1
<1>15. o \in Touching(1 .. Count) /\ o <= reindexJob.upto
  BY <1>5, <1>7 DEF Touching
<1>16. Seen # {} => texts'[Newest(Seen')] = texts[Newest(Seen)]
  BY <1>1, <1>12 DEF HistoryStands
<1> QED
  BY <1>1, <1>2, <1>3, <1>4, <1>6, <1>10, <1>11, <1>12, <1>13, <1>14, <1>15, <1>16
  DEF Provenance, HistoryStands

LEMMA NoJobIsIdle == NoJob \in [step : {"rest", "known", "repair", "write"}, upto : {0},
                                known : Sightings]
                     /\ NoJob.step = "rest"
<1>1. NoRow \in Sightings
  BY DEF NoRow, Sightings
<1> QED BY <1>1 DEF NoJob

LEMMA WriteProvenance ==
  ASSUME HistoryTyped, Provenance, Write PROVE HistoryTyped' /\ Provenance'
<1>1. /\ HistoryStands /\ UNCHANGED session /\ reindexJob.step = "write"
      /\ reindexJob' = NoJob /\ reindexed' = reindexJob.upto
      /\ row' = (IF UnchangedText THEN row ELSE Written)
  BY DEF Write, HistoryStands
<1>2. Count' = Count /\ Count \in Nat /\ 0 \in 0 .. Count
  BY <1>1, StandingHistory DEF HistoryTyped
<1>3. reindexJob.upto \in 0 .. Count /\ walkedTo \in 0 .. Count /\ row \in Sightings
  BY DEF HistoryTyped
<1>4. /\ Group # {} /\ walkedTo <= reindexJob.upto
      /\ IF reindexJob.known = NoRow THEN row = NoRow
         ELSE row # NoRow /\ row.text = reindexJob.known.text /\ row.first = Oldest(Group)
  BY <1>1 DEF Provenance
<1>5. Group \in SUBSET (1 .. Count) /\ Group \in SUBSET Nat
  BY <1>2, <1>3 DEF Group, Touching
<1>6. PICK o, n : o = Oldest(Group) /\ n = Newest(Group)
  OBVIOUS
<1>7. o \in Group /\ o \in 1 .. Count /\ o # 0
  <2>1. o \in Group
    BY <1>4, <1>5, <1>6, OldestOf
  <2> QED BY <1>5, <2>1
<1>8. n \in Group /\ n \in 1 .. Count
  <2>1. n \in Group
    BY <1>2, <1>4, <1>5, <1>6, NewestOf
  <2> QED BY <1>5, <2>1
<1>9. /\ row' \in Sightings /\ row' # NoRow /\ row'.first = o /\ row'.created = 2 * o
      /\ row'.text = texts[n] /\ row'.session \in {Nobody, SessionOf(o)}
  <2>1. CASE reindexJob.known = NoRow
    <3>1. row = NoRow /\ row' = UpsertAll(row, Group, Nobody)
      BY <1>1, <1>4, <2>1 DEF UnchangedText, Written
    <3>2. LET u == UpsertAll(row, Group, Nobody) IN
            /\ u \in Sightings /\ u # NoRow /\ u.text = texts[Newest(Group)]
            /\ u.first = Oldest(Group) /\ u.created = 2 * Oldest(Group) /\ u.session = Nobody
      BY <1>3, <1>4, <1>5, <3>1, UpsertAllSights
    <3> QED BY <1>6, <3>1, <3>2
  <2>2. CASE reindexJob.known # NoRow
    <3>1. row # NoRow /\ row.text = reindexJob.known.text /\ row.first = o
      BY <1>4, <1>6, <2>2
    <3>2. row.created = 2 * o /\ row.session \in {Nobody, SessionOf(o)}
      BY <3>1 DEF Provenance, AttributionTracks
    <3>3. CASE UnchangedText
      BY <1>1, <1>3, <1>6, <3>1, <3>2, <3>3 DEF UnchangedText
    <3>4. CASE ~UnchangedText
      <4>1. row' = Upsert(row, n, Nobody)
        BY <1>1, <1>6, <2>2, <3>4 DEF Written
      <4>2. LET u == Upsert(row, n, Nobody) IN
              /\ u \in Sightings /\ u # NoRow /\ u.text = texts[n]
              /\ u.first = row.first /\ u.created = row.created /\ u.session = row.session
        BY <1>3, <1>7, <1>8, <3>1, UpsertSights
      <4> QED BY <3>1, <3>2, <4>1, <4>2
    <3> QED BY <3>3, <3>4
  <2> QED BY <2>1, <2>2
<1>10. HistoryTyped'
  <2>1. reindexJob' \in [step : {"rest", "known", "repair", "write"}, upto : 0 .. Count,
                         known : Sightings]
    BY <1>1, <1>2, NoJobIsIdle
  <2> QED BY <1>1, <1>2, <1>3, <1>9, <2>1 DEF HistoryTyped, HistoryStands
\* Everything a capture has walked, the reindex has walked.
<1>11. Touching(1 .. reindexed)' = Group /\ Seen' = Group
  <2>1. {c \in 1 .. walkedTo : recorded[c] # Unseen} \cup 1 .. reindexJob.upto
        = 1 .. reindexJob.upto
    BY <1>2, <1>3, <1>4
  <2> QED BY <1>1, <2>1 DEF Group, Touching, Seen, HistoryStands
<1>12. AttributionTracks'
  BY <1>1, <1>9 DEF AttributionTracks, SessionOf, HistoryStands
<1>13. Touching(1 .. Count)' = Touching(1 .. Count) /\ o \in Touching(1 .. Count)
  BY <1>1, <1>2, <1>7 DEF Touching, HistoryStands, Group
<1>14. reindexJob'.step = "rest"
  BY <1>1, NoJobIsIdle
<1> QED BY <1>1, <1>2, <1>6, <1>9, <1>10, <1>11, <1>12, <1>13, <1>14
    DEF Provenance, HistoryStands

LEMMA FailureProvenance ==
  ASSUME HistoryTyped, Provenance, WriteFails PROVE HistoryTyped' /\ Provenance'
<1>1. HistoryStands /\ UNCHANGED <<row, session, reindexed>> /\ reindexJob' = NoJob
  BY DEF WriteFails, HistoryStands
<1>2. Count' = Count /\ Count \in Nat /\ 0 \in 0 .. Count
  BY <1>1, StandingHistory DEF HistoryTyped
<1>3. HistoryTyped'
  <2>1. reindexJob' \in [step : {"rest", "known", "repair", "write"}, upto : 0 .. Count,
                         known : Sightings]
    BY <1>1, <1>2, NoJobIsIdle
  <2> QED BY <1>1, <1>2, <2>1 DEF HistoryTyped, HistoryStands
<1>4. reindexJob'.step = "rest"
  BY <1>1, NoJobIsIdle
<1> QED BY <1>1, <1>2, <1>3, <1>4
    DEF Provenance, HistoryStands, Seen, Touching, AttributionTracks, SessionOf

--------------------------------------------------------------------------------
(* The ambient capture *)

\* What a walk of the new commits records.
LEMMA RecordedKeeps ==
  ASSUME HistoryTyped
  PROVE  /\ New \in SUBSET (1 .. Count) /\ DOMAIN Recorded = 1 .. Count
         /\ \A c \in 1 .. Count :
              /\ Recorded[c] \in Workers \cup {Nobody, Unseen}
              /\ recorded[c] # Unseen => Recorded[c] = recorded[c]
              /\ c \notin New => Recorded[c] = recorded[c]
              /\ c \in New /\ recorded[c] = Unseen => Recorded[c] = session
              /\ c \in New => Recorded[c] # Unseen
<1>1. New \in SUBSET (1 .. Count)
  BY DEF New, HistoryTyped
<1>2. session # Unseen
  BY HistoryConfig DEF HistoryTyped, Nobody, Unseen
<1> QED BY <1>1, <1>2 DEF Recorded, HistoryTyped

LEMMA DeathProvenance ==
  ASSUME Straight, HistoryTyped, Provenance, CaptureDies
  PROVE  HistoryTyped' /\ Provenance'
<1>1. /\ UNCHANGED <<texts, authored, session, walkedTo, row, reindexed>>
      /\ recorded' = Recorded /\ reindexJob' = NoJob /\ walkedTo # 0 /\ row # NoRow
  BY DEF CaptureDies, Straight
<1>2. Count' = Count /\ Count \in Nat /\ 0 \in 0 .. Count
  BY <1>1, SameTouching DEF HistoryTyped
<1>3. HistoryTyped'
  <2>1. reindexJob' \in [step : {"rest", "known", "repair", "write"}, upto : 0 .. Count,
                         known : Sightings]
    BY <1>1, <1>2, NoJobIsIdle
  <2>2. DOMAIN recorded' = 1 .. Count
        /\ \A c \in 1 .. Count : recorded'[c] \in Workers \cup {Nobody, Unseen}
    BY <1>1, RecordedKeeps
  <2> QED BY <1>1, <1>2, <2>1, <2>2 DEF HistoryTyped
<1>4. reindexJob'.step = "rest"
  BY <1>1, NoJobIsIdle
\* Only commits past the mark are new.
<1>5. \A c \in 1 .. walkedTo : recorded'[c] = recorded[c]
  <2>1. ASSUME NEW c \in 1 .. walkedTo PROVE recorded'[c] = recorded[c]
    <3>1. c \in 1 .. Count /\ ~(c > walkedTo)
      BY <1>2 DEF HistoryTyped
    <3>2. c \notin New
      BY <1>1, <3>1 DEF New
    <3> QED BY <1>1, <3>1, <3>2, RecordedKeeps
  <2> QED BY <2>1
<1>6. Seen' = Seen /\ Touching(1 .. reindexed)' = Touching(1 .. reindexed)
      /\ Touching(1 .. Count)' = Touching(1 .. Count)
  BY <1>1, <1>2, <1>5 DEF Seen, Touching
<1>7. AttributionTracks'
  <2>1. row.first \in 1 .. Count
    BY <1>1 DEF Provenance, Touching
  <2>2. row.session \in {Nobody, SessionOf(row.first)}
    BY <1>1 DEF Provenance, AttributionTracks
  <2>3. recorded[row.first] # Unseen => recorded'[row.first] = recorded[row.first]
    BY <1>1, <2>1, RecordedKeeps
  <2> QED BY <1>1, <2>2, <2>3 DEF AttributionTracks, SessionOf
<1> QED BY <1>1, <1>2, <1>3, <1>4, <1>6, <1>7 DEF Provenance

LEMMA CaptureProvenance ==
  ASSUME Straight, HistoryTyped, Provenance, Capture
  PROVE  HistoryTyped' /\ Provenance'
<1>1. /\ UNCHANGED <<texts, authored, session, reindexJob, reindexed>>
      /\ recorded' = Recorded /\ row' = UpsertAll(row, Touching(New), session)
      /\ walkedTo' = Count /\ reindexJob.step = "rest" /\ walkedTo < Count
  BY DEF Capture, Undisturbed, Straight
<1>2. Count' = Count /\ Count \in Nat /\ Count \in 0 .. Count /\ Count # 0
      /\ walkedTo \in 0 .. Count /\ reindexed \in 0 .. Count /\ row \in Sightings
      /\ session \in Workers \cup {Nobody}
  BY <1>1, SameTouching DEF HistoryTyped
<1>3. PICK T : T = Touching(New)
  OBVIOUS
<1>4. T \in SUBSET (1 .. Count) /\ T \subseteq New /\ \A c \in T : texts[c] # Untouched
  BY <1>3, RecordedKeeps DEF Touching
<1>5. row # NoRow => row.first \in 1 .. Count /\ row.first # 0 /\ texts[row.first] # Untouched
                     /\ row.created = 2 * row.first
  BY DEF Provenance, Touching
<1>6. row = NoRow \/ row.first # 0
  BY <1>5
\* The row the walk leaves.
<1>7. T = {} => row' = row
  BY <1>1, <1>3 DEF UpsertAll
<1>8. T # {} => /\ row' \in Sightings /\ row' # NoRow /\ row'.text = texts[Newest(T)]
                /\ row = NoRow => row'.first = Oldest(T) /\ row'.created = 2 * Oldest(T)
                                  /\ row'.session = session
                /\ row # NoRow => row'.first = row.first /\ row'.created = row.created
                                  /\ row'.session = row.session
  BY <1>1, <1>2, <1>3, <1>4, <1>6, UpsertAllSights
<1>9. T # {} => Oldest(T) \in T /\ Newest(T) \in T /\ \A c \in T : c <= Newest(T)
  <2>1. T \in SUBSET Nat
    BY <1>2, <1>4
  <2>2. T # {} => Oldest(T) \in T
    BY <2>1, OldestOf
  <2>3. T # {} => Newest(T) \in T /\ \A c \in T : c <= Newest(T)
    BY <1>2, <1>4, NewestOf
  <2> QED BY <2>2, <2>3
<1>10. HistoryTyped'
  <2>1. DOMAIN recorded' = 1 .. Count
        /\ \A c \in 1 .. Count : recorded'[c] \in Workers \cup {Nobody, Unseen}
    BY <1>1, RecordedKeeps
  <2>2. row' \in Sightings
    BY <1>2, <1>7, <1>8
  <2> QED BY <1>1, <1>2, <2>1, <2>2 DEF HistoryTyped
\* The new commits are the last ones: nothing seen before comes after one of them.
<1>11. \A c \in New, d \in 1 .. Count : d >= c => d \in New
  <2>1. HistoryBackfill \in Nat /\ DOMAIN texts = 1 .. Count
    BY HistoryConfig DEF HistoryTyped
  <2> QED BY <1>2, <2>1 DEF New
<1>12. \A c \in 1 .. Count : recorded'[c] # Unseen <=>
                             c \in New \/ (c \in 1 .. walkedTo /\ recorded[c] # Unseen)
  <2>1. ASSUME NEW c \in 1 .. Count, recorded'[c] # Unseen, c \notin New
        PROVE  c \in 1 .. walkedTo /\ recorded[c] # Unseen
    <3>1. recorded[c] # Unseen
      BY <1>1, <2>1, RecordedKeeps
    <3>2. walkedTo # 0
      BY <3>1 DEF Provenance
    <3>3. ~(c > walkedTo)
      BY <2>1, <3>2 DEF New, HistoryTyped
    <3> QED BY <1>2, <3>1, <3>3
  <2> QED BY <1>1, <1>2, <2>1, RecordedKeeps
<1>13. Seen' = Seen \cup T
  <2>1. Seen' = {c \in 1 .. Count : recorded'[c] # Unseen /\ texts[c] # Untouched}
                \cup {c \in 1 .. reindexed : texts[c] # Untouched}
    BY <1>1 DEF Seen, Touching
  <2>2. Seen = {c \in 1 .. walkedTo : recorded[c] # Unseen /\ texts[c] # Untouched}
               \cup {c \in 1 .. reindexed : texts[c] # Untouched}
    BY DEF Seen, Touching
  <2>3. T = {c \in 1 .. Count : c \in New /\ texts[c] # Untouched}
    BY <1>3, RecordedKeeps DEF Touching
  <2>4. \A c \in 1 .. walkedTo : c \in 1 .. Count
    BY <1>2
  <2> QED BY <1>12, <2>1, <2>2, <2>3, <2>4
<1>14. Seen \in SUBSET (1 .. Count) /\ Seen' \in SUBSET (1 .. Count)
  <2>1. Seen \in SUBSET (1 .. Count)
    BY <1>2 DEF Seen, Touching
  <2> QED BY <1>4, <1>13, <2>1
<1>15. T # {} => Newest(Seen') = Newest(T)
  <2>1. ASSUME T # {} PROVE Newest(Seen') = Newest(T)
    <3>1. PICK m, n : m = Newest(Seen') /\ n = Newest(T)
      OBVIOUS
    <3>2. m \in Seen' /\ \A c \in Seen' : c <= m
      <4>1. Seen' # {}
        BY <1>13, <2>1
      <4>2. PICK U : U = Seen'
        OBVIOUS
      <4>3. U # {} /\ U \in SUBSET (1 .. Count) /\ m = Newest(U)
        BY <1>14, <3>1, <4>1, <4>2 DEF Newest
      <4>4. m \in U /\ \A c \in U : c <= m
        BY <1>2, <4>3, NewestOf
      <4> QED BY <4>2, <4>4
    <3>3. n \in T /\ (\A c \in T : c <= n) /\ n \in New /\ n \in 1 .. Count /\ n \in Seen'
      BY <1>4, <1>9, <1>13, <2>1, <3>1
    <3>4. n <= m /\ m \in 1 .. Count
      BY <1>14, <3>2, <3>3
    <3>5. m \in New
      BY <1>11, <3>3, <3>4
    <3>6. texts[m] # Untouched
      BY <1>1, <1>4, <1>13, <3>2 DEF Seen, Touching
    <3>7. m \in T
      BY <1>3, <3>5, <3>6 DEF Touching
    <3>8. m <= n
      BY <3>3, <3>7
    <3> QED BY <3>1, <3>3, <3>4, <3>8
  <2> QED BY <2>1
<1>16. Touching(1 .. reindexed)' = Touching(1 .. reindexed)
       /\ Touching(1 .. Count)' = Touching(1 .. Count)
  BY <1>1, <1>2 DEF Touching
<1>17. Touching(1 .. reindexed) # {} => row # NoRow
  <2>1. Touching(1 .. reindexed) \in SUBSET Nat /\ 0 \notin Touching(1 .. reindexed)
    BY DEF Touching
  <2>2. Touching(1 .. reindexed) # {} => row.first # 0
    BY <2>1, OldestOf DEF Provenance
  <2> QED BY <2>2 DEF NoRow
<1>18. row' # NoRow => row'.first \in Touching(1 .. Count)' /\ row'.created = 2 * row'.first
  BY <1>4, <1>5, <1>7, <1>8, <1>9, <1>16 DEF Touching
<1>19. AttributionTracks'
  <2>1. CASE row # NoRow
    <3>1. row'.session = row.session /\ row'.first = row.first
      BY <1>7, <1>8, <2>1
    <3>2. row.session \in {Nobody, SessionOf(row.first)}
      BY <2>1 DEF Provenance, AttributionTracks
    <3>3. recorded[row.first] # Unseen => recorded'[row.first] = recorded[row.first]
      BY <1>1, <1>5, <2>1, RecordedKeeps
    <3> QED BY <3>1, <3>2, <3>3 DEF AttributionTracks, SessionOf
  <2>2. CASE row = NoRow /\ T # {}
    <3>1. PICK o : o = Oldest(T)
      OBVIOUS
    <3>2. o \in New /\ o \in 1 .. Count /\ row'.first = o /\ row'.session = session
      BY <1>4, <1>8, <1>9, <2>2, <3>1
    \* A commit recorded before would have given the record its row.
    <3>3. recorded[o] = Unseen
      <4>1. walkedTo = 0 => recorded[o] = Unseen
        BY <3>2 DEF Provenance
      <4>2. walkedTo # 0 => o > walkedTo
        BY <3>2 DEF New
      <4> QED BY <2>2, <3>2, <4>1, <4>2 DEF Provenance
    <3>4. recorded'[o] = session
      BY <1>1, <3>2, <3>3, RecordedKeeps
    <3>5. session # Unseen
      BY <1>2, HistoryConfig DEF Nobody, Unseen
    <3> QED BY <3>2, <3>4, <3>5 DEF AttributionTracks, SessionOf
  <2>3. CASE row = NoRow /\ T = {}
    BY <1>7, <2>3 DEF AttributionTracks
  <2> QED BY <2>1, <2>2, <2>3
<1>20. Touching(1 .. reindexed)' # {} => row'.first = Oldest(Touching(1 .. reindexed)')
  BY <1>7, <1>8, <1>16, <1>17 DEF Provenance
<1>21. Seen' # {} => row'.text = texts'[Newest(Seen')]
  BY <1>1, <1>7, <1>8, <1>13, <1>15 DEF Provenance
<1>22. \A c \in 1 .. Count : ~(c > Count)
  BY <1>2
<1> QED BY <1>1, <1>2, <1>10, <1>16, <1>18, <1>19, <1>20, <1>21, <1>22 DEF Provenance

--------------------------------------------------------------------------------
LEMMA NextProvenance ==
  ASSUME Straight, HistoryTyped, Provenance, [HistoryNext]_historyVars
  PROVE  HistoryTyped' /\ Provenance'
<1>1. CASE UNCHANGED historyVars
  BY <1>1 DEF historyVars, HistoryTyped, Provenance, Count, Touching, Group, Seen,
              AttributionTracks, SessionOf
<1>2. CASE \E x \in Texts \cup {Untouched}, at \in 1 .. 2 * MaxHistory : HistoryGrows(x, at)
  BY <1>2, GrowsProvenance
<1>3. CASE \E s \in Workers \cup {Nobody} : SessionChanges(s)
  BY <1>3, SessionProvenance
<1>4. CASE Capture
  BY <1>4, CaptureProvenance
<1>5. CASE CaptureDies
  BY <1>5, DeathProvenance
<1>6. CASE Walk
  BY <1>6, WalkProvenance
<1>7. CASE ReadKnown
  BY <1>7, ReadProvenance
<1>8. CASE RepairStep
  BY <1>8, RepairProvenance
<1>9. CASE Write
  BY <1>9, WriteProvenance
<1>10. CASE WriteFails
  BY <1>10, FailureProvenance
<1> QED BY <1>1, <1>2, <1>3, <1>4, <1>5, <1>6, <1>7, <1>8, <1>9, <1>10 DEF HistoryNext

\* After a reindex a record is dated to the commit that introduced it, its cost goes
\* to that commit's session or to nobody, and its text is the newest: for any number
\* of commits, edits and reindexes, whatever the ambient capture met first and
\* wherever a walk or a write fails.
THEOREM ProvenanceIsRight == ASSUME Straight PROVE HistorySpec => []ProvenanceRight
<1>1. HistoryInit => HistoryTyped /\ Provenance
  BY InitProvenance
<1>2. HistoryTyped /\ Provenance /\ [HistoryNext]_historyVars => (HistoryTyped /\ Provenance)'
  BY NextProvenance
<1>3. HistoryTyped /\ Provenance => ProvenanceRight
  BY DEF Provenance, ProvenanceRight, FirstIsOldest, TextCurrent, Seen
<1> QED BY <1>1, <1>2, <1>3, PTL DEF HistorySpec

--------------------------------------------------------------------------------
(* SpecSources: what a sweep may remove, and whose spec the events carry.  *)

SourceSpec == SourceInit /\ [][SourceNext]_sourceVars

Named == Units \cup {NoSpec}
SweepSteps == {"rest", "resolve", "branch", "store", "check", "events", "registry"}
Sweeps == [step : SweepSteps, units : SUBSET Units, allow : BOOLEAN, name : Named,
           there : SUBSET Units]

LEMMA RestIsSweep == RestSweep \in Sweeps
BY DEF RestSweep, Sweeps, SweepSteps, Named

LEMMA SourceTypeInit == SourceInit => SourceTypeOK
<1> SUFFICES ASSUME SourceInit PROVE SourceTypeOK
  OBVIOUS
<1>1. sweep \in [Captures -> Sweeps]
  BY RestIsSweep DEF SourceInit
<1>2. tree \in [Branches -> SUBSET Units] /\ branch \in Branches
  BY DEF SourceInit, Branches
<1>3. unitState \in [Units -> {"none", "live", "removed"}] /\ spec \in Named
      /\ touched \in BOOLEAN
  BY DEF SourceInit, Named
<1>4. \A i \in DOMAIN stamps : stamps[i] \in Named
  BY DEF SourceInit
<1> QED BY <1>1, <1>2, <1>3, <1>4 DEF SourceTypeOK, Sweeps, SweepSteps, Named

\* A walk's step replaces its own sweep and at most the units' states, the
\* events or the registry's spec.
LEMMA WalkType ==
  ASSUME SourceTypeOK, NEW c \in Captures,
         \/ \E u \in Named : Begin(c, u)
         \/ Resolve(c) \/ ResolveFails(c) \/ AskBranch(c)
         \/ \E fails \in BOOLEAN : Persist(c, fails)
         \/ Check(c) \/ StampEvents(c) \/ SetRegistry(c)
  PROVE  SourceTypeOK'
<1> USE DEF SourceTypeOK, Repo, Session, SweepGoes, Named
<1>0. sweep \in [Captures -> Sweeps]
  BY DEF Sweeps, SweepSteps
<1>1. CASE \E u \in Named : Begin(c, u)
  <2>1. PICK u \in Named : Begin(c, u)
    BY <1>1
  <2>2. [RestSweep EXCEPT !.step = IF touched THEN "resolve" ELSE "check", !.name = u]
          \in Sweeps
    BY DEF RestSweep, Sweeps, SweepSteps
  <2>3. sweep' \in [Captures -> Sweeps]
    BY <1>0, <2>1, <2>2 DEF Begin
  <2> QED BY <2>1, <2>3 DEF Begin, Sweeps, SweepSteps
<1>2. CASE Resolve(c)
  <2>1. PICK units \in SUBSET Units :
          SweepGoes(c, [sweep[c] EXCEPT !.step = "branch", !.units = units,
                                        !.there = tree["main"]])
    BY <1>2 DEF Resolve, Answers, Branches
  <2>2. [sweep[c] EXCEPT !.step = "branch", !.units = units, !.there = tree["main"]]
          \in Sweeps
    BY <1>0 DEF Sweeps, SweepSteps, Branches
  <2>3. sweep' \in [Captures -> Sweeps]
    BY <1>0, <2>1, <2>2
  <2> QED BY <1>2, <2>3 DEF Resolve, Sweeps, SweepSteps
<1>3. CASE AskBranch(c)
  <2>1. [sweep[c] EXCEPT !.step = "store", !.allow = MayRemove(c),
                         !.there = @ \cap tree["main"]] \in Sweeps
    BY <1>0 DEF Sweeps, SweepSteps, MayRemove
  <2>2. sweep' \in [Captures -> Sweeps]
    BY <1>0, <1>3, <2>1 DEF AskBranch
  <2> QED BY <1>3, <2>2 DEF AskBranch, Sweeps, SweepSteps
<1>4. CASE ResolveFails(c) \/ \E fails \in BOOLEAN : Persist(c, fails)
  <2>1. [sweep[c] EXCEPT !.step = "check"] \in Sweeps
    BY <1>0 DEF Sweeps, SweepSteps
  <2>2. sweep' \in [Captures -> Sweeps]
    BY <1>0, <1>4, <2>1 DEF ResolveFails, Persist
  <2>3. unitState' \in [Units -> {"none", "live", "removed"}]
    BY <1>4 DEF ResolveFails, Persist
  <2> QED BY <1>4, <2>2, <2>3 DEF ResolveFails, Persist, Sweeps, SweepSteps
<1>5. CASE Check(c) \/ StampEvents(c) \/ SetRegistry(c)
  <2>1. [sweep[c] EXCEPT !.step = "events"] \in Sweeps
        /\ [sweep[c] EXCEPT !.step = "registry"] \in Sweeps
    BY <1>0 DEF Sweeps, SweepSteps
  <2>2. sweep' \in [Captures -> Sweeps]
    BY <1>0, <1>5, <2>1, RestIsSweep DEF Check, StampEvents, SetRegistry
  <2>3. sweep[c].name \in Named
    BY <1>0 DEF Sweeps
  <2> QED BY <1>5, <2>2, <2>3 DEF Check, StampEvents, SetRegistry, Sweeps, SweepSteps
<1> QED BY <1>1, <1>2, <1>3, <1>4, <1>5

LEMMA TreeType ==
  ASSUME SourceTypeOK, (\E u \in SUBSET Units : TreeCommit(u))
         \/ \E m \in BOOLEAN : TreeCheckout(m)
  PROVE  SourceTypeOK'
<1> USE DEF SourceTypeOK
<1>1. ASSUME NEW u \in SUBSET Units, TreeCommit(u) PROVE SourceTypeOK'
  BY <1>1 DEF TreeCommit
<1>2. ASSUME NEW m \in BOOLEAN, TreeCheckout(m) PROVE SourceTypeOK'
  <2>1. branch' \in Branches
    BY <1>2 DEF TreeCheckout, Branches
  <2>2. tree' \in [Branches -> SUBSET Units]
    BY <1>2, <2>1 DEF TreeCheckout
  <2>3. touched' \in BOOLEAN
    BY <1>2 DEF TreeCheckout
  <2> QED BY <1>2, <2>1, <2>2, <2>3 DEF TreeCheckout
<1> QED BY <1>1, <1>2

EventsTyped == stamps \in Seq(Named)

LEMMA StampType == ASSUME SourceTypeOK, EventsTyped, StampEvent
  PROVE SourceTypeOK' /\ EventsTyped'
<1>1. stamps' = Append(stamps, spec) /\ spec \in Named
  BY DEF StampEvent, SourceTypeOK, Named
<1>2. EventsTyped'
  BY <1>1 DEF EventsTyped
<1> QED BY <1>2 DEF StampEvent, SourceTypeOK, EventsTyped, Named

LEMMA EventsStep == ASSUME SourceTypeOK, EventsTyped, [SourceNext]_sourceVars
  PROVE SourceTypeOK' /\ EventsTyped'
<1>1. CASE StampEvent
  BY <1>1, StampType
<1>2. CASE \/ \E u \in SUBSET Units : TreeCommit(u)
           \/ \E m \in BOOLEAN : TreeCheckout(m)
  BY <1>2, TreeType DEF TreeCommit, TreeCheckout, EventsTyped
<1>3. ASSUME NEW c \in Captures,
         \/ \E u \in Named : Begin(c, u)
         \/ Resolve(c) \/ ResolveFails(c) \/ AskBranch(c)
         \/ \E fails \in BOOLEAN : Persist(c, fails)
         \/ Check(c) \/ SetRegistry(c)
      PROVE SourceTypeOK' /\ EventsTyped'
  <2>1. stamps' = stamps
    BY <1>3 DEF Begin, Resolve, ResolveFails, AskBranch, Persist, Check, SetRegistry, Session
  <2> QED BY <1>3, <2>1, WalkType DEF EventsTyped
<1>4. ASSUME NEW c \in Captures, StampEvents(c) PROVE SourceTypeOK' /\ EventsTyped'
  <2>1. sweep[c].name \in Named
    BY DEF SourceTypeOK, Named
  <2>2. EventsTyped'
    BY <1>4, <2>1 DEF StampEvents, EventsTyped
  <2> QED BY <1>4, <2>2, WalkType
<1>5. CASE UNCHANGED sourceVars
  BY <1>5 DEF sourceVars, SourceTypeOK, EventsTyped
<1> QED BY <1>1, <1>2, <1>3, <1>4, <1>5 DEF SourceNext, Named

\* Whatever the hazards, for any units: what a sweep remembers of them are units, and
\* the registry's spec is one of them or none.
THEOREM SourcesTyped == SourceSpec => []SourceTypeOK
<1>1. SourceInit => SourceTypeOK /\ EventsTyped
  BY SourceTypeInit DEF SourceInit, EventsTyped
<1>2. (SourceTypeOK /\ EventsTyped) /\ [SourceNext]_sourceVars => (SourceTypeOK /\ EventsTyped)'
  BY EventsStep
<1> QED BY <1>1, <1>2, PTL DEF SourceSpec

--------------------------------------------------------------------------------
\* A sweep that may remove has resolved all that the default branch has had.
Informed ==
  \A c \in Captures :
    /\ sweep[c].step = "branch" /\ branch = "main" =>
         sweep[c].units = {} \/ sweep[c].there \subseteq sweep[c].units
    /\ sweep[c].step = "store" /\ sweep[c].allow => sweep[c].there \subseteq sweep[c].units

\* HEAD keeps to its branch while a sweep asks, and the resolver misses no unit.
StillHead == SourceHazards \cap {"moving_head", "partial"} = {}

LEMMA InformedStep ==
  ASSUME StillHead, SourceTypeOK, Informed, [SourceNext]_sourceVars PROVE Informed'
<1>0. sweep \in [Captures -> Sweeps]
  BY DEF SourceTypeOK, Sweeps, SweepSteps, Named
<1>1. CASE StampEvent \/ \E u \in SUBSET Units : TreeCommit(u)
  BY <1>1 DEF StampEvent, TreeCommit, Informed
<1>2. CASE \E m \in BOOLEAN : TreeCheckout(m)
  BY <1>2 DEF TreeCheckout, Informed, StillHead
<1>3. ASSUME NEW c \in Captures, NEW u \in Named, Begin(c, u) PROVE Informed'
  BY <1>0, <1>3 DEF Begin, SweepGoes, RestSweep, Informed, Repo
<1>4. ASSUME NEW c \in Captures, Resolve(c) PROVE Informed'
  <2>1. PICK units \in {tree[branch], {}} :
          SweepGoes(c, [sweep[c] EXCEPT !.step = "branch", !.units = units,
                                        !.there = tree["main"]])
    BY <1>4 DEF Resolve, Answers, StillHead
  <2>2. /\ \A b \in Captures \ {c} : sweep'[b] = sweep[b]
        /\ sweep'[c].step = "branch" /\ sweep'[c].units = units
        /\ sweep'[c].there = tree["main"]
    BY <1>0, <2>1 DEF SweepGoes, Sweeps
  <2>3. UNCHANGED branch
    BY <1>4 DEF Resolve, Repo
  <2> QED BY <2>2, <2>3 DEF Informed
<1>5. ASSUME NEW c \in Captures, AskBranch(c) PROVE Informed'
  <2>1. /\ \A b \in Captures \ {c} : sweep'[b] = sweep[b]
        /\ sweep'[c].step = "store" /\ sweep'[c].units = sweep[c].units
        /\ sweep'[c].there = sweep[c].there \cap tree["main"]
        /\ sweep'[c].allow = MayRemove(c)
    BY <1>0, <1>5 DEF AskBranch, SweepGoes, Sweeps
  <2>2. UNCHANGED branch /\ sweep[c].step = "branch"
    BY <1>5 DEF AskBranch, Repo
  <2>3. MayRemove(c) => sweep'[c].there \subseteq sweep'[c].units
    BY <2>1, <2>2 DEF MayRemove, Corroborated, Informed
  <2> QED BY <2>1, <2>2, <2>3 DEF Informed
<1>6. ASSUME NEW c \in Captures,
             \/ ResolveFails(c) \/ \E fails \in BOOLEAN : Persist(c, fails)
             \/ Check(c) \/ StampEvents(c) \/ SetRegistry(c)
      PROVE Informed'
  <2>1. UNCHANGED branch /\ \A b \in Captures : sweep'[b] = sweep[b]
        \/ sweep'[b].step \notin {"branch", "store"}
    BY <1>0, <1>6 DEF ResolveFails, Persist, Check, StampEvents, SetRegistry, SweepGoes,
      Repo, RestSweep, Sweeps
  <2> QED BY <2>1 DEF Informed
<1>7. CASE UNCHANGED sourceVars
  BY <1>7 DEF sourceVars, Informed
<1> QED BY <1>1, <1>2, <1>3, <1>4, <1>5, <1>6, <1>7 DEF SourceNext, Named

\* Only a persist marks units removed, and its own units it keeps.
LEMMA OnlyPersistRemoves ==
  ASSUME SourceTypeOK, Informed, [SourceNext]_sourceVars, NEW u \in Units,
         unitState[u] = "live", unitState'[u] = "removed"
  PROVE  \E c \in Captures : sweep[c].step = "store" /\ u \notin sweep[c].there
<1>1. PICK c \in Captures, fails \in BOOLEAN : Persist(c, fails)
  BY DEF SourceNext, TreeCommit, TreeCheckout, StampEvent, Begin, Resolve, ResolveFails,
    AskBranch, Check, StampEvents, SetRegistry, sourceVars
<1>2. sweep[c].step = "store" /\ sweep[c].allow /\ u \notin sweep[c].units
  BY <1>1 DEF Persist, SourceTypeOK
<1> QED BY <1>2 DEF Informed

\* Whatever is checked out, committed and answered, and however many walks are
\* under way, a unit is marked removed only if the default branch lacked it.
THEOREM RemovalIsInformed == ASSUME StillHead PROVE SourceSpec => RemovedWasGone
<1>1. SourceInit => SourceTypeOK /\ EventsTyped /\ Informed
  BY SourceTypeInit DEF SourceInit, EventsTyped, Informed, RestSweep
<1>2. (SourceTypeOK /\ EventsTyped /\ Informed) /\ [SourceNext]_sourceVars
        => (SourceTypeOK /\ EventsTyped /\ Informed)'
  BY EventsStep, InformedStep
<1>3. (SourceTypeOK /\ EventsTyped /\ Informed) /\ [SourceNext]_sourceVars
        => [\A u \in Units : unitState[u] = "live" /\ unitState'[u] = "removed" =>
              \E c \in Captures : sweep[c].step = "store" /\ u \notin sweep[c].there]_sourceVars
  BY OnlyPersistRemoves
<1> QED BY <1>1, <1>2, <1>3, PTL DEF SourceSpec, RemovedWasGone

--------------------------------------------------------------------------------
\* While nothing is bound no event is stamped; between the two writes of a
\* binding the events carry the walk's spec, and else the registry's.
Stamped ==
  /\ sweep[1].step \in {"events", "registry"} => spec = NoSpec /\ sweep[1].name # NoSpec
  /\ \A i \in DOMAIN stamps :
       stamps[i] = (IF sweep[1].step = "registry" THEN sweep[1].name ELSE spec)

\* One capture binds, and no event is stamped between its two writes.
OneBinder == SourceHazards \cap {"overlap", "writer"} = {}

LEMMA StampedStep ==
  ASSUME OneBinder, SourceTypeOK, EventsTyped, Stamped, [SourceNext]_sourceVars PROVE Stamped'
<1>0. sweep \in [{1} -> Sweeps] /\ Captures = {1}
  BY DEF SourceTypeOK, Sweeps, SweepSteps, Named, OneBinder, Captures
<1>1. CASE StampEvent
  <2>1. sweep[1].step # "registry" /\ stamps' = Append(stamps, spec) /\ UNCHANGED <<sweep, spec>>
    BY <1>0, <1>1 DEF StampEvent, OneBinder
  <2> QED BY <2>1 DEF Stamped, EventsTyped
<1>2. CASE (\E u \in SUBSET Units : TreeCommit(u)) \/ \E m \in BOOLEAN : TreeCheckout(m)
  BY <1>2 DEF TreeCommit, TreeCheckout, Stamped
<1>3. ASSUME \/ \E u \in Named : Begin(1, u)
             \/ Resolve(1) \/ ResolveFails(1) \/ AskBranch(1)
             \/ \E fails \in BOOLEAN : Persist(1, fails)
      PROVE Stamped'
  <2>1. UNCHANGED <<spec, stamps>> /\ sweep[1].step \notin {"events", "registry"}
        /\ sweep'[1].step \notin {"events", "registry"}
    <3>1. UNCHANGED <<spec, stamps>>
      BY <1>3 DEF Begin, Resolve, ResolveFails, AskBranch, Persist, Session
    <3>2. sweep[1].step \notin {"events", "registry"}
      BY <1>3 DEF Begin, Resolve, ResolveFails, AskBranch, Persist
    <3>3. \E j \in {"resolve", "branch", "store", "check"} : sweep'[1].step = j
      <4>1. CASE \E u \in Named : Begin(1, u)
        BY <1>0, <4>1 DEF Begin, SweepGoes, RestSweep
      <4>2. CASE Resolve(1)
        BY <1>0, <4>2 DEF Resolve, SweepGoes, Sweeps
      <4>3. CASE ResolveFails(1) \/ AskBranch(1) \/ \E fails \in BOOLEAN : Persist(1, fails)
        BY <1>0, <4>3 DEF ResolveFails, AskBranch, Persist, SweepGoes, Sweeps
      <4> QED BY <1>3, <4>1, <4>2, <4>3
    <3> QED BY <3>1, <3>2, <3>3
  <2> QED BY <2>1 DEF Stamped
<1>4. CASE Check(1)
  <2>1. UNCHANGED <<spec, stamps>> /\ sweep[1].step = "check"
        /\ \/ sweep'[1].step = "rest"
           \/ /\ sweep'[1].step = "events" /\ spec = NoSpec
              /\ sweep'[1].name = sweep[1].name /\ sweep[1].name # NoSpec
    BY <1>0, <1>4 DEF Check, Bindable, SweepGoes, Session, RestSweep, Sweeps
  <2> QED BY <2>1 DEF Stamped
<1>5. CASE StampEvents(1)
  <2>1. UNCHANGED spec /\ sweep[1].step = "events" /\ sweep'[1].step = "registry"
        /\ sweep'[1].name = sweep[1].name
    BY <1>0, <1>5 DEF StampEvents, SweepGoes, Sweeps
  <2> QED BY <1>5, <2>1 DEF StampEvents, Unstamped, Stamped
<1>6. CASE SetRegistry(1)
  <2>1. UNCHANGED stamps /\ sweep[1].step = "registry" /\ sweep'[1].step = "rest"
    BY <1>0, <1>6 DEF SetRegistry, SweepGoes, RestSweep, Sweeps
  <2> QED BY <1>6, <2>1 DEF SetRegistry, Stamped
<1>7. CASE UNCHANGED sourceVars
  BY <1>7 DEF sourceVars, Stamped
<1> QED BY <1>0, <1>1, <1>2, <1>3, <1>4, <1>5, <1>6, <1>7 DEF SourceNext, Named

\* For any session, however many events and walks it has: once it is bound, every
\* event carries its spec.
THEOREM BoundOnce == ASSUME OneBinder PROVE SourceSpec => []OneSpecPerSession
<1>1. SourceInit => SourceTypeOK /\ EventsTyped /\ Stamped
  BY SourceTypeInit DEF SourceInit, EventsTyped, Stamped, RestSweep, OneBinder, Captures
<1>2. (SourceTypeOK /\ EventsTyped /\ Stamped) /\ [SourceNext]_sourceVars
        => (SourceTypeOK /\ EventsTyped /\ Stamped)'
  BY EventsStep, StampedStep
<1>3. Stamped => OneSpecPerSession
  BY DEF Stamped, OneSpecPerSession, SweepBusy, OneBinder, Captures
<1> QED BY <1>1, <1>2, <1>3, PTL DEF SourceSpec

--------------------------------------------------------------------------------
(* The types of a reindex, with every hazard admitted.                     *)

Steps4 == {"rest", "known", "repair", "write"}
\* A sighting of a commit there is, or none.
Sighted(n) == {r \in Sightings : r.first \in 0 .. n /\ r.last \in 0 .. n}

\* Without the build's hazards ruled out an author date is any date.
HistoryWell ==
  /\ Count \in 0 .. MaxHistory
  /\ DOMAIN texts = 1 .. Count /\ DOMAIN authored = 1 .. Count /\ DOMAIN recorded = 1 .. Count
  /\ \A c \in 1 .. Count : /\ texts[c] \in Texts \cup {Untouched} /\ authored[c] \in Nat
                           /\ recorded[c] \in Workers \cup {Nobody, Unseen}
  /\ session \in Workers \cup {Nobody}
  /\ walkedTo \in 0 .. Count /\ reindexed \in 0 .. Count
  /\ row \in Sighted(Count)
  /\ reindexJob \in [step : Steps4, upto : 0 .. Count, known : Sightings]
  /\ reindexJob.step # "rest" => Group # {}

LEMMA HistoryWellTyped == HistoryWell => HistoryTypeOK
<1> SUFFICES ASSUME HistoryWell PROVE HistoryTypeOK
  OBVIOUS
<1>1. DOMAIN texts = DOMAIN authored /\ DOMAIN recorded = DOMAIN texts
  BY DEF HistoryWell
<1>2. DOMAIN texts \subseteq 1 .. MaxHistory
  BY HistoryConfig DEF HistoryWell
<1>3. walkedTo \in 0 .. Count /\ reindexed \in 0 .. Count
  BY DEF HistoryWell
<1>4. row \in Sighted(Count)
  BY DEF HistoryWell
<1>5. row.first \in 0 .. Count /\ row.last \in 0 .. Count /\ row.text \in Texts \cup {Untouched}
  BY <1>4 DEF Sighted, Sightings
<1>6. reindexJob.step \in {"rest", "known", "repair", "write"}
  BY DEF HistoryWell, Steps4
<1> QED BY <1>1, <1>2, <1>3, <1>5, <1>6 DEF HistoryTypeOK

LEMMA HistoryWellInit == ASSUME HistoryInit PROVE HistoryWell
<1>1. DOMAIN texts = {} /\ DOMAIN authored = {} /\ DOMAIN recorded = {}
  BY DEF HistoryInit
<1>2. Count = 0
  BY <1>1, FS_EmptySet DEF Count
<1>3. NoRow \in Sighted(0) /\ NoRow \in Sightings
  BY DEF NoRow, Sightings, Sighted
<1>4. row = NoRow /\ reindexJob = NoJob /\ walkedTo = 0 /\ reindexed = 0
      /\ session \in Workers \cup {Nobody}
  BY DEF HistoryInit
<1>5. reindexJob \in [step : Steps4, upto : 0 .. 0, known : Sightings] /\ reindexJob.step = "rest"
  BY <1>3, <1>4 DEF NoJob, Steps4
<1> QED BY <1>1, <1>2, <1>3, <1>4, <1>5, HistoryConfig DEF HistoryWell

\* A sighting of a commit leaves a row of commits there are.
LEMMA UpsertTyped ==
  ASSUME HistoryWell, NEW r \in Sighted(Count), NEW c \in 1 .. Count,
         NEW who \in Workers \cup {Nobody}
  PROVE  Upsert(r, c, who) \in Sighted(Count)
<1>1. PICK x, y : x = texts[c] /\ y = authored[c]
  OBVIOUS
<1>2. /\ x \in Texts \cup {Untouched} /\ y \in Nat /\ c \in Nat /\ Count \in Nat
      /\ c \in 0 .. Count
  BY <1>1 DEF HistoryWell
<1>3. CASE r = NoRow
  <2>1. Upsert(r, c, who) = [first |-> c, created |-> y, last |-> c, text |-> x, session |-> who]
    BY <1>1, <1>3 DEF Upsert
  <2> QED BY <1>2, <2>1 DEF Sighted, Sightings
<1>4. CASE r # NoRow
  <2> DEFINE q == [r EXCEPT !.last = c]
  <2>1. q \in Sighted(Count)
    BY <1>2 DEF Sighted, Sightings
  <2>2. Upsert(r, c, who) = [q EXCEPT !.text = x]
    BY <1>1, <1>4 DEF Upsert
  <2> HIDE DEF q
  <2> QED BY <1>2, <2>1, <2>2 DEF Sighted, Sightings
<1> QED BY <1>3, <1>4

LEMMA UpsertAllTyped ==
  ASSUME HistoryWell, NEW r \in Sighted(Count), NEW S \in SUBSET (1 .. Count),
         NEW who \in Workers \cup {Nobody}
  PROVE  UpsertAll(r, S, who) \in Sighted(Count)
<1>1. CASE S = {}
  BY <1>1 DEF UpsertAll
<1>2. CASE S # {}
  <2>1. Count \in Nat /\ S \in SUBSET Nat
    BY DEF HistoryWell
  <2>2. Oldest(S) \in S
    BY <1>2, <2>1, OldestOf
  <2>3. Newest(S) \in S
    BY <1>2, <2>1, NewestOf
  <2>4. PICK o, n : o = Oldest(S) /\ n = Newest(S)
    OBVIOUS
  <2>5. o \in 1 .. Count /\ n \in 1 .. Count
    BY <2>2, <2>3, <2>4
  <2>6. Upsert(r, o, who) \in Sighted(Count)
    BY <2>5, UpsertTyped
  <2>7. Upsert(Upsert(r, o, who), n, who) \in Sighted(Count)
    BY <2>5, <2>6, UpsertTyped
  <2> QED BY <1>2, <2>4, <2>7 DEF UpsertAll
<1> QED BY <1>1, <1>2

\* A step that leaves the commits, and who is at work, keeps their types.
LEMMA StandingTypes ==
  ASSUME HistoryWell, UNCHANGED <<texts, authored>>,
         session' \in Workers \cup {Nobody},
         DOMAIN recorded' = 1 .. Count,
         \A c \in 1 .. Count : recorded'[c] \in Workers \cup {Nobody, Unseen},
         walkedTo' \in 0 .. Count, reindexed' \in 0 .. Count, row' \in Sighted(Count),
         reindexJob' \in [step : Steps4, upto : 0 .. Count, known : Sightings],
         reindexJob'.step # "rest" => Touching(1 .. reindexJob'.upto) # {}
  PROVE  HistoryWell'
<1>1. Count' = Count /\ Group' = Touching(1 .. reindexJob'.upto)
  BY DEF Count, Group, Touching
<1> QED BY <1>1 DEF HistoryWell

LEMMA GrowsTyped ==
  ASSUME HistoryWell, NEW x \in Texts \cup {Untouched},
         NEW at \in 1 .. 2 * MaxHistory, HistoryGrows(x, at)
  PROVE  HistoryWell'
<1>1. /\ Count \in 0 .. MaxHistory /\ Count < MaxHistory /\ Count \in Nat /\ at \in Nat
      /\ UNCHANGED <<session, walkedTo, row, reindexJob, reindexed>>
  BY DEF HistoryWell, HistoryGrows
<1>2. PICK m : m = Count + 1
  OBVIOUS
<1>3. /\ texts' = [i \in 1 .. m |-> IF i <= Count THEN texts[i] ELSE x]
      /\ authored' = [i \in 1 .. m |-> IF i <= Count THEN authored[i] ELSE at]
      /\ recorded' = [i \in 1 .. m |-> IF i <= Count THEN recorded[i] ELSE Unseen]
  BY <1>2 DEF HistoryGrows, Extended
<1>4. Count' = m
  <2>1. DOMAIN texts' = 1 .. m
    BY <1>3
  <2>2. Cardinality(1 .. m) = m
    BY <1>1, <1>2, FS_Interval
  <2> QED BY <2>1, <2>2 DEF Count
<1>5. m \in 1 .. MaxHistory /\ m \in Nat
  BY <1>1, <1>2, HistoryConfig
<1>6. /\ \A c \in 1 .. Count : texts'[c] = texts[c] /\ authored'[c] = authored[c]
                               /\ recorded'[c] = recorded[c] /\ c \in 1 .. m
      /\ texts'[m] = x /\ authored'[m] = at /\ recorded'[m] = Unseen
      /\ \A c \in 1 .. m : c = m \/ c \in 1 .. Count
  BY <1>1, <1>2, <1>3, <1>5
<1>7. DOMAIN texts' = 1 .. m /\ DOMAIN authored' = 1 .. m /\ DOMAIN recorded' = 1 .. m
  BY <1>3
<1>8. \A c \in 1 .. m : /\ texts'[c] \in Texts \cup {Untouched} /\ authored'[c] \in Nat
                         /\ recorded'[c] \in Workers \cup {Nobody, Unseen}
  BY <1>1, <1>6 DEF HistoryWell
<1>9. 0 .. Count \subseteq 0 .. m
  BY <1>1, <1>2
<1>10. /\ reindexJob \in [step : Steps4, upto : 0 .. m, known : Sightings]
       /\ row \in Sighted(m) /\ walkedTo \in 0 .. m /\ reindexed \in 0 .. m
  BY <1>9 DEF HistoryWell, Sighted
<1>11. reindexJob.step # "rest" => Group' # {}
  <2>1. reindexJob.upto \in 0 .. Count
    BY DEF HistoryWell
  <2>2. \A c \in 1 .. reindexJob.upto : texts'[c] = texts[c]
    BY <1>1, <1>6, <2>1
  <2>3. Group' = Group
    BY <1>1, <2>2 DEF Group, Touching
  <2> QED BY <2>3 DEF HistoryWell
<1>12. session \in Workers \cup {Nobody} /\ m \in 0 .. MaxHistory
  BY <1>5 DEF HistoryWell
<1> QED BY <1>1, <1>4, <1>7, <1>8, <1>10, <1>11, <1>12 DEF HistoryWell

LEMMA RecordedTyped ==
  ASSUME HistoryWell
  PROVE  /\ DOMAIN Recorded = 1 .. Count
         /\ \A c \in 1 .. Count : Recorded[c] \in Workers \cup {Nobody, Unseen}
<1>1. DOMAIN texts = 1 .. Count /\ session \in Workers \cup {Nobody}
  BY DEF HistoryWell
<1> QED BY <1>1 DEF Recorded, HistoryWell

LEMMA CaptureTyped == ASSUME HistoryWell, Capture \/ CaptureDies PROVE HistoryWell'
<1>1. /\ UNCHANGED <<texts, authored, session, reindexed>> /\ recorded' = Recorded
      /\ walkedTo' \in {walkedTo, Count} /\ reindexJob' \in {reindexJob, NoJob}
      /\ row' \in {row, UpsertAll(row, Touching(New), session)}
  BY DEF Capture, CaptureDies
<1>2. /\ Count \in Nat /\ walkedTo \in 0 .. Count /\ reindexed \in 0 .. Count
      /\ session \in Workers \cup {Nobody} /\ row \in Sighted(Count)
      /\ DOMAIN texts = 1 .. Count
      /\ reindexJob \in [step : Steps4, upto : 0 .. Count, known : Sightings]
  BY DEF HistoryWell
<1>3. Touching(New) \in SUBSET (1 .. Count)
  BY <1>2 DEF Touching, New
<1>4. row' \in Sighted(Count)
  BY <1>1, <1>2, <1>3, UpsertAllTyped
<1>5. NoJob \in [step : Steps4, upto : 0 .. Count, known : Sightings] /\ NoJob.step = "rest"
  BY <1>2 DEF NoJob, NoRow, Sightings, Steps4
<1>6. reindexJob' \in [step : Steps4, upto : 0 .. Count, known : Sightings]
      /\ (reindexJob'.step # "rest" => Touching(1 .. reindexJob'.upto) # {})
  BY <1>1, <1>2, <1>5 DEF HistoryWell, Group
<1>7. walkedTo' \in 0 .. Count
  BY <1>1, <1>2
<1> QED BY <1>1, <1>2, <1>4, <1>6, <1>7, RecordedTyped, StandingTypes

\* The oldest and the newest commit a reindex walks are commits there are.
LEMMA GroupEnds ==
  ASSUME HistoryWell, reindexJob.step # "rest"
  PROVE  Group \in SUBSET (1 .. Count) /\ Oldest(Group) \in 1 .. Count
         /\ Newest(Group) \in 1 .. Count
<1>1. Group # {} /\ Count \in Nat /\ reindexJob.upto \in 0 .. Count
  BY DEF HistoryWell
<1>2. Group \in SUBSET (1 .. Count)
  BY <1>1 DEF Group, Touching
<1>3. Group \in SUBSET Nat
  BY <1>1, <1>2
<1>4. Oldest(Group) \in Group
  BY <1>1, <1>3, OldestOf
<1>5. Newest(Group) \in Group
  BY <1>1, <1>2, NewestOf
<1> QED BY <1>2, <1>4, <1>5

LEMMA RepairTyped == ASSUME HistoryWell, RepairStep PROVE row' \in Sighted(Count)
<1>1. CASE ~RepairPlanned
  BY <1>1 DEF RepairStep, HistoryWell
<1>2. CASE RepairPlanned
  <2>1. PICK o, d, s : o = Oldest(Group) /\ d = authored[o] /\ s = SessionOf(o)
    OBVIOUS
  <2>2. o \in 1 .. Count
    BY <2>1, GroupEnds DEF RepairStep
  <2>3. o \in 0 .. Count /\ o \in Nat /\ d \in Nat /\ s \in Workers \cup {Nobody}
    BY <2>1, <2>2 DEF HistoryWell, SessionOf
  <2> DEFINE q == [row EXCEPT !.first = o]
             p == [q EXCEPT !.created = d]
             r == [p EXCEPT !.session = s]
  <2>4. row' = r
    BY <1>2, <2>1 DEF RepairStep, Repair, Repaired
  <2>5. row \in Sighted(Count)
    BY DEF HistoryWell
  <2>6. q \in Sighted(Count)
    BY <2>3, <2>5 DEF Sighted, Sightings
  <2> HIDE DEF q
  <2>7. p \in Sighted(Count)
    BY <2>3, <2>6 DEF Sighted, Sightings
  <2> HIDE DEF p
  <2>8. r \in Sighted(Count)
    BY <2>3, <2>7 DEF Sighted, Sightings
  <2> QED BY <2>4, <2>8
<1> QED BY <1>1, <1>2

LEMMA WriteTyped == ASSUME HistoryWell, Write PROVE row' \in Sighted(Count)
<1>1. /\ Group \in SUBSET (1 .. Count) /\ Newest(Group) \in 1 .. Count
      /\ row \in Sighted(Count) /\ Nobody \in Workers \cup {Nobody}
  BY GroupEnds DEF Write, HistoryWell
<1>2. UpsertAll(row, Group, Nobody) \in Sighted(Count)
  BY <1>1, UpsertAllTyped
<1>3. Upsert(row, Newest(Group), Nobody) \in Sighted(Count)
  BY <1>1, UpsertTyped
<1>4. row' \in {row, UpsertAll(row, Group, Nobody), Upsert(row, Newest(Group), Nobody)}
  BY DEF Write, Written
<1> QED BY <1>1, <1>2, <1>3, <1>4

LEMMA ReindexTyped ==
  ASSUME HistoryWell,
         \/ Walk \/ ReadKnown \/ RepairStep \/ Write \/ WriteFails
         \/ \E s \in Workers \cup {Nobody} : SessionChanges(s)
  PROVE  HistoryWell'
<1>1. /\ Count \in Nat /\ walkedTo \in 0 .. Count /\ reindexed \in 0 .. Count
      /\ session \in Workers \cup {Nobody} /\ row \in Sighted(Count) /\ row \in Sightings
      /\ DOMAIN recorded = 1 .. Count /\ DOMAIN texts = 1 .. Count
      /\ \A c \in 1 .. Count : recorded[c] \in Workers \cup {Nobody, Unseen}
      /\ reindexJob \in [step : Steps4, upto : 0 .. Count, known : Sightings]
  BY DEF HistoryWell, Sighted
<1>2. UNCHANGED <<texts, authored, recorded, walkedTo>> /\ session' \in Workers \cup {Nobody}
  BY <1>1 DEF Walk, ReadKnown, RepairStep, Write, WriteFails, SessionChanges
<1>3. row' \in Sighted(Count)
  BY <1>1, RepairTyped, WriteTyped DEF Walk, ReadKnown, WriteFails, SessionChanges
<1>4. reindexed' \in 0 .. Count
  BY <1>1 DEF Walk, ReadKnown, RepairStep, Write, WriteFails, SessionChanges
<1>5. NoJob \in [step : Steps4, upto : 0 .. Count, known : Sightings] /\ NoJob.step = "rest"
      /\ NoRow \in Sightings
  BY <1>1 DEF NoJob, NoRow, Sightings, Steps4
<1>6. reindexJob' \in [step : Steps4, upto : 0 .. Count, known : Sightings]
      /\ (reindexJob'.step # "rest" => Touching(1 .. reindexJob'.upto) # {})
  <2>1. CASE Walk
    <3>1. reindexJob' = [step |-> "known", upto |-> Count, known |-> NoRow]
          /\ Touching(DOMAIN texts) # {}
      BY <2>1 DEF Walk
    <3> QED BY <1>1, <1>5, <3>1 DEF Steps4
  <2>2. CASE ReadKnown
    <3>1. reindexJob' = [reindexJob EXCEPT !.step = "repair", !.known = row]
          /\ reindexJob.step # "rest"
      BY <2>2 DEF ReadKnown
    <3>2. reindexJob'.upto = reindexJob.upto
          /\ reindexJob' \in [step : Steps4, upto : 0 .. Count, known : Sightings]
      BY <1>1, <3>1 DEF Steps4
    <3> QED BY <3>1, <3>2 DEF HistoryWell, Group
  <2>3. CASE RepairStep
    <3>1. reindexJob' = [reindexJob EXCEPT !.step = "write"] /\ reindexJob.step # "rest"
      BY <2>3 DEF RepairStep
    <3>2. reindexJob'.upto = reindexJob.upto
          /\ reindexJob' \in [step : Steps4, upto : 0 .. Count, known : Sightings]
      BY <1>1, <3>1 DEF Steps4
    <3> QED BY <3>1, <3>2 DEF HistoryWell, Group
  <2>4. CASE Write \/ WriteFails
    <3>1. reindexJob' = NoJob
      BY <2>4 DEF Write, WriteFails
    <3> QED BY <1>5, <3>1
  <2>5. ASSUME NEW s \in Workers \cup {Nobody}, SessionChanges(s)
        PROVE  reindexJob' = reindexJob
    BY <2>5 DEF SessionChanges
  <2> QED BY <1>1, <2>1, <2>2, <2>3, <2>4, <2>5 DEF HistoryWell, Group
<1>7. walkedTo' \in 0 .. Count /\ DOMAIN recorded' = 1 .. Count
      /\ \A c \in 1 .. Count : recorded'[c] \in Workers \cup {Nobody, Unseen}
  BY <1>1, <1>2
<1> QED BY <1>2, <1>3, <1>4, <1>6, <1>7, StandingTypes

LEMMA HistoryTypeStep ==
  ASSUME HistoryWell, [HistoryNext]_historyVars PROVE HistoryWell'
<1>1. CASE UNCHANGED historyVars
  BY <1>1 DEF historyVars, HistoryWell, Count, Group, Touching
<1>2. CASE Capture \/ CaptureDies
  BY <1>2, CaptureTyped
<1> QED BY <1>1, <1>2, GrowsTyped, ReindexTyped DEF HistoryNext

\* Rows, walks and repairs only ever name commits there are, also when captures and a
\* reindex cross, die between their writes, or meet author dates out of order.
THEOREM HistoriesTyped == HistorySpec => []HistoryTypeOK
<1>1. HistoryInit => HistoryWell
  BY HistoryWellInit
<1>2. HistoryWell /\ [HistoryNext]_historyVars => HistoryWell'
  BY HistoryTypeStep
<1>3. HistoryWell => HistoryTypeOK
  BY HistoryWellTyped
<1> QED BY <1>1, <1>2, <1>3, PTL DEF HistorySpec

--------------------------------------------------------------------------------
(* The parts together, as MCRecord composes them.                          *)

RecordTyped ==
  /\ Typed /\ TurnTyped /\ WorkTyped /\ WalkTyped /\ HistoryWell
  /\ SourceTypeOK /\ EventsTyped

LEMMA PartSteps ==
  ASSUME [RecordNext]_recordVars
  PROVE  /\ [Next]_vars /\ [TurnNext]_turnVars /\ [WorkNext]_workVars
         /\ [WalkNext]_walkVars /\ [HistoryNext]_historyVars /\ [SourceNext]_sourceVars
BY DEF RecordNext, recordVars, Alone

LEMMA RecordTypeInit == ASSUME TurnSized, Sized PROVE RecordInit => RecordTyped
<1> SUFFICES ASSUME RecordInit PROVE RecordTyped
  OBVIOUS
<1>1. Init /\ TurnInit /\ WorkInit /\ WalkInit /\ HistoryInit /\ SourceInit
  BY DEF RecordInit
<1>2. SourceTypeOK /\ EventsTyped
  BY <1>1, SourceTypeInit DEF SourceInit, EventsTyped
<1> QED BY <1>1, <1>2, InitIsTyped, TurnTypeInit, TypedInit, InitIsWalkTyped, HistoryWellInit
        DEF RecordTyped

LEMMA RecordTypeStep ==
  ASSUME TurnSized, Sized, RecordTyped, [RecordNext]_recordVars PROVE RecordTyped'
<1>0. /\ [Next]_vars /\ [TurnNext]_turnVars /\ [WorkNext]_workVars
      /\ [WalkNext]_walkVars /\ [HistoryNext]_historyVars /\ [SourceNext]_sourceVars
  BY PartSteps
<1>1. Typed'
  BY <1>0, NextIsTyped DEF RecordTyped
<1>2. TurnTyped'
  BY <1>0, TurnTypeStep DEF RecordTyped
<1>3. WorkTyped'
  BY <1>0, TypedStep DEF RecordTyped
<1>4. WalkTyped'
  BY <1>0, NextIsWalkTyped DEF RecordTyped
<1>5. HistoryWell'
  BY <1>0, HistoryTypeStep DEF RecordTyped
<1>6. SourceTypeOK' /\ EventsTyped'
  BY <1>0, EventsStep DEF RecordTyped
<1> QED BY <1>1, <1>2, <1>3, <1>4, <1>5, <1>6 DEF RecordTyped

\* What the composed run checks of every part: the types of the writer, the token
\* capture, the log under retention, the walks, the reindex and the sweeps are kept
\* by every step of whichever part runs, under all hazards.
THEOREM RecordIsTyped == ASSUME TurnSized, Sized PROVE RecordSpec => []TypesOK
<1>1. RecordInit => RecordTyped
  BY RecordTypeInit
<1>2. RecordTyped /\ [RecordNext]_recordVars => RecordTyped'
  BY RecordTypeStep
<1>3. RecordTyped => TypesOK
  BY TypedIsTypeOK, HistoryWellTyped DEF RecordTyped, TurnTyped, WorkTyped, WalkTyped, TypesOK
<1> QED BY <1>1, <1>2, <1>3, PTL DEF RecordSpec

================================================================================
