--------------------------------- MODULE Reindex -------------------------------
(***************************************************************************)
(* Where a decision record is said to come from.  The ambient capture sees *)
(* a record first on whatever commit it happens to walk; `dira zavet       *)
(* reindex` walks the whole history, repairs the first sight and skips     *)
(* what has not changed (zavet.rs reindex, the store's upsert and repair). *)
(*                                                                         *)
(* History is linear here (Capture.tla has the branches); commits are      *)
(* numbers.  ReindexHazards: "overlap" (a capture writes while a reindex   *)
(* is under way), "crash" (the daemon dies between recording a             *)
(* repository's first commits and its first records), "skew" (a commit's   *)
(* author date lies before an older commit's).                             *)
(***************************************************************************)
EXTENDS Naturals, FiniteSets, FiniteSetsExt

CONSTANTS MaxHistory, HistoryBackfill, Texts, Workers, MaxReindexes, ReindexHazards

ASSUME HistoryConfig ==
  /\ {MaxHistory, HistoryBackfill, MaxReindexes} \subseteq Nat
  /\ "untouched" \notin Texts /\ {"nobody", "unseen"} \cap Workers = {}

VARIABLES
  texts,     \* commit -> the record's text in it, or Untouched: one per commit
  authored,  \* commit -> its author date
  session,   \* the session at work in the repository
  walkedTo,
  recorded,  \* commit -> its source session, Nobody, or Unseen
  row,       \* zavet_decisions' row
  reindexJob, \* the reindex: [step, upto, known]
  reindexed, \* history: how many commits the last finished reindex walked
  reindexes

historyVars == <<texts, authored, session, walkedTo, recorded, row, reindexJob, reindexed, reindexes>>

Untouched == "untouched"
Nobody == "nobody"
Unseen == "unseen"
NoRow == [first |-> 0, created |-> 0, last |-> 0, text |-> Untouched, session |-> Nobody]
NoJob == [step |-> "rest", upto |-> 0, known |-> NoRow]

Count == Cardinality(DOMAIN texts)
Touching(S) == {c \in S : texts[c] # Untouched}

HistoryTypeOK ==
  /\ DOMAIN texts = DOMAIN authored /\ DOMAIN recorded = DOMAIN texts
  /\ DOMAIN texts \subseteq 1 .. MaxHistory
  /\ walkedTo \in 0 .. Count /\ reindexed \in 0 .. Count
  /\ row.first \in 0 .. Count /\ row.last \in 0 .. Count /\ row.text \in Texts \cup {Untouched}
  /\ reindexJob.step \in {"rest", "known", "repair", "write"}

HistoryInit ==
  /\ texts = << >> /\ authored = << >> /\ recorded = << >>
  /\ session \in Workers \cup {Nobody} /\ walkedTo = 0 /\ row = NoRow
  /\ reindexJob = NoJob /\ reindexed = 0 /\ reindexes = 0

--------------------------------------------------------------------------------
Extended(f, v) == [i \in 1 .. Count + 1 |-> IF i <= Count THEN f[i] ELSE v]
HistoryGrows(text, at) ==
  /\ Count < MaxHistory
  /\ at = 2 * Count + 2 \/ ("skew" \in ReindexHazards /\ at = 1)
  /\ texts' = Extended(texts, text) /\ authored' = Extended(authored, at)
  /\ recorded' = Extended(recorded, Unseen)
  /\ UNCHANGED <<session, walkedTo, row, reindexJob, reindexed, reindexes>>
SessionChanges(s) ==
  /\ session' = s
  /\ UNCHANGED <<texts, authored, walkedTo, recorded, row, reindexJob, reindexed, reindexes>>

\* zavet_upsert_decision: first sight is kept on a conflict.
Upsert(r, c, who) ==
  IF r = NoRow
  THEN [first |-> c, created |-> authored[c], last |-> c, text |-> texts[c], session |-> who]
  ELSE [r EXCEPT !.last = c, !.text = texts[c]]
Oldest(S) == Min(S)
Newest(S) == Max(S)
\* The first and the last sighting leave what all of them would.
UpsertAll(r, S, who) ==
  IF S = {} THEN r ELSE Upsert(Upsert(r, Oldest(S), who), Newest(S), who)

\* capture_commits, from the baseline on; a commit already recorded keeps its
\* session.
New == IF walkedTo = 0 THEN {c \in DOMAIN texts : c + HistoryBackfill > Count}
       ELSE {c \in DOMAIN texts : c > walkedTo}
Recorded ==
  [c \in DOMAIN texts |-> IF c \in New /\ recorded[c] = Unseen THEN session ELSE recorded[c]]
Undisturbed == reindexJob.step = "rest" \/ "overlap" \in ReindexHazards
Capture ==
  /\ walkedTo < Count /\ Undisturbed
  /\ recorded' = Recorded /\ row' = UpsertAll(row, Touching(New), session)
  /\ walkedTo' = Count
  /\ UNCHANGED <<texts, authored, session, reindexJob, reindexed, reindexes>>
CaptureDies ==
  /\ "crash" \in ReindexHazards \/ (walkedTo # 0 /\ row # NoRow)
  /\ walkedTo < Count /\ recorded' = Recorded /\ reindexJob' = NoJob
  /\ UNCHANGED <<texts, authored, session, walkedTo, row, reindexed, reindexes>>

--------------------------------------------------------------------------------
(* reindex *)

Walk ==
  /\ reindexJob.step = "rest" /\ reindexes < MaxReindexes /\ reindexes' = reindexes + 1
  /\ Touching(DOMAIN texts) # {}
  /\ reindexJob' = [step |-> "known", upto |-> Count, known |-> NoRow]
  /\ UNCHANGED <<texts, authored, session, walkedTo, recorded, row, reindexed>>
ReadKnown ==
  /\ reindexJob.step = "known"
  /\ reindexJob' = [reindexJob EXCEPT !.step = "repair", !.known = row]
  /\ UNCHANGED <<texts, authored, session, walkedTo, recorded, row, reindexed, reindexes>>

Group == Touching(1 .. reindexJob.upto)
SessionOf(c) == IF recorded[c] = Unseen THEN Nobody ELSE recorded[c]
\* provenance_repair_plan: only to a commit authored no later.
RepairPlanned ==
  /\ reindexJob.known # NoRow /\ reindexJob.known.first # Oldest(Group)
  /\ authored[Oldest(Group)] <= reindexJob.known.created
Repaired(r) ==
  [r EXCEPT !.first = Oldest(Group), !.created = authored[Oldest(Group)],
            !.session = SessionOf(Oldest(Group))]
RepairedInPart(r) ==
  [r EXCEPT !.first = Oldest(Group), !.created = authored[Oldest(Group)]]
Repair(r) == Repaired(r)
RepairStep ==
  /\ reindexJob.step = "repair" /\ reindexJob' = [reindexJob EXCEPT !.step = "write"]
  /\ row' = (IF RepairPlanned THEN Repair(row) ELSE row)
  /\ UNCHANGED <<texts, authored, session, walkedTo, recorded, reindexed, reindexes>>

UnchangedText == reindexJob.known # NoRow /\ reindexJob.known.text = texts[Newest(Group)]
\* A record already known gets its newest sighting only; nobody is its session.
Written ==
  IF reindexJob.known = NoRow THEN UpsertAll(row, Group, Nobody)
  ELSE Upsert(row, Newest(Group), Nobody)
Write ==
  /\ reindexJob.step = "write" /\ reindexJob' = NoJob /\ reindexed' = reindexJob.upto
  /\ row' = (IF UnchangedText THEN row ELSE Written)
  /\ UNCHANGED <<texts, authored, session, walkedTo, recorded, reindexes>>
WriteFails ==
  /\ reindexJob.step = "write" /\ ~UnchangedText /\ reindexJob' = NoJob
  /\ UNCHANGED <<texts, authored, session, walkedTo, recorded, row, reindexed, reindexes>>

HistoryNext ==
  \/ \E x \in Texts \cup {Untouched}, at \in 1 .. 2 * MaxHistory : HistoryGrows(x, at)
  \/ \E s \in Workers \cup {Nobody} : SessionChanges(s)
  \/ Capture \/ CaptureDies
  \/ Walk \/ ReadKnown \/ RepairStep \/ Write \/ WriteFails

--------------------------------------------------------------------------------
\* Once a reindex has walked a record's history, the record is dated to the
\* commit that introduced it, whatever edit the ambient capture had met first.
FirstIsOldest ==
  LET walked == Touching(1 .. reindexed) IN
  reindexJob.step = "rest" /\ walked # {} => row.first = Oldest(walked)

\* "`source_session` tracks `first_commit`" (store.rs): the session a record's
\* cost is billed to never is another commit's.
AttributionTracks ==
  row = NoRow \/ row.session \in {Nobody, SessionOf(row.first)}

\* The text is that of the newest commit anybody has walked, and no reindex has put
\* an older one back.
TextCurrent ==
  LET seen == Touching({c \in 1 .. walkedTo : recorded[c] # Unseen} \cup 1 .. reindexed) IN
  reindexJob.step = "rest" /\ seen # {} => row.text = texts[Newest(seen)]

ProvenanceRight == FirstIsOldest /\ AttributionTracks /\ TextCurrent

================================================================================
