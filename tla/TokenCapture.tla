----------------------------- MODULE TokenCapture -----------------------------
(***************************************************************************)
(* Token capture at the end of a turn: the writer reads what a harness     *)
(* appended to a transcript since the offset kept in `meta`, stores one    *)
(* row per turn and moves the offset behind the last complete line.  The   *)
(* offset belongs to the file a fingerprint of its first bytes names; the  *)
(* harness may replace the file.                                           *)
(*                                                                         *)
(* A file is a generation and a size.  Sizes and positions count half      *)
(* lines, so that the last line may be torn; each line is a turn, and the  *)
(* first Prologue half lines make the fingerprint.  TurnHazards:           *)
(* "row_fails" (an upsert fails), "torn_marks" (one of the two writes of   *)
(* offset and fingerprint happens without the other), "legacy" (an offset  *)
(* without a fingerprint, from an older install).                          *)
(***************************************************************************)
EXTENDS Naturals

CONSTANTS Prologue, MaxLines, MaxGens, TurnHazards

VARIABLES
  file,    \* [gen, size]: the transcript on disk
  offset,  \* token_offset:<session>
  fp,      \* token_fp:<session>, NoFp when absent
  rows,    \* token_usage, as <<gen, line>>
  step,    \* "idle", "opened", "read", "mark", "name"
  open,    \* the file opened, its size and its fingerprint then
  tail     \* [from, to, next]: what was read, the next line to store

turnVars == <<file, offset, fp, rows, step, open, tail>>

NoFp == <<0, 0>>
Least(a, b) == IF a < b THEN a ELSE b
\* transcript_fingerprint: of an empty file there is none
Fingerprint(g, n) == IF n = 0 THEN NoFp ELSE <<g, Least(n, Prologue)>>
NoFile == [gen |-> 0, size |-> 0, fp |-> NoFp]
Lines(size) == size \div 2
NoTail == [from |-> 0, to |-> 0, next |-> 0]

TurnTypeOK ==
  /\ file \in [gen : 1 .. MaxGens, size : 0 .. 2 * MaxLines]
  /\ offset \in {2 * n : n \in 0 .. MaxLines}
  /\ fp \in {NoFp} \cup ((1 .. MaxGens) \X (1 .. Prologue))
  /\ rows \subseteq (1 .. MaxGens) \X (1 .. MaxLines)
  /\ step \in {"idle", "opened", "read", "mark", "name"}

TurnInit ==
  /\ file = [gen |-> 1, size |-> 2]
  /\ offset \in IF "legacy" \in TurnHazards THEN {0, 2} ELSE {0}
  /\ fp = NoFp /\ rows = (IF offset = 0 THEN {} ELSE {<<1, 1>>})
  /\ step = "idle" /\ open = NoFile /\ tail = NoTail

\* The harness appends a line, in two writes, or puts another file there.
Extend ==
  /\ file.size < 2 * MaxLines
  /\ file' = [file EXCEPT !.size = @ + 1]
  /\ UNCHANGED <<offset, fp, rows, step, open, tail>>
Replace(n) ==
  /\ file.gen < MaxGens
  /\ file' = [gen |-> file.gen + 1, size |-> n]
  /\ UNCHANGED <<offset, fp, rows, step, open, tail>>

Open ==
  /\ step = "idle"
  /\ open' = [gen |-> file.gen, size |-> file.size,
              fp |-> Fingerprint(file.gen, file.size)]
  /\ step' = "opened"
  /\ UNCHANGED <<file, offset, fp, rows, tail>>

Swapped == fp # NoFp /\ open.fp # NoFp /\ fp # open.fp
FromByLength == IF open.size < offset THEN 0 ELSE offset
From == IF open.size < offset \/ Swapped THEN 0 ELSE offset
NothingNew == open.size = From /\ ~Swapped

RememberFp ==
  /\ step = "opened" /\ NothingNew
  /\ fp' = IF fp = NoFp THEN open.fp ELSE fp
  /\ step' = "idle" /\ open' = NoFile
  /\ UNCHANGED <<file, offset, rows, tail>>

\* read_to_end on the open handle sees what was appended to that file since.
Read(n) ==
  /\ step = "opened" /\ ~NothingNew
  /\ n = IF open.gen = file.gen THEN file.size ELSE open.size
  /\ tail' = [from |-> From, to |-> n, next |-> Lines(From) + 1]
  /\ step' = "read"
  /\ UNCHANGED <<file, offset, fp, rows, open>>

\* upsert_token_usage; a failure is logged and the loop goes on
UpsertTokenUsage(ok) ==
  /\ step = "read" /\ tail.next <= Lines(tail.to)
  /\ ok \/ "row_fails" \in TurnHazards
  /\ rows' = IF ok THEN rows \cup {<<open.gen, tail.next>>} ELSE rows
  /\ tail' = [tail EXCEPT !.next = @ + 1]
  /\ UNCHANGED <<file, offset, fp, step, open>>

EndOfFile == tail.to
NewOffset == 2 * Lines(tail.to)

\* Behind the last newline; a tail without one leaves both marks alone.
MarkOffset(ok) ==
  /\ step = "read" /\ tail.next > Lines(tail.to)
  /\ ok \/ "torn_marks" \in TurnHazards
  /\ IF NewOffset > tail.from
     THEN /\ offset' = IF ok THEN NewOffset ELSE offset
          /\ step' = "name"
          /\ UNCHANGED open
     ELSE /\ step' = "idle" /\ open' = NoFile
          /\ UNCHANGED offset
  /\ tail' = NoTail
  /\ UNCHANGED <<file, fp, rows>>

MarkFp(ok) ==
  /\ step = "name"
  /\ ok \/ "torn_marks" \in TurnHazards
  /\ fp' = IF ok /\ open.fp # NoFp THEN open.fp ELSE fp
  /\ step' = "idle" /\ open' = NoFile
  /\ UNCHANGED <<file, offset, rows, tail>>

TurnCrash ==
  /\ step # "idle"
  /\ step = "name" => "torn_marks" \in TurnHazards
  /\ step' = "idle" /\ open' = NoFile /\ tail' = NoTail
  /\ UNCHANGED <<file, offset, fp, rows>>

TurnNext ==
  \/ Extend \/ \E n \in 0 .. 2 * MaxLines : Replace(n)
  \/ Open \/ RememberFp \/ \E n \in 0 .. 2 * MaxLines : Read(n)
  \/ \E ok \in BOOLEAN : UpsertTokenUsage(ok) \/ MarkOffset(ok) \/ MarkFp(ok)
  \/ TurnCrash

\* The offset never stands behind a turn that was not stored: whenever no
\* capture runs, every line of the file on disk that the next capture will
\* skip has its row.  Rows survive whatever file took the place of theirs.
WouldSkip ==
  LET now == Fingerprint(file.gen, file.size)
      swapped == fp # NoFp /\ now # NoFp /\ fp # now
  IN IF file.size < offset \/ swapped THEN 0 ELSE offset
NoTurnSkipped ==
  step = "idle" => \A i \in 1 .. Lines(WouldSkip) : <<file.gen, i>> \in rows
================================================================================
