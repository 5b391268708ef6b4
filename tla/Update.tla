--------------------------------- MODULE Update --------------------------------
(***************************************************************************)
(* `dira update`: two binaries are replaced by rename, behind a backup,    *)
(* then the daemon is restarted; every step can fail, and the process can  *)
(* be killed between any two.  A detached `dira update --check` rewrites   *)
(* the same cache file meanwhile.                                          *)
(*                                                                         *)
(* A version is a number; 0: no such file, or no daemon.  UpdateHazards:   *)
(* "locked" (on Windows a running file is moved aside first, and the       *)
(* update is killed just then), "stuck" (restoring a backup fails),        *)
(* "other_dir" (the service manager starts a dirad of another directory),  *)
(* "racing_check", "late_start" (the daemon answers after the ten seconds  *)
(* restart gives it).                                                      *)
(***************************************************************************)
EXTENDS Naturals, FiniteSets

CONSTANTS MaxVersion, MaxRuns, Escalate, UpdateHazards

VARIABLES
  disk,      \* binary -> its version
  bak,       \* binary -> the version of its `.bak`
  running,   \* the version of the daemon that answers
  step,      \* where the update is
  run,       \* [target, claims, restart, pinned, before]: its arguments
  result,    \* what it will report
  cache,     \* [failures, latest]: update-check.json
  check,     \* what the detached check read, or Away
  runs,
  failed     \* history: failed attempts since the last one that worked

updateVars == <<disk, bak, running, step, run, result, cache, check, runs, failed>>

Binaries == {"dirad", "dira"}
Versions == 0 .. MaxVersion
Away == [failures |-> 0, latest |-> 99]
NoRun == [target |-> 0, claims |-> 0, restart |-> FALSE, pinned |-> FALSE,
          before |-> [b \in Binaries |-> 0], alive |-> 0]
Steps == {"idle", "download", "backup", "swap_dirad", "dirad_aside", "swap_dira",
          "dira_aside", "verify", "restart", "clean", "report"}

UpdateTypeOK ==
  /\ {disk, bak} \subseteq [Binaries -> Versions] /\ running \in Versions
  /\ step \in Steps /\ result \in {"ok", "error", "refused"}
  /\ cache.failures \in 0 .. MaxRuns /\ cache.latest \in Versions

UpdateInit ==
  /\ disk = [b \in Binaries |-> 1] /\ bak = [b \in Binaries |-> 0]
  /\ running \in {0, 1} /\ step = "idle" /\ run = NoRun /\ result = "ok"
  /\ cache = [failures |-> 0, latest |-> 0] /\ check = Away
  /\ runs = 0 /\ failed = 0

--------------------------------------------------------------------------------
Goes(from, to) == step = from /\ step' = to
Ends(from, r, to) == Goes(from, to) /\ result' = r
Files == UNCHANGED <<disk, bak>>
Around == UNCHANGED <<running, run, cache, check, runs, failed>>

\* The release is resolved; an implicit downgrade is refused; claims is what
\* the archive's `dira --version` will say.
Refuses(target, pinned) == ~pinned /\ target < disk["dira"]
UpdateStarts(target, claims, restart, pinned) ==
  /\ runs < MaxRuns /\ runs' = runs + 1
  /\ step = "idle" /\ disk["dira"] # 0
  /\ run' = [target |-> target, claims |-> claims, restart |-> restart,
             pinned |-> pinned, before |-> disk, alive |-> running]
  /\ IF Refuses(target, pinned)
     THEN step' = "report" /\ result' = "refused"
     ELSE step' = "download" /\ result' = "ok"
  /\ Files /\ UNCHANGED <<running, cache, check, failed>>

\* Archive, checksum and extraction: nothing is touched yet.
Download == Goes("download", "backup") /\ UNCHANGED result /\ Files /\ Around
DownloadFails == Ends("download", "error", "report") /\ Files /\ Around

\* Hard links, one after the other; a file that is not there leaves an older
\* backup alone.
Linked(b) == IF disk[b] = 0 THEN bak[b] ELSE disk[b]
StillThere(b) == disk[b]
Backup ==
  /\ Goes("backup", "swap_dirad")
  /\ bak' = [b \in Binaries |-> Linked(b)]
  /\ disk' = [b \in Binaries |-> StillThere(b)]
  /\ UNCHANGED result /\ Around
\* The old `.bak` goes before the new link is made.
BackupFails(b) ==
  /\ disk[b] # 0 /\ Ends("backup", "error", "report")
  /\ bak' = [c \in Binaries |-> IF c = b THEN 0 ELSE IF c = "dirad" THEN Linked(c) ELSE bak[c]]
  /\ UNCHANGED disk /\ Around

\* The staged file is renamed onto the path, dirad's first.
Content(b) == IF b = "dira" THEN run.claims ELSE run.target
SwapStep(b) == IF b = "dirad" THEN "swap_dirad" ELSE "swap_dira"
AfterSwap(b) == IF b = "dirad" THEN "swap_dira" ELSE "verify"
Aside(b) == IF b = "dirad" THEN "dirad_aside" ELSE "dira_aside"
Swap(b) ==
  /\ Goes(SwapStep(b), AfterSwap(b))
  /\ disk' = [disk EXCEPT ![b] = Content(b)]
  /\ UNCHANGED <<bak, result>> /\ Around

\* What a restore leaves at a path; a failed swap restores only what it has
\* backed up itself, a rollback whatever backup there is.
RollsBack == step \in {"verify", "restart"}
Restored(b) ==
  IF bak[b] = 0 \/ (~RollsBack /\ run.before[b] = 0) THEN disk[b] ELSE bak[b]
RestoreAll == disk' = [b \in Binaries |-> Restored(b)]
RestoreSome(some) == disk' = [b \in Binaries |-> IF b \in some THEN Restored(b) ELSE disk[b]]
RestoresDirad == RestoreSome({"dirad"})
RestoresAll == RestoreAll
Restore ==
  \/ RestoresAll
  \/ "stuck" \in UpdateHazards /\ \E some \in SUBSET Binaries : RestoreSome(some)

SwapFails(b) ==
  /\ Ends(SwapStep(b), "error", "report")
  /\ Restore /\ UNCHANGED bak /\ Around
\* Windows: a path some process runs from is free only after a rename.
MoveAside(b) ==
  /\ disk[b] # 0 /\ Goes(SwapStep(b), Aside(b))
  /\ disk' = [disk EXCEPT ![b] = 0]
  /\ UNCHANGED <<bak, result>> /\ Around
SwapAside(b) ==
  /\ Goes(Aside(b), AfterSwap(b))
  /\ disk' = [disk EXCEPT ![b] = Content(b)]
  /\ UNCHANGED <<bak, result>> /\ Around

\* Retried for a moment; then the old file goes back, and both are restored.
SwapAsideFails(b) ==
  /\ Ends(Aside(b), "error", "report")
  /\ Restore /\ UNCHANGED bak /\ Around

\* Only `dira` is asked, and it has to answer exactly the version resolved.
Verified == disk["dira"] = run.target
Verify ==
  /\ Verified /\ Goes("verify", IF run.restart THEN "restart" ELSE "clean")
  /\ Files /\ UNCHANGED result /\ Around
RollBack ==
  /\ ~Verified /\ Ends("verify", "error", "report")
  /\ Restore /\ UNCHANGED bak /\ Around

\* daemon::restart, and whether a daemon answers within ten seconds.
StillTheOld == {running}
Started == IF "other_dir" \in UpdateHazards THEN {1, disk["dirad"]} ELSE {disk["dirad"]}
RestartOk ==
  /\ Goes("restart", "clean")
  /\ running' \in (IF running = 0 THEN {0} ELSE Started)
  /\ Files /\ UNCHANGED <<result, run, cache, check, runs, failed>>
\* It does not: the old one refuses to go, or nothing is left; back to the old
\* binaries, with no second restart.
RestartFails ==
  /\ running # 0 /\ Ends("restart", "error", "report")
  /\ running' \in {running, 0}
                   \cup (IF "late_start" \in UpdateHazards THEN Started ELSE {})
  /\ Restore /\ UNCHANGED <<bak, run, cache, check, runs, failed>>

DropBackups ==
  /\ Goes("clean", "report") /\ bak' = [b \in Binaries |-> 0]
  /\ UNCHANGED <<disk, result>> /\ Around

\* run: only an unpinned attempt is counted, and a refusal is not.
CountedAlways(n) == IF result = "ok" THEN 0 ELSE n + 1
Counted(n) ==
  IF run.pinned \/ result = "refused" THEN n
  ELSE IF result = "ok" THEN 0 ELSE n + 1
Report ==
  /\ Goes("report", "idle")
  /\ cache' = [cache EXCEPT !.failures = Counted(cache.failures)]
  /\ failed' = (IF run.pinned \/ result = "refused" THEN failed
                ELSE IF result = "ok" THEN 0 ELSE failed + 1)
  /\ run' = NoRun /\ UNCHANGED <<result, running, check, runs>> /\ Files
UpdateKilled ==
  /\ "locked" \in UpdateHazards \/ step \notin {Aside(b) : b \in Binaries}
  /\ step # "idle" /\ step' = "idle" /\ run' = NoRun
  /\ UNCHANGED <<result, running, cache, check, runs, failed>> /\ Files

\* maybe_print's sentinel and the detached check it spawns: read, edit, rename.
Sentinel == [failures |-> cache.failures, latest |-> 0]
CheckStarts ==
  /\ check = Away /\ runs < MaxRuns
  /\ cache' = Sentinel /\ check' = Sentinel
  /\ UNCHANGED <<disk, bak, running, step, run, result, runs, failed>>
CheckRecords(latest) ==
  /\ check # Away /\ check' = Away
  /\ \/ cache' = [cache EXCEPT !.latest = latest]
     \/ "racing_check" \in UpdateHazards /\ cache' = [check EXCEPT !.latest = latest]
  /\ UNCHANGED <<disk, bak, running, step, run, result, runs, failed>>

UpdateNext ==
  \/ \E t, c \in Versions \ {0}, r, p \in BOOLEAN : UpdateStarts(t, c, r, p)
  \/ Download \/ DownloadFails \/ Backup \/ \E b \in Binaries : BackupFails(b)
  \/ \E b \in Binaries : Swap(b) \/ SwapFails(b) \/ MoveAside(b) \/ SwapAside(b) \/ SwapAsideFails(b)
  \/ Verify \/ RollBack \/ RestartOk \/ RestartFails \/ DropBackups \/ Report \/ UpdateKilled
  \/ CheckStarts \/ \E l \in Versions : CheckRecords(l)

UpdateSpec == UpdateInit /\ [][UpdateNext]_updateVars

--------------------------------------------------------------------------------
\* Whatever fails and whenever the update is killed, there is a dira and a dirad
\* to run, but for the moment in which Windows moves one aside; and an update
\* that returns has replaced both or neither.
NeverMissing == \A b \in Binaries : disk[b] = 0 => step = Aside(b)
AllOrNothing ==
  step = "report" =>
    disk = IF result = "ok" THEN [b \in Binaries |-> run.target] ELSE run.before
BothOrNeither == NeverMissing /\ AllOrNothing

\* The daemon an update leaves running is the one that is installed, if the one
\* it found was.
RunsWhatIsInstalled ==
  step = "report" /\ (run.restart \/ result # "ok") /\ run.alive = run.before["dirad"]
  => running \in {0, disk["dirad"]}

\* The notice changes its advice after Escalate attempts that really failed in a
\* row, never later and never for one that was refused or pinned.
EscalatesOnTime == (cache.failures >= Escalate) <=> (failed >= Escalate)

================================================================================
