------------------------- MODULE KeyRotationProofs -------------------------
(***************************************************************************)
(* The device is never left without the key the cloud accepts, for any     *)
(* number of rotations: when runs of the command do not overlap and none   *)
(* generates a key while the daemon recovers.                              *)
(***************************************************************************)
EXTENDS KeyRotation, TLAPS

Undisturbed == Hazards = {}

Alone == \A q, r \in Runs : pc[q] # "off" /\ pc[r] # "off" => q = r

\* Keys in use were generated before the next one is.
Counted ==
  /\ live <= made
  /\ secret # None => secret <= made
  /\ \A r \in Runs : new[r] <= made

\* What a run knows at each step: while it persists a new key the active key is
\* the live one and the daemon promotes nothing; once persisted its key is the
\* pending one, until the daemon has installed it; it installs only the live key
\* and clears only when the active key is the live one.
RunKnows(r) ==
  /\ pc[r] \in {"persist", "mark", "probe", "post", "reprobe"} => at[r] # 0
  /\ pc[r] = "persist" =>
       /\ Pending = None /\ live = active /\ new[r] # live
       /\ dpc \in {"idle", "rejected", "reload"}
  /\ pc[r] = "mark" =>
       /\ secret = new[r] /\ live = active /\ new[r] # live
       /\ dpc \in {"idle", "rejected", "reload", "try"}
  /\ pc[r] \in {"probe", "post", "reprobe"} =>
       \/ Pending = new[r]
       \/ Pending = None /\ active = live /\ new[r] = live
  /\ pc[r] = "promote" => new[r] = live /\ Pending \in {None, new[r]}
  /\ pc[r] = "install" => inst[r] = live
  /\ pc[r] \in {"clear", "unmark"} => live = active

\* What the daemon's recovery knows: the key it tries is the pending one, and the
\* one a run works on, for as long as there is one; it promotes only the live
\* key and clears only when that is active.
Proven == {"promote", "install", "clear", "unmark"}
DaemonKnows ==
  /\ dpc \in Proven \cup {"try"} =>
       /\ inst["daemon"] # None
       /\ Pending \in {None, inst["daemon"]}
       /\ \A r \in Runs : pc[r] \in {"mark", "probe", "post", "reprobe", "promote"}
                            => new[r] = inst["daemon"]
  /\ dpc \in Proven => inst["daemon"] = live
  /\ dpc \in {"clear", "unmark"} => active = live

RInv == /\ TypeOK /\ Alone /\ Counted /\ NeverBricked
        /\ (\A r \in Runs : RunKnows(r)) /\ DaemonKnows

-----------------------------------------------------------------------------
(* The invariant holds initially and every action keeps it. *)

LEMMA RInvInit == Init => RInv
BY KeyRotationAssumption, SMT
   DEF Init, RInv, TypeOK, Alone, Counted, NeverBricked, RunKnows, DaemonKnows,
       Pending, KeyId, Slot, None, Tail, Proven

LEMMA StartKeeps == ASSUME Undisturbed, RInv, NEW r \in Runs, Start(r) PROVE RInv'
<1> USE KeyRotationAssumption DEF RInv, Start, Goto, PromoteLoad, Install, ClearSecret, ClearStamp, disk, cloud, daemon, run, Undisturbed
<1>1. TypeOK'
  BY SMT DEF TypeOK, KeyId, Slot, None, Tail, Pending, DaemonKnows, RunKnows
<1>2. Alone'
  BY SMT DEF TypeOK, Alone
<1>3. Counted'
  BY SMT DEF TypeOK, Counted, KeyId, Slot, None, Pending
<1>4. NeverBricked'
  BY SMT DEF TypeOK, NeverBricked, RunKnows, KeyId, Slot, None, Pending, DaemonKnows
<1>5. ASSUME NEW q \in Runs PROVE RunKnows(q)'
  BY SMT DEF TypeOK, NeverBricked, RunKnows, KeyId, Slot, None, Pending, DaemonKnows, Alone, Counted, Proven
<1>6. DaemonKnows'
  BY SMT DEF TypeOK, NeverBricked, RunKnows, KeyId, Slot, None, Pending, DaemonKnows, Alone, Counted, Proven
<1> QED BY <1>1, <1>2, <1>3, <1>4, <1>5, <1>6

LEMMA ResumeKeeps == ASSUME Undisturbed, RInv, NEW r \in Runs, Resume(r) PROVE RInv'
<1> USE KeyRotationAssumption DEF RInv, Resume, Goto, PromoteLoad, Install, ClearSecret, ClearStamp, disk, cloud, daemon, run, Undisturbed
<1>1. TypeOK'
  BY SMT DEF TypeOK, KeyId, Slot, None, Tail, Pending, DaemonKnows, RunKnows
<1>2. Alone'
  BY SMT DEF TypeOK, Alone
<1>3. Counted'
  BY SMT DEF TypeOK, Counted, KeyId, Slot, None, Pending
<1>4. NeverBricked'
  BY SMT DEF TypeOK, NeverBricked, RunKnows, KeyId, Slot, None, Pending, DaemonKnows
<1>5. ASSUME NEW q \in Runs PROVE RunKnows(q)'
  BY SMT DEF TypeOK, NeverBricked, RunKnows, KeyId, Slot, None, Pending, DaemonKnows, Alone, Counted, Proven
<1>6. DaemonKnows'
  BY SMT DEF TypeOK, NeverBricked, RunKnows, KeyId, Slot, None, Pending, DaemonKnows, Alone, Counted, Proven
<1> QED BY <1>1, <1>2, <1>3, <1>4, <1>5, <1>6

LEMMA PersistSecretKeeps == ASSUME Undisturbed, RInv, NEW r \in Runs, PersistSecret(r) PROVE RInv'
<1> USE KeyRotationAssumption DEF RInv, PersistSecret, Goto, PromoteLoad, Install, ClearSecret, ClearStamp, disk, cloud, daemon, run, Undisturbed
<1>1. TypeOK'
  BY SMT DEF TypeOK, KeyId, Slot, None, Tail, Pending, DaemonKnows, RunKnows
<1>2. Alone'
  BY SMT DEF TypeOK, Alone
<1>3. Counted'
  BY SMT DEF TypeOK, Counted, KeyId, Slot, None, Pending
<1>4. NeverBricked'
  BY SMT DEF TypeOK, NeverBricked, RunKnows, KeyId, Slot, None, Pending, DaemonKnows
<1>5. ASSUME NEW q \in Runs PROVE RunKnows(q)'
  BY SMT DEF TypeOK, NeverBricked, RunKnows, KeyId, Slot, None, Pending, DaemonKnows, Alone, Counted, Proven
<1>6. DaemonKnows'
  BY SMT DEF TypeOK, NeverBricked, RunKnows, KeyId, Slot, None, Pending, DaemonKnows, Alone, Counted, Proven
<1> QED BY <1>1, <1>2, <1>3, <1>4, <1>5, <1>6

LEMMA PersistStampKeeps == ASSUME Undisturbed, RInv, NEW r \in Runs, PersistStamp(r) PROVE RInv'
<1> USE KeyRotationAssumption DEF RInv, PersistStamp, Goto, PromoteLoad, Install, ClearSecret, ClearStamp, disk, cloud, daemon, run, Undisturbed
<1>1. TypeOK'
  BY SMT DEF TypeOK, KeyId, Slot, None, Tail, Pending, DaemonKnows, RunKnows
<1>2. Alone'
  BY SMT DEF TypeOK, Alone
<1>3. Counted'
  BY SMT DEF TypeOK, Counted, KeyId, Slot, None, Pending
<1>4. NeverBricked'
  BY SMT DEF TypeOK, NeverBricked, RunKnows, KeyId, Slot, None, Pending, DaemonKnows
<1>5. ASSUME NEW q \in Runs PROVE RunKnows(q)'
  BY SMT DEF TypeOK, NeverBricked, RunKnows, KeyId, Slot, None, Pending, DaemonKnows, Alone, Counted, Proven
<1>6. DaemonKnows'
  BY SMT DEF TypeOK, NeverBricked, RunKnows, KeyId, Slot, None, Pending, DaemonKnows, Alone, Counted, Proven
<1> QED BY <1>1, <1>2, <1>3, <1>4, <1>5, <1>6

LEMMA ProbeKeeps == ASSUME Undisturbed, RInv, NEW r \in Runs, Probe(r) PROVE RInv'
<1> USE KeyRotationAssumption DEF RInv, Probe, Goto, PromoteLoad, Install, ClearSecret, ClearStamp, disk, cloud, daemon, run, Undisturbed
<1>1. TypeOK'
  BY SMT DEF TypeOK, KeyId, Slot, None, Tail, Pending, DaemonKnows, RunKnows
<1>2. Alone'
  BY SMT DEF TypeOK, Alone
<1>3. Counted'
  BY SMT DEF TypeOK, Counted, KeyId, Slot, None, Pending
<1>4. NeverBricked'
  BY SMT DEF TypeOK, NeverBricked, RunKnows, KeyId, Slot, None, Pending, DaemonKnows
<1>5. ASSUME NEW q \in Runs PROVE RunKnows(q)'
  BY SMT DEF TypeOK, NeverBricked, RunKnows, KeyId, Slot, None, Pending, DaemonKnows, Alone, Counted, Proven
<1>6. DaemonKnows'
  BY SMT DEF TypeOK, NeverBricked, RunKnows, KeyId, Slot, None, Pending, DaemonKnows, Alone, Counted, Proven
<1> QED BY <1>1, <1>2, <1>3, <1>4, <1>5, <1>6

LEMMA PostAcceptedKeeps == ASSUME Undisturbed, RInv, NEW r \in Runs, PostAccepted(r) PROVE RInv'
<1> USE KeyRotationAssumption DEF RInv, PostAccepted, Goto, PromoteLoad, Install, ClearSecret, ClearStamp, disk, cloud, daemon, run, Undisturbed
<1>1. TypeOK'
  BY SMT DEF TypeOK, KeyId, Slot, None, Tail, Pending, DaemonKnows, RunKnows
<1>2. Alone'
  BY SMT DEF TypeOK, Alone
<1>3. Counted'
  BY SMT DEF TypeOK, Counted, KeyId, Slot, None, Pending
<1>4. NeverBricked'
  BY SMT DEF TypeOK, NeverBricked, RunKnows, KeyId, Slot, None, Pending, DaemonKnows
<1>5. ASSUME NEW q \in Runs PROVE RunKnows(q)'
  BY SMT DEF TypeOK, NeverBricked, RunKnows, KeyId, Slot, None, Pending, DaemonKnows, Alone, Counted, Proven
<1>6. DaemonKnows'
  BY SMT DEF TypeOK, NeverBricked, RunKnows, KeyId, Slot, None, Pending, DaemonKnows, Alone, Counted, Proven
<1> QED BY <1>1, <1>2, <1>3, <1>4, <1>5, <1>6

LEMMA PostRejectedKeeps == ASSUME Undisturbed, RInv, NEW r \in Runs, PostRejected(r) PROVE RInv'
<1> USE KeyRotationAssumption DEF RInv, PostRejected, Goto, PromoteLoad, Install, ClearSecret, ClearStamp, disk, cloud, daemon, run, Undisturbed
<1>1. TypeOK'
  BY SMT DEF TypeOK, KeyId, Slot, None, Tail, Pending, DaemonKnows, RunKnows
<1>2. Alone'
  BY SMT DEF TypeOK, Alone
<1>3. Counted'
  BY SMT DEF TypeOK, Counted, KeyId, Slot, None, Pending
<1>4. NeverBricked'
  BY SMT DEF TypeOK, NeverBricked, RunKnows, KeyId, Slot, None, Pending, DaemonKnows
<1>5. ASSUME NEW q \in Runs PROVE RunKnows(q)'
  BY SMT DEF TypeOK, NeverBricked, RunKnows, KeyId, Slot, None, Pending, DaemonKnows, Alone, Counted, Proven
<1>6. DaemonKnows'
  BY SMT DEF TypeOK, NeverBricked, RunKnows, KeyId, Slot, None, Pending, DaemonKnows, Alone, Counted, Proven
<1> QED BY <1>1, <1>2, <1>3, <1>4, <1>5, <1>6

LEMMA ReprobeKeeps == ASSUME Undisturbed, RInv, NEW r \in Runs, Reprobe(r) PROVE RInv'
<1> USE KeyRotationAssumption DEF RInv, Reprobe, Goto, PromoteLoad, Install, ClearSecret, ClearStamp, disk, cloud, daemon, run, Undisturbed
<1>1. TypeOK'
  BY SMT DEF TypeOK, KeyId, Slot, None, Tail, Pending, DaemonKnows, RunKnows
<1>2. Alone'
  BY SMT DEF TypeOK, Alone
<1>3. Counted'
  BY SMT DEF TypeOK, Counted, KeyId, Slot, None, Pending
<1>4. NeverBricked'
  BY SMT DEF TypeOK, NeverBricked, RunKnows, KeyId, Slot, None, Pending, DaemonKnows
<1>5. ASSUME NEW q \in Runs PROVE RunKnows(q)'
  BY SMT DEF TypeOK, NeverBricked, RunKnows, KeyId, Slot, None, Pending, DaemonKnows, Alone, Counted, Proven
<1>6. DaemonKnows'
  BY SMT DEF TypeOK, NeverBricked, RunKnows, KeyId, Slot, None, Pending, DaemonKnows, Alone, Counted, Proven
<1> QED BY <1>1, <1>2, <1>3, <1>4, <1>5, <1>6

LEMMA QuitKeeps == ASSUME Undisturbed, RInv, NEW r \in Runs, Quit(r) PROVE RInv'
<1> USE KeyRotationAssumption DEF RInv, Quit, Goto, PromoteLoad, Install, ClearSecret, ClearStamp, disk, cloud, daemon, run, Undisturbed
<1>1. TypeOK'
  BY SMT DEF TypeOK, KeyId, Slot, None, Tail, Pending, DaemonKnows, RunKnows
<1>2. Alone'
  BY SMT DEF TypeOK, Alone
<1>3. Counted'
  BY SMT DEF TypeOK, Counted, KeyId, Slot, None, Pending
<1>4. NeverBricked'
  BY SMT DEF TypeOK, NeverBricked, RunKnows, KeyId, Slot, None, Pending, DaemonKnows
<1>5. ASSUME NEW q \in Runs PROVE RunKnows(q)'
  BY SMT DEF TypeOK, NeverBricked, RunKnows, KeyId, Slot, None, Pending, DaemonKnows, Alone, Counted, Proven
<1>6. DaemonKnows'
  BY SMT DEF TypeOK, NeverBricked, RunKnows, KeyId, Slot, None, Pending, DaemonKnows, Alone, Counted, Proven
<1> QED BY <1>1, <1>2, <1>3, <1>4, <1>5, <1>6

LEMMA RunPromoteKeeps == ASSUME Undisturbed, RInv, NEW r \in Runs, RunPromote(r) PROVE RInv'
<1> USE KeyRotationAssumption DEF RInv, RunPromote, Goto, PromoteLoad, Install, ClearSecret, ClearStamp, disk, cloud, daemon, run, Undisturbed
<1>1. TypeOK'
  BY SMT DEF TypeOK, KeyId, Slot, None, Tail, Pending, DaemonKnows, RunKnows
<1>2. Alone'
  BY SMT DEF TypeOK, Alone
<1>3. Counted'
  BY SMT DEF TypeOK, Counted, KeyId, Slot, None, Pending
<1>4. NeverBricked'
  BY SMT DEF TypeOK, NeverBricked, RunKnows, KeyId, Slot, None, Pending, DaemonKnows
<1>5. ASSUME NEW q \in Runs PROVE RunKnows(q)'
  BY SMT DEF TypeOK, NeverBricked, RunKnows, KeyId, Slot, None, Pending, DaemonKnows, Alone, Counted, Proven
<1>6. DaemonKnows'
  BY SMT DEF TypeOK, NeverBricked, RunKnows, KeyId, Slot, None, Pending, DaemonKnows, Alone, Counted, Proven
<1> QED BY <1>1, <1>2, <1>3, <1>4, <1>5, <1>6

LEMMA RunInstallKeeps == ASSUME Undisturbed, RInv, NEW r \in Runs, RunInstall(r) PROVE RInv'
<1> USE KeyRotationAssumption DEF RInv, RunInstall, Goto, PromoteLoad, Install, ClearSecret, ClearStamp, disk, cloud, daemon, run, Undisturbed
<1>1. TypeOK'
  BY SMT DEF TypeOK, KeyId, Slot, None, Tail, Pending, DaemonKnows, RunKnows
<1>2. Alone'
  BY SMT DEF TypeOK, Alone
<1>3. Counted'
  BY SMT DEF TypeOK, Counted, KeyId, Slot, None, Pending
<1>4. NeverBricked'
  BY SMT DEF TypeOK, NeverBricked, RunKnows, KeyId, Slot, None, Pending, DaemonKnows
<1>5. ASSUME NEW q \in Runs PROVE RunKnows(q)'
  BY SMT DEF TypeOK, NeverBricked, RunKnows, KeyId, Slot, None, Pending, DaemonKnows, Alone, Counted, Proven
<1>6. DaemonKnows'
  BY SMT DEF TypeOK, NeverBricked, RunKnows, KeyId, Slot, None, Pending, DaemonKnows, Alone, Counted, Proven
<1> QED BY <1>1, <1>2, <1>3, <1>4, <1>5, <1>6

LEMMA RunClearSecretKeeps == ASSUME Undisturbed, RInv, NEW r \in Runs, RunClearSecret(r) PROVE RInv'
<1> USE KeyRotationAssumption DEF RInv, RunClearSecret, Goto, PromoteLoad, Install, ClearSecret, ClearStamp, disk, cloud, daemon, run, Undisturbed
<1>1. TypeOK'
  BY SMT DEF TypeOK, KeyId, Slot, None, Tail, Pending, DaemonKnows, RunKnows
<1>2. Alone'
  BY SMT DEF TypeOK, Alone
<1>3. Counted'
  BY SMT DEF TypeOK, Counted, KeyId, Slot, None, Pending
<1>4. NeverBricked'
  BY SMT DEF TypeOK, NeverBricked, RunKnows, KeyId, Slot, None, Pending, DaemonKnows
<1>5. ASSUME NEW q \in Runs PROVE RunKnows(q)'
  BY SMT DEF TypeOK, NeverBricked, RunKnows, KeyId, Slot, None, Pending, DaemonKnows, Alone, Counted, Proven
<1>6. DaemonKnows'
  BY SMT DEF TypeOK, NeverBricked, RunKnows, KeyId, Slot, None, Pending, DaemonKnows, Alone, Counted, Proven
<1> QED BY <1>1, <1>2, <1>3, <1>4, <1>5, <1>6

LEMMA RunClearStampKeeps == ASSUME Undisturbed, RInv, NEW r \in Runs, RunClearStamp(r) PROVE RInv'
<1> USE KeyRotationAssumption DEF RInv, RunClearStamp, Goto, PromoteLoad, Install, ClearSecret, ClearStamp, disk, cloud, daemon, run, Undisturbed
<1>1. TypeOK'
  BY SMT DEF TypeOK, KeyId, Slot, None, Tail, Pending, DaemonKnows, RunKnows
<1>2. Alone'
  BY SMT DEF TypeOK, Alone
<1>3. Counted'
  BY SMT DEF TypeOK, Counted, KeyId, Slot, None, Pending
<1>4. NeverBricked'
  BY SMT DEF TypeOK, NeverBricked, RunKnows, KeyId, Slot, None, Pending, DaemonKnows
<1>5. ASSUME NEW q \in Runs PROVE RunKnows(q)'
  BY SMT DEF TypeOK, NeverBricked, RunKnows, KeyId, Slot, None, Pending, DaemonKnows, Alone, Counted, Proven
<1>6. DaemonKnows'
  BY SMT DEF TypeOK, NeverBricked, RunKnows, KeyId, Slot, None, Pending, DaemonKnows, Alone, Counted, Proven
<1> QED BY <1>1, <1>2, <1>3, <1>4, <1>5, <1>6

LEMMA DaemonLoadKeeps == ASSUME Undisturbed, RInv, DaemonLoad PROVE RInv'
<1> USE KeyRotationAssumption DEF RInv, DaemonLoad, Dgoto, PromoteLoad, Install, ClearSecret, ClearStamp, disk, cloud, run, Undisturbed
<1>1. TypeOK'
  BY SMT DEF TypeOK, KeyId, Slot, None, Tail, Pending, DaemonKnows, RunKnows, Proven
<1>2. Alone' /\ Counted'
  BY SMT DEF TypeOK, Alone, Counted, KeyId, Slot, None, Pending, DaemonKnows, Proven
<1>3. NeverBricked'
  BY SMT DEF TypeOK, NeverBricked, RunKnows, KeyId, Slot, None, Pending, DaemonKnows, Proven
<1>4. ASSUME NEW q \in Runs PROVE RunKnows(q)'
  BY SMT DEF TypeOK, NeverBricked, RunKnows, KeyId, Slot, None, Pending, DaemonKnows, Alone, Counted, Proven
<1>5. DaemonKnows'
  BY SMT DEF TypeOK, NeverBricked, RunKnows, KeyId, Slot, None, Pending, DaemonKnows, Alone, Counted, Proven
<1> QED BY <1>1, <1>2, <1>3, <1>4, <1>5

LEMMA FlushRejectedKeeps == ASSUME Undisturbed, RInv, FlushRejected PROVE RInv'
<1> USE KeyRotationAssumption DEF RInv, FlushRejected, Dgoto, PromoteLoad, Install, ClearSecret, ClearStamp, disk, cloud, run, Undisturbed
<1>1. TypeOK'
  BY SMT DEF TypeOK, KeyId, Slot, None, Tail, Pending, DaemonKnows, RunKnows, Proven
<1>2. Alone' /\ Counted'
  BY SMT DEF TypeOK, Alone, Counted, KeyId, Slot, None, Pending, DaemonKnows, Proven
<1>3. NeverBricked'
  BY SMT DEF TypeOK, NeverBricked, RunKnows, KeyId, Slot, None, Pending, DaemonKnows, Proven
<1>4. ASSUME NEW q \in Runs PROVE RunKnows(q)'
  BY SMT DEF TypeOK, NeverBricked, RunKnows, KeyId, Slot, None, Pending, DaemonKnows, Alone, Counted, Proven
<1>5. DaemonKnows'
  BY SMT DEF TypeOK, NeverBricked, RunKnows, KeyId, Slot, None, Pending, DaemonKnows, Alone, Counted, Proven
<1> QED BY <1>1, <1>2, <1>3, <1>4, <1>5

LEMMA TryPendingKeeps == ASSUME Undisturbed, RInv, TryPending PROVE RInv'
<1> USE KeyRotationAssumption DEF RInv, TryPending, Dgoto, PromoteLoad, Install, ClearSecret, ClearStamp, disk, cloud, run, Undisturbed
<1>1. TypeOK'
  BY SMT DEF TypeOK, KeyId, Slot, None, Tail, Pending, DaemonKnows, RunKnows, Proven
<1>2. Alone' /\ Counted'
  BY SMT DEF TypeOK, Alone, Counted, KeyId, Slot, None, Pending, DaemonKnows, Proven
<1>3. NeverBricked'
  BY SMT DEF TypeOK, NeverBricked, RunKnows, KeyId, Slot, None, Pending, DaemonKnows, Proven
<1>4. ASSUME NEW q \in Runs PROVE RunKnows(q)'
  <2>1. RunKnows(q)
    BY DEF RInv
  <2>2. /\ Pending' = Pending
        /\ dpc' = (IF Pending = None THEN "reload" ELSE "try")
        /\ pc[q] \in {"install"} => inst'[q] = inst[q]
        /\ UNCHANGED <<pc, at, new, live, active, secret>>
    BY SMT DEF TypeOK, Pending
  <2> QED BY <2>1, <2>2, SMT DEF RunKnows
<1>5. DaemonKnows'
  BY SMT DEF TypeOK, NeverBricked, RunKnows, KeyId, Slot, None, Pending, DaemonKnows, Alone, Counted, Proven
<1> QED BY <1>1, <1>2, <1>3, <1>4, <1>5

LEMMA TryFlushKeeps == ASSUME Undisturbed, RInv, TryFlush PROVE RInv'
<1> USE KeyRotationAssumption DEF RInv, TryFlush, Dgoto, PromoteLoad, Install, ClearSecret, ClearStamp, disk, cloud, run, Undisturbed
<1>1. TypeOK'
  BY SMT DEF TypeOK, KeyId, Slot, None, Tail, Pending, DaemonKnows, RunKnows, Proven
<1>2. Alone' /\ Counted'
  BY SMT DEF TypeOK, Alone, Counted, KeyId, Slot, None, Pending, DaemonKnows, Proven
<1>3. NeverBricked'
  BY SMT DEF TypeOK, NeverBricked, RunKnows, KeyId, Slot, None, Pending, DaemonKnows, Proven
<1>4. ASSUME NEW q \in Runs PROVE RunKnows(q)'
  BY SMT DEF TypeOK, NeverBricked, RunKnows, KeyId, Slot, None, Pending, DaemonKnows, Alone, Counted, Proven
<1>5. DaemonKnows'
  BY SMT DEF TypeOK, NeverBricked, RunKnows, KeyId, Slot, None, Pending, DaemonKnows, Alone, Counted, Proven
<1> QED BY <1>1, <1>2, <1>3, <1>4, <1>5

LEMMA DaemonPromoteKeeps == ASSUME Undisturbed, RInv, DaemonPromote PROVE RInv'
<1> USE KeyRotationAssumption DEF RInv, DaemonPromote, Dgoto, PromoteLoad, Install, ClearSecret, ClearStamp, disk, cloud, run, Undisturbed
<1>1. TypeOK'
  BY SMT DEF TypeOK, KeyId, Slot, None, Tail, Pending, DaemonKnows, RunKnows, Proven
<1>2. Alone' /\ Counted'
  BY SMT DEF TypeOK, Alone, Counted, KeyId, Slot, None, Pending, DaemonKnows, Proven
<1>3. NeverBricked'
  BY SMT DEF TypeOK, NeverBricked, RunKnows, KeyId, Slot, None, Pending, DaemonKnows, Proven
<1>4. ASSUME NEW q \in Runs PROVE RunKnows(q)'
  BY SMT DEF TypeOK, NeverBricked, RunKnows, KeyId, Slot, None, Pending, DaemonKnows, Alone, Counted, Proven
<1>5. DaemonKnows'
  BY SMT DEF TypeOK, NeverBricked, RunKnows, KeyId, Slot, None, Pending, DaemonKnows, Alone, Counted, Proven
<1> QED BY <1>1, <1>2, <1>3, <1>4, <1>5

LEMMA DaemonInstallKeeps == ASSUME Undisturbed, RInv, DaemonInstall PROVE RInv'
<1> USE KeyRotationAssumption DEF RInv, DaemonInstall, Dgoto, PromoteLoad, Install, ClearSecret, ClearStamp, disk, cloud, run, Undisturbed
<1>1. TypeOK'
  BY SMT DEF TypeOK, KeyId, Slot, None, Tail, Pending, DaemonKnows, RunKnows, Proven
<1>2. Alone' /\ Counted'
  BY SMT DEF TypeOK, Alone, Counted, KeyId, Slot, None, Pending, DaemonKnows, Proven
<1>3. NeverBricked'
  BY SMT DEF TypeOK, NeverBricked, RunKnows, KeyId, Slot, None, Pending, DaemonKnows, Proven
<1>4. ASSUME NEW q \in Runs PROVE RunKnows(q)'
  BY SMT DEF TypeOK, NeverBricked, RunKnows, KeyId, Slot, None, Pending, DaemonKnows, Alone, Counted, Proven
<1>5. DaemonKnows'
  BY SMT DEF TypeOK, NeverBricked, RunKnows, KeyId, Slot, None, Pending, DaemonKnows, Alone, Counted, Proven
<1> QED BY <1>1, <1>2, <1>3, <1>4, <1>5

LEMMA DaemonClearSecretKeeps == ASSUME Undisturbed, RInv, DaemonClearSecret PROVE RInv'
<1> USE KeyRotationAssumption DEF RInv, DaemonClearSecret, Dgoto, PromoteLoad, Install, ClearSecret, ClearStamp, disk, cloud, run, Undisturbed
<1>1. TypeOK'
  BY SMT DEF TypeOK, KeyId, Slot, None, Tail, Pending, DaemonKnows, RunKnows, Proven
<1>2. Alone' /\ Counted'
  BY SMT DEF TypeOK, Alone, Counted, KeyId, Slot, None, Pending, DaemonKnows, Proven
<1>3. NeverBricked'
  BY SMT DEF TypeOK, NeverBricked, RunKnows, KeyId, Slot, None, Pending, DaemonKnows, Proven
<1>4. ASSUME NEW q \in Runs PROVE RunKnows(q)'
  BY SMT DEF TypeOK, NeverBricked, RunKnows, KeyId, Slot, None, Pending, DaemonKnows, Alone, Counted, Proven
<1>5. DaemonKnows'
  BY SMT DEF TypeOK, NeverBricked, RunKnows, KeyId, Slot, None, Pending, DaemonKnows, Alone, Counted, Proven
<1> QED BY <1>1, <1>2, <1>3, <1>4, <1>5

LEMMA DaemonClearStampKeeps == ASSUME Undisturbed, RInv, DaemonClearStamp PROVE RInv'
<1> USE KeyRotationAssumption DEF RInv, DaemonClearStamp, Dgoto, PromoteLoad, Install, ClearSecret, ClearStamp, disk, cloud, run, Undisturbed
<1>1. TypeOK'
  BY SMT DEF TypeOK, KeyId, Slot, None, Tail, Pending, DaemonKnows, RunKnows, Proven
<1>2. Alone' /\ Counted'
  BY SMT DEF TypeOK, Alone, Counted, KeyId, Slot, None, Pending, DaemonKnows, Proven
<1>3. NeverBricked'
  BY SMT DEF TypeOK, NeverBricked, RunKnows, KeyId, Slot, None, Pending, DaemonKnows, Proven
<1>4. ASSUME NEW q \in Runs PROVE RunKnows(q)'
  BY SMT DEF TypeOK, NeverBricked, RunKnows, KeyId, Slot, None, Pending, DaemonKnows, Alone, Counted, Proven
<1>5. DaemonKnows'
  BY SMT DEF TypeOK, NeverBricked, RunKnows, KeyId, Slot, None, Pending, DaemonKnows, Alone, Counted, Proven
<1> QED BY <1>1, <1>2, <1>3, <1>4, <1>5

LEMMA ReloadKeeps == ASSUME Undisturbed, RInv, Reload PROVE RInv'
<1> USE KeyRotationAssumption DEF RInv, Reload, Dgoto, PromoteLoad, Install, ClearSecret, ClearStamp, disk, cloud, run, Undisturbed
<1>1. TypeOK'
  BY SMT DEF TypeOK, KeyId, Slot, None, Tail, Pending, DaemonKnows, RunKnows, Proven
<1>2. Alone' /\ Counted'
  BY SMT DEF TypeOK, Alone, Counted, KeyId, Slot, None, Pending, DaemonKnows, Proven
<1>3. NeverBricked'
  BY SMT DEF TypeOK, NeverBricked, RunKnows, KeyId, Slot, None, Pending, DaemonKnows, Proven
<1>4. ASSUME NEW q \in Runs PROVE RunKnows(q)'
  BY SMT DEF TypeOK, NeverBricked, RunKnows, KeyId, Slot, None, Pending, DaemonKnows, Alone, Counted, Proven
<1>5. DaemonKnows'
  BY SMT DEF TypeOK, NeverBricked, RunKnows, KeyId, Slot, None, Pending, DaemonKnows, Alone, Counted, Proven
<1> QED BY <1>1, <1>2, <1>3, <1>4, <1>5

LEMMA DaemonCrashKeeps == ASSUME Undisturbed, RInv, DaemonCrash PROVE RInv'
<1> USE KeyRotationAssumption DEF RInv, DaemonCrash, Dgoto, PromoteLoad, Install, ClearSecret, ClearStamp, disk, cloud, run, Undisturbed
<1>1. TypeOK'
  BY SMT DEF TypeOK, KeyId, Slot, None, Tail, Pending, DaemonKnows, RunKnows, Proven
<1>2. Alone' /\ Counted'
  BY SMT DEF TypeOK, Alone, Counted, KeyId, Slot, None, Pending, DaemonKnows, Proven
<1>3. NeverBricked'
  BY SMT DEF TypeOK, NeverBricked, RunKnows, KeyId, Slot, None, Pending, DaemonKnows, Proven
<1>4. ASSUME NEW q \in Runs PROVE RunKnows(q)'
  BY SMT DEF TypeOK, NeverBricked, RunKnows, KeyId, Slot, None, Pending, DaemonKnows, Alone, Counted, Proven
<1>5. DaemonKnows'
  BY SMT DEF TypeOK, NeverBricked, RunKnows, KeyId, Slot, None, Pending, DaemonKnows, Alone, Counted, Proven
<1> QED BY <1>1, <1>2, <1>3, <1>4, <1>5

-----------------------------------------------------------------------------
LEMMA RInvStep == ASSUME Undisturbed, RInv, [Next]_vars PROVE RInv'
<1>1. ASSUME NEW r \in Runs, Command(r) PROVE RInv'
  BY <1>1, StartKeeps, ResumeKeeps, PersistSecretKeeps, PersistStampKeeps,
     ProbeKeeps, PostAcceptedKeeps, PostRejectedKeeps, ReprobeKeeps, QuitKeeps,
     RunPromoteKeeps, RunInstallKeeps, RunClearSecretKeeps, RunClearStampKeeps
     DEF Command
<1>2. CASE Daemon \/ DaemonCrash
  BY <1>2, DaemonLoadKeeps, FlushRejectedKeeps, TryPendingKeeps, TryFlushKeeps,
     ReloadKeeps, DaemonPromoteKeeps, DaemonInstallKeeps,
     DaemonClearSecretKeeps, DaemonClearStampKeeps, DaemonCrashKeeps
     DEF Daemon
<1>3. CASE UNCHANGED vars
  BY <1>3, SMT
     DEF vars, disk, cloud, run, daemon, RInv, TypeOK, Alone, Counted,
         NeverBricked, RunKnows, DaemonKnows, Pending
<1> QED BY <1>1, <1>2, <1>3 DEF Next

\* In every state, whichever process died or lost its answer in the rotation,
\* the cloud accepts the active key or the pending one that the device finds:
\* the Invariant rotate_key's comment states, for any number of rotations, while
\* runs of the command exclude each other and none begins a rotation while the
\* daemon is in a recovery.
THEOREM RotationNeverBricks == ASSUME Undisturbed PROVE Spec => []NeverBricked
<1>1. RInv /\ [Next]_vars => RInv'
  BY RInvStep
<1>2. RInv => NeverBricked
  BY DEF RInv
<1> QED BY RInvInit, <1>1, <1>2, PTL DEF Spec

\* The state keeps its types: a slot holds no key but a generated one, and every
\* step of a run and of the daemon is one of those listed.
THEOREM TypeCorrect == ASSUME Undisturbed PROVE Spec => []TypeOK
<1>1. RInv /\ [Next]_vars => RInv'
  BY RInvStep
<1>2. RInv => TypeOK
  BY DEF RInv
<1> QED BY RInvInit, <1>1, <1>2, PTL DEF Spec

=============================================================================
