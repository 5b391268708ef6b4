---------------------------- MODULE KeyRotation ----------------------------
(***************************************************************************)
(* `dira device rotate-key` and the daemon that signs with the device key  *)
(* meanwhile.  The command persists a new key as pending, asks the cloud   *)
(* to swap the registered key, and promotes the pending key once the cloud *)
(* is seen to have it; the daemon, whose cached key the cloud then rejects *)
(* at its next flush, tries the pending key and promotes it itself, or     *)
(* reloads the active one.  The two processes share the store and the      *)
(* keychain and no lock; both may die between any two writes, and any      *)
(* request or response may be lost.                                        *)
(*                                                                         *)
(* A key is a number, in the order of generation; the device starts linked *)
(* with key 0.  The stamp of a rotation is the number of keys generated so *)
(* far, which is the order its RFC 3339 time gives.  The active key's      *)
(* secret and public key are one variable (signing uses the secret alone), *)
(* and a secret's two possible places, keychain and meta, are one.  A      *)
(* device seeded from DIRA_DEVICE_SECRET is left out.                      *)
(*                                                                         *)
(* Hazards names what an instance admits beyond one run of the command at  *)
(* a time that generates a new key only when the daemon is in no recovery: *)
(*   "runs"      two runs of the command overlap                           *)
(*   "recovery"  a run generates a key while the daemon recovers           *)
(*   "emptied"   a rejected flush finds nothing left to send when retried  *)
(***************************************************************************)
EXTENDS Naturals

CONSTANTS
  Runs,      \* processes that run `dira device rotate-key`
  MaxKey,    \* bound: keys generated after key 0
  Hazards

ASSUME KeyRotationAssumption ==
  /\ "daemon" \notin Runs
  /\ MaxKey \in Nat
  /\ Hazards \subseteq {"runs", "recovery", "emptied"}

KeyId == 0 .. MaxKey
None == MaxKey + 1           \* no key
Slot == KeyId \cup {None}

VARIABLES
  active,   \* the active key
  secret,   \* KEYCHAIN_ACCOUNT_PENDING / META_PENDING_SECRET
  stamp,    \* META_PENDING_ROTATED_AT, 0 when blank
  made,     \* keys generated
  live,     \* the key registered at the cloud
  floor,    \* stamp of the cloud's last swap
  pc,       \* [Runs -> step of the command]
  old,      \* [Runs -> old_key]
  new,      \* [Runs -> pending_key]
  at,       \* [Runs -> rotated_at]
  cache,    \* the daemon's cached device key
  dpc,      \* step of the daemon's recovery
  inst      \* [Runs \cup {"daemon"} -> key promote_pending_key installs]

disk   == <<active, secret, stamp, made>>
cloud  == <<live, floor>>
run    == <<pc, old, new, at>>
daemon == <<cache, dpc>>
vars   == <<disk, cloud, run, daemon, inst>>

Tail == {"promote", "install", "clear", "unmark"}

TypeOK ==
  /\ active \in KeyId /\ live \in KeyId
  /\ secret \in Slot
  /\ stamp \in 0 .. MaxKey /\ made \in 0 .. MaxKey /\ floor \in 0 .. MaxKey
  /\ pc \in [Runs -> {"off", "resume", "persist", "mark", "probe", "post",
                      "reprobe"} \cup Tail]
  /\ old \in [Runs -> KeyId] /\ new \in [Runs -> KeyId]
  /\ at \in [Runs -> 0 .. MaxKey]
  /\ cache \in Slot
  /\ dpc \in {"idle", "rejected", "try", "reload"} \cup Tail
  /\ inst \in [Runs \cup {"daemon"} -> Slot]

Init ==
  /\ active = 0 /\ live = 0 /\ secret = None
  /\ stamp = 0 /\ made = 0 /\ floor = 0
  /\ pc = [r \in Runs |-> "off"]
  /\ old = [r \in Runs |-> 0] /\ new = [r \in Runs |-> 0]
  /\ at = [r \in Runs |-> 0]
  /\ cache = None /\ dpc = "idle"
  /\ inst = [p \in Runs \cup {"daemon"} |-> None]

\* load_pending_key: the stamp says whether a rotation is pending, the secret
\* is looked up after it.
Pending == IF stamp = 0 THEN None ELSE secret

-----------------------------------------------------------------------------
(* The command. *)

Goto(r, step) == pc' = [pc EXCEPT ![r] = step]

\* load_key.
Start(r) ==
  /\ pc[r] = "off"
  /\ "runs" \in Hazards \/ \A q \in Runs : pc[q] = "off"
  /\ old' = [old EXCEPT ![r] = active]
  /\ Goto(r, "resume")
  /\ UNCHANGED <<disk, cloud, new, at, daemon, inst>>

\* Resume the pending rotation, or generate a key for a new one.
Resume(r) ==
  /\ pc[r] = "resume"
  /\ IF Pending # None
     THEN /\ new' = [new EXCEPT ![r] = secret]
          /\ at' = [at EXCEPT ![r] = stamp]
          /\ Goto(r, "probe")
          /\ UNCHANGED made
     ELSE /\ "recovery" \in Hazards \/ dpc = "idle"
          /\ made < MaxKey
          /\ made' = made + 1
          /\ new' = [new EXCEPT ![r] = made + 1]
          /\ at' = [at EXCEPT ![r] = made + 1]
          /\ Goto(r, "persist")
  /\ UNCHANGED <<active, secret, stamp, cloud, old, daemon, inst>>

\* persist_pending_key: the secret, then the stamp that makes it count.
PersistSecret(r) ==
  /\ pc[r] = "persist"
  /\ secret' = new[r]
  /\ Goto(r, "mark")
  /\ UNCHANGED <<active, stamp, made, cloud, old, new, at, daemon, inst>>

PersistStamp(r) ==
  /\ pc[r] = "mark"
  /\ stamp' = at[r]
  /\ Goto(r, "probe")
  /\ UNCHANGED <<active, secret, made, cloud, old, new, at, daemon, inst>>

\* Does the cloud know the pending key already?  Anything but a 2xx goes on to
\* the POST.
Probe(r) ==
  /\ pc[r] = "probe"
  /\ \/ new[r] = live /\ Goto(r, "promote")
     \/ Goto(r, "post")
  /\ UNCHANGED <<disk, cloud, old, new, at, daemon, inst>>

\* The cloud swaps if the old key signs for it and the stamp is newer than the
\* last swap's; its 2xx may be lost.
PostAccepted(r) ==
  /\ pc[r] = "post"
  /\ old[r] = live /\ at[r] > floor
  /\ live' = new[r]
  /\ floor' = at[r]
  /\ \/ Goto(r, "promote")
     \/ Goto(r, "off")
  /\ UNCHANGED <<disk, old, new, at, daemon, inst>>

\* 409 stale_rotation or 401 bad_signature.
PostRejected(r) ==
  /\ pc[r] = "post"
  /\ old[r] # live \/ at[r] <= floor
  /\ Goto(r, "reprobe")
  /\ UNCHANGED <<disk, cloud, old, new, at, daemon, inst>>

\* The second probe promotes on a 2xx and discards on a typed bad_signature.
ReprobeDiscardsAmbiguous(r) ==
  /\ pc[r] = "reprobe"
  /\ \/ new[r] = live /\ Goto(r, "promote")
     \/ Goto(r, "clear")
  /\ UNCHANGED <<disk, cloud, old, new, at, daemon, inst>>
Reprobe(r) ==
  /\ pc[r] = "reprobe"
  /\ \/ new[r] = live /\ Goto(r, "promote")
     \/ new[r] # live /\ Goto(r, "clear")
  /\ UNCHANGED <<disk, cloud, old, new, at, daemon, inst>>

\* The command returns: an error, an ambiguous probe, a lost request, a kill.
Quit(r) ==
  /\ pc[r] # "off"
  /\ Goto(r, "off")
  /\ UNCHANGED <<disk, cloud, old, new, at, daemon, inst>>

-----------------------------------------------------------------------------
(* promote_pending_key and clear_pending_key, which a run and the daemon     *)
(* execute alike: load the pending key again, install it, clear its secret,  *)
(* clear its stamp.                                                          *)

PromoteLoadUnchecked(p, next, done) ==
  /\ next /\ inst' = [inst EXCEPT ![p] = secret]
  /\ UNCHANGED <<disk, cloud>>
PromoteLoad(p, next, done) ==
  /\ IF Pending = None
     THEN done /\ UNCHANGED inst
     ELSE next /\ inst' = [inst EXCEPT ![p] = secret]
  /\ UNCHANGED <<disk, cloud>>

Install(p) ==
  /\ active' = inst[p]
  /\ UNCHANGED <<secret, stamp, made, cloud, inst>>

ClearSecret ==
  /\ secret' = None
  /\ UNCHANGED <<active, stamp, made, cloud, inst>>

ClearStamp ==
  /\ stamp' = 0
  /\ UNCHANGED <<active, secret, made, cloud, inst>>

RunPromote(r) ==
  /\ pc[r] = "promote"
  /\ PromoteLoad(r, Goto(r, "install"), Goto(r, "off"))
  /\ UNCHANGED <<old, new, at, daemon>>

RunInstall(r) ==
  /\ pc[r] = "install" /\ Install(r) /\ Goto(r, "clear")
  /\ UNCHANGED <<old, new, at, daemon>>

RunClearSecret(r) ==
  /\ pc[r] = "clear" /\ ClearSecret /\ Goto(r, "unmark")
  /\ UNCHANGED <<old, new, at, daemon>>

RunClearStamp(r) ==
  /\ pc[r] = "unmark" /\ ClearStamp /\ Goto(r, "off")
  /\ UNCHANGED <<old, new, at, daemon>>

-----------------------------------------------------------------------------
(* The daemon. *)

Dgoto(step) == dpc' = step

\* device_key(): load on first use.
DaemonLoad ==
  /\ dpc = "idle" /\ cache = None
  /\ cache' = active
  /\ UNCHANGED <<disk, cloud, run, dpc, inst>>

\* A flush signed with the cached key meets a typed bad_signature.
FlushRejected ==
  /\ dpc = "idle" /\ cache # None /\ cache # live
  /\ Dgoto("rejected")
  /\ UNCHANGED <<disk, cloud, run, cache, inst>>

\* try_pending_key_flush: is a rotation pending?  The key it will flush with is
\* kept in inst["daemon"].
TryPending ==
  /\ dpc = "rejected"
  /\ IF Pending = None
     THEN Dgoto("reload") /\ UNCHANGED inst
     ELSE Dgoto("try") /\ inst' = [inst EXCEPT !["daemon"] = secret]
  /\ UNCHANGED <<disk, cloud, run, cache>>

\* Flush with the pending key.  A 2xx proves it; Nothing promotes it as well,
\* though nothing was POSTed.
TryFlush ==
  /\ dpc = "try"
  /\ \/ /\ inst["daemon"] = live \/ "emptied" \in Hazards
        /\ Dgoto("promote")
     \/ Dgoto("reload")
  /\ UNCHANGED <<disk, cloud, run, cache, inst>>

\* promote_pending_key reads the pending key again; then the cache is dropped.
DaemonPromote ==
  /\ dpc = "promote"
  /\ PromoteLoad("daemon", Dgoto("install") /\ cache' = cache,
                           Dgoto("idle") /\ cache' = None)
  /\ UNCHANGED run

DaemonInstall ==
  /\ dpc = "install" /\ Install("daemon") /\ Dgoto("clear")
  /\ UNCHANGED <<run, cache>>

DaemonClearSecret ==
  /\ dpc = "clear" /\ ClearSecret /\ Dgoto("unmark")
  /\ UNCHANGED <<run, cache>>

DaemonClearStamp ==
  /\ dpc = "unmark" /\ ClearStamp /\ Dgoto("idle") /\ cache' = None
  /\ UNCHANGED run

\* try_reloaded_key_flush: drop the cache and load the active key.
ReloadKeepsCache ==
  /\ dpc = "reload"
  /\ cache' = cache
  /\ Dgoto("idle")
  /\ UNCHANGED <<disk, cloud, run, inst>>
Reload ==
  /\ dpc = "reload"
  /\ cache' = active
  /\ Dgoto("idle")
  /\ UNCHANGED <<disk, cloud, run, inst>>

DaemonCrash ==
  /\ cache # None
  /\ cache' = None
  /\ Dgoto("idle")
  /\ UNCHANGED <<disk, cloud, run, inst>>

-----------------------------------------------------------------------------
Command(r) ==
  \/ Start(r) \/ Resume(r) \/ PersistSecret(r) \/ PersistStamp(r)
  \/ Probe(r) \/ PostAccepted(r) \/ PostRejected(r) \/ Reprobe(r) \/ Quit(r)
  \/ RunPromote(r) \/ RunInstall(r) \/ RunClearSecret(r) \/ RunClearStamp(r)

Daemon ==
  \/ DaemonLoad \/ FlushRejected \/ TryPending \/ TryFlush \/ Reload
  \/ DaemonPromote \/ DaemonInstall \/ DaemonClearSecret \/ DaemonClearStamp

Next == (\E r \in Runs : Command(r)) \/ Daemon \/ DaemonCrash

Spec == Init /\ [][Next]_vars

\* The daemon keeps flushing and is not killed in every recovery; a flush with
\* a live pending key sooner or later gets through.  Nobody need run the
\* command again.
Fairness ==
  /\ WF_vars(DaemonLoad) /\ SF_vars(FlushRejected)
  /\ SF_vars(TryPending) /\ SF_vars(TryFlush /\ dpc' = "promote")
  /\ SF_vars(TryFlush) /\ SF_vars(Reload)
  /\ SF_vars(DaemonPromote) /\ SF_vars(DaemonInstall)
  /\ SF_vars(DaemonClearSecret) /\ SF_vars(DaemonClearStamp)

LiveSpec == Spec /\ Fairness

-----------------------------------------------------------------------------
(* Properties. *)

\* At every crash point a key the device can still find, the active or the
\* pending one, is the key the cloud accepts (rotate_key's Invariant).
NeverBricked == live \in {active, Pending}

\* However the rotation was left, the daemon ends up signing with the key the
\* cloud accepts, without an operator and without a restart.
DaemonSelfHeals == []<>(cache = live)
=============================================================================
