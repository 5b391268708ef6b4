------------------------------- MODULE Lifecycle ------------------------------
(***************************************************************************)
(* Starting, stopping and restarting the daemon on unix: what dirad does   *)
(* from its first line to its last (lib.rs run, bind_control_socket) and   *)
(* what `dira daemon start`, `stop` and `restart` do from outside          *)
(* (daemon.rs), by the pidfile, the socket file and signals.               *)
(*                                                                         *)
(* A process is its pid; the socket file names the process that bound it,  *)
(* alive or not.  LifeHazards: "foreign" (dirad is also started by hand    *)
(* while a pidfile of an earlier daemon lies about), "slow_start" (it does *)
(* not answer within ten seconds), "two_terminals".                        *)
(***************************************************************************)
EXTENDS Naturals, FiniteSets

CONSTANTS MaxPid, MaxCommands, LifeHazards

VARIABLES
  proc,      \* pid -> where the process is
  asked,     \* pids that got a SIGTERM
  lock,      \* the pid that holds the flock, 0
  sock,      \* the pid whose listener the socket file is, 0: no file
  pidfile,   \* 0: none
  cli,       \* terminal -> the command it runs
  commands

lifeVars == <<proc, asked, lock, sock, pidfile, cli, commands>>

Pids == 1 .. MaxPid
Terminals == IF "two_terminals" \in LifeHazards THEN {1, 2} ELSE {1}
Stages == {"unborn", "lock", "probe", "bind", "open", "up", "beat", "unlink",
           "exit", "dead"}
Idle == [op |-> "none", step |-> "idle", pid |-> 0]

At(t, step) == cli[t].step = step

\* Where a process answers on the listener it has bound: from the accept loop
\* on until the socket file is gone; and where it has the database open, which
\* it does to its end.
Answering == {"up", "beat", "unlink"}
WithStore == {"open", "exit"} \cup Answering
Alive(p) == p # 0 /\ proc[p] \notin {"unborn", "dead"}
IsUp == sock # 0 /\ proc[sock] \in Answering

LifeTypeOK ==
  /\ proc \in [Pids -> Stages] /\ asked \subseteq Pids
  /\ {lock, sock, pidfile} \subseteq 0 .. MaxPid
  /\ cli \in [Terminals -> [op : {"none", "start", "stop", "restart"},
                            step : {"idle", "check", "wait", "kill", "force",
                                    "clean"},
                            pid : 0 .. MaxPid]]

LifeInit ==
  /\ proc = [p \in Pids |-> "unborn"] /\ asked = {} /\ lock = 0 /\ sock = 0
  /\ pidfile = 0 /\ cli = [t \in Terminals |-> Idle] /\ commands = 0

--------------------------------------------------------------------------------
(* dirad *)

Becomes(p, from, to) == proc[p] = from /\ proc' = [proc EXCEPT ![p] = to]
Outside == UNCHANGED <<asked, pidfile, cli, commands>>

FlockFree(p) == lock = 0
NoFlock(p) == TRUE
MayLock(p) == FlockFree(p)

Lock(p) ==
  /\ Becomes(p, "lock", "probe") /\ MayLock(p) /\ lock' = p
  /\ UNCHANGED sock /\ Outside
\* LOCK_NB: whoever does not get it ends.
Refused(p) ==
  /\ Becomes(p, "lock", "dead") /\ ~MayLock(p)
  /\ UNCHANGED <<lock, sock>> /\ Outside
\* The probe connects to whoever listens, also before the accept loop runs.
Probe(p) ==
  LET taken == sock # 0 /\ proc[sock] \in Answering \cup {"open"} IN
  /\ Becomes(p, "probe", IF taken THEN "dead" ELSE "bind")
  /\ lock' = (IF taken /\ lock = p THEN 0 ELSE lock)
  /\ UNCHANGED sock /\ Outside
\* The stale file is unlinked and the path bound.
Bind(p) ==
  /\ Becomes(p, "bind", "open") /\ sock' = p
  /\ UNCHANGED lock /\ Outside
\* Store::open migrates; then the other surfaces, hydrate and the tasks start.
OpenStore(p) ==
  /\ Becomes(p, "open", "up")
  /\ UNCHANGED <<lock, sock>> /\ Outside
\* The signals were installed first; they are looked at last.
Signalled(p) ==
  /\ p \in asked /\ Becomes(p, "up", "beat")
  /\ UNCHANGED <<lock, sock>> /\ Outside
\* The offline beat and the checkpoint, both bounded.
OfflineBeat(p) ==
  /\ Becomes(p, "beat", "unlink")
  /\ UNCHANGED <<lock, sock>> /\ Outside
Unlink(p) ==
  /\ Becomes(p, "unlink", "exit") /\ sock' = 0
  /\ UNCHANGED lock /\ Outside
Exit(p) ==
  /\ Becomes(p, "exit", "dead") /\ lock' = (IF lock = p THEN 0 ELSE lock)
  /\ UNCHANGED sock /\ Outside

\* A SIGKILL, a power cut, a panic: the kernel drops the lock, not the file.
Dies(p) ==
  /\ proc' = [proc EXCEPT ![p] = "dead"]
  /\ lock' = (IF lock = p THEN 0 ELSE lock)
Killed(p) ==
  /\ proc[p] = "up" /\ \A t \in Terminals : ~(At(t, "wait") /\ cli[t].pid = p)
  /\ commands < MaxCommands
  /\ commands' = commands + 1
  /\ Dies(p)
  /\ UNCHANGED <<asked, sock, pidfile, cli>>

Unborn == {p \in Pids : proc[p] = "unborn"}
NextPid == CHOOSE p \in Unborn : \A q \in Unborn : p <= q
Spawn == Unborn # {} /\ proc' = [proc EXCEPT ![NextPid] = "lock"]

\* A service manager's or a user's own start.
ForeignStart ==
  /\ \/ pidfile = 0 /\ \A t \in Terminals : cli[t] = Idle
     \/ "foreign" \in LifeHazards
  /\ commands < MaxCommands /\ commands' = commands + 1
  /\ Spawn
  /\ UNCHANGED <<asked, lock, sock, pidfile, cli>>

--------------------------------------------------------------------------------
(* dira daemon start, stop, restart *)

Run(t, op, step, p) == cli' = [cli EXCEPT ![t] = [op |-> op, step |-> step, pid |-> p]]
Done(t) == cli' = [cli EXCEPT ![t] = Idle]
Daemons == UNCHANGED <<proc, lock>>

\* A command meets a daemon that is still starting only in "slow_start".
Starting == \E p \in Pids : proc[p] \in {"lock", "probe", "bind", "open"}
Begin(t, op, step, p) ==
  /\ ~Starting \/ "slow_start" \in LifeHazards
  /\ At(t, "idle") /\ commands < MaxCommands /\ commands' = commands + 1
  /\ Run(t, op, step, p)
  /\ UNCHANGED <<asked, sock, pidfile>> /\ Daemons

StartCommand(t) == Begin(t, "start", "check", 0)
StopCommand(t) == pidfile # 0 /\ Begin(t, "stop", "kill", pidfile)
\* detect_supervision: a living pidfile process, else whoever answers.
RestartCommand(t) ==
  LET found == IF Alive(pidfile) THEN pidfile ELSE IF IsUp THEN sock ELSE 0 IN
  found # 0 /\ Begin(t, "restart", "kill", found)

\* start: nothing to do, or spawn a dirad and wait for an answer on the socket,
StartUp(t) ==
  /\ At(t, "check") /\ IsUp /\ Done(t)
  /\ UNCHANGED <<asked, sock, pidfile, commands>> /\ Daemons
StartSpawn(t) ==
  /\ At(t, "check") /\ ~IsUp /\ Spawn
  /\ Run(t, cli[t].op, "wait", NextPid)
  /\ UNCHANGED <<asked, lock, sock, pidfile, commands>>
\* whoever gives it: the pidfile gets the child's pid, as it does when the wait
\* is over without one.
StartAnswered(t) ==
  /\ At(t, "wait") /\ Done(t)
  /\ \/ IsUp
     \/ Alive(cli[t].pid) /\ proc[cli[t].pid] # "up" /\ "slow_start" \in LifeHazards
  /\ pidfile' = cli[t].pid
  /\ UNCHANGED <<asked, sock, commands>> /\ Daemons
StartFailed(t) ==
  /\ At(t, "wait") /\ ~IsUp /\ ~Alive(cli[t].pid) /\ Done(t)
  /\ UNCHANGED <<asked, sock, pidfile, commands>> /\ Daemons

Terminate(t) ==
  /\ At(t, "kill") /\ Run(t, cli[t].op, "force", cli[t].pid)
  /\ asked' = (IF Alive(cli[t].pid) THEN asked \cup {cli[t].pid} ELSE asked)
  /\ UNCHANGED <<sock, pidfile, commands>> /\ Daemons

\* stop waits for the process (graceful_then_force), restart's reap for silence
\* on the socket.
NoneWaited(t) == TRUE
ExitSeen(t) == IF cli[t].op = "stop" THEN ~Alive(cli[t].pid) ELSE ~IsUp
Waited(t) ==
  /\ At(t, "force") /\ ExitSeen(t) /\ Run(t, cli[t].op, "clean", cli[t].pid)
  /\ UNCHANGED <<asked, sock, pidfile, commands>> /\ Daemons
\* The grace period is over: SIGKILL.
ForceKill(t) ==
  /\ At(t, "force") /\ ~ExitSeen(t) /\ Run(t, cli[t].op, "clean", cli[t].pid)
  /\ IF Alive(cli[t].pid) THEN Dies(cli[t].pid) ELSE Daemons
  /\ UNCHANGED <<asked, sock, pidfile, commands>>

\* Both files are removed, whoever they belong to by now; restart goes on.
Clean(t) ==
  /\ At(t, "clean")
  /\ pidfile' = 0 /\ sock' = 0
  /\ IF cli[t].op = "stop" THEN Done(t) ELSE Run(t, cli[t].op, "check", 0)
  /\ UNCHANGED <<asked, commands>> /\ Daemons

Dirad ==
  \E p \in Pids :
    \/ Lock(p) \/ Refused(p) \/ Probe(p) \/ Bind(p) \/ OpenStore(p)
    \/ Signalled(p) \/ OfflineBeat(p) \/ Unlink(p) \/ Exit(p)
Command ==
  \E t \in Terminals :
    \/ StartUp(t) \/ StartSpawn(t) \/ StartAnswered(t) \/ StartFailed(t)
    \/ Terminate(t) \/ Waited(t) \/ ForceKill(t) \/ Clean(t)
LifeNext ==
  \/ Dirad \/ Command \/ ForeignStart
  \/ \E p \in Pids : Killed(p)
  \/ \E t \in Terminals : StartCommand(t) \/ StopCommand(t) \/ RestartCommand(t)

LifeSpec == LifeInit /\ [][LifeNext]_lifeVars

--------------------------------------------------------------------------------
\* No two daemons ever have the database open: neither after a crash that left
\* the socket file, nor while one replaces the other.
OneStore == Cardinality({p \in Pids : proc[p] \in WithStore}) <= 1

\* A daemon that serves can be reached: nobody takes the path from it or removes
\* the file it listens on.
Reachable == \A p \in Pids : proc[p] \in {"open", "up"} => sock = p

================================================================================
