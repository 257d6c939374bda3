-------------------------------- MODULE Daemon --------------------------------
(***************************************************************************)
(* `marq mcp --http --daemon` and `marq mcp stop` (cli/commands/mcp.py).   *)
(*                                                                         *)
(* The two commands and the daemon share a pid file, two files with what   *)
(* the daemons have printed, and a port.  Nothing locks any of them: each  *)
(* step below is a system call, and other commands, the end of a daemon or *)
(* a pid that is given out again can come between two.  A process of       *)
(* another user cannot be signalled, and so looks as if it were not there. *)
(***************************************************************************)
EXTENDS Naturals

CONSTANTS
  Pid,         \* process ids
  Terminal,    \* where commands are given, one at a time each
  Empty, None, \* a pid file that is empty, or is not there
  MaxOps,      \* bound: commands given, in all
  MaxMishaps   \* bound: deaths of daemons and commands, pids given out again

ASSUME DaemonAssumption ==
  /\ Empty \notin Pid /\ None \notin Pid /\ Empty # None
  /\ MaxOps \in Nat /\ MaxMishaps \in Nat

VARIABLES
  proc,        \* pid -> what the process is, "free" if there is none
  port,        \* the daemon that listens on the port, or None
  pidfile,     \* the pid in the pid file, Empty or None
  stdio,       \* the start whose daemon prints to mcp-stdio.log, 0 if none
  backup,      \* the start whose daemon's output is mcp-stdio.log.1
  runs,        \* starts that have opened mcp-stdio.log
  op, pc, pid, \* a terminal's command, where it is, the pid it has to do with
  outcome,     \* how it ended
  calm,        \* no start has overlapped another command, or has been killed
               \* with its daemon not yet in the pid file (history)
  given, mishaps

files == <<pidfile, stdio, backup, runs>>
vars == <<proc, port, files, op, pc, pid, outcome, calm, given, mishaps>>

Location == {"idle", "exists", "read", "alive", "signal", "signalled", "unlink",
             "rotate", "replace", "open", "spawn", "record", "fill"}

TypeOK ==
  /\ proc \in [Pid -> {"free", "booting", "serving", "ending", "other"}]
  /\ port \in Pid \cup {None}
  /\ port # None => proc[port] \in {"serving", "ending"}
  /\ pidfile \in Pid \cup {Empty, None}
  /\ stdio \in Nat /\ backup \in Nat /\ runs \in Nat
  /\ op \in [Terminal -> {"start", "stop"}]
  /\ pc \in [Terminal -> Location]
  /\ pid \in [Terminal -> Pid \cup {None}]
  /\ outcome \in [Terminal -> {"none", "started", "refused", "stopped", "stale",
                               "not running", "raised", "killed"}]
  /\ calm \in BOOLEAN
  /\ given \in Nat /\ mishaps \in Nat

Init ==
  /\ proc = [p \in Pid |-> "free"] /\ port = None
  /\ pidfile = None /\ stdio = 0 /\ backup = 0 /\ runs = 0
  /\ op = [t \in Terminal |-> "stop"] /\ pc = [t \in Terminal |-> "idle"]
  /\ pid = [t \in Terminal |-> None]
  /\ outcome = [t \in Terminal |-> "none"]
  /\ calm = TRUE
  /\ given = 0 /\ mishaps = 0

-----------------------------------------------------------------------------
(* Plausible bugs, for the sensitivity checks.                             *)

\* Only a daemon that answers requests counts as running.
AliveAndServing(p) == proc[p] = "serving"

\* The log is truncated without a backup, as an earlier version did.
AfterLogCheckNever(there) == "open"

\* `stop` leaves the pid file of a daemon that has died.
AfterCheckForgiving(o, alive) ==
  IF o = "start" THEN IF alive THEN "idle" ELSE "unlink"
  ELSE IF alive THEN "signal" ELSE "idle"

\* `start` takes any pid file for a stale one.
AfterCheckCareless(o, alive) ==
  IF o = "start" THEN "unlink" ELSE IF alive THEN "signal" ELSE "unlink"

-----------------------------------------------------------------------------
(* Steps the two commands share.                                           *)

Running(t) == pc[t] # "idle"

\* _process_alive: os.kill(pid, 0)
Alive(p) == proc[p] # "free"

GoTo(t, l) == /\ pc' = [pc EXCEPT ![t] = l]
              /\ UNCHANGED <<op, outcome, calm, given, mishaps>>

End(t, how) == /\ pc' = [pc EXCEPT ![t] = "idle"]
               /\ outcome' = [outcome EXCEPT ![t] = how]
               /\ UNCHANGED <<op, calm, given, mishaps>>

\* The command begins; it overlaps those under way.
Begin(t, o) ==
  /\ ~Running(t) /\ given < MaxOps
  /\ given' = given + 1
  /\ op' = [op EXCEPT ![t] = o]
  /\ pc' = [pc EXCEPT ![t] = "exists"]
  /\ pid' = [pid EXCEPT ![t] = None]
  /\ calm' = (calm /\ \A u \in Terminal : Running(u) => o = "stop" /\ op[u] = "stop")
  /\ UNCHANGED <<proc, port, files, outcome, mishaps>>

\* _PID_FILE.exists()
Exists(t) ==
  /\ pc[t] = "exists"
  /\ \/ pidfile # None /\ GoTo(t, "read")
     \/ pidfile = None /\ op[t] = "start" /\ GoTo(t, "rotate")
     \/ pidfile = None /\ op[t] = "stop" /\ End(t, "not running")
  /\ UNCHANGED <<proc, port, files, pid>>

\* int(read_text()): in a file that is gone, or empty, there is no number.
Readable(f) == f \in Pid

Read(t) ==
  /\ pc[t] = "read"
  /\ \/ /\ Readable(pidfile)
        /\ pid' = [pid EXCEPT ![t] = pidfile]
        /\ GoTo(t, "alive")
     \/ ~Readable(pidfile) /\ End(t, "raised") /\ UNCHANGED pid
  /\ UNCHANGED <<proc, port, files>>

\* Where a command goes when it knows whether the process is there.
AfterCheck(o, alive) ==
  IF o = "start" THEN IF alive THEN "idle" ELSE "unlink"
  ELSE IF alive THEN "signal" ELSE "unlink"

Check(t) ==
  LET l == AfterCheck(op[t], Alive(pid[t])) IN
  /\ pc[t] = "alive"
  /\ \/ l = "idle" /\ End(t, IF op[t] = "start" THEN "refused" ELSE "stale")
     \/ l # "idle" /\ GoTo(t, l)
  /\ UNCHANGED <<proc, port, files, pid>>

\* os.kill(pid, SIGTERM): a daemon starts to shut down; any other process ends.
Signal(t) ==
  LET p == pid[t] IN
  /\ pc[t] = "signal"
  /\ \/ /\ Alive(p)
        /\ proc' = [proc EXCEPT ![p] = IF @ = "other" THEN "free" ELSE "ending"]
        /\ GoTo(t, "signalled")
     \/ ~Alive(p) /\ End(t, "raised") /\ UNCHANGED proc
  /\ UNCHANGED <<port, files, pid>>

\* _PID_FILE.unlink(): of a process that is not there, or has been signalled.
Unlink(t) ==
  /\ pc[t] \in {"unlink", "signalled"}
  /\ \/ pidfile = None /\ End(t, "raised")
     \/ pidfile # None /\ op[t] = "start" /\ GoTo(t, "rotate")
     \/ /\ pidfile # None /\ op[t] = "stop"
        /\ End(t, IF pc[t] = "unlink" THEN "stale" ELSE "stopped")
  /\ pidfile' = None
  /\ UNCHANGED <<proc, port, stdio, backup, runs, pid>>

-----------------------------------------------------------------------------
(* The rest of _start_daemon.                                              *)

\* _STDIO_FILE.exists()
AfterLogCheck(there) == IF there THEN "replace" ELSE "open"

Rotate(t) ==
  /\ pc[t] = "rotate"
  /\ GoTo(t, AfterLogCheck(stdio # 0))
  /\ UNCHANGED <<proc, port, files, pid>>

\* _STDIO_FILE.replace(_STDIO_BACKUP)
Replace(t) ==
  /\ pc[t] = "replace"
  /\ \/ stdio # 0 /\ backup' = stdio /\ stdio' = 0 /\ GoTo(t, "open")
     \/ stdio = 0 /\ UNCHANGED <<stdio, backup>> /\ End(t, "raised")
  /\ UNCHANGED <<proc, port, pidfile, runs, pid>>

\* _STDIO_FILE.open("wb")
Open(t) ==
  /\ pc[t] = "open"
  /\ runs' = runs + 1 /\ stdio' = runs'
  /\ GoTo(t, "spawn")
  /\ UNCHANGED <<proc, port, pidfile, backup, pid>>

Spawn(t) ==
  /\ pc[t] = "spawn"
  /\ \E p \in Pid :
       /\ proc[p] = "free"
       /\ proc' = [proc EXCEPT ![p] = "booting"]
       /\ pid' = [pid EXCEPT ![t] = p]
  /\ GoTo(t, "record")
  /\ UNCHANGED <<port, files>>

\* _PID_FILE.write_text(): opening the file empties it, or makes an empty one.
Record(t) ==
  /\ pc[t] = "record"
  /\ pidfile' = Empty
  /\ GoTo(t, "fill")
  /\ UNCHANGED <<proc, port, stdio, backup, runs, pid>>

\* The number goes to the file opened, which may have been removed since.
Fill(t) ==
  /\ pc[t] = "fill"
  /\ \/ pidfile # None /\ pidfile' = pid[t]
     \/ pidfile # Empty /\ UNCHANGED pidfile
  /\ End(t, "started")
  /\ UNCHANGED <<proc, port, stdio, backup, runs, pid>>

Statement(t) ==
  \/ Exists(t) \/ Read(t) \/ Check(t) \/ Signal(t) \/ Unlink(t)
  \/ Rotate(t) \/ Replace(t) \/ Open(t) \/ Spawn(t) \/ Record(t) \/ Fill(t)

-----------------------------------------------------------------------------
(* The daemon, and what happens to processes.                              *)

session == <<files, op, pc, pid, outcome, calm, given>>

Freed(p) == IF port = p THEN None ELSE port

\* run_streamable_http_async binds the port, or ends when it is taken.
Bind(p) ==
  /\ proc[p] = "booting"
  /\ \/ port = None /\ port' = p /\ proc' = [proc EXCEPT ![p] = "serving"]
     \/ port # None /\ proc' = [proc EXCEPT ![p] = "free"] /\ UNCHANGED port
  /\ UNCHANGED <<session, mishaps>>

\* A daemon that has been signalled is through with its requests.
Exit(p) ==
  /\ proc[p] = "ending"
  /\ proc' = [proc EXCEPT ![p] = "free"] /\ port' = Freed(p)
  /\ UNCHANGED <<session, mishaps>>

Mishap == mishaps < MaxMishaps /\ mishaps' = mishaps + 1

\* A daemon dies, of an error or with the machine.
Die(p) ==
  /\ Mishap
  /\ proc[p] \in {"booting", "serving"}
  /\ proc' = [proc EXCEPT ![p] = "free"] /\ port' = Freed(p)
  /\ UNCHANGED session

\* The system gives a pid to a process of the same user, which ends some day.
Reuse(p) ==
  /\ Mishap
  /\ proc[p] = "free"
  /\ proc' = [proc EXCEPT ![p] = "other"]
  /\ UNCHANGED <<session, port>>

OtherEnds(p) ==
  /\ proc[p] = "other"
  /\ proc' = [proc EXCEPT ![p] = "free"]
  /\ UNCHANGED <<session, port, mishaps>>

\* A command is killed, or its disk is full, or the fork fails.
Kill(t) ==
  /\ Mishap
  /\ Running(t)
  /\ pc' = [pc EXCEPT ![t] = "idle"]
  /\ outcome' = [outcome EXCEPT ![t] = "killed"]
  /\ calm' = (calm /\ pc[t] \notin {"record", "fill"})
  /\ UNCHANGED <<proc, port, files, op, pid, given>>

Next ==
  \/ \E t \in Terminal :
       \/ \E o \in {"start", "stop"} : Begin(t, o)
       \/ Statement(t)
       \/ Kill(t)
  \/ \E p \in Pid : Bind(p) \/ Exit(p) \/ Die(p) \/ Reuse(p) \/ OtherEnds(p)

Spec == Init /\ [][Next]_vars

-----------------------------------------------------------------------------
(* Properties.                                                             *)

\* A daemon nobody has told to end.
Up(p) == proc[p] \in {"booting", "serving"}

\* Unless a start overlapped another command or was killed at its very end,
\* `stop` can find every daemon: at most one is up, and it is the one in the
\* pid file, or about to be.  Daemons may die, other processes may take their
\* pids, stops may overlap and be killed.
NoneUnreachable ==
  calm => \A p \in Pid : Up(p) =>
    \/ pidfile = p
    \/ \E t \in Terminal : pc[t] \in {"record", "fill"} /\ pid[t] = p

\* What the last daemon has printed, and the one before it, is kept until the
\* next start replaces the older one, whatever was refused, failed, or was
\* killed in between.
TracebackSurvives ==
  calm /\ runs > 0 =>
    \/ stdio = runs /\ (runs > 1 => backup = runs - 1)
    \/ stdio = 0 /\ backup = runs

\* A stop no start overlapped leaves no daemon up, and no pid file unless the
\* process has gone between the check and the signal, which raises.
StopLeavesNothing ==
  [][\A t \in Terminal :
       calm /\ op[t] = "stop" /\ Running(t) /\ ~Running(t)' /\ outcome'[t] # "killed" =>
         /\ \A p \in Pid : ~Up(p)'
         /\ pidfile' = None \/ (outcome'[t] = "raised" /\ pidfile' = pid[t])]_vars

\* What keeps a new daemon from its port is one that has been told to end,
\* never one that is up.
OnlyTheStoppedIsInTheWay ==
  [][\A p \in Pid :
       calm /\ proc[p] = "booting" /\ proc'[p] = "free" /\ mishaps' = mishaps =>
         port # None /\ proc[port] = "ending"]_vars

=============================================================================
