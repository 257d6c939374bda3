----------------------------- MODULE DaemonProofs -----------------------------
(***************************************************************************)
(* What the pid file is good for, for any number of terminals, processes,  *)
(* commands and mishaps.                                                   *)
(***************************************************************************)
EXTENDS Daemon, TLAPS

LEMMA InitType == Init => TypeOK
  BY DaemonAssumption DEF Init, TypeOK, Location

LEMMA GoToType ==
  ASSUME TypeOK, NEW t \in Terminal, NEW l \in Location, GoTo(t, l)
  PROVE  /\ pc' \in [Terminal -> Location]
         /\ UNCHANGED <<op, outcome, calm, given, mishaps>>
  BY DEF GoTo, TypeOK

LEMMA EndType ==
  ASSUME TypeOK, NEW t \in Terminal, NEW how, End(t, how),
         how \in {"started", "refused", "stopped", "stale", "not running", "raised"}
  PROVE  /\ pc' \in [Terminal -> Location]
         /\ outcome' \in [Terminal -> {"none", "started", "refused", "stopped", "stale",
                                       "not running", "raised", "killed"}]
         /\ UNCHANGED <<op, calm, given, mishaps>>
  BY DEF End, TypeOK, Location

LEMMA CalmType ==
  ASSUME TypeOK, [Next]_vars
  PROVE  calm' \in BOOLEAN
  <1>1. CASE UNCHANGED calm
    BY <1>1 DEF TypeOK
  <1>2. CASE \/ \E t \in Terminal, o \in {"start", "stop"} : Begin(t, o)
             \/ \E t \in Terminal : Kill(t)
    BY <1>2 DEF Begin, Kill
  <1> QED
    BY <1>1, <1>2 DEF Next, Statement, Exists, Read, Check, Signal, Unlink, Rotate, Replace,
       Open, Spawn, Record, Fill, GoTo, End, Bind, Exit, Die, Reuse, OtherEnds, session, vars

LEMMA NextType ==
  ASSUME TypeOK, [Next]_vars
  PROVE  TypeOK'
  <1> USE DaemonAssumption, CalmType DEF Location
  <1>1. ASSUME NEW t \in Terminal, NEW o \in {"start", "stop"}, Begin(t, o)
        PROVE  TypeOK'
    <2>1. /\ UNCHANGED <<proc, port, files, outcome, mishaps>>
          /\ op' = [op EXCEPT ![t] = o] /\ pc' = [pc EXCEPT ![t] = "exists"]
          /\ pid' = [pid EXCEPT ![t] = None]
      BY <1>1 DEF Begin
    <2>2. given \in Nat
      BY DEF TypeOK
    <2>3. given' \in Nat
      BY <1>1, <2>2 DEF Begin
    <2> QED
      BY <2>1, <2>3 DEF TypeOK, files
  <1>2. ASSUME NEW t \in Terminal, Statement(t)
        PROVE  TypeOK'
    <2>1. CASE Exists(t)
      BY <2>1, GoToType, EndType DEF Exists, TypeOK, files
    <2>2. CASE Read(t)
      BY <2>2, GoToType, EndType DEF Read, Readable, TypeOK, files
    <2>3. CASE Check(t)
      BY <2>3, GoToType, EndType DEF Check, AfterCheck, TypeOK, files
    <2>4. CASE Signal(t)
      BY <2>4, GoToType, EndType DEF Signal, Alive, TypeOK, files
    <2>5. CASE Unlink(t)
      BY <2>5, GoToType, EndType DEF Unlink, TypeOK
    <2>6. CASE Rotate(t)
      BY <2>6, GoToType, EndType DEF Rotate, AfterLogCheck, TypeOK, files
    <2>7. CASE Replace(t)
      <3>1. stdio \in Nat /\ backup \in Nat
        BY DEF TypeOK
      <3>2. stdio' \in Nat /\ backup' \in Nat
        BY <2>7, <3>1 DEF Replace
      <3>3. /\ GoTo(t, "open") \/ End(t, "raised")
            /\ UNCHANGED <<proc, port, pidfile, runs, pid>>
        BY <2>7 DEF Replace
      <3> QED
        BY <3>2, <3>3, GoToType, EndType DEF TypeOK
    <2>8. CASE Open(t)
      <3>1. runs \in Nat
        BY DEF TypeOK
      <3>2. runs' \in Nat /\ stdio' \in Nat
        BY <2>8, <3>1 DEF Open
      <3>3. GoTo(t, "spawn") /\ UNCHANGED <<proc, port, pidfile, backup, pid>>
        BY <2>8 DEF Open
      <3> QED
        BY <3>2, <3>3, GoToType DEF TypeOK
    <2>9. CASE Spawn(t)
      <3>1. PICK p \in Pid : /\ proc[p] = "free" /\ proc' = [proc EXCEPT ![p] = "booting"]
                             /\ pid' = [pid EXCEPT ![t] = p]
        BY <2>9 DEF Spawn
      <3>2. /\ proc' \in [Pid -> {"free", "booting", "serving", "ending", "other"}]
            /\ pid' \in [Terminal -> Pid \cup {None}]
            /\ \A q \in Pid \ {p} : proc'[q] = proc[q]
        BY <3>1 DEF TypeOK
      <3>3. UNCHANGED <<port, files>> /\ GoTo(t, "record")
        BY <2>9 DEF Spawn
      <3> QED
        BY <3>1, <3>2, <3>3, GoToType DEF TypeOK, files
    <2>10. CASE Record(t)
      BY <2>10, GoToType, EndType DEF Record, TypeOK
    <2>11. CASE Fill(t)
      BY <2>11, GoToType, EndType DEF Fill, TypeOK
    <2> QED
      BY <1>2, <2>1, <2>2, <2>3, <2>4, <2>5, <2>6, <2>7, <2>8, <2>9, <2>10, <2>11
      DEF Statement
  <1>3. ASSUME NEW t \in Terminal, Kill(t)
        PROVE  TypeOK'
    <2>1. /\ UNCHANGED <<proc, port, files, op, pid, given>>
          /\ pc' = [pc EXCEPT ![t] = "idle"] /\ outcome' = [outcome EXCEPT ![t] = "killed"]
      BY <1>3 DEF Kill
    <2>2. mishaps \in Nat
      BY DEF TypeOK
    <2>3. mishaps' \in Nat
      BY <1>3, <2>2 DEF Kill, Mishap
    <2> QED
      BY <2>1, <2>3 DEF TypeOK, files
  <1>4. ASSUME NEW p \in Pid, Bind(p) \/ Exit(p) \/ Die(p) \/ Reuse(p) \/ OtherEnds(p)
        PROVE  TypeOK'
    <2>1. UNCHANGED session
      BY <1>4 DEF Bind, Exit, Die, Reuse, OtherEnds
    <2>2. mishaps \in Nat
      BY DEF TypeOK
    <2>3. mishaps' \in Nat
      BY <1>4, <2>2 DEF Bind, Exit, Die, Reuse, OtherEnds, Mishap
    <2>4. PICK s \in {"free", "serving", "other"} :
               /\ proc' = [proc EXCEPT ![p] = s]
               /\ port' \in {port, p, None}
               /\ port' = p => s = "serving"
               /\ port' = port \/ port' = None \/ s = "serving"
      BY <1>4 DEF Bind, Exit, Die, Reuse, OtherEnds, Freed, TypeOK
    <2>5. /\ proc' \in [Pid -> {"free", "booting", "serving", "ending", "other"}]
          /\ proc'[p] = s /\ \A q \in Pid \ {p} : proc'[q] = proc[q]
      BY <2>4 DEF TypeOK
    <2>6. port' # None => proc'[port'] \in {"serving", "ending"}
      BY <2>4, <2>5 DEF TypeOK
    <2> QED
      BY <2>1, <2>4, <2>5, <2>6, <2>3 DEF session, files, TypeOK
  <1>5. CASE UNCHANGED vars
    BY <1>5 DEF vars, TypeOK, files
  <1> QED
    BY <1>1, <1>2, <1>3, <1>4, <1>5 DEF Next

\* Every variable keeps its type, and what listens on the port is a daemon.
THEOREM DaemonTypeCorrect == Spec => []TypeOK
  BY InitType, NextType, PTL DEF Spec

-----------------------------------------------------------------------------
(* While it is calm, the pid file tells the truth.                         *)

\* A start that has found no pid file, or removed it.
Starting == {"rotate", "replace", "open", "spawn", "record", "fill"}

\* While a start is under way nothing else is.
AloneInv ==
  \A t \in Terminal, u \in Terminal : t # u /\ Running(t) /\ Running(u) => op[t] = "stop"

\* Where a command is, the pid file, and the process it has read of.
TermInv(t) ==
  /\ pc[t] \in Starting => op[t] = "start"
  /\ pc[t] \in Starting \ {"fill"} => pidfile = None
  /\ pc[t] = "fill" => pidfile = Empty
  /\ pc[t] \in {"signal", "signalled"} => op[t] = "stop"
  /\ pc[t] \in {"alive", "signal", "signalled", "unlink"} =>
       pid[t] \in Pid /\ pidfile \in {None, pid[t]}
  /\ pc[t] \in {"unlink", "signalled"} => ~Up(pid[t])

EmptyInv == pidfile = Empty => \E t \in Terminal : pc[t] = "fill"

CalmInv ==
  calm => AloneInv /\ EmptyInv /\ NoneUnreachable /\ \A t \in Terminal : TermInv(t)

\* What a statement leaves alone.
LEMMA Moves ==
  ASSUME TypeOK, NEW t \in Terminal, Statement(t)
  PROVE  /\ UNCHANGED <<op, calm>> /\ Running(t)
         /\ \A u \in Terminal \ {t} : pc'[u] = pc[u] /\ pid'[u] = pid[u]
  <1>1. UNCHANGED <<op, calm>> /\ Running(t)
    BY DEF Statement, Exists, Read, Check, Signal, Unlink, Rotate, Replace, Open, Spawn,
       Record, Fill, GoTo, End, Running
  <1>2. PICK l \in Location : pc' = [pc EXCEPT ![t] = l]
    BY DEF Statement, Exists, Read, Check, Signal, Unlink, Rotate, Replace, Open, Spawn,
       Record, Fill, GoTo, End, Location, AfterCheck, AfterLogCheck
  <1>3. UNCHANGED pid \/ \E p \in Pid : pid' = [pid EXCEPT ![t] = p]
    BY DEF Statement, Exists, Read, Readable, Check, Signal, Unlink, Rotate, Replace, Open,
       Spawn, Record, Fill
  <1> QED
    BY <1>1, <1>2, <1>3 DEF TypeOK

\* A stop takes daemons down and the pid file away, and nothing else.
LEMMA StopMoves ==
  ASSUME TypeOK, NEW t \in Terminal, Statement(t), op[t] = "stop", pc[t] \notin Starting
  PROVE  /\ pidfile' \in {pidfile, None}
         /\ \A p \in Pid : Up(p)' => Up(p)
  <1>1. CASE Signal(t)
    BY <1>1 DEF Signal, Up, TypeOK, files
  <1>2. CASE Unlink(t)
    BY <1>2 DEF Unlink, Up
  <1>3. CASE UNCHANGED <<proc, pidfile>>
    BY <1>3 DEF Up
  <1> QED
    BY <1>1, <1>2, <1>3 DEF Statement, Exists, Read, Check, Rotate, Replace, Open, Spawn,
       Record, Fill, Starting, files

LEMMA OthersKept ==
  ASSUME TypeOK, calm, CalmInv, NEW t \in Terminal, Statement(t), NEW u \in Terminal \ {t}
  PROVE  TermInv(u)'
  <1>1. UNCHANGED op /\ Running(t) /\ pc'[u] = pc[u] /\ pid'[u] = pid[u]
    BY Moves
  <1>2. CASE ~Running(u)
    BY <1>1, <1>2 DEF TermInv, Running, Starting
  <1>3. CASE Running(u)
    <2>1. op[t] = "stop" /\ op[u] = "stop" /\ TermInv(t) /\ TermInv(u)
      BY <1>1, <1>3 DEF CalmInv, AloneInv
    <2>2. /\ pidfile' \in {pidfile, None}
          /\ \A p \in Pid : Up(p)' => Up(p)
      BY <2>1, StopMoves DEF TermInv
    <2>3. pc[u] \notin Starting
      BY <2>1 DEF TermInv
    <2> QED
      BY <1>1, <2>1, <2>2, <2>3 DEF TermInv, Starting
  <1> QED
    BY <1>2, <1>3

\* Nothing else runs while a start does.
LEMMA StartAlone ==
  ASSUME calm, CalmInv, NEW t \in Terminal, Running(t), op[t] = "start",
         NEW u \in Terminal \ {t}
  PROVE  pc[u] = "idle"
  BY DEF CalmInv, AloneInv, Running

LEMMA StatementKept ==
  ASSUME TypeOK, calm, CalmInv, NEW t \in Terminal, Statement(t)
  PROVE  TermInv(t)' /\ EmptyInv' /\ NoneUnreachable'
  <1> USE DaemonAssumption
  <1>1. /\ UNCHANGED <<op, calm>> /\ Running(t)
        /\ \A u \in Terminal \ {t} : pc'[u] = pc[u] /\ pid'[u] = pid[u]
    BY Moves
  <1>2. TermInv(t) /\ EmptyInv /\ NoneUnreachable
    BY DEF CalmInv
  <1>3. op[t] \in {"start", "stop"}
    BY DEF TypeOK
  <1>4. ASSUME UNCHANGED <<proc, pidfile>>, pc[t] \notin {"record", "fill"}
        PROVE  EmptyInv' /\ NoneUnreachable'
    <2>1. \A u \in Terminal : pc[u] \in {"record", "fill"} =>
            pc'[u] = pc[u] /\ pid'[u] = pid[u]
      BY <1>1, <1>4
    <2>2. EmptyInv'
      BY <1>2, <1>4, <2>1 DEF EmptyInv
    <2>3. NoneUnreachable'
      BY <1>2, <1>4, <2>1 DEF NoneUnreachable, Up
    <2> QED
      BY <2>2, <2>3
  <1>5. CASE Exists(t)
    <2>1. UNCHANGED <<proc, pidfile, pid>> /\ pc[t] = "exists"
      BY <1>5 DEF Exists, files
    <2>2. \/ pc'[t] \in {"read", "idle"}
          \/ pc'[t] = "rotate" /\ pidfile = None /\ op[t] = "start"
      BY <1>5 DEF Exists, GoTo, End, TypeOK
    <2> QED
      BY <1>1, <1>4, <2>1, <2>2 DEF TermInv, Starting
  <1>6. CASE Read(t)
    <2>1. UNCHANGED <<proc, pidfile>> /\ pc[t] = "read"
      BY <1>6 DEF Read, files
    <2>2. \/ pc'[t] = "idle"
          \/ pc'[t] = "alive" /\ pid'[t] = pidfile /\ pidfile \in Pid
      BY <1>6 DEF Read, Readable, GoTo, End, TypeOK
    <2> QED
      BY <1>1, <1>4, <2>1, <2>2 DEF TermInv, Starting
  <1>7. CASE Check(t)
    <2>1. UNCHANGED <<proc, pidfile, pid>> /\ pc[t] = "alive"
      BY <1>7 DEF Check, files
    <2>2. \/ pc'[t] = "idle"
          \/ pc'[t] = "signal" /\ op[t] = "stop"
          \/ pc'[t] = "unlink" /\ ~Alive(pid[t])
      BY <1>3, <1>7 DEF Check, AfterCheck, GoTo, End, TypeOK
    <2> QED
      BY <1>1, <1>2, <1>4, <2>1, <2>2 DEF TermInv, Starting, Alive, Up
  <1>8. CASE Signal(t)
    <2>1. UNCHANGED <<pidfile, pid>> /\ pc[t] = "signal"
      BY <1>8 DEF Signal, files
    <2>2. \A p \in Pid : Up(p)' => Up(p)
      BY <1>8 DEF Signal, Up, TypeOK
    <2>3. pid[t] \in Pid /\ op[t] = "stop" /\ pidfile \in {None, pid[t]}
      BY <1>2, <2>1 DEF TermInv
    <2>4. \/ pc'[t] = "idle"
          \/ pc'[t] = "signalled" /\ ~Up(pid[t])'
      BY <1>8, <2>1, <2>3 DEF Signal, GoTo, End, Up, TypeOK
    <2>5. TermInv(t)'
      BY <1>1, <2>1, <2>3, <2>4 DEF TermInv, Starting
    <2>6. \A u \in Terminal : pc[u] \in {"record", "fill"} =>
            pc'[u] = pc[u] /\ pid'[u] = pid[u]
      BY <1>1, <2>1
    <2>7. EmptyInv'
      BY <1>2, <2>1, <2>6 DEF EmptyInv
    <2>8. NoneUnreachable'
      BY <1>1, <1>2, <2>1, <2>2, <2>6 DEF NoneUnreachable
    <2> QED
      BY <2>5, <2>7, <2>8
  <1>9. CASE Unlink(t)
    <2>1. /\ pc[t] \in {"unlink", "signalled"} /\ pidfile' = None /\ UNCHANGED <<proc, pid>>
          /\ pc'[t] \in {"idle", "rotate"} /\ (pc'[t] = "rotate" => op[t] = "start")
      BY <1>9 DEF Unlink, GoTo, End, TypeOK
    <2>2. TermInv(t)'
      BY <1>1, <2>1 DEF TermInv, Starting
    <2>3. ~Up(pid[t]) /\ pidfile \in {None, pid[t]}
      BY <1>2, <2>1 DEF TermInv
    <2>4. EmptyInv'
      BY <2>1 DEF EmptyInv
    <2>5. ASSUME NEW p \in Pid, Up(p)
          PROVE  \E u \in Terminal : pc'[u] \in {"record", "fill"} /\ pid'[u] = p
      BY <1>1, <1>2, <2>1, <2>3, <2>5 DEF NoneUnreachable
    <2>6. NoneUnreachable'
      BY <2>1, <2>5 DEF NoneUnreachable, Up
    <2> QED
      BY <2>2, <2>4, <2>6
  <1>10. CASE Rotate(t) \/ Replace(t) \/ Open(t)
    <2>1. /\ UNCHANGED <<proc, pidfile>> /\ pc[t] \in {"rotate", "replace", "open"}
          /\ pc'[t] \in {"idle", "replace", "open", "spawn"}
      BY <1>10 DEF Rotate, AfterLogCheck, Replace, Open, GoTo, End, TypeOK, files
    <2> QED
      BY <1>1, <1>2, <1>4, <2>1 DEF TermInv, Starting
  <1>11. CASE Spawn(t)
    <2>1. pc[t] = "spawn" /\ pc'[t] = "record" /\ UNCHANGED pidfile
      BY <1>11 DEF Spawn, GoTo, TypeOK, files
    <2>2. PICK p \in Pid : proc' = [proc EXCEPT ![p] = "booting"] /\ pid'[t] = p
      BY <1>11 DEF Spawn, TypeOK
    <2>3. op[t] = "start" /\ pidfile = None
      BY <1>2, <2>1 DEF TermInv, Starting
    <2>4. TermInv(t)' /\ EmptyInv'
      BY <1>1, <2>1, <2>3 DEF TermInv, EmptyInv, Starting
    <2>5. \A q \in Pid \ {p} : ~Up(q)'
      <3> SUFFICES ASSUME NEW q \in Pid \ {p}, Up(q)'
                   PROVE  FALSE
        OBVIOUS
      <3>1. Up(q)
        BY <2>2 DEF Up, TypeOK
      <3>2. PICK u \in Terminal : pc[u] \in {"record", "fill"}
        BY <1>2, <2>3, <3>1 DEF NoneUnreachable
      <3>3. u # t
        BY <2>1, <3>2
      <3> QED
        BY <1>1, <2>3, <3>2, <3>3, StartAlone
    <2>6. NoneUnreachable'
      BY <2>1, <2>2, <2>5 DEF NoneUnreachable
    <2> QED
      BY <2>4, <2>6
  <1>12. CASE Record(t)
    <2>1. /\ pc[t] = "record" /\ pc'[t] = "fill" /\ pidfile' = Empty
          /\ UNCHANGED <<proc, pid>>
      BY <1>12 DEF Record, GoTo, TypeOK
    <2>2. op[t] = "start" /\ pidfile = None
      BY <1>2, <2>1 DEF TermInv, Starting
    <2>3. TermInv(t)' /\ EmptyInv'
      BY <1>1, <2>1, <2>2 DEF TermInv, EmptyInv, Starting
    <2>4. \A u \in Terminal : pc[u] \in {"record", "fill"} =>
            pc'[u] \in {"record", "fill"} /\ pid'[u] = pid[u]
      BY <1>1, <2>1
    <2>5. NoneUnreachable'
      BY <1>1, <1>2, <2>1, <2>2, <2>4 DEF NoneUnreachable, Up
    <2> QED
      BY <2>3, <2>5
  <1>13. CASE Fill(t)
    <2>1. pc[t] = "fill" /\ pc'[t] = "idle" /\ UNCHANGED <<proc, pid>>
      BY <1>13 DEF Fill, End, TypeOK
    <2>2. op[t] = "start" /\ pidfile = Empty
      BY <1>2, <2>1 DEF TermInv, Starting
    <2>3. pidfile' = pid[t]
      BY <1>13, <2>2 DEF Fill
    <2>4. TermInv(t)'
      BY <2>1 DEF TermInv, Starting
    <2>5. EmptyInv'
      BY <2>3 DEF EmptyInv, TypeOK
    <2>6. ASSUME NEW p \in Pid, Up(p)
          PROVE  pidfile' = p
      <3>1. PICK u \in Terminal : pc[u] \in {"record", "fill"} /\ pid[u] = p
        BY <1>2, <2>2, <2>6 DEF NoneUnreachable
      <3>2. u = t
        BY <1>1, <2>2, <3>1, StartAlone
      <3> QED
        BY <2>3, <3>1, <3>2
    <2>7. NoneUnreachable'
      BY <2>1, <2>6 DEF NoneUnreachable, Up
    <2> QED
      BY <2>4, <2>5, <2>7
  <1> QED
    BY <1>5, <1>6, <1>7, <1>8, <1>9, <1>10, <1>11, <1>12, <1>13 DEF Statement

LEMMA BeginKept ==
  ASSUME TypeOK, CalmInv, NEW t \in Terminal, NEW o \in {"start", "stop"}, Begin(t, o), calm'
  PROVE  AloneInv' /\ EmptyInv' /\ NoneUnreachable' /\ \A u \in Terminal : TermInv(u)'
  <1>1. /\ calm /\ pc[t] = "idle" /\ UNCHANGED <<proc, pidfile>>
        /\ \A u \in Terminal : Running(u) => o = "stop" /\ op[u] = "stop"
    BY DEF Begin, Running, files
  <1>2. /\ pc'[t] = "exists" /\ op'[t] = o
        /\ \A u \in Terminal \ {t} : pc'[u] = pc[u] /\ op'[u] = op[u] /\ pid'[u] = pid[u]
    BY DEF Begin, TypeOK
  <1>3. AloneInv /\ EmptyInv /\ NoneUnreachable /\ \A u \in Terminal : TermInv(u)
    BY <1>1 DEF CalmInv
  <1>4. AloneInv'
    BY <1>1, <1>2, <1>3 DEF AloneInv, Running
  <1>5. \A u \in Terminal : pc[u] \in {"record", "fill"} =>
          pc'[u] = pc[u] /\ pid'[u] = pid[u]
    BY <1>1, <1>2
  <1>6. EmptyInv'
    BY <1>1, <1>3, <1>5 DEF EmptyInv
  <1>7. NoneUnreachable'
    BY <1>1, <1>3, <1>5 DEF NoneUnreachable, Up
  <1>8. \A u \in Terminal : TermInv(u)'
    BY <1>1, <1>2, <1>3 DEF TermInv, Up, Starting
  <1> QED
    BY <1>4, <1>6, <1>7, <1>8

LEMMA KillKept ==
  ASSUME TypeOK, CalmInv, NEW t \in Terminal, Kill(t), calm'
  PROVE  AloneInv' /\ EmptyInv' /\ NoneUnreachable' /\ \A u \in Terminal : TermInv(u)'
  <1>1. /\ calm /\ pc[t] \notin {"record", "fill"} /\ UNCHANGED <<proc, pidfile, op, pid>>
        /\ pc'[t] = "idle" /\ \A u \in Terminal \ {t} : pc'[u] = pc[u]
    BY DEF Kill, TypeOK, files
  <1>2. AloneInv /\ EmptyInv /\ NoneUnreachable /\ \A u \in Terminal : TermInv(u)
    BY <1>1 DEF CalmInv
  <1>3. AloneInv'
    BY <1>1, <1>2 DEF AloneInv, Running
  <1>4. \A u \in Terminal : pc[u] \in {"record", "fill"} => pc'[u] = pc[u]
    BY <1>1
  <1>5. EmptyInv'
    BY <1>1, <1>2, <1>4 DEF EmptyInv
  <1>6. NoneUnreachable'
    BY <1>1, <1>2, <1>4 DEF NoneUnreachable, Up
  <1>7. \A u \in Terminal : TermInv(u)'
    BY <1>1, <1>2 DEF TermInv, Up, Starting
  <1> QED
    BY <1>3, <1>5, <1>6, <1>7

\* What happens to processes brings no daemon up.
LEMMA ProcessKept ==
  ASSUME TypeOK, CalmInv, NEW p \in Pid,
         Bind(p) \/ Exit(p) \/ Die(p) \/ Reuse(p) \/ OtherEnds(p)
  PROVE  CalmInv'
  <1>1. UNCHANGED <<pidfile, op, pc, pid, calm>>
    BY DEF Bind, Exit, Die, Reuse, OtherEnds, session, files
  <1>2. \A q \in Pid : Up(q)' => Up(q)
    BY DEF Bind, Exit, Die, Reuse, OtherEnds, Up, TypeOK
  <1> QED
    BY <1>1, <1>2 DEF CalmInv, AloneInv, EmptyInv, NoneUnreachable, TermInv, Running, Starting

LEMMA NextCalm ==
  ASSUME TypeOK, CalmInv, [Next]_vars
  PROVE  CalmInv'
  <1>1. ASSUME NEW t \in Terminal, NEW o \in {"start", "stop"}, Begin(t, o)
        PROVE  CalmInv'
    BY <1>1, BeginKept DEF CalmInv
  <1>2. ASSUME NEW t \in Terminal, Statement(t), calm
        PROVE  CalmInv'
    <2>1. AloneInv'
      BY <1>2, Moves DEF CalmInv, AloneInv, Running
    <2> QED
      BY <1>2, <2>1, StatementKept, OthersKept DEF CalmInv
  <1>3. ASSUME NEW t \in Terminal, Kill(t)
        PROVE  CalmInv'
    BY <1>3, KillKept DEF CalmInv
  <1>4. ASSUME NEW t \in Terminal, Statement(t), ~calm
        PROVE  CalmInv'
    BY <1>4, Moves DEF CalmInv
  <1>5. CASE UNCHANGED vars
    BY <1>5 DEF vars, files, CalmInv, AloneInv, EmptyInv, NoneUnreachable, TermInv, Running,
       Starting, Up
  <1> QED
    BY <1>1, <1>2, <1>3, <1>4, <1>5, ProcessKept DEF Next

LEMMA InitCalm == Init => CalmInv
  BY DaemonAssumption DEF Init, CalmInv, AloneInv, EmptyInv, NoneUnreachable, TermInv, Running,
     Starting, Up

\* However daemons die and pids are given out again, `stop` can find every
\* daemon that is up, as long as no start overlaps another command.
THEOREM DaemonsAreReachable == Spec => []NoneUnreachable
  <1>1. Init => TypeOK /\ CalmInv
    BY InitType, InitCalm
  <1>2. TypeOK /\ CalmInv /\ [Next]_vars => TypeOK' /\ CalmInv'
    BY NextType, NextCalm
  <1>3. CalmInv => NoneUnreachable
    BY DEF CalmInv, NoneUnreachable
  <1> QED
    BY <1>1, <1>2, <1>3, PTL DEF Spec

-----------------------------------------------------------------------------
(* What a stop leaves, and what a start finds.                             *)

\* A daemon that is up, when no start is under way, is the one in the file.
LEMMA UpIsFiled ==
  ASSUME calm, CalmInv, NEW t \in Terminal, Running(t), op[t] = "stop", NEW p \in Pid, Up(p)
  PROVE  pidfile = p
  <1>1. ASSUME NEW u \in Terminal, pc[u] \in {"record", "fill"}
        PROVE  FALSE
    <2>1. op[u] = "start" /\ Running(u)
      BY <1>1 DEF CalmInv, TermInv, Starting, Running
    <2> QED
      BY <2>1 DEF CalmInv, AloneInv
  <1> QED
    BY <1>1 DEF CalmInv, NoneUnreachable

LEMMA StopEnds ==
  ASSUME TypeOK, calm, CalmInv, NEW t \in Terminal, Statement(t), op[t] = "stop",
         pc'[t] = "idle"
  PROVE  /\ \A p \in Pid : ~Up(p)'
         /\ pidfile' = None \/ (outcome'[t] = "raised" /\ pidfile' = pid[t])
  <1> USE DaemonAssumption
  <1>1. TermInv(t) /\ EmptyInv /\ Running(t)
    BY Moves DEF CalmInv
  <1>2. pidfile \in Pid \cup {None}
    <2>1. ASSUME NEW u \in Terminal, pc[u] = "fill"
          PROVE  FALSE
      <3>1. op[u] = "start" /\ Running(u)
        BY <2>1 DEF CalmInv, TermInv, Starting, Running
      <3> QED
        BY <1>1, <3>1 DEF CalmInv, AloneInv
    <2> QED
      BY <1>1, <2>1 DEF EmptyInv, TypeOK
  <1>3. CASE Exists(t)
    <2>1. pidfile = None /\ UNCHANGED <<proc, pidfile>>
      BY <1>3 DEF Exists, GoTo, End, TypeOK, files
    <2> QED
      BY <1>1, <2>1, UpIsFiled DEF Up
  <1>4. CASE Read(t)
    <2>1. pidfile = None /\ UNCHANGED <<proc, pidfile>>
      BY <1>2, <1>4 DEF Read, Readable, GoTo, End, TypeOK, files
    <2> QED
      BY <1>1, <2>1, UpIsFiled DEF Up
  <1>5. CASE Check(t)
    BY <1>5 DEF Check, AfterCheck, GoTo, End, TypeOK
  <1>6. CASE Signal(t)
    <2>1. /\ pc[t] = "signal" /\ UNCHANGED <<proc, pidfile>> /\ ~Alive(pid[t])
          /\ outcome'[t] = "raised"
      BY <1>6 DEF Signal, GoTo, End, TypeOK, files
    <2>2. pidfile \in {None, pid[t]}
      BY <1>1, <2>1 DEF TermInv
    <2> QED
      BY <1>1, <2>1, <2>2, UpIsFiled DEF Up, Alive
  <1>7. CASE Unlink(t)
    <2>1. pc[t] \in {"unlink", "signalled"} /\ UNCHANGED proc /\ pidfile' = None
      BY <1>7 DEF Unlink
    <2>2. pidfile \in {None, pid[t]} /\ ~Up(pid[t])
      BY <1>1, <2>1 DEF TermInv
    <2> QED
      BY <1>1, <2>1, <2>2, UpIsFiled DEF Up
  <1>8. pc[t] \notin Starting
    BY <1>1 DEF TermInv
  <1> QED
    BY <1>3, <1>4, <1>5, <1>6, <1>7, <1>8
    DEF Statement, Rotate, Replace, Open, Spawn, Record, Fill, Starting

\* A stop that no start overlaps leaves no daemon up, and no pid file unless
\* it raises because the process has gone before its signal.
THEOREM StopsLeaveNothing == Spec => StopLeavesNothing
  <1>1. Init => TypeOK /\ CalmInv
    BY InitType, InitCalm
  <1>2. TypeOK /\ CalmInv /\ [Next]_vars => TypeOK' /\ CalmInv'
    BY NextType, NextCalm
  <1>3. TypeOK /\ CalmInv /\ [Next]_vars =>
          [\A t \in Terminal :
             calm /\ op[t] = "stop" /\ Running(t) /\ ~Running(t)' /\ outcome'[t] # "killed" =>
               /\ \A p \in Pid : ~Up(p)'
               /\ pidfile' = None \/ (outcome'[t] = "raised" /\ pidfile' = pid[t])]_vars
    <2> SUFFICES ASSUME TypeOK, CalmInv, [Next]_vars, NEW t \in Terminal,
                        calm, op[t] = "stop", Running(t), ~Running(t)', outcome'[t] # "killed"
                 PROVE  /\ \A p \in Pid : ~Up(p)'
                        /\ pidfile' = None \/ (outcome'[t] = "raised" /\ pidfile' = pid[t])
      OBVIOUS
    <2>1. pc[t] # "idle" /\ pc'[t] = "idle"
      BY DEF Running
    <2>2. CASE Statement(t)
      BY <2>1, <2>2, StopEnds
    <2>3. CASE \E u \in Terminal \ {t} : Statement(u)
      BY <2>1, <2>3, Moves
    <2>4. ASSUME NEW u \in Terminal, NEW o, Begin(u, o)
          PROVE  FALSE
      BY <2>1, <2>4 DEF Begin, TypeOK
    <2>5. ASSUME NEW u \in Terminal, Kill(u)
          PROVE  FALSE
      BY <2>1, <2>5 DEF Kill, TypeOK
    <2>6. CASE UNCHANGED pc
      BY <2>1, <2>6
    <2> QED
      BY <2>2, <2>3, <2>4, <2>5, <2>6
      DEF Next, Bind, Exit, Die, Reuse, OtherEnds, session, vars
  <1> QED
    BY <1>1, <1>2, <1>3, PTL DEF Spec, StopLeavesNothing

\* Two daemons are never up at once while it is calm.
LEMMA OneUp ==
  ASSUME calm, CalmInv, NEW p \in Pid, NEW q \in Pid, Up(p), Up(q)
  PROVE  p = q
  <1> USE DaemonAssumption
  <1>1. CASE \E t \in Terminal : pc[t] \in {"record", "fill"}
    <2> PICK t \in Terminal : pc[t] \in {"record", "fill"}
      BY <1>1
    <2>1. op[t] = "start" /\ Running(t) /\ pidfile \notin Pid
      BY DEF CalmInv, TermInv, Starting, Running
    <2>2. \A u \in Terminal \ {t} : pc[u] = "idle"
      BY <2>1, StartAlone
    <2> QED
      BY <2>1, <2>2 DEF CalmInv, NoneUnreachable
  <1>2. CASE ~\E t \in Terminal : pc[t] \in {"record", "fill"}
    BY <1>2 DEF CalmInv, NoneUnreachable
  <1> QED
    BY <1>1, <1>2

\* A new daemon that does not get its port finds one there that is ending.
THEOREM OnlyTheStoppedBlocks == Spec => OnlyTheStoppedIsInTheWay
  <1>1. Init => TypeOK /\ CalmInv
    BY InitType, InitCalm
  <1>2. TypeOK /\ CalmInv /\ [Next]_vars => TypeOK' /\ CalmInv'
    BY NextType, NextCalm
  <1>3. TypeOK /\ CalmInv /\ [Next]_vars =>
          [\A p \in Pid :
             calm /\ proc[p] = "booting" /\ proc'[p] = "free" /\ mishaps' = mishaps =>
               port # None /\ proc[port] = "ending"]_vars
    <2> SUFFICES ASSUME TypeOK, CalmInv, [Next]_vars, NEW p \in Pid,
                        calm, proc[p] = "booting", proc'[p] = "free", mishaps' = mishaps
                 PROVE  port # None /\ proc[port] = "ending"
      OBVIOUS
    <2>1. CASE Bind(p)
      <3>1. port # None /\ port \in Pid /\ proc[port] \in {"serving", "ending"}
        BY <2>1 DEF Bind, TypeOK
      <3>2. proc[port] = "serving" => port = p
        BY <3>1, OneUp DEF Up
      <3> QED
        BY <3>1, <3>2
    <2>2. ASSUME NEW t \in Terminal, Statement(t)
          PROVE  FALSE
      <3>1. CASE Signal(t)
        BY <3>1 DEF Signal, TypeOK
      <3>2. CASE Spawn(t)
        BY <3>2 DEF Spawn, TypeOK
      <3>3. CASE UNCHANGED proc
        BY <3>3
      <3> QED
        BY <2>2, <3>1, <3>2, <3>3 DEF Statement, Exists, Read, Check, Unlink, Rotate, Replace,
           Open, Record, Fill
    <2>3. ASSUME NEW q \in Pid, Bind(q) \/ Exit(q) \/ OtherEnds(q)
          PROVE  q = p /\ Bind(q)
      BY <2>3 DEF Bind, Exit, OtherEnds, TypeOK
    <2>4. ASSUME NEW q \in Pid, Die(q) \/ Reuse(q)
          PROVE  FALSE
      <3>1. mishaps \in Nat /\ mishaps' = mishaps + 1
        BY <2>4 DEF Die, Reuse, Mishap, TypeOK
      <3> QED
        BY <3>1
    <2>5. CASE UNCHANGED proc
      BY <2>5
    <2> QED
      BY <2>1, <2>2, <2>3, <2>4, <2>5 DEF Next, Begin, Kill, vars
  <1> QED
    BY <1>1, <1>2, <1>3, PTL DEF Spec, OnlyTheStoppedIsInTheWay

-----------------------------------------------------------------------------
(* What the daemons have printed.                                          *)

\* A log there is, somebody has opened; a start opens one where there is none.
LogInv ==
  /\ runs = 0 => stdio = 0
  /\ calm => \A t \in Terminal : pc[t] = "open" => stdio = 0
  /\ TracebackSurvives

\* The start that moves or makes the log is alone.
LEMMA StatementKeepsLog ==
  ASSUME TypeOK, CalmInv, LogInv, NEW t \in Terminal, Statement(t)
  PROVE  LogInv'
  <1>1. /\ UNCHANGED calm
        /\ \A u \in Terminal \ {t} : pc'[u] = pc[u]
    BY Moves
  <1>2. stdio \in Nat /\ backup \in Nat /\ runs \in Nat
    BY DEF TypeOK
  <1>3. ASSUME calm, pc[t] \in Starting, NEW u \in Terminal \ {t}
        PROVE  pc[u] = "idle"
    <2>1. op[t] = "start" /\ Running(t)
      BY <1>3 DEF CalmInv, TermInv, Running, Starting
    <2> QED
      BY <1>3, <2>1, StartAlone
  <1>4. CASE Replace(t)
    <2>1. pc[t] = "replace" /\ UNCHANGED runs
      BY <1>4 DEF Replace
    <2>2. CASE stdio # 0
      <3>1. backup' = stdio /\ stdio' = 0
        BY <1>4, <2>2 DEF Replace
      <3>2. calm /\ runs > 0 => backup' = runs
        BY <1>2, <2>2, <3>1 DEF LogInv, TracebackSurvives
      <3> QED
        BY <1>1, <2>1, <3>1, <3>2 DEF LogInv, TracebackSurvives
    <2>3. CASE stdio = 0
      <3>1. UNCHANGED <<stdio, backup>>
        BY <1>4, <2>3 DEF Replace
      <3> QED
        BY <1>1, <2>1, <2>3, <3>1 DEF LogInv, TracebackSurvives
    <2> QED
      BY <2>2, <2>3
  <1>5. CASE Open(t)
    <2>1. /\ pc[t] = "open" /\ pc'[t] = "spawn" /\ runs' = runs + 1 /\ stdio' = runs'
          /\ UNCHANGED backup
      BY <1>5 DEF Open, GoTo, TypeOK
    <2>2. ASSUME calm
          PROVE  \A u \in Terminal : pc'[u] # "open"
      BY <1>1, <1>3, <2>1, <2>2 DEF Starting
    <2>3. calm /\ runs > 0 => backup = runs
      BY <1>2, <2>1 DEF LogInv, TracebackSurvives
    <2>4. runs' > 1 => runs > 0
      BY <1>2, <2>1
    <2>5. runs' # 0 /\ runs' - 1 = runs
      BY <1>2, <2>1
    <2> QED
      BY <1>1, <2>1, <2>2, <2>3, <2>4, <2>5 DEF LogInv, TracebackSurvives
  <1>6. ASSUME UNCHANGED <<stdio, backup, runs>>,
               pc'[t] = "open" => stdio = 0
        PROVE  LogInv'
    BY <1>1, <1>6 DEF LogInv, TracebackSurvives
  <1>7. CASE Rotate(t)
    <2>1. UNCHANGED <<stdio, backup, runs>> /\ (pc'[t] = "open" => stdio = 0)
      BY <1>7 DEF Rotate, AfterLogCheck, GoTo, TypeOK, files
    <2> QED
      BY <1>6, <2>1
  <1>8. CASE \/ Exists(t) \/ Read(t) \/ Check(t) \/ Signal(t) \/ Unlink(t)
             \/ Spawn(t) \/ Record(t) \/ Fill(t)
    <2>1. UNCHANGED <<stdio, backup, runs>>
      BY <1>8 DEF Exists, Read, Check, Signal, Unlink, Spawn, Record, Fill, files
    <2>2. pc'[t] # "open"
      BY <1>8 DEF Exists, Read, Check, AfterCheck, Signal, Unlink, Spawn, Record, Fill, GoTo,
         End, TypeOK
    <2> QED
      BY <1>6, <2>1, <2>2
  <1> QED
    BY <1>4, <1>5, <1>7, <1>8 DEF Statement

LEMMA NextLog ==
  ASSUME TypeOK, CalmInv, LogInv, [Next]_vars
  PROVE  LogInv'
  <1>1. ASSUME NEW t \in Terminal, NEW l \in {"idle", "exists"}, pc' = [pc EXCEPT ![t] = l],
               UNCHANGED files, calm' => calm
        PROVE  LogInv'
    <2>1. \A u \in Terminal : pc'[u] = "open" => pc[u] = "open"
      BY <1>1 DEF TypeOK
    <2> QED
      BY <1>1, <2>1 DEF LogInv, TracebackSurvives, files
  <1>2. CASE \/ \E t \in Terminal, o \in {"start", "stop"} : Begin(t, o)
             \/ \E t \in Terminal : Kill(t)
    BY <1>1, <1>2 DEF Begin, Kill
  <1>3. CASE UNCHANGED <<files, pc, calm>>
    BY <1>3 DEF files, LogInv, TracebackSurvives
  <1> QED
    BY <1>2, <1>3, StatementKeepsLog
    DEF Next, Bind, Exit, Die, Reuse, OtherEnds, session, vars

\* Whatever is refused, fails or is killed in between, what the last daemon
\* has printed is there until the start after the next.
THEOREM TracebacksSurvive == Spec => []TracebackSurvives
  <1>1. Init => TypeOK /\ CalmInv /\ LogInv
    BY InitType, InitCalm DEF Init, LogInv, TracebackSurvives
  <1>2. TypeOK /\ CalmInv /\ LogInv /\ [Next]_vars => TypeOK' /\ CalmInv' /\ LogInv'
    BY NextType, NextCalm, NextLog
  <1>3. LogInv => TracebackSurvives
    BY DEF LogInv
  <1> QED
    BY <1>1, <1>2, <1>3, PTL DEF Spec

=============================================================================
