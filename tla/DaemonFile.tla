----------------------------- MODULE DaemonFile -----------------------------
(***************************************************************************)
(* How `dc upgrade daemon` keeps to one instance: the pid file             *)
(* .dcupgradedaemon, read by UpgradeCommandDeal and again by               *)
(* daemonCommandDeal, which writes it if the pid it names is not alive.    *)
(* Processes are started by systemd (install/etc/dc.service,               *)
(* Restart=always), by the operator, and by a daemon that has finished an  *)
(* upgrade and hands over to a successor.                                  *)
(***************************************************************************)
EXTENDS Naturals, FiniteSets

CONSTANTS
  Pids,      \* process ids
  Pid1,      \* parent of an orphan: pid 1
  Shell,     \* parent of what the operator starts
  Absent,    \* the pid file does not exist
  Empty,     \* it exists and has no contents
  NoMain,    \* the systemd service has no main process
  Reuse,     \* may an unrelated program get the pid the file names?
  MaxStarts, \* bound on what others than systemd start
  MaxKills   \* bound on daemons killed or told to quit

ASSUME DaemonFileAssumption ==
  /\ Pids \cap {Pid1, Shell, Absent, Empty, NoMain} = {}
  /\ Pid1 # Shell /\ Absent # Empty
  /\ Reuse \in BOOLEAN
  /\ MaxStarts \in Nat /\ MaxKills \in Nat

VARIABLES
  file,     \* contents of the pid file
  proc,     \* what each process is about to do; "none": no such process
  parent,   \* Getppid of each process
  service,  \* processes in the control group of the service
  main,     \* main process of the service
  starts, kills,
  overlapped  \* history: two processes have been on their way at once

vars == <<file, proc, parent, service, main, starts, kills, overlapped>>

Starting == {"check", "stat", "create", "read", "truncate", "fill"}

TypeOK ==
  /\ file \in Pids \cup {Absent, Empty}
  /\ proc \in [Pids -> Starting \cup {"none", "foreign", "loop", "exiting"}]
  /\ parent \in [Pids -> Pids \cup {Pid1, Shell}]
  /\ service \in SUBSET Pids
  /\ main \in Pids \cup {NoMain}
  /\ starts \in 0 .. MaxStarts
  /\ kills \in 0 .. MaxKills
  /\ overlapped \in BOOLEAN

Init ==
  /\ file = Absent
  /\ proc = [p \in Pids |-> "none"]
  /\ parent = [p \in Pids |-> Pid1]
  /\ service = {}
  /\ main = NoMain
  /\ starts = 0
  /\ kills = 0
  /\ overlapped = FALSE

-----------------------------------------------------------------------------
\* Mutant: os.FindProcess, which on Unix finds a process for every pid.
AliveForAnyPid(x) == x \in Pids

\* ps.FindProcess finds a process of any kind, also one that is exiting.
Alive(x) == x \in Pids /\ proc[x] # "none"

\* A new daemon's pid is not the one in the file.
FreePid(p) == proc[p] = "none" /\ p # file

At(p, from) == p \in Pids /\ proc[p] = from

Moves(p, from, to) ==
  /\ At(p, from)
  /\ proc' = [proc EXCEPT ![p] = to]

\* The processes in S are gone; their children are adopted by pid 1.
Die(S) ==
  /\ proc' = [p \in Pids |-> IF p \in S THEN "none" ELSE proc[p]]
  /\ parent' = [p \in Pids |-> IF parent[p] \in S THEN Pid1 ELSE parent[p]]
  /\ service' = service \ S
  /\ main' = IF main \in S THEN NoMain ELSE main

Exit(p) == Die({p}) /\ UNCHANGED <<file, starts, kills>>

\* exec.Command(os.Args[0], "upgrade", "daemon").Start() and os.Exit(0): the
\* child is there before the parent has gone.
Spawn(p, q) ==
  /\ FreePid(q)
  /\ proc' = [proc EXCEPT ![p] = "exiting", ![q] = "check"]
  /\ parent' = [parent EXCEPT ![q] = p]
  /\ service' = IF p \in service THEN service \cup {q} ELSE service
  /\ UNCHANGED <<file, main, starts, kills>>

(* Who starts a process.                                                   *)

SystemdStarts(p) ==
  /\ main = NoMain /\ service = {}
  /\ FreePid(p)
  /\ main' = p
  /\ service' = {p}
  /\ proc' = [proc EXCEPT ![p] = "check"]
  /\ parent' = [parent EXCEPT ![p] = Pid1]
  /\ UNCHANGED <<file, starts, kills>>

OperatorStarts(p) ==
  /\ starts < MaxStarts
  /\ starts' = starts + 1
  /\ FreePid(p)
  /\ proc' = [proc EXCEPT ![p] = "check"]
  /\ parent' = [parent EXCEPT ![p] = Shell]
  /\ UNCHANGED <<file, service, main, kills>>

\* An unrelated program starts, and may get a pid that was a daemon's.
ForeignStarts(p) ==
  /\ starts < MaxStarts
  /\ starts' = starts + 1
  /\ proc[p] = "none" /\ (Reuse \/ p # file)
  /\ proc' = [proc EXCEPT ![p] = "foreign"]
  /\ UNCHANGED <<file, parent, service, main, kills>>

(* UpgradeCommandDeal.                                                     *)

\* checkDcDeamonStatusDc: the daemon has been started already.
CheckFindsDaemon(p) == At(p, "check") /\ Alive(file) /\ Exit(p)

Check(p) ==
  /\ ~Alive(file)
  /\ parent[p] = Pid1
  /\ Moves(p, "check", "stat")
  /\ UNCHANGED <<file, parent, service, main, starts, kills>>

Fork(p) ==
  /\ At(p, "check")
  /\ ~Alive(file)
  /\ parent[p] # Pid1
  /\ \E q \in Pids : Spawn(p, q)

(* daemonCommandDeal.                                                      *)

Stat(p) ==
  /\ Moves(p, "stat", IF file = Absent THEN "create" ELSE "read")
  /\ UNCHANGED <<file, parent, service, main, starts, kills>>

\* os.Create truncates a file that has appeared in the meantime.
Create(p) ==
  /\ Moves(p, "create", "read")
  /\ file' = Empty
  /\ UNCHANGED <<parent, service, main, starts, kills>>

\* Mutant: a process that finds a dead one's pid does not write its own.
ReadTakesOver(p) ==
  /\ file # Absent /\ ~Alive(file)
  /\ Moves(p, "read", IF file = Empty THEN "truncate" ELSE "loop")
  /\ UNCHANGED <<file, parent, service, main, starts, kills>>

\* Empty, or the pid it names is not alive.
Read(p) ==
  /\ file # Absent /\ ~Alive(file)
  /\ Moves(p, "read", "truncate")
  /\ UNCHANGED <<file, parent, service, main, starts, kills>>

\* The file has been removed, or names a process that is alive.
ReadFindsDaemon(p) ==
  /\ At(p, "read")
  /\ file = Absent \/ Alive(file)
  /\ Exit(p)

\* os.WriteFile truncates and then writes.
Truncate(p) ==
  /\ Moves(p, "truncate", "fill")
  /\ file' = Empty
  /\ UNCHANGED <<parent, service, main, starts, kills>>

Fill(p) ==
  /\ Moves(p, "fill", "loop")
  /\ file' = p
  /\ UNCHANGED <<parent, service, main, starts, kills>>

\* upgradeDeal has upgraded the node and restarts the daemon.
HandOver(p) ==
  /\ At(p, "loop")
  /\ \E q \in Pids : Spawn(p, q)

Gone(p) == At(p, "exiting") /\ Exit(p)

\* SIGTERM is taken between two ticks.
Quit(p) ==
  /\ At(p, "loop")
  /\ kills < MaxKills
  /\ kills' = kills + 1
  /\ file' = Absent
  /\ Die({p})
  /\ UNCHANGED starts

\* SIGKILL, or a crash: the file stays.
Kill(p) ==
  /\ proc[p] \notin {"none", "foreign"}
  /\ kills < MaxKills
  /\ kills' = kills + 1
  /\ Die({p})
  /\ UNCHANGED <<file, starts>>

\* When its main process has gone, systemd terminates what is left of the
\* service (KillMode is the default, control-group).  A daemon removes its
\* file unless it is busy or asleep until SIGKILL follows.
Sweep ==
  /\ main = NoMain /\ service # {}
  /\ file' \in {file} \cup {Absent : p \in {q \in service : proc[q] = "loop"}}
  /\ Die(service)
  /\ UNCHANGED <<starts, kills>>

Step(p) ==
  \/ CheckFindsDaemon(p) \/ Check(p) \/ Fork(p)
  \/ Stat(p) \/ Create(p) \/ Read(p) \/ ReadFindsDaemon(p)
  \/ Truncate(p) \/ Fill(p) \/ Gone(p)

Overlap == \E p, q \in Pids : p # q /\ proc[p] \in Starting /\ proc[q] \in Starting

Recorded == overlapped' = (overlapped \/ Overlap')

Action(p) ==
  \/ Step(p) \/ HandOver(p)
  \/ SystemdStarts(p) \/ OperatorStarts(p) \/ ForeignStarts(p)
  \/ Quit(p) \/ Kill(p)

Next ==
  \/ \E p \in Pids : Action(p) /\ Recorded
  \/ Sweep /\ Recorded

Spec == Init /\ [][Next]_vars

\* Processes run, and systemd does what the unit file asks of it.
Fairness ==
  /\ \A p \in Pids : WF_vars(Step(p) /\ Recorded)
  /\ WF_vars(Sweep /\ Recorded)
  /\ WF_vars(\E p \in Pids : SystemdStarts(p) /\ Recorded)

FairSpec == Spec /\ Fairness

-----------------------------------------------------------------------------
Daemons == {p \in Pids : proc[p] = "loop"}

\* command.go:313, "Determine whether the daemon has been started", and the
\* log at :672, "dcmanager daemon already on running": no two processes run
\* the upgrade loop.
AtMostOneDaemon == Cardinality(Daemons) <= 1

\* The file names the process that runs the loop, so that the next process
\* finds it, and there is one at most: until two processes are on their way
\* to become the daemon at once.
PidFileNamesDaemon == ~overlapped => \A p \in Daemons : file = p

\* command.go:312, "Enter daemon mode ... and set it to boot and restart":
\* the loop is run again and again.  Only a chain of forks of a process that
\* the operator started, each of which looks at its parent before that one
\* has gone, could prevent it and is left out.
OnlyServiceStarts == \A p \in Pids : proc[p] \in Starting => p \in service
DaemonReturns == <>[]OnlyServiceStarts => []<>(Daemons # {})
=============================================================================
