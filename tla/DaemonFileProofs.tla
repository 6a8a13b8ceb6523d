-------------------------- MODULE DaemonFileProofs --------------------------
(***************************************************************************)
(* Until two processes are on their way to become the daemon at once, the  *)
(* pid file keeps `dc upgrade daemon` to one instance, for any number of   *)
(* processes, however often daemons are killed, told to quit, swept by     *)
(* systemd or hand over to a successor.                                    *)
(***************************************************************************)
EXTENDS DaemonFile, FiniteSetTheorems, TLAPS

(* Past the check, a process knows that nothing runs the loop; this is     *)
(* what makes the later truncation of the file harmless.                   *)

NoDaemonPastCheck ==
  \A p, q \in Pids : proc[p] \in Starting \ {"check"} => proc[q] # "loop"

FileNamed == \A p \in Daemons : file = p

FileInv ==
  /\ TypeOK
  /\ ~overlapped => ~Overlap /\ NoDaemonPastCheck /\ FileNamed

LEMMA FileInvInit == Init => FileInv
<1> SUFFICES ASSUME Init PROVE FileInv
  OBVIOUS
<1>1. TypeOK
  <2>1. proc \in [Pids -> Starting \cup {"none", "foreign", "loop", "exiting"}]
    BY DEF Init
  <2>2. starts \in 0 .. MaxStarts /\ kills \in 0 .. MaxKills
    BY DaemonFileAssumption DEF Init, DaemonFileAssumption
  <2>3. overlapped \in BOOLEAN
    BY Zenon DEF Init
  <2> QED
    BY <2>1, <2>2, <2>3 DEF Init, TypeOK
<1>2. ~Overlap /\ NoDaemonPastCheck /\ FileNamed
  BY DEF Init, Overlap, NoDaemonPastCheck, FileNamed, Daemons, Starting
<1> QED
  BY <1>1, <1>2 DEF FileInv

\* Every process and every file content stays in its range.
LEMMA TypeStep == ASSUME DaemonFileAssumption, TypeOK, [Next]_vars PROVE TypeOK'
<1> DEFINE T == /\ file \in Pids \cup {Absent, Empty}
                /\ proc \in [Pids -> Starting \cup {"none", "foreign", "loop", "exiting"}]
                /\ parent \in [Pids -> Pids \cup {Pid1, Shell}]
                /\ service \in SUBSET Pids
                /\ main \in Pids \cup {NoMain}
                /\ starts \in 0 .. MaxStarts
                /\ kills \in 0 .. MaxKills
<1> USE DEF TypeOK, DaemonFileAssumption, Starting
<1>1. ASSUME NEW S \in SUBSET Pids, Die(S)
      PROVE  /\ proc' \in [Pids -> Starting \cup {"none", "foreign", "loop", "exiting"}]
             /\ parent' \in [Pids -> Pids \cup {Pid1, Shell}]
             /\ service' \in SUBSET Pids /\ main' \in Pids \cup {NoMain}
  BY <1>1 DEF Die
<1>2. ASSUME NEW p \in Pids, NEW q \in Pids, Spawn(p, q) PROVE T'
  BY <1>2 DEF Spawn, FreePid
<1>3. ASSUME NEW p \in Pids, Exit(p) PROVE T'
  BY <1>1, <1>3 DEF Exit
<1>4. ASSUME NEW p \in Pids, Step(p) PROVE T'
  <2>1. CASE CheckFindsDaemon(p)
    BY <2>1, <1>3 DEF CheckFindsDaemon
  <2>2. CASE Check(p)
    BY <2>2 DEF Check, Moves
  <2>3. CASE Fork(p)
    BY <2>3, <1>2 DEF Fork
  <2>4. CASE Stat(p)
    BY <2>4 DEF Stat, Moves
  <2>5. CASE Create(p)
    BY <2>5 DEF Create, Moves
  <2>6. CASE Read(p)
    BY <2>6 DEF Read, Moves
  <2>7. CASE ReadFindsDaemon(p)
    BY <2>7, <1>3 DEF ReadFindsDaemon
  <2>8. CASE Truncate(p)
    BY <2>8 DEF Truncate, Moves
  <2>9. CASE Fill(p)
    BY <2>9 DEF Fill, Moves
  <2>10. CASE Gone(p)
    BY <2>10, <1>3 DEF Gone
  <2> QED
    BY <1>4, <2>1, <2>2, <2>3, <2>4, <2>5, <2>6, <2>7, <2>8, <2>9, <2>10 DEF Step
<1>5. ASSUME NEW p \in Pids, HandOver(p) PROVE T'
  BY <1>2, <1>5 DEF HandOver
<1>6. ASSUME NEW p \in Pids, SystemdStarts(p) PROVE T'
  BY <1>6 DEF SystemdStarts
<1>7. ASSUME NEW p \in Pids, OperatorStarts(p) PROVE T'
  BY <1>7 DEF OperatorStarts
<1>8. ASSUME NEW p \in Pids, ForeignStarts(p) PROVE T'
  BY <1>8 DEF ForeignStarts
<1>9. ASSUME NEW p \in Pids, Quit(p) PROVE T'
  BY <1>1, <1>9 DEF Quit
<1>10. ASSUME NEW p \in Pids, Kill(p) PROVE T'
  BY <1>1, <1>10 DEF Kill
<1>11. ASSUME Sweep PROVE T'
  BY <1>1, <1>11 DEF Sweep
<1>12. ASSUME UNCHANGED vars PROVE T'
  BY <1>12 DEF vars
<1>13. overlapped' \in BOOLEAN
  BY DEF Next, Recorded, vars, TypeOK
<1> QED
  BY <1>4, <1>5, <1>6, <1>7, <1>8, <1>9, <1>10, <1>11, <1>12, <1>13 DEF Next, Action, Recorded

\* Nothing but a step of Next changes what FileInv is about, and as long as
\* overlapped stays false, so do Overlap before and after it.
LEMMA Alone ==
  ASSUME FileInv, [Next]_vars, ~overlapped'
  PROVE  ~overlapped /\ ~Overlap /\ ~Overlap' /\ NoDaemonPastCheck /\ FileNamed
<1>1. CASE UNCHANGED vars
  BY <1>1 DEF vars, FileInv, Overlap
<1>2. CASE Next
  <2>1. overlapped' = (overlapped \/ Overlap')
    BY <1>2 DEF Next, Recorded
  <2> QED
    BY <2>1 DEF FileInv, TypeOK
<1> QED
  BY <1>1, <1>2

\* The rest of FileInv: one step per action.
LEMMA FileInvStep ==
  ASSUME DaemonFileAssumption, FileInv, [Next]_vars
  PROVE  FileInv'
<1>1. TypeOK'
  BY TypeStep DEF FileInv
<1> SUFFICES ASSUME ~overlapped' PROVE ~Overlap' /\ NoDaemonPastCheck' /\ FileNamed'
  BY <1>1 DEF FileInv
<1>15. ~Overlap /\ ~Overlap' /\ NoDaemonPastCheck /\ FileNamed
  BY Alone
<1> USE <1>15 DEF Overlap, NoDaemonPastCheck, FileNamed, Daemons, Starting, Alive
<1> DEFINE Rest == NoDaemonPastCheck /\ FileNamed
<1>2. /\ proc \in [Pids -> Starting \cup {"none", "foreign", "loop", "exiting"}]
      /\ Absent \notin Pids /\ Empty \notin Pids
  BY DEF FileInv, TypeOK, DaemonFileAssumption
\* Processes that end leave the others as they were.
<1>3. ASSUME NEW S \in SUBSET Pids, Die(S),
             file' = file \/ \A p \in Pids \ S : proc[p] # "loop"
      PROVE  Rest'
  BY <1>2, <1>3 DEF Die
<1>4. ASSUME NEW p \in Pids, Exit(p) PROVE Rest'
  BY <1>3, <1>4 DEF Exit
<1>5. ASSUME NEW p \in Pids, NEW q \in Pids, Spawn(p, q)
      PROVE  Rest'
  BY <1>2, <1>5 DEF Spawn, FreePid
<1>6. ASSUME NEW p \in Pids, Step(p) PROVE Rest'
  <2>1. CASE CheckFindsDaemon(p)
    BY <2>1, <1>4 DEF CheckFindsDaemon
  <2>2. CASE Check(p)
    BY <2>2, <1>2 DEF Check, Moves, At
  <2>3. CASE Fork(p)
    BY <2>3, <1>5 DEF Fork, At
  <2>4. CASE Stat(p)
    BY <2>4, <1>2 DEF Stat, Moves, At
  <2>5. CASE Create(p)
    BY <2>5, <1>2 DEF Create, Moves, At
  <2>6. CASE Read(p)
    BY <2>6, <1>2 DEF Read, Moves, At
  <2>7. CASE ReadFindsDaemon(p)
    BY <2>7, <1>4 DEF ReadFindsDaemon
  <2>8. CASE Truncate(p)
    BY <2>8, <1>2 DEF Truncate, Moves, At
  <2>9. CASE Fill(p)
    BY <2>9, <1>2 DEF Fill, Moves, At
  <2>10. CASE Gone(p)
    BY <2>10, <1>4 DEF Gone
  <2> QED
    BY <1>6, <2>1, <2>2, <2>3, <2>4, <2>5, <2>6, <2>7, <2>8, <2>9, <2>10 DEF Step
<1>7. ASSUME NEW p \in Pids, HandOver(p) PROVE Rest'
  BY <1>5, <1>7 DEF HandOver
<1>8. ASSUME NEW p \in Pids, SystemdStarts(p) PROVE Rest'
  BY <1>2, <1>8 DEF SystemdStarts, FreePid
<1>9. ASSUME NEW p \in Pids, OperatorStarts(p) PROVE Rest'
  BY <1>2, <1>9 DEF OperatorStarts, FreePid
<1>10. ASSUME NEW p \in Pids, ForeignStarts(p) PROVE Rest'
  BY <1>2, <1>10 DEF ForeignStarts
<1>11. ASSUME NEW p \in Pids, Quit(p) PROVE Rest'
  BY <1>3, <1>11 DEF Quit, At
<1>12. ASSUME NEW p \in Pids, Kill(p) PROVE Rest'
  BY <1>3, <1>12 DEF Kill
<1>13. ASSUME Sweep PROVE Rest'
  <2>1. service \in SUBSET Pids /\ Die(service)
    BY <1>13 DEF Sweep, FileInv, TypeOK
  <2>2. file' = file \/ \E p \in service : proc[p] = "loop"
    BY <1>13 DEF Sweep
  <2>3. CASE file' = file
    BY <1>3, <2>1, <2>3
  <2>4. CASE \E p \in service : proc[p] = "loop"
    <3>1. \A q \in Pids \ service : proc[q] # "loop"
      BY <2>1, <2>4
    <3> QED
      BY <1>3, <2>1, <3>1
  <2> QED
    BY <2>2, <2>3, <2>4
<1>14. ASSUME UNCHANGED vars PROVE Rest'
  BY <1>14 DEF vars
<1> QED
  BY <1>1, <1>6, <1>7, <1>8, <1>9, <1>10, <1>11, <1>12, <1>13, <1>14 DEF Next, Action, Recorded

LEMMA FileInvariant == Spec => []FileInv
<1>1. FileInv /\ [Next]_vars => FileInv'
  BY FileInvStep, DaemonFileAssumption
<1> QED
  BY FileInvInit, <1>1, PTL DEF Spec

\* Until two processes start at once, the file names the process that runs the
\* upgrade loop, if there is one: what daemonCommandDeal (command.go:638-680)
\* writes is not overwritten.
THEOREM FileNamesDaemon == Spec => []PidFileNamesDaemon
<1>1. FileInv => PidFileNamesDaemon
  BY DEF FileInv, PidFileNamesDaemon, FileNamed
<1> QED
  BY FileInvariant, <1>1, PTL

\* Hence at most one process runs the upgrade loop (command.go:313, :672).
THEOREM SingleDaemon == Spec => [](~overlapped => AtMostOneDaemon)
<1>1. PidFileNamesDaemon => (~overlapped => AtMostOneDaemon)
  <2> SUFFICES ASSUME PidFileNamesDaemon, ~overlapped PROVE Cardinality(Daemons) <= 1
    BY DEF AtMostOneDaemon
  <2>1. Daemons \in SUBSET {file}
    BY DEF PidFileNamesDaemon, Daemons
  <2>2. IsFiniteSet({file}) /\ Cardinality({file}) = 1
    BY FS_Singleton
  <2>3. Cardinality(Daemons) <= Cardinality({file})
    BY <2>1, <2>2, FS_Subset
  <2> QED
    BY <2>2, <2>3
<1> QED
  BY FileNamesDaemon, <1>1, PTL
=============================================================================
