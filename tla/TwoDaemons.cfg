SPECIFICATION Spec
CONSTANTS
  Pids <- FourPids
  Pid1 = Pid1
  Shell = Shell
  Absent = Absent
  Empty = Empty
  NoMain = NoMain
  Reuse = FALSE
  MaxStarts = 1
  MaxKills = 0
  p1 = p1
  p2 = p2
  p3 = p3
  p4 = p4
INVARIANTS AtMostOneDaemon
