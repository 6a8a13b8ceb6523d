--------------------------- MODULE ManagerConfig ---------------------------
(***************************************************************************)
(* The configuration file manage_config.yaml.  Every process reads all of  *)
(* it once, when it starts, and writes back all of its copy whenever it    *)
(* changes a setting; os.WriteFile truncates the file and then fills it.   *)
(* An empty file is valid yaml for a configuration in which every setting  *)
(* is blank.                                                               *)
(***************************************************************************)
EXTENDS DcProcesses

CONSTANTS
  Field,    \* the settings
  Value,    \* what they can be set to
  Blank,    \* the setting is empty
  Default,  \* the compiled-in configuration
  Name,     \* the setting chainNodeName
  Names     \* what util.RandStringBytes may give for it

Values == Value \cup {Blank}
Config == [Field -> Values]
AllBlank == [f \in Field |-> Blank]

ASSUME ConfigAssumption ==
  /\ Default \in Config
  /\ Blank \notin Value
  /\ Name \in Field
  /\ Names \subseteq Value

VARIABLES
  exists,    \* there is a configuration file
  empty,     \* it has been truncated and not filled again
  content,   \* what it holds otherwise
  cfg,       \* what each process does with it
  mem,       \* RunningConfig of each process

  \* history
  accepted,  \* for each setting the last value saved for it, or Blank
  dirty,     \* the settings each process has changed and not saved
  outdated,  \* processes that have read before another one saved
  stale,     \* an outdated process has saved
  torn       \* an empty file has been read

fileState == <<exists, empty, content>>
history == <<accepted, dirty, outdated, stale, torn>>
configVars == <<fileState, cfg, mem, history>>

CfgPcs == {"off", "stat", "truncate_new", "fill_new", "read", "ready",
           "truncate", "fill"}

ConfigTypeOK ==
  /\ exists \in BOOLEAN
  /\ empty \in BOOLEAN
  /\ content \in Config
  /\ cfg \in [Proc -> CfgPcs]
  /\ mem \in [Proc -> Config]
  /\ accepted \in Config
  /\ dirty \in [Proc -> SUBSET Field]
  /\ outdated \subseteq Proc
  /\ stale \in BOOLEAN
  /\ torn \in BOOLEAN

ConfigInit ==
  /\ exists \in BOOLEAN
  /\ empty = FALSE
  /\ content \in Config
  /\ IF exists THEN content[Name] # Blank ELSE content = Default
  /\ cfg = [p \in Proc |-> "off"]
  /\ mem = [p \in Proc |-> Default]
  /\ accepted = AllBlank
  /\ dirty = [p \in Proc |-> {}]
  /\ outdated = {}
  /\ stale = FALSE
  /\ torn = FALSE

-----------------------------------------------------------------------------
CfgMoves(p, from, to) ==
  /\ cfg[p] = from
  /\ cfg' = [cfg EXCEPT ![p] = to]

(* main: every command starts with this.                                   *)

Boot(p) ==
  /\ CfgMoves(p, "off", "stat")
  /\ UNCHANGED <<fileState, mem, history>>

\* Mutant: any error of os.Stat counts as a missing file.
StatFails(p) ==
  /\ CfgMoves(p, "stat", "truncate_new")
  /\ UNCHANGED <<fileState, mem, history>>

\* RunningConfig still holds the defaults.
Stat(p) ==
  /\ \/ exists /\ CfgMoves(p, "stat", "read")
     \/ ~exists /\ CfgMoves(p, "stat", "truncate_new")
  /\ UNCHANGED <<fileState, mem, history>>

\* ReadConfig, and the name if there is none.
Load(p) ==
  LET read == IF empty THEN AllBlank ELSE content IN
  /\ \/ /\ read[Name] # Blank
        /\ CfgMoves(p, "read", "ready")
        /\ mem' = [mem EXCEPT ![p] = read]
        /\ UNCHANGED dirty
     \/ /\ read[Name] = Blank
        /\ CfgMoves(p, "read", "truncate")
        /\ \E name \in Names : mem' = [mem EXCEPT ![p] = [read EXCEPT ![Name] = name]]
        /\ dirty' = [dirty EXCEPT ![p] = {Name}]
  /\ outdated' = outdated \ {p}
  /\ torn' = (torn \/ empty)
  /\ UNCHANGED <<fileState, accepted, stale>>

(* What commands do with it.                                               *)

\* Some settings change, and SaveConfig is called.
Change(p, new) ==
  /\ CfgMoves(p, "ready", "truncate")
  /\ mem' = [mem EXCEPT ![p] = new]
  /\ dirty' = [dirty EXCEPT ![p] = {f \in Field : new[f] # mem[p][f]}]
  /\ UNCHANGED <<fileState, accepted, outdated, stale, torn>>

(* SaveConfig: os.WriteFile.                                               *)

\* Opening it with O_TRUNC, which creates it.
Truncate(p) ==
  /\ \/ CfgMoves(p, "truncate", "fill")
     \/ CfgMoves(p, "truncate_new", "fill_new")
  /\ exists' = TRUE
  /\ empty' = TRUE
  /\ UNCHANGED <<content, mem, history>>

Fill(p) ==
  /\ \/ CfgMoves(p, "fill", "ready")
     \/ CfgMoves(p, "fill_new", "read")
  /\ content' = mem[p]
  /\ empty' = FALSE
  /\ accepted' = [f \in Field |-> IF f \in dirty[p] THEN mem[p][f] ELSE accepted[f]]
  /\ dirty' = [dirty EXCEPT ![p] = {}]
  /\ stale' = (stale \/ p \in outdated)
  /\ outdated' = {q \in Proc : cfg[q] # "off"} \ {p}
  /\ UNCHANGED <<exists, mem, torn>>

\* The process ends, or is killed, at any point of this.
Leave(p) ==
  /\ cfg[p] # "off"
  /\ cfg' = [cfg EXCEPT ![p] = "off"]
  /\ mem' = [mem EXCEPT ![p] = Default]
  /\ dirty' = [dirty EXCEPT ![p] = {}]
  /\ outdated' = outdated \ {p}
  /\ UNCHANGED <<fileState, accepted, stale, torn>>

Starting(p) == Boot(p) \/ Stat(p) \/ Load(p)
Writing(p) == Truncate(p) \/ Fill(p)

ConfigNext ==
  \E p \in Proc :
    \/ Starting(p) \/ Writing(p) \/ Leave(p)
    \/ \E new \in Config : Change(p, new)

ConfigSpec == ConfigInit /\ [][ConfigNext]_configVars

-----------------------------------------------------------------------------
(* Properties.                                                             *)

\* A setting that has been saved is in the file, whoever saves other
\* settings before or after, crashes half-way or starts without a file,
\* as long as nobody has read the file while it was empty and nobody has
\* saved a copy that was read before another process saved.
AcceptedKept ==
  (~torn /\ ~stale /\ exists /\ ~empty) =>
    \A f \in Field : accepted[f] # Blank => content[f] = accepted[f]

\* main.go:36, "Determine whether the chain node name is empty. If it is
\* empty, generate a random chain node name": a name that the file holds is
\* never given up for another one.
NameKept ==
  [][ (exists /\ content[Name] # Blank) =>
        content'[Name] = content[Name] ]_configVars
=============================================================================
