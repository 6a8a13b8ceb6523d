------------------------ MODULE ManagerConfigProofs ------------------------
(***************************************************************************)
(* What the configuration keeps, for any number of processes, settings and *)
(* values, whatever order they read, change, save and die in.              *)
(***************************************************************************)
EXTENDS ManagerConfig, TLAPS

Regular == ~torn /\ ~stale

\* c holds everything that has been saved, but for the settings in open.
Keeps(c, open) ==
  \A f \in Field \ open : accepted[f] # Blank => c[f] = accepted[f]

\* The file is there before it is read or filled, and before anything counts
\* as saved.
FileOK ==
  /\ \A p \in Proc : cfg[p] \in {"read", "fill", "fill_new"} => exists
  /\ ~exists => \A f \in Field : accepted[f] = Blank

\* Only a copy about to be saved differs from what was read.
DirtyOK == \A p \in Proc : dirty[p] # {} => cfg[p] \in {"truncate", "fill"}

\* The file, and every copy that is not outdated, hold what has been saved;
\* the defaults are written only before anything has been.
CopiesOK ==
  Regular =>
    /\ (exists /\ ~empty) => Keeps(content, {})
    /\ \A p \in Proc \ outdated :
         /\ cfg[p] \in {"ready", "truncate", "fill"} => Keeps(mem[p], dirty[p])
         /\ cfg[p] \in {"truncate_new", "fill_new"} =>
              \A f \in Field : accepted[f] = Blank

ConfigInv == ConfigTypeOK /\ FileOK /\ DirtyOK /\ CopiesOK

-----------------------------------------------------------------------------
LEMMA ConfigInvInit == ConfigInit => ConfigInv
<1> SUFFICES ASSUME ConfigInit PROVE ConfigInv
  OBVIOUS
<1>1. AllBlank \in Config
  BY DEF AllBlank, Config, Values
<1>2. ConfigTypeOK
  BY <1>1, ConfigAssumption DEF ConfigInit, ConfigTypeOK, CfgPcs
<1>3. FileOK /\ DirtyOK /\ CopiesOK
  BY DEF ConfigInit, FileOK, DirtyOK, CopiesOK, Keeps, AllBlank
<1> QED
  BY <1>2, <1>3 DEF ConfigInv

LEMMA ConfigTypes == ConfigTypeOK /\ [ConfigNext]_configVars => ConfigTypeOK'
<1> SUFFICES ASSUME ConfigTypeOK, [ConfigNext]_configVars PROVE ConfigTypeOK'
  OBVIOUS
<1> USE DEF ConfigTypeOK, CfgPcs, CfgMoves, fileState, history
<1>0. CASE UNCHANGED configVars
  BY <1>0 DEF configVars
<1>1. ASSUME NEW p \in Proc, Boot(p) \/ Stat(p) PROVE ConfigTypeOK'
  BY <1>1 DEF Boot, Stat
<1>2. ASSUME NEW p \in Proc, Load(p) PROVE ConfigTypeOK'
  <2> DEFINE read == IF empty THEN AllBlank ELSE content
  <2>1. read \in Config
    BY DEF AllBlank, Config, Values
  <2>2. \A name \in Names : [read EXCEPT ![Name] = name] \in Config
    BY <2>1, ConfigAssumption DEF Config, Values
  <2>3. mem' \in [Proc -> Config] /\ dirty' \in [Proc -> SUBSET Field]
    BY <1>2, <2>1, <2>2, ConfigAssumption DEF Load
  <2>4. cfg' \in [Proc -> CfgPcs]
    BY <1>2 DEF Load
  <2>5. torn' \in BOOLEAN
    BY <1>2 DEF Load
  <2> QED
    BY <1>2, <2>3, <2>4, <2>5 DEF Load
<1>3. ASSUME NEW p \in Proc, NEW new \in Config, Change(p, new) PROVE ConfigTypeOK'
  BY <1>3 DEF Change
<1>4. ASSUME NEW p \in Proc, Truncate(p) PROVE ConfigTypeOK'
  BY <1>4 DEF Truncate
<1>5. ASSUME NEW p \in Proc, Fill(p) PROVE ConfigTypeOK'
  <2>1. accepted' \in Config
    BY <1>5 DEF Fill, Config
  <2>2. stale' \in BOOLEAN
    BY <1>5 DEF Fill
  <2>3. cfg' \in [Proc -> CfgPcs]
    BY <1>5 DEF Fill
  <2>4. content' \in Config /\ dirty' \in [Proc -> SUBSET Field] /\ outdated' \subseteq Proc
    BY <1>5 DEF Fill
  <2> QED
    BY <1>5, <2>1, <2>2, <2>3, <2>4 DEF Fill
<1>6. ASSUME NEW p \in Proc, Leave(p) PROVE ConfigTypeOK'
  BY <1>6, ConfigAssumption DEF Leave
<1> QED
  BY <1>0, <1>1, <1>2, <1>3, <1>4, <1>5, <1>6 DEF ConfigNext, Starting, Writing

\* The file stays, and nobody reads or fills one that is not there.
LEMMA FileStep == ConfigInv /\ [ConfigNext]_configVars => FileOK' /\ DirtyOK'
<1> SUFFICES ASSUME ConfigInv, [ConfigNext]_configVars PROVE FileOK' /\ DirtyOK'
  OBVIOUS
<1> USE DEF ConfigInv, ConfigTypeOK, FileOK, DirtyOK, CfgMoves, fileState, history
<1>0. CASE UNCHANGED configVars
  BY <1>0 DEF configVars
<1>1. ASSUME NEW p \in Proc, Boot(p) \/ Stat(p) PROVE FileOK' /\ DirtyOK'
  BY <1>1 DEF Boot, Stat
<1>2. ASSUME NEW p \in Proc, Load(p) PROVE FileOK' /\ DirtyOK'
  BY <1>2 DEF Load
<1>3. ASSUME NEW p \in Proc, NEW new \in Config, Change(p, new) PROVE FileOK' /\ DirtyOK'
  BY <1>3 DEF Change
<1>4. ASSUME NEW p \in Proc, Truncate(p) PROVE FileOK' /\ DirtyOK'
  BY <1>4 DEF Truncate
<1>5. ASSUME NEW p \in Proc, Fill(p) PROVE FileOK' /\ DirtyOK'
  BY <1>5 DEF Fill
<1>6. ASSUME NEW p \in Proc, Leave(p) PROVE FileOK' /\ DirtyOK'
  BY <1>6 DEF Leave
<1> QED
  BY <1>0, <1>1, <1>2, <1>3, <1>4, <1>5, <1>6 DEF ConfigNext, Starting, Writing

LEMMA CopiesStep == ConfigInv /\ [ConfigNext]_configVars => CopiesOK'
<1> SUFFICES ASSUME ConfigInv, [ConfigNext]_configVars, Regular' PROVE CopiesOK'
  BY DEF CopiesOK
<1> USE DEF ConfigInv, ConfigTypeOK, CopiesOK, Regular, CfgMoves, fileState, history
<1>0. CASE UNCHANGED configVars
  BY <1>0 DEF configVars, Keeps
<1>1. ASSUME NEW p \in Proc, Boot(p) PROVE CopiesOK'
  BY <1>1 DEF Boot, Keeps
<1>2. ASSUME NEW p \in Proc, Stat(p) PROVE CopiesOK'
  BY <1>2 DEF Stat, Keeps, FileOK
<1>3. ASSUME NEW p \in Proc, Load(p) PROVE CopiesOK'
  <2>1. ~empty /\ exists /\ Keeps(content, {}) /\ dirty[p] = {}
    BY <1>3 DEF Load, FileOK, DirtyOK
  <2>2. UNCHANGED <<fileState, accepted, stale>>
    BY <1>3 DEF Load
  <2>3. Keeps(mem[p], dirty[p])'
    BY <1>3, <2>1 DEF Load, Keeps, Config
  <2>4. \A q \in Proc \ {p} : /\ cfg'[q] = cfg[q] /\ mem'[q] = mem[q]
                              /\ dirty'[q] = dirty[q]
                              /\ q \in outdated' <=> q \in outdated
    BY <1>3 DEF Load
  <2>5. cfg'[p] \in {"ready", "truncate"}
    BY <1>3 DEF Load
  <2>6. Regular
    BY <1>3 DEF Load
  <2>7. \A q \in Proc \ outdated' :
          /\ cfg'[q] \in {"ready", "truncate", "fill"} => Keeps(mem[q], dirty[q])'
          /\ cfg'[q] \in {"truncate_new", "fill_new"} =>
               \A f \in Field : accepted'[f] = Blank
    BY <2>2, <2>3, <2>4, <2>5, <2>6 DEF Keeps
  <2>8. Keeps(content, {})'
    BY <2>1, <2>2 DEF Keeps
  <2> QED
    BY <2>7, <2>8
<1>4. ASSUME NEW p \in Proc, NEW new \in Config, Change(p, new) PROVE CopiesOK'
  <2>1. p \notin outdated => Keeps(mem[p], {})
    BY <1>4 DEF Change, DirtyOK
  <2>2. UNCHANGED <<fileState, accepted, outdated, stale, torn>>
    BY <1>4 DEF Change
  <2>3. p \notin outdated => Keeps(mem[p], dirty[p])'
    BY <1>4, <2>1, <2>2 DEF Change, Keeps
  <2>4. \A q \in Proc \ {p} : cfg'[q] = cfg[q] /\ mem'[q] = mem[q] /\ dirty'[q] = dirty[q]
    BY <1>4 DEF Change
  <2>5. cfg'[p] = "truncate"
    BY <1>4 DEF Change
  <2> QED
    BY <2>2, <2>3, <2>4, <2>5 DEF Keeps
<1>5. ASSUME NEW p \in Proc, Truncate(p) PROVE CopiesOK'
  BY <1>5 DEF Truncate, Keeps
<1>6. ASSUME NEW p \in Proc, Fill(p) PROVE CopiesOK'
  <2>1. p \notin outdated /\ Regular
    BY <1>6 DEF Fill
  <2>2. Keeps(mem[p], dirty[p])
    BY <1>6, <2>1 DEF Fill, Keeps
  <2>3. Keeps(mem[p], {})'
    BY <1>6, <2>2 DEF Fill, Keeps
  <2>4. content' = mem[p] /\ mem' = mem /\ dirty'[p] = {}
    BY <1>6 DEF Fill
  <2>5. \A q \in Proc \ outdated' : q = p \/ cfg'[q] = "off"
    BY <1>6 DEF Fill
  <2>6. cfg'[p] \in {"ready", "read"}
    BY <1>6 DEF Fill
  <2> QED
    BY <2>3, <2>4, <2>5, <2>6 DEF Keeps
<1>7. ASSUME NEW p \in Proc, Leave(p) PROVE CopiesOK'
  BY <1>7 DEF Leave, Keeps
<1> QED
  BY <1>0, <1>1, <1>2, <1>3, <1>4, <1>5, <1>6, <1>7 DEF ConfigNext, Starting, Writing

\* The file and the copies of it hold what has been saved.
THEOREM ConfigInvariant == ConfigSpec => []ConfigInv
<1>1. ConfigInv /\ [ConfigNext]_configVars => ConfigInv'
  BY ConfigTypes, FileStep, CopiesStep DEF ConfigInv
<1> QED
  BY <1>1, ConfigInvInit, PTL DEF ConfigSpec

\* Saved settings stay saved.
THEOREM SavedSettingsKept == ConfigSpec => []AcceptedKept
<1>1. ConfigInv => AcceptedKept
  BY DEF ConfigInv, CopiesOK, Regular, Keeps, AcceptedKept
<1> QED
  BY <1>1, ConfigInvariant, PTL
=============================================================================
