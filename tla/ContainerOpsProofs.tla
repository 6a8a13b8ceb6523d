------------------------- MODULE ContainerOpsProofs -------------------------
(***************************************************************************)
(* Starts of a container that run into each other, for any number of       *)
(* processes, images and calls.                                            *)
(***************************************************************************)
EXTENDS ContainerOps, TLAPS

\* Ids are given once: a new container is not one that anybody knows.
IdsOK ==
  /\ box.id <= made
  /\ \A p \in Proc : cid[p] <= made
  /\ box.running => box.there

\* The id that a start is about to inspect or run is of its image, as long
\* as there is a container with that id.
ClaimsOK ==
  \A p \in Proc :
    (call[p] \in {"inspect", "run"} /\ Found(p)) => box.image = want[p].image

\* Somebody is on the way to create the container.
Creating == \E p \in Proc : call[p] \in {"list", "create", "create_again"}

\* Somebody is on the way to run or replace it.
Running ==
  \E p \in Proc :
    \/ call[p] \in {"list", "create", "stop_old", "remove_old"}
    \/ call[p] \in {"inspect", "run"} /\ cid[p] = box.id

\* While a start is due, some call is on the way to what is missing.
DueOK ==
  due => /\ NoneAgainst
         /\ ~box.there => Creating
         /\ (box.there /\ ~box.running) => Running

OpsInv == OpsTypeOK /\ IdsOK /\ ClaimsOK /\ DueOK

-----------------------------------------------------------------------------
LEMMA OpsInvInit == OpsInit => OpsInv
<1> SUFFICES ASSUME OpsInit PROVE OpsInv
  OBVIOUS
<1>1. OpsTypeOK
  <2>1. want \in [Proc -> Wants]
    BY DEF OpsInit
  <2>2. call \in [Proc -> Calls] /\ cid \in [Proc -> Nat] /\ made \in Nat /\ due \in BOOLEAN
    BY DEF OpsInit, Calls, Outcomes
  <2>3. box \in Boxes
    BY DEF OpsInit, Boxes
  <2> QED
    BY <2>1, <2>2, <2>3 DEF OpsTypeOK
<1>2. IdsOK /\ ClaimsOK /\ DueOK
  BY DEF OpsInit, IdsOK, ClaimsOK, DueOK
<1> QED
  BY <1>1, <1>2 DEF OpsInv

LEMMA OpsTypes == OpsTypeOK /\ [OpsNext]_opsVars => OpsTypeOK'
<1> SUFFICES ASSUME OpsTypeOK, [OpsNext]_opsVars PROVE OpsTypeOK'
  OBVIOUS
<1> USE DEF OpsTypeOK, Boxes, Wants, Calls, StartCalls, StopCalls, RemoveCalls,
            Outcomes, Goes, SetRunning, DropBox
<1>0. CASE UNCHANGED opsVars
  BY <1>0 DEF opsVars
<1>a. ASSUME NEW p \in Proc, MakeBox(p)
      PROVE  box' \in Boxes /\ made' \in Nat /\ cid' \in [Proc -> Nat]
  <2>1. want[p].image \in Image /\ want[p].args \in Args
    OBVIOUS
  <2> QED
    BY <1>a, <2>1 DEF MakeBox
<1>1. ASSUME NEW p \in Proc, Request(p) PROVE OpsTypeOK'
  <2>1. ASSUME NEW w \in Wants, CallStart(p, w) PROVE OpsTypeOK'
    <3>1. want' \in [Proc -> Wants] /\ call' \in [Proc -> Calls]
      BY <2>1 DEF CallStart
    <3>2. due' \in BOOLEAN
      BY <2>1 DEF CallStart, NoneAgainst
    <3> QED
      BY <2>1, <3>1, <3>2 DEF CallStart
  <2>2. CASE CallStop(p) \/ CallRemove(p)
    BY <2>2 DEF CallStop, CallRemove
  <2> QED
    BY <1>1, <2>1, <2>2 DEF Request
<1>2. ASSUME NEW p \in Proc, StartSteps(p) PROVE OpsTypeOK'
  <2>1. CASE List(p) \/ Inspect(p)
    BY <2>1 DEF List, Inspect
  <2>2. CASE Create(p)
    BY <2>2, <1>a DEF Create
  <2>3. CASE CreateAgain(p)
    BY <2>3, <1>a DEF CreateAgain
  <2>4. CASE StopOldBox(p)
    BY <2>4 DEF StopOldBox
  <2>5. CASE RemoveOldBox(p)
    BY <2>5 DEF RemoveOldBox
  <2>6. CASE RunBox(p)
    BY <2>6 DEF RunBox
  <2> QED
    BY <1>2, <2>1, <2>2, <2>3, <2>4, <2>5, <2>6 DEF StartSteps
<1>3. ASSUME NEW p \in Proc, StopSteps(p) PROVE OpsTypeOK'
  <2>1. CASE Find(p)
    BY <2>1 DEF Find
  <2>2. CASE Halt(p)
    BY <2>2 DEF Halt
  <2> QED
    BY <1>3, <2>1, <2>2 DEF StopSteps
<1>4. ASSUME NEW p \in Proc, RemoveSteps(p) PROVE OpsTypeOK'
  <2>1. CASE Look(p) \/ Examine(p)
    BY <2>1 DEF Look, Examine
  <2>2. CASE StopListed(p)
    BY <2>2 DEF StopListed
  <2>3. CASE RemoveListed(p)
    BY <2>3 DEF RemoveListed
  <2> QED
    BY <1>4, <2>1, <2>2, <2>3 DEF RemoveSteps
<1>5. ASSUME NEW p \in Proc, CallFails(p) \/ CallDone(p) PROVE OpsTypeOK'
  <2>1. CASE CallFails(p)
    BY <2>1 DEF CallFails
  <2>2. CASE CallDone(p)
    BY <2>2 DEF CallDone
  <2> QED
    BY <1>5, <2>1, <2>2
<1>6. ASSUME NEW p \in Proc, CallLost(p) PROVE OpsTypeOK'
  <2>1. due' \in BOOLEAN
    BY <1>6 DEF CallLost
  <2> QED
    BY <1>6, <2>1 DEF CallLost
<1> QED
  BY <1>0, <1>1, <1>2, <1>3, <1>4, <1>5, <1>6 DEF OpsNext, DockerStep

\* No call gives an id twice, and none starts another image's container.
LEMMA OpsIds == OpsTypeOK /\ IdsOK /\ ClaimsOK /\ [OpsNext]_opsVars => IdsOK' /\ ClaimsOK'
<1> SUFFICES ASSUME OpsTypeOK, IdsOK, ClaimsOK, [OpsNext]_opsVars
             PROVE  IdsOK' /\ ClaimsOK'
  OBVIOUS
<1> USE DEF OpsTypeOK, Boxes, IdsOK, ClaimsOK, Found, Goes, MakeBox, SetRunning, DropBox
<1>0. CASE UNCHANGED opsVars
  BY <1>0 DEF opsVars
<1>1. ASSUME NEW p \in Proc, Request(p) PROVE IdsOK' /\ ClaimsOK'
  BY <1>1 DEF Request, CallStart, CallStop, CallRemove
<1>2. ASSUME NEW p \in Proc, StartSteps(p) PROVE IdsOK' /\ ClaimsOK'
  <2>1. CASE List(p) \/ Inspect(p)
    BY <2>1 DEF List, Inspect, SameContainer
  <2>2. CASE Create(p)
    BY <2>2 DEF Create
  <2>3. CASE CreateAgain(p)
    BY <2>3 DEF CreateAgain
  <2>4. CASE StopOldBox(p)
    BY <2>4 DEF StopOldBox
  <2>5. CASE RemoveOldBox(p)
    BY <2>5 DEF RemoveOldBox
  <2>6. CASE RunBox(p)
    BY <2>6 DEF RunBox
  <2> QED
    BY <1>2, <2>1, <2>2, <2>3, <2>4, <2>5, <2>6 DEF StartSteps
<1>3. ASSUME NEW p \in Proc, StopSteps(p) PROVE IdsOK' /\ ClaimsOK'
  BY <1>3 DEF StopSteps, Find, Halt
<1>4. ASSUME NEW p \in Proc, RemoveSteps(p) PROVE IdsOK' /\ ClaimsOK'
  BY <1>4, ZenonT(60) DEF RemoveSteps, Look, Examine, StopListed, RemoveListed
<1>5. ASSUME NEW p \in Proc, CallFails(p) \/ CallLost(p) \/ CallDone(p)
      PROVE  IdsOK' /\ ClaimsOK'
  BY <1>5 DEF CallFails, CallLost, CallDone
<1> QED
  BY <1>0, <1>1, <1>2, <1>3, <1>4, <1>5 DEF OpsNext, DockerStep

\* A start that is due is never forgotten.
LEMMA OpsDue == OpsInv /\ [OpsNext]_opsVars => DueOK'
<1> SUFFICES ASSUME OpsInv, [OpsNext]_opsVars PROVE DueOK'
  OBVIOUS
<1> USE DEF OpsInv, OpsTypeOK, Boxes, IdsOK, DueOK, Creating, Running, NoneAgainst,
            Goes, Found, MakeBox, SetRunning, DropBox, StopCalls, RemoveCalls
<1>0. CASE UNCHANGED opsVars
  BY <1>0 DEF opsVars
<1>1. ASSUME NEW p \in Proc, Request(p) PROVE DueOK'
  BY <1>1 DEF Request, CallStart, CallStop, CallRemove
<1>2. ASSUME NEW p \in Proc, StartSteps(p) PROVE DueOK'
  <2>1. CASE List(p)
    BY <2>1 DEF List, SameContainer
  <2>2. CASE Create(p)
    BY <2>2 DEF Create
  <2>3. CASE CreateAgain(p)
    BY <2>3 DEF CreateAgain
  <2>4. CASE StopOldBox(p)
    BY <2>4 DEF StopOldBox
  <2>5. CASE RemoveOldBox(p)
    BY <2>5 DEF RemoveOldBox
  <2>6. CASE Inspect(p)
    BY <2>6 DEF Inspect
  <2>7. CASE RunBox(p)
    BY <2>7 DEF RunBox
  <2> QED
    BY <1>2, <2>1, <2>2, <2>3, <2>4, <2>5, <2>6, <2>7 DEF StartSteps
<1>3. ASSUME NEW p \in Proc, StopSteps(p) \/ RemoveSteps(p) PROVE DueOK'
  <2>1. ~due
    BY <1>3 DEF StopSteps, Find, Halt, RemoveSteps, Look, Examine, StopListed,
       RemoveListed
  <2>2. ~due'
    BY <1>3, <2>1 DEF StopSteps, Find, Halt, RemoveSteps, Look, Examine, StopListed,
       RemoveListed
  <2> QED
    BY <2>2
<1>4. ASSUME NEW p \in Proc, CallFails(p) \/ CallDone(p) PROVE DueOK'
  BY <1>4 DEF CallFails, CallDone
<1>5. ASSUME NEW p \in Proc, CallLost(p) PROVE DueOK'
  BY <1>5 DEF CallLost, InCall, Outcomes
<1> QED
  BY <1>0, <1>1, <1>2, <1>3, <1>4, <1>5 DEF OpsNext, DockerStep

\* Ids, claims on them and starts that are due fit together.
THEOREM OpsInvariant == OpsSpec => []OpsInv
<1>1. OpsInv /\ [OpsNext]_opsVars => OpsInv'
  BY OpsTypes, OpsIds, OpsDue DEF OpsInv
<1> QED
  BY <1>1, OpsInvInit, PTL DEF OpsSpec

-----------------------------------------------------------------------------
\* One of the starts prevails.
THEOREM SomeStartPrevails == OpsSpec => []StartsPrevail
<1>1. ASSUME OpsInv, due, \A p \in Proc : ~InCall(p)
      PROVE  box.there /\ box.running
  BY <1>1 DEF OpsInv, OpsTypeOK, Boxes, DueOK, Creating, Running, InCall, Outcomes
<1>2. OpsInv => StartsPrevail
  BY <1>1 DEF StartsPrevail
<1> QED
  BY <1>2, OpsInvariant, PTL

\* A start that succeeds has seen its image run.
THEOREM SuccessIsReal == OpsSpec => SuccessMeansRunning
<1>1. ASSUME OpsInv, OpsNext, NEW p \in Proc, call[p] \in StartCalls, call'[p] = "ok"
      PROVE  box'.there /\ box'.running /\ box'.image = want[p].image
  <2> USE DEF OpsInv, OpsTypeOK, Boxes, ClaimsOK, StartCalls, Goes
  <2>1. ASSUME NEW q \in Proc,
               \/ Request(q) \/ StopSteps(q) \/ RemoveSteps(q)
               \/ CallFails(q) \/ CallLost(q) \/ CallDone(q)
        PROVE  FALSE
    BY <1>1, <2>1 DEF Request, CallStart, CallStop, CallRemove, StopSteps, Find, Halt,
       RemoveSteps, Look, Examine, StopListed, RemoveListed, CallFails, CallLost, CallDone
  <2>2. PICK q \in Proc : StartSteps(q)
    BY <1>1, <2>1 DEF OpsNext, DockerStep
  <2>3. Inspect(p) \/ RunBox(p)
    BY <1>1, <2>2 DEF StartSteps, List, Create, StopOldBox, RemoveOldBox, CreateAgain,
       Inspect, RunBox
  <2>4. CASE Inspect(p)
    BY <1>1, <2>4 DEF Inspect, Found
  <2>5. CASE RunBox(p)
    BY <1>1, <2>5 DEF RunBox, Found, SetRunning
  <2> QED
    BY <2>3, <2>4, <2>5
<1>2. ASSUME OpsInv, [OpsNext]_opsVars
      PROVE  [\A p \in Proc :
                (call[p] \in StartCalls /\ call'[p] = "ok") =>
                  box'.there /\ box'.running /\ box'.image = want[p].image]_opsVars
  BY <1>1, <1>2
<1> QED
  BY <1>2, OpsInvariant, PTL DEF OpsSpec, SuccessMeansRunning
=============================================================================
