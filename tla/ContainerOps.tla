---------------------------- MODULE ContainerOps ----------------------------
(***************************************************************************)
(* StartContainer, StopContainer and RemoveContainer of util/util.go for   *)
(* one container name, called by any number of processes.  Each is a       *)
(* sequence of docker calls, one action each, that relies on what an       *)
(* earlier call has returned: some docker calls name the container by its  *)
(* id, some by its name.                                                   *)
(*                                                                         *)
(* removeOldFlag is TRUE, as all callers but dcstorage's have it; the use  *)
(* without it is part of UpgradeDaemon.                                    *)
(***************************************************************************)
EXTENDS DcProcesses, Naturals

CONSTANTS
  Image,  \* names of images
  Args    \* what else a container is created with: entrypoint, environment

Wants == [image : Image, args : Args]
Boxes == [there : BOOLEAN, id : Nat, image : Image, args : Args, running : BOOLEAN]

VARIABLES
  box,    \* the container of this name
  made,   \* containers made so far, the newest has this id
  call,   \* the docker call each process is about to make, or what it got
  cid,    \* containerId of its call
  want,   \* the image and arguments it starts
  due     \* history: a start was called, no other call and no failure since

opsVars == <<box, made, call, cid, want, due>>

StartCalls  == {"list", "create", "stop_old", "remove_old", "create_again",
                "inspect", "run"}
StopCalls   == {"find", "halt"}
RemoveCalls == {"look", "examine", "stop_listed", "remove_listed"}
Outcomes    == {"idle", "ok", "error"}
Calls       == StartCalls \cup StopCalls \cup RemoveCalls \cup Outcomes

InCall(p) == call[p] \notin Outcomes

\* No one is stopping or removing the container.
NoneAgainst == \A p \in Proc : call[p] \notin StopCalls \cup RemoveCalls

OpsTypeOK ==
  /\ box \in Boxes
  /\ made \in Nat
  /\ call \in [Proc -> Calls]
  /\ cid \in [Proc -> Nat]
  /\ want \in [Proc -> Wants]
  /\ due \in BOOLEAN

OpsInit ==
  /\ box \in [there : BOOLEAN, id : {1}, image : Image, args : Args, running : BOOLEAN]
  /\ box.running => box.there
  /\ made = 1
  /\ call = [p \in Proc |-> "idle"]
  /\ cid = [p \in Proc |-> 0]
  /\ want \in {[p \in Proc |-> w] : w \in Wants}
  /\ due = FALSE

-----------------------------------------------------------------------------
Goes(p, from, to) ==
  /\ call[p] = from
  /\ call' = [call EXCEPT ![p] = to]

\* A container is there and has the id that p found or made.
Found(p) == box.there /\ box.id = cid[p]

MakeBox(p) ==
  /\ made' = made + 1
  /\ cid' = [cid EXCEPT ![p] = made + 1]
  /\ box' = [there |-> TRUE, id |-> made + 1, image |-> want[p].image,
             args |-> want[p].args, running |-> FALSE]

SetRunning(state) == box' = [box EXCEPT !.running = state]
DropBox           == box' = [box EXCEPT !.there = FALSE, !.running = FALSE]

(* StartContainer.                                                         *)

CallStart(p, w) ==
  /\ Goes(p, "idle", "list")
  /\ want' = [want EXCEPT ![p] = w]
  /\ due' = NoneAgainst
  /\ UNCHANGED <<box, made, cid>>

\* Only the image of a container of this name is compared.
SameContainer(p) == box.there /\ box.image = want[p].image

List(p) ==
  /\ \/ /\ SameContainer(p)
        /\ Goes(p, "list", "inspect")
        /\ cid' = [cid EXCEPT ![p] = box.id]
     \/ /\ ~SameContainer(p)
        /\ Goes(p, "list", "create")
        /\ UNCHANGED cid
  /\ UNCHANGED <<box, made, want, due>>

\* The conflict is with the name, whatever the image of its container now.
Create(p) ==
  /\ \/ ~box.there /\ Goes(p, "create", "inspect") /\ MakeBox(p)
     \/ box.there /\ Goes(p, "create", "stop_old") /\ UNCHANGED <<box, made, cid>>
  /\ UNCHANGED <<want, due>>

\* By name; an error if there is none any more.
StopOldBox(p) ==
  /\ \/ box.there /\ Goes(p, "stop_old", "remove_old") /\ SetRunning(FALSE)
     \/ ~box.there /\ Goes(p, "stop_old", "error") /\ UNCHANGED box
  /\ UNCHANGED <<made, cid, want, due>>

\* Mutant: the container is created again by the next call only.
RemoveOldBoxAndReturn(p) ==
  /\ \/ box.there /\ Goes(p, "remove_old", "ok") /\ DropBox
     \/ ~box.there /\ Goes(p, "remove_old", "error") /\ UNCHANGED box
  /\ UNCHANGED <<made, cid, want, due>>

RemoveOldBox(p) ==
  /\ \/ box.there /\ Goes(p, "remove_old", "create_again") /\ DropBox
     \/ ~box.there /\ Goes(p, "remove_old", "error") /\ UNCHANGED box
  /\ UNCHANGED <<made, cid, want, due>>

CreateAgain(p) ==
  /\ \/ ~box.there /\ Goes(p, "create_again", "inspect") /\ MakeBox(p)
     \/ box.there /\ Goes(p, "create_again", "error") /\ UNCHANGED <<box, made, cid>>
  /\ UNCHANGED <<want, due>>

Inspect(p) ==
  /\ \/ Found(p) /\ box.running /\ Goes(p, "inspect", "ok")
     \/ Found(p) /\ ~box.running /\ Goes(p, "inspect", "run")
     \/ ~Found(p) /\ Goes(p, "inspect", "error")
  /\ UNCHANGED <<box, made, cid, want, due>>

\* Mutant: the error of ContainerStart is shadowed and nil is returned.
RunBoxErrorLost(p) ==
  /\ \/ Found(p) /\ Goes(p, "run", "ok") /\ SetRunning(TRUE)
     \/ ~Found(p) /\ Goes(p, "run", "ok") /\ UNCHANGED box
  /\ UNCHANGED <<made, cid, want, due>>

RunBox(p) ==
  /\ \/ Found(p) /\ Goes(p, "run", "ok") /\ SetRunning(TRUE)
     \/ ~Found(p) /\ Goes(p, "run", "error") /\ UNCHANGED box
  /\ UNCHANGED <<made, cid, want, due>>

(* StopContainer lists only the containers that run.                       *)

CallStop(p) ==
  /\ Goes(p, "idle", "find")
  /\ due' = FALSE
  /\ UNCHANGED <<box, made, cid, want>>

Find(p) ==
  /\ \/ box.running /\ Goes(p, "find", "halt") /\ cid' = [cid EXCEPT ![p] = box.id]
     \/ ~box.running /\ Goes(p, "find", "ok") /\ UNCHANGED cid
  /\ UNCHANGED <<box, made, want, due>>

Halt(p) ==
  /\ \/ Found(p) /\ Goes(p, "halt", "ok") /\ SetRunning(FALSE)
     \/ ~Found(p) /\ Goes(p, "halt", "error") /\ UNCHANGED box
  /\ UNCHANGED <<made, cid, want, due>>

(* RemoveContainer.                                                        *)

CallRemove(p) ==
  /\ Goes(p, "idle", "look")
  /\ due' = FALSE
  /\ UNCHANGED <<box, made, cid, want>>

Look(p) ==
  /\ \/ box.there /\ Goes(p, "look", "examine") /\ cid' = [cid EXCEPT ![p] = box.id]
     \/ ~box.there /\ Goes(p, "look", "ok") /\ UNCHANGED cid
  /\ UNCHANGED <<box, made, want, due>>

Examine(p) ==
  /\ \/ Found(p) /\ box.running /\ Goes(p, "examine", "stop_listed")
     \/ Found(p) /\ ~box.running /\ Goes(p, "examine", "remove_listed")
     \/ ~Found(p) /\ Goes(p, "examine", "error")
  /\ UNCHANGED <<box, made, cid, want, due>>

StopListed(p) ==
  /\ \/ Found(p) /\ Goes(p, "stop_listed", "remove_listed") /\ SetRunning(FALSE)
     \/ ~Found(p) /\ Goes(p, "stop_listed", "error") /\ UNCHANGED box
  /\ UNCHANGED <<made, cid, want, due>>

\* With Force: also if it runs again.
RemoveListed(p) ==
  /\ \/ Found(p) /\ Goes(p, "remove_listed", "ok") /\ DropBox
     \/ ~Found(p) /\ Goes(p, "remove_listed", "error") /\ UNCHANGED box
  /\ UNCHANGED <<made, cid, want, due>>

(* Failures and results.                                                   *)

\* Docker does not do what it is asked to; each function returns the error.
CallFails(p) ==
  /\ InCall(p)
  /\ call' = [call EXCEPT ![p] = "error"]
  /\ due' = FALSE
  /\ UNCHANGED <<box, made, cid, want>>

\* The process is killed, in a call or not.
CallLost(p) ==
  /\ call' = [call EXCEPT ![p] = "idle"]
  /\ cid' = [cid EXCEPT ![p] = 0]
  /\ due' = (due /\ ~InCall(p))
  /\ UNCHANGED <<box, made, want>>

\* The caller has seen the result.
CallDone(p) ==
  /\ call[p] \in {"ok", "error"}
  /\ call' = [call EXCEPT ![p] = "idle"]
  /\ cid' = [cid EXCEPT ![p] = 0]
  /\ UNCHANGED <<box, made, want, due>>

StartSteps(p) ==
  List(p) \/ Create(p) \/ StopOldBox(p) \/ RemoveOldBox(p) \/ CreateAgain(p)
  \/ Inspect(p) \/ RunBox(p)
StopSteps(p)   == Find(p) \/ Halt(p)
RemoveSteps(p) == Look(p) \/ Examine(p) \/ StopListed(p) \/ RemoveListed(p)
DockerStep(p)  == StartSteps(p) \/ StopSteps(p) \/ RemoveSteps(p)

Request(p) == (\E w \in Wants : CallStart(p, w)) \/ CallStop(p) \/ CallRemove(p)

OpsNext ==
  \E p \in Proc :
    Request(p) \/ DockerStep(p) \/ CallFails(p) \/ CallLost(p) \/ CallDone(p)

\* What any set of callers does to the container.
OpsSpec == OpsInit /\ [][OpsNext]_opsVars

-----------------------------------------------------------------------------
(* Properties.                                                             *)

\* However many starts of the container run into each other, with the same
\* image or different ones, one of them prevails: when all have returned
\* and nobody has stopped or removed it, and no call has failed, the
\* container is there and runs.  (A start that finds the name taken stops
\* and removes whatever has it by then, also what another start has just
\* created; that start then fails.)
StartsPrevail ==
  (due /\ \A p \in Proc : ~InCall(p)) => box.there /\ box.running

\* A start that returns without an error has seen a container of its image
\* run, although ids may have gone stale between the calls.
SuccessMeansRunning ==
  [][\A p \in Proc :
       (call[p] \in StartCalls /\ call'[p] = "ok") =>
         box'.there /\ box'.running /\ box'.image = want[p].image]_opsVars
=============================================================================
