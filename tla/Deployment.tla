----------------------------- MODULE Deployment -----------------------------
(***************************************************************************)
(* The deployments of pkg/core/deployment.go: each has a state machine, a  *)
(* command channel of capacity one and a goroutine (startEventLoop) that   *)
(* is the only one to change the state.  The callers that send commands    *)
(* are in Platform.  No code sends the command "stop".                     *)
(***************************************************************************)
EXTENDS Integers, Sequences

CONSTANTS
  Deployments, \* the deployments, each created by one DeployVerticle
  Callers,     \* the goroutines that send commands and wait for a reply
  NoCmd        \* what the loop holds between two commands

VARIABLES
  state,       \* d.state
  cmdChan,     \* the commands buffered in d.cmdChan
  cmdClosed,   \* close(d.cmdChan) has happened
  loopPC,      \* where the deployment's goroutine is
  cmd,         \* the command it works on
  reply,       \* what is in each caller's reply channel
  rootDone,    \* g.rootCtx is cancelled
  starts,      \* history: how often Verticle.Start was called
  stops,       \* history: how often Verticle.Stop was called
  exits        \* history: how often onExit was called

deploymentVars == <<state, cmdChan, cmdClosed, loopPC, cmd, reply, starts, stops, exits>>

States == {"PENDING", "DEPLOYING", "RUNNING", "STOPPING", "STOPPED", "FAILED", "UNDEPLOYED"}

Commands == [action : {"start", "undeploy"}, from : Callers]

IsValidTransition(from, to) ==
  \/ from = "PENDING" /\ to \in {"DEPLOYING", "FAILED", "UNDEPLOYED"}
  \/ from = "DEPLOYING" /\ to \in {"RUNNING", "FAILED"}
  \/ from = "RUNNING" /\ to = "STOPPING"
  \/ from = "STOPPING" /\ to = "STOPPED"
  \/ from \in {"STOPPED", "FAILED"} /\ to = "UNDEPLOYED"

(* NewDeployment; the goroutine exists once DeployVerticle has started it. *)
NewDeployment ==
  /\ state = [d \in Deployments |-> "PENDING"]
  /\ cmdChan = [d \in Deployments |-> <<>>]
  /\ cmdClosed = [d \in Deployments |-> FALSE]
  /\ loopPC = [d \in Deployments |-> "range"]
  /\ cmd = [d \in Deployments |-> NoCmd]
  /\ reply = [c \in Callers |-> "none"]
  /\ starts = [d \in Deployments |-> 0]
  /\ stops = [d \in Deployments |-> 0]
  /\ exits = [d \in Deployments |-> 0]

-----------------------------------------------------------------------------
(* Sending a command: the send blocks while another command is buffered.   *)

CmdChanHasRoom(d) == cmdChan[d] = <<>>

SendCmd(d, action, caller) ==
  /\ ~cmdClosed[d]
  /\ CmdChanHasRoom(d)
  /\ cmdChan' = [cmdChan EXCEPT ![d] = <<[action |-> action, from |-> caller]>>]
  /\ UNCHANGED <<state, cmdClosed, loopPC, cmd, reply, starts, stops, exits>>

-----------------------------------------------------------------------------
(* The goroutine of startEventLoop.                                        *)

setState(d, new) == state' = [state EXCEPT ![d] = new]

LoopGoto(d, label) == loopPC' = [loopPC EXCEPT ![d] = label]

(* Mutant: the error paths continue without a reply. *)
ReplyOnSuccessOnly(caller, answer) ==
  reply' = IF answer = "err" THEN reply ELSE [reply EXCEPT ![caller] = answer]

(* Mutant: the error paths reply nil. *)
ReplyNil(caller, answer) == reply' = [reply EXCEPT ![caller] = "nil"]

Reply(caller, answer) == reply' = [reply EXCEPT ![caller] = answer]

(* Take the next command.  A command whose context is cancelled, a start    *)
(* that is not valid and an undeploy in a state that has nothing to undo    *)
(* are answered with an error.                                              *)
ReceiveCmd(d) ==
  /\ loopPC[d] = "range"
  /\ cmdChan[d] # <<>>
  /\ LET c == Head(cmdChan[d]) IN
     /\ cmdChan' = [cmdChan EXCEPT ![d] = Tail(@)]
     /\ \/ /\ \/ rootDone
              \/ c.action = "start" /\ ~IsValidTransition(state[d], "DEPLOYING")
              \/ c.action = "undeploy" /\ state[d] \notin {"RUNNING", "STOPPED", "FAILED"}
           /\ Reply(c.from, "err")
           /\ UNCHANGED <<state, loopPC, cmd, starts, stops>>
        \/ /\ ~rootDone
           /\ c.action = "start" /\ IsValidTransition(state[d], "DEPLOYING")
           /\ setState(d, "DEPLOYING")
           /\ starts' = [starts EXCEPT ![d] = @ + 1]
           /\ LoopGoto(d, "starting")
           /\ cmd' = [cmd EXCEPT ![d] = c]
           /\ UNCHANGED <<reply, stops>>
        \/ /\ ~rootDone
           /\ c.action = "undeploy" /\ state[d] = "RUNNING"
           /\ setState(d, "STOPPING")
           /\ stops' = [stops EXCEPT ![d] = @ + 1]
           /\ LoopGoto(d, "stopping")
           /\ cmd' = [cmd EXCEPT ![d] = c]
           /\ UNCHANGED <<reply, starts>>
        \/ /\ ~rootDone
           /\ c.action = "undeploy" /\ state[d] \in {"STOPPED", "FAILED"}
           /\ LoopGoto(d, "cleanup")
           /\ cmd' = [cmd EXCEPT ![d] = c]
           /\ UNCHANGED <<state, reply, starts, stops>>
  /\ UNCHANGED <<cmdClosed, exits>>

(* Verticle.Start returns nil ... *)
StartSucceeds(d) ==
  /\ loopPC[d] = "starting"
  /\ setState(d, "RUNNING")
  /\ Reply(cmd[d].from, "nil")
  /\ LoopGoto(d, "range")
  /\ cmd' = [cmd EXCEPT ![d] = NoCmd]
  /\ UNCHANGED <<cmdChan, cmdClosed, starts, stops, exits>>

(* Mutant: the error is recorded but the state becomes RUNNING. *)
StartFailsRunning(d) ==
  /\ loopPC[d] = "starting"
  /\ setState(d, "RUNNING")
  /\ Reply(cmd[d].from, "err")
  /\ LoopGoto(d, "range")
  /\ cmd' = [cmd EXCEPT ![d] = NoCmd]
  /\ UNCHANGED <<cmdChan, cmdClosed, starts, stops, exits>>

(* ... or an error; onExit tells the links and monitors. *)
StartFails(d) ==
  /\ loopPC[d] = "starting"
  /\ setState(d, "FAILED")
  /\ exits' = [exits EXCEPT ![d] = @ + 1]
  /\ Reply(cmd[d].from, "err")
  /\ LoopGoto(d, "range")
  /\ cmd' = [cmd EXCEPT ![d] = NoCmd]
  /\ UNCHANGED <<cmdChan, cmdClosed, starts, stops>>

(* Mutant: undeploy ends like the command "stop". *)
StopReturnsToRange(d) ==
  /\ loopPC[d] = "stopping"
  /\ setState(d, "STOPPED")
  /\ exits' = [exits EXCEPT ![d] = @ + 1]
  /\ Reply(cmd[d].from, "nil")
  /\ LoopGoto(d, "range")
  /\ cmd' = [cmd EXCEPT ![d] = NoCmd]
  /\ UNCHANGED <<cmdChan, cmdClosed, starts, stops>>

(* Verticle.Stop returns, with or without an error; onExit is called. *)
StopReturns(d) ==
  /\ loopPC[d] = "stopping"
  /\ setState(d, "STOPPED")
  /\ exits' = [exits EXCEPT ![d] = @ + 1]
  /\ LoopGoto(d, "cleanup")
  /\ UNCHANGED <<cmdChan, cmdClosed, cmd, reply, starts, stops>>

(* Mutant: the cleanup calls onExit too. *)
CleanupNotifies(d) ==
  /\ loopPC[d] = "cleanup"
  /\ IsValidTransition(state[d], "UNDEPLOYED")
  /\ setState(d, "UNDEPLOYED")
  /\ cmdClosed' = [cmdClosed EXCEPT ![d] = TRUE]
  /\ Reply(cmd[d].from, "nil")
  /\ LoopGoto(d, "exit")
  /\ cmd' = [cmd EXCEPT ![d] = NoCmd]
  /\ exits' = [exits EXCEPT ![d] = @ + 1]
  /\ UNCHANGED <<cmdChan, starts, stops>>

(* The final cleanup closes the command channel and ends the goroutine.     *)
(* A command that is still buffered is never answered.                      *)
Cleanup(d) ==
  /\ loopPC[d] = "cleanup"
  /\ IsValidTransition(state[d], "UNDEPLOYED")
  /\ setState(d, "UNDEPLOYED")
  /\ cmdClosed' = [cmdClosed EXCEPT ![d] = TRUE]
  /\ Reply(cmd[d].from, "nil")
  /\ LoopGoto(d, "exit")
  /\ cmd' = [cmd EXCEPT ![d] = NoCmd]
  /\ UNCHANGED <<cmdChan, starts, stops, exits>>

LoopStep(d) ==
  ReceiveCmd(d) \/ StartSucceeds(d) \/ StartFails(d) \/ StopReturns(d) \/ Cleanup(d)
=============================================================================
