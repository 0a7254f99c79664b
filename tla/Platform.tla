------------------------------ MODULE Platform ------------------------------
(***************************************************************************)
(* GoCMD of pkg/core/platform.go: DeployVerticle, UndeployVerticle and     *)
(* Close run in goroutines of their callers, share the deployments map and *)
(* talk to the deployments' goroutines (module Deployment) through command *)
(* and reply channels.  A timeout may fire whenever its select is blocked. *)
(***************************************************************************)
EXTENDS Deployment, FiniteSets

CONSTANTS
  Undeployers,  \* goroutines that call UndeployVerticle, each once
  NoDeployment, \* an undeployer that has not begun
  ParentMayCancel \* whether the parent context may be cancelled

ASSUME PlatformAssumption ==
  /\ ParentMayCancel \in BOOLEAN
  /\ NoDeployment \notin Deployments
  /\ NoCmd \notin Commands
  /\ Callers = {"deploy", "close"} \X Deployments \cup {"undeploy"} \X Undeployers

VARIABLES
  deployments,  \* the keys of g.deployments
  deployPC,     \* where the DeployVerticle call of each deployment is
  undeployPC,   \* where each UndeployVerticle call is
  target,       \* the deployment it was called with
  closePC,      \* where Close is
  closing,      \* where Close's goroutine for each deployment is
  ranAtClose,   \* history: the deployments RUNNING when Close took its snapshot
  panicked      \* history: a send on a closed channel panicked

platformVars == <<deployments, deployPC, undeployPC, target, closePC, closing, ranAtClose, panicked>>

vars == <<deploymentVars, rootDone, platformVars>>

Deployer(d) == <<"deploy", d>>
Undeployer(u) == <<"undeploy", u>>
Closer(d) == <<"close", d>>

Init ==
  /\ NewDeployment
  /\ rootDone = FALSE
  /\ deployments = {}
  /\ deployPC = [d \in Deployments |-> "idle"]
  /\ undeployPC = [u \in Undeployers |-> "idle"]
  /\ target = [u \in Undeployers |-> NoDeployment]
  /\ closePC = "idle"
  /\ closing = [d \in Deployments |-> "none"]
  /\ ranAtClose = {}
  /\ panicked = FALSE

-----------------------------------------------------------------------------
(* DeployVerticle.                                                         *)

DeployGoto(d, label) ==
  /\ deployPC' = [deployPC EXCEPT ![d] = label]
  /\ UNCHANGED <<rootDone, undeployPC, target, closePC, closing, ranAtClose, panicked>>

(* Create the deployment, start its goroutine and add it to the map; the    *)
(* code does not look at g.closed here.                                     *)
DeployVerticle(d) ==
  /\ deployPC[d] = "idle"
  /\ deployments' = deployments \cup {d}
  /\ DeployGoto(d, "send")
  /\ UNCHANGED deploymentVars

DeploySend(d) ==
  /\ deployPC[d] = "send"
  /\ SendCmd(d, "start", Deployer(d))
  /\ DeployGoto(d, "wait")
  /\ UNCHANGED deployments

(* The root context is cancelled: the deployment stays in the map. *)
DeployRootDone(d) ==
  /\ deployPC[d] = "send"
  /\ rootDone
  /\ DeployGoto(d, "failed")
  /\ UNCHANGED <<deploymentVars, deployments>>

DeployReplied(d) ==
  /\ deployPC[d] = "wait"
  /\ \/ /\ reply[Deployer(d)] = "nil"
        /\ DeployGoto(d, "deployed")
        /\ UNCHANGED deployments
     \/ /\ reply[Deployer(d)] = "err"
        /\ deployments' = deployments \ {d}
        /\ DeployGoto(d, "failed")
  /\ UNCHANGED deploymentVars

DeployTimeout(d) ==
  /\ deployPC[d] = "wait"
  /\ deployments' = deployments \ {d}
  /\ DeployGoto(d, "failed")
  /\ UNCHANGED deploymentVars

-----------------------------------------------------------------------------
(* UndeployVerticle.                                                       *)

UndeployGoto(u, label) ==
  /\ undeployPC' = [undeployPC EXCEPT ![u] = label]
  /\ UNCHANGED <<rootDone, deployPC, closePC, closing, ranAtClose>>

(* Look the deployment up under the read lock. *)
UndeployVerticle(u, d) ==
  /\ undeployPC[u] = "idle"
  /\ target' = [target EXCEPT ![u] = d]
  /\ UndeployGoto(u, IF d \in deployments THEN "send" ELSE "failed")
  /\ UNCHANGED <<deploymentVars, deployments, panicked>>

UndeploySend(u) ==
  /\ undeployPC[u] = "send"
  /\ SendCmd(target[u], "undeploy", Undeployer(u))
  /\ UndeployGoto(u, "wait")
  /\ UNCHANGED <<deployments, target, panicked>>

UndeployRootDone(u) ==
  /\ undeployPC[u] = "send"
  /\ rootDone
  /\ UndeployGoto(u, "failed")
  /\ UNCHANGED <<deploymentVars, deployments, target, panicked>>

(* The send has been blocked for five seconds. *)
UndeploySendTimeout(u) ==
  /\ undeployPC[u] = "send"
  /\ ~cmdClosed[target[u]]
  /\ ~CmdChanHasRoom(target[u])
  /\ UndeployGoto(u, "remove")
  /\ UNCHANGED <<deploymentVars, deployments, target, panicked>>

(* A select that is about to send on a closed channel panics. *)
UndeployPanics(u) ==
  /\ undeployPC[u] = "send"
  /\ cmdClosed[target[u]]
  /\ panicked' = TRUE
  /\ UndeployGoto(u, "panic")
  /\ UNCHANGED <<deploymentVars, deployments, target>>

UndeployReplied(u) ==
  /\ undeployPC[u] = "wait"
  /\ \/ reply[Undeployer(u)] = "nil" /\ UndeployGoto(u, "remove")
     \/ reply[Undeployer(u)] = "err" /\ UndeployGoto(u, "failed")
  /\ UNCHANGED <<deploymentVars, deployments, target, panicked>>

UndeployReplyTimeout(u) ==
  /\ undeployPC[u] = "wait"
  /\ UndeployGoto(u, "remove")
  /\ UNCHANGED <<deploymentVars, deployments, target, panicked>>

UndeployRemove(u) ==
  /\ undeployPC[u] = "remove"
  /\ deployments' = deployments \ {target[u]}
  /\ UndeployGoto(u, "undeployed")
  /\ UNCHANGED <<deploymentVars, target, panicked>>

-----------------------------------------------------------------------------
(* Close.                                                                  *)

ClosingGoto(d, label) ==
  /\ closing' = [closing EXCEPT ![d] = label]
  /\ UNCHANGED <<rootDone, deployments, deployPC, undeployPC, target, closePC, ranAtClose>>

(* Mutant: the root context is cancelled before the undeploys. *)
CloseCancelsFirst ==
  /\ closePC = "idle"
  /\ closePC' = "wait"
  /\ closing' = [d \in Deployments |-> IF d \in deployments THEN "send" ELSE "none"]
  /\ ranAtClose' = {d \in deployments : state[d] = "RUNNING"}
  /\ deployments' = {}
  /\ rootDone' = TRUE
  /\ UNCHANGED <<deploymentVars, deployPC, undeployPC, target, panicked>>

(* Under the lock: mark closed, take the snapshot, empty the map.  A second *)
(* Close finds g.closed and returns.                                        *)
Close ==
  /\ closePC = "idle"
  /\ closePC' = "wait"
  /\ closing' = [d \in Deployments |-> IF d \in deployments THEN "send" ELSE "none"]
  /\ ranAtClose' = {d \in deployments : state[d] = "RUNNING"}
  /\ deployments' = {}
  /\ UNCHANGED <<deploymentVars, rootDone, deployPC, undeployPC, target, panicked>>

CloseSend(d) ==
  /\ closing[d] = "send"
  /\ SendCmd(d, "undeploy", Closer(d))
  /\ ClosingGoto(d, "wait")
  /\ UNCHANGED panicked

ClosePanics(d) ==
  /\ closing[d] = "send"
  /\ cmdClosed[d]
  /\ panicked' = TRUE
  /\ ClosingGoto(d, "panic")
  /\ UNCHANGED deploymentVars

CloseSendTimeout(d) ==
  /\ closing[d] = "send"
  /\ ~cmdClosed[d]
  /\ ~CmdChanHasRoom(d)
  /\ ClosingGoto(d, "timeout")
  /\ UNCHANGED <<deploymentVars, panicked>>

CloseReplied(d) ==
  /\ closing[d] = "wait"
  /\ reply[Closer(d)] # "none"
  /\ ClosingGoto(d, "answered")
  /\ UNCHANGED <<deploymentVars, panicked>>

CloseReplyTimeout(d) ==
  /\ closing[d] = "wait"
  /\ ClosingGoto(d, "timeout")
  /\ UNCHANGED <<deploymentVars, panicked>>

(* wg.Wait is over, or totalTimeout has passed: cancel the root context.    *)
CloseCancel(how) ==
  /\ closePC = "wait"
  /\ closePC' = how
  /\ rootDone' = TRUE
  /\ UNCHANGED <<deploymentVars, deployments, deployPC, undeployPC, target, closing, ranAtClose, panicked>>

(* Mutant: wg.Done is missed on the timeouts. *)
CloseAllDoneMissesTimeouts ==
  /\ \A d \in Deployments : closing[d] \in {"none", "answered"}
  /\ CloseCancel("closed")

CloseAllDone ==
  /\ \A d \in Deployments : closing[d] \in {"none", "answered", "timeout"}
  /\ CloseCancel("closed")

CloseTimeout ==
  /\ \E d \in Deployments : closing[d] \in {"send", "wait"}
  /\ CloseCancel("closedEarly")

(* The parent context of NewGoCMDWithOptions is cancelled. *)
ParentCancel ==
  /\ ParentMayCancel
  /\ ~rootDone
  /\ rootDone' = TRUE
  /\ UNCHANGED <<deploymentVars, platformVars>>

-----------------------------------------------------------------------------
Loop(d) == LoopStep(d) /\ UNCHANGED <<rootDone, platformVars>>

Deploy(d) ==
  DeployVerticle(d) \/ DeploySend(d) \/ DeployRootDone(d) \/ DeployReplied(d) \/ DeployTimeout(d)

UndeployReturn(u) ==
  \/ UndeploySend(u) \/ UndeployRootDone(u) \/ UndeploySendTimeout(u) \/ UndeployPanics(u)
  \/ UndeployReplied(u) \/ UndeployReplyTimeout(u) \/ UndeployRemove(u)

CloseOne(d) ==
  \/ CloseSend(d) \/ ClosePanics(d) \/ CloseSendTimeout(d)
  \/ CloseReplied(d) \/ CloseReplyTimeout(d)

(* A panic that nobody recovers ends the process. *)
Next ==
  /\ ~panicked
  /\ \/ \E d \in Deployments : Loop(d) \/ Deploy(d) \/ CloseOne(d)
     \/ \E u \in Undeployers : UndeployReturn(u) \/ \E d \in Deployments : UndeployVerticle(u, d)
     \/ Close \/ CloseAllDone \/ CloseTimeout \/ ParentCancel

Spec == Init /\ [][Next]_vars

(* Every goroutine that can run does; Start and Stop of a verticle return.  *)
Fairness ==
  /\ \A d \in Deployments :
       /\ WF_vars(~panicked /\ Loop(d))
       /\ WF_vars(~panicked /\ deployPC[d] # "idle" /\ Deploy(d))
       /\ WF_vars(~panicked /\ CloseOne(d))
  /\ \A u \in Undeployers : WF_vars(~panicked /\ UndeployReturn(u))
  /\ WF_vars(~panicked /\ (CloseAllDone \/ CloseTimeout))

FairSpec == Spec /\ Fairness

-----------------------------------------------------------------------------
Answers == {"none", "nil", "err"}

TypeOK ==
  /\ state \in [Deployments -> States]
  /\ cmdChan \in [Deployments -> {<<>>} \cup {<<c>> : c \in Commands}]
  /\ cmdClosed \in [Deployments -> BOOLEAN]
  /\ loopPC \in [Deployments -> {"range", "starting", "stopping", "cleanup", "exit"}]
  /\ cmd \in [Deployments -> Commands \cup {NoCmd}]
  /\ reply \in [Callers -> Answers]
  /\ rootDone \in BOOLEAN
  /\ starts \in [Deployments -> Nat]
  /\ stops \in [Deployments -> Nat]
  /\ exits \in [Deployments -> Nat]
  /\ deployments \subseteq Deployments
  /\ deployPC \in [Deployments -> {"idle", "send", "wait", "deployed", "failed"}]
  /\ undeployPC \in [Undeployers -> {"idle", "send", "wait", "remove", "undeployed", "failed", "panic"}]
  /\ target \in [Undeployers -> Deployments \cup {NoDeployment}]
  /\ \A u \in Undeployers : undeployPC[u] # "idle" => target[u] \in Deployments
  /\ closePC \in {"idle", "wait", "closed", "closedEarly"}
  /\ closing \in [Deployments -> {"none", "send", "wait", "answered", "timeout", "panic"}]
  /\ ranAtClose \subseteq Deployments
  /\ panicked \in BOOLEAN

(* startEventLoop only ever asks setState for a transition that             *)
(* IsValidTransition allows, so the fail-fast panic of setState cannot      *)
(* happen, however starts, undeploys, timeouts and Close interleave.        *)
OnlyValidTransitions ==
  [][\A d \in Deployments :
       state'[d] # state[d] => IsValidTransition(state[d], state'[d])]_vars

(* Links and monitors are told of the end of a verticle exactly once: a     *)
(* deployment that failed, stopped or was undeployed has called onExit once,*)
(* any other has not.                                                       *)
ExitSignalledOnce ==
  \A d \in Deployments :
    exits[d] = IF state[d] \in {"STOPPED", "FAILED", "UNDEPLOYED"} THEN 1 ELSE 0

(* Verticle.Start is called at most once, Verticle.Stop at most once and    *)
(* only for a verticle whose Start returned nil, even when several          *)
(* undeploys and Close race with each other and with the start.             *)
StopOnlyIfStarted ==
  \A d \in Deployments :
    /\ starts[d] \in 0 .. 1
    /\ stops[d] \in 0 .. 1
    /\ stops[d] = 1 => reply[Deployer(d)] = "nil"

(* The hooks of a deployment are called as its life cycle says. *)
HooksExact == ExitSignalledOnce /\ StopOnlyIfStarted

(* What the callers are told is true: DeployVerticle answers nil only for a *)
(* verticle that reached RUNNING, and an undeploy is answered nil only      *)
(* once the deployment is UNDEPLOYED; of several undeploys of one           *)
(* deployment at most one is answered nil.                                  *)
AnswersAreTrue ==
  /\ \A d \in Deployments :
       deployPC[d] = "deployed" => state[d] \in {"RUNNING", "STOPPING", "STOPPED", "UNDEPLOYED"}
  /\ \A u \in Undeployers :
       reply[Undeployer(u)] = "nil" =>
         /\ state[target[u]] = "UNDEPLOYED"
         /\ reply[Closer(target[u])] # "nil"
         /\ \A v \in Undeployers \ {u} : target[v] = target[u] => reply[Undeployer(v)] # "nil"

(* The command of caller c is buffered or in the hands of d's goroutine. *)
InFlight(d, c) ==
  \/ \E b \in Commands : cmdChan[d] = <<b>> /\ b.from = c
  \/ cmd[d] # NoCmd /\ cmd[d].from = c

Holds(d, c) == InFlight(d, c) \/ reply[c] # "none"

(* No command is lost while the goroutine lives: the command of a caller    *)
(* that waits for its reply is buffered, in the goroutine's hands or        *)
(* answered.  Only what is buffered when Cleanup closes the channel stays   *)
(* unanswered, and then its caller waits for its timeout.                   *)
CommandAccounted ==
  /\ \A d \in Deployments :
       /\ deployPC[d] = "wait" => Holds(d, Deployer(d))
       /\ closing[d] = "wait" => Holds(d, Closer(d))
  /\ \A u \in Undeployers : undeployPC[u] = "wait" => Holds(target[u], Undeployer(u))

(* Close undeploys before it cancels the root context: when it has returned *)
(* within its total timeout, every verticle that was RUNNING in its         *)
(* snapshot and whose undeploy was answered has been stopped and undeployed.*)
CloseStopsWhatRan ==
  closePC = "closed" =>
    \A d \in ranAtClose : closing[d] = "answered" => stops[d] = 1 /\ state[d] = "UNDEPLOYED"

(* Who may hold which command: a start comes from the DeployVerticle of the *)
(* same deployment, an undeploy from any other caller.                      *)
OwnCmd(d, c) ==
  IF c.action = "start" THEN c.from = Deployer(d) ELSE \A e \in Deployments : c.from # Deployer(e)

(* Where the goroutine is determines the state, the command it holds and    *)
(* how often Start, Stop and onExit have been called.                       *)
LoopInv(d) ==
  /\ loopPC[d] = "range" => state[d] \in {"PENDING", "RUNNING", "FAILED"} /\ cmd[d] = NoCmd
  /\ loopPC[d] = "starting" => state[d] = "DEPLOYING" /\ cmd[d] \in Commands /\ cmd[d].action = "start"
  /\ loopPC[d] = "stopping" => state[d] = "STOPPING" /\ cmd[d] \in Commands /\ cmd[d].action = "undeploy"
  /\ loopPC[d] = "cleanup" => state[d] \in {"STOPPED", "FAILED"} /\ cmd[d] \in Commands /\ cmd[d].action = "undeploy"
  /\ loopPC[d] = "exit" => state[d] = "UNDEPLOYED" /\ cmd[d] = NoCmd
  /\ starts[d] = IF state[d] = "PENDING" THEN 0 ELSE 1
  /\ state[d] \in {"PENDING", "DEPLOYING", "RUNNING", "FAILED"} => stops[d] = 0
  /\ stops[d] \in {0, 1}
  /\ exits[d] = IF state[d] \in {"STOPPED", "FAILED", "UNDEPLOYED"} THEN 1 ELSE 0

(* There is one start command per deployment, and its answer is nil for a   *)
(* verticle that runs or was stopped.                                       *)
StartInv(d) ==
  /\ \A c \in Commands : cmdChan[d] = <<c>> => OwnCmd(d, c)
  /\ cmd[d] # NoCmd => OwnCmd(d, cmd[d])
  /\ \A c \in Commands : cmdChan[d] = <<c>> /\ c.action = "start" =>
       state[d] = "PENDING" /\ reply[Deployer(d)] = "none" /\ deployPC[d] \notin {"idle", "send"}
  /\ state[d] # "PENDING" \/ reply[Deployer(d)] # "none" => deployPC[d] \notin {"idle", "send"}
  /\ state[d] = "RUNNING" \/ stops[d] = 1 \/ state[d] \in {"STOPPING", "STOPPED"} => reply[Deployer(d)] = "nil"

(* The inductive invariant. *)
PlatformInv == TypeOK /\ \A d \in Deployments : LoopInv(d) /\ StartInv(d)

(* Whose commands d's goroutine may hold. *)
Serves(d, c) ==
  \/ c = Deployer(d) \/ c = Closer(d)
  \/ \E u \in Undeployers : c = Undeployer(u) /\ target[u] = d

(* An undeploy of d is answered nil by the final cleanup of d, so at most   *)
(* once, and the start of d when Start has returned nil.                    *)
AnswerInv ==
  /\ \A u \in Undeployers :
       /\ undeployPC[u] = "idle" => target[u] = NoDeployment
       /\ reply[Undeployer(u)] # "none" => target[u] \in Deployments
  /\ \A d \in Deployments :
       /\ \A c \in Callers : InFlight(d, c) => Serves(d, c)
       /\ reply[Deployer(d)] = "nil" => state[d] \in {"RUNNING", "STOPPING", "STOPPED", "UNDEPLOYED"}
       /\ deployPC[d] = "deployed" => reply[Deployer(d)] = "nil"
       /\ \A c \in Callers :
            Serves(d, c) /\ c # Deployer(d) /\ reply[c] = "nil" =>
              /\ state[d] = "UNDEPLOYED"
              /\ \A b \in Callers \ {c} : Serves(d, b) /\ b # Deployer(d) => reply[b] # "nil"

(* What ran when Close took its snapshot is on its way to UNDEPLOYED, and   *)
(* the undeploy of Close is refused only once the root context is           *)
(* cancelled, which Close does last.                                        *)
CloseInv ==
  /\ closePC \in {"idle", "wait"} => ~rootDone
  /\ closePC = "idle" => \A d \in Deployments : closing[d] = "none"
  /\ closePC = "closed" => \A d \in Deployments : closing[d] \in {"none", "answered", "timeout"}
  /\ \A d \in Deployments :
       /\ closing[d] \in {"none", "send"} => ~Holds(d, Closer(d))
       /\ closing[d] = "answered" => reply[Closer(d)] # "none"
  /\ \A d \in ranAtClose :
       /\ state[d] \in {"RUNNING", "STOPPING", "STOPPED", "UNDEPLOYED"}
       /\ state[d] # "RUNNING" => stops[d] = 1
       /\ reply[Closer(d)] = "err" => rootDone
       /\ closePC = "closed" /\ closing[d] = "answered" => reply[Closer(d)] = "nil"

(* The doc of Close: "1. Undeploy all verticles (calls Stop on each)".      *)
(* After a Close that ran into no timeout no verticle is starting or        *)
(* running.                                                                 *)
CloseUndeploysAll ==
  closePC = "closed" /\ (\A d \in Deployments : closing[d] # "timeout") =>
    \A d \in Deployments : state[d] \notin {"DEPLOYING", "RUNNING"}

(* The comment of UndeployVerticle on its send timeout: "Channel might be   *)
(* closed or blocked, continue to cleanup".                                 *)
ClosedChannelIsCleanup == ~panicked

(* DeployVerticle, UndeployVerticle and Close always return.                *)
EveryCallReturns ==
  /\ \A d \in Deployments :
       []<>(panicked \/ deployPC[d] \in {"idle", "deployed", "failed"})
  /\ \A u \in Undeployers :
       []<>(panicked \/ undeployPC[u] \in {"idle", "undeployed", "failed"})
  /\ []<>(panicked \/ closePC # "wait")

(* An undeploy that reached the channel of a running deployment takes       *)
(* effect, even when its caller gave up waiting, unless the root context is *)
(* cancelled first.                                                         *)
UndeployTakesEffect ==
  \A u \in Undeployers, d \in Deployments :
    (undeployPC[u] = "wait" /\ target[u] = d /\ reply[Undeployer(u)] = "none" /\ state[d] = "RUNNING") ~>
      (panicked \/ rootDone \/ state[d] = "UNDEPLOYED")

(* Calls of the platform return, and what they asked for happens. *)
PlatformProgress == EveryCallReturns /\ UndeployTakesEffect
=============================================================================
