--------------------------- MODULE PlatformProofs ---------------------------
(***************************************************************************)
(* Proofs about Platform: PlatformInv is inductive, and with it a          *)
(* deployment takes only valid transitions, signals its exit once and      *)
(* stops only a verticle that was started, for any number of deployments   *)
(* and callers.                                                            *)
(***************************************************************************)
EXTENDS Platform, TLAPS

DInv(d) == LoopInv(d) /\ StartInv(d)

(* The invariant of a deployment that a step does not touch is kept. *)
LEMMA Frame ==
  ASSUME NEW e \in Deployments, DInv(e),
         state'[e] = state[e], cmdChan'[e] = cmdChan[e], loopPC'[e] = loopPC[e], cmd'[e] = cmd[e],
         starts'[e] = starts[e], stops'[e] = stops[e], exits'[e] = exits[e],
         reply'[Deployer(e)] = reply[Deployer(e)], deployPC'[e] = deployPC[e]
  PROVE  DInv(e)'
  BY Zenon DEF DInv, LoopInv, StartInv, OwnCmd, Deployer

LEMMA Unfold == PlatformInv => TypeOK /\ \A e \in Deployments : DInv(e)
  BY Zenon DEF PlatformInv, DInv

LEMMA Assemble ==
  ASSUME NEW d \in Deployments, TypeOK', LoopInv(d)', StartInv(d)', \A e \in Deployments : e # d => DInv(e)'
  PROVE  PlatformInv'
  BY Zenon DEF PlatformInv, DInv

(* The callers of different deployments and of different calls differ. *)
LEMMA CallersDiffer ==
  /\ \A d \in Deployments : Deployer(d) \in Callers /\ Closer(d) \in Callers
  /\ \A u \in Undeployers : Undeployer(u) \in Callers
  /\ \A d, e \in Deployments : Deployer(d) = Deployer(e) => d = e
  /\ \A d, e \in Deployments : Closer(d) # Deployer(e)
  /\ \A u \in Undeployers, e \in Deployments : Undeployer(u) # Deployer(e)
  BY Zenon, PlatformAssumption DEF Deployer, Closer, Undeployer

LEMMA InitInv == Init => PlatformInv
  <1> SUFFICES ASSUME Init PROVE PlatformInv
    BY Zenon
  <1>1. TypeOK
    BY Zenon DEF Init, NewDeployment, TypeOK, States, Answers
  <1>2. ASSUME NEW d \in Deployments PROVE LoopInv(d)
    BY Zenon DEF Init, NewDeployment, LoopInv
  <1>3. ASSUME NEW d \in Deployments PROVE StartInv(d)
    <2>1. /\ cmdChan[d] = <<>> /\ cmd[d] = NoCmd /\ state[d] = "PENDING" /\ stops[d] = 0
          /\ reply[Deployer(d)] = "none"
      BY Zenon, CallersDiffer DEF Init, NewDeployment
    <2> QED
      BY <2>1 DEF StartInv
  <1> QED
    BY Zenon, <1>1, <1>2, <1>3 DEF PlatformInv

-----------------------------------------------------------------------------
(* Steps of the callers that touch no deployment.                          *)

(* A step that leaves the deployments and every deployPC alone. *)
LEMMA CallerStep ==
  ASSUME PlatformInv, TypeOK', UNCHANGED deploymentVars, UNCHANGED deployPC
  PROVE  PlatformInv'
  <1>1. ASSUME NEW e \in Deployments PROVE DInv(e)'
    BY Zenon, <1>1, Frame DEF PlatformInv, DInv, deploymentVars
  <1> QED
    BY Zenon, <1>1 DEF PlatformInv, DInv

(* A step of DeployVerticle that leaves the deployments alone. *)
LEMMA DeployerStep ==
  ASSUME PlatformInv, TypeOK', UNCHANGED deploymentVars,
         NEW d \in Deployments, NEW label,
         deployPC' = [deployPC EXCEPT ![d] = label],
         deployPC[d] = "idle" => label = "send",
         deployPC[d] # "idle" => label \notin {"idle", "send"}
  PROVE  PlatformInv'
  <1>1. ASSUME NEW e \in Deployments, e # d PROVE DInv(e)'
    BY <1>1, Frame DEF PlatformInv, DInv, deploymentVars, TypeOK
  <1>2. DInv(d)'
    <2>1. LoopInv(d)'
      BY Zenon DEF PlatformInv, LoopInv, deploymentVars
    <2>2. deployPC'[d] = label
      BY DEF PlatformInv, TypeOK
    <2>3. StartInv(d)'
      BY Zenon, <2>2 DEF PlatformInv, StartInv, OwnCmd, Deployer, deploymentVars
    <2> QED
      BY Zenon, <2>1, <2>3 DEF DInv
  <1> QED
    BY Zenon, <1>1, <1>2 DEF PlatformInv, DInv

LEMMA DeployKeepsInv ==
  ASSUME PlatformInv, NEW d \in Deployments,
         DeployVerticle(d) \/ DeployRootDone(d) \/ DeployReplied(d) \/ DeployTimeout(d)
  PROVE  PlatformInv'
  <1>1. UNCHANGED deploymentVars
    BY Zenon DEF DeployVerticle, DeployRootDone, DeployReplied, DeployTimeout
  <1>2. TypeOK'
    BY Zenon DEF DeployVerticle, DeployRootDone, DeployReplied, DeployTimeout, DeployGoto, PlatformInv, TypeOK,
           deploymentVars
  <1>3. PICK label : /\ deployPC' = [deployPC EXCEPT ![d] = label]
                     /\ deployPC[d] = "idle" => label = "send"
                     /\ deployPC[d] # "idle" => label \notin {"idle", "send"}
    BY Zenon DEF DeployVerticle, DeployRootDone, DeployReplied, DeployTimeout, DeployGoto
  <1> QED
    BY Zenon, <1>1, <1>2, <1>3, DeployerStep

LEMMA UndeployKeepsInv ==
  ASSUME PlatformInv, NEW u \in Undeployers,
         \/ \E d \in Deployments : UndeployVerticle(u, d)
         \/ UndeployRootDone(u) \/ UndeploySendTimeout(u) \/ UndeployPanics(u)
         \/ UndeployReplied(u) \/ UndeployReplyTimeout(u) \/ UndeployRemove(u)
  PROVE  PlatformInv'
  <1>1. UNCHANGED deploymentVars /\ UNCHANGED deployPC
    BY Zenon DEF UndeployVerticle, UndeployRootDone, UndeploySendTimeout, UndeployPanics, UndeployReplied,
           UndeployReplyTimeout, UndeployRemove, UndeployGoto
  <1>2. TypeOK'
    <2>1. CASE \E d \in Deployments : UndeployVerticle(u, d)
      BY <2>1 DEF UndeployVerticle, UndeployGoto, PlatformInv, TypeOK, deploymentVars
    <2>2. CASE \/ UndeployRootDone(u) \/ UndeploySendTimeout(u) \/ UndeployPanics(u)
               \/ UndeployReplied(u) \/ UndeployReplyTimeout(u) \/ UndeployRemove(u)
      <3>1. /\ undeployPC[u] # "idle" /\ UNCHANGED <<target, deploymentVars>>
            /\ \E label \in {"remove", "undeployed", "failed", "panic"} : UndeployGoto(u, label)
        BY Zenon, <2>2 DEF UndeployRootDone, UndeploySendTimeout, UndeployPanics, UndeployReplied,
                    UndeployReplyTimeout, UndeployRemove
      <3>2. panicked' \in BOOLEAN /\ deployments' \subseteq Deployments
        BY Zenon, <2>2 DEF UndeployRootDone, UndeploySendTimeout, UndeployPanics, UndeployReplied,
                    UndeployReplyTimeout, UndeployRemove, PlatformInv, TypeOK
      <3> QED
        BY <3>1, <3>2 DEF UndeployGoto, PlatformInv, TypeOK, deploymentVars
    <2> QED
      BY Zenon, <2>1, <2>2
  <1> QED
    BY Zenon, <1>1, <1>2, CallerStep

LEMMA CloseKeepsInv ==
  ASSUME PlatformInv,
         \/ Close \/ CloseAllDone \/ CloseTimeout \/ ParentCancel
         \/ \E d \in Deployments : ClosePanics(d) \/ CloseSendTimeout(d) \/ CloseReplied(d) \/ CloseReplyTimeout(d)
  PROVE  PlatformInv'
  <1>1. UNCHANGED deploymentVars /\ UNCHANGED deployPC
    BY Zenon DEF Close, CloseAllDone, CloseTimeout, CloseCancel, ParentCancel, ClosePanics, CloseSendTimeout,
           CloseReplied, CloseReplyTimeout, ClosingGoto, platformVars
  <1>2. TypeOK'
    <2>1. CASE Close
      BY Zenon, <2>1 DEF Close, PlatformInv, TypeOK, deploymentVars
    <2>2. CASE CloseAllDone \/ CloseTimeout \/ ParentCancel
      BY Zenon, <2>2 DEF CloseAllDone, CloseTimeout, CloseCancel, ParentCancel, PlatformInv, TypeOK, deploymentVars,
                  platformVars
    <2>3. ASSUME NEW d \in Deployments,
                 ClosePanics(d) \/ CloseSendTimeout(d) \/ CloseReplied(d) \/ CloseReplyTimeout(d)
          PROVE  TypeOK'
      <3>1. \E label \in {"answered", "timeout", "panic"} : ClosingGoto(d, label)
        BY Zenon, <2>3 DEF ClosePanics, CloseSendTimeout, CloseReplied, CloseReplyTimeout
      <3>2. panicked' \in BOOLEAN /\ UNCHANGED deploymentVars
        BY Zenon, <2>3 DEF ClosePanics, CloseSendTimeout, CloseReplied, CloseReplyTimeout, PlatformInv, TypeOK
      <3> QED
        BY <3>1, <3>2 DEF ClosingGoto, PlatformInv, TypeOK, deploymentVars
    <2> QED
      BY Zenon, <2>1, <2>2, <2>3
  <1> QED
    BY Zenon, <1>1, <1>2, CallerStep

-----------------------------------------------------------------------------
(* Sends.                                                                  *)

(* What SendCmd does to the deployments. *)
LEMMA SendStep ==
  ASSUME PlatformInv, TypeOK', NEW d \in Deployments, NEW c \in Commands,
         cmdChan[d] = <<>>, cmdChan' = [cmdChan EXCEPT ![d] = <<c>>],
         UNCHANGED <<state, cmdClosed, loopPC, cmd, reply, starts, stops, exits>>,
         OwnCmd(d, c),
         \A e \in Deployments : e # d \/ c.action = "undeploy" => deployPC'[e] = deployPC[e],
         c.action = "start" => deployPC[d] = "send" /\ deployPC'[d] = "wait"
  PROVE  PlatformInv'
  <1>1. ASSUME NEW e \in Deployments, e # d PROVE DInv(e)'
    <2>1. cmdChan'[e] = cmdChan[e] /\ deployPC'[e] = deployPC[e]
      BY Zenon, <1>1 DEF PlatformInv, TypeOK
    <2> QED
      BY Zenon, <1>1, <2>1, Frame DEF PlatformInv, DInv
  <1>2. LoopInv(d)'
    BY Zenon DEF PlatformInv, LoopInv
  <1>3. StartInv(d)'
    <2>1. cmdChan'[d] = <<c>>
      BY DEF PlatformInv, TypeOK
    <2>2. ASSUME NEW b \in Commands, cmdChan'[d] = <<b>> PROVE b = c
      BY <2>1, <2>2
    <2>3. StartInv(d) /\ c.action \in {"start", "undeploy"}
      BY Zenon DEF PlatformInv, Commands
    <2>4. CASE c.action = "start"
      BY Zenon, <2>2, <2>3, <2>4 DEF StartInv, OwnCmd, Deployer
    <2>5. CASE c.action = "undeploy"
      BY Zenon, <2>2, <2>3, <2>5 DEF StartInv, OwnCmd, Deployer
    <2> QED
      BY Zenon, <2>3, <2>4, <2>5
  <1> QED
    BY Zenon, <1>1, <1>2, <1>3 DEF PlatformInv, DInv

LEMMA SendKeepsType ==
  ASSUME TypeOK, NEW d \in Deployments, NEW c \in Commands, cmdChan' = [cmdChan EXCEPT ![d] = <<c>>]
  PROVE  cmdChan' \in [Deployments -> {<<>>} \cup {<<b>> : b \in Commands}]
  BY Zenon DEF TypeOK

LEMMA DeploySendKeepsInv ==
  ASSUME PlatformInv, NEW d \in Deployments, DeploySend(d)
  PROVE  PlatformInv'
  <1> DEFINE c == [action |-> "start", from |-> Deployer(d)]
  <1>1. c \in Commands /\ OwnCmd(d, c)
    BY Zenon, CallersDiffer DEF Commands, OwnCmd
  <1>2. /\ cmdChan[d] = <<>> /\ cmdChan' = [cmdChan EXCEPT ![d] = <<c>>]
        /\ UNCHANGED <<state, cmdClosed, loopPC, cmd, reply, starts, stops, exits>>
        /\ deployPC[d] = "send" /\ deployPC' = [deployPC EXCEPT ![d] = "wait"]
        /\ UNCHANGED <<rootDone, deployments, undeployPC, target, closePC, closing, ranAtClose, panicked>>
    BY Zenon DEF DeploySend, SendCmd, CmdChanHasRoom, DeployGoto
  <1> HIDE DEF c
  <1>3. TypeOK'
    BY Zenon, <1>1, <1>2, SendKeepsType DEF PlatformInv, TypeOK
  <1>4. deployPC'[d] = "wait" /\ \A e \in Deployments : e # d => deployPC'[e] = deployPC[e]
    BY Zenon, <1>2 DEF PlatformInv, TypeOK
  <1>5. c.action = "start"
    BY Zenon DEF c
  <1> QED
    BY Zenon, <1>1, <1>2, <1>3, <1>4, <1>5, SendStep

LEMMA UndeploySendKeepsInv ==
  ASSUME PlatformInv, NEW u \in Undeployers, UndeploySend(u)
  PROVE  PlatformInv'
  <1> DEFINE c == [action |-> "undeploy", from |-> Undeployer(u)]
  <1> target[u] \in Deployments
    BY Zenon DEF UndeploySend, PlatformInv, TypeOK
  <1>1. c \in Commands /\ OwnCmd(target[u], c)
    BY Zenon, CallersDiffer DEF Commands, OwnCmd
  <1>2. /\ cmdChan[target[u]] = <<>> /\ cmdChan' = [cmdChan EXCEPT ![target[u]] = <<c>>]
        /\ UNCHANGED <<state, cmdClosed, loopPC, cmd, reply, starts, stops, exits>>
        /\ undeployPC' = [undeployPC EXCEPT ![u] = "wait"]
        /\ UNCHANGED <<rootDone, deployments, deployPC, target, closePC, closing, ranAtClose, panicked>>
    BY Zenon DEF UndeploySend, SendCmd, CmdChanHasRoom, UndeployGoto
  <1> HIDE DEF c
  <1>3. TypeOK'
    BY Zenon, <1>1, <1>2, SendKeepsType DEF PlatformInv, TypeOK
  <1>4. c.action = "undeploy"
    BY Zenon DEF c
  <1> QED
    BY Zenon, <1>1, <1>2, <1>3, <1>4, SendStep

LEMMA CloseSendKeepsInv ==
  ASSUME PlatformInv, NEW d \in Deployments, CloseSend(d)
  PROVE  PlatformInv'
  <1> DEFINE c == [action |-> "undeploy", from |-> Closer(d)]
  <1>1. c \in Commands /\ OwnCmd(d, c)
    BY Zenon, CallersDiffer DEF Commands, OwnCmd
  <1>2. /\ cmdChan[d] = <<>> /\ cmdChan' = [cmdChan EXCEPT ![d] = <<c>>]
        /\ UNCHANGED <<state, cmdClosed, loopPC, cmd, reply, starts, stops, exits>>
        /\ closing' = [closing EXCEPT ![d] = "wait"]
        /\ UNCHANGED <<rootDone, deployments, deployPC, undeployPC, target, closePC, ranAtClose, panicked>>
    BY Zenon DEF CloseSend, SendCmd, CmdChanHasRoom, ClosingGoto
  <1> HIDE DEF c
  <1>3. TypeOK'
    BY Zenon, <1>1, <1>2, SendKeepsType DEF PlatformInv, TypeOK
  <1>4. c.action = "undeploy"
    BY Zenon DEF c
  <1> QED
    BY Zenon, <1>1, <1>2, <1>3, <1>4, SendStep

-----------------------------------------------------------------------------
(* Steps of the deployments' goroutines.                                   *)

(* An answer to the sender of a command of d leaves the other deployers'    *)
(* answers alone, and the deployer of d's when the command is an undeploy.  *)
LEMMA ReplyElsewhere ==
  ASSUME PlatformInv, NEW d \in Deployments, NEW c \in Commands, OwnCmd(d, c),
         NEW a \in {"nil", "err"}, Reply(c.from, a)
  PROVE  /\ reply' \in [Callers -> Answers]
         /\ \A e \in Deployments : e # d => reply'[Deployer(e)] = reply[Deployer(e)]
         /\ c.action = "undeploy" => reply'[Deployer(d)] = reply[Deployer(d)]
         /\ c.action = "start" => reply'[Deployer(d)] = a
  <1>1. c.from \in Callers /\ c.action \in {"start", "undeploy"}
    BY Zenon DEF Commands
  <1>2. reply \in [Callers -> Answers] /\ a \in Answers /\ reply' = [reply EXCEPT ![c.from] = a]
    BY Zenon DEF PlatformInv, TypeOK, Answers, Reply
  <1>3. \A e \in Deployments : Deployer(e) # c.from => reply'[Deployer(e)] = reply[Deployer(e)]
    BY Zenon, <1>1, <1>2, CallersDiffer
  <1>4. reply'[c.from] = a
    BY Zenon, <1>1, <1>2
  <1>5. CASE c.action = "start"
    <2>1. c.from = Deployer(d)
      BY Zenon, <1>5 DEF OwnCmd
    <2> QED
      BY Zenon, <2>1, <1>2, <1>1, <1>3, <1>4, <1>5, CallersDiffer
  <1>6. CASE c.action = "undeploy"
    <2>1. \A e \in Deployments : Deployer(e) # c.from
      BY Zenon, <1>6 DEF OwnCmd
    <2> QED
      BY Zenon, <2>1, <1>2, <1>1, <1>3, <1>6
  <1> QED
    BY Zenon, <1>1, <1>5, <1>6

LEMMA StartSucceedsKeepsInv ==
  ASSUME PlatformInv, NEW d \in Deployments, StartSucceeds(d), UNCHANGED <<rootDone, platformVars>>
  PROVE  PlatformInv'
  <1>1. /\ loopPC[d] = "starting" /\ state[d] = "DEPLOYING" /\ cmd[d] \in Commands /\ cmd[d].action = "start"
        /\ OwnCmd(d, cmd[d]) /\ LoopInv(d) /\ StartInv(d)
    BY Zenon, PlatformAssumption DEF StartSucceeds, PlatformInv, LoopInv, StartInv
  <1>2. /\ state' = [state EXCEPT ![d] = "RUNNING"] /\ loopPC' = [loopPC EXCEPT ![d] = "range"]
        /\ cmd' = [cmd EXCEPT ![d] = NoCmd] /\ UNCHANGED <<cmdChan, cmdClosed, starts, stops, exits>>
        /\ Reply(cmd[d].from, "nil")
    BY Zenon DEF StartSucceeds, setState, LoopGoto
  <1>3. /\ reply' \in [Callers -> Answers] /\ reply'[Deployer(d)] = "nil"
        /\ \A e \in Deployments : e # d => reply'[Deployer(e)] = reply[Deployer(e)]
    BY Zenon, <1>1, <1>2, ReplyElsewhere
  <1>4. TypeOK'
    BY Zenon, <1>2, <1>3 DEF PlatformInv, TypeOK, States, platformVars
  <1>5. /\ state'[d] = "RUNNING" /\ loopPC'[d] = "range" /\ cmd'[d] = NoCmd /\ cmdChan'[d] = cmdChan[d]
        /\ starts'[d] = starts[d] /\ stops'[d] = stops[d] /\ exits'[d] = exits[d] /\ deployPC'[d] = deployPC[d]
    BY Zenon, <1>2 DEF PlatformInv, TypeOK, platformVars
  <1>6. LoopInv(d)'
    BY Zenon, <1>1, <1>5 DEF LoopInv
  <1>7. StartInv(d)'
    BY Zenon, <1>1, <1>3, <1>5 DEF StartInv, OwnCmd, Deployer
  <1>8. ASSUME NEW e \in Deployments, e # d PROVE DInv(e)'
    <2>1. /\ state'[e] = state[e] /\ cmdChan'[e] = cmdChan[e] /\ loopPC'[e] = loopPC[e] /\ cmd'[e] = cmd[e]
          /\ starts'[e] = starts[e] /\ stops'[e] = stops[e] /\ exits'[e] = exits[e] /\ deployPC'[e] = deployPC[e]
      BY Zenon, <1>2, <1>8 DEF PlatformInv, TypeOK, platformVars
    <2> QED
      BY Zenon, <1>3, <1>8, <2>1, Frame, Unfold
  <1> QED
    BY Zenon, <1>4, <1>6, <1>7, <1>8, Assemble

LEMMA StartFailsKeepsInv ==
  ASSUME PlatformInv, NEW d \in Deployments, StartFails(d), UNCHANGED <<rootDone, platformVars>>
  PROVE  PlatformInv'
  <1>1. /\ loopPC[d] = "starting" /\ state[d] = "DEPLOYING" /\ cmd[d] \in Commands /\ cmd[d].action = "start"
        /\ OwnCmd(d, cmd[d]) /\ LoopInv(d) /\ StartInv(d) /\ exits[d] = 0 /\ stops[d] = 0
    BY Zenon, PlatformAssumption DEF StartFails, PlatformInv, LoopInv, StartInv
  <1>2. /\ state' = [state EXCEPT ![d] = "FAILED"] /\ loopPC' = [loopPC EXCEPT ![d] = "range"]
        /\ cmd' = [cmd EXCEPT ![d] = NoCmd] /\ UNCHANGED <<cmdChan, cmdClosed, starts, stops>>
        /\ exits' = [exits EXCEPT ![d] = exits[d] + 1] /\ Reply(cmd[d].from, "err")
    BY Zenon DEF StartFails, setState, LoopGoto
  <1>3. /\ reply' \in [Callers -> Answers] /\ reply'[Deployer(d)] = "err"
        /\ \A e \in Deployments : e # d => reply'[Deployer(e)] = reply[Deployer(e)]
    BY Zenon, <1>1, <1>2, ReplyElsewhere
  <1>4. TypeOK'
    BY <1>1, <1>2, <1>3 DEF PlatformInv, TypeOK, States, platformVars
  <1>5. /\ state'[d] = "FAILED" /\ loopPC'[d] = "range" /\ cmd'[d] = NoCmd /\ cmdChan'[d] = cmdChan[d]
        /\ starts'[d] = starts[d] /\ stops'[d] = stops[d] /\ exits'[d] = exits[d] + 1 /\ deployPC'[d] = deployPC[d]
    BY Zenon, <1>2 DEF PlatformInv, TypeOK, platformVars
  <1>6. LoopInv(d)'
    BY SMTT(60), <1>1, <1>5 DEF LoopInv
  <1>7. StartInv(d)'
    BY SMTT(60), <1>1, <1>3, <1>5 DEF StartInv, OwnCmd, Deployer
  <1>8. ASSUME NEW e \in Deployments, e # d PROVE DInv(e)'
    <2>1. /\ state'[e] = state[e] /\ cmdChan'[e] = cmdChan[e] /\ loopPC'[e] = loopPC[e] /\ cmd'[e] = cmd[e]
          /\ starts'[e] = starts[e] /\ stops'[e] = stops[e] /\ exits'[e] = exits[e] /\ deployPC'[e] = deployPC[e]
      BY Zenon, <1>2, <1>8 DEF PlatformInv, TypeOK, platformVars
    <2> QED
      BY Zenon, <1>3, <1>8, <2>1, Frame, Unfold
  <1> QED
    BY Zenon, <1>4, <1>6, <1>7, <1>8, Assemble

LEMMA StopReturnsKeepsInv ==
  ASSUME PlatformInv, NEW d \in Deployments, StopReturns(d), UNCHANGED <<rootDone, platformVars>>
  PROVE  PlatformInv'
  <1>1. /\ loopPC[d] = "stopping" /\ state[d] = "STOPPING" /\ cmd[d] \in Commands /\ cmd[d].action = "undeploy"
        /\ LoopInv(d) /\ StartInv(d) /\ exits[d] = 0
    BY Zenon, PlatformAssumption DEF StopReturns, PlatformInv, LoopInv, StartInv
  <1>2. /\ state' = [state EXCEPT ![d] = "STOPPED"] /\ loopPC' = [loopPC EXCEPT ![d] = "cleanup"]
        /\ UNCHANGED <<cmdChan, cmdClosed, cmd, reply, starts, stops>>
        /\ exits' = [exits EXCEPT ![d] = exits[d] + 1]
    BY Zenon DEF StopReturns, setState, LoopGoto
  <1>3. /\ reply' \in [Callers -> Answers] /\ reply'[Deployer(d)] = reply[Deployer(d)]
        /\ \A e \in Deployments : e # d => reply'[Deployer(e)] = reply[Deployer(e)]
    BY Zenon, <1>2 DEF PlatformInv, TypeOK
  <1>4. TypeOK'
    BY <1>1, <1>2, <1>3 DEF PlatformInv, TypeOK, States, platformVars
  <1>5. /\ state'[d] = "STOPPED" /\ loopPC'[d] = "cleanup" /\ cmd'[d] = cmd[d] /\ cmdChan'[d] = cmdChan[d]
        /\ starts'[d] = starts[d] /\ stops'[d] = stops[d] /\ exits'[d] = exits[d] + 1 /\ deployPC'[d] = deployPC[d]
    BY Zenon, <1>2 DEF PlatformInv, TypeOK, platformVars
  <1>6. LoopInv(d)'
    BY SMTT(60), <1>1, <1>5 DEF LoopInv
  <1>7. StartInv(d)'
    BY Zenon, <1>1, <1>3, <1>5 DEF StartInv, OwnCmd, Deployer
  <1>8. ASSUME NEW e \in Deployments, e # d PROVE DInv(e)'
    <2>1. /\ state'[e] = state[e] /\ cmdChan'[e] = cmdChan[e] /\ loopPC'[e] = loopPC[e] /\ cmd'[e] = cmd[e]
          /\ starts'[e] = starts[e] /\ stops'[e] = stops[e] /\ exits'[e] = exits[e] /\ deployPC'[e] = deployPC[e]
      BY Zenon, <1>2, <1>8 DEF PlatformInv, TypeOK, platformVars
    <2> QED
      BY Zenon, <1>3, <1>8, <2>1, Frame, Unfold
  <1> QED
    BY Zenon, <1>4, <1>6, <1>7, <1>8, Assemble

LEMMA CleanupKeepsInv ==
  ASSUME PlatformInv, NEW d \in Deployments, Cleanup(d), UNCHANGED <<rootDone, platformVars>>
  PROVE  PlatformInv'
  <1>1. /\ loopPC[d] = "cleanup" /\ state[d] \in {"STOPPED", "FAILED"} /\ cmd[d] \in Commands
        /\ cmd[d].action = "undeploy" /\ OwnCmd(d, cmd[d]) /\ LoopInv(d) /\ StartInv(d)
    BY Zenon, PlatformAssumption DEF Cleanup, PlatformInv, LoopInv, StartInv
  <1>2. /\ state' = [state EXCEPT ![d] = "UNDEPLOYED"] /\ loopPC' = [loopPC EXCEPT ![d] = "exit"]
        /\ cmdClosed' = [cmdClosed EXCEPT ![d] = TRUE]
        /\ cmd' = [cmd EXCEPT ![d] = NoCmd] /\ UNCHANGED <<cmdChan, starts, stops, exits>>
        /\ Reply(cmd[d].from, "nil")
    BY Zenon DEF Cleanup, setState, LoopGoto
  <1>3. /\ reply' \in [Callers -> Answers] /\ reply'[Deployer(d)] = reply[Deployer(d)]
        /\ \A e \in Deployments : e # d => reply'[Deployer(e)] = reply[Deployer(e)]
    BY Zenon, <1>1, <1>2, ReplyElsewhere
  <1>4. TypeOK'
    BY Zenon, <1>1, <1>2, <1>3 DEF PlatformInv, TypeOK, States, platformVars
  <1>5. /\ state'[d] = "UNDEPLOYED" /\ loopPC'[d] = "exit" /\ cmd'[d] = NoCmd /\ cmdChan'[d] = cmdChan[d]
        /\ starts'[d] = starts[d] /\ stops'[d] = stops[d] /\ exits'[d] = exits[d] /\ deployPC'[d] = deployPC[d]
    BY Zenon, <1>2 DEF PlatformInv, TypeOK, platformVars
  <1>6. LoopInv(d)'
    BY Zenon, <1>1, <1>5 DEF LoopInv
  <1>7. StartInv(d)'
    BY Zenon, <1>1, <1>3, <1>5 DEF StartInv, OwnCmd, Deployer
  <1>8. ASSUME NEW e \in Deployments, e # d PROVE DInv(e)'
    <2>1. /\ state'[e] = state[e] /\ cmdChan'[e] = cmdChan[e] /\ loopPC'[e] = loopPC[e] /\ cmd'[e] = cmd[e]
          /\ starts'[e] = starts[e] /\ stops'[e] = stops[e] /\ exits'[e] = exits[e] /\ deployPC'[e] = deployPC[e]
      BY Zenon, <1>2, <1>8 DEF PlatformInv, TypeOK, platformVars
    <2> QED
      BY Zenon, <1>3, <1>8, <2>1, Frame, Unfold
  <1> QED
    BY Zenon, <1>4, <1>6, <1>7, <1>8, Assemble

LEMMA ReceiveCmdKeepsInv ==
  ASSUME PlatformInv, NEW d \in Deployments, ReceiveCmd(d), UNCHANGED <<rootDone, platformVars>>
  PROVE  PlatformInv'
  <1>1. PICK c \in Commands : cmdChan[d] = <<c>>
    BY DEF ReceiveCmd, PlatformInv, TypeOK
  <1>2. c = Head(cmdChan[d]) /\ Tail(cmdChan[d]) = <<>>
    BY SMTT(60), <1>1
  <1>3. /\ loopPC[d] = "range" /\ cmd[d] = NoCmd /\ state[d] \in {"PENDING", "RUNNING", "FAILED"}
        /\ OwnCmd(d, c) /\ LoopInv(d) /\ StartInv(d)
    BY Zenon, <1>1 DEF ReceiveCmd, PlatformInv, LoopInv, StartInv
  <1>4. cmdChan' = [cmdChan EXCEPT ![d] = <<>>] /\ UNCHANGED <<cmdClosed, exits>>
    BY Zenon, <1>2 DEF ReceiveCmd
  <1>5. cmdChan'[d] = <<>> /\ exits'[d] = exits[d] /\ deployPC'[d] = deployPC[d]
    BY Zenon, <1>4 DEF PlatformInv, TypeOK, platformVars
  <1>6. /\ cmdChan' \in [Deployments -> {<<>>} \cup {<<b>> : b \in Commands}]
        /\ \A b \in Commands : cmdChan'[d] # <<b>>
    BY Zenon, <1>4, <1>5 DEF PlatformInv, TypeOK
  <1>7. \/ /\ Reply(c.from, "err") /\ UNCHANGED <<state, loopPC, cmd, starts, stops>>
        \/ /\ c.action = "start" /\ state[d] = "PENDING"
           /\ state' = [state EXCEPT ![d] = "DEPLOYING"] /\ starts' = [starts EXCEPT ![d] = @ + 1]
           /\ loopPC' = [loopPC EXCEPT ![d] = "starting"] /\ cmd' = [cmd EXCEPT ![d] = c]
           /\ UNCHANGED <<reply, stops>>
        \/ /\ c.action = "undeploy" /\ state[d] = "RUNNING"
           /\ state' = [state EXCEPT ![d] = "STOPPING"] /\ stops' = [stops EXCEPT ![d] = @ + 1]
           /\ loopPC' = [loopPC EXCEPT ![d] = "stopping"] /\ cmd' = [cmd EXCEPT ![d] = c]
           /\ UNCHANGED <<reply, starts>>
        \/ /\ c.action = "undeploy" /\ state[d] = "FAILED"
           /\ loopPC' = [loopPC EXCEPT ![d] = "cleanup"] /\ cmd' = [cmd EXCEPT ![d] = c]
           /\ UNCHANGED <<state, reply, starts, stops>>
    BY Zenon, <1>2, <1>3 DEF ReceiveCmd, setState, LoopGoto, IsValidTransition
  <1>8. c.action \in {"start", "undeploy"}
    BY Zenon DEF Commands
  <1>9. CASE Reply(c.from, "err") /\ UNCHANGED <<state, loopPC, cmd, starts, stops>>
    <2>3. /\ reply' \in [Callers -> Answers]
          /\ c.action = "undeploy" => reply'[Deployer(d)] = reply[Deployer(d)]
          /\ \A e \in Deployments : e # d => reply'[Deployer(e)] = reply[Deployer(e)]
      BY Zenon, <1>3, <1>9, ReplyElsewhere
    <2>4. TypeOK'
      BY Zenon, <1>3, <1>4, <1>6, <1>9, <2>3 DEF PlatformInv, TypeOK, States, platformVars
    <2>5. state'[d] = state[d] /\ loopPC'[d] = loopPC[d] /\ cmd'[d] = cmd[d] /\ starts'[d] = starts[d] /\ stops'[d] = stops[d]
      BY Zenon, <1>9 DEF PlatformInv, TypeOK
    <2>6. LoopInv(d)'
      BY Zenon, <1>3, <1>5, <1>9, <2>5 DEF LoopInv
    <2>7. StartInv(d)'
      <3>1. (state[d] = "PENDING" /\ reply[Deployer(d)] = "none") \/ c.action = "undeploy"
        BY Zenon, <1>1, <1>3, <1>8 DEF StartInv
      <3>2. c.action = "start" => deployPC[d] \notin {"idle", "send"}
        BY Zenon, <1>1, <1>3 DEF StartInv
      <3> QED
        BY ZenonT(60), <1>3, <1>5, <1>6, <1>8, <1>9, <2>3, <2>5, <3>1, <3>2 DEF StartInv, LoopInv, OwnCmd, Deployer
    <2>8. ASSUME NEW e \in Deployments, e # d PROVE DInv(e)'
      <3>1. /\ state'[e] = state[e] /\ cmdChan'[e] = cmdChan[e] /\ loopPC'[e] = loopPC[e] /\ cmd'[e] = cmd[e]
            /\ starts'[e] = starts[e] /\ stops'[e] = stops[e] /\ exits'[e] = exits[e] /\ deployPC'[e] = deployPC[e]
        BY Zenon, <1>4, <1>9, <2>8 DEF PlatformInv, TypeOK, platformVars
      <3> QED
        BY Zenon, <2>3, <2>8, <3>1, Frame, Unfold
    <2> QED
      BY Zenon, <2>4, <2>6, <2>7, <2>8, Assemble
  <1>10. CASE /\ c.action = "start" /\ state[d] = "PENDING"
              /\ state' = [state EXCEPT ![d] = "DEPLOYING"] /\ starts' = [starts EXCEPT ![d] = @ + 1]
              /\ loopPC' = [loopPC EXCEPT ![d] = "starting"] /\ cmd' = [cmd EXCEPT ![d] = c]
              /\ UNCHANGED <<reply, stops>>
    <2>3. /\ reply' \in [Callers -> Answers] /\ reply'[Deployer(d)] = reply[Deployer(d)]
          /\ \A e \in Deployments : e # d => reply'[Deployer(e)] = reply[Deployer(e)]
      BY Zenon, <1>3, <1>10 DEF PlatformInv, TypeOK
    <2>4. TypeOK'
      BY SMTT(60), <1>3, <1>4, <1>6, <1>10, <2>3 DEF PlatformInv, TypeOK, States, platformVars
    <2>5. /\ state'[d] = "DEPLOYING" /\ loopPC'[d] = "starting" /\ cmd'[d] = c
          /\ starts'[d] = starts[d] + 1 /\ stops'[d] = stops[d]
      BY Zenon, <1>10 DEF PlatformInv, TypeOK
    <2>6. LoopInv(d)'
      <3>1. starts[d] = 0 /\ stops[d] = 0 /\ exits[d] = 0
        BY Zenon, <1>3, <1>10 DEF LoopInv
      <3>2. starts'[d] = 1 /\ stops'[d] = 0 /\ exits'[d] = 0
        BY <1>5, <2>5, <3>1
      <3>3. state'[d] = "DEPLOYING" /\ loopPC'[d] = "starting" /\ cmd'[d] \in Commands /\ cmd'[d].action = "start"
        BY Zenon, <1>10, <2>5
      <3> QED
        BY Zenon, <3>2, <3>3 DEF LoopInv
    <2>7. StartInv(d)'
      <3>1. (state[d] = "PENDING" /\ reply[Deployer(d)] = "none") \/ c.action = "undeploy"
        BY Zenon, <1>1, <1>3, <1>8 DEF StartInv
      <3>2. c.action = "start" => deployPC[d] \notin {"idle", "send"}
        BY Zenon, <1>1, <1>3 DEF StartInv
      <3> QED
        BY Zenon, <1>3, <1>5, <1>6, <1>8, <1>10, <2>3, <2>5, <3>1, <3>2 DEF StartInv, LoopInv, OwnCmd, Deployer
    <2>8. ASSUME NEW e \in Deployments, e # d PROVE DInv(e)'
      <3>1. /\ state'[e] = state[e] /\ cmdChan'[e] = cmdChan[e] /\ loopPC'[e] = loopPC[e] /\ cmd'[e] = cmd[e]
            /\ starts'[e] = starts[e] /\ stops'[e] = stops[e] /\ exits'[e] = exits[e] /\ deployPC'[e] = deployPC[e]
        BY Zenon, <1>4, <1>10, <2>8 DEF PlatformInv, TypeOK, platformVars
      <3> QED
        BY Zenon, <2>3, <2>8, <3>1, Frame, Unfold
    <2> QED
      BY Zenon, <2>4, <2>6, <2>7, <2>8, Assemble
  <1>11. CASE /\ c.action = "undeploy" /\ state[d] = "RUNNING"
              /\ state' = [state EXCEPT ![d] = "STOPPING"] /\ stops' = [stops EXCEPT ![d] = @ + 1]
              /\ loopPC' = [loopPC EXCEPT ![d] = "stopping"] /\ cmd' = [cmd EXCEPT ![d] = c]
              /\ UNCHANGED <<reply, starts>>
    <2>3. /\ reply' \in [Callers -> Answers] /\ reply'[Deployer(d)] = reply[Deployer(d)]
          /\ \A e \in Deployments : e # d => reply'[Deployer(e)] = reply[Deployer(e)]
      BY Zenon, <1>3, <1>11 DEF PlatformInv, TypeOK
    <2>4. TypeOK'
      BY SMTT(60), <1>3, <1>4, <1>6, <1>11, <2>3 DEF PlatformInv, TypeOK, States, platformVars
    <2>5. /\ state'[d] = "STOPPING" /\ loopPC'[d] = "stopping" /\ cmd'[d] = c
          /\ starts'[d] = starts[d] /\ stops'[d] = stops[d] + 1
      BY Zenon, <1>11 DEF PlatformInv, TypeOK
    <2>6. LoopInv(d)'
      <3>1. starts[d] = 1 /\ stops[d] = 0 /\ exits[d] = 0
        BY Zenon, <1>3, <1>11 DEF LoopInv
      <3>2. starts'[d] = 1 /\ stops'[d] = 1 /\ exits'[d] = 0
        BY <1>5, <2>5, <3>1
      <3>3. state'[d] = "STOPPING" /\ loopPC'[d] = "stopping" /\ cmd'[d] \in Commands /\ cmd'[d].action = "undeploy"
        BY Zenon, <1>11, <2>5
      <3> QED
        BY Zenon, <3>2, <3>3 DEF LoopInv
    <2>7. StartInv(d)'
      <3>1. (state[d] = "PENDING" /\ reply[Deployer(d)] = "none") \/ c.action = "undeploy"
        BY Zenon, <1>1, <1>3, <1>8 DEF StartInv
      <3>2. c.action = "start" => deployPC[d] \notin {"idle", "send"}
        BY Zenon, <1>1, <1>3 DEF StartInv
      <3> QED
        BY SMTT(60), <1>3, <1>5, <1>6, <1>8, <1>11, <2>3, <2>5, <3>1, <3>2 DEF StartInv, LoopInv, OwnCmd, Deployer
    <2>8. ASSUME NEW e \in Deployments, e # d PROVE DInv(e)'
      <3>1. /\ state'[e] = state[e] /\ cmdChan'[e] = cmdChan[e] /\ loopPC'[e] = loopPC[e] /\ cmd'[e] = cmd[e]
            /\ starts'[e] = starts[e] /\ stops'[e] = stops[e] /\ exits'[e] = exits[e] /\ deployPC'[e] = deployPC[e]
        BY Zenon, <1>4, <1>11, <2>8 DEF PlatformInv, TypeOK, platformVars
      <3> QED
        BY Zenon, <2>3, <2>8, <3>1, Frame, Unfold
    <2> QED
      BY Zenon, <2>4, <2>6, <2>7, <2>8, Assemble
  <1>12. CASE /\ c.action = "undeploy" /\ state[d] = "FAILED"
              /\ loopPC' = [loopPC EXCEPT ![d] = "cleanup"] /\ cmd' = [cmd EXCEPT ![d] = c]
              /\ UNCHANGED <<state, reply, starts, stops>>
    <2>3. /\ reply' \in [Callers -> Answers] /\ reply'[Deployer(d)] = reply[Deployer(d)]
          /\ \A e \in Deployments : e # d => reply'[Deployer(e)] = reply[Deployer(e)]
      BY Zenon, <1>3, <1>12 DEF PlatformInv, TypeOK
    <2>4. TypeOK'
      BY Zenon, <1>3, <1>4, <1>6, <1>12, <2>3 DEF PlatformInv, TypeOK, States, platformVars
    <2>5. /\ state'[d] = state[d] /\ loopPC'[d] = "cleanup" /\ cmd'[d] = c
          /\ starts'[d] = starts[d] /\ stops'[d] = stops[d]
      BY Zenon, <1>12 DEF PlatformInv, TypeOK
    <2>6. LoopInv(d)'
      BY ZenonT(60), <1>3, <1>5, <1>12, <2>5 DEF LoopInv
    <2>7. StartInv(d)'
      <3>1. (state[d] = "PENDING" /\ reply[Deployer(d)] = "none") \/ c.action = "undeploy"
        BY Zenon, <1>1, <1>3, <1>8 DEF StartInv
      <3>2. c.action = "start" => deployPC[d] \notin {"idle", "send"}
        BY Zenon, <1>1, <1>3 DEF StartInv
      <3> QED
        BY ZenonT(60), <1>3, <1>5, <1>6, <1>8, <1>12, <2>3, <2>5, <3>1, <3>2 DEF StartInv, LoopInv, OwnCmd, Deployer
    <2>8. ASSUME NEW e \in Deployments, e # d PROVE DInv(e)'
      <3>1. /\ state'[e] = state[e] /\ cmdChan'[e] = cmdChan[e] /\ loopPC'[e] = loopPC[e] /\ cmd'[e] = cmd[e]
            /\ starts'[e] = starts[e] /\ stops'[e] = stops[e] /\ exits'[e] = exits[e] /\ deployPC'[e] = deployPC[e]
        BY Zenon, <1>4, <1>12, <2>8 DEF PlatformInv, TypeOK, platformVars
      <3> QED
        BY Zenon, <2>3, <2>8, <3>1, Frame, Unfold
    <2> QED
      BY Zenon, <2>4, <2>6, <2>7, <2>8, Assemble
  <1> QED
    BY Zenon, <1>7, <1>9, <1>10, <1>11, <1>12

-----------------------------------------------------------------------------
LEMMA NextKeepsInv == PlatformInv /\ [Next]_vars => PlatformInv'
  <1> SUFFICES ASSUME PlatformInv, [Next]_vars PROVE PlatformInv'
    BY Zenon
  <1>1. CASE UNCHANGED vars
    BY Zenon, <1>1, CallerStep DEF vars, deploymentVars, platformVars, PlatformInv, TypeOK
  <1>2. ASSUME NEW d \in Deployments, Loop(d) PROVE PlatformInv'
    BY Zenon, <1>2, ReceiveCmdKeepsInv, StartSucceedsKeepsInv, StartFailsKeepsInv, StopReturnsKeepsInv, CleanupKeepsInv
       DEF Loop, LoopStep
  <1>3. ASSUME NEW d \in Deployments, Deploy(d) PROVE PlatformInv'
    BY Zenon, <1>3, DeployKeepsInv, DeploySendKeepsInv DEF Deploy
  <1>4. ASSUME NEW d \in Deployments, CloseOne(d) PROVE PlatformInv'
    BY Zenon, <1>4, CloseKeepsInv, CloseSendKeepsInv DEF CloseOne
  <1>5. ASSUME NEW u \in Undeployers, UndeployReturn(u) \/ \E d \in Deployments : UndeployVerticle(u, d)
        PROVE  PlatformInv'
    BY Zenon, <1>5, UndeployKeepsInv, UndeploySendKeepsInv DEF UndeployReturn
  <1>6. CASE Close \/ CloseAllDone \/ CloseTimeout \/ ParentCancel
    BY Zenon, <1>6, CloseKeepsInv
  <1> QED
    BY Zenon, <1>1, <1>2, <1>3, <1>4, <1>5, <1>6 DEF Next

(* The goroutine of every deployment keeps its state, its command and the   *)
(* counts of Start, Stop and onExit consistent.                             *)
THEOREM PlatformInvariant == Spec => []PlatformInv
  BY InitInv, NextKeepsInv, PTL DEF Spec

(* Links and monitors hear of the end of a deployment exactly once.         *)
THEOREM ExitOnce == Spec => []ExitSignalledOnce
  <1>1. PlatformInv => ExitSignalledOnce
    BY Zenon DEF PlatformInv, LoopInv, ExitSignalledOnce
  <1> QED
    BY <1>1, PlatformInvariant, PTL

(* Start and Stop are called at most once, and Stop only after a Start that *)
(* returned nil.                                                            *)
THEOREM StopIsEarned == Spec => []StopOnlyIfStarted
  <1>1. PlatformInv => StopOnlyIfStarted
    <2> SUFFICES ASSUME PlatformInv, NEW d \in Deployments
                 PROVE  starts[d] \in 0 .. 1 /\ stops[d] \in 0 .. 1 /\ (stops[d] = 1 => reply[Deployer(d)] = "nil")
      BY Zenon DEF StopOnlyIfStarted
    <2>1. LoopInv(d) /\ StartInv(d)
      BY Zenon DEF PlatformInv
    <2>2. (starts[d] = 0 \/ starts[d] = 1) /\ (stops[d] = 0 \/ stops[d] = 1)
      BY Zenon, <2>1 DEF LoopInv
    <2>3. stops[d] = 1 => reply[Deployer(d)] = "nil"
      BY Zenon, <2>1 DEF StartInv
    <2> QED
      BY <2>2, <2>3
  <1> QED
    BY <1>1, PlatformInvariant, PTL

(* Both together, as the runs check them.                                   *)
THEOREM HooksStayExact == Spec => []HooksExact
  BY ExitOnce, StopIsEarned, PTL DEF HooksExact

(* No step of a goroutine asks setState for a transition that makes it      *)
(* panic.                                                                   *)
THEOREM LifecycleIsValid == Spec => OnlyValidTransitions
  <1> DEFINE Valid == \A d \in Deployments : state'[d] # state[d] => IsValidTransition(state[d], state'[d])
  <1>1. ASSUME PlatformInv, Next PROVE Valid
    <2>1. CASE state' = state
      BY Zenon, <2>1
    <2>2. ASSUME NEW d \in Deployments, LoopStep(d) PROVE Valid
      <3>1. LoopInv(d) /\ state \in [Deployments -> States]
        BY Zenon, <1>1 DEF PlatformInv, TypeOK
      <3>2. state' = state \/ \E s \in States : IsValidTransition(state[d], s) /\ state' = [state EXCEPT ![d] = s]
        BY Zenon, <2>2, <3>1 DEF LoopStep, ReceiveCmd, StartSucceeds, StartFails, StopReturns, Cleanup, setState,
                          LoopInv, IsValidTransition, States
      <3> QED
        BY Zenon, <3>1, <3>2
    <2>3. state' = state \/ \E d \in Deployments : LoopStep(d)
      BY Zenon, <1>1 DEF Next, Loop, Deploy, CloseOne, UndeployReturn, DeployVerticle, DeploySend, DeployRootDone,
         DeployReplied, DeployTimeout, UndeployVerticle, UndeploySend, UndeployRootDone, UndeploySendTimeout,
         UndeployPanics, UndeployReplied, UndeployReplyTimeout, UndeployRemove, Close, CloseSend, ClosePanics,
         CloseSendTimeout, CloseReplied, CloseReplyTimeout, CloseAllDone, CloseTimeout, CloseCancel, ParentCancel,
         SendCmd, deploymentVars
    <2> QED
      BY Zenon, <2>1, <2>2, <2>3
  <1>2. PlatformInv /\ [Next]_vars => [Valid]_vars
    BY Zenon, <1>1
  <1> QED
    BY <1>2, PlatformInvariant, PTL DEF Spec, OnlyValidTransitions
-----------------------------------------------------------------------------
(***************************************************************************)
(* Commands and answers: no command is lost, what the callers are told is  *)
(* true, and Close stops what ran before it cancels the root context, for  *)
(* any number of deployments and callers.                                  *)
(***************************************************************************)
(* Commands and answers.                                                   *)

(* What a step of d's goroutine does with the command c it takes, refuses,  *)
(* works on or answers.                                                     *)
Takes(d, c) ==
  /\ cmdChan[d] = <<c>> /\ cmd[d] = NoCmd
  /\ cmdChan' = [cmdChan EXCEPT ![d] = <<>>] /\ cmd' = [cmd EXCEPT ![d] = c]
  /\ reply' = reply
  /\ \/ c.action = "start" /\ state[d] = "PENDING" /\ state' = [state EXCEPT ![d] = "DEPLOYING"] /\ stops' = stops
     \/ /\ c.action = "undeploy" /\ state[d] = "RUNNING" /\ state' = [state EXCEPT ![d] = "STOPPING"]
        /\ stops' = [stops EXCEPT ![d] = @ + 1]
     \/ c.action = "undeploy" /\ state[d] = "FAILED" /\ state' = state /\ stops' = stops

Refuses(d, c) ==
  /\ cmdChan[d] = <<c>> /\ cmd[d] = NoCmd
  /\ cmdChan' = [cmdChan EXCEPT ![d] = <<>>] /\ cmd' = cmd
  /\ reply' = [reply EXCEPT ![c.from] = "err"]
  /\ state' = state /\ stops' = stops
  /\ rootDone \/ c.action = "start" \/ state[d] = "PENDING"

Finishes(d, c) ==
  /\ cmd[d] = c
  /\ cmdChan' = cmdChan /\ cmd' = [cmd EXCEPT ![d] = NoCmd] /\ stops' = stops
  /\ \/ /\ c.action = "start" /\ state[d] = "DEPLOYING"
        /\ \/ reply' = [reply EXCEPT ![c.from] = "nil"] /\ state' = [state EXCEPT ![d] = "RUNNING"]
           \/ reply' = [reply EXCEPT ![c.from] = "err"] /\ state' = [state EXCEPT ![d] = "FAILED"]
     \/ /\ c.action = "undeploy" /\ state[d] \in {"STOPPED", "FAILED"}
        /\ reply' = [reply EXCEPT ![c.from] = "nil"] /\ state' = [state EXCEPT ![d] = "UNDEPLOYED"]

Stops(d) ==
  /\ state[d] = "STOPPING" /\ state' = [state EXCEPT ![d] = "STOPPED"]
  /\ UNCHANGED <<cmdChan, cmd, reply, stops>>

LEMMA LoopMoves ==
  ASSUME PlatformInv, NEW d \in Deployments, LoopStep(d)
  PROVE  Stops(d) \/ \E c \in Commands : Takes(d, c) \/ Refuses(d, c) \/ Finishes(d, c)
  <1>1. LoopInv(d) /\ StartInv(d)
    BY Zenon DEF PlatformInv
  <1>2. CASE ReceiveCmd(d)
    <2>1. PICK c \in Commands : cmdChan[d] = <<c>>
      BY <1>2 DEF ReceiveCmd, PlatformInv, TypeOK
    <2>2. c = Head(cmdChan[d]) /\ Tail(cmdChan[d]) = <<>>
      BY SMTT(60), <2>1
    <2>3. cmdChan' = [cmdChan EXCEPT ![d] = <<>>]
      BY ZenonT(60), <1>2, <2>2 DEF ReceiveCmd
    <2>4. cmd[d] = NoCmd /\ state[d] \in {"PENDING", "RUNNING", "FAILED"}
      BY Zenon, <1>1, <1>2 DEF ReceiveCmd, LoopInv
    <2>5. \/ /\ rootDone \/ c.action = "start" \/ state[d] = "PENDING"
             /\ reply' = [reply EXCEPT ![c.from] = "err"] /\ UNCHANGED <<state, cmd, stops>>
          \/ /\ c.action = "start" /\ state[d] = "PENDING" /\ state' = [state EXCEPT ![d] = "DEPLOYING"]
             /\ cmd' = [cmd EXCEPT ![d] = c] /\ UNCHANGED <<reply, stops>>
          \/ /\ c.action = "undeploy" /\ state[d] = "RUNNING" /\ state' = [state EXCEPT ![d] = "STOPPING"]
             /\ stops' = [stops EXCEPT ![d] = @ + 1] /\ cmd' = [cmd EXCEPT ![d] = c] /\ UNCHANGED reply
          \/ /\ c.action = "undeploy" /\ state[d] = "FAILED" /\ cmd' = [cmd EXCEPT ![d] = c]
             /\ UNCHANGED <<state, reply, stops>>
      BY Zenon, <1>2, <2>2, <2>4 DEF ReceiveCmd, setState, LoopGoto, IsValidTransition, Reply
    <2>6. Takes(d, c) \/ Refuses(d, c)
      BY Zenon, <2>1, <2>3, <2>4, <2>5 DEF Takes, Refuses
    <2> QED
      BY Zenon, <2>6
  <1>3. CASE StartSucceeds(d) \/ StartFails(d)
    <2>1. cmd[d] \in Commands /\ cmd[d].action = "start" /\ state[d] = "DEPLOYING"
      BY Zenon, <1>1, <1>3 DEF StartSucceeds, StartFails, LoopInv
    <2>2. Finishes(d, cmd[d])
      BY Zenon, <1>3, <2>1 DEF Finishes, StartSucceeds, StartFails, setState, Reply
    <2> QED
      BY Zenon, <2>1, <2>2
  <1>4. CASE StopReturns(d)
    BY Zenon, <1>1, <1>4 DEF StopReturns, Stops, LoopInv, setState
  <1>5. CASE Cleanup(d)
    <2>1. cmd[d] \in Commands /\ cmd[d].action = "undeploy" /\ state[d] \in {"STOPPED", "FAILED"}
      BY Zenon, <1>1, <1>5 DEF Cleanup, LoopInv
    <2>2. Finishes(d, cmd[d])
      BY Zenon, <1>5, <2>1 DEF Finishes, Cleanup, setState, Reply
    <2> QED
      BY Zenon, <2>1, <2>2
  <1> QED
    BY Zenon, <1>2, <1>3, <1>4, <1>5 DEF LoopStep

(* A send buffers one command and changes nothing else of the deployments. *)
Sends(d, c) ==
  /\ cmdChan[d] = <<>> /\ cmdChan' = [cmdChan EXCEPT ![d] = <<c>>]
  /\ UNCHANGED <<state, cmdClosed, loopPC, cmd, reply, starts, stops, exits>>

(* What the command c that d's goroutine handles does to the other ones.    *)
LEMMA TakesFlight ==
  ASSUME TypeOK, NEW d \in Deployments, NEW c \in Commands, Takes(d, c),
         NEW e \in Deployments, NEW b \in Callers
  PROVE  InFlight(e, b)' <=> InFlight(e, b)
  <1>1. cmdChan'[d] = <<>> /\ cmd'[d] = c /\ cmdChan[d] = <<c>> /\ cmd[d] = NoCmd /\ c # NoCmd
    BY Zenon, PlatformAssumption DEF Takes, TypeOK
  <1>2. e # d => cmdChan'[e] = cmdChan[e] /\ cmd'[e] = cmd[e]
    BY Zenon DEF Takes, TypeOK
  <1>3. CASE e # d
    BY Zenon, <1>2, <1>3 DEF InFlight
  <1>4. CASE e = d
    <2>1. InFlight(d, b)' <=> c.from = b
      BY <1>1 DEF InFlight
    <2>2. InFlight(d, b) <=> c.from = b
      BY <1>1 DEF InFlight
    <2> QED
      BY Zenon, <1>4, <2>1, <2>2
  <1> QED
    BY Zenon, <1>3, <1>4

LEMMA RefusesFlight ==
  ASSUME TypeOK, NEW d \in Deployments, NEW c \in Commands, Refuses(d, c),
         NEW e \in Deployments, NEW b \in Callers
  PROVE  InFlight(e, b) <=> InFlight(e, b)' \/ (e = d /\ b = c.from)
  <1>1. cmdChan'[d] = <<>> /\ cmd'[d] = NoCmd /\ cmdChan[d] = <<c>> /\ cmd[d] = NoCmd
    BY Zenon DEF Refuses, TypeOK
  <1>2. e # d => cmdChan'[e] = cmdChan[e] /\ cmd'[e] = cmd[e]
    BY Zenon DEF Refuses, TypeOK
  <1>3. CASE e # d
    BY Zenon, <1>2, <1>3 DEF InFlight
  <1>4. CASE e = d
    <2>1. ~InFlight(d, b)'
      BY <1>1 DEF InFlight
    <2>2. InFlight(d, b) <=> c.from = b
      BY <1>1 DEF InFlight
    <2> QED
      BY Zenon, <1>4, <2>1, <2>2
  <1> QED
    BY Zenon, <1>3, <1>4

LEMMA FinishesFlight ==
  ASSUME TypeOK, NEW d \in Deployments, NEW c \in Commands, Finishes(d, c),
         NEW e \in Deployments, NEW b \in Callers
  PROVE  /\ InFlight(e, b)' => InFlight(e, b)
         /\ InFlight(e, b) => InFlight(e, b)' \/ (e = d /\ b = c.from)
  <1>1. cmdChan' = cmdChan /\ cmd'[d] = NoCmd /\ cmd[d] = c /\ c # NoCmd
    BY Zenon, PlatformAssumption DEF Finishes, TypeOK
  <1>2. e # d => cmd'[e] = cmd[e]
    BY Zenon DEF Finishes, TypeOK
  <1> QED
    BY Zenon, <1>1, <1>2 DEF InFlight

LEMMA SendsFlight ==
  ASSUME TypeOK, NEW d \in Deployments, NEW c \in Commands, Sends(d, c),
         NEW e \in Deployments, NEW b \in Callers
  PROVE  InFlight(e, b)' <=> InFlight(e, b) \/ (e = d /\ b = c.from)
  <1>1. cmdChan'[d] = <<c>> /\ cmdChan[d] = <<>> /\ cmd' = cmd
    BY Zenon DEF Sends, TypeOK
  <1>2. e # d => cmdChan'[e] = cmdChan[e]
    BY Zenon DEF Sends, TypeOK
  <1>3. CASE e # d
    BY Zenon, <1>1, <1>2, <1>3 DEF InFlight
  <1>4. CASE e = d
    <2>1. (\E x \in Commands : cmdChan'[d] = <<x>> /\ x.from = b) <=> c.from = b
      BY <1>1
    <2>2. ~ \E x \in Commands : cmdChan[d] = <<x>> /\ x.from = b
      BY <1>1
    <2> QED
      BY Zenon, <1>1, <1>4, <2>1, <2>2 DEF InFlight
  <1> QED
    BY Zenon, <1>3, <1>4

(* A goroutine never loses a command: what it no longer holds is answered,  *)
(* and an answer stays.                                                     *)
LEMMA LoopHolds ==
  ASSUME PlatformInv, NEW d \in Deployments, LoopStep(d),
         NEW e \in Deployments, NEW b \in Callers, Holds(e, b)
  PROVE  Holds(e, b)'
  <1>1. TypeOK
    BY Zenon DEF PlatformInv
  <1>2. CASE Stops(d)
    BY Zenon, <1>2 DEF Stops, Holds, InFlight
  <1>3. ASSUME NEW c \in Commands, Takes(d, c) PROVE Holds(e, b)'
    <2>1. reply' = reply
      BY Zenon, <1>3 DEF Takes
    <2> QED
      BY Zenon, <1>1, <1>3, <2>1, TakesFlight DEF Holds
  <1>4. ASSUME NEW c \in Commands, NEW a \in {"nil", "err"}, reply' = [reply EXCEPT ![c.from] = a],
               InFlight(e, b) => InFlight(e, b)' \/ (e = d /\ b = c.from)
        PROVE  Holds(e, b)'
    <2>1. reply \in [Callers -> Answers]
      BY Zenon, <1>1 DEF TypeOK
    <2>2. reply'[b] = IF b = c.from THEN a ELSE reply[b]
      BY Zenon, <2>1, <1>4
    <2> QED
      BY Zenon, <1>4, <2>2 DEF Holds
  <1>5. ASSUME NEW c \in Commands, Refuses(d, c) PROVE Holds(e, b)'
    <2>1. reply' = [reply EXCEPT ![c.from] = "err"]
      BY Zenon, <1>5 DEF Refuses
    <2> QED
      BY Zenon, <1>1, <1>4, <1>5, <2>1, RefusesFlight
  <1>6. ASSUME NEW c \in Commands, Finishes(d, c) PROVE Holds(e, b)'
    <2>1. \E a \in {"nil", "err"} : reply' = [reply EXCEPT ![c.from] = a]
      BY Zenon, <1>6 DEF Finishes
    <2> QED
      BY Zenon, <1>1, <1>4, <1>6, <2>1, FinishesFlight
  <1> QED
    BY Zenon, <1>2, <1>3, <1>5, <1>6, LoopMoves

(* The steps of the three kinds of callers that send nothing. *)
CallerMoves ==
  \/ \E d \in Deployments :
       \/ DeployVerticle(d) \/ DeployRootDone(d) \/ DeployReplied(d) \/ DeployTimeout(d)
       \/ ClosePanics(d) \/ CloseSendTimeout(d) \/ CloseReplied(d) \/ CloseReplyTimeout(d)
  \/ \E u \in Undeployers :
       \/ \E d \in Deployments : UndeployVerticle(u, d)
       \/ UndeployRootDone(u) \/ UndeploySendTimeout(u) \/ UndeployPanics(u)
       \/ UndeployReplied(u) \/ UndeployReplyTimeout(u) \/ UndeployRemove(u)
  \/ Close \/ CloseAllDone \/ CloseTimeout \/ ParentCancel

LEMMA NextCases ==
  ASSUME Next
  PROVE  \/ CallerMoves
         \/ \E d \in Deployments : Loop(d) \/ DeploySend(d) \/ CloseSend(d)
         \/ \E u \in Undeployers : UndeploySend(u)
  BY Zenon DEF Next, CallerMoves, Deploy, CloseOne, UndeployReturn

LEMMA CallersLeaveDeployments == CallerMoves => UNCHANGED deploymentVars
  BY Zenon DEF CallerMoves, DeployVerticle, DeployRootDone, DeployReplied, DeployTimeout, ClosePanics,
     CloseSendTimeout, CloseReplied, CloseReplyTimeout, UndeployVerticle, UndeployRootDone, UndeploySendTimeout,
     UndeployPanics, UndeployReplied, UndeployReplyTimeout, UndeployRemove, Close, CloseAllDone, CloseTimeout,
     CloseCancel, ParentCancel

LEMMA SameFlight ==
  ASSUME UNCHANGED deploymentVars
  PROVE  /\ \A d, c : InFlight(d, c)' <=> InFlight(d, c)
         /\ \A d, c : Holds(d, c)' <=> Holds(d, c)
  BY Zenon DEF deploymentVars, InFlight, Holds

(* What the three sends do. *)
LEMMA DeploySendMoves ==
  ASSUME NEW d \in Deployments, DeploySend(d)
  PROVE  /\ Sends(d, [action |-> "start", from |-> Deployer(d)])
         /\ [action |-> "start", from |-> Deployer(d)] \in Commands
         /\ deployPC' = [deployPC EXCEPT ![d] = "wait"]
         /\ UNCHANGED <<rootDone, deployments, undeployPC, target, closePC, closing, ranAtClose, panicked>>
  <1>1. [action |-> "start", from |-> Deployer(d)] \in Commands
    BY Zenon, CallersDiffer DEF Commands
  <1> QED
    BY Zenon, <1>1 DEF DeploySend, SendCmd, CmdChanHasRoom, DeployGoto, Sends

LEMMA UndeploySendMoves ==
  ASSUME TypeOK, NEW u \in Undeployers, UndeploySend(u)
  PROVE  /\ target[u] \in Deployments /\ undeployPC[u] = "send"
         /\ Sends(target[u], [action |-> "undeploy", from |-> Undeployer(u)])
         /\ [action |-> "undeploy", from |-> Undeployer(u)] \in Commands
         /\ undeployPC' = [undeployPC EXCEPT ![u] = "wait"]
         /\ UNCHANGED <<rootDone, deployments, deployPC, target, closePC, closing, ranAtClose, panicked>>
  <1>1. [action |-> "undeploy", from |-> Undeployer(u)] \in Commands
    BY Zenon, CallersDiffer DEF Commands
  <1>2. undeployPC[u] = "send" /\ target[u] \in Deployments
    BY Zenon DEF UndeploySend, TypeOK
  <1> QED
    BY Zenon, <1>1, <1>2 DEF UndeploySend, SendCmd, CmdChanHasRoom, UndeployGoto, Sends

LEMMA CloseSendMoves ==
  ASSUME NEW d \in Deployments, CloseSend(d)
  PROVE  /\ closing[d] = "send"
         /\ Sends(d, [action |-> "undeploy", from |-> Closer(d)])
         /\ [action |-> "undeploy", from |-> Closer(d)] \in Commands
         /\ closing' = [closing EXCEPT ![d] = "wait"]
         /\ UNCHANGED <<rootDone, deployments, deployPC, undeployPC, target, closePC, ranAtClose, panicked>>
  <1>1. [action |-> "undeploy", from |-> Closer(d)] \in Commands
    BY Zenon, CallersDiffer DEF Commands
  <1> QED
    BY Zenon, <1>1 DEF CloseSend, SendCmd, CmdChanHasRoom, ClosingGoto, Sends

LEMMA SendHolds ==
  ASSUME TypeOK, NEW d \in Deployments, NEW c \in Commands, Sends(d, c)
  PROVE  /\ \A e \in Deployments, b \in Callers : Holds(e, b) => Holds(e, b)'
         /\ Holds(d, c.from)'
  <1>1. c.from \in Callers /\ reply' = reply
    BY Zenon DEF Commands, Sends
  <1> QED
    BY Zenon, <1>1, SendsFlight DEF Holds

(* A caller begins to wait only by sending, and an undeploy keeps the       *)
(* deployment it was called with.                                           *)
LEMMA CallersWait ==
  ASSUME TypeOK, CallerMoves
  PROVE  /\ \A d \in Deployments : deployPC'[d] = "wait" => deployPC[d] = "wait"
         /\ \A d \in Deployments : closing'[d] = "wait" => closing[d] = "wait"
         /\ \A u \in Undeployers : undeployPC'[u] = "wait" => undeployPC[u] = "wait"
         /\ \A u \in Undeployers : undeployPC[u] # "idle" => target'[u] = target[u]
  <1>1. ASSUME NEW d \in Deployments,
               DeployVerticle(d) \/ DeployRootDone(d) \/ DeployReplied(d) \/ DeployTimeout(d)
        PROVE  /\ \E label \in {"send", "failed", "deployed"} : deployPC' = [deployPC EXCEPT ![d] = label]
               /\ UNCHANGED <<closing, undeployPC, target>>
    BY Zenon, <1>1 DEF DeployVerticle, DeployRootDone, DeployReplied, DeployTimeout, DeployGoto
  <1>2. ASSUME NEW d \in Deployments,
               ClosePanics(d) \/ CloseSendTimeout(d) \/ CloseReplied(d) \/ CloseReplyTimeout(d)
        PROVE  /\ \E label \in {"panic", "timeout", "answered"} : closing' = [closing EXCEPT ![d] = label]
               /\ UNCHANGED <<deployPC, undeployPC, target>>
    BY Zenon, <1>2 DEF ClosePanics, CloseSendTimeout, CloseReplied, CloseReplyTimeout, ClosingGoto
  <1>3. ASSUME NEW u \in Undeployers, NEW d \in Deployments, UndeployVerticle(u, d)
        PROVE  /\ \E label \in {"send", "failed"} : undeployPC' = [undeployPC EXCEPT ![u] = label]
               /\ target' = [target EXCEPT ![u] = d] /\ undeployPC[u] = "idle" /\ UNCHANGED <<deployPC, closing>>
    BY Zenon, <1>3 DEF UndeployVerticle, UndeployGoto
  <1>4. ASSUME NEW u \in Undeployers,
               \/ UndeployRootDone(u) \/ UndeploySendTimeout(u) \/ UndeployPanics(u)
               \/ UndeployReplied(u) \/ UndeployReplyTimeout(u) \/ UndeployRemove(u)
        PROVE  /\ \E label \in {"failed", "remove", "panic", "undeployed"} :
                    undeployPC' = [undeployPC EXCEPT ![u] = label]
               /\ UNCHANGED <<deployPC, closing, target>>
    BY Zenon, <1>4 DEF UndeployRootDone, UndeploySendTimeout, UndeployPanics, UndeployReplied, UndeployReplyTimeout,
                UndeployRemove, UndeployGoto
  <1>5. CASE Close
    BY Zenon, <1>5 DEF Close, TypeOK
  <1>6. CASE CloseAllDone \/ CloseTimeout \/ ParentCancel
    BY Zenon, <1>6 DEF CloseAllDone, CloseTimeout, CloseCancel, ParentCancel, platformVars
  <1> USE DEF TypeOK
  <1>7. ASSUME NEW d \in Deployments,
               DeployVerticle(d) \/ DeployRootDone(d) \/ DeployReplied(d) \/ DeployTimeout(d)
        PROVE  \A e \in Deployments : deployPC'[e] = "wait" => deployPC[e] = "wait"
    BY Zenon, <1>1, <1>7
  <1>8. ASSUME NEW d \in Deployments,
               ClosePanics(d) \/ CloseSendTimeout(d) \/ CloseReplied(d) \/ CloseReplyTimeout(d)
        PROVE  \A e \in Deployments : closing'[e] = "wait" => closing[e] = "wait"
    BY Zenon, <1>2, <1>8
  <1>9. ASSUME NEW u \in Undeployers, NEW d \in Deployments, UndeployVerticle(u, d)
        PROVE  \A v \in Undeployers : /\ undeployPC'[v] = "wait" => undeployPC[v] = "wait"
                                      /\ undeployPC[v] # "idle" => target'[v] = target[v]
    BY Zenon, <1>3, <1>9
  <1>10. ASSUME NEW u \in Undeployers,
               \/ UndeployRootDone(u) \/ UndeploySendTimeout(u) \/ UndeployPanics(u)
               \/ UndeployReplied(u) \/ UndeployReplyTimeout(u) \/ UndeployRemove(u)
        PROVE  \A v \in Undeployers : undeployPC'[v] = "wait" => undeployPC[v] = "wait"
    BY Zenon, <1>4, <1>10
  <1> HIDE DEF TypeOK
  <1> QED
    BY Zenon, <1>1, <1>2, <1>3, <1>4, <1>5, <1>6, <1>7, <1>8, <1>9, <1>10 DEF CallerMoves

LEMMA AccountedStep == PlatformInv /\ CommandAccounted /\ [Next]_vars => CommandAccounted'
  <1> SUFFICES ASSUME PlatformInv, CommandAccounted, [Next]_vars PROVE CommandAccounted'
    BY Zenon
  <1>1. TypeOK /\ \A u \in Undeployers : undeployPC[u] = "wait" => target[u] \in Deployments
    BY Zenon DEF PlatformInv, TypeOK
  <1>2. ASSUME \A e \in Deployments, b \in Callers : Holds(e, b) => Holds(e, b)',
               \A e \in Deployments : deployPC'[e] = "wait" => deployPC[e] = "wait" \/ Holds(e, Deployer(e))',
               \A e \in Deployments : closing'[e] = "wait" => closing[e] = "wait" \/ Holds(e, Closer(e))',
               \A v \in Undeployers : undeployPC'[v] = "wait" =>
                 /\ target'[v] = target[v] /\ target[v] \in Deployments
                 /\ \A e \in Deployments : e = target[v] => undeployPC[v] = "wait" \/ Holds(e, Undeployer(v))'
        PROVE  CommandAccounted'
    <2>1. ASSUME NEW e \in Deployments PROVE deployPC'[e] = "wait" => Holds(e, Deployer(e))'
      BY Zenon, <1>2, CallersDiffer DEF CommandAccounted
    <2>2. ASSUME NEW e \in Deployments PROVE closing'[e] = "wait" => Holds(e, Closer(e))'
      BY Zenon, <1>2, CallersDiffer DEF CommandAccounted
    <2>3. ASSUME NEW v \in Undeployers, undeployPC'[v] = "wait"
          PROVE  Holds(target[v], Undeployer(v))'
      <3>1. PICK e \in Deployments : e = target[v] /\ target'[v] = e
        BY Zenon, <1>2, <2>3
      <3>2. Holds(e, Undeployer(v))'
        BY Zenon, <1>2, <2>3, <3>1, CallersDiffer DEF CommandAccounted
      <3> QED
        BY Zenon, <3>1, <3>2 DEF Holds, InFlight
    <2> QED
      BY Zenon, <2>1, <2>2, <2>3 DEF CommandAccounted
  <1>3. CASE UNCHANGED vars
    BY Zenon, <1>3 DEF CommandAccounted, Holds, InFlight, vars, deploymentVars, platformVars
  <1>4. CASE CallerMoves
    <2>1. \A e \in Deployments, b \in Callers : Holds(e, b) => Holds(e, b)'
      BY Zenon, <1>4, SameFlight, CallersLeaveDeployments
    <2> QED
      BY Zenon, <1>1, <1>2, <1>4, <2>1, CallersWait
  <1>5. ASSUME NEW d \in Deployments, Loop(d) PROVE CommandAccounted'
    <2>1. LoopStep(d) /\ UNCHANGED <<deployPC, undeployPC, target, closing>>
      BY Zenon, <1>5 DEF Loop, platformVars
    <2>2. \A e \in Deployments, b \in Callers : Holds(e, b) => Holds(e, b)'
      BY Zenon, <2>1, LoopHolds
    <2> QED
      BY Zenon, <1>1, <1>2, <2>1, <2>2
  <1>6. ASSUME NEW d \in Deployments, DeploySend(d) PROVE CommandAccounted'
    <2>1. (\A e \in Deployments, b \in Callers : Holds(e, b) => Holds(e, b)') /\ Holds(d, Deployer(d))'
      BY Zenon, <1>1, <1>6, DeploySendMoves, SendHolds
    <2>2. \A e \in Deployments : e # d => deployPC'[e] = deployPC[e]
      BY Zenon, <1>1, <1>6, DeploySendMoves DEF TypeOK
    <2>3. UNCHANGED <<undeployPC, target, closing>>
      BY Zenon, <1>6, DeploySendMoves
    <2> QED
      BY Zenon, <1>1, <1>2, <2>1, <2>2, <2>3
  <1>7. ASSUME NEW d \in Deployments, CloseSend(d) PROVE CommandAccounted'
    <2>1. (\A e \in Deployments, b \in Callers : Holds(e, b) => Holds(e, b)') /\ Holds(d, Closer(d))'
      BY Zenon, <1>1, <1>7, CloseSendMoves, SendHolds
    <2>2. \A e \in Deployments : e # d => closing'[e] = closing[e]
      BY Zenon, <1>1, <1>7, CloseSendMoves DEF TypeOK
    <2>3. UNCHANGED <<undeployPC, target, deployPC>>
      BY Zenon, <1>7, CloseSendMoves
    <2> QED
      BY Zenon, <1>1, <1>2, <2>1, <2>2, <2>3
  <1>8. ASSUME NEW u \in Undeployers, UndeploySend(u) PROVE CommandAccounted'
    <2>1. PICK d \in Deployments : d = target[u]
      BY Zenon, <1>1, <1>8, UndeploySendMoves
    <2>2. Sends(d, [action |-> "undeploy", from |-> Undeployer(u)]) /\ [action |-> "undeploy", from |-> Undeployer(u)] \in Commands
      BY Zenon, <1>1, <1>8, <2>1, UndeploySendMoves
    <2>3. (\A e \in Deployments, b \in Callers : Holds(e, b) => Holds(e, b)') /\ Holds(d, Undeployer(u))'
      BY Zenon, <1>1, <2>2, SendHolds
    <2>4. \A v \in Undeployers : v # u => undeployPC'[v] = undeployPC[v]
      BY Zenon, <1>1, <1>8, UndeploySendMoves DEF TypeOK
    <2>5. UNCHANGED <<deployPC, target, closing>>
      BY Zenon, <1>1, <1>8, UndeploySendMoves
    <2> QED
      BY Zenon, <1>1, <1>2, <2>1, <2>3, <2>4, <2>5
  <1> QED
    BY Zenon, <1>3, <1>4, <1>5, <1>6, <1>7, <1>8, NextCases

(* No command of a waiting caller is ever lost, for any number of           *)
(* deployments and callers: it is buffered, being worked on or answered.    *)
THEOREM CommandsStayAccounted == Spec => []CommandAccounted
  <1>1. Init => CommandAccounted
    BY Zenon DEF Init, CommandAccounted
  <1> QED
    BY <1>1, AccountedStep, PlatformInvariant, PTL DEF Spec

-----------------------------------------------------------------------------
(* What the callers are told.                                              *)

Alive == {"RUNNING", "STOPPING", "STOPPED", "UNDEPLOYED"}

IdleInv ==
  \A u \in Undeployers :
    /\ undeployPC[u] = "idle" => target[u] = NoDeployment
    /\ reply[Undeployer(u)] # "none" => target[u] \in Deployments

OwnInv == \A d \in Deployments, c \in Callers : InFlight(d, c) => Serves(d, c)

ToldInv ==
  \A d \in Deployments :
    /\ reply[Deployer(d)] = "nil" => state[d] \in Alive
    /\ deployPC[d] = "deployed" => reply[Deployer(d)] = "nil"

NilInv ==
  \A d \in Deployments : \A c \in Callers :
    Serves(d, c) /\ c # Deployer(d) /\ reply[c] = "nil" =>
      /\ state[d] = "UNDEPLOYED"
      /\ \A b \in Callers \ {c} : Serves(d, b) /\ b # Deployer(d) => reply[b] # "nil"

LEMMA AnswerParts == AnswerInv <=> IdleInv /\ OwnInv /\ ToldInv /\ NilInv
  BY Zenon DEF AnswerInv, IdleInv, OwnInv, ToldInv, NilInv, Alive

LEMMA AnswerPartsPrime == AnswerInv' <=> IdleInv' /\ OwnInv' /\ ToldInv' /\ NilInv'
  BY Zenon DEF AnswerInv, IdleInv, OwnInv, ToldInv, NilInv, Alive

(* A caller is served by one deployment. *)
LEMMA ServesOne ==
  ASSUME NEW d \in Deployments, NEW e \in Deployments, NEW c \in Callers, Serves(d, c), Serves(e, c)
  PROVE  d = e
  <1>1. \A x, y \in Deployments : /\ Deployer(x) = Deployer(y) => x = y
                                  /\ Closer(x) = Closer(y) => x = y
                                  /\ Closer(x) # Deployer(y)
    BY Zenon DEF Deployer, Closer
  <1>2. \A u \in Undeployers, x \in Deployments : Undeployer(u) # Deployer(x) /\ Undeployer(u) # Closer(x)
    BY Zenon DEF Deployer, Closer, Undeployer
  <1>3. \A u, v \in Undeployers : Undeployer(u) = Undeployer(v) => u = v
    BY Zenon DEF Undeployer
  <1> QED
    BY Zenon, <1>1, <1>2, <1>3 DEF Serves

LEMMA ServesDeployer ==
  ASSUME NEW d \in Deployments, NEW e \in Deployments, Serves(e, Deployer(d))
  PROVE  e = d
  BY Zenon, ServesOne, CallersDiffer DEF Serves

LEMMA SameServes ==
  ASSUME UNCHANGED target
  PROVE  \A d, c : Serves(d, c)' <=> Serves(d, c)
  BY Zenon DEF Serves, Deployer, Closer, Undeployer

(* The invariant after an answer to the sender x of a command of d. *)
LEMMA NilAfterAnswer ==
  ASSUME TypeOK, NilInv, UNCHANGED target, NEW d \in Deployments, NEW x \in Callers, Serves(d, x),
         NEW a \in {"nil", "err"}, reply' = [reply EXCEPT ![x] = a],
         \A e \in Deployments : state[e] = "UNDEPLOYED" => state'[e] = "UNDEPLOYED",
         x # Deployer(d) /\ a = "nil" => state[d] # "UNDEPLOYED" /\ state'[d] = "UNDEPLOYED"
  PROVE  NilInv'
  <1>1. \A b \in Callers : reply'[b] = IF b = x THEN a ELSE reply[b]
    BY Zenon DEF TypeOK
  <1> SUFFICES ASSUME NEW e \in Deployments, NEW c \in Callers, Serves(e, c), c # Deployer(e), reply'[c] = "nil"
               PROVE  /\ state'[e] = "UNDEPLOYED"
                      /\ \A b \in Callers \ {c} : Serves(e, b) /\ b # Deployer(e) => reply'[b] # "nil"
    BY Zenon, SameServes DEF NilInv, Deployer
  <1>2. CASE c = x
    <2>1. e = d /\ a = "nil" /\ x # Deployer(d)
      BY Zenon, <1>1, <1>2, ServesOne
    <2> QED
      BY <1>1, <1>2, <2>1 DEF NilInv
  <1>3. CASE c # x
    <2>1. reply[c] = "nil" /\ state[e] = "UNDEPLOYED"
      BY <1>1, <1>3 DEF NilInv
    <2>2. ASSUME NEW b \in Callers \ {c}, Serves(e, b), b # Deployer(e) PROVE reply'[b] # "nil"
      <3>1. CASE b # x
        BY <1>1, <2>1, <2>2, <3>1 DEF NilInv
      <3>2. CASE b = x
        <4>1. e = d
          BY Zenon, <2>2, <3>2, ServesOne
        <4> QED
          BY Zenon, <1>1, <2>1, <2>2, <3>2, <4>1
      <3> QED
        BY Zenon, <3>1, <3>2
    <2> QED
      BY Zenon, <2>1, <2>2
  <1> QED
    BY Zenon, <1>2, <1>3

LEMMA NilSameReplies ==
  ASSUME NilInv, UNCHANGED <<reply, target>>, \A e \in Deployments : state[e] = "UNDEPLOYED" => state'[e] = "UNDEPLOYED"
  PROVE  NilInv'
  BY Zenon, SameServes DEF NilInv, Deployer

(* An undeploy in flight has been called, so its target is fixed. *)
LEMMA IdleAfterAnswer ==
  ASSUME TypeOK, IdleInv, UNCHANGED <<target, undeployPC>>, NEW d \in Deployments, NEW x \in Callers, Serves(d, x),
         NEW a, reply' = [reply EXCEPT ![x] = a]
  PROVE  IdleInv'
  <1>1. \A b \in Callers : b # x => reply'[b] = reply[b]
    BY Zenon DEF TypeOK
  <1> SUFFICES ASSUME NEW u \in Undeployers, reply'[Undeployer(u)] # "none" PROVE target[u] \in Deployments
    BY Zenon DEF IdleInv, Undeployer
  <1>2. CASE Undeployer(u) # x
    BY Zenon, <1>1, <1>2, CallersDiffer DEF IdleInv
  <1>3. CASE Undeployer(u) = x
    <2>1. \A e \in Deployments : Undeployer(u) # Deployer(e) /\ Undeployer(u) # Closer(e)
      BY Zenon DEF Deployer, Closer, Undeployer
    <2>2. PICK v \in Undeployers : Undeployer(u) = Undeployer(v) /\ target[v] = d
      BY Zenon, <1>3, <2>1 DEF Serves
    <2>3. u = v
      BY Zenon, <2>2 DEF Undeployer
    <2> QED
      BY Zenon, <2>2, <2>3
  <1> QED
    BY Zenon, <1>2, <1>3

(* The state of d's own goroutine and the answer to the start of d. *)
LEMMA ToldAfterStart ==
  ASSUME TypeOK, ToldInv, UNCHANGED deployPC, NEW d \in Deployments,
         NEW a \in {"nil", "err"}, NEW s, reply' = [reply EXCEPT ![Deployer(d)] = a],
         state' = [state EXCEPT ![d] = s], s \in Alive \/ a = "err", reply[Deployer(d)] # "nil"
  PROVE  ToldInv'
  <1>1. \A e \in Deployments : /\ e # d => reply'[Deployer(e)] = reply[Deployer(e)] /\ state'[e] = state[e]
                               /\ reply'[Deployer(d)] = a /\ state'[d] = s
    BY Zenon, CallersDiffer DEF TypeOK
  <1> SUFFICES ASSUME NEW e \in Deployments
               PROVE  /\ reply'[Deployer(e)] = "nil" => state'[e] \in Alive
                      /\ deployPC[e] = "deployed" => reply'[Deployer(e)] = "nil"
    BY Zenon DEF ToldInv, Alive, Deployer
  <1> QED
    BY Zenon, <1>1 DEF ToldInv

LEMMA ToldAfterUndeploy ==
  ASSUME TypeOK, ToldInv, UNCHANGED deployPC, \A e \in Deployments : reply'[Deployer(e)] = reply[Deployer(e)],
         \A e \in Deployments : state[e] \in Alive => state'[e] \in Alive
  PROVE  ToldInv'
  BY Zenon DEF ToldInv, Alive, Deployer

(* A goroutine puts no command in flight. *)
LEMMA LoopFlight ==
  ASSUME PlatformInv, NEW d \in Deployments, LoopStep(d)
  PROVE  \A e \in Deployments, b \in Callers : InFlight(e, b)' => InFlight(e, b)
  <1>1. TypeOK
    BY Zenon DEF PlatformInv
  <1>2. CASE Stops(d)
    BY Zenon, <1>2 DEF Stops, InFlight
  <1>3. ASSUME NEW c \in Commands, Takes(d, c) \/ Refuses(d, c) \/ Finishes(d, c)
        PROVE  \A e \in Deployments, b \in Callers : InFlight(e, b)' => InFlight(e, b)
    BY Zenon, <1>1, <1>3, TakesFlight, RefusesFlight, FinishesFlight
  <1> QED
    BY Zenon, <1>2, <1>3, LoopMoves

LEMMA LoopAnswers ==
  ASSUME PlatformInv, AnswerInv, NEW d \in Deployments, LoopStep(d), UNCHANGED <<target, undeployPC, deployPC>>
  PROVE  AnswerInv'
  <1>1. TypeOK /\ IdleInv /\ OwnInv /\ ToldInv /\ NilInv /\ StartInv(d)
    BY Zenon, AnswerParts DEF PlatformInv
  <1>2. \A e \in Deployments, c \in Callers : InFlight(e, c)' => InFlight(e, c)
    BY Zenon, LoopFlight
  <1>3. OwnInv'
    BY Zenon, <1>1, <1>2, SameServes DEF OwnInv
  <1>4. ASSUME NEW c \in Commands, cmdChan[d] = <<c>> \/ cmd[d] = c
        PROVE  /\ c.from \in Callers /\ Serves(d, c.from) /\ c.action \in {"start", "undeploy"}
               /\ c.action = "start" => c.from = Deployer(d)
               /\ c.action = "undeploy" => \A e \in Deployments : c.from # Deployer(e)
    <2>1. c.from \in Callers /\ c.action \in {"start", "undeploy"} /\ c # NoCmd
      BY Zenon, PlatformAssumption DEF Commands
    <2>2. OwnCmd(d, c)
      BY Zenon, <1>1, <1>4, <2>1 DEF StartInv
    <2>3. InFlight(d, c.from)
      BY Zenon, <1>4, <2>1 DEF InFlight
    <2> QED
      BY Zenon, <1>1, <2>1, <2>2, <2>3 DEF OwnCmd, OwnInv
  <1>5. CASE Stops(d)
    <2>1. UNCHANGED reply /\ state[d] = "STOPPING" /\ \A e \in Deployments : state'[e] = IF e = d THEN "STOPPED" ELSE state[e]
      BY Zenon, <1>1, <1>5 DEF Stops, TypeOK
    <2>2. IdleInv'
      BY Zenon, <1>1, <2>1 DEF IdleInv, Undeployer
    <2>3. ToldInv'
      BY Zenon, <1>1, <2>1, ToldAfterUndeploy DEF Alive
    <2>4. NilInv'
      BY Zenon, <1>1, <2>1, NilSameReplies
    <2> QED
      BY Zenon, <1>3, <2>2, <2>3, <2>4, AnswerPartsPrime
  <1>6. ASSUME NEW c \in Commands, Takes(d, c) PROVE AnswerInv'
    <2>1. /\ UNCHANGED reply /\ state[d] # "UNDEPLOYED"
          /\ \A e \in Deployments : state'[e] = state[e] \/ (e = d /\ state[d] = "RUNNING" /\ state'[d] = "STOPPING")
                                    \/ (e = d /\ state[d] = "PENDING")
      BY Zenon, <1>1, <1>6 DEF Takes, TypeOK
    <2>2. IdleInv'
      BY ZenonT(60), <1>1, <2>1 DEF IdleInv, Undeployer
    <2>3. ToldInv'
      BY Zenon, <1>1, <2>1, ToldAfterUndeploy DEF Alive
    <2>4. NilInv'
      BY Zenon, <1>1, <2>1, NilSameReplies
    <2> QED
      BY Zenon, <1>3, <2>2, <2>3, <2>4, AnswerPartsPrime
  <1>7. ASSUME NEW c \in Commands, Refuses(d, c) PROVE AnswerInv'
    <2>1. reply' = [reply EXCEPT ![c.from] = "err"] /\ state' = state /\ cmdChan[d] = <<c>>
      BY Zenon, <1>7 DEF Refuses
    <2>2. IdleInv'
      BY Zenon, <1>1, <1>4, <2>1, IdleAfterAnswer
    <2>3. NilInv'
      BY Zenon, <1>1, <1>4, <2>1, NilAfterAnswer
    <2>4. ToldInv'
      <3>1. CASE c.action = "start"
        <4>1. c.from = Deployer(d) /\ reply[Deployer(d)] # "nil" /\ state' = [state EXCEPT ![d] = state[d]]
          BY Zenon, <1>1, <1>4, <2>1, <3>1 DEF StartInv, TypeOK
        <4> QED
          BY ZenonT(60), <1>1, <2>1, <4>1, ToldAfterStart
      <3>2. CASE c.action = "undeploy"
        <4>1. \A e \in Deployments : reply'[Deployer(e)] = reply[Deployer(e)]
          BY Zenon, <1>1, <1>4, <2>1, <3>2, CallersDiffer DEF TypeOK
        <4> QED
          BY Zenon, <1>1, <2>1, <4>1, ToldAfterUndeploy
      <3> QED
        BY Zenon, <1>4, <2>1, <3>1, <3>2
    <2> QED
      BY Zenon, <1>3, <2>2, <2>3, <2>4, AnswerPartsPrime
  <1>8. ASSUME NEW c \in Commands, Finishes(d, c) PROVE AnswerInv'
    <2>1. cmd[d] = c
      BY Zenon, <1>8 DEF Finishes
    <2>2. CASE c.action = "start"
      <3>1. PICK a \in {"nil", "err"}, s \in {"RUNNING", "FAILED"} :
              /\ reply' = [reply EXCEPT ![Deployer(d)] = a] /\ state' = [state EXCEPT ![d] = s]
              /\ a = "nil" => s = "RUNNING"
        BY Zenon, <1>4, <1>8, <2>1, <2>2 DEF Finishes
      <3>2. c.from = Deployer(d) /\ state[d] = "DEPLOYING" /\ Deployer(d) \in Callers /\ Serves(d, Deployer(d))
        BY Zenon, <1>4, <1>8, <2>1, <2>2 DEF Finishes
      <3>3. \A e \in Deployments : state[e] = "UNDEPLOYED" => state'[e] = "UNDEPLOYED"
        BY Zenon, <1>1, <3>1, <3>2 DEF TypeOK
      <3>4. IdleInv'
        BY Zenon, <1>1, <3>1, <3>2, IdleAfterAnswer
      <3>5. NilInv'
        BY Zenon, <1>1, <3>1, <3>2, <3>3, NilAfterAnswer
      <3>6. reply[Deployer(d)] # "nil"
        BY Zenon, <1>1, <3>2 DEF ToldInv, Alive
      <3>7. ToldInv'
        BY Zenon, <1>1, <3>1, <3>6, ToldAfterStart DEF Alive
      <3> QED
        BY Zenon, <1>3, <3>4, <3>5, <3>7, AnswerPartsPrime
    <2>3. CASE c.action = "undeploy"
      <3>1. /\ reply' = [reply EXCEPT ![c.from] = "nil"] /\ state' = [state EXCEPT ![d] = "UNDEPLOYED"]
            /\ state[d] # "UNDEPLOYED"
        BY Zenon, <1>8, <2>3 DEF Finishes
      <3>2. \A e \in Deployments : state'[e] = IF e = d THEN "UNDEPLOYED" ELSE state[e]
        BY Zenon, <1>1, <3>1 DEF TypeOK
      <3>3. IdleInv'
        BY Zenon, <1>1, <1>4, <2>1, <3>1, IdleAfterAnswer
      <3>4. NilInv'
        BY ZenonT(60), <1>1, <1>4, <2>1, <3>1, <3>2, NilAfterAnswer
      <3>5. \A e \in Deployments : reply'[Deployer(e)] = reply[Deployer(e)]
        BY Zenon, <1>1, <1>4, <2>1, <2>3, <3>1, CallersDiffer DEF TypeOK
      <3>6. ToldInv'
        BY Zenon, <1>1, <3>2, <3>5, ToldAfterUndeploy DEF Alive
      <3> QED
        BY Zenon, <1>3, <3>3, <3>4, <3>6, AnswerPartsPrime
    <2> QED
      BY Zenon, <1>4, <2>1, <2>2, <2>3
  <1> QED
    BY Zenon, <1>5, <1>6, <1>7, <1>8, LoopMoves

(* A caller sends a command to the deployment that serves it. *)
LEMMA SendAnswers ==
  ASSUME PlatformInv, AnswerInv, NEW d \in Deployments, NEW c \in Commands, Sends(d, c), Serves(d, c.from),
         UNCHANGED target,
         \A u \in Undeployers : undeployPC'[u] = "idle" => undeployPC[u] = "idle",
         \A e \in Deployments : deployPC'[e] = "deployed" => deployPC[e] = "deployed"
  PROVE  AnswerInv'
  <1>1. TypeOK /\ IdleInv /\ OwnInv /\ ToldInv /\ NilInv
    BY Zenon, AnswerParts DEF PlatformInv
  <1>2. UNCHANGED <<reply, state>>
    BY Zenon DEF Sends
  <1>3. IdleInv'
    BY Zenon, <1>1, <1>2 DEF IdleInv, Undeployer
  <1>4. OwnInv'
    BY <1>1, SendsFlight, SameServes DEF OwnInv
  <1>5. ToldInv'
    BY Zenon, <1>1, <1>2 DEF ToldInv, Alive, Deployer
  <1>6. NilInv'
    BY Zenon, <1>1, <1>2, NilSameReplies
  <1> QED
    BY Zenon, <1>3, <1>4, <1>5, <1>6, AnswerPartsPrime

(* A caller takes a step of its own; an undeploy may fix its target. *)
LEMMA CallerAnswers ==
  ASSUME PlatformInv, AnswerInv, UNCHANGED deploymentVars,
         \A u \in Undeployers : undeployPC[u] # "idle" => target'[u] = target[u],
         \A u \in Undeployers : undeployPC'[u] = "idle" => undeployPC[u] = "idle" /\ target'[u] = target[u],
         \A e \in Deployments : deployPC'[e] = "deployed" => deployPC[e] = "deployed" \/ reply[Deployer(e)] = "nil"
  PROVE  AnswerInv'
  <1>1. TypeOK /\ IdleInv /\ OwnInv /\ ToldInv /\ NilInv
    BY Zenon, AnswerParts DEF PlatformInv
  <1>2. UNCHANGED <<reply, state>>
    BY Zenon DEF deploymentVars
  <1>3. \A u \in Undeployers : target[u] \in Deployments => target'[u] = target[u]
    BY Zenon, <1>1, PlatformAssumption DEF IdleInv
  <1>4. ASSUME NEW e \in Deployments, NEW b \in Callers, Serves(e, b) PROVE Serves(e, b)'
    BY Zenon, <1>3, <1>4 DEF Serves, Deployer, Closer, Undeployer
  <1>5. ASSUME NEW e \in Deployments, NEW b \in Callers, Serves(e, b)', reply[b] # "none" PROVE Serves(e, b)
    <2>1. CASE \E u \in Undeployers : b = Undeployer(u) /\ target'[u] = e
      <3>1. PICK u \in Undeployers : b = Undeployer(u) /\ target'[u] = e
        BY Zenon, <2>1
      <3>2. target[u] \in Deployments
        BY Zenon, <1>1, <1>5, <3>1 DEF IdleInv
      <3> QED
        BY Zenon, <1>3, <3>1, <3>2 DEF Serves
    <2>2. CASE b = Deployer(e) \/ b = Closer(e)
      BY Zenon, <2>2 DEF Serves
    <2> QED
      BY Zenon, <1>5, <2>1, <2>2 DEF Serves, Deployer, Closer, Undeployer
  <1>6. IdleInv'
    BY ZenonT(60), <1>1, <1>2, <1>3 DEF IdleInv, Undeployer
  <1>7. OwnInv'
    BY Zenon, <1>1, <1>4, SameFlight DEF OwnInv
  <1>8. ToldInv'
    BY Zenon, <1>1, <1>2 DEF ToldInv, Alive, Deployer
  <1>9. NilInv'
    <2> SUFFICES ASSUME NEW e \in Deployments, NEW c \in Callers, Serves(e, c)', c # Deployer(e), reply[c] = "nil"
                 PROVE  /\ state[e] = "UNDEPLOYED"
                        /\ \A b \in Callers \ {c} : Serves(e, b)' /\ b # Deployer(e) => reply[b] # "nil"
      BY Zenon, <1>2 DEF NilInv, Deployer
    <2>1. Serves(e, c)
      BY Zenon, <1>5
    <2>2. state[e] = "UNDEPLOYED"
      BY Zenon, <1>1, <2>1 DEF NilInv
    <2>3. ASSUME NEW b \in Callers \ {c}, Serves(e, b)', b # Deployer(e), reply[b] = "nil" PROVE FALSE
      <3>1. Serves(e, b)
        BY Zenon, <1>5, <2>3
      <3> QED
        BY Zenon, <1>1, <2>1, <2>3, <3>1 DEF NilInv
    <2> QED
      BY Zenon, <2>2, <2>3
  <1> QED
    BY Zenon, <1>6, <1>7, <1>8, <1>9, AnswerPartsPrime

LEMMA CallersAreTold ==
  ASSUME TypeOK, CallerMoves
  PROVE  /\ \A u \in Undeployers : undeployPC'[u] = "idle" => undeployPC[u] = "idle" /\ target'[u] = target[u]
         /\ \A e \in Deployments : deployPC'[e] = "deployed" => deployPC[e] = "deployed" \/ reply[Deployer(e)] = "nil"
  <1> USE DEF TypeOK
  <1>1. ASSUME NEW d \in Deployments,
               DeployVerticle(d) \/ DeployRootDone(d) \/ DeployReplied(d) \/ DeployTimeout(d)
        PROVE  /\ UNCHANGED <<undeployPC, target>>
               /\ \A e \in Deployments : deployPC'[e] = "deployed" => deployPC[e] = "deployed" \/ reply[Deployer(e)] = "nil"
    <2>1. PICK label \in {"send", "failed", "deployed"} :
            /\ deployPC' = [deployPC EXCEPT ![d] = label]
            /\ label = "deployed" => reply[Deployer(d)] = "nil"
      BY Zenon, <1>1 DEF DeployVerticle, DeployRootDone, DeployReplied, DeployTimeout, DeployGoto
    <2>2. UNCHANGED <<undeployPC, target>>
      BY Zenon, <1>1 DEF DeployVerticle, DeployRootDone, DeployReplied, DeployTimeout, DeployGoto
    <2> QED
      BY Zenon, <2>1, <2>2
  <1>2. ASSUME NEW d \in Deployments,
               ClosePanics(d) \/ CloseSendTimeout(d) \/ CloseReplied(d) \/ CloseReplyTimeout(d)
        PROVE  UNCHANGED <<deployPC, undeployPC, target>>
    BY Zenon, <1>2 DEF ClosePanics, CloseSendTimeout, CloseReplied, CloseReplyTimeout, ClosingGoto
  <1>3. ASSUME NEW u \in Undeployers, NEW d \in Deployments, UndeployVerticle(u, d)
        PROVE  /\ UNCHANGED deployPC
               /\ \A v \in Undeployers : undeployPC'[v] = "idle" => undeployPC[v] = "idle" /\ target'[v] = target[v]
    BY Zenon, <1>3 DEF UndeployVerticle, UndeployGoto
  <1>4. ASSUME NEW u \in Undeployers,
               \/ UndeployRootDone(u) \/ UndeploySendTimeout(u) \/ UndeployPanics(u)
               \/ UndeployReplied(u) \/ UndeployReplyTimeout(u) \/ UndeployRemove(u)
        PROVE  /\ UNCHANGED <<deployPC, target>>
               /\ \A v \in Undeployers : undeployPC'[v] = "idle" => undeployPC[v] = "idle"
    <2>1. PICK label \in {"failed", "remove", "panic", "undeployed"} : undeployPC' = [undeployPC EXCEPT ![u] = label]
      BY Zenon, <1>4 DEF UndeployRootDone, UndeploySendTimeout, UndeployPanics, UndeployReplied,
                  UndeployReplyTimeout, UndeployRemove, UndeployGoto
    <2>2. UNCHANGED <<deployPC, target>>
      BY Zenon, <1>4 DEF UndeployRootDone, UndeploySendTimeout, UndeployPanics, UndeployReplied,
                  UndeployReplyTimeout, UndeployRemove, UndeployGoto
    <2> QED
      BY Zenon, <2>1, <2>2
  <1>5. CASE Close \/ CloseAllDone \/ CloseTimeout \/ ParentCancel
    BY Zenon, <1>5 DEF Close, CloseAllDone, CloseTimeout, CloseCancel, ParentCancel, platformVars
  <1> HIDE DEF TypeOK
  <1> QED
    BY ZenonT(60), <1>1, <1>2, <1>3, <1>4, <1>5 DEF CallerMoves

LEMMA AnswerStep == PlatformInv /\ AnswerInv /\ [Next]_vars => AnswerInv'
  <1> SUFFICES ASSUME PlatformInv, AnswerInv, [Next]_vars PROVE AnswerInv'
    BY Zenon
  <1>1. TypeOK
    BY Zenon DEF PlatformInv
  <1>2. CASE UNCHANGED vars
    BY Zenon, <1>2, CallerAnswers DEF vars, platformVars
  <1>3. CASE CallerMoves
    BY Zenon, <1>1, <1>3, CallerAnswers, CallersWait, CallersAreTold, CallersLeaveDeployments
  <1>4. ASSUME NEW d \in Deployments, Loop(d) PROVE AnswerInv'
    <2>1. LoopStep(d) /\ UNCHANGED <<target, undeployPC, deployPC>>
      BY Zenon, <1>4 DEF Loop, platformVars
    <2> QED
      BY Zenon, <2>1, LoopAnswers
  <1>5. ASSUME NEW d \in Deployments, DeploySend(d) PROVE AnswerInv'
    <2>1. \A e \in Deployments : deployPC'[e] = "deployed" => deployPC[e] = "deployed"
      BY Zenon, <1>1, <1>5, DeploySendMoves DEF TypeOK
    <2>2. PICK c \in Commands : Sends(d, c) /\ c.from = Deployer(d)
      BY Zenon, <1>5, DeploySendMoves
    <2>3. UNCHANGED <<target, undeployPC>>
      BY Zenon, <1>5, DeploySendMoves
    <2>4. Serves(d, c.from)
      BY Zenon, <2>2 DEF Serves
    <2> QED
      BY Zenon, <2>1, <2>2, <2>3, <2>4, SendAnswers
  <1>6. ASSUME NEW d \in Deployments, CloseSend(d) PROVE AnswerInv'
    <2>1. PICK c \in Commands : Sends(d, c) /\ c.from = Closer(d)
      BY Zenon, <1>6, CloseSendMoves
    <2>2. UNCHANGED <<target, undeployPC, deployPC>>
      BY Zenon, <1>6, CloseSendMoves
    <2>3. Serves(d, c.from)
      BY Zenon, <2>1 DEF Serves
    <2> QED
      BY Zenon, <2>1, <2>2, <2>3, SendAnswers
  <1>7. ASSUME NEW u \in Undeployers, UndeploySend(u) PROVE AnswerInv'
    <2>1. PICK d \in Deployments : d = target[u]
      BY Zenon, <1>1, <1>7, UndeploySendMoves
    <2>2. PICK c \in Commands : Sends(d, c) /\ c.from = Undeployer(u)
      BY Zenon, <1>1, <1>7, <2>1, UndeploySendMoves
    <2>3. UNCHANGED <<target, deployPC>> /\ undeployPC' = [undeployPC EXCEPT ![u] = "wait"]
      BY Zenon, <1>1, <1>7, UndeploySendMoves
    <2>4. Serves(d, c.from)
      BY Zenon, <2>1, <2>2 DEF Serves
    <2>5. \A v \in Undeployers : undeployPC'[v] = "idle" => undeployPC[v] = "idle"
      BY Zenon, <1>1, <2>3 DEF TypeOK
    <2> QED
      BY Zenon, <2>2, <2>3, <2>4, <2>5, SendAnswers
  <1> QED
    BY Zenon, <1>2, <1>3, <1>4, <1>5, <1>6, <1>7, NextCases

THEOREM AnswerInvariant == Spec => []AnswerInv
  <1>1. Init => AnswerInv
    <2> SUFFICES ASSUME Init PROVE AnswerInv
      BY Zenon
    <2>1. /\ \A c \in Callers : reply[c] = "none"
          /\ \A d \in Deployments : cmdChan[d] = <<>> /\ cmd[d] = NoCmd /\ deployPC[d] = "idle"
          /\ \A u \in Undeployers : target[u] = NoDeployment
      BY Zenon DEF Init, NewDeployment
    <2>2. \A d \in Deployments, c \in Callers : ~InFlight(d, c)
      BY <2>1 DEF InFlight
    <2> QED
      BY Zenon, <2>1, <2>2, CallersDiffer DEF AnswerInv
  <1> QED
    BY <1>1, AnswerStep, PlatformInvariant, PTL DEF Spec

(* DeployVerticle answers nil only for a verticle that reached RUNNING, and *)
(* of all the undeploys of a deployment only the one that its final cleanup *)
(* answers is told nil.                                                     *)
THEOREM CallersHearTheTruth == Spec => []AnswersAreTrue
  <1>1. PlatformInv /\ AnswerInv => AnswersAreTrue
    <2> SUFFICES ASSUME PlatformInv, AnswerInv PROVE AnswersAreTrue
      BY Zenon
    <2>1. IdleInv /\ ToldInv /\ NilInv
      BY Zenon, AnswerParts
    <2>2. ASSUME NEW d \in Deployments, deployPC[d] = "deployed"
          PROVE  state[d] \in {"RUNNING", "STOPPING", "STOPPED", "UNDEPLOYED"}
      BY Zenon, <2>1, <2>2 DEF ToldInv, Alive
    <2>3. ASSUME NEW u \in Undeployers, reply[Undeployer(u)] = "nil"
          PROVE  /\ state[target[u]] = "UNDEPLOYED"
                 /\ reply[Closer(target[u])] # "nil"
                 /\ \A v \in Undeployers \ {u} : target[v] = target[u] => reply[Undeployer(v)] # "nil"
      <3>1. PICK d \in Deployments : target[u] = d
        BY Zenon, <2>1, <2>3 DEF IdleInv
      <3>2. Undeployer(u) \in Callers /\ Undeployer(u) # Deployer(d) /\ Serves(d, Undeployer(u))
        BY Zenon, <3>1, CallersDiffer DEF Serves
      <3>3. /\ state[d] = "UNDEPLOYED"
            /\ \A b \in Callers \ {Undeployer(u)} : Serves(d, b) /\ b # Deployer(d) => reply[b] # "nil"
        BY Zenon, <2>1, <2>3, <3>2 DEF NilInv
      <3>4. Closer(d) \in Callers \ {Undeployer(u)} /\ Serves(d, Closer(d)) /\ Closer(d) # Deployer(d)
        BY Zenon, CallersDiffer DEF Serves, Closer, Undeployer
      <3>5. ASSUME NEW v \in Undeployers \ {u}, target[v] = d
            PROVE  Undeployer(v) \in Callers \ {Undeployer(u)} /\ Serves(d, Undeployer(v)) /\ Undeployer(v) # Deployer(d)
        BY Zenon, <3>5, CallersDiffer DEF Serves, Undeployer
      <3> QED
        BY Zenon, <3>1, <3>3, <3>4, <3>5
    <2> QED
      BY Zenon, <2>2, <2>3 DEF AnswersAreTrue
  <1> QED
    BY <1>1, PlatformInvariant, AnswerInvariant, PTL

-----------------------------------------------------------------------------
(* Close.                                                                  *)

(* What a step of d's goroutine may do to the answer of Close's undeploy of *)
(* e, and to a deployment that has been RUNNING.                            *)
LEMMA LoopCloserReply ==
  ASSUME PlatformInv, AnswerInv, NEW d \in Deployments, LoopStep(d),
         NEW e \in Deployments, reply'[Closer(e)] # reply[Closer(e)]
  PROVE  /\ e = d /\ InFlight(d, Closer(d)) /\ state[d] # "UNDEPLOYED"
         /\ reply'[Closer(d)] = "nil" \/ (reply'[Closer(d)] = "err" /\ (rootDone \/ state[d] = "PENDING"))
  <1>1. TypeOK /\ OwnInv /\ LoopInv(d) /\ StartInv(d)
    BY Zenon, AnswerParts DEF PlatformInv
  <1>2. Closer(e) \in Callers /\ \A f \in Deployments : Closer(e) # Deployer(f)
    BY Zenon, CallersDiffer
  <1>3. state[d] # "UNDEPLOYED"
    BY ZenonT(60), <1>1 DEF LoopStep, ReceiveCmd, StartSucceeds, StartFails, StopReturns, Cleanup, LoopInv
  <1>4. ASSUME NEW c \in Commands, cmdChan[d] = <<c>> \/ cmd[d] = c, NEW a, reply' = [reply EXCEPT ![c.from] = a]
        PROVE  c.from = Closer(e) /\ e = d /\ InFlight(d, Closer(d)) /\ c.action = "undeploy" /\ reply'[Closer(d)] = a
    <2>1. reply \in [Callers -> Answers] /\ c.from \in Callers /\ c.action \in {"start", "undeploy"} /\ c # NoCmd
      BY Zenon, <1>1, PlatformAssumption DEF TypeOK, Commands
    <2>2. c.from = Closer(e) /\ reply'[Closer(e)] = a
      BY Zenon, <1>2, <1>4, <2>1
    <2>3. InFlight(d, Closer(e))
      BY Zenon, <1>4, <2>1, <2>2 DEF InFlight
    <2>4. Serves(d, Closer(e)) /\ Serves(e, Closer(e))
      BY Zenon, <1>1, <1>2, <2>3 DEF OwnInv, Serves
    <2>5. d = e
      BY ZenonT(60), <1>2, <2>4, ServesOne
    <2>6. OwnCmd(d, c)
      BY Zenon, <1>1, <1>4, <2>1 DEF StartInv
    <2>7. c.action = "undeploy"
      BY Zenon, <1>2, <2>1, <2>2, <2>6 DEF OwnCmd
    <2> QED
      BY Zenon, <2>2, <2>3, <2>5, <2>7
  <1>5. CASE Stops(d)
    BY Zenon, <1>5 DEF Stops
  <1>6. ASSUME NEW c \in Commands, Takes(d, c) PROVE FALSE
    BY Zenon, <1>6 DEF Takes
  <1>7. ASSUME NEW c \in Commands, Refuses(d, c)
        PROVE  e = d /\ InFlight(d, Closer(d)) /\ reply'[Closer(d)] = "err" /\ (rootDone \/ state[d] = "PENDING")
    <2>1. reply' = [reply EXCEPT ![c.from] = "err"] /\ cmdChan[d] = <<c>>
      BY Zenon, <1>7 DEF Refuses
    <2>2. e = d /\ InFlight(d, Closer(d)) /\ reply'[Closer(d)] = "err" /\ c.action = "undeploy"
      BY Zenon, <1>4, <2>1
    <2> QED
      BY Zenon, <1>7, <2>2 DEF Refuses
  <1>8. ASSUME NEW c \in Commands, Finishes(d, c)
        PROVE  e = d /\ InFlight(d, Closer(d)) /\ reply'[Closer(d)] = "nil"
    <2>1. cmd[d] = c /\ \E a : reply' = [reply EXCEPT ![c.from] = a]
      BY Zenon, <1>8 DEF Finishes
    <2>2. e = d /\ InFlight(d, Closer(d)) /\ c.action = "undeploy"
      BY Zenon, <1>4, <2>1
    <2>3. reply' = [reply EXCEPT ![c.from] = "nil"]
      BY Zenon, <1>8, <2>2 DEF Finishes
    <2> QED
      BY Zenon, <1>4, <2>1, <2>2, <2>3
  <1> QED
    BY Zenon, <1>3, <1>5, <1>6, <1>7, <1>8, LoopMoves

LEMMA LoopKeepsAlive ==
  ASSUME PlatformInv, NEW d \in Deployments, LoopStep(d), NEW e \in Deployments,
         state[e] \in Alive, state[e] # "RUNNING" => stops[e] = 1
  PROVE  state'[e] \in Alive /\ (state'[e] # "RUNNING" => stops'[e] = 1)
  <1>1. TypeOK /\ LoopInv(d)
    BY Zenon DEF PlatformInv
  <1>2. CASE Stops(d)
    BY Zenon, <1>1, <1>2 DEF Stops, TypeOK, Alive
  <1>3. ASSUME NEW c \in Commands, Takes(d, c)
        PROVE  state'[e] \in Alive /\ (state'[e] # "RUNNING" => stops'[e] = 1)
    <2>1. state[d] = "RUNNING" => stops[d] = 0
      BY Zenon, <1>1 DEF LoopInv
    <2> QED
      BY SMTT(60), <1>1, <1>3, <2>1 DEF Takes, TypeOK, Alive
  <1>4. ASSUME NEW c \in Commands, Refuses(d, c)
        PROVE  state'[e] \in Alive /\ (state'[e] # "RUNNING" => stops'[e] = 1)
    BY ZenonT(60), <1>4 DEF Refuses
  <1>5. ASSUME NEW c \in Commands, Finishes(d, c)
        PROVE  state'[e] \in Alive /\ (state'[e] # "RUNNING" => stops'[e] = 1)
    BY Zenon, <1>1, <1>5 DEF Finishes, TypeOK, Alive
  <1> QED
    BY Zenon, <1>2, <1>3, <1>4, <1>5, LoopMoves

(* The four parts of CloseInv. *)
OrderInv ==
  /\ closePC \in {"idle", "wait"} => ~rootDone
  /\ closePC = "idle" => \A d \in Deployments : closing[d] = "none"
  /\ closePC = "closed" => \A d \in Deployments : closing[d] \in {"none", "answered", "timeout"}

CloserInv ==
  \A d \in Deployments :
    /\ closing[d] \in {"none", "send"} => ~Holds(d, Closer(d))
    /\ closing[d] = "answered" => reply[Closer(d)] # "none"

RanInv == \A d \in ranAtClose : state[d] \in Alive /\ (state[d] # "RUNNING" => stops[d] = 1)

RefusedInv ==
  \A d \in ranAtClose :
    /\ reply[Closer(d)] = "err" => rootDone
    /\ closePC = "closed" /\ closing[d] = "answered" => reply[Closer(d)] = "nil"

LEMMA CloseParts == CloseInv <=> OrderInv /\ CloserInv /\ RanInv /\ RefusedInv
  BY Zenon DEF CloseInv, OrderInv, CloserInv, RanInv, RefusedInv, Alive

LEMMA ClosePartsPrime == CloseInv' <=> OrderInv' /\ CloserInv' /\ RanInv' /\ RefusedInv'
  BY Zenon DEF CloseInv, OrderInv, CloserInv, RanInv, RefusedInv, Alive

LEMMA LoopClose ==
  ASSUME PlatformInv, AnswerInv, CloseInv, NEW d \in Deployments, LoopStep(d),
         UNCHANGED <<rootDone, closePC, closing, ranAtClose>>
  PROVE  CloseInv'
  <1>1. TypeOK /\ NilInv /\ OrderInv /\ CloserInv /\ RanInv /\ RefusedInv /\ ranAtClose \subseteq Deployments
    BY Zenon, AnswerParts, CloseParts DEF PlatformInv, TypeOK
  <1>2. OrderInv'
    BY Zenon, <1>1 DEF OrderInv
  <1>3. RanInv'
    BY Zenon, <1>1, LoopKeepsAlive DEF RanInv, Alive
  <1>4. ASSUME NEW e \in Deployments, closing[e] \in {"none", "send"} PROVE ~Holds(e, Closer(e))'
    <2>1. ~Holds(e, Closer(e)) /\ Closer(e) \in Callers
      BY Zenon, <1>1, <1>4, CallersDiffer DEF CloserInv
    <2>2. reply'[Closer(e)] = reply[Closer(e)]
      BY Zenon, <2>1, LoopCloserReply DEF Holds
    <2>3. ~InFlight(e, Closer(e))'
      BY Zenon, <2>1, LoopFlight DEF Holds
    <2> QED
      BY Zenon, <2>1, <2>2, <2>3 DEF Holds, Closer
  <1>5. ASSUME NEW e \in Deployments, closing[e] = "answered" PROVE reply'[Closer(e)] # "none"
    BY Zenon, <1>1, <1>5, LoopCloserReply DEF CloserInv
  <1>6. CloserInv'
    BY Zenon, <1>4, <1>5 DEF CloserInv, Closer
  <1>7. ASSUME NEW e \in ranAtClose, reply'[Closer(e)] = "err" PROVE rootDone
    <2>1. state[e] # "PENDING" /\ e \in Deployments
      BY Zenon, <1>1 DEF RanInv, Alive
    <2>2. CASE reply'[Closer(e)] = reply[Closer(e)]
      BY Zenon, <1>1, <1>7, <2>2 DEF RefusedInv
    <2>3. CASE reply'[Closer(e)] # reply[Closer(e)]
      BY Zenon, <1>7, <2>1, <2>3, LoopCloserReply
    <2> QED
      BY Zenon, <2>2, <2>3
  <1>8. ASSUME NEW e \in ranAtClose, closePC = "closed", closing[e] = "answered" PROVE reply'[Closer(e)] = "nil"
    <2>1. reply[Closer(e)] = "nil" /\ e \in Deployments
      BY Zenon, <1>1, <1>8 DEF RefusedInv
    <2>2. state[e] = "UNDEPLOYED"
      BY Zenon, <1>1, <2>1, CallersDiffer DEF NilInv, Serves
    <2> QED
      BY Zenon, <2>1, <2>2, LoopCloserReply
  <1>9. RefusedInv'
    BY Zenon, <1>7, <1>8 DEF RefusedInv, Closer
  <1> QED
    BY Zenon, <1>2, <1>3, <1>6, <1>9, ClosePartsPrime

(* A send of another caller, or Close's own to e. *)
LEMMA SendClose ==
  ASSUME TypeOK, CloseInv, NEW d \in Deployments, NEW c \in Commands, Sends(d, c),
         UNCHANGED <<rootDone, closePC, ranAtClose>>,
         closePC = "closed" => closing' = closing,
         closePC = "idle" => closing' = closing,
         \A e \in Deployments : closing'[e] = closing[e] \/ (closing[e] = "send" /\ closing'[e] = "wait"),
         \A e \in Deployments : c.from = Closer(e) => closing'[e] = "wait"
  PROVE  CloseInv'
  <1>1. OrderInv /\ CloserInv /\ RanInv /\ RefusedInv /\ ranAtClose \subseteq Deployments
    BY Zenon, CloseParts DEF TypeOK
  <1>2. UNCHANGED <<reply, state, stops>>
    BY Zenon DEF Sends
  <1>3. OrderInv'
    BY Zenon, <1>1 DEF OrderInv
  <1>4. RanInv'
    BY Zenon, <1>1, <1>2 DEF RanInv, Alive
  <1>5. RefusedInv'
    BY Zenon, <1>1, <1>2 DEF RefusedInv, Closer
  <1>6. ASSUME NEW e \in Deployments, closing'[e] \in {"none", "send"} PROVE ~Holds(e, Closer(e))'
    <2>1. ~Holds(e, Closer(e)) /\ Closer(e) \in Callers /\ c.from # Closer(e)
      BY Zenon, <1>1, <1>6, CallersDiffer DEF CloserInv
    <2>2. ~InFlight(e, Closer(e))'
      BY Zenon, <2>1, SendsFlight DEF Holds
    <2> QED
      BY Zenon, <1>2, <2>1, <2>2 DEF Holds, Closer
  <1>7. CloserInv'
    BY Zenon, <1>1, <1>2, <1>6 DEF CloserInv, Closer
  <1> QED
    BY Zenon, <1>3, <1>4, <1>5, <1>7, ClosePartsPrime

LEMMA CallersClose ==
  ASSUME ~ParentMayCancel, TypeOK, CloseInv, CallerMoves
  PROVE  CloseInv'
  <1>1. OrderInv /\ CloserInv /\ RanInv /\ RefusedInv /\ ranAtClose \subseteq Deployments
    BY Zenon, CloseParts DEF TypeOK
  <1>2. UNCHANGED <<reply, state, stops>> /\ \A e, b : Holds(e, b)' <=> Holds(e, b)
    BY Zenon, CallersLeaveDeployments, SameFlight DEF deploymentVars
  <1>3. ASSUME UNCHANGED <<rootDone, closePC, closing, ranAtClose>> PROVE CloseInv'
    <2>1. OrderInv' /\ RanInv' /\ RefusedInv'
      BY Zenon, <1>1, <1>2, <1>3 DEF OrderInv, RanInv, RefusedInv, Alive, Closer
    <2>2. CloserInv'
      BY Zenon, <1>1, <1>2, <1>3 DEF CloserInv, Closer
    <2> QED
      BY Zenon, <2>1, <2>2, ClosePartsPrime
  <1>4. ASSUME NEW d \in Deployments, DeployVerticle(d) \/ DeployRootDone(d) \/ DeployReplied(d) \/ DeployTimeout(d)
        PROVE  CloseInv'
    BY Zenon, <1>3, <1>4 DEF DeployVerticle, DeployRootDone, DeployReplied, DeployTimeout, DeployGoto
  <1>5. ASSUME NEW u \in Undeployers,
               \/ \E d \in Deployments : UndeployVerticle(u, d)
               \/ UndeployRootDone(u) \/ UndeploySendTimeout(u) \/ UndeployPanics(u)
               \/ UndeployReplied(u) \/ UndeployReplyTimeout(u) \/ UndeployRemove(u)
        PROVE  CloseInv'
    BY Zenon, <1>3, <1>5 DEF UndeployVerticle, UndeployRootDone, UndeploySendTimeout, UndeployPanics,
       UndeployReplied, UndeployReplyTimeout, UndeployRemove, UndeployGoto
  <1>6. CASE Close
    <2>1. /\ closePC = "idle" /\ closePC' = "wait" /\ UNCHANGED rootDone
          /\ ranAtClose' \subseteq Deployments /\ \A d \in ranAtClose' : state[d] = "RUNNING"
          /\ \A d \in Deployments : closing'[d] \in {"none", "send"}
      BY Zenon, <1>6 DEF Close, TypeOK
    <2>2. \A d \in Deployments : ~Holds(d, Closer(d))
      BY Zenon, <1>1, <2>1 DEF OrderInv, CloserInv
    <2>3. \A d \in Deployments : reply[Closer(d)] = "none"
      BY Zenon, <2>2 DEF Holds
    <2>4. OrderInv'
      BY Zenon, <1>1, <2>1 DEF OrderInv
    <2>5. CloserInv'
      BY Zenon, <1>2, <2>1, <2>2 DEF CloserInv, Closer
    <2>6. RanInv'
      BY Zenon, <1>2, <2>1 DEF RanInv, Alive
    <2>7. RefusedInv'
      BY Zenon, <1>2, <2>1, <2>3 DEF RefusedInv, Closer
    <2> QED
      BY Zenon, <2>4, <2>5, <2>6, <2>7, ClosePartsPrime
  <1>7. ASSUME NEW d \in Deployments,
               ClosePanics(d) \/ CloseSendTimeout(d) \/ CloseReplied(d) \/ CloseReplyTimeout(d)
        PROVE  CloseInv'
    <2>1. PICK label \in {"panic", "timeout", "answered"} :
            /\ closing' = [closing EXCEPT ![d] = label]
            /\ label = "answered" => reply[Closer(d)] # "none"
      BY Zenon, <1>7 DEF ClosePanics, CloseSendTimeout, CloseReplied, CloseReplyTimeout, ClosingGoto
    <2>2. closing[d] \in {"send", "wait"} /\ UNCHANGED <<rootDone, closePC, ranAtClose>>
      BY Zenon, <1>7 DEF ClosePanics, CloseSendTimeout, CloseReplied, CloseReplyTimeout, ClosingGoto
    <2>3. closePC \notin {"idle", "closed"}
      BY Zenon, <1>1, <2>2 DEF OrderInv
    <2>4. \A e \in Deployments : closing'[e] = IF e = d THEN label ELSE closing[e]
      BY Zenon, <2>1 DEF TypeOK
    <2>5. OrderInv' /\ RanInv' /\ RefusedInv'
      BY Zenon, <1>1, <1>2, <2>2, <2>3 DEF OrderInv, RanInv, RefusedInv, Alive, Closer
    <2>6. CloserInv'
      BY Zenon, <1>1, <1>2, <2>1, <2>4 DEF CloserInv, Closer
    <2> QED
      BY Zenon, <2>5, <2>6, ClosePartsPrime
  <1>8. CASE CloseAllDone \/ CloseTimeout
    <2>1. /\ closePC = "wait" /\ closePC' \in {"closed", "closedEarly"} /\ rootDone' = TRUE
          /\ UNCHANGED <<closing, ranAtClose>>
          /\ closePC' = "closed" => \A d \in Deployments : closing[d] \in {"none", "answered", "timeout"}
      BY Zenon, <1>8 DEF CloseAllDone, CloseTimeout, CloseCancel
    <2>2. ASSUME NEW d \in ranAtClose, closing[d] = "answered" PROVE reply[Closer(d)] = "nil"
      <3>1. d \in Deployments /\ reply[Closer(d)] # "none" /\ reply[Closer(d)] # "err"
        BY Zenon, <1>1, <2>1, <2>2 DEF CloserInv, RefusedInv, OrderInv
      <3>2. reply[Closer(d)] \in Answers
        BY Zenon, <3>1, CallersDiffer DEF TypeOK
      <3> QED
        BY Zenon, <3>1, <3>2 DEF Answers
    <2>3. OrderInv'
      BY Zenon, <2>1 DEF OrderInv
    <2>4. CloserInv'
      BY Zenon, <1>1, <1>2, <2>1 DEF CloserInv, Closer
    <2>5. RanInv'
      BY Zenon, <1>1, <1>2, <2>1 DEF RanInv, Alive
    <2>6. RefusedInv'
      BY Zenon, <1>2, <2>1, <2>2 DEF RefusedInv, Closer
    <2> QED
      BY Zenon, <2>3, <2>4, <2>5, <2>6, ClosePartsPrime
  <1>9. ~ParentCancel
    BY Zenon DEF ParentCancel
  <1> QED
    BY Zenon, <1>4, <1>5, <1>6, <1>7, <1>8, <1>9 DEF CallerMoves

LEMMA CloseStep == ~ParentMayCancel /\ PlatformInv /\ AnswerInv /\ CloseInv /\ [Next]_vars => CloseInv'
  <1> SUFFICES ASSUME ~ParentMayCancel, PlatformInv, AnswerInv, CloseInv, [Next]_vars PROVE CloseInv'
    BY Zenon
  <1>1. TypeOK /\ OrderInv
    BY Zenon, CloseParts DEF PlatformInv
  <1>2. CASE UNCHANGED vars
    BY Zenon, <1>2 DEF CloseInv, Holds, InFlight, vars, deploymentVars, platformVars
  <1>3. CASE CallerMoves
    BY Zenon, <1>1, <1>3, CallersClose
  <1>4. ASSUME NEW d \in Deployments, Loop(d) PROVE CloseInv'
    <2>1. LoopStep(d) /\ UNCHANGED <<rootDone, closePC, closing, ranAtClose>>
      BY Zenon, <1>4 DEF Loop, platformVars
    <2> QED
      BY Zenon, <2>1, LoopClose
  <1>5. ASSUME NEW d \in Deployments, DeploySend(d) PROVE CloseInv'
    <2>1. PICK c \in Commands : Sends(d, c) /\ c.from = Deployer(d)
      BY Zenon, <1>5, DeploySendMoves
    <2>2. UNCHANGED <<rootDone, closePC, closing, ranAtClose>>
      BY Zenon, <1>5, DeploySendMoves
    <2> QED
      BY Zenon, <1>1, <2>1, <2>2, CallersDiffer, SendClose
  <1>6. ASSUME NEW d \in Deployments, CloseSend(d) PROVE CloseInv'
    <2>1. PICK c \in Commands : Sends(d, c) /\ c.from = Closer(d)
      BY Zenon, <1>6, CloseSendMoves
    <2>2. closing[d] = "send" /\ closing' = [closing EXCEPT ![d] = "wait"] /\ UNCHANGED <<rootDone, closePC, ranAtClose>>
      BY Zenon, <1>6, CloseSendMoves
    <2>3. closePC \notin {"idle", "closed"}
      BY Zenon, <1>1, <2>2 DEF OrderInv
    <2>4. \A e \in Deployments : closing'[e] = IF e = d THEN "wait" ELSE closing[e]
      BY Zenon, <1>1, <2>2 DEF TypeOK
    <2>5. \A e \in Deployments : Closer(d) = Closer(e) => d = e
      BY Zenon DEF Closer
    <2> QED
      BY Zenon, <1>1, <2>1, <2>2, <2>3, <2>4, <2>5, SendClose
  <1>7. ASSUME NEW u \in Undeployers, UndeploySend(u) PROVE CloseInv'
    <2>1. PICK d \in Deployments : d = target[u]
      BY Zenon, <1>1, <1>7, UndeploySendMoves
    <2>2. PICK c \in Commands : Sends(d, c) /\ c.from = Undeployer(u)
      BY Zenon, <1>1, <1>7, <2>1, UndeploySendMoves
    <2>3. UNCHANGED <<rootDone, closePC, closing, ranAtClose>>
      BY Zenon, <1>1, <1>7, UndeploySendMoves
    <2>4. \A e \in Deployments : Undeployer(u) # Closer(e)
      BY Zenon DEF Undeployer, Closer
    <2> QED
      BY Zenon, <1>1, <2>2, <2>3, <2>4, SendClose
  <1> QED
    BY Zenon, <1>2, <1>3, <1>4, <1>5, <1>6, <1>7, NextCases

(* When Close has returned within its timeout and nobody cancelled the      *)
(* parent context, every verticle that ran in its snapshot and whose        *)
(* undeploy was answered has been stopped and undeployed: Close cancels the *)
(* root context only after the answers.                                     *)
THEOREM CloseStopsRunning == ASSUME ~ParentMayCancel PROVE Spec => []CloseStopsWhatRan
  <1>1. Init => CloseInv
    <2> SUFFICES ASSUME Init PROVE CloseInv
      BY Zenon
    <2>1. /\ \A c \in Callers : reply[c] = "none"
          /\ \A d \in Deployments : cmdChan[d] = <<>> /\ cmd[d] = NoCmd /\ closing[d] = "none"
          /\ closePC = "idle" /\ rootDone = FALSE /\ ranAtClose = {}
      BY Zenon DEF Init, NewDeployment
    <2>2. \A d \in Deployments, c \in Callers : ~InFlight(d, c)
      BY <2>1 DEF InFlight
    <2>3. \A d \in Deployments : ~Holds(d, Closer(d))
      BY Zenon, <2>1, <2>2, CallersDiffer DEF Holds
    <2> QED
      BY Zenon, <2>1, <2>3 DEF CloseInv
  <1>2. AnswerInv /\ CloseInv /\ PlatformInv => CloseStopsWhatRan
    <2> SUFFICES ASSUME AnswerInv, CloseInv, PlatformInv, closePC = "closed", NEW d \in ranAtClose, closing[d] = "answered"
                 PROVE  stops[d] = 1 /\ state[d] = "UNDEPLOYED"
      BY Zenon DEF CloseStopsWhatRan
    <2>1. NilInv /\ RanInv /\ RefusedInv /\ d \in Deployments
      BY Zenon, AnswerParts, CloseParts DEF PlatformInv, TypeOK
    <2>2. reply[Closer(d)] = "nil"
      BY Zenon, <2>1 DEF RefusedInv
    <2>3. state[d] = "UNDEPLOYED"
      BY Zenon, <2>1, <2>2, CallersDiffer DEF NilInv, Serves
    <2> QED
      BY Zenon, <2>1, <2>3 DEF RanInv
  <1>3. PlatformInv /\ AnswerInv /\ CloseInv /\ [Next]_vars => CloseInv'
    BY Zenon, CloseStep
  <1> QED
    BY <1>1, <1>2, <1>3, PlatformInvariant, AnswerInvariant, PTL DEF Spec
=============================================================================
