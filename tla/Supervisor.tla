----------------------------- MODULE Supervisor -----------------------------
(***************************************************************************)
(* The supervisor verticle of pkg/core/supervisor.go: it deploys its       *)
(* children, polls their deployments every 500 ms and restarts those that  *)
(* are gone.  Deploying and undeploying are those of module Platform,      *)
(* reduced to their effect; a child's deployment may end at any time.      *)
(***************************************************************************)
EXTENDS Integers, Sequences

CONSTANTS
  Children,      \* sv.spec.Children, a sequence of distinct IDs
  RestartLimit,  \* Config.MaxRestarts, 0 for no limit
  Within,        \* Config.Within, in ticks
  MaxEnds,       \* bound: how many deployments end of themselves
  MaxFailures,   \* bound: how many calls of DeployVerticle fail
  MaxTime        \* bound: the clock

ChildIDs == {Children[i] : i \in DOMAIN Children}

ASSUME ChildrenAssumption ==
  /\ Children # <<>> /\ Children \in Seq({Children[i] : i \in DOMAIN Children})
  /\ \A i, j \in DOMAIN Children : Children[i] = Children[j] => i = j

StartIndex(c) == CHOOSE i \in DOMAIN Children : Children[i] = c

VARIABLES
  strategy,     \* sv.spec.Strategy
  restartType,  \* each child's Spec.Restart
  svPC,         \* "new", "starting", "failing", "running", "stopping", "undeploying", "stopped"
  monPC,        \* checkChildren: "idle", "check", "redeploy"
  monitoring,   \* sv.monitoring
  monitorOn,    \* the goroutine of monitorChildren runs
  started,      \* how many children Start has deployed
  children,     \* keys of sv.children
  live,         \* how many deployments of each child are deployed
  ref,          \* whether child.DeploymentID is deployed
  late,         \* how many deployments were given up at the start timeout
  failedIDs,    \* failedChildren still to be handled
  toRestart,    \* childrenToRestart still to be restarted
  restarting,   \* the child restartChild redeploys
  toStop,       \* children undeployChildren has still to undeploy
  restartCount, \* sv.restartCount
  time,
  caused,       \* history: the times of the restarts each child's failures caused
  ends, failures

fixedVars == <<strategy, restartType>>

checkVars == <<failedIDs, toRestart, restarting>>

restartVars == <<restartCount, caused>>

supervisorVars == <<fixedVars, svPC, monPC, monitoring, monitorOn, started, children, live, ref, late,
                    checkVars, toStop, restartVars, time, ends, failures>>

NewSupervisor ==
  /\ strategy \in {"one-for-one", "one-for-all", "rest-for-one"}
  /\ restartType \in [ChildIDs -> {"permanent", "transient", "temporary"}]
  /\ svPC = "new" /\ monPC = "idle" /\ monitoring = FALSE /\ monitorOn = FALSE
  /\ started = 0 /\ children = {}
  /\ live = [c \in ChildIDs |-> 0] /\ ref = [c \in ChildIDs |-> FALSE]
  /\ late = [c \in ChildIDs |-> 0]
  /\ failedIDs = {} /\ toRestart = {} /\ restarting = Children[1] /\ toStop = {}
  /\ restartCount = [c \in ChildIDs |-> <<>>] /\ caused = [c \in ChildIDs |-> <<>>]
  /\ time = 0 /\ ends = 0 /\ failures = 0

-----------------------------------------------------------------------------
(* What module Platform does for the supervisor.                           *)

Deployed(c) ==
  /\ live' = [live EXCEPT ![c] = @ + 1]
  /\ ref' = [ref EXCEPT ![c] = TRUE]

(* The factory returns nil or Start fails; or Start outlives startTimeout:   *)
(* then the deployment is forgotten, but its Start goes on.                  *)
DeployFails(c) ==
  /\ failures < MaxFailures /\ failures' = failures + 1
  /\ \/ UNCHANGED <<live, late>>
     \/ /\ live' = [live EXCEPT ![c] = @ + 1]
        /\ late' = [late EXCEPT ![c] = @ + 1]
  /\ UNCHANGED ref

(* UndeployVerticle: an error when the deployment is gone already. *)
Undeploy(c) ==
  /\ live' = [live EXCEPT ![c] = IF ref[c] THEN @ - 1 ELSE @]
  /\ ref' = [ref EXCEPT ![c] = FALSE]

(* Somebody else undeploys the child. *)
ChildEnds(c) ==
  /\ ref[c] /\ ends < MaxEnds
  /\ Undeploy(c)
  /\ ends' = ends + 1
  /\ UNCHANGED <<fixedVars, started, late, svPC, monPC, monitoring, monitorOn, children, checkVars,
                 toStop, restartVars, time, failures>>

TimePasses ==
  /\ time < MaxTime
  /\ time' = time + 1
  /\ UNCHANGED <<fixedVars, started, late, svPC, monPC, monitoring, monitorOn, children, live, ref,
                 checkVars, toStop, restartVars, ends, failures>>

-----------------------------------------------------------------------------
(* Start, which holds sv.mu.                                               *)

SupervisorStart ==
  /\ svPC = "new"
  /\ svPC' = "starting"
  /\ UNCHANGED <<fixedVars, started, late, monPC, monitoring, monitorOn, children, live, ref, checkVars,
                 toStop, restartVars, time, ends, failures>>

AllDeployed == started = Len(Children)

DeployNext ==
  /\ svPC = "starting" /\ ~AllDeployed
  /\ Deployed(Children[started + 1])
  /\ started' = started + 1 /\ children' = children \cup {Children[started + 1]}
  /\ UNCHANGED <<fixedVars, late, svPC, monPC, monitoring, monitorOn, checkVars, toStop, restartVars, time, ends,
                 failures>>

(* The children deployed so far are undeployed again. *)
DeployNextFails ==
  /\ svPC = "starting" /\ ~AllDeployed
  /\ DeployFails(Children[started + 1])
  /\ toStop' = children
  /\ svPC' = "failing"
  /\ UNCHANGED <<fixedVars, started, monPC, monitoring, monitorOn, children, checkVars, restartVars,
                 time, ends>>

StartMonitor ==
  /\ svPC = "starting" /\ AllDeployed
  /\ monitoring' = TRUE /\ monitorOn' = TRUE
  /\ svPC' = "running"
  /\ UNCHANGED <<fixedVars, started, late, monPC, children, live, ref, checkVars, toStop, restartVars,
                 time, ends, failures>>

-----------------------------------------------------------------------------
(* monitorChildren and checkChildren, which holds sv.mu throughout.        *)

(* sv.mu is not held by Start, Stop or checkChildren. *)
Unlocked == svPC \in {"running", "stopping", "stopped"} /\ monPC = "idle"

(* Mutant: a deployment that is not found is not taken for a failure. *)
ChildFailedNever(c) == FALSE

(* getChildState: a deployment that is not found counts as failed. *)
ChildFailed(c) == ~ref[c]

(* A tick at which nothing has failed changes nothing. *)
CheckChildren ==
  /\ Unlocked /\ monitorOn /\ monitoring
  /\ failedIDs' = {c \in children : ChildFailed(c) /\ restartType[c] # "temporary"}
  /\ failedIDs' # {}
  /\ monPC' = "check"
  /\ UNCHANGED <<fixedVars, started, late, svPC, monitoring, monitorOn, children, live, ref, toRestart,
                 restarting, toStop, restartVars, time, ends, failures>>

InWindow(ts) == SelectSeq(ts, LAMBDA t : t > time - Within)

(* Mutant: one restart more than the limit. *)
CanRestartOneMore(c) == RestartLimit = 0 \/ Len(InWindow(restartCount[c])) <= RestartLimit

CanRestart(c) == RestartLimit = 0 \/ Len(InWindow(restartCount[c])) < RestartLimit

RestartSet(c) ==
  CASE strategy = "one-for-one" -> {c}
    [] strategy = "one-for-all" -> children
    [] strategy = "rest-for-one" -> {d \in children : StartIndex(d) >= StartIndex(c)}

(* The children are handled in the order of a map's iteration; the limit of  *)
(* one ends the monitoring, but not this round.                              *)
HandleChildFailure(c) ==
  /\ monPC = "check" /\ toRestart = {} /\ c \in failedIDs
  /\ failedIDs' = failedIDs \ {c}
  /\ IF CanRestart(c)
       THEN /\ restartCount' = [restartCount EXCEPT ![c] = InWindow(Append(@, time))]
            /\ caused' = [caused EXCEPT ![c] = Append(@, time)]
            /\ toRestart' = RestartSet(c)
            /\ UNCHANGED monitoring
       ELSE monitoring' = FALSE /\ UNCHANGED <<restartVars, toRestart>>
  /\ UNCHANGED <<fixedVars, started, late, svPC, monPC, monitorOn, children, live, ref, restarting,
                 toStop, time, ends, failures>>

(* restartChild: UndeployVerticle of the old deployment ... *)
RestartUndeploy(c) ==
  /\ monPC = "check" /\ c \in toRestart
  /\ Undeploy(c)
  /\ toRestart' = toRestart \ {c} /\ restarting' = c
  /\ monPC' = "redeploy"
  /\ UNCHANGED <<fixedVars, started, late, svPC, monitoring, monitorOn, children, failedIDs, toStop,
                 restartVars, time, ends, failures>>

(* ... and DeployVerticle; when it fails child.DeploymentID stays the old one. *)
RestartDeploy ==
  /\ monPC = "redeploy"
  /\ \/ Deployed(restarting) /\ UNCHANGED <<late, failures>>
     \/ DeployFails(restarting)
  /\ monPC' = "check"
  /\ UNCHANGED <<fixedVars, started, svPC, monitoring, monitorOn, children, checkVars, toStop,
                 restartVars, time, ends>>

CheckDone ==
  /\ monPC = "check" /\ toRestart = {} /\ failedIDs = {}
  /\ monPC' = "idle"
  /\ UNCHANGED <<fixedVars, started, late, svPC, monitoring, monitorOn, children, live, ref, checkVars,
                 toStop, restartVars, time, ends, failures>>

(* The goroutine finds monitorStop closed. *)
MonitorExits ==
  /\ monitorOn /\ monPC = "idle" /\ svPC \in {"stopping", "undeploying", "stopped"}
  /\ monitorOn' = FALSE
  /\ UNCHANGED <<fixedVars, started, late, svPC, monPC, monitoring, children, live, ref, checkVars,
                 toStop, restartVars, time, ends, failures>>

-----------------------------------------------------------------------------
(* Stop.                                                                   *)

(* Mutant: Stop leaves sv.monitoring set. *)
SupervisorStopKeepsMonitoring ==
  /\ svPC = "running" /\ Unlocked
  /\ svPC' = "stopping"
  /\ UNCHANGED <<fixedVars, started, late, monPC, monitoring, monitorOn, children, live, ref, checkVars,
                 toStop, restartVars, time, ends, failures>>

(* The flag is cleared under sv.mu, which is then released: the monitor's    *)
(* goroutine may still run.                                                  *)
SupervisorStop ==
  /\ svPC = "running" /\ Unlocked
  /\ monitoring' = FALSE
  /\ svPC' = "stopping"
  /\ UNCHANGED <<fixedVars, started, late, monPC, monitorOn, children, live, ref, checkVars, toStop,
                 restartVars, time, ends, failures>>

UndeployChildren ==
  /\ svPC = "stopping" /\ Unlocked
  /\ toStop' = children
  /\ svPC' = "undeploying"
  /\ UNCHANGED <<fixedVars, started, late, monPC, monitoring, monitorOn, children, live, ref, checkVars,
                 restartVars, time, ends, failures>>

UndeployChild(c) ==
  /\ svPC \in {"undeploying", "failing"} /\ c \in toStop
  /\ Undeploy(c)
  /\ toStop' = toStop \ {c}
  /\ UNCHANGED <<fixedVars, started, late, svPC, monPC, monitoring, monitorOn, children, checkVars,
                 restartVars, time, ends, failures>>

SupervisorStopped ==
  /\ svPC \in {"undeploying", "failing"} /\ toStop = {}
  /\ svPC' = "stopped"
  /\ UNCHANGED <<fixedVars, started, late, monPC, monitoring, monitorOn, children, live, ref, checkVars,
                 toStop, restartVars, time, ends, failures>>

SupervisorStep ==
  \/ DeployNext \/ DeployNextFails \/ StartMonitor
  \/ CheckChildren \/ RestartDeploy \/ CheckDone
  \/ UndeployChildren \/ SupervisorStopped
  \/ \E c \in ChildIDs : HandleChildFailure(c) \/ RestartUndeploy(c) \/ UndeployChild(c)

SupervisorNext ==
  \/ SupervisorStart \/ SupervisorStop \/ MonitorExits \/ SupervisorStep \/ TimePasses
  \/ \E c \in ChildIDs : ChildEnds(c)

SupervisorSpec == NewSupervisor /\ [][SupervisorNext]_supervisorVars

-----------------------------------------------------------------------------
SupervisorTypeOK ==
  /\ strategy \in {"one-for-one", "one-for-all", "rest-for-one"}
  /\ svPC \in {"new", "starting", "failing", "running", "stopping", "undeploying", "stopped"}
  /\ monPC \in {"idle", "check", "redeploy"}
  /\ {monitoring, monitorOn} \subseteq BOOLEAN
  /\ children \subseteq ChildIDs /\ toStop \subseteq children
  /\ failedIDs \subseteq children /\ toRestart \subseteq children /\ restarting \in ChildIDs
  /\ {live, late} \subseteq [ChildIDs -> Nat] /\ ref \in [ChildIDs -> BOOLEAN]

(* Through restarts of every strategy, failing deployments, children that    *)
(* end in the middle of a restart and a Stop that meets a restart, a child   *)
(* has at most one deployment, which the supervisor knows, and when Start    *)
(* has failed or Stop has returned it has none. The one exception is a       *)
(* deployment whose Start outlived the start timeout.                        *)
NoOrphans ==
  \A c \in ChildIDs :
    /\ live[c] = (IF ref[c] THEN 1 ELSE 0) + late[c]
    /\ svPC = "stopped" => ~ref[c]

(* A child's failures cause at most MaxRestarts restarts in any window of    *)
(* length Within: restarts that many apart are at least a window apart.      *)
RestartIntensity ==
  \A c \in ChildIDs : \A i \in DOMAIN caused[c] :
    RestartLimit > 0 /\ i + RestartLimit \in DOMAIN caused[c]
      => caused[c][i + RestartLimit] - caused[c][i] >= Within

(* A child that ended is deployed again unless it is temporary, or the       *)
(* monitoring has ended by a limit or by Stop.                               *)
EndedIsRestarted ==
  \A c \in ChildIDs :
    []<>(c \in children /\ monitoring /\ restartType[c] # "temporary" => ref[c])
=============================================================================
