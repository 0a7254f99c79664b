------------------------------- MODULE Links -------------------------------
(***************************************************************************)
(* pkg/core/link.go: links and monitors between deployments.  NotifyExit   *)
(* copies the peers and the monitorers under the lock and publishes the    *)
(* exit signal to each of them outside it, while Link, Unlink, Monitor and *)
(* Demonitor go on.  The model has one monitor reference per number and    *)
(* exits each deployment at most once, as the platform does.               *)
(***************************************************************************)
EXTENDS Naturals

CONSTANTS Deployments,
          MaxRefs,          \* bound on the monitors ever made
          Exiting           \* the deployments that exit

ASSUME LinksAssumption == MaxRefs \in Nat

VARIABLES links,            \* [Deployments -> SUBSET Deployments]
          monitorsByTarget, \* [Deployments -> SUBSET MonitorRef]
          monitorRefs,      \* the references Demonitor knows
          nextRef,
          notifyPC,         \* of the NotifyExit of each deployment
          toLinked,         \* linked peers still to be told
          toMonitors,       \* references whose monitorer is still to be told
          told              \* [Deployments -> the signals published to it, as <<from, ref>>]

linkVars == <<links, monitorsByTarget, monitorRefs, nextRef, notifyPC, toLinked, toMonitors, told>>
tables == <<links, monitorsByTarget, monitorRefs, nextRef>>
notifying == <<notifyPC, toLinked, toMonitors, told>>

MonitorRef == [monitorer : Deployments, target : Deployments, ref : 1 .. MaxRefs]

NewLinkManager ==
  /\ links = [d \in Deployments |-> {}] /\ monitorsByTarget = [d \in Deployments |-> {}]
  /\ monitorRefs = {} /\ nextRef = 1
  /\ notifyPC = [d \in Deployments |-> "running"]
  /\ toLinked = [d \in Deployments |-> {}] /\ toMonitors = [d \in Deployments |-> {}]
  /\ told = [d \in Deployments |-> {}]

Link(a, b) ==
  /\ a # b
  /\ links' = [links EXCEPT ![a] = @ \cup {b}, ![b] = @ \cup {a}]
  /\ UNCHANGED <<monitorsByTarget, monitorRefs, nextRef, notifying>>

\* Mutant: only the caller's side of the link goes.
UnlinkOneSide(a, b) ==
  /\ links' = [links EXCEPT ![a] = @ \ {b}]
  /\ UNCHANGED <<monitorsByTarget, monitorRefs, nextRef, notifying>>

Unlink(a, b) ==
  /\ links' = [d \in Deployments |-> IF d = a THEN links[a] \ {b}
                                     ELSE IF d = b THEN links[b] \ {a} ELSE links[d]]
  /\ UNCHANGED <<monitorsByTarget, monitorRefs, nextRef, notifying>>

Monitor(a, b) ==
  /\ nextRef <= MaxRefs
  /\ LET m == [monitorer |-> a, target |-> b, ref |-> nextRef] IN
       /\ monitorsByTarget' = [monitorsByTarget EXCEPT ![b] = @ \cup {m}]
       /\ monitorRefs' = monitorRefs \cup {m}
  /\ nextRef' = nextRef + 1
  /\ UNCHANGED <<links, notifying>>

Demonitor(m) ==
  /\ m \in monitorRefs /\ monitorRefs' = monitorRefs \ {m}
  /\ monitorsByTarget' = [monitorsByTarget EXCEPT ![m.target] = @ \ {m}]
  /\ UNCHANGED <<links, nextRef, notifying>>

\* The copy NotifyExit takes under the lock.
NotifyExit(d) ==
  /\ d \in Exiting /\ notifyPC[d] = "running"
  /\ notifyPC' = [notifyPC EXCEPT ![d] = "notifying"]
  /\ toLinked' = [toLinked EXCEPT ![d] = links[d]]
  /\ toMonitors' = [toMonitors EXCEPT ![d] = monitorsByTarget[d]]
  /\ UNCHANGED <<tables, told>>

\* The two loops of publications: the peers first, in the order of a map, then the monitorers.
TellLinked(d, p) ==
  /\ p \in toLinked[d] /\ toLinked' = [toLinked EXCEPT ![d] = @ \ {p}]
  /\ told' = [told EXCEPT ![p] = @ \cup {<<d, 0>>}]
  /\ UNCHANGED <<tables, notifyPC, toMonitors>>

TellMonitor(d, m) ==
  /\ toLinked[d] = {} /\ m \in toMonitors[d] /\ toMonitors' = [toMonitors EXCEPT ![d] = @ \ {m}]
  /\ told' = [told EXCEPT ![m.monitorer] = @ \cup {<<d, m.ref>>}]
  /\ UNCHANGED <<tables, notifyPC, toLinked>>

NotifyReturns(d) ==
  /\ notifyPC[d] = "notifying" /\ toLinked[d] = {} /\ toMonitors[d] = {}
  /\ notifyPC' = [notifyPC EXCEPT ![d] = "notified"]
  /\ UNCHANGED <<tables, toLinked, toMonitors, told>>

NotifyStep(d) ==
  \/ NotifyReturns(d) \/ \E p \in toLinked[d] : TellLinked(d, p)
  \/ \E m \in toMonitors[d] : TellMonitor(d, m)

LinksNext ==
  \/ \E a, b \in Deployments : Link(a, b) \/ Unlink(a, b) \/ Monitor(a, b)
  \/ \E m \in monitorRefs : Demonitor(m)
  \/ \E d \in Deployments : NotifyExit(d) \/ NotifyStep(d)

LinksSpec == NewLinkManager /\ [][LinksNext]_linkVars
-----------------------------------------------------------------------------
(***************************************************************************)
(* Links are mutual, the two tables of monitors agree and references are   *)
(* unique, so that an exit of either side reaches the other and Demonitor  *)
(* removes what Monitor made.  A signal comes only from an exit, and never *)
(* twice for one link or one reference: what is still to be told has not   *)
(* been told, whatever the tables became since NotifyExit copied them.     *)
(***************************************************************************)
LinksMutual ==
  /\ \A a \in Deployments : \A b \in links[a] : a \in links[b]
  /\ \A m \in monitorRefs : m \in monitorsByTarget[m.target]
  /\ \A d \in Deployments : \A m \in monitorsByTarget[d] :
       m \in monitorRefs /\ m.target = d /\ m.ref < nextRef
  /\ \A m, n \in monitorRefs : m.ref = n.ref => m = n
  /\ \A d \in Deployments : /\ \A p \in toLinked[d] : <<d, 0>> \notin told[p]
                            /\ \A m \in toMonitors[d] : <<d, m.ref>> \notin told[m.monitorer]
  /\ \A p \in Deployments : \A s \in told[p] : notifyPC[s[1]] # "running"

(* What makes LinksMutual inductive. *)
LinksTypeOK ==
  /\ links \in [Deployments -> SUBSET Deployments]
  /\ monitorsByTarget \in [Deployments -> SUBSET MonitorRef]
  /\ monitorRefs \in SUBSET MonitorRef /\ nextRef \in Nat \ {0}
  /\ notifyPC \in [Deployments -> {"running", "notifying", "notified"}]
  /\ toLinked \in [Deployments -> SUBSET Deployments]
  /\ toMonitors \in [Deployments -> SUBSET MonitorRef]
  /\ told \in [Deployments -> SUBSET (Deployments \X (0 .. MaxRefs))]

(* The copies NotifyExit works on exist only while it runs, and the        *)
(* references in one of them are as unique as those of the table.          *)
CopiesInv ==
  \A d \in Deployments :
    /\ notifyPC[d] = "running" => toLinked[d] = {} /\ toMonitors[d] = {}
    /\ \A m, n \in toMonitors[d] : m.ref = n.ref => m = n

(* LinksMutual, stated for every pair and every reference there can be. *)
TablesAgree ==
  /\ \A a, b \in Deployments : b \in links[a] <=> a \in links[b]
  /\ \A m \in MonitorRef : m \in monitorRefs <=> m \in monitorsByTarget[m.target]
  /\ \A d \in Deployments : \A m \in monitorsByTarget[d] : m.target = d /\ m.ref < nextRef
  /\ \A m, n \in monitorRefs : m.ref = n.ref => m = n
  /\ \A d \in Deployments : /\ \A p \in toLinked[d] : <<d, 0>> \notin told[p]
                            /\ \A m \in toMonitors[d] : <<d, m.ref>> \notin told[m.monitorer]
  /\ \A p \in Deployments : \A s \in told[p] : notifyPC[s[1]] # "running"

LinksInv == LinksTypeOK /\ CopiesInv /\ TablesAgree
=============================================================================
