----------------------------- MODULE Discovery ------------------------------
(***************************************************************************)
(* The service registry of pkg/eureka (registry.go, types.go), the         *)
(* eviction task of its verticle (verticle.go) and its clients (client.go),*)
(* which talk to it over HTTP.  A client owns one instance.  Its Register  *)
(* may give up on a request that the server still handles later; its       *)
(* heartbeat goroutines are numbered, and each waits on the stop channel   *)
(* that the client had when the goroutine entered its select.  Register    *)
(* of an instance that is in the registry locks the instance and calls     *)
(* Renew, which locks it again, while it holds the lock of the registry:   *)
(* from then on no operation of the registry returns (registryHangs).      *)
(***************************************************************************)
EXTENDS Naturals, FiniteSets

CONSTANTS
  Apps,               \* the clients, each with its instance
  AppService,         \* [Apps -> the service]
  MaxPosts,           \* bound: [Apps -> the registration requests of the client]
  MaxBeats            \* bound: the heartbeat goroutines of a client

VARIABLES
  directory,          \* registry.instances: [Apps -> number of the listed object, or 0]
  catalog,            \* registry.services: [services -> its instances]
  leaseFresh,         \* the objects, [client, number], whose lease has not expired
  objectsMade,        \* [Apps -> the objects made for its instance]
  registryHangs,
  evictionOn,         \* the eviction task runs
  postsInFlight,      \* [Apps -> registration requests the server has still to handle]
  postsMade,
  enlisted,           \* [Apps -> registered]
  posting,            \* the clients inside Register
  stopChannel,        \* [Apps -> which renewalStop channel is current]
  beatStarted,        \* [Apps -> renewalStarted]
  beats               \* [Apps -> a sequence of heartbeat goroutines, as a function]

discoveryVars == <<directory, catalog, leaseFresh, objectsMade, registryHangs, evictionOn, postsInFlight,
                   postsMade, enlisted, posting, stopChannel, beatStarted, beats>>
registryVars == <<directory, catalog, leaseFresh, objectsMade, registryHangs>>
clientVars == <<postsInFlight, postsMade, enlisted, posting, stopChannel, beatStarted>>

Catalogued == {AppService[a] : a \in Apps}
BeatIDs == 1 .. MaxBeats

NewDiscovery ==
  /\ directory = [a \in Apps |-> 0] /\ catalog = [s \in Catalogued |-> {}] /\ leaseFresh = {}
  /\ objectsMade = [a \in Apps |-> 0]
  /\ registryHangs = FALSE /\ evictionOn = TRUE
  /\ postsInFlight = [a \in Apps |-> 0] /\ postsMade = [a \in Apps |-> 0]
  /\ enlisted = [a \in Apps |-> FALSE] /\ posting = {}
  /\ stopChannel = [a \in Apps |-> 0] /\ beatStarted = [a \in Apps |-> FALSE]
  /\ beats = [a \in Apps |-> [b \in BeatIDs |-> [pc |-> "none", channel |-> 0, object |-> 0]]]

InstanceObjects(a) == {<<a, n>> : n \in 1 .. MaxPosts[a]}
ListedObject(a) == <<a, directory[a]>>

\* Client.Register, up to the request ...
PostInstance(a) ==
  /\ ~enlisted[a] /\ a \notin posting /\ postsMade[a] < MaxPosts[a]
  /\ posting' = posting \cup {a}
  /\ postsMade' = [postsMade EXCEPT ![a] = @ + 1]
  /\ postsInFlight' = [postsInFlight EXCEPT ![a] = @ + 1]
  /\ UNCHANGED <<registryVars, evictionOn, enlisted, stopChannel, beatStarted, beats>>

NewObject(a) ==
  /\ objectsMade' = [objectsMade EXCEPT ![a] = @ + 1]
  /\ directory' = [directory EXCEPT ![a] = objectsMade'[a]]
  /\ leaseFresh' = leaseFresh \cup {<<a, objectsMade'[a]>>}

\* Mutant: the service list is not updated.
ServeRegisterHalf(a) ==
  /\ postsInFlight[a] > 0 /\ ~registryHangs /\ postsInFlight' = [postsInFlight EXCEPT ![a] = @ - 1]
  /\ NewObject(a)
  /\ posting' = posting \ {a} /\ enlisted' = [enlisted EXCEPT ![a] = @ \/ a \in posting]
  /\ UNCHANGED <<catalog, registryHangs, evictionOn, postsMade, stopChannel, beatStarted, beats>>

\* ... which the server handles, whether the client still waits for the answer or not.
ServeRegister(a) ==
  /\ postsInFlight[a] > 0 /\ ~registryHangs
  /\ postsInFlight' = [postsInFlight EXCEPT ![a] = @ - 1]
  /\ IF directory[a] # 0
     THEN registryHangs' = TRUE /\ UNCHANGED <<directory, catalog, leaseFresh, objectsMade, posting, enlisted>>
     ELSE /\ NewObject(a)
          /\ catalog' = [catalog EXCEPT ![AppService[a]] = @ \cup {a}]
          /\ posting' = posting \ {a} /\ enlisted' = [enlisted EXCEPT ![a] = @ \/ a \in posting]
          /\ UNCHANGED registryHangs
  /\ UNCHANGED <<evictionOn, postsMade, stopChannel, beatStarted, beats>>

\* The request timeout: Register returns an error.
PostTimesOut(a) ==
  /\ a \in posting /\ posting' = posting \ {a}
  /\ UNCHANGED <<registryVars, evictionOn, postsInFlight, postsMade, enlisted, stopChannel, beatStarted, beats>>

\* What Unregister and EvictExpired do to the two maps.
RemoveInstances(apps) ==
  /\ directory' = [a \in Apps |-> IF a \in apps THEN 0 ELSE directory[a]]
  /\ catalog' = [s \in Catalogued |-> catalog[s] \ apps]

\* Client.Unregister and the server's: 200 or 404 clears registered, a lost answer does not.
UnregisterInstance(a) ==
  /\ enlisted[a] /\ a \notin posting /\ ~registryHangs
  /\ RemoveInstances({a}) /\ enlisted' \in {enlisted, [enlisted EXCEPT ![a] = FALSE]}
  /\ UNCHANGED <<leaseFresh, objectsMade, registryHangs, evictionOn, postsInFlight, postsMade, posting, stopChannel,
                 beatStarted, beats>>

LeaseEnds(o) ==
  /\ o \in leaseFresh /\ leaseFresh' = leaseFresh \ {o}
  /\ UNCHANGED <<directory, catalog, objectsMade, registryHangs, evictionOn, clientVars, beats>>

ExpiredApps == {a \in Apps : directory[a] # 0 /\ ListedObject(a) \notin leaseFresh}

\* Mutant: expired instances stay in the service list.
EvictHalf ==
  /\ evictionOn /\ ~registryHangs /\ ExpiredApps # {}
  /\ directory' = [a \in Apps |-> IF a \in ExpiredApps THEN 0 ELSE directory[a]]
  /\ UNCHANGED <<catalog, leaseFresh, objectsMade, registryHangs, evictionOn, clientVars, beats>>

\* Mutant: the eviction task ends at the first tick that finds nothing.
EvictsNever ==
  /\ evictionOn /\ ~registryHangs /\ ExpiredApps = {} /\ evictionOn' = FALSE
  /\ UNCHANGED <<registryVars, clientVars, beats>>

EvictExpired ==
  /\ evictionOn /\ ~registryHangs /\ ExpiredApps # {} /\ RemoveInstances(ExpiredApps)
  /\ UNCHANGED <<leaseFresh, objectsMade, registryHangs, evictionOn, clientVars, beats>>

\* EurekaVerticle.Stop.
StopEviction ==
  /\ evictionOn /\ evictionOn' = FALSE /\ UNCHANGED <<registryVars, clientVars, beats>>

StartBeat(a) ==
  /\ ~beatStarted[a] /\ a \notin posting
  /\ \E b \in BeatIDs :
        /\ beats[a][b].pc = "none" /\ \A c \in 1 .. b - 1 : beats[a][c].pc # "none"
        /\ beats' = [beats EXCEPT ![a][b] = [pc |-> "select", channel |-> stopChannel[a], object |-> 0]]
  /\ beatStarted' = [beatStarted EXCEPT ![a] = TRUE]
  /\ UNCHANGED <<registryVars, evictionOn, postsInFlight, postsMade, enlisted, posting, stopChannel>>

StopBeat(a) ==
  /\ beatStarted[a] /\ a \notin posting
  /\ stopChannel' = [stopChannel EXCEPT ![a] = @ + 1] /\ beatStarted' = [beatStarted EXCEPT ![a] = FALSE]
  /\ UNCHANGED <<registryVars, evictionOn, postsInFlight, postsMade, enlisted, posting, beats>>

SetBeat(a, b, beat) == beats' = [beats EXCEPT ![a][b] = beat]

\* The ticker: the goroutine sends a renewal ...
BeatTicks(a, b) ==
  /\ beats[a][b].pc = "select" /\ SetBeat(a, b, [beats[a][b] EXCEPT !.pc = "renew"])
  /\ UNCHANGED <<registryVars, evictionOn, clientVars>>

\* ... which finds the instance, or does not ...
RenewFinds(a, b) ==
  /\ beats[a][b].pc = "renew" /\ ~registryHangs /\ directory[a] # 0
  /\ SetBeat(a, b, [beats[a][b] EXCEPT !.pc = "extend", !.object = directory[a]])
  /\ UNCHANGED <<registryVars, evictionOn, clientVars>>

\* ... and, having let go of the registry's lock, extends the lease of the object found.
RenewExtends(a, b) ==
  /\ beats[a][b].pc = "extend"
  /\ leaseFresh' = leaseFresh \cup {<<a, beats[a][b].object>>}
  /\ SetBeat(a, b, [pc |-> "select", channel |-> stopChannel[a], object |-> 0])
  /\ UNCHANGED <<directory, catalog, objectsMade, registryHangs, evictionOn, clientVars>>

\* An error, a lost answer or the timeout of a renewal: the loop goes on.
RenewFails(a, b) ==
  /\ beats[a][b].pc = "renew"
  /\ SetBeat(a, b, [beats[a][b] EXCEPT !.pc = "select", !.channel = stopChannel[a]])
  /\ UNCHANGED <<registryVars, evictionOn, clientVars>>

\* The goroutine's select sees its channel closed.
BeatEnds(a, b) ==
  /\ beats[a][b].pc = "select" /\ beats[a][b].channel < stopChannel[a]
  /\ SetBeat(a, b, [beats[a][b] EXCEPT !.pc = "ended"])
  /\ UNCHANGED <<registryVars, evictionOn, clientVars>>

BeatStep(a, b) == RenewFinds(a, b) \/ RenewExtends(a, b) \/ RenewFails(a, b) \/ BeatEnds(a, b)

DiscoveryNext ==
  \/ EvictExpired \/ StopEviction
  \/ \E a \in Apps :
        \/ PostInstance(a) \/ ServeRegister(a) \/ PostTimesOut(a) \/ UnregisterInstance(a)
        \/ StartBeat(a) \/ StopBeat(a) \/ \E o \in InstanceObjects(a) : LeaseEnds(o)
        \/ \E b \in BeatIDs : BeatTicks(a, b) \/ BeatStep(a, b)

DiscoverySpec == NewDiscovery /\ [][DiscoveryNext]_discoveryVars
-----------------------------------------------------------------------------
DiscoveryTypeOK ==
  /\ \A a \in Apps : directory[a] \in 0 .. MaxPosts[a] /\ postsInFlight[a] \in 0 .. MaxPosts[a]
  /\ catalog \in [Catalogued -> SUBSET Apps]
  /\ leaseFresh \subseteq UNION {InstanceObjects(a) : a \in Apps} /\ posting \subseteq Apps
  /\ enlisted \in [Apps -> BOOLEAN]

(* Requests that time out, evictions, renewals of objects evicted in the   *)
(* meantime and Unregister leave the two maps of the registry in           *)
(* agreement (registry.go).                                                *)
DirectoryExact ==
  \A s \in Catalogued : catalog[s] = {a \in Apps : directory[a] # 0 /\ AppService[a] = s}

Beating(a) == \E b \in BeatIDs : beats[a][b].pc \in {"select", "renew", "extend"}

(* An instance that nobody renews any more is removed, while the eviction  *)
(* task runs and the registry answers.                                     *)
DeadIsEvicted == \A a \in Apps : []<>(registryHangs \/ ~evictionOn \/ Beating(a) \/ directory[a] = 0)
=============================================================================
