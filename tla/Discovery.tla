----------------------------- MODULE Discovery -----------------------------
(***************************************************************************)
(* How an agent follows the set of collectors: the Dispatcher of           *)
(* pkg/discovery, and its two observers, the PeerListManager of            *)
(* peerlistmgr (TChannel reporter) and the Resolver of grpcresolver (gRPC  *)
(* reporter).  The service discovery system is external: its set of        *)
(* instances changes, and it calls Notify with the whole new set, one call *)
(* at a time and in the order of the changes.                              *)
(*                                                                         *)
(* Notify sends to each observer's channel with the dispatcher's lock held *)
(* and blocks when a channel is full; Register and Unregister need the     *)
(* same lock.                                                              *)
(*                                                                         *)
(* DInit, DNext and DSpec bear a letter of their own so that AgentProofs   *)
(* can extend this module beside AgentServer.                              *)
(***************************************************************************)
EXTENDS Integers, Sequences, FiniteSets, SequencesExt

CONSTANTS
    Instance,   \* addresses of collectors
    Score,      \* Score[i]: salted hash of an address in the resolver
    Capacity,   \* capacity of a notification channel (100 in the code)
    MinPeers,   \* minPeers of the manager, discoveryMinPeers of the resolver
    MaxChanges, \* bound: changes of the set of instances
    MaxFaults   \* bound: connections that break or cannot be made

ASSUME InstanceAssumption == IsFiniteSet(Instance)
ASSUME ScoreAssumption == Score \in [Instance -> Nat]
ASSUME SizeAssumption == Capacity \in Nat \ {0} /\ MinPeers \in Nat \ {0}
ASSUME BoundAssumption == MaxChanges \in Nat /\ MaxFaults \in Nat

Observer == {"manager", "resolver"}

VARIABLES
    instances,  \* what Instances() answers
    changes,    \* changes made so far
    unsent,     \* the change has not been passed to Notify
    sending,    \* observers the running Notify has yet to send to
    notifying,  \* Notify holds the lock
    observers,  \* Dispatcher.observers, in the order of registration
    channel,    \* channel[o]: the notifications in o's discoCh
    closed,     \* closed[o]: discoCh is closed
    manager,    \* "new", "read", "running", "stopping", "closing", "stopped"
    peers,      \* TChannel's peer list
    listing,    \* the set updatePeers is applying, or {} when it is idle
    updating,   \* updatePeers has added and has yet to remove
    connected,  \* instances with an outgoing connection
    trying,     \* peers ensureConnections has yet to try
    missing,    \* connections ensureConnections still wants
    faults,     \* connections that broke or could not be made
    missed,     \* a change fell between New's reading and its registration
    resolver,   \* "none", "new", "built", "failed", "closing", "closed"
    addresses   \* the addresses given to gRPC

systemVars   == <<instances, changes, unsent>>
notifierVars == <<sending, notifying, observers, channel, closed>>
connectVars  == <<connected, trying, missing, faults>>
managerVars  == <<manager, peers, listing, updating, missed>>
resolverVars == <<resolver, addresses>>
dvars == <<systemVars, notifierVars, connectVars, managerVars, resolverVars>>

\* min in the resolver, getMinPeers in the manager.
Smaller(a, b) == IF a < b THEN a ELSE b

DTypeOK ==
    /\ instances \subseteq Instance
    /\ changes \in 0 .. MaxChanges
    /\ unsent \in BOOLEAN /\ notifying \in BOOLEAN
    /\ sending \in Seq(Observer) /\ observers \in Seq(Observer)
    /\ channel \in [Observer -> Seq(SUBSET Instance)]
    /\ \A o \in Observer : Len(channel[o]) <= Capacity
    /\ closed \in [Observer -> BOOLEAN]
    /\ manager \in {"new", "read", "running", "stopping", "closing", "stopped"}
    /\ peers \subseteq Instance /\ listing \subseteq Instance
    /\ updating \in BOOLEAN /\ missed \in BOOLEAN
    /\ connected \subseteq Instance /\ trying \subseteq Instance
    /\ missing \in 0 .. MinPeers
    /\ faults \in 0 .. MaxFaults
    /\ resolver \in {"none", "new", "built", "failed", "closing", "closed"}
    /\ addresses \subseteq Instance

DInit ==
    /\ instances \in SUBSET Instance
    /\ changes = 0 /\ unsent = FALSE
    /\ sending = <<>> /\ notifying = FALSE /\ observers = <<>>
    /\ channel = [o \in Observer |-> <<>>]
    /\ closed = [o \in Observer |-> FALSE]
    /\ manager = "new" /\ peers = {} /\ listing = {} /\ updating = FALSE /\ missed = FALSE
    /\ connected = {} /\ trying = {} /\ missing = 0 /\ faults = 0
    /\ resolver = "none" /\ addresses = {}

----------------------------------------------------------------------------
(* The discovery system and the dispatcher                                  *)

Change ==
    /\ changes < MaxChanges /\ ~unsent /\ ~notifying
    /\ instances' \in SUBSET Instance \ {instances}
    /\ changes' = changes + 1
    /\ unsent' = TRUE
    /\ UNCHANGED <<notifierVars, connectVars, managerVars, resolverVars>>

\* Notify takes the lock.  A manager that has read the instances before the
\* change and is not registered yet will not hear of it.
NotifyLocks ==
    /\ unsent /\ ~notifying
    /\ notifying' = TRUE /\ unsent' = FALSE
    /\ sending' = observers
    /\ missed' = (missed \/ manager = "read")
    /\ UNCHANGED <<instances, changes, observers, channel, closed, connectVars>>
    /\ UNCHANGED <<manager, peers, listing, updating, resolverVars>>

\* Mutant: what does not fit is dropped instead of waited for.
NotifySendsOrDrops ==
    /\ notifying /\ sending # <<>>
    /\ LET o == Head(sending) IN
        /\ channel' = [channel EXCEPT ![o] = IF Len(@) < Capacity THEN Append(@, instances) ELSE @]
        /\ missed' = (missed /\ o # "manager")
    /\ sending' = Tail(sending)
    /\ UNCHANGED <<systemVars, notifying, observers, closed, connectVars>>
    /\ UNCHANGED <<manager, peers, listing, updating, resolverVars>>

\* Notify sends to the next observer, once its channel has room.
NotifySends ==
    /\ notifying /\ sending # <<>>
    /\ LET o == Head(sending) IN
        /\ Len(channel[o]) < Capacity
        /\ channel' = [channel EXCEPT ![o] = Append(@, instances)]
        /\ missed' = (missed /\ o # "manager")
    /\ sending' = Tail(sending)
    /\ UNCHANGED <<systemVars, notifying, observers, closed, connectVars>>
    /\ UNCHANGED <<manager, peers, listing, updating, resolverVars>>

NotifyUnlocks ==
    /\ notifying /\ sending = <<>>
    /\ notifying' = FALSE
    /\ UNCHANGED <<systemVars, sending, observers, channel, closed>>
    /\ UNCHANGED <<connectVars, managerVars, resolverVars>>

\* Register: under the lock (Unregister, which it calls first, finds nothing).
Register(o) == ~notifying /\ observers' = Append(observers, o)

\* Mutant: Unregister does not take the lock.
UnregisterUnlocked(o) == observers' = RemoveFirst(observers, o)

\* Unregister: under the lock, the observer is cut out of the list.
Unregister(o) == ~notifying /\ observers' = RemoveFirst(observers, o)

----------------------------------------------------------------------------
(* PeerListManager                                                          *)

\* New: the instances are read and become the peers, and the goroutines start
\* (an error of Instances leaves no manager behind).
NewReads ==
    /\ manager = "new"
    /\ manager' = "read"
    /\ peers' = instances
    /\ UNCHANGED <<systemVars, notifierVars, connectVars, listing, updating, missed, resolverVars>>

\* New ends by registering the channel.
NewRegisters ==
    /\ manager = "read"
    /\ Register("manager")
    /\ manager' = "running"
    /\ UNCHANGED <<systemVars, sending, notifying, channel, closed, connectVars>>
    /\ UNCHANGED <<peers, listing, updating, missed, resolverVars>>

\* Mutant: the goroutine leaves its loop when Stop begins.
UpdatePeersAddsUntilStop ==
    /\ manager \in {"read", "running"} /\ ~updating /\ channel["manager"] # <<>>
    /\ listing' = Head(channel["manager"])
    /\ channel' = [channel EXCEPT !["manager"] = Tail(@)]
    /\ peers' = peers \cup Head(channel["manager"])
    /\ updating' = TRUE
    /\ UNCHANGED <<systemVars, sending, notifying, observers, closed, connectVars>>
    /\ UNCHANGED <<manager, missed, resolverVars>>

\* processDiscoveryNotifications: the next set, while the channel has one, even
\* after it is closed; updatePeers first adds every address of the set ...
UpdatePeersAdds ==
    /\ manager \notin {"new", "stopped"} /\ ~updating /\ channel["manager"] # <<>>
    /\ listing' = Head(channel["manager"])
    /\ channel' = [channel EXCEPT !["manager"] = Tail(@)]
    /\ peers' = peers \cup Head(channel["manager"])
    /\ updating' = TRUE
    /\ UNCHANGED <<systemVars, sending, notifying, observers, closed, connectVars>>
    /\ UNCHANGED <<manager, missed, resolverVars>>

\* Mutant: peers that are gone are kept.
UpdatePeersKeeps ==
    /\ updating
    /\ listing' = {} /\ updating' = FALSE
    /\ UNCHANGED <<systemVars, notifierVars, connectVars, manager, peers, missed, resolverVars>>

\* ... and then removes the peers that are not in it.
UpdatePeersRemoves ==
    /\ updating
    /\ peers' = peers \cap listing
    /\ listing' = {} /\ updating' = FALSE
    /\ UNCHANGED <<systemVars, notifierVars, connectVars, manager, missed, resolverVars>>

Processing == channel["manager"] # <<>> \/ updating
Maintaining == manager \in {"read", "running", "stopping", "closing"}

\* Mutant: connections to peers that were removed count.
NumConnectedEver == Cardinality(connected)

\* findConnected: peers in the list with an outgoing connection.
NumConnected == Cardinality(peers \cap connected)

\* ensureConnections, on a copy of the peer list: how many are missing of the
\* smaller of minPeers and the number of peers.
EnsureConnections ==
    /\ Maintaining /\ trying = {}
    /\ LET wanted == Smaller(MinPeers, Cardinality(peers))
       IN  /\ NumConnected < wanted
           /\ missing' = wanted - NumConnected
           /\ trying' = peers \ connected
    /\ UNCHANGED <<systemVars, notifierVars, managerVars, connected, faults, resolverVars>>

\* One of them, in random order, is tried: it stops when enough are connected.
Connects(i) ==
    /\ i \in trying
    /\ connected' = connected \cup {i}
    /\ missing' = missing - 1
    /\ trying' = IF missing = 1 THEN {} ELSE trying \ {i}
    /\ UNCHANGED <<systemVars, notifierVars, managerVars, faults, resolverVars>>

ConnectFails(i) ==
    /\ i \in trying /\ faults < MaxFaults
    /\ faults' = faults + 1
    /\ trying' = trying \ {i}
    /\ missing' = IF trying' = {} THEN 0 ELSE missing
    /\ UNCHANGED <<systemVars, notifierVars, managerVars, connected, resolverVars>>

\* A connection breaks.
Drop(i) ==
    /\ i \in connected /\ faults < MaxFaults
    /\ connected' = connected \ {i}
    /\ faults' = faults + 1
    /\ UNCHANGED <<systemVars, notifierVars, managerVars, trying, missing, resolverVars>>

\* Stop: unregister, close the channels, wait for the goroutines.
Stop ==
    /\ manager = "running"
    /\ manager' = "stopping"
    /\ UNCHANGED <<systemVars, notifierVars, connectVars, peers, listing, updating, missed, resolverVars>>

StopUnregisters ==
    /\ manager = "stopping"
    /\ Unregister("manager")
    /\ closed' = [closed EXCEPT !["manager"] = TRUE]
    /\ manager' = "closing"
    /\ UNCHANGED <<systemVars, sending, notifying, channel, connectVars>>
    /\ UNCHANGED <<peers, listing, updating, missed, resolverVars>>

StopWaits ==
    /\ manager = "closing" /\ ~Processing /\ trying = {}
    /\ manager' = "stopped"
    /\ UNCHANGED <<systemVars, notifierVars, connectVars, peers, listing, updating, missed, resolverVars>>

----------------------------------------------------------------------------
(* Resolver                                                                 *)

\* rendezvousHash: MinPeers of the addresses, the ones with the lowest scores.
Chosen(set) ==
    {s \in SUBSET set :
        /\ Cardinality(s) = Smaller(MinPeers, Cardinality(set))
        /\ \A i \in s, j \in set \ s : Score[i] <= Score[j]}

\* New: the channel is registered before anything is read.
ResolverNew ==
    /\ resolver = "none"
    /\ Register("resolver")
    /\ resolver' = "new"
    /\ UNCHANGED <<systemVars, sending, notifying, channel, closed, connectVars, managerVars, addresses>>

\* Build: the instances are read and given to gRPC, and the watcher starts.
Build ==
    /\ resolver = "new"
    /\ resolver' = "built"
    /\ addresses' \in Chosen(instances)
    /\ UNCHANGED <<systemVars, notifierVars, connectVars, managerVars>>

\* Build: Instances fails.  The channel stays registered, and no one reads it.
BuildFails ==
    /\ resolver = "new"
    /\ resolver' = "failed"
    /\ UNCHANGED <<systemVars, notifierVars, connectVars, managerVars, addresses>>

\* watcher: the next set, while the channel has one, even after it is closed.
Watch ==
    /\ resolver \in {"built", "closing"} /\ channel["resolver"] # <<>>
    /\ addresses' \in Chosen(Head(channel["resolver"]))
    /\ channel' = [channel EXCEPT !["resolver"] = Tail(@)]
    /\ UNCHANGED <<systemVars, sending, notifying, observers, closed, connectVars, managerVars, resolver>>

\* Close, by gRPC on the resolver it was given: unregister and close the channel ...
Close ==
    /\ resolver = "built"
    /\ Unregister("resolver")
    /\ closed' = [closed EXCEPT !["resolver"] = TRUE]
    /\ resolver' = "closing"
    /\ UNCHANGED <<systemVars, sending, notifying, channel, connectVars, managerVars, addresses>>

\* ... and wait for the watcher.
CloseWaits ==
    /\ resolver = "closing" /\ channel["resolver"] = <<>>
    /\ resolver' = "closed"
    /\ UNCHANGED <<systemVars, notifierVars, connectVars, managerVars, addresses>>

----------------------------------------------------------------------------
Notify == NotifyLocks \/ NotifySends \/ NotifyUnlocks
UpdatePeers == UpdatePeersAdds \/ UpdatePeersRemoves
Try(i) == Connects(i) \/ ConnectFails(i)

DNext ==
    \/ Change \/ Notify
    \/ NewReads \/ NewRegisters \/ UpdatePeers
    \/ EnsureConnections \/ \E i \in Instance : Try(i) \/ Drop(i)
    \/ Stop \/ StopUnregisters \/ StopWaits
    \/ ResolverNew \/ Build \/ BuildFails \/ Watch \/ Close \/ CloseWaits

\* Every goroutine goes on and gets the lock in its turn; nothing makes the
\* instances change, or anyone create, stop or close an observer.
DFairness ==
    /\ WF_dvars(Notify) /\ WF_dvars(UpdatePeers) /\ WF_dvars(EnsureConnections)
    /\ WF_dvars(\E i \in Instance : Try(i))
    /\ WF_dvars(NewRegisters) /\ WF_dvars(StopUnregisters \/ StopWaits)
    /\ WF_dvars(Build \/ BuildFails) /\ WF_dvars(Watch) /\ WF_dvars(CloseWaits)

DSpec == DInit /\ [][DNext]_dvars /\ DFairness

----------------------------------------------------------------------------
(* Properties                                                               *)

\* Notify has yet to send to observer o.
Waiting(o) == \E i \in DOMAIN sending : sending[i] = o

\* What is still to come to observer o, or under way to it.
Coming(o) == unsent \/ Waiting(o) \/ channel[o] # <<>>

\* Once nothing is on its way to it, an observer has what Instances() answers: the
\* manager as its peer list (unless it missed a change while it was created), the
\* resolver the right ones of them, whichever of the reading at the start and the
\* notifications came first.
ObserversSettle ==
    /\ manager \in {"running", "stopping"} /\ ~missed /\ ~Coming("manager") /\ ~updating =>
          peers = instances
    /\ resolver = "built" /\ ~Coming("resolver") => addresses \in Chosen(instances)

\* Notify never sends to a channel that Stop or Close has closed (which would
\* panic): they unregister it first, and wait for the lock to do so.
NoSendOnClosed == \A o \in Observer : Waiting(o) => ~closed[o]

\* When the changes stop, the peer list is the set of instances and gRPC has
\* the right ones of them, whatever was queued, and whichever of the reading at
\* the start and the notifications came first.  The exceptions are the code's: a
\* change the manager missed while it was created, and a resolver whose Build
\* failed and whose full channel then blocks the dispatcher.
PeersConverge ==
    <>[](manager = "running" /\ ~missed /\ resolver # "failed") => <>[](peers = instances)

AddressesConverge ==
    <>[](resolver = "built") => <>[](addresses \in Chosen(instances))

\* Nobody waits for ever: Notify ends, though a channel may be full, and so does
\* Stop, though Notify may hold the lock it needs while it waits for this very
\* manager.  Only a resolver whose Build failed can stop them.
CallsReturn ==
    /\ notifying ~> (~notifying \/ resolver = "failed")
    /\ (manager = "stopping") ~> (manager = "stopped" \/ resolver = "failed")

\* The manager makes sure that there are connections to at least minPeers: they
\* are there in the end, though peers come and go while it connects, connections
\* break and attempts fail.
ConnectionsRestored ==
    <>[](manager = "running") =>
        <>[](Cardinality(peers \cap connected) >= Smaller(MinPeers, Cardinality(peers)))

=============================================================================
