------------------------------ MODULE MeshNode ------------------------------
(***************************************************************************)
(* MeshNode (mesh/node.ts) over several runs of its process: the persisted *)
(* identity and peer file, the announcement of capabilities to the peers   *)
(* that connect, the manifest protocol and the translation of addresses.   *)
(*                                                                         *)
(* libp2p is external.  provide() reaches the peers that are connected     *)
(* when it ends, and told[p] are the capabilities p knows of.  The retries *)
(* and the cooldown of queryManifest are in McpRouter.                     *)
(***************************************************************************)
EXTENDS Naturals, FiniteSets

CONSTANTS
    Peers,
    Tools,        \* capabilities announced for tools
    Manifest,     \* LIOP_MANIFEST_CAPABILITY
    Listen,       \* Listen[p]: kinds of addresses p listens on
    Mapped,       \* whether an addressMapper is configured
    MaxRuns,      \* bound: how often the process is started
    MaxFaults     \* bound: writes and announcements that fail, peers that leave

ASSUME MeshNodeAssumption ==
    /\ MaxRuns \in Nat /\ MaxFaults \in Nat /\ Mapped \in BOOLEAN
    /\ Manifest \notin Tools

VARIABLES
    file,         \* the identity file: a key, or 0 if there is none or it is torn
    peerFile,     \* dhtStoragePath: the addresses of peers, none if the file is torn
    stage,        \* how far start() and stop() of this process have come
    key, isNew,   \* the identity of this process
    provider,     \* whether manifestProvider is set
    handles,      \* how often the manifest protocol was registered
    announced,    \* announcedCapabilities
    providing,    \* announcements under way
    reannouncing, \* the guard of reannounceAll
    loop,         \* its body: "idle", "settling" or "looping"
    done,         \* what it has announced again
    conns,        \* connected peers
    store,        \* peerStore: addresses of peers
    told,
    runs, faults,
    settled,      \* history: the key some run had written before it was up, or 0
    owed          \* history: peers that connected while nothing was announced again

disk == <<file, peerFile>>
identity == <<key, isNew>>
manifest == <<provider, handles>>
announcing == <<announced, providing, reannouncing, loop, done>>
bounds == <<runs, faults>>
vars == <<disk, stage, identity, manifest, announcing, conns, store, told, bounds, settled, owed>>

Nothing == [p \in Peers |-> {}]
Running == stage \notin {"down", "stopped"}
Created == Running /\ stage # "loading"      \* this.node is set
Started == Created /\ stage # "created"
Fault == faults < MaxFaults /\ faults' = faults + 1

(***************************************************************************)
(* Addresses.                                                              *)
(***************************************************************************)
\* industrialAddressMapper: a container's address becomes the port it is published
\* at, a loopback address inside the container is dropped.
Mapper(a) ==
    CASE a = "container" -> {"published"} [] a = "inner" -> {} [] OTHER -> {a}

Translated(addrs) == IF Mapped THEN UNION {Mapper(a) : a \in addrs} ELSE addrs

\* resolvePeer: the connection's address, else those in the store.
ResolvePeer(p) == IF p \in conns THEN {"connected"} ELSE store[p]

\* The addresses a discovered peer, or one asked for its manifest, is dialed at
\* directly: the translated ones on plain TCP (else libp2p chooses by the peer id).
DialTarget(p) == Translated(store[p]) \ {"websocket"}

(***************************************************************************)
(* start.                                                                  *)
(***************************************************************************)
NewProcess ==
    /\ provider' = FALSE /\ handles' = 0
    /\ announced' = {} /\ providing' = {} /\ reannouncing' = FALSE /\ loop' = "idle" /\ done' = {}
    /\ conns' = {} /\ store' = Nothing /\ told' = Nothing
    /\ owed' = {}

\* loadOrCreateIdentity: a file that is missing or does not parse gives a new key.
LoadOrCreateIdentity ==
    /\ stage = "down" /\ runs < MaxRuns /\ runs' = runs + 1
    /\ stage' = "loading"
    /\ IF file # 0 THEN key' = file /\ isNew' = FALSE
       ELSE key' = runs' + 1 /\ isNew' = TRUE
    /\ UNCHANGED <<disk, manifest, announcing, conns, store, told, faults, settled, owed>>

\* createLibp2p and the event listeners.
CreateNode ==
    /\ stage = "loading" /\ stage' = "created"
    /\ UNCHANGED <<disk, identity, manifest, announcing, conns, store, told, bounds, settled, owed>>

\* node.start, then loadRoutingTable; a file that does not parse is ignored.
StartNode ==
    /\ stage = "created" /\ stage' = "started"
    /\ store' = peerFile
    /\ UNCHANGED <<disk, identity, manifest, announcing, conns, told, bounds, settled, owed>>

Announce(caps) == announced' = announced \cup caps /\ providing' = providing \cup caps

\* applyHandlers, with provider set or not.
ApplyHandlers(set) ==
    IF set /\ handles = 0 THEN handles' = 1 /\ Announce({Manifest})
    ELSE UNCHANGED <<handles, announced, providing>>

(* Mutant: the identity is written at every start.                         *)
HandlersAndSaveAlways ==
    /\ stage = "started"
    /\ ApplyHandlers(provider)
    /\ stage' = "saving" /\ file' = 0
    /\ UNCHANGED <<peerFile, identity, provider, reannouncing, loop, done, conns, store, told, bounds,
                   settled, owed>>

\* applyHandlers, then saveIdentity of a new key: the file is truncated first.
HandlersAndSave ==
    /\ stage = "started"
    /\ ApplyHandlers(provider)
    /\ IF isNew THEN stage' = "saving" /\ file' = 0
       ELSE stage' = "dialing" /\ UNCHANGED file
    /\ UNCHANGED <<peerFile, identity, provider, reannouncing, loop, done, conns, store, told, bounds,
                   settled, owed>>

\* The rest of writeFile; an error is logged and the node goes on.
SaveIdentity ==
    /\ stage = "saving" /\ stage' = "dialing"
    /\ \/ file' = key /\ UNCHANGED faults
       \/ Fault /\ UNCHANGED file
    /\ UNCHANGED <<peerFile, identity, manifest, announcing, conns, store, told, runs, settled, owed>>

\* The dials of the bootstrap nodes have succeeded or failed twice.
BootstrapsDialed ==
    /\ stage = "dialing" /\ stage' = "up"
    /\ settled' = IF file = key THEN key ELSE settled
    /\ UNCHANGED <<disk, identity, manifest, announcing, conns, store, told, bounds, owed>>

(***************************************************************************)
(* Capabilities.                                                           *)
(***************************************************************************)
\* registerManifestHandler, by connectToMesh after start or by a router before it.
RegisterManifestHandler ==
    /\ stage # "stopped"
    /\ provider' = TRUE
    /\ IF Created THEN ApplyHandlers(TRUE) ELSE UNCHANGED <<handles, announced, providing>>
    /\ UNCHANGED <<disk, stage, identity, reannouncing, loop, done, conns, store, told, bounds, settled, owed>>

\* announceCapability.
AnnounceCapability(c) ==
    /\ stage = "up" /\ c \notin announced
    /\ Announce({c})
    /\ UNCHANGED <<disk, stage, identity, manifest, reannouncing, loop, done, conns, store, told, bounds,
                   settled, owed>>

Tell(c) == told' = [p \in Peers |-> IF p \in conns THEN told[p] \cup {c} ELSE told[p]]

\* provide() ends, or fails: what peers do not learn now is not owed to them.
Provided(c) ==
    /\ Started /\ c \in providing
    /\ providing' = providing \ {c}
    /\ \/ Tell(c) /\ UNCHANGED <<faults, owed>>
       \/ Fault /\ owed' = {} /\ UNCHANGED told
    /\ UNCHANGED <<disk, stage, identity, manifest, announced, reannouncing, loop, done, conns, store,
                   runs, settled>>

\* peer:connect; identify has replaced the addresses of the peer.  reannounceAll
\* begins unless it is under way or there is nothing to announce.
PeerConnects(p) ==
    /\ Started /\ p \notin conns
    /\ conns' = conns \cup {p}
    /\ store' = [store EXCEPT ![p] = Listen[p]]
    /\ told' = [told EXCEPT ![p] = {}]
    /\ owed' = IF loop = "idle" THEN owed \cup {p} ELSE owed
    /\ IF reannouncing \/ announced = {} THEN UNCHANGED <<reannouncing, loop, done>>
       ELSE reannouncing' = TRUE /\ loop' = "settling" /\ done' = {}
    /\ UNCHANGED <<disk, stage, identity, manifest, announced, providing, bounds, settled>>

PeerLeaves(p) ==
    /\ p \in conns /\ Fault
    /\ conns' = conns \ {p} /\ owed' = owed \ {p}
    /\ UNCHANGED <<disk, stage, identity, manifest, announcing, store, told, runs, settled>>

\* The half second before the loop.
Settle ==
    /\ loop = "settling" /\ Started
    /\ loop' = "looping"
    /\ UNCHANGED <<disk, stage, identity, manifest, announced, providing, reannouncing, done, conns,
                   store, told, bounds, settled, owed>>

\* One pass of the loop, over a set that grows while it is iterated.
Reannounce(c) ==
    /\ loop = "looping" /\ Started /\ c \in announced \ done
    /\ done' = done \cup {c}
    /\ \/ Tell(c) /\ UNCHANGED <<faults, owed>>
       \/ Fault /\ owed' = {} /\ UNCHANGED told
    /\ UNCHANGED <<disk, stage, identity, manifest, announced, providing, reannouncing, loop, conns,
                   store, runs, settled>>

(* Mutant: the guard is not released.                                      *)
ReannouncedKeeps ==
    /\ loop = "looping" /\ Started /\ announced \subseteq done
    /\ loop' = "idle"
    /\ UNCHANGED <<disk, stage, identity, manifest, announced, providing, reannouncing, done, conns,
                   store, told, bounds, settled, owed>>

\* The loop has ended; finally releases the guard.
Reannounced ==
    /\ loop = "looping" /\ Started /\ announced \subseteq done
    /\ loop' = "idle" /\ reannouncing' = FALSE
    /\ UNCHANGED <<disk, stage, identity, manifest, announced, providing, done, conns, store, told,
                   bounds, settled, owed>>

\* queryManifest, as far as it changes the store: the translated addresses replace
\* those of the peer.
QueryManifest(p) ==
    /\ stage = "up" /\ store[p] # {} /\ Mapped
    /\ store' = [store EXCEPT ![p] = Translated(store[p])]
    /\ UNCHANGED <<disk, stage, identity, manifest, announcing, conns, told, bounds, settled, owed>>

(***************************************************************************)
(* stop, crashes.                                                          *)
(***************************************************************************)
\* stop: saveRoutingTable truncates the file, writes it, and the node is stopped.
SaveRoutingTable ==
    /\ stage = "up" /\ stage' = "leaving"
    /\ peerFile' = Nothing
    /\ UNCHANGED <<file, identity, manifest, announcing, conns, store, told, bounds, settled, owed>>

Stop ==
    /\ stage = "leaving" /\ stage' = "stopped"
    /\ peerFile' = store
    /\ conns' = {} /\ owed' = {}
    /\ UNCHANGED <<file, identity, manifest, announcing, store, told, bounds, settled>>

\* The process ends: after stop, or at any time.
Exit ==
    /\ stage = "stopped" \/ (Running /\ runs < MaxRuns)
    /\ stage' = "down"
    /\ key' = 0 /\ isNew' = FALSE
    /\ NewProcess
    /\ UNCHANGED <<disk, bounds, settled>>

\* An earlier deployment may have left its identity.
Init ==
    /\ file \in {0, 1} /\ peerFile = Nothing
    /\ stage = "down" /\ key = 0 /\ isNew = FALSE
    /\ provider = FALSE /\ handles = 0
    /\ announced = {} /\ providing = {} /\ reannouncing = FALSE /\ loop = "idle" /\ done = {}
    /\ conns = {} /\ store = Nothing /\ told = Nothing
    /\ runs = 0 /\ faults = 0 /\ settled = file /\ owed = {}

Start == LoadOrCreateIdentity \/ CreateNode \/ StartNode \/ HandlersAndSave \/ SaveIdentity \/ BootstrapsDialed

Announcements ==
    \/ \E c \in Tools \cup {Manifest} : Provided(c) \/ Reannounce(c)
    \/ Settle \/ Reannounced

Next ==
    \/ Start \/ Announcements
    \/ RegisterManifestHandler
    \/ \E c \in Tools : AnnounceCapability(c)
    \/ \E p \in Peers : PeerConnects(p) \/ PeerLeaves(p) \/ QueryManifest(p)
    \/ SaveRoutingTable \/ Stop \/ Exit

\* start() has time limits at every dial, and announcements end.
Fairness ==
    /\ WF_vars(Start)
    /\ WF_vars(Settle \/ Reannounced)
    /\ \A c \in Tools \cup {Manifest} : WF_vars(Provided(c)) /\ WF_vars(Reannounce(c))

Spec == Init /\ [][Next]_vars /\ Fairness

(***************************************************************************)
(* Properties.                                                             *)
(***************************************************************************)
TypeOK ==
    /\ stage \in {"down", "loading", "created", "started", "saving", "dialing", "up", "leaving", "stopped"}
    /\ {file, key, settled} \subseteq 0 .. MaxRuns + 1
    /\ done \subseteq announced /\ providing \subseteq announced
    /\ \A p \in Peers : told[p] \subseteq Tools \cup {Manifest}
    /\ conns \subseteq Peers /\ owed \subseteq conns

(* The peer id survives: once a run has written its key and come up, every *)
(* later run has that key, whenever the runs in between ended, during a    *)
(* write of the identity file included.                                    *)
IdentitySurvives ==
    (settled # 0 /\ Running) => key = settled

(* The manifest protocol is registered once, in whichever order the node   *)
(* starts and providers arrive (libp2p refuses a second registration), and *)
(* a node that is up with a provider serves and announces its manifest.    *)
ManifestHandledOnce ==
    /\ handles <= 1
    /\ (stage = "up" /\ provider) => handles = 1 /\ Manifest \in announced

Reachable(addrs) == addrs \cap {"published", "connected"} # {}

(* Translating the addresses of a peer again and again never loses the     *)
(* way to it: a peer whose published address is known can still be dialed  *)
(* there directly after any step of the node, and resolved to an address   *)
(* the host reaches after stop() and a new start.                          *)
TranslationKeepsTheWay ==
    [][\A p \in Peers :
          /\ (stage = "up" /\ stage' = "up" /\ "published" \in store[p]) => "published" \in DialTarget(p)'
          /\ (stage = "created" /\ stage' = "started" /\ Reachable(peerFile[p])) => Reachable(ResolvePeer(p)')]_vars

(* What a node is to its peers survives crashes and restarts: its peer id, *)
(* its one manifest handler and the way to the peers it knows.             *)
RestartsAreSafe == [](TypeOK /\ IdentitySurvives /\ ManifestHandledOnce) /\ TranslationKeepsTheWay

(* A peer that connects while no re-announcement is under way learns every *)
(* capability the node has announced, unless it leaves, an announcement    *)
(* fails or the process ends.                                              *)
ConnectedPeersLearn ==
    []<>(\A p \in owed : announced \subseteq told[p] \/ ~Running)
=============================================================================
