---------------------------- MODULE Nodes_proofs ----------------------------
(***************************************************************************)
(* Proofs about the two kinds of node.  The mesh node, for any number of   *)
(* peers, tools, runs of its process and faults, whatever addresses peers  *)
(* have, mapped or not.  The Rust node, for any number of calls, agents    *)
(* and tokens, every module a client may inject, and every limit.          *)
(***************************************************************************)
EXTENDS MeshNode, RustNode, FiniteSetTheorems, WellFoundedInduction, TLAPS

(***************************************************************************)
(* The mesh node.                                                          *)
(***************************************************************************)
Caps == Tools \cup {Manifest}

MeshTypes ==
    /\ TypeOK /\ runs \in 0 .. MaxRuns /\ faults \in Nat
    /\ isNew \in BOOLEAN /\ provider \in BOOLEAN /\ handles \in {0, 1}
    /\ announced \subseteq Caps
    /\ told \in [Peers -> SUBSET Caps]
    /\ DOMAIN store = Peers /\ DOMAIN peerFile = Peers

(* A settled identity is on disk, every run has it, and no run is on its   *)
(* way to overwrite it.  A torn file is left only by a run that made a key.*)
IdentityInv ==
    /\ stage = "saving" => isNew
    /\ Running => key # 0
    /\ settled # 0 =>
         /\ file = settled
         /\ Running => key = settled
         /\ stage \in {"loading", "created", "started", "saving"} => ~isNew

(* From its first chance on a provider has its handler, and the manifest   *)
(* is announced with it.                                                   *)
ManifestInv ==
    /\ handles = 1 => Manifest \in announced
    /\ (provider /\ stage \in {"saving", "dialing", "up"}) => handles = 1

(* What leads to a peer, in the store or on disk, comes from the addresses *)
(* on which the peer listens.                                              *)
Leads(addrs) == "published" \in Translated(addrs)
WayInv ==
    \A p \in Peers : /\ Leads(store[p]) => Leads(Listen[p])
                     /\ Leads(peerFile[p]) => Leads(Listen[p])

MeshInv == MeshTypes /\ IdentityInv /\ ManifestInv /\ WayInv

-----------------------------------------------------------------------------
(* Translating twice is translating once, as far as the published address  *)
(* goes, and it never removes it.                                          *)
LEMMA Translating ==
  ASSUME NEW addrs
  PROVE  /\ Leads(Translated(addrs)) <=> Leads(addrs)
         /\ "published" \in addrs => Leads(addrs)
<1>1. Mapper("container") = {"published"} /\ Mapper("published") = {"published"}
  BY DEF Mapper
<1>2. \A a : "published" \in Mapper(a) => a = "container" \/ a = "published"
  BY DEF Mapper
<1>3. \A a : "container" \notin Mapper(a)
  BY DEF Mapper
<1>4. CASE Mapped
  <2>1. \A S : Translated(S) = UNION {Mapper(a) : a \in S}
    BY <1>4 DEF Translated
  <2>2. \A S : Leads(S) <=> \E a \in S : "published" \in Mapper(a)
    BY <2>1 DEF Leads
  <2>3. \A S : Leads(S) <=> ("published" \in S \/ "container" \in S)
    BY <1>1, <1>2, <2>2
  <2>4. "container" \notin Translated(addrs)
    BY <1>3, <2>1
  <2> QED
    BY <2>3, <2>4 DEF Leads
<1>5. CASE ~Mapped
  BY <1>5 DEF Leads, Translated
<1> QED
  BY <1>4, <1>5

LEMMA Nowhere ==
  /\ ~Leads({})
  /\ Nothing \in [Peers -> SUBSET Caps] /\ DOMAIN Nothing = Peers /\ \A p \in Peers : Nothing[p] = {}
  BY DEF Leads, Translated, Nothing

LEMMA InitMeshInv ==
  ASSUME Init
  PROVE  MeshInv
<1>1. MeshTypes
  <2>1. {0, 1} \subseteq 0 .. MaxRuns + 1 /\ 0 \in 0 .. MaxRuns /\ 0 \in Nat
    BY MeshNodeAssumption
  <2>2. {file, key, settled} \subseteq 0 .. MaxRuns + 1
    BY <2>1 DEF Init
  <2> QED
    BY <2>1, <2>2, Nowhere DEF Init, MeshTypes, TypeOK, Caps
<1>2. IdentityInv
  BY DEF Init, IdentityInv, Running
<1>3. ManifestInv
  BY DEF Init, ManifestInv
<1>4. WayInv
  BY Nowhere DEF Init, WayInv
<1> QED
  BY <1>1, <1>2, <1>3, <1>4 DEF MeshInv

-----------------------------------------------------------------------------
(* MeshTypes, action by action.                                                *)
LEMMA MeshTypesHold ==
  ASSUME MeshInv, Next
  PROVE  MeshTypes'
<1> USE MeshNodeAssumption DEF MeshInv, MeshTypes, TypeOK, Caps, disk, identity, manifest, announcing, bounds
<1>1. CASE LoadOrCreateIdentity
  <2>1. runs' \in 0 .. MaxRuns /\ {file', key', settled'} \subseteq 0 .. MaxRuns + 1
    BY <1>1 DEF LoadOrCreateIdentity
  <2> QED
    BY <1>1, <2>1 DEF LoadOrCreateIdentity
<1>2. CASE CreateNode \/ StartNode
  BY <1>2 DEF CreateNode, StartNode
<1>3. CASE HandlersAndSave
  BY <1>3 DEF HandlersAndSave, ApplyHandlers, Announce
<1>4. CASE SaveIdentity \/ BootstrapsDialed
  BY <1>4 DEF SaveIdentity, BootstrapsDialed, Fault
<1>5. CASE RegisterManifestHandler
  BY <1>5 DEF RegisterManifestHandler, ApplyHandlers, Announce
<1>6. ASSUME NEW c \in Tools, AnnounceCapability(c)
      PROVE  MeshTypes'
  BY <1>6 DEF AnnounceCapability, Announce
<1>7. ASSUME NEW c \in Caps, Provided(c) \/ Reannounce(c)
      PROVE  MeshTypes'
  <2>1. told' \in [Peers -> SUBSET Caps] /\ faults' \in Nat
    BY <1>7 DEF Provided, Reannounce, Tell, Fault
  <2> QED
    BY <1>7, <2>1 DEF Provided, Reannounce, Fault
<1>8. CASE Settle \/ Reannounced
  BY <1>8 DEF Settle, Reannounced
<1>9. ASSUME NEW p \in Peers, PeerConnects(p) \/ PeerLeaves(p) \/ QueryManifest(p)
      PROVE  MeshTypes'
  BY <1>9 DEF PeerConnects, PeerLeaves, QueryManifest, Fault
<1>10. CASE SaveRoutingTable \/ Stop
  BY <1>10, Nowhere DEF SaveRoutingTable, Stop
<1>11. CASE Exit
  <2>1. {file', key', settled'} \subseteq 0 .. MaxRuns + 1
    BY <1>11 DEF Exit
  <2> QED
    BY <1>11, <2>1, Nowhere DEF Exit, NewProcess
<1> QED
  BY <1>1, <1>2, <1>3, <1>4, <1>5, <1>6, <1>7, <1>8, <1>9, <1>10, <1>11
  DEF Next, Start, Announcements

(* The identity is a matter of start, and of the end of the process.       *)
LEMMA IdentityHolds ==
  ASSUME MeshInv, Next
  PROVE  IdentityInv'
<1> USE MeshNodeAssumption DEF MeshInv, IdentityInv, Running, disk, identity, bounds
<1>1. CASE LoadOrCreateIdentity
  BY <1>1 DEF LoadOrCreateIdentity, MeshTypes, TypeOK
<1>2. CASE CreateNode \/ StartNode
  BY <1>2 DEF CreateNode, StartNode
<1>3. CASE HandlersAndSave
  BY <1>3 DEF HandlersAndSave
<1>4. CASE SaveIdentity
  BY <1>4 DEF SaveIdentity
<1>5. CASE BootstrapsDialed
  BY <1>5 DEF BootstrapsDialed
<1>6. CASE SaveRoutingTable \/ Stop
  BY <1>6 DEF SaveRoutingTable, Stop
<1>7. CASE Exit
  BY <1>7 DEF Exit
<1>8. CASE UNCHANGED << file, stage, identity, settled >>
  BY <1>8
<1>9. RegisterManifestHandler \/ Announcements \/ (\E c \in Tools : AnnounceCapability(c))
      \/ (\E p \in Peers : PeerConnects(p) \/ PeerLeaves(p) \/ QueryManifest(p))
      => UNCHANGED << file, stage, identity, settled >>
  BY DEF RegisterManifestHandler, Announcements, AnnounceCapability, PeerConnects, PeerLeaves,
     QueryManifest, Provided, Reannounce, Settle, Reannounced
<1> QED
  BY <1>1, <1>2, <1>3, <1>4, <1>5, <1>6, <1>7, <1>8, <1>9 DEF Next, Start

(* The manifest is a matter of start and registerManifestHandler.          *)
LEMMA ManifestHolds ==
  ASSUME MeshInv, Next
  PROVE  ManifestInv'
<1> USE DEF MeshInv, ManifestInv, Running, Created, manifest, announcing
<1>1. CASE LoadOrCreateIdentity \/ CreateNode \/ StartNode
  BY <1>1 DEF LoadOrCreateIdentity, CreateNode, StartNode
<1>2. CASE HandlersAndSave
  BY <1>2 DEF HandlersAndSave, ApplyHandlers, Announce, MeshTypes
<1>3. CASE SaveIdentity \/ BootstrapsDialed
  BY <1>3 DEF SaveIdentity, BootstrapsDialed
<1>4. CASE RegisterManifestHandler
  BY <1>4 DEF RegisterManifestHandler, ApplyHandlers, Announce, MeshTypes
<1>5. ASSUME NEW c \in Tools, AnnounceCapability(c)
      PROVE  ManifestInv'
  BY <1>5 DEF AnnounceCapability, Announce
<1>6. CASE SaveRoutingTable \/ Stop
  BY <1>6 DEF SaveRoutingTable, Stop
<1>7. CASE Exit
  BY <1>7 DEF Exit, NewProcess
<1>8. CASE UNCHANGED << manifest, announced, stage >>
  BY <1>8
<1>9. Announcements \/ (\E p \in Peers : PeerConnects(p) \/ PeerLeaves(p) \/ QueryManifest(p))
      => UNCHANGED << manifest, announced, stage >>
  BY DEF Announcements, PeerConnects, PeerLeaves, QueryManifest, Provided, Reannounce, Settle, Reannounced
<1> QED
  BY <1>1, <1>2, <1>3, <1>4, <1>5, <1>6, <1>7, <1>8, <1>9 DEF Next, Start

(* Where the addresses come from: the peer itself, the file, or nowhere.   *)
LEMMA WayHolds ==
  ASSUME MeshInv, Next
  PROVE  WayInv'
<1> USE DEF disk
<1>0. WayInv /\ DOMAIN store = Peers /\ DOMAIN peerFile = Peers
  BY DEF MeshInv, MeshTypes
<1>1. CASE StartNode
  BY <1>0, <1>1 DEF StartNode, WayInv
<1>2. ASSUME NEW q \in Peers, PeerConnects(q)
      PROVE  WayInv'
  <2>1. /\ peerFile' = peerFile /\ store'[q] = Listen[q]
        /\ \A p \in Peers \ {q} : store'[p] = store[p]
    BY <1>0, <1>2 DEF PeerConnects
  <2> QED
    BY <1>0, <2>1 DEF WayInv
<1>3. ASSUME NEW q \in Peers, QueryManifest(q)
      PROVE  WayInv'
  <2>1. /\ peerFile' = peerFile /\ store'[q] = Translated(store[q])
        /\ \A p \in Peers \ {q} : store'[p] = store[p]
    BY <1>0, <1>3 DEF QueryManifest
  <2> QED
    BY <1>0, <2>1, Translating DEF WayInv
<1>4. CASE SaveRoutingTable
  BY <1>0, <1>4, Nowhere DEF SaveRoutingTable, WayInv
<1>5. CASE Stop
  BY <1>0, <1>5 DEF Stop, WayInv
<1>6. CASE Exit
  BY <1>0, <1>6, Nowhere DEF Exit, NewProcess, WayInv
<1>7. CASE UNCHANGED << store, peerFile >>
  BY <1>0, <1>7 DEF WayInv
<1>8. LoadOrCreateIdentity \/ CreateNode \/ HandlersAndSave \/ SaveIdentity \/ BootstrapsDialed
      \/ Announcements \/ RegisterManifestHandler \/ (\E c \in Tools : AnnounceCapability(c))
      \/ (\E p \in Peers : PeerLeaves(p))
      => UNCHANGED << store, peerFile >>
  BY DEF LoadOrCreateIdentity, CreateNode, HandlersAndSave, SaveIdentity, BootstrapsDialed,
     Announcements, RegisterManifestHandler, AnnounceCapability, PeerLeaves, Provided, Reannounce,
     Settle, Reannounced
<1> QED
  BY <1>1, <1>2, <1>3, <1>4, <1>5, <1>6, <1>7, <1>8 DEF Next, Start

LEMMA NextMeshInv ==
  ASSUME MeshInv, [Next]_vars
  PROVE  MeshInv'
<1>1. CASE Next
  BY <1>1, MeshTypesHold, IdentityHolds, ManifestHolds, WayHolds DEF MeshInv
<1>2. CASE UNCHANGED vars
  BY <1>2 DEF vars, disk, identity, manifest, announcing, bounds, MeshInv, MeshTypes, TypeOK, IdentityInv,
     Running, ManifestInv, WayInv
<1> QED
  BY <1>1, <1>2

(* No step of a node that is up loses the way to a peer, and a new start   *)
(* finds the ways that the last one saved.                                 *)
LEMMA WaysAreKept ==
  ASSUME MeshInv, [Next]_vars, NEW p \in Peers
  PROVE  /\ (stage = "up" /\ stage' = "up" /\ "published" \in store[p]) => "published" \in DialTarget(p)'
         /\ (stage = "created" /\ stage' = "started" /\ Reachable(peerFile[p])) => Reachable(ResolvePeer(p)')
<1>1. Leads(store[p]) => Leads(Listen[p])
  BY DEF MeshInv, WayInv
<1>2. ASSUME stage = "up", stage' = "up", "published" \in store[p]
      PROVE  "published" \in DialTarget(p)'
  <2>1. \/ store'[p] = store[p]
        \/ store'[p] = Listen[p]
        \/ store'[p] = Translated(store[p])
    <3>1. DOMAIN store = Peers
      BY DEF MeshInv, MeshTypes
    <3>2. CASE Next
      <4>1. ASSUME NEW q \in Peers, PeerConnects(q)
            PROVE  store'[p] \in {store[p], Listen[p]}
        BY <3>1, <4>1 DEF PeerConnects
      <4>2. ASSUME NEW q \in Peers, QueryManifest(q)
            PROVE  store'[p] \in {store[p], Translated(store[p])}
        BY <3>1, <4>2 DEF QueryManifest
      <4>3. Announcements \/ RegisterManifestHandler \/ (\E c \in Tools : AnnounceCapability(c))
            \/ (\E q \in Peers : PeerLeaves(q))
            => UNCHANGED store
        BY DEF Announcements, RegisterManifestHandler, AnnounceCapability, PeerLeaves, Provided,
           Reannounce, Settle, Reannounced
      <4>4. ~(Start \/ SaveRoutingTable \/ Stop \/ Exit)
        BY <1>2 DEF Start, LoadOrCreateIdentity, CreateNode, StartNode, HandlersAndSave, SaveIdentity,
           BootstrapsDialed, SaveRoutingTable, Stop, Exit
      <4> QED
        BY <3>2, <4>1, <4>2, <4>3, <4>4 DEF Next
    <3>3. CASE UNCHANGED vars
      BY <3>3 DEF vars
    <3> QED
      BY <3>2, <3>3
  <2>2. Leads(store[p])
    BY <1>2, Translating
  <2>3. Leads(store'[p])
    BY <1>1, <2>1, <2>2, Translating
  <2> QED
    BY <2>3 DEF DialTarget, Leads, Translated
<1>3. ASSUME stage = "created", stage' = "started", Reachable(peerFile[p])
      PROVE  Reachable(ResolvePeer(p)')
  <2>1. StartNode
    BY <1>3 DEF Next, vars, Start, Announcements, LoadOrCreateIdentity, CreateNode, HandlersAndSave,
       SaveIdentity, BootstrapsDialed, RegisterManifestHandler, AnnounceCapability, PeerConnects,
       PeerLeaves, QueryManifest, Provided, Reannounce, Settle, Reannounced, SaveRoutingTable, Stop, Exit
  <2>2. store' = peerFile
    BY <2>1 DEF StartNode
  <2> QED
    BY <1>3, <2>2 DEF ResolvePeer, Reachable
<1> QED
  BY <1>2, <1>3

(* Over any number of crashes and restarts a node keeps the identity it    *)
(* settled on, registers its manifest handler once, and keeps the way to   *)
(* the peers whose published address it knows (start, stop, saveIdentity,  *)
(* applyHandlers, industrialAddressMapper).                                *)
THEOREM RestartsAreSafeHolds == Spec => RestartsAreSafe
<1>1. Init => MeshInv
  BY InitMeshInv
<1>2. MeshInv /\ [Next]_vars => MeshInv'
  BY NextMeshInv
<1>3. MeshInv => TypeOK /\ IdentitySurvives /\ ManifestHandledOnce
  BY DEF MeshInv, MeshTypes, TypeOK, IdentityInv, ManifestInv, IdentitySurvives, ManifestHandledOnce, Running
<1>4. MeshInv /\ [Next]_vars =>
        [\A p \in Peers :
           /\ (stage = "up" /\ stage' = "up" /\ "published" \in store[p]) => "published" \in DialTarget(p)'
           /\ (stage = "created" /\ stage' = "started" /\ Reachable(peerFile[p])) => Reachable(ResolvePeer(p)')]_vars
  BY WaysAreKept
<1> QED
  BY <1>1, <1>2, <1>3, <1>4, PTL DEF Spec, RestartsAreSafe, TranslationKeepsTheWay

(***************************************************************************)
(* The Rust node.                                                          *)
(***************************************************************************)
Entry == [key : Calls, age : Nat]
CallRec == [stage : {"start", "negotiated", "reading", "done", "failed"},
            token : Tokens \cup {"none"}, key : Calls \cup {0},
            module : Modules \cup {<<>>}, evidence : Seq(Answers)]
RunRec == [stage : {"none", "running", "completed", "ended"}, left : Nat,
           key : Calls \cup {0}, age : Nat, verdict : {"none", "error", "success"}]

RustTypes ==
    /\ \A t \in DOMAIN sessions : sessions[t] \in Entry
    /\ rateLimits \in [Agents -> SUBSET Calls] /\ since \in [Calls -> Nat]
    /\ call \in [Calls -> CallRec] /\ run \in [Calls -> RunRec]
    /\ channel \in [Calls -> Seq(Answers)]

(* A queue holds the recent handshakes of its agent, all of them, and no   *)
(* more of them than the limit.                                            *)
WindowInv ==
    \A a \in Agents :
        /\ \A c \in rateLimits[a] : AgentOf[c] = a
        /\ \A c \in Calls : (AgentOf[c] = a /\ Recent(c)) => c \in rateLimits[a]
        /\ IsFiniteSet(rateLimits[a]) /\ Cardinality(Purged(a)) <= MaxRequests

(* A key is made by a call that has left its start, is in the table under  *)
(* one token at most, and no longer once it has been used.                 *)
Negotiated(k) == k \in Calls /\ call[k].stage # "start"
Used(c) == run[c].stage # "none"
KeyInv ==
    /\ \A t \in DOMAIN sessions : Negotiated(sessions[t].key)
    /\ \A t, u \in DOMAIN sessions : sessions[t].key = sessions[u].key => t = u
    /\ \A c \in Calls : Used(c) =>
         /\ call[c].stage \notin {"start", "negotiated"}
         /\ Negotiated(run[c].key) /\ run[c].age <= Ttl
         /\ \A t \in DOMAIN sessions : sessions[t].key # run[c].key
    /\ SingleUse

(* What the client has read and what is still in the channel speak with    *)
(* one voice: the first verdict in them is the run's.                      *)
AllEvents(s) == \A i \in DOMAIN s : s[i] = "event"
FirstIs(s, v) == \A i \in DOMAIN s : FirstVerdict(s, i) => s[i] = v
Silent(c) == run[c].stage \in {"none", "running"} \/ (run[c].stage = "completed" /\ run[c].verdict = "success")
VerdictInv(c) ==
    LET read == call[c].evidence
        v == run[c].verdict
    IN /\ run[c].stage \in {"none", "running"} => v = "none"
       /\ run[c].stage \in {"completed", "ended"} => v \in {"error", "success"}
       /\ Silent(c) => AllEvents(read) /\ AllEvents(channel[c])
       /\ FirstIs(read, v) /\ (AllEvents(read) => FirstIs(channel[c], v))
       /\ (~Silent(c) /\ Open(c) /\ AllEvents(read)) => ~AllEvents(channel[c])
       /\ call[c].stage = "done" => run[c].stage = "ended" /\ ~AllEvents(read)

RustInv == RustTypes /\ WindowInv /\ KeyInv /\ \A c \in Calls : VerdictInv(c)

-----------------------------------------------------------------------------
(* Sequences of answers.                                                   *)
LEMMA AppendAnswer ==
  ASSUME NEW s \in Seq(Answers), NEW x \in Answers, NEW v \in {"none", "error", "success"}
  PROVE  /\ Append(s, x) \in Seq(Answers)
         /\ AllEvents(Append(s, x)) <=> AllEvents(s) /\ x = "event"
         /\ (FirstIs(s, v) /\ (AllEvents(s) => x \in {"event", v})) => FirstIs(Append(s, x), v)
<1> DEFINE n == Len(s)
           l == Append(s, x)
<1>1. /\ l \in Seq(Answers) /\ n \in Nat /\ DOMAIN l = 1 .. (n + 1) /\ DOMAIN s = 1 .. n
      /\ l[n + 1] = x /\ \A i \in 1 .. n : l[i] = s[i]
  OBVIOUS
<1> HIDE DEF l, n
<1>2. 1 .. (n + 1) = (1 .. n) \cup {n + 1}
  BY <1>1
<1>3. AllEvents(l) <=> AllEvents(s) /\ x = "event"
  BY <1>1, <1>2 DEF AllEvents
<1>4. ASSUME FirstIs(s, v), AllEvents(s) => x \in {"event", v}
      PROVE  FirstIs(l, v)
  <2> SUFFICES ASSUME NEW i \in DOMAIN l, FirstVerdict(l, i)
               PROVE  l[i] = v
    BY DEF FirstIs
  <2>1. l[i] # "event" /\ \A j \in 1 .. i - 1 : l[j] = "event"
    BY DEF FirstVerdict
  <2>2. CASE i \in 1 .. n
    <3>1. \A j \in 1 .. i - 1 : j \in 1 .. n
      BY <1>1, <2>2
    <3>2. FirstVerdict(s, i)
      BY <1>1, <2>1, <2>2, <3>1 DEF FirstVerdict
    <3> QED
      BY <1>1, <1>4, <2>2, <3>2 DEF FirstIs
  <2>3. CASE i = n + 1
    <3>1. i - 1 = n
      BY <1>1, <2>3
    <3>2. AllEvents(s)
      BY <1>1, <2>1, <3>1 DEF AllEvents
    <3> QED
      BY <1>1, <1>4, <2>1, <2>3, <3>2
  <2> QED
    BY <1>1, <1>2, <2>2, <2>3
<1> QED
  BY <1>1, <1>3, <1>4 DEF l

LEMMA TakeAnswer ==
  ASSUME NEW s \in Seq(Answers), s # << >>, NEW v
  PROVE  /\ Head(s) \in Answers /\ Tail(s) \in Seq(Answers)
         /\ AllEvents(s) <=> Head(s) = "event" /\ AllEvents(Tail(s))
         /\ FirstIs(s, v) => /\ Head(s) \in {"event", v}
                             /\ Head(s) = "event" => FirstIs(Tail(s), v)
<1> DEFINE n == Len(s)
           l == Tail(s)
<1>1. /\ Head(s) \in Answers /\ l \in Seq(Answers) /\ n \in Nat \ {0} /\ DOMAIN s = 1 .. n
      /\ DOMAIN l = 1 .. (n - 1) /\ Head(s) = s[1] /\ \A i \in 1 .. (n - 1) : l[i] = s[i + 1]
  OBVIOUS
<1> HIDE DEF l, n
<1>2. 1 \in 1 .. n /\ \A i \in 1 .. (n - 1) : i + 1 \in 1 .. n
  BY <1>1
<1>3. \A i \in 1 .. n : i = 1 \/ (i - 1 \in 1 .. (n - 1) /\ l[i - 1] = s[i])
  <2> SUFFICES ASSUME NEW i \in 1 .. n, i # 1
               PROVE  i - 1 \in 1 .. (n - 1) /\ l[i - 1] = s[i]
    OBVIOUS
  <2>1. i - 1 \in 1 .. (n - 1) /\ (i - 1) + 1 = i
    BY <1>1
  <2> QED
    BY <1>1, <2>1
<1>4. AllEvents(s) <=> Head(s) = "event" /\ AllEvents(l)
  BY <1>1, <1>2, <1>3 DEF AllEvents
<1>5. ASSUME FirstIs(s, v)
      PROVE  Head(s) \in {"event", v}
  <2>1. \A j \in 1 .. 1 - 1 : s[j] = "event"
    OBVIOUS
  <2> QED
    BY <1>1, <1>2, <1>5, <2>1 DEF FirstIs, FirstVerdict
<1>6. ASSUME FirstIs(s, v), Head(s) = "event"
      PROVE  FirstIs(l, v)
  <2> SUFFICES ASSUME NEW i \in DOMAIN l, FirstVerdict(l, i)
               PROVE  l[i] = v
    BY DEF FirstIs
  <2>1. /\ i \in 1 .. (n - 1) /\ i + 1 \in 1 .. n /\ l[i] = s[i + 1] /\ l[i] # "event"
        /\ \A j \in 1 .. i - 1 : l[j] = "event"
    BY <1>1, <1>2 DEF FirstVerdict
  <2>2. ASSUME NEW j \in 1 .. (i + 1) - 1
        PROVE  s[j] = "event"
    <3>1. j \in 1 .. n /\ (j # 1 => j - 1 \in 1 .. i - 1)
      BY <1>1, <2>1
    <3> QED
      BY <1>1, <1>3, <1>6, <2>1, <3>1
  <2>3. FirstVerdict(s, i + 1)
    BY <1>1, <2>1, <2>2 DEF FirstVerdict
  <2> QED
    BY <1>1, <1>6, <2>1, <2>3 DEF FirstIs
<1> QED
  BY <1>1, <1>4, <1>5, <1>6 DEF l

(* Where there is an answer that is not an event, there is a first one.    *)
LEMMA SomeVerdict ==
  ASSUME NEW s \in Seq(Answers), ~AllEvents(s)
  PROVE  \E i \in DOMAIN s : FirstVerdict(s, i)
<1> DEFINE R == {x \in Nat \X Nat : x[1] < x[2]}
           w == {i \in DOMAIN s : s[i] # "event"}
<1>1. IsWellFoundedOn(R, Nat)
  BY NatLessThanWellFounded DEF OpToRel, IsWellFoundedOn
<1>2. w \subseteq Nat /\ w # {} /\ DOMAIN s = 1 .. Len(s) /\ Len(s) \in Nat
  BY DEF AllEvents
<1>3. \A x, y \in Nat : ~(<< y, x >> \in R) => x <= y
  OBVIOUS
<1> HIDE DEF R
<1>4. PICK x \in w : \A y \in w : ~(<< y, x >> \in R)
  BY <1>1, <1>2, WFMin
<1>5. \A y \in w : x <= y
  BY <1>2, <1>3, <1>4
<1>6. \A j \in 1 .. x - 1 : j \in DOMAIN s /\ ~(x <= j)
  BY <1>2, <1>4
<1> QED
  BY <1>4, <1>5, <1>6 DEF FirstVerdict

-----------------------------------------------------------------------------
LEMMA InitRustInv ==
  ASSUME RustInit
  PROVE  RustInv
<1> USE RustNodeAssumption
<1> DEFINE first == [stage |-> "start", token |-> "none", key |-> 0, module |-> <<>>, evidence |-> <<>>]
<1>1. first \in CallRec /\ NoRun \in RunRec
  BY DEF CallRec, RunRec, NoRun
<1>2. /\ first.stage = "start" /\ first.evidence = <<>> /\ NoRun.stage = "none" /\ NoRun.verdict = "none"
  BY DEF NoRun
<1> HIDE DEF first
<1>3. /\ DOMAIN sessions = {} /\ call = [c \in Calls |-> first] /\ run = [c \in Calls |-> NoRun]
      /\ channel = [c \in Calls |-> <<>>] /\ since = [c \in Calls |-> Window + 1]
      /\ rateLimits = [a \in Agents |-> {}]
  BY DEF RustInit, first, LongAgo
<1>4. RustTypes
  <2>1. <<>> \in Seq(Answers) /\ Window + 1 \in Nat
    OBVIOUS
  <2> QED
    BY <1>1, <1>3, <2>1 DEF RustTypes
<1>5. WindowInv
  <2>1. \A c \in Calls : ~Recent(c)
    BY <1>3 DEF Recent
  <2>2. \A a \in Agents : Purged(a) = {} /\ rateLimits[a] = {}
    BY <1>3 DEF Purged
  <2>3. IsFiniteSet({}) /\ Cardinality({}) = 0
    BY FS_EmptySet
  <2>4. MaxRequests \in Nat /\ 0 <= MaxRequests
    OBVIOUS
  <2>5. \A a \in Agents : Cardinality(Purged(a)) <= MaxRequests
    <3> TAKE a \in Agents
    <3>1. Cardinality(Purged(a)) = 0
      BY <2>2, <2>3, Zenon
    <3> QED
      BY <2>4, <3>1
  <2> QED
    BY <2>1, <2>2, <2>3, <2>5 DEF WindowInv
<1>6. KeyInv
  BY <1>2, <1>3 DEF KeyInv, Used, SingleUse
<1>7. \A c \in Calls : VerdictInv(c)
  BY <1>2, <1>3 DEF VerdictInv, AllEvents, FirstIs, FirstVerdict, Silent, Open
<1> QED
  BY <1>4, <1>5, <1>6, <1>7 DEF RustInv

(* A step of call c that leaves the handshakes alone.                      *)
Row(c) ==
    /\ RustTypes' /\ UNCHANGED <<rateLimits, since>>
    /\ call[c].stage # "start" /\ call'[c].stage # "start"
    /\ \A d \in Calls \ {c} : call'[d] = call[d] /\ run'[d] = run[d] /\ channel'[d] = channel[d]

(* Windows are about rateLimits and since only.                            *)
LEMMA SameWindows ==
  ASSUME WindowInv, UNCHANGED <<rateLimits, since>>
  PROVE  WindowInv'
  BY DEF WindowInv, Purged, Recent

(* A step of a thread or of a reader.                                      *)
Proceeds(c) ==
    /\ UNCHANGED sessions
    /\ run'[c].key = run[c].key /\ run'[c].age = run[c].age /\ (Used(c)' <=> Used(c))
    /\ call'[c].stage \notin {"start", "negotiated"}
    /\ VerdictInv(c)'

LEMMA ProceedStep ==
  ASSUME RustInv, NEW c \in Calls, Row(c), Proceeds(c)
  PROVE  RustInv'
<1> USE DEF Row, Proceeds
<1>1. WindowInv'
  BY SameWindows DEF RustInv
<1>2. \A d \in Calls : /\ run'[d].key = run[d].key /\ run'[d].age = run[d].age
                       /\ (run'[d].stage = "none" <=> run[d].stage = "none")
                       /\ (call[d].stage # "start" => call'[d].stage # "start")
                       /\ (call[d].stage \notin {"start", "negotiated"} => call'[d].stage \notin {"start", "negotiated"})
  BY DEF Used
<1>3. KeyInv'
  BY <1>2 DEF RustInv, KeyInv, Negotiated, Used, SingleUse
<1>4. \A d \in Calls \ {c} : VerdictInv(d)'
  BY DEF RustInv, VerdictInv, Silent, Open
<1> QED
  BY <1>1, <1>3, <1>4 DEF RustInv

LEMMA Rows ==
  ASSUME RustInv, NEW c \in Calls
  PROVE  /\ call[c] \in CallRec /\ run[c] \in RunRec /\ channel[c] \in Seq(Answers)
         /\ call[c].evidence \in Seq(Answers) /\ VerdictInv(c)
         /\ call \in [Calls -> CallRec] /\ run \in [Calls -> RunRec]
         /\ channel \in [Calls -> Seq(Answers)]
  BY DEF RustInv, RustTypes, CallRec

(* The thread's step: it may send an answer, and changes its own record.   *)
LEMMA ThreadStep ==
  ASSUME RustInv, NEW c \in Calls, run[c].stage \in {"running", "completed"},
         NEW r \in RunRec, run' = [run EXCEPT ![c] = r],
         r.key = run[c].key, r.age = run[c].age, r.stage # "none",
         \/ UNCHANGED channel /\ Silent(c)' /\ Silent(c) /\ r.verdict \in {run[c].verdict, "success"}
         \/ /\ \E x \in Answers : Send(c, x) /\ \/ x = "event" /\ Silent(c) /\ r.verdict = run[c].verdict /\ Silent(c)'
                                                \/ x # "event" /\ ~Silent(c)' /\ Silent(c) /\ r.verdict = x
                                                \/ x # "event" /\ ~Silent(c)' /\ ~Silent(c) /\ r.verdict = run[c].verdict,
         r.stage = "running" <=> r.verdict = "none",
         UNCHANGED <<sessions, rateLimits, since, call>>
  PROVE  RustInv'
<1> DEFINE read == call[c].evidence
<1>1. /\ call[c] \in CallRec /\ run[c] \in RunRec /\ channel[c] \in Seq(Answers)
      /\ read \in Seq(Answers) /\ VerdictInv(c) /\ r.verdict \in {"none", "error", "success"}
      /\ r.stage \in {"none", "running", "completed", "ended"}
  BY Rows DEF RunRec
<1>2. run'[c] = r /\ \A d \in Calls \ {c} : run'[d] = run[d]
  BY Rows
<1>3. call[c].stage \notin {"start", "negotiated"} /\ Used(c)
  BY DEF RustInv, KeyInv, Used
<1>4. /\ channel' \in [Calls -> Seq(Answers)]
      /\ \A d \in Calls \ {c} : channel'[d] = channel[d]
  <2>1. \A x \in Answers : Append(channel[c], x) \in Seq(Answers)
    BY <1>1, AppendAnswer
  <2> QED
    BY <2>1, Rows DEF Send
<1>5. Row(c)
  <2>1. RustTypes'
    BY <1>4, Rows DEF RustInv, RustTypes
  <2> QED
    BY <1>2, <1>3, <1>4, <2>1 DEF Row
<1>6. VerdictInv(c)'
  <2>1. call[c].stage # "done"
    BY <1>1 DEF VerdictInv
  <2>2. CASE UNCHANGED channel /\ Silent(c)' /\ Silent(c) /\ r.verdict \in {run[c].verdict, "success"}
    <3>1. AllEvents(read) /\ AllEvents(channel[c])
      BY <1>1, <2>2 DEF VerdictInv
    <3>2. FirstIs(read, r.verdict) /\ FirstIs(channel[c], r.verdict)
      BY <3>1 DEF AllEvents, FirstIs, FirstVerdict
    <3> QED
      BY <1>1, <1>2, <2>1, <2>2, <3>1, <3>2 DEF VerdictInv, Open, Silent
  <2>3. ASSUME NEW x \in Answers, Send(c, x),
               \/ x = "event" /\ Silent(c) /\ r.verdict = run[c].verdict /\ Silent(c)'
               \/ x # "event" /\ ~Silent(c)' /\ Silent(c) /\ r.verdict = x
               \/ x # "event" /\ ~Silent(c)' /\ ~Silent(c) /\ r.verdict = run[c].verdict
        PROVE  VerdictInv(c)'
    <3> DEFINE l == Append(channel[c], x)
    <3>1. /\ AllEvents(l) <=> AllEvents(channel[c]) /\ x = "event"
          /\ \A v \in {"none", "error", "success"} :
               (FirstIs(channel[c], v) /\ (AllEvents(channel[c]) => x \in {"event", v})) => FirstIs(l, v)
      BY <1>1, AppendAnswer
    <3>2. channel'[c] = IF Open(c) THEN l ELSE channel[c]
      BY <2>3, Rows DEF Send
    <3> HIDE DEF l
    <3>3. Silent(c) => /\ AllEvents(read) /\ AllEvents(channel[c])
                       /\ \A v : FirstIs(read, v) /\ FirstIs(channel[c], v)
      BY <1>1 DEF VerdictInv, AllEvents, FirstIs, FirstVerdict
    <3>4. ~Silent(c) => /\ FirstIs(read, run[c].verdict)
                        /\ AllEvents(read) => FirstIs(channel[c], run[c].verdict)
                        /\ (Open(c) /\ AllEvents(read)) => ~AllEvents(channel[c])
      BY <1>1 DEF VerdictInv
    <3>5. FirstIs(read, r.verdict)
      BY <2>3, <3>3, <3>4
    <3>6. AllEvents(read) => FirstIs(channel'[c], r.verdict)
      BY <1>1, <2>3, <3>1, <3>2, <3>3, <3>4
    <3>7. (~Silent(c)' /\ Open(c) /\ AllEvents(read)) => ~AllEvents(channel'[c])
      BY <2>3, <3>1, <3>2
    <3>8. Silent(c)' => AllEvents(read) /\ AllEvents(channel'[c])
      BY <2>3, <3>1, <3>2, <3>3
    <3> QED
      BY <1>1, <1>2, <2>1, <3>5, <3>6, <3>7, <3>8 DEF VerdictInv, Open
  <2> QED
    BY <2>2, <2>3
<1>7. Proceeds(c)
  BY <1>1, <1>2, <1>3, <1>6 DEF Proceeds, Used
<1> QED
  BY <1>5, <1>7, ProceedStep

LEMMA ThreadSteps ==
  ASSUME RustInv, NEW c \in Calls, Thread(c)
  PROVE  RustInv'
<1>1. run[c] \in RunRec /\ VerdictInv(c) /\ "error" \in Answers /\ "success" \in Answers /\ "event" \in Answers
  BY Rows DEF Answers
<1>2. CASE Refuse(c) \/ Trap(c)
  <2> DEFINE r == [run[c] EXCEPT !.stage = "ended", !.verdict = "error"]
  <2>1. /\ run' = [run EXCEPT ![c] = r] /\ Send(c, "error") /\ run[c].stage = "running"
        /\ UNCHANGED <<sessions, rateLimits, since, call>>
    BY <1>2 DEF Refuse, Trap, Finishing, Runs
  <2>2. /\ r \in RunRec /\ r.stage = "ended" /\ r.verdict = "error"
        /\ r.key = run[c].key /\ r.age = run[c].age
    BY <1>1 DEF RunRec
  <2> HIDE DEF r
  <2>3. Silent(c) /\ ~Silent(c)'
    BY <2>1, <2>2, Rows DEF Silent
  <2> QED
    BY <1>1, <2>1, <2>2, <2>3, ThreadStep
<1>3. CASE PushEvent(c)
  <2> DEFINE r == [run[c] EXCEPT !.left = run[c].left - 1]
  <2>1. /\ run' = [run EXCEPT ![c] = r] /\ Send(c, "event") /\ run[c].stage = "running"
        /\ run[c].left > 0 /\ UNCHANGED <<sessions, rateLimits, since, call>>
    BY <1>3 DEF PushEvent, Runs
  <2>2. run[c].left - 1 \in Nat
    BY <1>1, <2>1 DEF RunRec
  <2>3. /\ r \in RunRec /\ r.stage = "running" /\ r.verdict = run[c].verdict
        /\ r.key = run[c].key /\ r.age = run[c].age
    BY <1>1, <2>1, <2>2 DEF RunRec
  <2> HIDE DEF r
  <2>4. Silent(c) /\ Silent(c)' /\ run[c].verdict = "none"
    BY <1>1, <2>1, <2>3, Rows DEF Silent, VerdictInv
  <2> QED
    BY <1>1, <2>1, <2>3, <2>4, ThreadStep
<1>4. CASE Halt(c)
  <2> DEFINE r == [run[c] EXCEPT !.stage = "completed", !.verdict = "error"]
  <2>1. /\ run' = [run EXCEPT ![c] = r] /\ Send(c, "error") /\ run[c].stage = "running"
        /\ UNCHANGED <<sessions, rateLimits, since, call>>
    BY <1>4 DEF Halt, Finishing, Runs
  <2>2. /\ r \in RunRec /\ r.stage = "completed" /\ r.verdict = "error"
        /\ r.key = run[c].key /\ r.age = run[c].age
    BY <1>1 DEF RunRec
  <2> HIDE DEF r
  <2>3. Silent(c) /\ ~Silent(c)'
    BY <2>1, <2>2, Rows DEF Silent
  <2> QED
    BY <1>1, <2>1, <2>2, <2>3, ThreadStep
<1>5. CASE Complete(c)
  <2> DEFINE r == [run[c] EXCEPT !.stage = "completed", !.verdict = "success"]
  <2>1. /\ run' = [run EXCEPT ![c] = r] /\ UNCHANGED channel /\ run[c].stage = "running"
        /\ UNCHANGED <<sessions, rateLimits, since, call>>
    BY <1>5 DEF Complete, Finishing, Runs
  <2>2. /\ r \in RunRec /\ r.stage = "completed" /\ r.verdict = "success"
        /\ r.key = run[c].key /\ r.age = run[c].age
    BY <1>1 DEF RunRec
  <2> HIDE DEF r
  <2>3. Silent(c) /\ Silent(c)'
    BY <2>1, <2>2, Rows DEF Silent
  <2> QED
    BY <1>1, <2>1, <2>2, <2>3, ThreadStep
<1>6. CASE Prove(c)
  <2> DEFINE r == [run[c] EXCEPT !.stage = "ended"]
  <2>1. /\ run' = [run EXCEPT ![c] = r] /\ Send(c, "success") /\ run[c].stage = "completed"
        /\ UNCHANGED <<sessions, rateLimits, since, call>>
    BY <1>6 DEF Prove, Runs
  <2>2. /\ r \in RunRec /\ r.stage = "ended" /\ r.verdict = run[c].verdict
        /\ r.key = run[c].key /\ r.age = run[c].age /\ r.verdict \in {"error", "success"}
    BY <1>1, <2>1 DEF RunRec, VerdictInv
  <2> HIDE DEF r
  <2>3. ~Silent(c)' /\ (Silent(c) <=> r.verdict = "success")
    BY <2>1, <2>2, Rows DEF Silent
  <2> QED
    BY <1>1, <2>1, <2>2, <2>3, ThreadStep
<1> QED
  BY <1>2, <1>3, <1>4, <1>5, <1>6 DEF Thread

(* The client's end: it reads, comes to the end, or leaves.                *)
LEMMA ReaderSteps ==
  ASSUME RustInv, NEW c \in Calls, Reader(c)
  PROVE  RustInv'
<1> DEFINE read == call[c].evidence
<1>1. /\ call[c] \in CallRec /\ run[c] \in RunRec /\ channel[c] \in Seq(Answers)
      /\ read \in Seq(Answers) /\ VerdictInv(c) /\ run[c].verdict \in {"none", "error", "success"}
  BY Rows DEF RunRec
<1>2. /\ call[c].stage = "reading" /\ UNCHANGED <<sessions, rateLimits, since, run>>
  BY DEF Reader, Receive, EndOfStream, Disconnect, Open
<1>3. ASSUME NEW x \in CallRec, NEW s \in Seq(Answers), x.stage \notin {"start", "negotiated"},
             call' = [call EXCEPT ![c] = x], channel' = [channel EXCEPT ![c] = s],
             VerdictInv(c)'
      PROVE  RustInv'
  <2>1. Row(c)
    BY <1>2, <1>3, Rows DEF Row, RustInv, RustTypes
  <2>2. Proceeds(c)
    BY <1>2, <1>3, Rows DEF Proceeds, Used
  <2> QED
    BY <2>1, <2>2, ProceedStep
<1>4. CASE Receive(c)
  <2> DEFINE x == [call[c] EXCEPT !.evidence = Append(read, Head(channel[c]))]
             answer == Head(channel[c])
             rest == Tail(channel[c])
  <2>1. /\ channel[c] # <<>> /\ call' = [call EXCEPT ![c] = x]
        /\ channel' = [channel EXCEPT ![c] = rest]
    BY <1>4 DEF Receive
  <2>2. /\ answer \in Answers /\ rest \in Seq(Answers)
        /\ AllEvents(channel[c]) <=> answer = "event" /\ AllEvents(rest)
        /\ FirstIs(channel[c], run[c].verdict) =>
             /\ answer \in {"event", run[c].verdict}
             /\ answer = "event" => FirstIs(rest, run[c].verdict)
    BY <1>1, <2>1, TakeAnswer
  <2> HIDE DEF answer, rest
  <2>3. /\ Append(read, answer) \in Seq(Answers)
        /\ AllEvents(Append(read, answer)) <=> AllEvents(read) /\ answer = "event"
        /\ (FirstIs(read, run[c].verdict) /\ (AllEvents(read) => answer \in {"event", run[c].verdict}))
           => FirstIs(Append(read, answer), run[c].verdict)
    BY <1>1, <2>2, AppendAnswer
  <2>4. x \in CallRec /\ x.stage = "reading" /\ x.evidence = Append(read, answer)
    BY <1>1, <1>2, <2>3 DEF CallRec, answer
  <2> HIDE DEF x
  <2>5. call'[c] = x /\ channel'[c] = rest /\ run'[c] = run[c]
    BY <1>2, <2>1, Rows
  <2>6. VerdictInv(c)'
    BY <1>1, <1>2, <2>2, <2>3, <2>4, <2>5 DEF VerdictInv, Silent, Open
  <2> QED
    BY <1>3, <2>1, <2>2, <2>4, <2>6
<1>5. CASE EndOfStream(c)
  <2> DEFINE x == [call[c] EXCEPT !.stage = "done"]
  <2>1. /\ channel[c] = <<>> /\ run[c].stage = "ended" /\ call' = [call EXCEPT ![c] = x]
        /\ UNCHANGED channel
    BY <1>5 DEF EndOfStream
  <2>2. x \in CallRec /\ x.stage = "done" /\ x.evidence = read
    BY <1>1 DEF CallRec
  <2> HIDE DEF x
  <2>3. channel' = [channel EXCEPT ![c] = channel[c]] /\ call'[c] = x
    BY <2>1, Rows
  <2>4. ~Silent(c) /\ Open(c) /\ AllEvents(channel[c])
    BY <1>2, <2>1 DEF Silent, Open, AllEvents
  <2>5. VerdictInv(c)'
    BY <1>1, <1>2, <2>1, <2>2, <2>3, <2>4 DEF VerdictInv, Silent, Open
  <2> QED
    BY <1>1, <1>3, <2>1, <2>2, <2>3, <2>5
<1>6. CASE Disconnect(c)
  <2> DEFINE x == [call[c] EXCEPT !.stage = "failed"]
  <2>1. call' = [call EXCEPT ![c] = x] /\ channel' = [channel EXCEPT ![c] = <<>>]
    BY <1>6 DEF Disconnect
  <2>2. x \in CallRec /\ x.stage = "failed" /\ x.evidence = read /\ <<>> \in Seq(Answers)
    BY <1>1 DEF CallRec
  <2> HIDE DEF x
  <2>3. call'[c] = x /\ channel'[c] = <<>> /\ run'[c] = run[c]
    BY <1>2, <2>1, Rows
  <2>4. AllEvents(<<>>) /\ \A v : FirstIs(<<>>, v)
    BY DEF AllEvents, FirstIs
  <2>5. VerdictInv(c)'
    BY <1>1, <2>2, <2>3, <2>4 DEF VerdictInv, Silent, Open
  <2> QED
    BY <1>3, <2>1, <2>2, <2>5
<1> QED
  BY <1>4, <1>5, <1>6 DEF Reader

-----------------------------------------------------------------------------
(* The session goes with the request that names it.  What opens is the     *)
(* key's only use: it was in the table and is nowhere now.                 *)
LEMMA ExecuteStep ==
  ASSUME RustInv, NEW c \in Calls, NEW m \in Modules, ExecuteLogic(c, m)
  PROVE  RustInv'
<1> DEFINE t == call[c].token
<1>1. /\ call[c].stage = "negotiated" /\ UNCHANGED <<rateLimits, since, channel>>
      /\ sessions' = IF Found(c) THEN Without(t) ELSE sessions
      /\ call[c] \in CallRec /\ run[c].stage = "none" /\ VerdictInv(c)
  BY Rows DEF ExecuteLogic, RustInv, KeyInv, Used, RunRec
<1>2. /\ DOMAIN sessions' = IF Found(c) THEN DOMAIN sessions \ {t} ELSE DOMAIN sessions
      /\ \A u \in DOMAIN sessions' : u \in DOMAIN sessions /\ sessions'[u] = sessions[u]
  <2>1. CASE Found(c)
    BY <1>1, <2>1 DEF Without
  <2>2. CASE ~Found(c)
    BY <1>1, <2>2
  <2> QED
    BY <2>1, <2>2
<1>3. WindowInv'
  BY <1>1, SameWindows DEF RustInv
<1>4. \A u \in DOMAIN sessions' : sessions'[u] \in Entry
  BY <1>2 DEF RustInv, RustTypes
<1>5. AllEvents(call[c].evidence) /\ AllEvents(channel[c])
  BY <1>1 DEF VerdictInv, Silent
<1>6. CASE Fits(c)
  <2> DEFINE entry == sessions[t]
             r == [NoRun EXCEPT !.stage = "running", !.left = m.events, !.key = call[c].key, !.age = entry.age]
             x == [call[c] EXCEPT !.stage = "reading", !.module = m]
  <2>1. run' = [run EXCEPT ![c] = r] /\ call' = [call EXCEPT ![c] = x]
    BY <1>6 DEF ExecuteLogic
  <2>2. /\ Found(c) /\ t \in DOMAIN sessions /\ entry \in Entry
        /\ entry.key = call[c].key /\ entry.age <= Ttl
    <3>1. Found(c) /\ t \in DOMAIN sessions /\ ~Expired(entry) /\ entry.key = call[c].key
      BY <1>6 DEF Fits, Found, Opens
    <3>2. entry \in Entry
      BY <3>1 DEF RustInv, RustTypes
    <3> QED
      BY <3>1, <3>2, RustNodeAssumption DEF Expired, Entry
  <2>3. /\ r \in RunRec /\ r.stage = "running" /\ r.verdict = "none" /\ r.key = entry.key /\ r.age = entry.age
    <3>1. m.events \in Nat /\ entry.age \in Nat /\ entry.key \in Calls
      BY <2>2, RustNodeAssumption DEF Entry
    <3> HIDE DEF entry
    <3> QED
      BY <2>2, <3>1 DEF RunRec, NoRun
  <2>4. x \in CallRec /\ x.stage = "reading" /\ x.evidence = call[c].evidence
    BY <1>1 DEF CallRec
  <2> HIDE DEF r, x
  <2>5. /\ run'[c] = r /\ call'[c] = x
        /\ \A d \in Calls \ {c} : run'[d] = run[d] /\ call'[d] = call[d]
    BY <2>1, Rows
  <2>6. RustTypes'
    BY <1>1, <1>4, <2>1, <2>3, <2>4, Rows DEF RustInv, RustTypes
  <2>7. Negotiated(entry.key)
    BY <2>2 DEF RustInv, KeyInv
  <2>8. \A d \in Calls : Used(d) => run[d].key # entry.key
    BY <2>2 DEF RustInv, KeyInv
  <2>9. \A u \in DOMAIN sessions' : sessions'[u].key # entry.key
    BY <1>2, <2>2 DEF RustInv, KeyInv
  <2> HIDE DEF entry, t
  <2>10. KeyInv'
    <3>1. \A k : Negotiated(k) => Negotiated(k)'
      BY <2>4, <2>5 DEF Negotiated
    <3>2. \A u \in DOMAIN sessions' : Negotiated(sessions[u].key)'
      BY <1>2, <3>1 DEF RustInv, KeyInv
    <3>3. \A u, v \in DOMAIN sessions' : sessions'[u].key = sessions'[v].key => u = v
      BY <1>2 DEF RustInv, KeyInv
    <3>4. ASSUME NEW d \in Calls, Used(d)'
          PROVE  /\ call'[d].stage \notin {"start", "negotiated"}
                 /\ Negotiated(run[d].key)' /\ run'[d].age <= Ttl
                 /\ \A u \in DOMAIN sessions' : sessions'[u].key # run'[d].key
                 /\ \A e \in Calls \ {d} : Used(e)' => run'[e].key # run'[d].key
      <4>1. CASE d = c
        <5>1. run'[d].key = entry.key /\ run'[d].age = entry.age
          BY <2>3, <2>5, <4>1
        <5>2. Negotiated(run[d].key)'
          BY <2>7, <3>1, <5>1 DEF Negotiated
        <5>3. \A e \in Calls \ {d} : Used(e)' => Used(e) /\ run'[e] = run[e]
          BY <2>5, <4>1 DEF Used
        <5> QED
          BY <2>2, <2>4, <2>5, <2>8, <2>9, <4>1, <5>1, <5>2, <5>3
      <4>2. CASE d # c
        <5>1. Used(d) /\ run'[d] = run[d] /\ call'[d] = call[d]
          BY <2>5, <3>4, <4>2 DEF Used
        <5>2. /\ call[d].stage \notin {"start", "negotiated"} /\ Negotiated(run[d].key) /\ run[d].age <= Ttl
              /\ \A u \in DOMAIN sessions : sessions[u].key # run[d].key
              /\ \A e \in Calls \ {d} : Used(e) => run[e].key # run[d].key
          BY <5>1 DEF RustInv, KeyInv, SingleUse, Used
        <5>3. Negotiated(run[d].key)'
          BY <3>1, <5>1, <5>2 DEF Negotiated
        <5>4. \A e \in Calls \ {d} : Used(e)' => run'[e].key # run'[d].key
          BY <2>3, <2>5, <2>8, <5>1, <5>2 DEF Used
        <5> QED
          BY <1>2, <5>1, <5>2, <5>3, <5>4
      <4> QED
        BY <4>1, <4>2
    <3> QED
      BY <3>2, <3>3, <3>4 DEF KeyInv, SingleUse, Used
  <2>11. ASSUME NEW d \in Calls
         PROVE  VerdictInv(d)'
    <3>1. CASE d = c
      <4>1. \A s, v : AllEvents(s) => FirstIs(s, v)
        BY DEF AllEvents, FirstIs, FirstVerdict
      <4> QED
        BY <1>1, <1>5, <2>3, <2>4, <2>5, <3>1, <4>1 DEF VerdictInv, Silent, Open
    <3>2. CASE d # c
      BY <1>1, <2>5, <3>2 DEF RustInv, VerdictInv, Silent, Open
    <3> QED
      BY <3>1, <3>2
  <2> QED
    BY <1>3, <2>6, <2>10, <2>11 DEF RustInv
<1>7. CASE ~Fits(c)
  <2> DEFINE x == [call[c] EXCEPT !.stage = "failed"]
  <2>1. run' = run /\ call' = [call EXCEPT ![c] = x]
    BY <1>7 DEF ExecuteLogic
  <2>2. x \in CallRec /\ x.stage = "failed" /\ x.evidence = call[c].evidence
    BY <1>1 DEF CallRec
  <2> HIDE DEF x
  <2>3. call'[c] = x /\ \A d \in Calls \ {c} : call'[d] = call[d]
    BY <2>1, Rows
  <2>4. RustTypes'
    BY <1>1, <1>4, <2>1, <2>2, Rows DEF RustInv, RustTypes
  <2>5. KeyInv'
    <3>1. \A k : Negotiated(k) => Negotiated(k)'
      BY <2>2, <2>3 DEF Negotiated
    <3>2. \A d \in Calls : Used(d) => d # c
      BY <1>1 DEF Used
    <3> QED
      BY <1>2, <2>1, <2>3, <3>1, <3>2 DEF RustInv, KeyInv, Used, SingleUse
  <2>6. \A d \in Calls : VerdictInv(d)'
    BY <1>1, <2>1, <2>2, <2>3 DEF RustInv, VerdictInv, Silent, Open
  <2> QED
    BY <1>3, <2>4, <2>5, <2>6 DEF RustInv
<1> QED
  BY <1>6, <1>7

-----------------------------------------------------------------------------
(* A call begins: its request is accepted, refused, or takes the answer of *)
(* another.                                                                *)
LEMMA BeginStep ==
  ASSUME RustInv, NEW c \in Calls, call[c].stage = "start", UNCHANGED <<run, channel>>,
         NEW x \in CallRec, x.stage \in {"negotiated", "failed"}, x.evidence = call[c].evidence,
         call' = [call EXCEPT ![c] = x]
  PROVE  /\ call' \in [Calls -> CallRec] /\ call'[c] = x /\ \A d \in Calls \ {c} : call'[d] = call[d]
         /\ \A k : Negotiated(k) => Negotiated(k)'
         /\ \A d \in Calls : Used(d) => d # c
         /\ \A d \in Calls : VerdictInv(d)'
<1>1. /\ call' \in [Calls -> CallRec] /\ call'[c] = x /\ \A d \in Calls \ {c} : call'[d] = call[d]
  BY Rows
<1>2. \A k : Negotiated(k) => Negotiated(k)'
  BY <1>1 DEF Negotiated
<1>3. \A d \in Calls : Used(d) => d # c
  BY DEF RustInv, KeyInv, Used
<1>4. \A d \in Calls : VerdictInv(d)'
  <2> TAKE d \in Calls
  <2>1. VerdictInv(d)
    BY DEF RustInv
  <2>2. CASE d = c
    BY <1>1, <2>1, <2>2 DEF VerdictInv, Silent, Open
  <2>3. CASE d # c
    BY <1>1, <2>1, <2>3 DEF VerdictInv, Silent, Open
  <2> QED
    BY <2>2, <2>3
<1> QED
  BY <1>1, <1>2, <1>3, <1>4

(* Keys stay where they are while calls go on.                             *)
LEMMA SameKeys ==
  ASSUME RustInv, NEW c \in Calls, call[c].stage = "start", UNCHANGED run,
         \A d \in Calls \ {c} : call'[d] = call[d],
         \A k : Negotiated(k) => Negotiated(k)',
         DOMAIN sessions' = DOMAIN sessions, \A t \in DOMAIN sessions : sessions'[t].key = sessions[t].key
  PROVE  KeyInv'
<1>1. \A d \in Calls : Used(d) => d # c /\ call'[d] = call[d]
  BY DEF RustInv, KeyInv, Used
<1>2. \A d \in Calls : Used(d)' <=> Used(d)
  BY DEF Used
<1>3. \A t \in DOMAIN sessions' : Negotiated(sessions[t].key)'
  BY DEF RustInv, KeyInv, Negotiated
<1>4. \A d \in Calls : Used(d)' => Negotiated(run[d].key)'
  BY <1>2 DEF RustInv, KeyInv, Negotiated
<1>5. SingleUse'
  BY DEF RustInv, KeyInv, SingleUse
<1> QED
  BY <1>1, <1>2, <1>3, <1>4, <1>5 DEF RustInv, KeyInv

LEMMA ResendStep ==
  ASSUME RustInv, NEW c \in Calls, NEW d \in Calls, Resend(c, d)
  PROVE  RustInv'
<1> DEFINE x == [call[c] EXCEPT !.stage = "negotiated", !.token = call[d].token, !.key = call[d].key]
<1>1. /\ call[c].stage = "start" /\ call' = [call EXCEPT ![c] = x]
      /\ UNCHANGED <<sessions, rateLimits, since, run, channel>>
  BY DEF Resend
<1>2. x \in CallRec /\ x.stage = "negotiated" /\ x.evidence = call[c].evidence
  <2>1. call[c] \in CallRec /\ call[d] \in CallRec
    BY Rows
  <2> QED
    BY <2>1 DEF CallRec
<1> HIDE DEF x
<1>3. /\ call' \in [Calls -> CallRec] /\ \A e \in Calls \ {c} : call'[e] = call[e]
      /\ \A k : Negotiated(k) => Negotiated(k)'
      /\ \A e \in Calls : VerdictInv(e)'
  BY <1>1, <1>2, BeginStep
<1>4. RustTypes'
  BY <1>1, <1>3 DEF RustInv, RustTypes
<1>5. WindowInv'
  BY <1>1, SameWindows DEF RustInv
<1>6. KeyInv'
  BY <1>1, <1>3, SameKeys
<1> QED
  BY <1>3, <1>4, <1>5, <1>6 DEF RustInv

(* The queue of an agent, purged.                                          *)
LEMMA Queues ==
  ASSUME RustInv, NEW a \in Agents
  PROVE  /\ rateLimits[a] \subseteq Calls /\ IsFiniteSet(rateLimits[a])
         /\ Purged(a) \subseteq rateLimits[a] /\ IsFiniteSet(Purged(a))
         /\ Cardinality(Purged(a)) \in Nat /\ Cardinality(Purged(a)) <= MaxRequests
         /\ \A c \in rateLimits[a] : AgentOf[c] = a
         /\ \A c \in Calls : (AgentOf[c] = a /\ Recent(c)) => c \in Purged(a)
<1>1. rateLimits[a] \subseteq Calls
  BY DEF RustInv, RustTypes
<1>2. /\ IsFiniteSet(rateLimits[a]) /\ Cardinality(Purged(a)) <= MaxRequests
      /\ \A c \in rateLimits[a] : AgentOf[c] = a
      /\ \A c \in Calls : (AgentOf[c] = a /\ Recent(c)) => c \in rateLimits[a]
  BY DEF RustInv, WindowInv
<1>3. Purged(a) \subseteq rateLimits[a]
  BY DEF Purged
<1>4. IsFiniteSet(Purged(a)) /\ Cardinality(Purged(a)) \in Nat
  BY <1>2, <1>3, FS_Subset, FS_CardinalityType
<1>5. \A c \in Calls : (AgentOf[c] = a /\ Recent(c)) => c \in Purged(a)
  BY <1>2 DEF Purged
<1> QED
  BY <1>1, <1>2, <1>3, <1>4, <1>5

LEMMA RefusedStep ==
  ASSUME RustInv, NEW c \in Calls, NEW t \in Tokens, NegotiateIntent(c, t),
         Cardinality(Purged(AgentOf[c])) >= MaxRequests
  PROVE  RustInv'
<1> DEFINE a == AgentOf[c]
           x == [call[c] EXCEPT !.stage = "failed"]
<1>1. /\ call[c].stage = "start" /\ call' = [call EXCEPT ![c] = x]
      /\ rateLimits' = [rateLimits EXCEPT ![a] = Purged(a)]
      /\ UNCHANGED <<sessions, since, run, channel>>
  BY DEF NegotiateIntent
<1>2. x \in CallRec /\ x.stage = "failed" /\ x.evidence = call[c].evidence
  BY Rows DEF CallRec
<1> HIDE DEF x
<1>3. /\ call' \in [Calls -> CallRec] /\ \A e \in Calls \ {c} : call'[e] = call[e]
      /\ \A k : Negotiated(k) => Negotiated(k)'
      /\ \A e \in Calls : VerdictInv(e)'
  BY <1>1, <1>2, BeginStep
<1>4. a \in Agents
  BY DEF Agents
<1> HIDE DEF a
<1>5. /\ rateLimits' \in [Agents -> SUBSET Calls] /\ rateLimits'[a] = Purged(a)
      /\ \A b \in Agents \ {a} : rateLimits'[b] = rateLimits[b]
  BY <1>1, <1>4, Queues DEF RustInv, RustTypes
<1>6. RustTypes'
  BY <1>1, <1>3, <1>5 DEF RustInv, RustTypes
<1>7. WindowInv'
  <2>1. \A e : Recent(e)' <=> Recent(e)
    BY <1>1 DEF Recent
  <2> SUFFICES ASSUME NEW b \in Agents
               PROVE  /\ \A e \in rateLimits'[b] : AgentOf[e] = b
                      /\ \A e \in Calls : (AgentOf[e] = b /\ Recent(e)') => e \in rateLimits'[b]
                      /\ IsFiniteSet(rateLimits'[b]) /\ Cardinality(Purged(b)') <= MaxRequests
    BY DEF WindowInv
  <2>2. Purged(b)' = Purged(b)
    <3>1. CASE b = a
      BY <1>5, <2>1, <3>1 DEF Purged
    <3>2. CASE b # a
      BY <1>5, <2>1, <3>2 DEF Purged
    <3> QED
      BY <3>1, <3>2
  <2>3. rateLimits'[b] \in {Purged(b), rateLimits[b]}
    BY <1>5
  <2>4. /\ Purged(b) \subseteq rateLimits[b] /\ IsFiniteSet(rateLimits[b]) /\ IsFiniteSet(Purged(b))
        /\ Cardinality(Purged(b)) <= MaxRequests
        /\ \A e \in rateLimits[b] : AgentOf[e] = b
        /\ \A e \in Calls : (AgentOf[e] = b /\ Recent(e)) => e \in Purged(b)
    BY Queues
  <2>5. Cardinality(Purged(b)') <= MaxRequests
    BY <2>2, <2>4, Zenon
  <2>6. IsFiniteSet(rateLimits'[b])
    BY <2>3, <2>4, Zenon
  <2>7. \A e \in Calls : (AgentOf[e] = b /\ Recent(e)') => e \in rateLimits'[b]
    BY <2>1, <2>3, <2>4
  <2> QED
    BY <2>3, <2>4, <2>5, <2>6, <2>7
<1>8. KeyInv'
  BY <1>1, <1>3, SameKeys
<1> QED
  BY <1>3, <1>6, <1>7, <1>8 DEF RustInv

(* An accepted handshake is one more recent one, and its key is new.       *)
LEMMA AcceptedStep ==
  ASSUME RustInv, NEW c \in Calls, NEW t \in Tokens, NegotiateIntent(c, t),
         ~(Cardinality(Purged(AgentOf[c])) >= MaxRequests)
  PROVE  RustInv'
<1> DEFINE a == AgentOf[c]
           x == [call[c] EXCEPT !.stage = "negotiated", !.token = t, !.key = c]
           live == {u \in DOMAIN sessions : ~Expired(sessions[u])}
           fresh == [key |-> c, age |-> 0]
<1>1. /\ call[c].stage = "start" /\ call' = [call EXCEPT ![c] = x]
      /\ rateLimits' = [rateLimits EXCEPT ![a] = Purged(a) \cup {c}]
      /\ since' = [since EXCEPT ![c] = 0] /\ sessions' = Enter(t, c)
      /\ UNCHANGED <<run, channel>>
  BY DEF NegotiateIntent
<1>2. x \in CallRec /\ x.stage = "negotiated" /\ x.evidence = call[c].evidence
  BY Rows DEF CallRec
<1> HIDE DEF x
<1>3. /\ call' \in [Calls -> CallRec] /\ call'[c] = x /\ \A e \in Calls \ {c} : call'[e] = call[e]
      /\ \A k : Negotiated(k) => Negotiated(k)'
      /\ \A e \in Calls : Used(e) => e # c
      /\ \A e \in Calls : VerdictInv(e)'
  BY <1>1, <1>2, BeginStep
<1>4. a \in Agents /\ rateLimits \in [Agents -> SUBSET Calls] /\ since \in [Calls -> Nat]
  BY DEF Agents, RustInv, RustTypes
<1>5. /\ DOMAIN sessions' = live \cup {t} /\ sessions'[t] = fresh
      /\ \A u \in live : u # t => sessions'[u] = sessions[u]
  BY <1>1 DEF Enter
<1>6. fresh \in Entry /\ fresh.key = c
  BY DEF Entry
<1> HIDE DEF fresh, live
<1>7. \A u \in DOMAIN sessions' : u = t \/ (u \in DOMAIN sessions /\ sessions'[u] = sessions[u])
  BY <1>5 DEF live
<1>8. RustTypes'
  <2>1. \A u \in DOMAIN sessions' : sessions'[u] \in Entry
    BY <1>5, <1>6, <1>7 DEF RustInv, RustTypes
  <2>2. rateLimits' \in [Agents -> SUBSET Calls] /\ since' \in [Calls -> Nat]
    BY <1>1, <1>4, Queues
  <2> QED
    BY <1>1, <1>3, <2>1, <2>2 DEF RustInv, RustTypes
<1>9. WindowInv'
  <2>1. since'[c] = 0 /\ \A e \in Calls \ {c} : since'[e] = since[e]
    BY <1>1, <1>4
  <2>2. /\ \A e \in Calls \ {c} : Recent(e)' <=> Recent(e)
        /\ Recent(c)'
    BY <2>1, RustNodeAssumption DEF Recent
  <2>3. /\ rateLimits'[a] = Purged(a) \cup {c}
        /\ \A b \in Agents \ {a} : rateLimits'[b] = rateLimits[b]
    BY <1>1, <1>4
  <2> SUFFICES ASSUME NEW b \in Agents
               PROVE  /\ \A e \in rateLimits'[b] : AgentOf[e] = b
                      /\ \A e \in Calls : (AgentOf[e] = b /\ Recent(e)') => e \in rateLimits'[b]
                      /\ IsFiniteSet(rateLimits'[b]) /\ Cardinality(Purged(b)') <= MaxRequests
    BY DEF WindowInv
  <2>4. /\ rateLimits[b] \subseteq Calls /\ IsFiniteSet(rateLimits[b])
        /\ Purged(b) \subseteq rateLimits[b] /\ IsFiniteSet(Purged(b))
        /\ Cardinality(Purged(b)) \in Nat /\ Cardinality(Purged(b)) <= MaxRequests
        /\ \A e \in rateLimits[b] : AgentOf[e] = b
        /\ \A e \in Calls : (AgentOf[e] = b /\ Recent(e)) => e \in Purged(b)
    BY Queues
  <2>5. CASE b = a
    <3>1. Purged(b)' = Purged(b) \cup {c}
      <4>1. Purged(b)' = {e \in Purged(b) \cup {c} : Recent(e)'}
        BY <2>3, <2>5 DEF Purged
      <4>2. \A e \in Purged(b) : e \in Calls /\ Recent(e)
        BY <2>4 DEF Purged
      <4> QED
        BY <2>2, <4>1, <4>2
    <3>2. /\ IsFiniteSet(Purged(b) \cup {c})
          /\ Cardinality(Purged(b) \cup {c}) =
               IF c \in Purged(b) THEN Cardinality(Purged(b)) ELSE Cardinality(Purged(b)) + 1
      BY <2>4, FS_AddElement
    <3>3. Cardinality(Purged(b)) + 1 <= MaxRequests
      BY <2>4, <2>5, RustNodeAssumption
    <3>4. Cardinality(Purged(b) \cup {c}) <= MaxRequests
      BY <2>4, <3>2, <3>3
    <3>5. Cardinality(Purged(b)') <= MaxRequests
      BY <3>1, <3>4, Zenon
    <3>6. rateLimits'[b] = Purged(b) \cup {c}
      BY <2>3, <2>5
    <3>7. \A e \in Calls : (AgentOf[e] = b /\ Recent(e)') => e \in Purged(b) \cup {c}
      BY <2>2, <2>4
    <3> QED
      BY <2>4, <2>5, <3>2, <3>5, <3>6, <3>7
  <2>6. CASE b # a
    <3>1. rateLimits'[b] = rateLimits[b]
      BY <2>3, <2>6
    <3>2. \A e \in Calls : AgentOf[e] = b => e # c
      BY <2>6
    <3>3. Purged(b)' = Purged(b)
      BY <2>2, <2>4, <3>1, <3>2 DEF Purged
    <3>4. Cardinality(Purged(b)') <= MaxRequests
      BY <2>4, <3>3, Zenon
    <3> QED
      BY <2>2, <2>4, <3>1, <3>2, <3>4
  <2> QED
    BY <2>5, <2>6
<1>10. KeyInv'
  <2>1. /\ \A u \in DOMAIN sessions : sessions[u].key # c
        /\ \A e \in Calls : Used(e) => run[e].key # c
    BY <1>1 DEF RustInv, KeyInv, Negotiated
  <2>2. Negotiated(c)'
    BY <1>2, <1>3 DEF Negotiated
  <2>3. \A u \in DOMAIN sessions' : Negotiated(sessions[u].key)'
    <3> TAKE u \in DOMAIN sessions'
    <3>1. CASE u = t
      BY <1>5, <1>6, <2>2, <3>1 DEF Negotiated
    <3>2. CASE u # t
      <4>1. u \in DOMAIN sessions /\ sessions'[u] = sessions[u]
        BY <1>7, <3>2
      <4>2. Negotiated(sessions[u].key)
        BY <4>1 DEF RustInv, KeyInv
      <4> QED
        BY <1>3, <4>1, <4>2 DEF Negotiated
    <3> QED
      BY <3>1, <3>2
  <2>4. \A u, v \in DOMAIN sessions' : sessions'[u].key = sessions'[v].key => u = v
    BY <1>5, <1>6, <1>7, <2>1 DEF RustInv, KeyInv
  <2>5. ASSUME NEW e \in Calls, Used(e)
        PROVE  /\ call'[e].stage \notin {"start", "negotiated"} /\ Negotiated(run[e].key)' /\ run[e].age <= Ttl
               /\ \A u \in DOMAIN sessions' : sessions'[u].key # run[e].key
    <3>1. /\ call'[e] = call[e] /\ call[e].stage \notin {"start", "negotiated"}
          /\ Negotiated(run[e].key) /\ run[e].age <= Ttl
          /\ \A u \in DOMAIN sessions : sessions[u].key # run[e].key
      BY <1>3, <2>5 DEF RustInv, KeyInv
    <3>2. Negotiated(run[e].key)'
      BY <1>1, <1>3, <3>1 DEF Negotiated
    <3> QED
      BY <1>5, <1>6, <1>7, <2>1, <2>5, <3>1, <3>2
  <2>6. \A e \in Calls : Used(e)' <=> Used(e)
    BY <1>1 DEF Used
  <2>7. SingleUse'
    BY <1>1 DEF RustInv, KeyInv, SingleUse
  <2> QED
    BY <1>1, <2>3, <2>4, <2>5, <2>6, <2>7 DEF KeyInv
<1> QED
  BY <1>3, <1>8, <1>9, <1>10 DEF RustInv

(* Time passes, and handshakes leave the window.                           *)
LEMMA TickStep ==
  ASSUME RustInv, Tick
  PROVE  RustInv'
<1>1. /\ sessions' = [t \in DOMAIN sessions |-> [sessions[t] EXCEPT !.age = Older(sessions[t].age, Ttl)]]
      /\ since' = [c \in Calls |-> Older(since[c], Window)]
      /\ UNCHANGED <<rateLimits, call, run, channel>>
  BY DEF Tick
<1>2. \A n \in Nat, limit \in Nat : Older(n, limit) \in Nat /\ (Older(n, limit) <= limit => n <= limit)
  BY DEF Older
<1>3. Ttl \in Nat /\ Window \in Nat /\ MaxRequests \in Nat
  BY RustNodeAssumption
<1>4. /\ DOMAIN sessions' = DOMAIN sessions
      /\ \A t \in DOMAIN sessions : sessions'[t] \in Entry /\ sessions'[t].key = sessions[t].key
  <2>1. ASSUME NEW t \in DOMAIN sessions
        PROVE  sessions'[t] \in Entry /\ sessions'[t].key = sessions[t].key
    <3>1. sessions[t] \in Entry
      BY DEF RustInv, RustTypes
    <3>2. Older(sessions[t].age, Ttl) \in Nat
      BY <1>2, <1>3, <3>1 DEF Entry
    <3> QED
      BY <1>1, <3>1, <3>2 DEF Entry
  <2> QED
    BY <1>1, <2>1
<1>5. since' \in [Calls -> Nat] /\ \A c \in Calls : Recent(c)' => Recent(c)
  BY <1>1, <1>2, <1>3 DEF RustInv, RustTypes, Recent
<1>6. RustTypes'
  BY <1>1, <1>4, <1>5 DEF RustInv, RustTypes
<1>7. WindowInv'
  <2> SUFFICES ASSUME NEW b \in Agents
               PROVE  /\ \A e \in rateLimits'[b] : AgentOf[e] = b
                      /\ \A e \in Calls : (AgentOf[e] = b /\ Recent(e)') => e \in rateLimits'[b]
                      /\ IsFiniteSet(rateLimits'[b]) /\ Cardinality(Purged(b)') <= MaxRequests
    BY DEF WindowInv
  <2>1. /\ rateLimits[b] \subseteq Calls /\ IsFiniteSet(rateLimits[b])
        /\ Purged(b) \subseteq rateLimits[b] /\ IsFiniteSet(Purged(b))
        /\ Cardinality(Purged(b)) \in Nat /\ Cardinality(Purged(b)) <= MaxRequests
        /\ \A e \in rateLimits[b] : AgentOf[e] = b
        /\ \A e \in Calls : (AgentOf[e] = b /\ Recent(e)) => e \in Purged(b)
    BY Queues
  <2>2. Purged(b)' \subseteq Purged(b)
    BY <1>1, <1>5, <2>1 DEF Purged
  <2>3. Cardinality(Purged(b)') <= Cardinality(Purged(b)) /\ Cardinality(Purged(b)') \in Nat
    BY <2>1, <2>2, FS_Subset, FS_CardinalityType
  <2>4. Cardinality(Purged(b)') <= MaxRequests
    BY <1>3, <2>1, <2>3
  <2> QED
    BY <1>1, <1>5, <2>1, <2>4
<1>8. KeyInv'
  BY <1>1, <1>4 DEF RustInv, KeyInv, Negotiated, Used, SingleUse
<1>9. \A d \in Calls : VerdictInv(d)'
  BY <1>1 DEF RustInv, VerdictInv, Silent, Open
<1> QED
  BY <1>6, <1>7, <1>8, <1>9 DEF RustInv

LEMMA StutterStep ==
  ASSUME RustInv, UNCHANGED rustVars
  PROVE  RustInv'
<1> USE DEF rustVars
<1>1. RustTypes'
  BY DEF RustInv, RustTypes
<1>2. WindowInv'
  BY SameWindows DEF RustInv
<1>3. KeyInv'
  BY DEF RustInv, KeyInv, Negotiated, Used, SingleUse
<1>4. \A d \in Calls : VerdictInv(d)'
  BY DEF RustInv, VerdictInv, Silent, Open
<1> QED
  BY <1>1, <1>2, <1>3, <1>4 DEF RustInv

LEMMA NextRustInv ==
  ASSUME RustInv, [RustNext]_rustVars
  PROVE  RustInv'
<1>1. ASSUME NEW c \in Calls, NEW t \in Tokens, NegotiateIntent(c, t)
      PROVE  RustInv'
  BY <1>1, RefusedStep, AcceptedStep
<1>2. CASE RustNext
  BY <1>1, <1>2, ResendStep, ExecuteStep, ThreadSteps, ReaderSteps, TickStep DEF RustNext
<1>3. CASE UNCHANGED rustVars
  BY <1>3, StutterStep
<1> QED
  BY <1>2, <1>3

LEMMA RustInvHolds == RustSpec => []RustInv
<1>1. RustInit => RustInv
  BY InitRustInv
<1>2. RustInv /\ [RustNext]_rustVars => RustInv'
  BY NextRustInv
<1> QED
  BY <1>1, <1>2, PTL DEF RustSpec

(* However many calls, agents and tokens there are, a handshake serves one *)
(* execution within its lifetime, and no agent has more than MaxRequests   *)
(* of them accepted within a window (negotiate_intent, execute_logic).     *)
THEOREM SessionsAreLimitedHolds == RustSpec => []SessionsAreLimited
<1>1. ASSUME RustInv
      PROVE  SlidingWindow
  <2> SUFFICES ASSUME NEW a \in Agents
               PROVE  Cardinality({c \in Calls : AgentOf[c] = a /\ Recent(c)}) <= MaxRequests
    BY DEF SlidingWindow
  <2>1. /\ Purged(a) \subseteq rateLimits[a] /\ Cardinality(Purged(a)) <= MaxRequests
        /\ rateLimits[a] \subseteq Calls /\ \A c \in rateLimits[a] : AgentOf[c] = a
        /\ \A c \in Calls : (AgentOf[c] = a /\ Recent(c)) => c \in Purged(a)
    BY <1>1, Queues
  <2>2. \A c \in Purged(a) : Recent(c)
    BY DEF Purged
  <2>3. {c \in Calls : AgentOf[c] = a /\ Recent(c)} = Purged(a)
    BY <2>1, <2>2
  <2> QED
    BY <2>1, <2>3, Zenon
<1>2. RustInv => SessionsAreLimited
  BY <1>1 DEF SessionsAreLimited, RustInv, KeyInv
<1> QED
  BY <1>2, RustInvHolds, PTL

(* Whatever module is injected and whenever the client reads or leaves,    *)
(* the first verdict it reads is what became of the run, and a stream that *)
(* ends has one (execute_sandboxed_logic, execute_logic).                  *)
THEOREM FirstVerdictIsTrueHolds == RustSpec => []FirstVerdictIsTrue
<1>1. ASSUME RustInv, NEW c \in Calls
      PROVE  LET read == call[c].evidence
             IN /\ \A i \in DOMAIN read : FirstVerdict(read, i) => read[i] = run[c].verdict
                /\ call[c].stage = "done" => \E i \in DOMAIN read : FirstVerdict(read, i)
  <2>1. call[c].evidence \in Seq(Answers) /\ VerdictInv(c)
    BY <1>1, Rows
  <2>2. call[c].stage = "done" => \E i \in DOMAIN call[c].evidence : FirstVerdict(call[c].evidence, i)
    BY <2>1, SomeVerdict DEF VerdictInv
  <2> QED
    BY <2>1, <2>2 DEF VerdictInv, FirstIs
<1>2. RustInv => FirstVerdictIsTrue
  BY <1>1 DEF FirstVerdictIsTrue
<1> QED
  BY <1>2, RustInvHolds, PTL
=============================================================================
