--------------------------- MODULE Setup_proofs ----------------------------
(***************************************************************************)
(* Proofs about Setup, for any number of loadings and of messages: the     *)
(* link of a node that was ready in time works, and what programs that use *)
(* it only while it is up are promised.                                    *)
(***************************************************************************)
EXTENDS Setup, FiniteSetTheorems, TLAPS

-----------------------------------------------------------------------------
(* The inductive invariant *)

Labels == {"unloaded", "register", "export", "zero", "flag", "aperture", "asleep",
           "connect", "wait", "map", "interrupt", "ready", "cleanup",
           "oops send_queue", "oops unregister", "oops stack", "oops skb"}
Things == {"hooks", "proto", "sockets", "segment", "number", "aperture"}

SetupType ==
    /\ pc \in [Nodes -> Labels]
    /\ have \in [Nodes -> SUBSET Things]
    /\ segment \in [Nodes -> {"ring", "aperture"}]
    /\ sem \in [Nodes -> Nat]
    /\ asked \in [Nodes -> BOOLEAN]
    /\ err \in [Nodes -> BOOLEAN]
    /\ loads \in [Nodes -> Nat]
    /\ mapped \in [Nodes -> Nat]
    /\ rih \in [Nodes -> Nat \cup {Wrong}]
    /\ ring \in [Nodes -> Nat]
    /\ irq \in [Nodes -> BOOLEAN]
    /\ sends \in Nat
    /\ stalled \in [Nodes -> BOOLEAN]
    /\ late \in [Nodes -> BOOLEAN]
    /\ misused \in BOOLEAN
    /\ erased \in BOOLEAN

\* What a node offers is offered in order, and behind the sleep all of it is.
OffersInOrder(n) ==
    /\ "aperture" \in have[n] => "number" \in have[n]
    /\ "number" \in have[n] => "segment" \in have[n]
    /\ pc[n] \in {"unloaded", "register"} => have[n] = {}
    /\ pc[n] \in {"zero", "flag"} => "segment" \in have[n]
    /\ pc[n] = "aperture" => "number" \in have[n]
    /\ pc[n] \in {"asleep"} \cup Connecting => "aperture" \in have[n]
    /\ pc[n] # "unloaded" => loads[n] > 0
    /\ irq[n] => pc[n] # "unloaded"

\* The semaphore is taken while the callback is due, and else free.
SemaphoreFree(n) ==
    pc[n] \notin {"cleanup"} \cup Oops =>
        /\ asked[n] => pc[n] = "wait" /\ sem[n] = 0
        /\ ~asked[n] => sem[n] = 1

\* The ring is connected first, the aperture when its interrupt is.
RingFirst(n) ==
    /\ pc[n] = "ready" => segment[n] = "aperture"
    /\ pc[n] \in {"map", "interrupt"} => segment[n] = "ring"
    /\ pc[n] \in Labels \ (Connecting \cup {"cleanup"} \cup Oops) => segment[n] = "ring"

\* A node that connects in time goes by the loading it found when it woke: the other
\* node is in that loading until it is removed, and has not been loaded again.
InTime(n) ==
    pc[n] \in Connecting /\ ~late[n] =>
        /\ "aperture" \in have[Peer(n)] \/ pc[Peer(n)] = "unloaded"
        /\ pc[n] = "interrupt" \/ segment[n] = "aperture" => mapped[n] = loads[Peer(n)]
        /\ segment[n] = "aperture" /\ "number" \in have[Peer(n)] => rih[n] = loads[Peer(n)]

\* Only a node that was ready has messages in its ring, and their interrupt is due
\* unless a trigger failed or a message was refused.
ProperUse(n) ==
    ~misused =>
        /\ pc[n] # "oops send_queue" /\ ~erased
        /\ ring[n] > 0 => pc[n] \in {"ready", "cleanup"} \cup Oops
        /\ ring[n] > 0 => irq[n] \/ stalled[n]

NodeInv(n) == OffersInOrder(n) /\ SemaphoreFree(n) /\ RingFirst(n)

SetupInv ==
    /\ SetupType
    /\ \A n \in Nodes : NodeInv(n)
    /\ \A n \in Nodes : InTime(n)
    /\ \A n \in Nodes : ProperUse(n)

-----------------------------------------------------------------------------
(* The other node *)

LEMMA TwoNodes == \E a, b : a # b /\ Nodes = {a, b}
<1>1. Nodes # {}
  BY NodesAssumption, FS_EmptySet
<1>2. PICK a : a \in Nodes
  BY <1>1
<1>3. IsFiniteSet(Nodes \ {a}) /\ Cardinality(Nodes \ {a}) = 1
  BY <1>2, NodesAssumption, FS_RemoveElement
<1>4. PICK b : Nodes \ {a} = {b}
  BY <1>3, FS_Singleton
<1> QED
  BY <1>2, <1>4

LEMMA PeerNode ==
    ASSUME NEW n \in Nodes
    PROVE  /\ Peer(n) \in Nodes /\ Peer(n) # n /\ Peer(Peer(n)) = n
           /\ \A m \in Nodes : m = n \/ m = Peer(n)
<1>1. PICK a, b : a # b /\ Nodes = {a, b}
  BY TwoNodes
<1>2. Peer(a) = b /\ Peer(b) = a
  BY <1>1 DEF Peer
<1> QED
  BY <1>1, <1>2

-----------------------------------------------------------------------------
(* Its steps *)

LEMMA InitSetup == Init => SetupInv
<1> SUFFICES ASSUME Init PROVE SetupInv
  OBVIOUS
<1>1. SetupType
  BY DEF Init, SetupType, Labels, Things
<1>2. ASSUME NEW n \in Nodes PROVE NodeInv(n) /\ InTime(n) /\ ProperUse(n)
  <2>1. NodeInv(n)
    BY DEF Init, NodeInv, OffersInOrder, SemaphoreFree, RingFirst, Connecting
  <2>2. InTime(n)
    BY DEF Init, InTime, Connecting
  <2>3. ProperUse(n)
    BY DEF Init, ProperUse
  <2> QED
    BY <2>1, <2>2, <2>3
<1> QED
  BY <1>1, <1>2 DEF SetupInv

\* A step of n that leaves what the other node offers, and its own messages, alone.
LEMMA LocalStep ==
    ASSUME SetupInv, NEW n \in Nodes, NEW q \in Nodes, q = Peer(n),
           SetupType', NodeInv(n)', InTime(n)',
           pc'[q] = pc[q], have'[q] = have[q], segment'[q] = segment[q], sem'[q] = sem[q],
           asked'[q] = asked[q], late'[q] = late[q], mapped'[q] = mapped[q],
           rih'[q] = rih[q], loads' = loads,
           UNCHANGED <<ring, irq, stalled, misused, erased>>,
           "aperture" \in have[n] => "aperture" \in have'[n] /\ "number" \in have[n],
           pc[n] # "unloaded",
           pc'[n] # "oops send_queue" \/ pc[n] = "oops send_queue",
           pc[n] \in {"ready", "cleanup"} \cup Oops => pc'[n] \in {"ready", "cleanup"} \cup Oops
    PROVE  SetupInv'
<1>0. q # n /\ Peer(q) = n /\ \A m \in Nodes : m = n \/ m = q
  BY PeerNode
<1>1. NodeInv(q)'
  <2>1. irq' = irq
    OBVIOUS
  <2>2. irq[q] => pc[q] # "unloaded"
    BY DEF SetupInv, NodeInv, OffersInOrder
  <2>3. irq'[q] => pc'[q] # "unloaded"
    BY <2>1, <2>2
  <2> QED
    BY <1>0, <2>3 DEF SetupInv, NodeInv, OffersInOrder, SemaphoreFree, RingFirst
<1>2. InTime(q)'
  BY <1>0 DEF SetupInv, InTime
<1>3. ProperUse(n)' /\ ProperUse(q)'
  BY <1>0 DEF SetupInv, ProperUse, Oops
<1> QED
  BY <1>0, <1>1, <1>2, <1>3 DEF SetupInv

\* Every error, and rmmod.
LEMMA ToCleanUp ==
    ASSUME SetupInv, NEW n \in Nodes, pc[n] \in Labels \ ({"unloaded", "register"} \cup Oops),
           pc' = [pc EXCEPT ![n] = "cleanup"],
           sem' \in [Nodes -> Nat], sem'[Peer(n)] = sem[Peer(n)], err' \in [Nodes -> BOOLEAN],
           UNCHANGED <<have, segment, asked, loads, late, linkVars, msgVars>>
    PROVE  SetupInv'
<1> DEFINE q == Peer(n)
<1>0. q \in Nodes /\ q # n /\ Peer(q) = n
  BY PeerNode
<1>1. SetupType'
  BY DEF SetupInv, SetupType, Labels, linkVars, msgVars
<1>2. pc'[n] = "cleanup" /\ pc'[q] = pc[q]
  BY <1>0 DEF SetupInv, SetupType
<1>3. NodeInv(n)'
  BY <1>2 DEF SetupInv, NodeInv, OffersInOrder, SemaphoreFree, RingFirst, Connecting, Oops
<1>4. InTime(n)'
  BY <1>2 DEF InTime, Connecting
<1>5. "aperture" \in have[n] => "number" \in have[n]
  BY DEF SetupInv, NodeInv, OffersInOrder
<1> HIDE DEF q
<1> QED
  BY <1>0, <1>1, <1>2, <1>3, <1>4, <1>5, LocalStep DEF q, Oops, linkVars, msgVars

\* The semaphore of a node that is being loaded.
LEMMA SemaphoreIs ==
    ASSUME SetupInv, NEW n \in Nodes,
           pc[n] \notin {"cleanup", "oops send_queue", "oops unregister", "oops stack", "oops skb"}
    PROVE  /\ asked[n] => sem[n] = 0 /\ pc[n] = "wait"
           /\ ~asked[n] => sem[n] = 1
<1>1. pc[n] \notin {"cleanup"} \cup Oops
  BY DEF Oops
<1>2. SemaphoreFree(n)
  BY DEF SetupInv, NodeInv
<1> QED
  BY <1>1, <1>2 DEF SemaphoreFree

LEMMA TimeOutSetup == ASSUME SetupInv, NEW n \in Nodes, TimeOut(n) PROVE SetupInv'
  BY ToCleanUp DEF TimeOut, Goto, SetupInv, SetupType, Labels, Oops

LEMMA RemoveSetup == ASSUME SetupInv, NEW n \in Nodes, Remove(n) PROVE SetupInv'
  BY ToCleanUp DEF Remove, Goto, SetupInv, SetupType, Labels, Oops

\* Registering leaves a node without an offer.
LEMMA RegisterSetup == ASSUME SetupInv, NEW n \in Nodes, Register(n) PROVE SetupInv'
<1> DEFINE q == Peer(n)
<1>0. q \in Nodes /\ q # n /\ Peer(q) = n
  BY PeerNode
<1>1. PICK H \in SUBSET {"hooks", "proto", "sockets"} : have' = [have EXCEPT ![n] = H]
  <2>1. PICK done \in {{"proto", "sockets"}} \cup IF MayFail THEN {{}, {"proto"}} ELSE {} :
            have' = [have EXCEPT ![n] = {"hooks"} \cup done]
    BY DEF Register
  <2>2. done \in SUBSET {"proto", "sockets"}
    OBVIOUS
  <2> WITNESS {"hooks"} \cup done \in SUBSET {"hooks", "proto", "sockets"}
  <2> QED
    BY <2>1
<1>2. /\ pc[n] = "register" /\ pc' = [pc EXCEPT ![n] = "export"]
      /\ UNCHANGED <<segment, sem, asked, err, loads, late, linkVars, msgVars>>
  BY DEF Register, Goto
<1>3. SetupType'
  <2>1. have' \in [Nodes -> SUBSET Things]
    BY <1>1 DEF SetupInv, SetupType, Things
  <2> QED
    BY <1>2, <2>1 DEF SetupInv, SetupType, Labels, linkVars, msgVars
<1>4. /\ pc'[n] = "export" /\ pc'[q] = pc[q] /\ have'[n] = H /\ have'[q] = have[q]
      /\ have[n] = {}
  BY <1>0, <1>1, <1>2 DEF SetupInv, SetupType, NodeInv, OffersInOrder
<1>5. NodeInv(n)'
  BY <1>2, <1>4 DEF SetupInv, NodeInv, OffersInOrder, SemaphoreFree, RingFirst, Connecting, Oops, Labels
<1>6. InTime(n)'
  BY <1>4 DEF InTime, Connecting
<1> HIDE DEF q
<1> QED
  BY <1>0, <1>2, <1>3, <1>4, <1>5, <1>6, LocalStep DEF q, Oops, linkVars, msgVars

\* One more thing is offered.
LEMMA OfferSetup ==
    ASSUME SetupInv, NEW n \in Nodes, NEW label, NEW thing, NEW next, Offer(n, label, thing, next),
           \/ label = "export" /\ thing = "segment" /\ next = "zero"
           \/ label = "flag" /\ thing = "number" /\ next = "aperture"
           \/ label = "aperture" /\ thing = "aperture" /\ next = "asleep"
    PROVE  SetupInv'
<1> DEFINE q == Peer(n)
<1>0. q \in Nodes /\ q # n /\ Peer(q) = n
  BY PeerNode
<1>1. CASE have' = [have EXCEPT ![n] = @ \cup {thing}] /\ pc' = [pc EXCEPT ![n] = next]
  <2>1. pc[n] = label /\ UNCHANGED <<segment, sem, asked, err, loads, late, linkVars, msgVars>>
    BY DEF Offer
  <2>2. SetupType'
    <3>1. have' \in [Nodes -> SUBSET Things]
      BY <1>1 DEF SetupInv, SetupType, Things
    <3>2. pc' \in [Nodes -> Labels]
      BY <1>1 DEF SetupInv, SetupType, Labels
    <3> QED
      BY <2>1, <3>1, <3>2 DEF SetupInv, SetupType, linkVars, msgVars
  <2>3. /\ pc'[n] = next /\ pc'[q] = pc[q] /\ have'[q] = have[q]
        /\ have'[n] = have[n] \cup {thing}
    BY <1>0, <1>1 DEF SetupInv, SetupType
  <2>4. NodeInv(n)'
    <3>1. OffersInOrder(n)'
      BY <2>1, <2>3 DEF SetupInv, NodeInv, OffersInOrder, Connecting
    <3>2. SemaphoreFree(n)' /\ RingFirst(n)'
      BY <2>1, <2>3 DEF SetupInv, NodeInv, SemaphoreFree, RingFirst, Connecting, Oops, Labels
    <3> QED
      BY <3>1, <3>2 DEF NodeInv
  <2>5. InTime(n)'
    BY <2>3 DEF InTime, Connecting
  <2>6. "aperture" \in have[n] => "number" \in have[n]
    BY DEF SetupInv, NodeInv, OffersInOrder
  <2> HIDE DEF q
  <2> QED
    BY <1>0, <2>1, <2>2, <2>3, <2>4, <2>5, <2>6, LocalStep DEF q, Oops, linkVars, msgVars
<1>2. CASE Fails(n) /\ UNCHANGED have
  BY <1>2, ToCleanUp DEF Offer, Fails, Goto, SetupInv, SetupType, Labels, Oops
<1> QED
  BY <1>1, <1>2 DEF Offer, Goto

LEMMA ExportRingSetup == ASSUME SetupInv, NEW n \in Nodes, ExportRing(n) PROVE SetupInv'
  BY OfferSetup DEF ExportRing

LEMMA PublishNumberSetup == ASSUME SetupInv, NEW n \in Nodes, PublishNumber(n) PROVE SetupInv'
  BY OfferSetup DEF PublishNumber

LEMMA OfferApertureSetup == ASSUME SetupInv, NEW n \in Nodes, OfferAperture(n) PROVE SetupInv'
  BY OfferSetup DEF OfferAperture

\* The sleep of n is over in time exactly when the other node offers everything.
LEMMA WakeSetup == ASSUME SetupInv, NEW n \in Nodes, Wake(n) PROVE SetupInv'
<1> DEFINE q == Peer(n)
<1>0. q \in Nodes /\ q # n /\ Peer(q) = n
  BY PeerNode
<1>1. /\ pc[n] = "asleep" /\ pc' = [pc EXCEPT ![n] = "connect"]
      /\ late' = [late EXCEPT ![n] = "aperture" \notin have[q]]
      /\ UNCHANGED <<have, segment, sem, asked, err, loads, linkVars, msgVars>>
  BY DEF Wake, Goto
<1>2. SetupType'
  <2>1. ("aperture" \notin have[q]) \in BOOLEAN
    OBVIOUS
  <2> QED
    BY <1>1, <2>1 DEF SetupInv, SetupType, Labels, linkVars, msgVars
<1>3. /\ pc'[n] = "connect" /\ pc'[q] = pc[q] /\ late'[q] = late[q]
      /\ late'[n] = ("aperture" \notin have[q])
  BY <1>0, <1>1 DEF SetupInv, SetupType
<1>4. NodeInv(n)' /\ segment[n] = "ring"
  BY <1>1, <1>3 DEF SetupInv, NodeInv, OffersInOrder, SemaphoreFree, RingFirst, Connecting, Oops, Labels
<1>5. InTime(n)'
  BY <1>0, <1>1, <1>3, <1>4 DEF InTime, Connecting
<1>6. "aperture" \in have[n] => "number" \in have[n]
  BY DEF SetupInv, NodeInv, OffersInOrder
<1> HIDE DEF q
<1> QED
  BY <1>0, <1>1, <1>2, <1>3, <1>4, <1>5, <1>6, LocalStep DEF q, Oops, linkVars, msgVars

\* The semaphore is taken for the callback.
LEMMA ConnectSetup == ASSUME SetupInv, NEW n \in Nodes, Connect(n) PROVE SetupInv'
<1> DEFINE q == Peer(n)
<1>0. q \in Nodes /\ q # n /\ Peer(q) = n
  BY PeerNode
<1>1. /\ pc[n] = "connect" /\ sem[n] > 0
      /\ sem' = [sem EXCEPT ![n] = @ - 1] /\ err' = [err EXCEPT ![n] = FALSE]
      /\ UNCHANGED <<have, segment, loads, late, linkVars, msgVars>>
  BY DEF Connect
<1>2. /\ sem' \in [Nodes -> Nat] /\ err' \in [Nodes -> BOOLEAN]
      /\ sem'[n] = sem[n] - 1 /\ sem'[q] = sem[q]
  BY <1>0, <1>1 DEF SetupInv, SetupType
<1>3. CASE asked' = [asked EXCEPT ![n] = TRUE] /\ pc' = [pc EXCEPT ![n] = "wait"]
  <2>1. SetupType'
    BY <1>1, <1>2, <1>3 DEF SetupInv, SetupType, Labels, linkVars, msgVars
  <2>2. /\ pc'[n] = "wait" /\ pc'[q] = pc[q] /\ asked'[n] = TRUE /\ asked'[q] = asked[q]
    BY <1>0, <1>3 DEF SetupInv, SetupType
  <2>3. NodeInv(n)'
    <3>1. sem'[n] = 0
      <4>1. pc[n] \notin {"cleanup", "oops send_queue", "oops unregister", "oops stack", "oops skb"}
        BY <1>1
      <4>2. (asked[n] => sem[n] = 0) /\ (~asked[n] => sem[n] = 1)
        BY <4>1, SemaphoreIs
      <4>3. sem[n] = 1
        BY <1>1, <4>2
      <4> QED
        BY <1>2, <4>3
    <3>2. OffersInOrder(n)' /\ RingFirst(n)'
      BY <1>1, <2>2 DEF SetupInv, NodeInv, OffersInOrder, RingFirst, Connecting, Oops, Labels
    <3>3. SemaphoreFree(n)'
      BY <2>2, <3>1 DEF SemaphoreFree
    <3> QED
      BY <3>2, <3>3 DEF NodeInv
  <2>4. InTime(n)'
    BY <1>0, <1>1, <2>2 DEF SetupInv, InTime, Connecting, linkVars
  <2>5. "aperture" \in have[n] => "number" \in have[n]
    BY DEF SetupInv, NodeInv, OffersInOrder
  <2> HIDE DEF q
  <2> QED
    BY <1>0, <1>1, <1>2, <2>1, <2>2, <2>3, <2>4, <2>5, LocalStep DEF q, Oops, linkVars, msgVars
<1>4. CASE Fails(n) /\ UNCHANGED asked
  BY <1>1, <1>2, <1>4, ToCleanUp DEF Fails, Goto, Labels, Oops
<1> QED
  BY <1>3, <1>4 DEF Connect, Goto

\* The callback gives the semaphore back.
LEMMA CallbackSetup == ASSUME SetupInv, NEW n \in Nodes, Callback(n) PROVE SetupInv'
<1> DEFINE q == Peer(n)
<1>0. q \in Nodes /\ q # n /\ Peer(q) = n
  BY PeerNode
<1>1. /\ asked[n] /\ pc[n] \notin Oops
      /\ asked' = [asked EXCEPT ![n] = FALSE] /\ sem' = [sem EXCEPT ![n] = @ + 1]
      /\ UNCHANGED <<have, segment, loads, late, linkVars, msgVars>>
  BY DEF Callback, Alive
<1>2. /\ asked' \in [Nodes -> BOOLEAN] /\ asked'[n] = FALSE /\ asked'[q] = asked[q]
      /\ sem' \in [Nodes -> Nat] /\ sem'[n] = sem[n] + 1 /\ sem'[q] = sem[q]
  BY <1>0, <1>1 DEF SetupInv, SetupType
<1>3. pc[n] \in {"wait", "cleanup"}
  BY <1>1 DEF SetupInv, NodeInv, SemaphoreFree
<1>4. /\ err' \in [Nodes -> BOOLEAN] /\ pc' \in [Nodes -> Labels] /\ pc'[q] = pc[q]
      /\ pc[n] = "wait" => pc'[n] = "wait"
      /\ pc[n] = "cleanup" => pc'[n] \in {"cleanup", "oops stack"}
  BY <1>0, <1>3 DEF Callback, SetupInv, SetupType, Goto, Labels
<1>5. SetupType'
  BY <1>1, <1>2, <1>4 DEF SetupInv, SetupType, linkVars, msgVars
<1>6. NodeInv(n)'
  <2>1. CASE pc[n] = "wait" /\ pc'[n] = "wait"
    <3>1. sem'[n] = 1
      <4>1. pc[n] \notin {"cleanup", "oops send_queue", "oops unregister", "oops stack", "oops skb"}
        BY <2>1
      <4>2. asked[n] => sem[n] = 0
        BY <4>1, SemaphoreIs
      <4>3. sem[n] = 0
        BY <1>1, <4>2
      <4> QED
        BY <1>2, <4>3
    <3>2. OffersInOrder(n)' /\ RingFirst(n)'
      BY <1>1, <2>1 DEF SetupInv, NodeInv, OffersInOrder, RingFirst, Connecting, Oops
    <3>3. SemaphoreFree(n)'
      BY <1>2, <3>1 DEF SemaphoreFree
    <3> QED
      BY <3>2, <3>3 DEF NodeInv
  <2>2. CASE pc[n] = "cleanup" /\ pc'[n] \in {"cleanup", "oops stack"}
    BY <1>1, <2>2 DEF SetupInv, NodeInv, OffersInOrder, SemaphoreFree, RingFirst, Connecting, Oops
  <2> QED
    BY <1>3, <1>4, <2>1, <2>2
<1>7. InTime(n)'
  BY <1>0, <1>1, <1>3, <1>4 DEF SetupInv, InTime, Connecting, linkVars
<1>8. "aperture" \in have[n] => "number" \in have[n]
  BY DEF SetupInv, NodeInv, OffersInOrder
<1> HIDE DEF q
<1> QED
  BY <1>0, <1>1, <1>2, <1>3, <1>4, <1>5, <1>6, <1>7, <1>8, LocalStep DEF q, Oops, linkVars, msgVars

\* The wait has ended with the callback.
LEMMA ConnectedSetup == ASSUME SetupInv, NEW n \in Nodes, Connected(n) PROVE SetupInv'
<1> DEFINE q == Peer(n)
<1>0. q \in Nodes /\ q # n /\ Peer(q) = n
  BY PeerNode
<1>1. /\ pc[n] = "wait" /\ sem[n] > 0 /\ err' = [err EXCEPT ![n] = FALSE]
      /\ UNCHANGED <<have, segment, asked, loads, late, linkVars, msgVars>>
  BY DEF Connected
<1>2. err' \in [Nodes -> BOOLEAN]
  BY <1>1 DEF SetupInv, SetupType
<1>3. ~asked[n] /\ sem[n] = 1
  <2>1. pc[n] \notin {"cleanup", "oops send_queue", "oops unregister", "oops stack", "oops skb"}
    BY <1>1
  <2>2. (asked[n] => sem[n] = 0) /\ (~asked[n] => sem[n] = 1)
    BY <2>1, SemaphoreIs
  <2>3. sem[n] # 0
    BY <1>1
  <2> QED
    BY <2>2, <2>3
<1>4. CASE sem' = [sem EXCEPT ![n] = @ - 1] /\ pc' = [pc EXCEPT ![n] = "cleanup"]
  <2>1. sem' \in [Nodes -> Nat] /\ sem'[q] = sem[q]
    BY <1>0, <1>3, <1>4 DEF SetupInv, SetupType
  <2> QED
    BY <1>1, <1>2, <1>4, <2>1, ToCleanUp DEF Labels, Oops
<1>5. CASE pc' = [pc EXCEPT ![n] = IF segment[n] = "ring" THEN "map" ELSE "ready"] /\ sem' = sem
  <2>1. SetupType'
    BY <1>1, <1>2, <1>5 DEF SetupInv, SetupType, Labels, linkVars, msgVars
  <2>2. /\ segment[n] = "ring" => pc'[n] = "map"
        /\ segment[n] # "ring" => segment[n] = "aperture" /\ pc'[n] = "ready"
        /\ pc'[q] = pc[q]
    BY <1>0, <1>5 DEF SetupInv, SetupType
  <2>3. NodeInv(n)'
    <3>1. OffersInOrder(n)'
      BY <1>1, <2>2 DEF SetupInv, NodeInv, OffersInOrder, Connecting
    <3>2. SemaphoreFree(n)' /\ RingFirst(n)'
      BY <1>1, <1>3, <1>5, <2>2 DEF SemaphoreFree, RingFirst, Connecting, Oops
    <3> QED
      BY <3>1, <3>2 DEF NodeInv
  <2>4. InTime(n)'
    BY <1>0, <1>1, <2>2 DEF SetupInv, InTime, Connecting, linkVars
  <2>5. "aperture" \in have[n] => "number" \in have[n]
    BY DEF SetupInv, NodeInv, OffersInOrder
  <2> HIDE DEF q
  <2> QED
    BY <1>0, <1>1, <1>5, <2>1, <2>2, <2>3, <2>4, <2>5, LocalStep DEF q, Oops, linkVars, msgVars
<1> QED
  BY <1>4, <1>5 DEF Connected, Goto

\* The ring that is mapped is that of the present loading.
LEMMA MapSetup == ASSUME SetupInv, NEW n \in Nodes, Map(n) PROVE SetupInv'
<1> DEFINE q == Peer(n)
<1>0. q \in Nodes /\ q # n /\ Peer(q) = n
  BY PeerNode
<1>1. /\ pc[n] = "map"
      /\ UNCHANGED <<have, segment, sem, asked, err, loads, late, rih, msgVars>>
  BY DEF Map
<1>2. CASE mapped' = [mapped EXCEPT ![n] = loads[q]] /\ pc' = [pc EXCEPT ![n] = "interrupt"]
  <2>1. SetupType'
    BY <1>0, <1>1, <1>2 DEF SetupInv, SetupType, Labels, msgVars
  <2>2. /\ pc'[n] = "interrupt" /\ pc'[q] = pc[q]
        /\ mapped'[n] = loads[q] /\ mapped'[q] = mapped[q]
    BY <1>0, <1>2 DEF SetupInv, SetupType
  <2>3. NodeInv(n)' /\ segment[n] = "ring"
    BY <1>1, <2>2 DEF SetupInv, NodeInv, OffersInOrder, SemaphoreFree, RingFirst, Connecting, Oops
  <2>4. InTime(n)'
    BY <1>0, <1>1, <2>2, <2>3 DEF SetupInv, InTime, Connecting
  <2>5. "aperture" \in have[n] => "number" \in have[n]
    BY DEF SetupInv, NodeInv, OffersInOrder
  <2> HIDE DEF q
  <2> QED
    BY <1>0, <1>1, <2>1, <2>2, <2>3, <2>4, <2>5, LocalStep DEF q, Oops, msgVars
<1>3. CASE Fails(n) /\ UNCHANGED mapped
  BY <1>1, <1>3, ToCleanUp DEF Fails, Goto, Labels, Oops, linkVars, SetupInv, SetupType
<1> QED
  BY <1>2, <1>3 DEF Map, Goto

\* The interrupt is that of the ring, as long as the other node has not been removed.
LEMMA ConnectInterruptSetup == ASSUME SetupInv, NEW n \in Nodes, ConnectInterrupt(n) PROVE SetupInv'
<1> DEFINE q == Peer(n)
<1>0. q \in Nodes /\ q # n /\ Peer(q) = n
  BY PeerNode
<1>1. /\ pc[n] = "interrupt"
      /\ UNCHANGED <<have, sem, asked, err, loads, late, mapped, msgVars>>
  BY DEF ConnectInterrupt
<1>2. CASE /\ rih' = [rih EXCEPT ![n] = IF Numbered(n) THEN mapped[n] ELSE Wrong]
           /\ segment' = [segment EXCEPT ![n] = "aperture"]
           /\ pc' = [pc EXCEPT ![n] = "connect"]
  <2>1. SetupType'
    <3>1. rih' \in [Nodes -> Nat \cup {Wrong}]
      BY <1>2 DEF SetupInv, SetupType
    <3> QED
      BY <1>1, <1>2, <3>1 DEF SetupInv, SetupType, Labels, msgVars
  <2>2. /\ pc'[n] = "connect" /\ pc'[q] = pc[q] /\ rih'[q] = rih[q]
        /\ segment'[n] = "aperture" /\ segment'[q] = segment[q]
        /\ Numbered(n) => rih'[n] = mapped[n]
    BY <1>0, <1>2 DEF SetupInv, SetupType
  <2>3. NodeInv(n)'
    BY <1>1, <2>2 DEF SetupInv, NodeInv, OffersInOrder, SemaphoreFree, RingFirst, Connecting, Oops, Labels
  <2>4. ~late[n] => mapped[n] = loads[q]
    BY <1>1 DEF SetupInv, InTime, Connecting
  <2>5. ~late[n] /\ "number" \in have[q] => Numbered(n)
    BY <1>0, <2>4 DEF SetupInv, NodeInv, OffersInOrder, Numbered, Live
  <2>6. InTime(n)'
    BY <1>0, <1>1, <2>2, <2>4, <2>5 DEF SetupInv, InTime, Connecting
  <2>7. "aperture" \in have[n] => "number" \in have[n]
    BY DEF SetupInv, NodeInv, OffersInOrder
  <2> HIDE DEF q
  <2> QED
    BY <1>0, <1>1, <2>1, <2>2, <2>3, <2>6, <2>7, LocalStep DEF q, Oops, msgVars
<1>3. CASE Fails(n) /\ UNCHANGED <<rih, segment>>
  BY <1>1, <1>3, ToCleanUp DEF Fails, Goto, Labels, Oops, linkVars, SetupInv, SetupType
<1> QED
  BY <1>2, <1>3 DEF ConnectInterrupt, Goto

\* Loading a node again makes the other one late.
LEMMA LoadSetup == ASSUME SetupInv, NEW n \in Nodes, Load(n) PROVE SetupInv'
<1> DEFINE q == Peer(n)
<1>0. q \in Nodes /\ q # n /\ Peer(q) = n /\ \A m \in Nodes : m = n \/ m = q
  BY PeerNode
<1>1. /\ pc[n] = "unloaded" /\ pc' = [pc EXCEPT ![n] = "register"]
      /\ loads' = [loads EXCEPT ![n] = @ + 1]
      /\ UNCHANGED <<have, segment, sem, asked, err, linkVars, msgVars>>
  BY DEF Load, Goto
<1>2. late' \in [Nodes -> BOOLEAN] /\ (pc[q] \in Connecting => late'[q] = TRUE)
  <2> DEFINE again == late[q] \/ pc[q] \in Connecting
  <2>1. late' = [late EXCEPT ![q] = again]
    BY DEF Load
  <2>2. again \in BOOLEAN /\ (pc[q] \in Connecting => again = TRUE)
    OBVIOUS
  <2> HIDE DEF again
  <2> QED
    BY <1>0, <2>1, <2>2 DEF SetupInv, SetupType
<1>9. SetupType'
  <2>1. loads' \in [Nodes -> Nat]
    BY <1>1 DEF SetupInv, SetupType
  <2>2. pc' \in [Nodes -> Labels]
    BY <1>1 DEF SetupInv, SetupType, Labels
  <2> QED
    BY <1>1, <1>2, <2>1, <2>2 DEF SetupInv, SetupType, linkVars, msgVars
<1>3. /\ pc'[n] = "register" /\ pc'[q] = pc[q] /\ loads'[n] > 0 /\ loads'[q] = loads[q]
      /\ pc[q] \in Connecting => late'[q]
  BY <1>0, <1>1, <1>2 DEF SetupInv, SetupType
<1>4. NodeInv(n)'
  BY <1>1, <1>3 DEF SetupInv, NodeInv, OffersInOrder, SemaphoreFree, RingFirst, Connecting, Oops, Labels
<1>5. NodeInv(q)'
  BY <1>0, <1>1, <1>3 DEF SetupInv, NodeInv, OffersInOrder, SemaphoreFree, RingFirst, msgVars
<1>6. InTime(n)'
  BY <1>3 DEF InTime, Connecting
<1>7. InTime(q)'
  BY <1>3 DEF InTime
<1>8. ProperUse(n)' /\ ProperUse(q)'
  BY <1>0, <1>1, <1>3 DEF SetupInv, ProperUse, Oops, msgVars
<1> HIDE DEF q
<1> QED
  BY <1>0, <1>9, <1>4, <1>5, <1>6, <1>7, <1>8 DEF SetupInv

\* The indices are set to zero in a ring that nobody has written to.
LEMMA ZeroIndicesSetup == ASSUME SetupInv, NEW n \in Nodes, ZeroIndices(n) PROVE SetupInv'
<1> DEFINE q == Peer(n)
<1>0. q \in Nodes /\ q # n /\ Peer(q) = n /\ \A m \in Nodes : m = n \/ m = q
  BY PeerNode
<1>1. /\ pc[n] = "zero" /\ pc' = [pc EXCEPT ![n] = "flag"]
      /\ ring' = [ring EXCEPT ![n] = 0] /\ erased' = (erased \/ ring[n] > 0)
      /\ stalled' = [stalled EXCEPT ![n] = FALSE]
      /\ UNCHANGED <<have, segment, sem, asked, err, loads, late, linkVars, irq, sends, misused>>
  BY DEF ZeroIndices, Goto
<1>2. SetupType'
  <2>1. erased' \in BOOLEAN
    BY <1>1
  <2> QED
    BY <1>1, <2>1 DEF SetupInv, SetupType, Labels, linkVars
<1>3. /\ pc'[n] = "flag" /\ pc'[q] = pc[q] /\ ring'[n] = 0 /\ ~(ring'[n] > 0)
      /\ ring'[q] = ring[q] /\ stalled'[q] = stalled[q]
  BY <1>0, <1>1 DEF SetupInv, SetupType
<1>4. NodeInv(n)'
  BY <1>1, <1>3 DEF SetupInv, NodeInv, OffersInOrder, SemaphoreFree, RingFirst, Connecting, Oops, Labels
<1>5. NodeInv(q)'
  BY <1>0, <1>1, <1>3 DEF SetupInv, NodeInv, OffersInOrder, SemaphoreFree, RingFirst
<1>6. InTime(n)'
  BY <1>3 DEF InTime, Connecting
<1>7. InTime(q)'
  BY <1>0, <1>1, <1>3 DEF SetupInv, InTime, linkVars
<1>8. ProperUse(n)' /\ ProperUse(q)'
  <2>1. ProperUse(n) /\ ProperUse(q)
    BY <1>0 DEF SetupInv
  <2>2. ~misused => ~(ring[n] > 0) /\ ~erased
    BY <1>1, <2>1 DEF ProperUse, Oops
  <2>3. ProperUse(n)'
    BY <1>1, <1>3, <2>2 DEF ProperUse
  <2>4. ProperUse(q)'
    BY <1>1, <1>3, <2>1, <2>2 DEF ProperUse, Oops
  <2> QED
    BY <2>3, <2>4
<1> HIDE DEF q
<1> QED
  BY <1>0, <1>2, <1>4, <1>5, <1>6, <1>7, <1>8 DEF SetupInv

\* Nothing of a loading is left behind, or the kernel of the node has stopped.
LEMMA CleanUpSetup == ASSUME SetupInv, NEW n \in Nodes, CleanUp(n) PROVE SetupInv'
<1> DEFINE q == Peer(n)
<1>0. q \in Nodes /\ q # n /\ Peer(q) = n /\ \A m \in Nodes : m = n \/ m = q
  BY PeerNode
<1>1. /\ pc[n] = "cleanup" /\ UNCHANGED <<err, loads, sends, misused, erased>>
  BY DEF CleanUp
<1>2. CASE /\ pc' = [pc EXCEPT ![n] = "oops unregister"]
           /\ UNCHANGED <<have, segment, sem, asked, late, linkVars, ring, irq, stalled>>
  <2>1. SetupType'
    BY <1>1, <1>2 DEF SetupInv, SetupType, Labels, linkVars
  <2>2. pc'[n] = "oops unregister" /\ pc'[q] = pc[q]
    BY <1>0, <1>2 DEF SetupInv, SetupType
  <2>3. NodeInv(n)'
    BY <1>1, <1>2, <2>2 DEF SetupInv, NodeInv, OffersInOrder, SemaphoreFree, RingFirst, Connecting, Oops
  <2>4. InTime(n)'
    BY <2>2 DEF InTime, Connecting
  <2>5. "aperture" \in have[n] => "number" \in have[n]
    BY DEF SetupInv, NodeInv, OffersInOrder
  <2> HIDE DEF q
  <2> QED
    BY <1>0, <1>1, <1>2, <2>1, <2>2, <2>3, <2>4, <2>5, LocalStep DEF q, Oops, linkVars
<1>3. CASE /\ have' = [have EXCEPT ![n] = {}]
           /\ asked' = [asked EXCEPT ![n] = FALSE]
           /\ segment' = [segment EXCEPT ![n] = "ring"]
           /\ sem' = [sem EXCEPT ![n] = 1]
           /\ late' = [late EXCEPT ![n] = FALSE]
           /\ mapped' = [mapped EXCEPT ![n] = 0]
           /\ rih' = [rih EXCEPT ![n] = 0]
           /\ ring' = [ring EXCEPT ![n] = 0]
           /\ irq' = [irq EXCEPT ![n] = FALSE]
           /\ stalled' = [stalled EXCEPT ![n] = FALSE]
           /\ pc' = [pc EXCEPT ![n] = "unloaded"]
  <2>1. SetupType'
    BY <1>1, <1>3 DEF SetupInv, SetupType, Labels
  <2>2. /\ pc'[n] = "unloaded" /\ have'[n] = {} /\ asked'[n] = FALSE /\ segment'[n] = "ring"
        /\ sem'[n] = 1 /\ ring'[n] = 0 /\ ~(ring'[n] > 0)
        /\ pc'[q] = pc[q] /\ have'[q] = have[q] /\ asked'[q] = asked[q]
        /\ segment'[q] = segment[q] /\ sem'[q] = sem[q] /\ ring'[q] = ring[q]
        /\ late'[q] = late[q] /\ mapped'[q] = mapped[q] /\ rih'[q] = rih[q]
        /\ irq'[n] = FALSE /\ irq'[q] = irq[q] /\ stalled'[q] = stalled[q]
    BY <1>0, <1>3 DEF SetupInv, SetupType
  <2>3. NodeInv(n)'
    BY <1>1, <2>2 DEF SetupInv, NodeInv, OffersInOrder, SemaphoreFree, RingFirst, Connecting, Oops, Labels
  <2>4. NodeInv(q)'
    BY <1>0, <1>1, <2>2 DEF SetupInv, NodeInv, OffersInOrder, SemaphoreFree, RingFirst
  <2>5. InTime(n)'
    BY <2>2 DEF InTime, Connecting
  <2>6. InTime(q)'
    BY <1>0, <1>1, <2>2 DEF SetupInv, InTime
  <2>7. ProperUse(n)' /\ ProperUse(q)'
    <3>1. ProperUse(n) /\ ProperUse(q)
      BY <1>0 DEF SetupInv
    <3>2. ProperUse(n)'
      BY <1>1, <2>2, <3>1 DEF ProperUse
    <3>3. ProperUse(q)'
      BY <1>1, <2>2, <3>1 DEF ProperUse
    <3> QED
      BY <3>2, <3>3
  <2> HIDE DEF q
  <2> QED
    BY <1>0, <2>1, <2>3, <2>4, <2>5, <2>6, <2>7 DEF SetupInv
<1> QED
  BY <1>2, <1>3 DEF CleanUp, Goto

\* Proper use is use of a link that works on both nodes.
LEMMA LinkUpWorks ==
    ASSUME SetupInv, LinkUp, NEW n \in Nodes, NEW q \in Nodes, q = Peer(n)
    PROVE  /\ pc[q] = "ready" /\ {"segment", "number"} \subseteq have[q]
           /\ mapped[n] = loads[q] /\ rih[n] = loads[q] /\ loads[q] > 0 /\ Live(n)
<1>1. pc[n] = "ready" /\ ~late[n] /\ pc[q] = "ready"
  BY DEF LinkUp
<1>2. {"segment", "number", "aperture"} \subseteq have[q] /\ loads[q] > 0
  BY <1>1 DEF SetupInv, NodeInv, OffersInOrder, Connecting
<1>3. segment[n] = "aperture"
  BY <1>1 DEF SetupInv, NodeInv, RingFirst
<1>4. mapped[n] = loads[q] /\ rih[n] = loads[q]
  BY <1>1, <1>2, <1>3 DEF SetupInv, InTime, Connecting
<1> QED
  BY <1>1, <1>2, <1>4 DEF Live

LEMMA SendSetup == ASSUME SetupInv, NEW n \in Nodes, Send(n) PROVE SetupInv'
<1> DEFINE q == Peer(n)
<1>0. q \in Nodes /\ q # n /\ Peer(q) = n /\ \A m \in Nodes : m = n \/ m = q
  BY PeerNode
<1>1. /\ pc[n] \notin Oops /\ have[n] # {} /\ sends' = sends + 1
      /\ UNCHANGED <<have, segment, sem, asked, err, loads, late, linkVars>>
  BY DEF Send, Alive
<1>2. misused' \in BOOLEAN /\ (~misused' => ~misused /\ LinkUp)
  BY DEF Send
<1>3. CASE /\ mapped[n] = 0 /\ pc' = [pc EXCEPT ![n] = "oops send_queue"]
           /\ UNCHANGED <<ring, irq, stalled, erased>>
  <2>1. SetupType'
    <3>1. sends' \in Nat
      BY <1>1 DEF SetupInv, SetupType
    <3>2. pc' \in [Nodes -> Labels]
      BY <1>3 DEF SetupInv, SetupType, Labels
    <3> QED
      BY <1>1, <1>2, <1>3, <3>1, <3>2 DEF SetupInv, SetupType, linkVars
  <2>2. pc'[n] = "oops send_queue" /\ pc'[q] = pc[q]
    BY <1>0, <1>3 DEF SetupInv, SetupType
  <2>3. NodeInv(n)'
    BY <1>1, <2>2 DEF SetupInv, NodeInv, OffersInOrder, SemaphoreFree, RingFirst, Connecting, Oops
  <2>4. NodeInv(q)'
    BY <1>0, <1>1, <1>3, <2>2 DEF SetupInv, NodeInv, OffersInOrder, SemaphoreFree, RingFirst
  <2>5. InTime(n)'
    BY <2>2 DEF InTime, Connecting
  <2>6. InTime(q)'
    <3>1. pc[n] # "unloaded"
      BY <1>1 DEF SetupInv, NodeInv, OffersInOrder
    <3> QED
      BY <1>0, <1>1, <2>2, <3>1 DEF SetupInv, InTime, linkVars
  <2>7. misused'
    <3>1. LinkUp => mapped[n] = loads[q] /\ loads[q] > 0
      BY <1>0, LinkUpWorks
    <3>2. mapped[n] = loads[q] /\ loads[q] > 0 => mapped[n] # 0
      BY <1>0 DEF SetupInv, SetupType
    <3>3. ~LinkUp
      BY <1>3, <3>1, <3>2
    <3> QED
      BY <1>2, <3>3
  <2>8. ProperUse(n)' /\ ProperUse(q)'
    BY <2>7 DEF ProperUse
  <2> HIDE DEF q
  <2> QED
    BY <1>0, <2>1, <2>3, <2>4, <2>5, <2>6, <2>8 DEF SetupInv
<1>4. CASE /\ mapped[n] # 0 /\ pc' = pc
           /\ ring' = IF Live(n) THEN [ring EXCEPT ![q] = @ + 1] ELSE ring
           /\ erased' = (erased \/ ~Live(n))
           /\ Trigger(n)
  <2>1. ring' \in [Nodes -> Nat] /\ ring'[n] = ring[n]
    BY <1>0, <1>4 DEF SetupInv, SetupType
  <2>2. /\ irq' \in [Nodes -> BOOLEAN] /\ irq'[n] = irq[n]
        /\ stalled' \in [Nodes -> BOOLEAN] /\ stalled'[n] = stalled[n]
        /\ rih[n] = loads[q] /\ "number" \in have[q] => irq'[q] = TRUE \/ stalled'[q] = TRUE
        /\ irq'[q] => irq[q] \/ "number" \in have[q]
    BY <1>0, <1>4 DEF Trigger, SetupInv, SetupType
  <2>3. erased' \in BOOLEAN /\ (Live(n) /\ ~erased => ~erased')
    BY <1>4
  <2>4. SetupType'
    <3>1. sends' \in Nat
      BY <1>1 DEF SetupInv, SetupType
    <3>2. pc' = pc
      BY <1>4
    <3> QED
      BY <1>1, <1>2, <2>1, <2>2, <2>3, <3>1, <3>2 DEF SetupInv, SetupType, linkVars
  <2>5. NodeInv(n)' /\ NodeInv(q)'
    <3>1. (irq'[n] => pc[n] # "unloaded") /\ (irq'[q] => pc[q] # "unloaded")
      BY <1>0, <2>2 DEF SetupInv, NodeInv, OffersInOrder
    <3> QED
      BY <1>0, <1>1, <1>4, <3>1 DEF SetupInv, NodeInv, OffersInOrder, SemaphoreFree, RingFirst
  <2>6. InTime(n)' /\ InTime(q)'
    BY <1>0, <1>1, <1>4 DEF SetupInv, InTime, linkVars
  <2>7. ASSUME ~misused' PROVE ProperUse(n)' /\ ProperUse(q)'
    <3>1. ~misused /\ LinkUp /\ ProperUse(n) /\ ProperUse(q)
      BY <1>0, <1>2, <2>7 DEF SetupInv
    <3>2. pc[q] = "ready" /\ (irq'[q] = TRUE \/ stalled'[q] = TRUE) /\ Live(n)
      BY <1>0, <2>2, <3>1, LinkUpWorks
    <3>3. ~erased'
      BY <2>3, <3>1, <3>2 DEF ProperUse
    <3>4. pc' = pc
      BY <1>4
    <3>5. ProperUse(n)'
      BY <2>1, <2>2, <3>1, <3>3, <3>4 DEF ProperUse
    <3>6. ProperUse(q)'
      BY <3>1, <3>2, <3>3, <3>4 DEF ProperUse
    <3> QED
      BY <3>5, <3>6
  <2>8. ProperUse(n)' /\ ProperUse(q)'
    BY <2>7 DEF ProperUse
  <2> HIDE DEF q
  <2> QED
    BY <1>0, <2>4, <2>5, <2>6, <2>8 DEF SetupInv
<1> QED
  BY <1>3, <1>4 DEF Send, Goto

LEMMA InterruptSetup == ASSUME SetupInv, NEW n \in Nodes, Interrupt(n) PROVE SetupInv'
<1> DEFINE q == Peer(n)
<1>0. q \in Nodes /\ q # n /\ Peer(q) = n /\ \A m \in Nodes : m = n \/ m = q
  BY PeerNode
<1>1. PICK left \in Nat, more \in BOOLEAN :
          /\ ring' = [ring EXCEPT ![n] = left]
          /\ stalled' = [stalled EXCEPT ![n] = more]
          /\ left > 0 => ring[n] > 0 /\ more = TRUE
  <2>1. PICK left \in {0} \cup IF MayFail THEN 0 .. ring[n] - 1 ELSE {} :
            ring' = [ring EXCEPT ![n] = left] /\ stalled' = [stalled EXCEPT ![n] = left > 0]
    BY DEF Interrupt
  <2>2. left \in Nat /\ (left > 0 => ring[n] > 0)
    BY DEF SetupInv, SetupType
  <2> DEFINE more == left > 0
  <2>3. more \in BOOLEAN /\ (left > 0 => more = TRUE)
    OBVIOUS
  <2>4. stalled' = [stalled EXCEPT ![n] = more]
    BY <2>1
  <2> HIDE DEF more
  <2> QED
    BY <2>1, <2>2, <2>3, <2>4
<1>2. /\ irq[n] /\ irq' = [irq EXCEPT ![n] = FALSE]
      /\ UNCHANGED <<loadVars, linkVars, sends, misused, erased>>
  BY DEF Interrupt
<1>3. SetupType'
  <2>1. stalled' \in [Nodes -> BOOLEAN]
    BY <1>1 DEF SetupInv, SetupType
  <2>2. ring' \in [Nodes -> Nat] /\ irq' \in [Nodes -> BOOLEAN]
    BY <1>1, <1>2 DEF SetupInv, SetupType
  <2> QED
    BY <1>2, <2>1, <2>2 DEF SetupInv, SetupType, loadVars, linkVars
<1>4. /\ ring'[n] > 0 => ring[n] > 0 /\ stalled'[n] = TRUE
      /\ ring'[q] = ring[q] /\ irq'[q] = irq[q] /\ stalled'[q] = stalled[q] /\ irq'[n] = FALSE
  BY <1>0, <1>1, <1>2 DEF SetupInv, SetupType
<1>5. NodeInv(n)' /\ NodeInv(q)'
  BY <1>0, <1>2, <1>4 DEF SetupInv, NodeInv, OffersInOrder, SemaphoreFree, RingFirst, loadVars
<1>6. InTime(n)' /\ InTime(q)'
  BY <1>0, <1>2 DEF SetupInv, InTime, loadVars, linkVars
<1>7. ProperUse(n)' /\ ProperUse(q)'
  <2>1. ProperUse(n) /\ ProperUse(q)
    BY <1>0 DEF SetupInv
  <2>2. ProperUse(n)'
    BY <1>2, <1>4, <2>1 DEF ProperUse, loadVars
  <2>3. ProperUse(q)'
    BY <1>2, <1>4, <2>1 DEF ProperUse, loadVars
  <2> QED
    BY <2>2, <2>3
<1> HIDE DEF q
<1> QED
  BY <1>0, <1>3, <1>5, <1>6, <1>7 DEF SetupInv

\* The kernel that stops in its callback keeps what it has.
LEMMA InterruptNoMemorySetup ==
    ASSUME SetupInv, NEW n \in Nodes, InterruptNoMemory(n) PROVE SetupInv'
<1> DEFINE q == Peer(n)
<1>0. q \in Nodes /\ q # n /\ Peer(q) = n
  BY PeerNode
<1>1. /\ irq[n] /\ pc' = [pc EXCEPT ![n] = "oops skb"]
      /\ UNCHANGED <<have, segment, sem, asked, err, loads, late, linkVars, msgVars>>
  BY DEF InterruptNoMemory, Goto
<1>2. SetupType'
  BY <1>1 DEF SetupInv, SetupType, Labels, linkVars, msgVars
<1>3. pc'[n] = "oops skb" /\ pc'[q] = pc[q]
  BY <1>0, <1>1 DEF SetupInv, SetupType
<1>4. pc[n] # "unloaded"
  BY <1>1 DEF SetupInv, NodeInv, OffersInOrder
<1>5. NodeInv(n)'
  BY <1>1, <1>3, <1>4 DEF SetupInv, NodeInv, OffersInOrder, SemaphoreFree, RingFirst, Connecting, Oops
<1>6. InTime(n)'
  BY <1>3 DEF InTime, Connecting
<1>7. "aperture" \in have[n] => "number" \in have[n]
  BY DEF SetupInv, NodeInv, OffersInOrder
<1> HIDE DEF q
<1> QED
  BY <1>0, <1>1, <1>2, <1>3, <1>4, <1>5, <1>6, <1>7, LocalStep DEF q, Oops, linkVars, msgVars

LEMMA SetupStep == SetupInv /\ [Next]_vars => SetupInv'
<1> SUFFICES ASSUME SetupInv, [Next]_vars PROVE SetupInv'
  OBVIOUS
<1>1. ASSUME NEW n \in Nodes, LoadStep(n) PROVE SetupInv'
  BY <1>1, RegisterSetup, ExportRingSetup, ZeroIndicesSetup, PublishNumberSetup, OfferApertureSetup,
     WakeSetup, ConnectSetup, ConnectedSetup, TimeOutSetup, MapSetup, ConnectInterruptSetup,
     CleanUpSetup DEF LoadStep
<1>2. ASSUME NEW n \in Nodes, Load(n) \/ Callback(n) \/ Remove(n) \/ Send(n) \/ Interrupt(n)
             \/ InterruptNoMemory(n)
      PROVE  SetupInv'
  BY <1>2, LoadSetup, CallbackSetup, RemoveSetup, SendSetup, InterruptSetup,
     InterruptNoMemorySetup
<1>3. CASE UNCHANGED vars
  BY <1>3 DEF vars, loadVars, linkVars, msgVars, SetupInv, SetupType, NodeInv, OffersInOrder,
              SemaphoreFree, RingFirst, InTime, ProperUse
<1> QED
  BY <1>1, <1>2, <1>3 DEF Next

LEMMA SetupAlways == Spec => []SetupInv
  BY InitSetup, SetupStep, PTL DEF Spec

-----------------------------------------------------------------------------
(* Theorems *)

\* The link of a node that is ready and was not late works as long as the other node
\* is loaded: its ring, its interrupt and the semaphore that recvmsg takes.
THEOREM ReadyIsLinked == Spec => []LinkWorks
<1>1. SetupInv => LinkWorks
  <2> SUFFICES ASSUME SetupInv, NEW n \in Nodes, pc[n] = "ready", ~late[n], "number" \in have[Peer(n)]
               PROVE  /\ mapped[n] = loads[Peer(n)] /\ rih[n] = loads[Peer(n)]
                      /\ sem[n] = 1 /\ ~asked[n]
    BY DEF LinkWorks
  <2>1. segment[n] = "aperture"
    BY DEF SetupInv, NodeInv, RingFirst
  <2>2. mapped[n] = loads[Peer(n)] /\ rih[n] = loads[Peer(n)]
    BY <2>1 DEF SetupInv, InTime, Connecting
  <2>3. pc[n] \notin {"cleanup", "oops send_queue", "oops unregister", "oops stack", "oops skb"}
        /\ pc[n] # "wait"
    OBVIOUS
  <2>4. (asked[n] => pc[n] = "wait") /\ (~asked[n] => sem[n] = 1)
    BY <2>3, SemaphoreIs
  <2> QED
    BY <2>2, <2>3, <2>4
<1> QED
  BY <1>1, SetupAlways, PTL

\* Programs that use their sockets only while the link is up on both nodes meet no null
\* send_queue, and none of their messages is written where nobody reads or zeroed by a
\* set-up; one that waits in a ring has an interrupt to come, unless the trigger failed
\* or local_tcp_rcv refused a message before it.  The kernel may still stop elsewhere:
\* for want of an skb, in proto_unregister, on a stack written over.
THEOREM ProperUseLosesNothing == Spec => []ProperUseIsSafe
<1>1. SetupInv => ProperUseIsSafe
  <2>1. Nodes # {}
    BY TwoNodes
  <2> QED
    BY <2>1 DEF SetupInv, ProperUse, ProperUseIsSafe
<1> QED
  BY <1>1, SetupAlways, PTL
=============================================================================
