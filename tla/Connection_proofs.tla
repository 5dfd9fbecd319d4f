-------------------------- MODULE Connection_proofs -------------------------
(***************************************************************************)
(* Proofs about Connection.  The first part is for any number of           *)
(* connections on either node, any number of processes in accept, programs *)
(* that write, close and fail as they like, and lists of any length: the   *)
(* invariant of the tables.  The second part is for any number of clients  *)
(* on one node and acceptors on the other, when the programs behave like   *)
(* the test programs (ConnectionOrder): each message meets its own         *)
(* connection, what may be lost, what may crash a node, and that what a    *)
(* socket receives has no hole.                                            *)
(***************************************************************************)
EXTENDS ConnectionOrder, FiniteSetTheorems, TLAPS

-----------------------------------------------------------------------------
(* Lists *)

LEMMA AppendSet ==
    ASSUME NEW S, NEW s \in Seq(S), NEW x \in S
    PROVE  /\ Append(s, x) \in Seq(S) /\ Append(s, x) # << >>
           /\ ToSet(Append(s, x)) = ToSet(s) \cup {x}
           /\ IsInjective(s) /\ x \notin ToSet(s) => IsInjective(Append(s, x))
<1>1. /\ Append(s, x) \in Seq(S) /\ Len(Append(s, x)) = Len(s) + 1 /\ Len(s) \in Nat
      /\ Append(s, x)[Len(s) + 1] = x
      /\ \A i \in 1 .. Len(s) : Append(s, x)[i] = s[i]
      /\ DOMAIN s = 1 .. Len(s) /\ DOMAIN Append(s, x) = 1 .. Len(s) + 1
  OBVIOUS
<1> DEFINE t == Append(s, x)
<1> HIDE DEF t
<1>2. ToSet(t) = ToSet(s) \cup {x}
  <2>1. \A i \in DOMAIN t : t[i] \in ToSet(s) \cup {x}
    BY <1>1 DEF ToSet, t
  <2>2. \A i \in DOMAIN s : i \in DOMAIN t /\ t[i] = s[i]
    BY <1>1 DEF t
  <2>3. Len(s) + 1 \in DOMAIN t /\ t[Len(s) + 1] = x
    BY <1>1 DEF t
  <2> QED
    BY <2>1, <2>2, <2>3 DEF ToSet
<1>3. ASSUME IsInjective(s), x \notin ToSet(s) PROVE IsInjective(t)
  BY <1>1, <1>3 DEF IsInjective, ToSet, t
<1> QED
  BY <1>1, <1>2, <1>3 DEF t

LEMMA TailSet ==
    ASSUME NEW S, NEW s \in Seq(S), s # << >>
    PROVE  /\ Head(s) \in S /\ Tail(s) \in Seq(S)
           /\ Head(s) \in ToSet(s) /\ ToSet(Tail(s)) \subseteq ToSet(s)
           /\ IsInjective(s) => IsInjective(Tail(s)) /\ Head(s) \notin ToSet(Tail(s))
<1>1. /\ Head(s) = s[1] /\ Tail(s) \in Seq(S) /\ Len(s) \in Nat \ {0} /\ Len(Tail(s)) = Len(s) - 1
      /\ \A i \in 1 .. Len(s) - 1 : Tail(s)[i] = s[i + 1]
      /\ DOMAIN s = 1 .. Len(s) /\ DOMAIN Tail(s) = 1 .. Len(s) - 1
  OBVIOUS
<1> DEFINE t == Tail(s)
<1> HIDE DEF t
<1>2. 1 \in DOMAIN s /\ Head(s) \in S /\ Head(s) \in ToSet(s)
  BY <1>1 DEF ToSet
<1>3. \A i \in DOMAIN t : i + 1 \in DOMAIN s /\ t[i] = s[i + 1] /\ i + 1 # 1
  BY <1>1 DEF t
<1>4. ToSet(t) \subseteq ToSet(s)
  BY <1>3 DEF ToSet
<1>5. ASSUME IsInjective(s) PROVE IsInjective(t) /\ Head(s) \notin ToSet(t)
  <2>1. ASSUME NEW i \in DOMAIN t, NEW j \in DOMAIN t, t[i] = t[j] PROVE i = j
    <3>1. s[i + 1] = s[j + 1] /\ i + 1 \in DOMAIN s /\ j + 1 \in DOMAIN s
      BY <1>3, <2>1
    <3>2. i + 1 = j + 1
      BY <1>5, <3>1 DEF IsInjective
    <3>3. i \in Int /\ j \in Int
      BY <1>1 DEF t
    <3> QED
      BY <3>2, <3>3
  <2>2. ASSUME NEW i \in DOMAIN t, t[i] = Head(s) PROVE FALSE
    <3>1. s[i + 1] = s[1] /\ i + 1 \in DOMAIN s /\ i + 1 # 1
      BY <1>1, <1>3, <2>2
    <3> QED
      BY <1>2, <1>5, <3>1 DEF IsInjective
  <2> QED
    BY <2>1, <2>2 DEF IsInjective, ToSet
<1> QED
  BY <1>1, <1>2, <1>4, <1>5 DEF t

LEMMA WithoutType ==
    ASSUME NEW S, NEW s \in Seq(S), NEW x
    PROVE  Without(s, x) \in Seq(S)
<1>1. CASE Contains(s, x)
  <2> DEFINE i == CHOOSE i \in DOMAIN s : s[i] = x
  <2>1. DOMAIN s = 1 .. Len(s) /\ Len(s) \in Nat
    OBVIOUS
  <2>2. i \in 1 .. Len(s)
    BY <1>1, <2>1 DEF Contains
  <2>3. Without(s, x) = SubSeq(s, 1, i - 1) \o SubSeq(s, i + 1, Len(s))
    BY <1>1 DEF Without, RemoveAt
  <2> HIDE DEF i
  <2>4. SubSeq(s, 1, i - 1) \in Seq(S)
    BY <2>1, <2>2
  <2>5. SubSeq(s, i + 1, Len(s)) \in Seq(S)
    BY <2>1, <2>2
  <2> QED
    BY <2>3, <2>4, <2>5
<1>2. CASE ~Contains(s, x)
  BY <1>2 DEF Without
<1> QED
  BY <1>1, <1>2

-----------------------------------------------------------------------------
(* The inductive invariant *)

\* The program of the socket, or the callback, has made an entry for it.
Made(x) == spc[x] \notin {"idle", "connecting", "absent", "failed"}

\* An entry of node n.
EntryAt(x, n) == x \in Sockets /\ Made(x) /\ Home(x) = n

\* Entries are in the tables of their own node, and so is what is carried between them.
Owned ==
    /\ \A n \in Nodes : \A x \in ToSet(incoming[n]) \cup ToSet(conns[n]) : EntryAt(x, n)
    /\ \A p \in Acceptors :
          apc[p] \in {"add", "notify"} => EntryAt(asock[p], AcceptorNode[p])
    /\ \A n \in Nodes :
          hpc[n] \in {"queue", "add", "close", "move"} => EntryAt(hsock[n], n)

\* The message of a connect, before the other node has made its entry.
Awaited(m, n) ==
    /\ m.sock \in Sockets /\ m.sock[2] = "client" /\ Home(Peer(m.sock)) = n
    /\ spc[m.sock] # "idle" /\ spc[Peer(m.sock)] = "absent"

\* A connect sends one message, and it brings the one entry of the other side.
Connects ==
    /\ \A n \in Nodes : \A i \in DOMAIN chan[n] :
          chan[n][i].type = "CONNECT" => Awaited(chan[n][i], n)
    /\ \A n \in Nodes : \A i, j \in DOMAIN chan[n] :
          /\ chan[n][i].type = "CONNECT" /\ chan[n][j].type = "CONNECT"
          /\ chan[n][i].sock = chan[n][j].sock
          => i = j
    /\ \A c \in Clients : spc[<<c, "client">>] = "idle" => spc[<<c, "server">>] = "absent"

\* The tables of one node have no entry twice.
ListsApart(n) ==
    /\ IsInjective(incoming[n]) /\ IsInjective(conns[n])
    /\ ToSet(incoming[n]) \cap ToSet(conns[n]) = {}

\* A process carries an entry that nobody else has.
AcceptorAlone(p) ==
    apc[p] = "add" =>
        /\ asock[p] \notin ToSet(incoming[AcceptorNode[p]]) \cup ToSet(conns[AcceptorNode[p]])
        /\ \A q \in Acceptors : apc[q] = "add" /\ asock[q] = asock[p] => q = p
        /\ \A n \in Nodes : hpc[n] \in {"add", "move"} => hsock[n] # asock[p]

\* So does the callback of a node.
HandlerAlone(n) ==
    hpc[n] \in {"add", "move"} => hsock[n] \notin ToSet(incoming[n]) \cup ToSet(conns[n])

Single ==
    /\ \A n \in Nodes : ListsApart(n) /\ HandlerAlone(n)
    /\ \A p \in Acceptors : AcceptorAlone(p)

\* A confirmation goes to the node that no acceptor of the connection is on.
SuccessFrom ==
    \A n \in Nodes : \A i \in DOMAIN chan[n] :
        chan[n][i].type = "CONNECT_SUCCESS" => \E p \in Acceptors : n = Other(AcceptorNode[p])

\* A process that is alone in accept finds what made it stop waiting.
TakeFinds ==
    (\A p, q \in Acceptors : p = q) => \A p \in Acceptors :
        /\ apc[p] # "failed"
        /\ apc[p] \in {"finish", "take"} => incoming[AcceptorNode[p]] # << >>

TableInv == TypeOK /\ Owned /\ Connects /\ Single /\ SuccessFrom /\ TakeFinds

\* What no step but those of connect and of its message changes.
SpcKeeps == \A x \in Sockets :
    spc'[x] = spc[x] \/ (Made(x) /\ Made(x)') \/ (x[2] = "client" /\ spc'[x] # "idle")
MadeKeeps == \A x \in Sockets : Made(x) => Made(x)'

-----------------------------------------------------------------------------
(* The two nodes *)

LEMMA OtherNode == \A n \in Nodes : Other(n) \in Nodes /\ Other(n) # n
<1>1. Nodes # {}
  BY NodesAssumption, FS_EmptySet
<1>2. \A n \in Nodes : Nodes \ {n} # {}
  <2> SUFFICES ASSUME NEW n \in Nodes PROVE Nodes \ {n} # {}
    OBVIOUS
  <2>1. IsFiniteSet(Nodes \ {n}) /\ Cardinality(Nodes \ {n}) = 1
    BY NodesAssumption, FS_RemoveElement
  <2> QED
    BY <2>1, FS_EmptySet
<1>3. \A n \in Nodes : \E m \in Nodes : m # n
  BY <1>2
<1> QED
  BY <1>3 DEF Other

LEMMA SocketPlaces ==
    /\ \A s \in Sockets : Home(s) \in Nodes /\ Peer(s) \in Sockets /\ s[1] \in Clients
                          /\ s = <<s[1], s[2]>> /\ s[2] \in {"client", "server"}
    /\ \A c \in Clients : <<c, "client">> \in Sockets /\ <<c, "server">> \in Sockets
    /\ NoSocket \notin Sockets
    /\ NoMsg \in Messages
  BY OtherNode, PlacesAssumption, BoundsAssumption
     DEF Sockets, Home, Peer, NoSocket, NoMsg, Msg, Messages

-----------------------------------------------------------------------------
(* What a step leaves alone *)

LEMMA OwnedFrom ==
    ASSUME Owned, MadeKeeps,
           \A n \in Nodes : \A x \in ToSet(incoming'[n]) \cup ToSet(conns'[n]) :
               x \in ToSet(incoming[n]) \cup ToSet(conns[n]) \/ EntryAt(x, n)',
           \A p \in Acceptors : apc'[p] \in {"add", "notify"} =>
               \/ apc[p] \in {"add", "notify"} /\ asock'[p] = asock[p]
               \/ EntryAt(asock[p], AcceptorNode[p])',
           \A n \in Nodes : hpc'[n] \in {"queue", "add", "close", "move"} =>
               \/ hpc[n] \in {"queue", "add", "close", "move"} /\ hsock'[n] = hsock[n]
               \/ EntryAt(hsock[n], n)'
    PROVE  Owned'
<1>1. \A x, n : EntryAt(x, n) => EntryAt(x, n)'
  BY DEF EntryAt, MadeKeeps
<1>2. \A n \in Nodes : \A x \in ToSet(incoming'[n]) \cup ToSet(conns'[n]) : EntryAt(x, n)'
  BY <1>1 DEF Owned
<1>3. \A p \in Acceptors : apc'[p] \in {"add", "notify"} => EntryAt(asock[p], AcceptorNode[p])'
  BY <1>1 DEF Owned
<1>4. \A n \in Nodes : hpc'[n] \in {"queue", "add", "close", "move"} => EntryAt(hsock[n], n)'
  BY <1>1 DEF Owned
<1> QED
  BY <1>2, <1>3, <1>4 DEF Owned

LEMMA SingleSame ==
    ASSUME Single, UNCHANGED tables,
           \A p \in Acceptors : apc'[p] = "add" => apc[p] = "add" /\ asock'[p] = asock[p],
           \A n \in Nodes : hpc'[n] \in {"add", "move"} =>
               hpc[n] \in {"add", "move"} /\ hsock'[n] = hsock[n]
    PROVE  Single'
<1>1. \A n \in Nodes : ListsApart(n)'
  BY DEF Single, ListsApart, tables
<1>2. \A n \in Nodes : HandlerAlone(n)'
  BY DEF Single, HandlerAlone, tables
<1>3. \A p \in Acceptors : AcceptorAlone(p)'
  BY DEF Single, AcceptorAlone, tables
<1> QED
  BY <1>1, <1>2, <1>3 DEF Single

LEMMA TakeFindsSame ==
    ASSUME TakeFinds,
           \A p \in Acceptors :
               incoming[AcceptorNode[p]] # << >> => incoming'[AcceptorNode[p]] # << >>,
           \A p \in Acceptors : apc'[p] # "failed" \/ apc[p] = "failed",
           \A p \in Acceptors : apc'[p] \in {"finish", "take"} =>
               apc[p] \in {"finish", "take"} \/ incoming[AcceptorNode[p]] # << >>
    PROVE  TakeFinds'
  BY DEF TakeFinds

LEMMA AwaitedSame ==
    ASSUME SpcKeeps, NEW m, NEW n, Awaited(m, n)
    PROVE  Awaited(m, n)'
<1>1. m.sock \in Sockets /\ m.sock[2] = "client" /\ Home(Peer(m.sock)) = n
  BY DEF Awaited
<1>2. Peer(m.sock) \in Sockets /\ Peer(m.sock)[2] = "server"
  BY <1>1, SocketPlaces DEF Peer
<1>3. spc[m.sock] # "idle" /\ spc[Peer(m.sock)] = "absent"
  BY DEF Awaited
<1>4. spc'[m.sock] # "idle"
  BY <1>1, <1>3 DEF SpcKeeps, Made
<1>5. spc'[Peer(m.sock)] = "absent"
  BY <1>2, <1>3 DEF SpcKeeps, Made
<1> QED
  BY <1>1, <1>4, <1>5 DEF Awaited

LEMMA IdleSame ==
    ASSUME SpcKeeps, \A c \in Clients : spc[<<c, "client">>] = "idle" => spc[<<c, "server">>] = "absent"
    PROVE  \A c \in Clients : spc'[<<c, "client">>] = "idle" => spc'[<<c, "server">>] = "absent"
  BY SocketPlaces DEF SpcKeeps, Made

LEMMA ChanSame ==
    ASSUME Connects, SuccessFrom, SpcKeeps, chan' = chan
    PROVE  Connects' /\ SuccessFrom'
<1>1. ASSUME NEW n \in Nodes, NEW i \in DOMAIN chan'[n], chan'[n][i].type = "CONNECT"
      PROVE  Awaited(chan[n][i], n)'
  <2>1. PICK m : m = chan[n][i]
    OBVIOUS
  <2>2. Awaited(m, n)'
    BY <1>1, <2>1, AwaitedSame DEF Connects
  <2> QED
    BY <2>1, <2>2 DEF Awaited
<1> QED
  BY <1>1, IdleSame DEF Connects, SuccessFrom

\* A message goes on its way that is not that of a connect.
LEMMA ChanAppend ==
    ASSUME TypeOK, Connects, SuccessFrom, SpcKeeps, NEW k, NEW m \in Messages,
           chan' = [chan EXCEPT ![k] = Append(@, m)], m.type # "CONNECT",
           m.type = "CONNECT_SUCCESS" => \E p \in Acceptors : k = Other(AcceptorNode[p])
    PROVE  Connects' /\ SuccessFrom'
<1>1. ASSUME NEW n \in Nodes, NEW i \in DOMAIN chan'[n]
      PROVE  \/ i \in DOMAIN chan[n] /\ chan'[n][i] = chan[n][i]
             \/ chan'[n][i] = m /\ n = k
  <2>1. chan[n] \in Seq(Messages) /\ DOMAIN chan = Nodes
    BY DEF TypeOK
  <2>2. CASE n = k
    <3>1. chan'[n] = Append(chan[n], m)
      BY <2>1, <2>2
    <3> QED
      BY <2>1, <2>2, <3>1
  <2>3. CASE n # k
    BY <2>1, <2>3
  <2> QED
    BY <2>2, <2>3
<1>2. ASSUME NEW n \in Nodes, NEW i \in DOMAIN chan'[n], chan'[n][i].type = "CONNECT"
      PROVE  Awaited(chan[n][i], n)'
  <2>1. PICK x : x = chan'[n][i]
    OBVIOUS
  <2>2. i \in DOMAIN chan[n] /\ chan[n][i] = x
    BY <1>1, <1>2, <2>1
  <2>3. Awaited(x, n)'
    BY <1>2, <2>1, <2>2, AwaitedSame DEF Connects
  <2> QED
    BY <2>1, <2>3 DEF Awaited
<1>3. \A n \in Nodes : \A i, j \in DOMAIN chan'[n] :
          /\ chan'[n][i].type = "CONNECT" /\ chan'[n][j].type = "CONNECT"
          /\ chan'[n][i].sock = chan'[n][j].sock
          => i = j
  BY <1>1 DEF Connects
<1>4. SuccessFrom'
  BY <1>1 DEF SuccessFrom
<1> QED
  BY <1>2, <1>3, <1>4, IdleSame DEF Connects

\* A message has arrived.
LEMMA TailPlaces ==
    ASSUME TypeOK, NEW k \in Nodes, chan[k] # << >>, chan' = [chan EXCEPT ![k] = Tail(@)]
    PROVE  /\ \A n \in Nodes : \A i \in DOMAIN chan'[n] :
                  IF n = k THEN i + 1 \in DOMAIN chan[n] /\ chan'[n][i] = chan[n][i + 1] /\ i \in Nat \ {0}
                  ELSE i \in DOMAIN chan[n] /\ chan'[n][i] = chan[n][i]
           /\ Head(chan[k]) \in Messages /\ Head(chan[k]) = chan[k][1] /\ 1 \in DOMAIN chan[k]
           /\ chan' \in [Nodes -> Seq(Messages)]
<1>1. chan[k] \in Seq(Messages) /\ DOMAIN chan = Nodes
  BY DEF TypeOK
<1>2. /\ Tail(chan[k]) \in Seq(Messages) /\ Head(chan[k]) \in Messages
      /\ Head(chan[k]) = chan[k][1] /\ 1 \in DOMAIN chan[k]
      /\ \A i \in DOMAIN Tail(chan[k]) :
             i + 1 \in DOMAIN chan[k] /\ Tail(chan[k])[i] = chan[k][i + 1] /\ i \in Nat \ {0}
  BY <1>1
<1> QED
  BY <1>1, <1>2 DEF TypeOK

LEMMA ChanTail ==
    ASSUME TypeOK, Connects, SuccessFrom, SpcKeeps, NEW k \in Nodes, chan[k] # << >>,
           chan' = [chan EXCEPT ![k] = Tail(@)]
    PROVE  Connects' /\ SuccessFrom'
<1> DEFINE old(n, i) == IF n = k THEN i + 1 ELSE i
<1>0. \A n \in Nodes : \A i \in DOMAIN chan'[n] :
          IF n = k THEN i + 1 \in DOMAIN chan[n] /\ chan'[n][i] = chan[n][i + 1] /\ i \in Nat \ {0}
          ELSE i \in DOMAIN chan[n] /\ chan'[n][i] = chan[n][i]
  BY TailPlaces
<1>1. ASSUME NEW n \in Nodes, NEW i \in DOMAIN chan'[n]
      PROVE  old(n, i) \in DOMAIN chan[n] /\ chan'[n][i] = chan[n][old(n, i)]
  <2>0. IF n = k THEN i + 1 \in DOMAIN chan[n] /\ chan'[n][i] = chan[n][i + 1]
        ELSE i \in DOMAIN chan[n] /\ chan'[n][i] = chan[n][i]
    BY <1>0
  <2>1. CASE n = k
    BY <2>0, <2>1
  <2>2. CASE n # k
    BY <2>0, <2>2
  <2> QED
    BY <2>1, <2>2
<1>2. ASSUME NEW n \in Nodes, NEW i \in DOMAIN chan'[n], NEW j \in DOMAIN chan'[n],
             old(n, i) = old(n, j)
      PROVE  i = j
  <2>1. CASE n = k
    <3>1. i \in Nat /\ j \in Nat
      BY <2>1, TailPlaces
    <3> QED
      BY <1>2, <2>1, <3>1
  <2>2. CASE n # k
    BY <1>2, <2>2
  <2> QED
    BY <2>1, <2>2
<1> HIDE DEF old
<1>3. ASSUME NEW n \in Nodes, NEW i \in DOMAIN chan'[n], chan'[n][i].type = "CONNECT"
      PROVE  Awaited(chan[n][i], n)'
  <2>1. PICK x : x = chan'[n][i]
    OBVIOUS
  <2>2. old(n, i) \in DOMAIN chan[n] /\ chan[n][old(n, i)] = x
    BY <1>1, <1>3, <2>1
  <2>3. Awaited(x, n)'
    BY <1>3, <2>1, <2>2, AwaitedSame DEF Connects
  <2> QED
    BY <2>1, <2>3 DEF Awaited
<1>4. \A n \in Nodes : \A i, j \in DOMAIN chan'[n] :
          /\ chan'[n][i].type = "CONNECT" /\ chan'[n][j].type = "CONNECT"
          /\ chan'[n][i].sock = chan'[n][j].sock
          => i = j
  BY <1>1, <1>2 DEF Connects
<1>5. SuccessFrom'
  BY <1>1 DEF SuccessFrom
<1> QED
  BY <1>3, <1>4, <1>5, IdleSame DEF Connects

-----------------------------------------------------------------------------
(* The message of a connect *)

\* It goes on its way: the program had sent none before.
LEMMA ConnectSent ==
    ASSUME TypeOK, Connects, SuccessFrom, NEW c \in Clients, NEW v, v # "idle",
           spc[<<c, "client">>] = "idle",
           Transmit(<<c, "client">>, Msg("CONNECT", <<c, "client">>, 0)),
           spc' = [spc EXCEPT ![<<c, "client">>] = v]
    PROVE  Connects' /\ SuccessFrom'
<1> DEFINE s == <<c, "client">>
           m == Msg("CONNECT", s, 0)
           k == Other(Home(s))
<1>1. /\ s \in Sockets /\ k \in Nodes /\ Peer(s) = <<c, "server">> /\ Home(Peer(s)) = k
      /\ m \in Messages /\ m.type = "CONNECT" /\ m.sock = s /\ Peer(s) # s /\ Peer(s) \in Sockets
  BY SocketPlaces, OtherNode, BoundsAssumption DEF Home, Peer, Msg, Messages
<1>2. chan' = [chan EXCEPT ![k] = Append(@, m)]
  BY DEF Transmit
<1>3. SpcKeeps
  BY <1>1 DEF SpcKeeps, TypeOK
<1>4. ASSUME NEW n \in Nodes, NEW i \in DOMAIN chan'[n]
      PROVE  \/ i \in DOMAIN chan[n] /\ chan'[n][i] = chan[n][i]
             \/ i = Len(chan[n]) + 1 /\ chan'[n][i] = m /\ n = k
  <2>1. chan[n] \in Seq(Messages) /\ DOMAIN chan = Nodes
    BY DEF TypeOK
  <2>2. CASE n = k
    <3>1. chan'[n] = Append(chan[n], m)
      BY <1>2, <2>1, <2>2
    <3> HIDE DEF m
    <3>2. m \in Messages
      BY <1>1
    <3> QED
      BY <2>1, <2>2, <3>1, <3>2
  <2>3. CASE n # k
    BY <1>2, <2>1, <2>3
  <2> QED
    BY <2>2, <2>3
<1>5. Awaited(m, k)'
  <2>1. spc[Peer(s)] = "absent" /\ spc'[Peer(s)] = "absent" /\ spc'[s] # "idle"
    BY <1>1 DEF Connects, TypeOK
  <2> QED
    BY <1>1, <2>1 DEF Awaited
<1> HIDE DEF s, m, k
<1>6. ASSUME NEW n \in Nodes, NEW i \in DOMAIN chan'[n], chan'[n][i].type = "CONNECT"
      PROVE  Awaited(chan[n][i], n)'
  <2>1. PICK x : x = chan'[n][i]
    OBVIOUS
  <2>2. CASE i \in DOMAIN chan[n] /\ chan'[n][i] = chan[n][i]
    <3>1. Awaited(x, n)'
      BY <1>3, <1>6, <2>1, <2>2, AwaitedSame DEF Connects
    <3> QED
      BY <2>1, <3>1 DEF Awaited
  <2>3. CASE chan'[n][i] = m /\ n = k
    BY <1>5, <2>3 DEF Awaited
  <2> QED
    BY <1>4, <2>2, <2>3
<1>7. \A n \in Nodes : \A i \in DOMAIN chan[n] :
          chan[n][i].type = "CONNECT" => chan[n][i].sock # s
  BY DEF Connects, Awaited, s
<1>8. \A n \in Nodes : \A i, j \in DOMAIN chan'[n] :
          /\ chan'[n][i].type = "CONNECT" /\ chan'[n][j].type = "CONNECT"
          /\ chan'[n][i].sock = chan'[n][j].sock
          => i = j
  BY <1>1, <1>4, <1>7 DEF Connects
<1>9. SuccessFrom'
  BY <1>1, <1>4 DEF SuccessFrom
<1> QED
  BY <1>3, <1>6, <1>8, <1>9, IdleSame DEF Connects

\* It arrives, and the other node makes its entry.
LEMMA ConnectTaken ==
    ASSUME TypeOK, Connects, SuccessFrom, NEW k \in Nodes, chan[k] # << >>,
           Head(chan[k]).type = "CONNECT",
           chan' = [chan EXCEPT ![k] = Tail(@)],
           spc' = [spc EXCEPT ![Peer(Head(chan[k]).sock)] = "cloned"]
    PROVE  Connects' /\ SuccessFrom'
<1> DEFINE h == Head(chan[k])
           old(n, i) == IF n = k THEN i + 1 ELSE i
<1>0. \A n \in Nodes : \A i \in DOMAIN chan'[n] :
          IF n = k THEN i + 1 \in DOMAIN chan[n] /\ chan'[n][i] = chan[n][i + 1] /\ i \in Nat \ {0}
          ELSE i \in DOMAIN chan[n] /\ chan'[n][i] = chan[n][i]
  BY TailPlaces
<1>1. ASSUME NEW n \in Nodes, NEW i \in DOMAIN chan'[n]
      PROVE  /\ old(n, i) \in DOMAIN chan[n] /\ chan'[n][i] = chan[n][old(n, i)]
             /\ n = k => old(n, i) # 1
  <2>1. CASE n = k
    <3>1. i \in Nat \ {0} /\ i + 1 \in DOMAIN chan[n] /\ chan'[n][i] = chan[n][i + 1]
      BY <1>0, <2>1
    <3>2. i + 1 # 1
      BY <3>1
    <3> QED
      BY <2>1, <3>1, <3>2
  <2>2. CASE n # k
    BY <2>2, TailPlaces
  <2> QED
    BY <2>1, <2>2
<1>2. ASSUME NEW n \in Nodes, NEW i \in DOMAIN chan'[n], NEW j \in DOMAIN chan'[n],
             old(n, i) = old(n, j)
      PROVE  i = j
  <2>1. CASE n = k
    <3>1. i \in Nat /\ j \in Nat
      BY <2>1, TailPlaces
    <3> QED
      BY <1>2, <2>1, <3>1
  <2>2. CASE n # k
    BY <1>2, <2>2
  <2> QED
    BY <2>1, <2>2
<1>3. h = chan[k][1] /\ 1 \in DOMAIN chan[k] /\ Awaited(h, k)
  <2>1. h = chan[k][1] /\ 1 \in DOMAIN chan[k]
    BY TailPlaces
  <2>2. chan[k][1].type = "CONNECT"
    BY <2>1
  <2>3. Awaited(chan[k][1], k)
    BY <2>1, <2>2 DEF Connects
  <2> HIDE DEF h
  <2> QED
    BY <2>1, <2>3
<1> HIDE DEF old, h
<1>4. ASSUME NEW n \in Nodes, NEW i \in DOMAIN chan'[n], chan'[n][i].type = "CONNECT"
      PROVE  Awaited(chan[n][i], n)'
  <2>1. PICK x : x = chan'[n][i]
    OBVIOUS
  <2>2. old(n, i) \in DOMAIN chan[n] /\ chan[n][old(n, i)] = x /\ Awaited(x, n)
    BY <1>1, <1>4, <2>1 DEF Connects
  <2>3. x.sock # h.sock
    <3>1. CASE n = k
      BY <1>1, <1>3, <1>4, <2>1, <2>2, <3>1 DEF Connects, h
    <3>2. CASE n # k
      BY <1>3, <2>2, <3>2 DEF Awaited
    <3> QED
      BY <3>1, <3>2
  <2>4. /\ x.sock \in Sockets /\ x.sock[2] = "client" /\ Peer(x.sock) \in Sockets
        /\ h.sock \in Sockets /\ h.sock[2] = "client"
    BY <1>3, <2>2, SocketPlaces DEF Awaited
  <2>5. x.sock # Peer(h.sock) /\ Peer(x.sock) # Peer(h.sock)
    <3>1. /\ x.sock = <<x.sock[1], "client">> /\ h.sock = <<h.sock[1], "client">>
          /\ Peer(x.sock) = <<x.sock[1], "server">> /\ Peer(h.sock) = <<h.sock[1], "server">>
      BY <2>4, SocketPlaces DEF Peer
    <3>2. x.sock[1] # h.sock[1]
      BY <2>3, <3>1
    <3>3. Peer(h.sock)[2] = "server" /\ Peer(h.sock)[1] = h.sock[1] /\ Peer(x.sock)[1] = x.sock[1]
      BY <3>1
    <3> QED
      BY <2>4, <3>2, <3>3
  <2>6. spc'[x.sock] = spc[x.sock] /\ spc'[Peer(x.sock)] = spc[Peer(x.sock)]
    BY <2>4, <2>5 DEF TypeOK, h
  <2> QED
    BY <2>1, <2>2, <2>6 DEF Awaited
<1>5. \A n \in Nodes : \A i, j \in DOMAIN chan'[n] :
          /\ chan'[n][i].type = "CONNECT" /\ chan'[n][j].type = "CONNECT"
          /\ chan'[n][i].sock = chan'[n][j].sock
          => i = j
  BY <1>1, <1>2 DEF Connects
<1>6. SuccessFrom'
  BY <1>1 DEF SuccessFrom
<1>7. ASSUME NEW c \in Clients, spc'[<<c, "client">>] = "idle" PROVE spc'[<<c, "server">>] = "absent"
  <2>1. <<c, "client">> \in Sockets /\ <<c, "server">> \in Sockets
    BY SocketPlaces
  <2>2. h.sock \in Sockets /\ h.sock[2] = "client" /\ spc[h.sock] # "idle"
    BY <1>3 DEF Awaited
  <2>3. Peer(h.sock) = <<h.sock[1], "server">> /\ h.sock = <<h.sock[1], "client">>
    BY <2>2, SocketPlaces DEF Peer
  <2>4. spc[<<c, "client">>] = "idle"
    BY <1>7, <2>1, <2>3 DEF TypeOK, h
  <2>5. c # h.sock[1]
    BY <2>2, <2>3, <2>4
  <2>6. <<c, "server">> # Peer(h.sock)
    <3>1. Peer(h.sock)[1] = h.sock[1]
      BY <2>3
    <3> QED
      BY <2>5, <3>1
  <2>7. spc' = [spc EXCEPT ![Peer(h.sock)] = "cloned"]
    BY DEF h
  <2>8. spc'[<<c, "server">>] = spc[<<c, "server">>]
    BY <2>1, <2>6, <2>7 DEF TypeOK
  <2> QED
    BY <2>4, <2>8 DEF Connects
<1> QED
  BY <1>4, <1>5, <1>6, <1>7 DEF Connects

-----------------------------------------------------------------------------
(* Entries go from table to table *)

\* What is in a table is carried by nobody.
LEMMA ListedNotCarried ==
    ASSUME Owned, Single, NEW k \in Nodes, NEW x \in ToSet(incoming[k]) \cup ToSet(conns[k])
    PROVE  /\ EntryAt(x, k)
           /\ \A p \in Acceptors : apc[p] = "add" => asock[p] # x
           /\ \A n \in Nodes : hpc[n] \in {"add", "move"} => hsock[n] # x
<1>1. EntryAt(x, k)
  BY DEF Owned
<1>2. ASSUME NEW p \in Acceptors, apc[p] = "add", asock[p] = x PROVE FALSE
  <2>1. AcceptorNode[p] = k
    BY <1>1, <1>2 DEF Owned, EntryAt
  <2> QED
    BY <1>2, <2>1 DEF Single, AcceptorAlone
<1>3. ASSUME NEW n \in Nodes, hpc[n] \in {"add", "move"}, hsock[n] = x PROVE FALSE
  <2>1. n = k
    BY <1>1, <1>3 DEF Owned, EntryAt
  <2> QED
    BY <1>3, <2>1 DEF Single, HandlerAlone
<1> QED
  BY <1>1, <1>2, <1>3

\* The same callbacks and processes carry the same entries, none of which is x.
OthersKeep(x) ==
    /\ \A p \in Acceptors : apc'[p] = "add" =>
           apc[p] = "add" /\ asock'[p] = asock[p] /\ asock[p] # x
    /\ \A n \in Nodes : hpc'[n] \in {"add", "move"} =>
           hpc[n] \in {"add", "move"} /\ hsock'[n] = hsock[n] /\ hsock[n] # x

\* An entry that is in no table is added to incoming_conns ...
LEMMA IncomingAdd ==
    ASSUME TypeOK, Single, NEW k \in Nodes, NEW x \in Sockets,
           x \notin ToSet(incoming[k]) \cup ToSet(conns[k]), OthersKeep(x),
           incoming' = [incoming EXCEPT ![k] = Append(@, x)], conns' = conns
    PROVE  /\ Single'
           /\ incoming' \in [Nodes -> Seq(Sockets)]
           /\ \A n \in Nodes : incoming[n] # << >> => incoming'[n] # << >>
           /\ \A n \in Nodes : \A y \in ToSet(incoming'[n]) \cup ToSet(conns'[n]) :
                 y \in ToSet(incoming[n]) \cup ToSet(conns[n]) \/ (n = k /\ y = x)
<1>1. /\ incoming'[k] = Append(incoming[k], x)
      /\ \A n \in Nodes : n # k => incoming'[n] = incoming[n]
      /\ incoming[k] \in Seq(Sockets)
  BY DEF TypeOK
<1>2. /\ incoming'[k] \in Seq(Sockets) /\ incoming'[k] # << >>
      /\ ToSet(incoming'[k]) = ToSet(incoming[k]) \cup {x}
      /\ IsInjective(incoming[k]) => IsInjective(incoming'[k])
  BY <1>1, AppendSet
<1>3. \A n \in Nodes : \A y \in ToSet(incoming'[n]) \cup ToSet(conns'[n]) :
          y \in ToSet(incoming[n]) \cup ToSet(conns[n]) \/ (n = k /\ y = x)
  BY <1>1, <1>2
<1>4. \A n \in Nodes : ListsApart(n)'
  BY <1>1, <1>2 DEF Single, ListsApart
<1>5. \A n \in Nodes : HandlerAlone(n)'
  BY <1>3 DEF Single, HandlerAlone, OthersKeep
<1>6. ASSUME NEW p \in Acceptors PROVE AcceptorAlone(p)'
  <2>0. AcceptorNode[p] \in Nodes /\ AcceptorAlone(p)
    BY PlacesAssumption DEF Single
  <2> SUFFICES ASSUME apc'[p] = "add" PROVE AcceptorAlone(p)'
    BY DEF AcceptorAlone
  <2>1. apc[p] = "add" /\ asock'[p] = asock[p] /\ asock[p] # x
    BY DEF OthersKeep
  <2>2. asock[p] \notin ToSet(incoming'[AcceptorNode[p]]) \cup ToSet(conns'[AcceptorNode[p]])
    BY <1>3, <2>0, <2>1 DEF AcceptorAlone
  <2> QED
    BY <2>0, <2>1, <2>2 DEF AcceptorAlone, OthersKeep
<1> QED
  BY <1>1, <1>2, <1>3, <1>4, <1>5, <1>6 DEF Single, TypeOK

\* ... or to conns.
LEMMA ConnsAdd ==
    ASSUME TypeOK, Single, NEW k \in Nodes, NEW x \in Sockets,
           x \notin ToSet(incoming[k]) \cup ToSet(conns[k]), OthersKeep(x),
           conns' = [conns EXCEPT ![k] = Append(@, x)], incoming' = incoming
    PROVE  /\ Single'
           /\ conns' \in [Nodes -> Seq(Sockets)]
           /\ \A n \in Nodes : \A y \in ToSet(incoming'[n]) \cup ToSet(conns'[n]) :
                 y \in ToSet(incoming[n]) \cup ToSet(conns[n]) \/ (n = k /\ y = x)
<1>1. /\ conns'[k] = Append(conns[k], x)
      /\ \A n \in Nodes : n # k => conns'[n] = conns[n]
      /\ conns[k] \in Seq(Sockets)
  BY DEF TypeOK
<1>2. /\ conns'[k] \in Seq(Sockets)
      /\ ToSet(conns'[k]) = ToSet(conns[k]) \cup {x}
      /\ IsInjective(conns[k]) => IsInjective(conns'[k])
  BY <1>1, AppendSet
<1>3. \A n \in Nodes : \A y \in ToSet(incoming'[n]) \cup ToSet(conns'[n]) :
          y \in ToSet(incoming[n]) \cup ToSet(conns[n]) \/ (n = k /\ y = x)
  BY <1>1, <1>2
<1>4. ASSUME NEW n \in Nodes PROVE ListsApart(n)'
  <2>0. ListsApart(n) /\ ListsApart(k)
    BY DEF Single
  <2>1. CASE n = k
    <3>1. IsInjective(conns'[k]) /\ IsInjective(incoming'[k])
      BY <1>2, <2>0 DEF ListsApart
    <3>2. ToSet(incoming'[k]) \cap ToSet(conns'[k]) = {}
      BY <1>2, <2>0 DEF ListsApart
    <3> QED
      BY <2>1, <3>1, <3>2 DEF ListsApart
  <2>2. CASE n # k
    BY <1>1, <2>0, <2>2 DEF ListsApart
  <2> QED
    BY <2>1, <2>2
<1>5. \A n \in Nodes : HandlerAlone(n)'
  BY <1>3 DEF Single, HandlerAlone, OthersKeep
<1>6. ASSUME NEW p \in Acceptors PROVE AcceptorAlone(p)'
  <2>0. AcceptorNode[p] \in Nodes /\ AcceptorAlone(p)
    BY PlacesAssumption DEF Single
  <2> SUFFICES ASSUME apc'[p] = "add" PROVE AcceptorAlone(p)'
    BY DEF AcceptorAlone
  <2>1. apc[p] = "add" /\ asock'[p] = asock[p] /\ asock[p] # x
    BY DEF OthersKeep
  <2>2. asock[p] \notin ToSet(incoming'[AcceptorNode[p]]) \cup ToSet(conns'[AcceptorNode[p]])
    BY <1>3, <2>0, <2>1 DEF AcceptorAlone
  <2> QED
    BY <2>0, <2>1, <2>2 DEF AcceptorAlone, OthersKeep
<1> QED
  BY <1>1, <1>2, <1>3, <1>4, <1>5, <1>6 DEF Single, TypeOK

\* The head of incoming_conns, or of conns, is removed: it is in no table then.
LEMMA HeadRemoved ==
    ASSUME TypeOK, Owned, Single, NEW k \in Nodes, NEW x,
           \/ /\ incoming[k] # << >> /\ x = Head(incoming[k]) /\ conns' = conns
              /\ incoming' = [incoming EXCEPT ![k] = Tail(@)]
           \/ /\ conns[k] # << >> /\ x = Head(conns[k]) /\ incoming' = incoming
              /\ conns' = [conns EXCEPT ![k] = Tail(@)]
    PROVE  /\ EntryAt(x, k)
           /\ x \notin ToSet(incoming'[k]) \cup ToSet(conns'[k])
           /\ \A p \in Acceptors : apc[p] = "add" => asock[p] # x
           /\ \A n \in Nodes : hpc[n] \in {"add", "move"} => hsock[n] # x
           /\ \A n \in Nodes : ListsApart(n)'
           /\ \A n \in Nodes : \A y \in ToSet(incoming'[n]) \cup ToSet(conns'[n]) :
                 y \in ToSet(incoming[n]) \cup ToSet(conns[n])
           /\ incoming' \in [Nodes -> Seq(Sockets)] /\ conns' \in [Nodes -> Seq(Sockets)]
<1>1. CASE /\ incoming[k] # << >> /\ x = Head(incoming[k]) /\ conns' = conns
           /\ incoming' = [incoming EXCEPT ![k] = Tail(@)]
  <2>1. /\ incoming'[k] = Tail(incoming[k]) /\ incoming[k] \in Seq(Sockets)
        /\ \A n \in Nodes : n # k => incoming'[n] = incoming[n]
    BY <1>1 DEF TypeOK
  <2>2. /\ x \in ToSet(incoming[k]) /\ ToSet(incoming'[k]) \subseteq ToSet(incoming[k])
        /\ IsInjective(incoming'[k]) /\ x \notin ToSet(incoming'[k])
        /\ incoming'[k] \in Seq(Sockets)
    BY <1>1, <2>1, TailSet DEF Single, ListsApart
  <2>3. x \notin ToSet(conns'[k])
    BY <1>1, <2>2 DEF Single, ListsApart
  <2>4. \A n \in Nodes : ListsApart(n)'
    BY <1>1, <2>1, <2>2 DEF Single, ListsApart
  <2>5. \A n \in Nodes : \A y \in ToSet(incoming'[n]) \cup ToSet(conns'[n]) :
            y \in ToSet(incoming[n]) \cup ToSet(conns[n])
    BY <1>1, <2>1, <2>2
  <2> QED
    BY <1>1, <2>1, <2>2, <2>3, <2>4, <2>5, ListedNotCarried DEF TypeOK
<1>2. CASE /\ conns[k] # << >> /\ x = Head(conns[k]) /\ incoming' = incoming
           /\ conns' = [conns EXCEPT ![k] = Tail(@)]
  <2>1. /\ conns'[k] = Tail(conns[k]) /\ conns[k] \in Seq(Sockets)
        /\ \A n \in Nodes : n # k => conns'[n] = conns[n]
    BY <1>2 DEF TypeOK
  <2>2. /\ x \in ToSet(conns[k]) /\ ToSet(conns'[k]) \subseteq ToSet(conns[k])
        /\ IsInjective(conns'[k]) /\ x \notin ToSet(conns'[k])
        /\ conns'[k] \in Seq(Sockets)
    BY <1>2, <2>1, TailSet DEF Single, ListsApart
  <2>3. x \notin ToSet(incoming'[k])
    BY <1>2, <2>2 DEF Single, ListsApart
  <2>4. \A n \in Nodes : ListsApart(n)'
    BY <1>2, <2>1, <2>2 DEF Single, ListsApart
  <2>5. \A n \in Nodes : \A y \in ToSet(incoming'[n]) \cup ToSet(conns'[n]) :
            y \in ToSet(incoming[n]) \cup ToSet(conns[n])
    BY <1>2, <2>1, <2>2
  <2> QED
    BY <1>2, <2>1, <2>2, <2>3, <2>4, <2>5, ListedNotCarried DEF TypeOK
<1> QED
  BY <1>1, <1>2

-----------------------------------------------------------------------------
(* connect *)

LEMMA Message ==
    ASSUME NEW s \in Sockets, NEW i \in 0 .. MaxData,
           NEW t \in {"REGULAR", "CONNECT", "CLOSE", "CONNECT_SUCCESS"}
    PROVE  Msg(t, s, i) \in Messages /\ Msg(t, s, i).type = t /\ Msg(t, s, i).sock = s
  BY DEF Msg, Messages

LEMMA NoData == 0 \in 0 .. MaxData
<1>1. MaxData \in Nat
  BY BoundsAssumption
<1> QED
  BY <1>1

LEMMA TransmitType ==
    ASSUME TypeOK, NEW s \in Sockets, NEW m \in Messages, Transmit(s, m)
    PROVE  chan' \in [Nodes -> Seq(Messages)]
<1>1. Other(Home(s)) \in Nodes
  BY SocketPlaces, OtherNode
<1>2. chan[Other(Home(s))] \in Seq(Messages)
  BY <1>1 DEF TypeOK
<1>3. Append(chan[Other(Home(s))], m) \in Seq(Messages)
  BY <1>2
<1> QED
  BY <1>1, <1>3 DEF TypeOK, Transmit

LEMMA SendConnectSafe ==
    ASSUME TableInv, NEW c \in Clients, SendConnect(c)
    PROVE  TableInv'
<1> DEFINE s == <<c, "client">>
<1>1. s \in Sockets /\ s[2] = "client" /\ 0 \in 0 .. MaxData
  BY SocketPlaces, NoData
<1>2. /\ spc[s] = "idle" /\ spc' = [spc EXCEPT ![s] = "connecting"]
      /\ Transmit(s, Msg("CONNECT", s, 0))
      /\ UNCHANGED <<tables, acceptVars, handlerVars, csock, written, rareVars>>
  BY DEF SendConnect
<1>3. TypeOK'
  <2>1. chan' \in [Nodes -> Seq(Messages)]
    BY <1>1, <1>2, Message, TransmitType DEF TableInv
  <2>2. spc' \in [Sockets -> {"idle", "connecting", "absent", "cloned", "open",
                              "removing", "closing", "closed", "failed"}]
    BY <1>2 DEF TableInv, TypeOK
  <2> QED
    BY <1>2, <2>1, <2>2 DEF TableInv, TypeOK, tables, acceptVars, handlerVars, rareVars
<1>4. MadeKeeps
  BY <1>1, <1>2 DEF MadeKeeps, Made, TableInv, TypeOK
<1>5. Owned'
  BY <1>2, <1>4, OwnedFrom DEF TableInv, tables, acceptVars, handlerVars
<1>6. Connects' /\ SuccessFrom'
  BY <1>2, ConnectSent DEF TableInv
<1>7. Single'
  BY <1>2, SingleSame DEF TableInv, acceptVars, handlerVars
<1>8. TakeFinds'
  BY <1>2, TakeFindsSame DEF TableInv, tables, acceptVars
<1> QED
  BY <1>3, <1>5, <1>6, <1>7, <1>8 DEF TableInv

LEMMA ConnectFailsSafe ==
    ASSUME TableInv, NEW c \in Clients, ConnectFails(c)
    PROVE  TableInv'
<1> DEFINE s == <<c, "client">>
<1>1. s \in Sockets /\ s[2] = "client" /\ 0 \in 0 .. MaxData
  BY SocketPlaces, NoData
<1>2. /\ spc[s] = "idle" /\ spc' = [spc EXCEPT ![s] = "failed"]
      /\ UNCHANGED <<tables, acceptVars, handlerVars, csock, written, closedSks, wasted>>
      /\ chan' = chan \/ Transmit(s, Msg("CONNECT", s, 0))
      /\ errors' = errors \cup {<<"connect", c>>} \/ errors' = errors \cup {<<"half-open", c>>}
  BY DEF ConnectFails, Error
<1>3. TypeOK'
  <2>1. chan' \in [Nodes -> Seq(Messages)]
    <3>1. CASE chan' = chan
      BY <3>1 DEF TableInv, TypeOK
    <3>2. CASE Transmit(s, Msg("CONNECT", s, 0))
      BY <1>1, <3>2, Message, TransmitType DEF TableInv
    <3> QED
      BY <1>2, <3>1, <3>2
  <2>2. spc' \in [Sockets -> {"idle", "connecting", "absent", "cloned", "open",
                              "removing", "closing", "closed", "failed"}]
    BY <1>2 DEF TableInv, TypeOK
  <2>3. errors' \subseteq Failures
    BY <1>2 DEF TableInv, TypeOK, Failures
  <2> QED
    BY <1>2, <2>1, <2>2, <2>3 DEF TableInv, TypeOK, tables, acceptVars, handlerVars
<1>4. MadeKeeps /\ SpcKeeps
  <2> HIDE DEF s
  <2> QED
    BY <1>1, <1>2 DEF MadeKeeps, SpcKeeps, Made, TableInv, TypeOK
<1>5. Owned'
  BY <1>2, <1>4, OwnedFrom DEF TableInv, tables, acceptVars, handlerVars
<1>6. Connects' /\ SuccessFrom'
  <2>1. CASE chan' = chan
    BY <1>4, <2>1, ChanSame DEF TableInv
  <2>2. CASE Transmit(s, Msg("CONNECT", s, 0))
    BY <1>2, <2>2, ConnectSent DEF TableInv
  <2> QED
    BY <1>2, <2>1, <2>2
<1>7. Single'
  BY <1>2, SingleSame DEF TableInv, acceptVars, handlerVars
<1>8. TakeFinds'
  BY <1>2, TakeFindsSame DEF TableInv, tables, acceptVars
<1> QED
  BY <1>3, <1>5, <1>6, <1>7, <1>8 DEF TableInv

\* The socket has had no entry before.
LEMMA AddConnectingSafe ==
    ASSUME TableInv, NEW c \in Clients, AddConnecting(c)
    PROVE  TableInv'
<1> DEFINE s == <<c, "client">>
           k == Home(s)
<1>1. s \in Sockets /\ k \in Nodes /\ s[2] = "client"
  BY SocketPlaces
<1>2. /\ spc[s] = "connecting" /\ spc' = [spc EXCEPT ![s] = "open"]
      /\ incoming' = [incoming EXCEPT ![k] = Append(@, s)] /\ conns' = conns
      /\ UNCHANGED <<chan, acceptVars, handlerVars, csock, written, rareVars>>
  BY DEF AddConnecting
<1> HIDE DEF k, s
<1>3. MadeKeeps /\ SpcKeeps /\ EntryAt(s, k)'
  BY <1>1, <1>2 DEF MadeKeeps, SpcKeeps, Made, TableInv, TypeOK, EntryAt, k
<1>4. ~EntryAt(s, k) /\ \A n : ~EntryAt(s, n)
  BY <1>2 DEF EntryAt, Made
<1>5. s \notin ToSet(incoming[k]) \cup ToSet(conns[k])
  BY <1>1, <1>4 DEF TableInv, Owned
<1>6. OthersKeep(s)
  BY <1>2, <1>4 DEF TableInv, Owned, OthersKeep, acceptVars, handlerVars
<1>7. /\ Single' /\ incoming' \in [Nodes -> Seq(Sockets)]
      /\ \A n \in Nodes : incoming[n] # << >> => incoming'[n] # << >>
      /\ \A n \in Nodes : \A y \in ToSet(incoming'[n]) \cup ToSet(conns'[n]) :
            y \in ToSet(incoming[n]) \cup ToSet(conns[n]) \/ (n = k /\ y = s)
  BY <1>1, <1>2, <1>5, <1>6, IncomingAdd DEF TableInv
<1>8. TypeOK'
  <2>1. spc' \in [Sockets -> {"idle", "connecting", "absent", "cloned", "open",
                              "removing", "closing", "closed", "failed"}]
    BY <1>2 DEF TableInv, TypeOK
  <2> QED
    BY <1>2, <1>7, <2>1 DEF TableInv, TypeOK, acceptVars, handlerVars, rareVars
<1>9. Owned'
  BY <1>2, <1>3, <1>7, OwnedFrom DEF TableInv, acceptVars, handlerVars
<1>10. Connects' /\ SuccessFrom'
  BY <1>2, <1>3, ChanSame DEF TableInv
<1>11. TakeFinds'
  BY <1>2, <1>7, TakeFindsSame, PlacesAssumption DEF TableInv, acceptVars
<1> QED
  BY <1>7, <1>8, <1>9, <1>10, <1>11 DEF TableInv

-----------------------------------------------------------------------------
(* accept *)

\* A process goes on in its wait.
LEMMA Waits ==
    ASSUME TableInv, NEW p \in Acceptors,
           NEW to \in AcceptStates \ {"add", "notify", "failed"}, AGoto(p, to),
           to \in {"finish", "take"} =>
               apc[p] = "finish" \/ incoming[AcceptorNode[p]] # << >>,
           listening' \in [Nodes -> BOOLEAN], waiters' \in [Nodes -> Seq(Acceptors)],
           UNCHANGED <<chan, tables, asock, handlerVars, programVars, rareVars>>
    PROVE  TableInv'
<1>1. /\ apc' \in [Acceptors -> AcceptStates]
      /\ \A q \in Acceptors : apc'[q] = apc[q] \/ (q = p /\ apc'[q] = to)
  BY DEF AGoto, TableInv, TypeOK
<1>2. TypeOK'
  BY <1>1 DEF TableInv, TypeOK, tables, handlerVars, programVars, rareVars
<1>3. MadeKeeps /\ SpcKeeps
  BY DEF MadeKeeps, SpcKeeps, Made, programVars
<1>4. Owned'
  BY <1>1, <1>3, OwnedFrom DEF TableInv, tables, handlerVars
<1>5. Connects' /\ SuccessFrom'
  BY <1>3, ChanSame DEF TableInv
<1>6. Single'
  BY <1>1, SingleSame DEF TableInv, handlerVars
<1>7. TakeFinds'
  BY <1>1, TakeFindsSame DEF TableInv, tables
<1> QED
  BY <1>2, <1>4, <1>5, <1>6, <1>7 DEF TableInv

LEMMA AcceptEnterSafe ==
    ASSUME TableInv, NEW p \in Acceptors, AcceptEnter(p)
    PROVE  TableInv'
<1>1. UNCHANGED <<chan, tables, waiters, asock, handlerVars, programVars, rareVars>>
  BY DEF AcceptEnter
<1>2. listening' \in [Nodes -> BOOLEAN] /\ waiters' \in [Nodes -> Seq(Acceptors)]
  BY PlacesAssumption DEF AcceptEnter, TableInv, TypeOK
<1>3. \/ AGoto(p, "prepare")
      \/ AGoto(p, "take") /\ incoming[AcceptorNode[p]] # << >>
  BY DEF AcceptEnter
<1> QED
  BY <1>1, <1>2, <1>3, Waits DEF AcceptStates

LEMMA AcceptPrepareSafe ==
    ASSUME TableInv, NEW p \in Acceptors, AcceptPrepare(p)
    PROVE  TableInv'
<1>1. /\ UNCHANGED <<chan, tables, listening, asock, handlerVars, programVars, rareVars>>
      /\ AGoto(p, "check")
  BY DEF AcceptPrepare
<1>2. waiters' \in [Nodes -> Seq(Acceptors)]
  <2>1. AcceptorNode[p] \in Nodes /\ waiters[AcceptorNode[p]] \in Seq(Acceptors)
    BY PlacesAssumption DEF TableInv, TypeOK
  <2>2. Append(waiters[AcceptorNode[p]], p) \in Seq(Acceptors)
    BY <2>1
  <2> QED
    BY <2>1, <2>2 DEF AcceptPrepare, TableInv, TypeOK
<1>3. listening' \in [Nodes -> BOOLEAN]
  BY <1>1 DEF TableInv, TypeOK
<1> QED
  BY <1>1, <1>2, <1>3, Waits DEF AcceptStates

LEMMA AcceptCheckSafe ==
    ASSUME TableInv, NEW p \in Acceptors, AcceptCheck(p)
    PROVE  TableInv'
<1>1. /\ UNCHANGED <<chan, tables, listening, waiters, asock, handlerVars, programVars, rareVars>>
      /\ AGoto(p, "asleep") \/ AGoto(p, "recheck")
  BY DEF AcceptCheck
<1>2. listening' \in [Nodes -> BOOLEAN] /\ waiters' \in [Nodes -> Seq(Acceptors)]
  BY <1>1 DEF TableInv, TypeOK
<1> QED
  BY <1>1, <1>2, Waits DEF AcceptStates

\* finish_wait takes a process off the wait queue.
LEMMA LeavesQueue ==
    ASSUME TypeOK, NEW p \in Acceptors,
           waiters' = [waiters EXCEPT ![AcceptorNode[p]] = Without(@, p)]
    PROVE  waiters' \in [Nodes -> Seq(Acceptors)]
<1>1. AcceptorNode[p] \in Nodes /\ waiters[AcceptorNode[p]] \in Seq(Acceptors)
  BY PlacesAssumption DEF TypeOK
<1>2. Without(waiters[AcceptorNode[p]], p) \in Seq(Acceptors)
  BY <1>1, WithoutType
<1> QED
  BY <1>1, <1>2 DEF TypeOK

LEMMA AcceptInterruptedSafe ==
    ASSUME TableInv, NEW p \in Acceptors, AcceptInterrupted(p)
    PROVE  TableInv'
<1>1. /\ UNCHANGED <<chan, tables, listening, asock, handlerVars, programVars, rareVars>>
      /\ AGoto(p, "interrupted")
  BY DEF AcceptInterrupted
<1>2. waiters' \in [Nodes -> Seq(Acceptors)]
  BY LeavesQueue DEF AcceptInterrupted, TableInv
<1>3. listening' \in [Nodes -> BOOLEAN]
  BY <1>1 DEF TableInv, TypeOK
<1> QED
  BY <1>1, <1>2, <1>3, Waits DEF AcceptStates

LEMMA AcceptRecheckSafe ==
    ASSUME TableInv, NEW p \in Acceptors, AcceptRecheck(p)
    PROVE  TableInv'
<1>1. /\ UNCHANGED <<chan, tables, listening, waiters, asock, handlerVars, programVars, rareVars>>
      /\ \/ AGoto(p, "finish") /\ incoming[AcceptorNode[p]] # << >>
         \/ AGoto(p, "prepare")
         \/ AGoto(p, "give up")
  BY DEF AcceptRecheck
<1>2. listening' \in [Nodes -> BOOLEAN] /\ waiters' \in [Nodes -> Seq(Acceptors)]
  BY <1>1 DEF TableInv, TypeOK
<1> QED
  BY <1>1, <1>2, Waits DEF AcceptStates

LEMMA AcceptFinishSafe ==
    ASSUME TableInv, NEW p \in Acceptors, AcceptFinish(p)
    PROVE  TableInv'
<1>1. /\ UNCHANGED <<chan, tables, listening, asock, handlerVars, programVars, rareVars>>
      /\ (AGoto(p, "take") /\ apc[p] = "finish") \/ AGoto(p, "idle")
  BY DEF AcceptFinish
<1>2. waiters' \in [Nodes -> Seq(Acceptors)]
  BY LeavesQueue DEF AcceptFinish, TableInv
<1>3. listening' \in [Nodes -> BOOLEAN]
  BY <1>1 DEF TableInv, TypeOK
<1> QED
  BY <1>1, <1>2, <1>3, Waits DEF AcceptStates

\* The head of the queue is taken by this process alone.
LEMMA AcceptTakeSafe ==
    ASSUME TableInv, NEW p \in Acceptors, AcceptTake(p)
    PROVE  TableInv'
<1> DEFINE k == AcceptorNode[p]
<1>1. /\ k \in Nodes /\ apc[p] = "take"
      /\ UNCHANGED <<chan, conns, listening, waiters, handlerVars, programVars, rareVars>>
  BY PlacesAssumption DEF AcceptTake
<1>2. MadeKeeps /\ SpcKeeps
  BY <1>1 DEF MadeKeeps, SpcKeeps, Made, programVars
<1>3. Connects' /\ SuccessFrom'
  BY <1>1, <1>2, ChanSame DEF TableInv
<1>4. CASE incoming[k] = << >>
  <2>1. /\ UNCHANGED <<incoming, asock>> /\ apc' \in [Acceptors -> AcceptStates]
        /\ \A q \in Acceptors : apc'[q] = apc[q] \/ (q = p /\ apc'[q] = "failed")
    BY <1>4 DEF AcceptTake, AGoto, TableInv, TypeOK, AcceptStates
  <2>2. TypeOK'
    BY <1>1, <2>1 DEF TableInv, TypeOK, handlerVars, programVars, rareVars
  <2>3. Owned'
    BY <1>1, <1>2, <2>1, OwnedFrom DEF TableInv, handlerVars
  <2>4. Single'
    BY <1>1, <2>1, SingleSame DEF TableInv, handlerVars, tables
  <2>5. TakeFinds'
    BY <1>1, <1>4 DEF TableInv, TakeFinds
  <2> QED
    BY <1>3, <2>2, <2>3, <2>4, <2>5 DEF TableInv
<1>5. CASE incoming[k] # << >>
  <2> DEFINE x == Head(incoming[k])
  <2>1. /\ incoming' = [incoming EXCEPT ![k] = Tail(@)]
        /\ asock' = [asock EXCEPT ![p] = x] /\ AGoto(p, "add")
    BY <1>5 DEF AcceptTake
  <2>2. /\ EntryAt(x, k)
        /\ x \notin ToSet(incoming'[k]) \cup ToSet(conns'[k])
        /\ \A q \in Acceptors : apc[q] = "add" => asock[q] # x
        /\ \A n \in Nodes : hpc[n] \in {"add", "move"} => hsock[n] # x
        /\ \A n \in Nodes : ListsApart(n)'
        /\ \A n \in Nodes : \A y \in ToSet(incoming'[n]) \cup ToSet(conns'[n]) :
              y \in ToSet(incoming[n]) \cup ToSet(conns[n])
        /\ incoming' \in [Nodes -> Seq(Sockets)]
    BY <1>1, <1>5, <2>1, HeadRemoved DEF TableInv
  <2> HIDE DEF k, x
  <2>3. /\ asock'[p] = x /\ apc'[p] = "add" /\ apc' \in [Acceptors -> AcceptStates]
        /\ \A q \in Acceptors : q # p => apc'[q] = apc[q] /\ asock'[q] = asock[q]
        /\ asock' \in [Acceptors -> Sockets \cup {NoSocket}]
    BY <2>1, <2>2 DEF AGoto, TableInv, TypeOK, AcceptStates, EntryAt
  <2>4. TypeOK'
    BY <1>1, <2>2, <2>3 DEF TableInv, TypeOK, handlerVars, programVars, rareVars
  <2>5. EntryAt(asock[p], AcceptorNode[p])'
    BY <1>1, <2>2, <2>3 DEF EntryAt, Made, programVars, k
  <2>6. Owned'
    BY <1>1, <1>2, <2>2, <2>3, <2>5, OwnedFrom DEF TableInv, handlerVars
  <2>7. Single'
    <3>1. \A n \in Nodes : HandlerAlone(n)'
      BY <1>1, <2>2 DEF TableInv, Single, HandlerAlone, handlerVars
    <3>2. AcceptorAlone(p)'
      BY <1>1, <2>2, <2>3 DEF AcceptorAlone, k, handlerVars
    <3>3. ASSUME NEW q \in Acceptors, q # p, apc'[q] = "add" PROVE AcceptorAlone(q)'
      <4>1. apc[q] = "add" /\ asock'[q] = asock[q] /\ asock[q] # x /\ AcceptorAlone(q)
        BY <2>2, <2>3, <3>3 DEF TableInv, Single
      <4>2. asock[q] \notin ToSet(incoming'[AcceptorNode[q]]) \cup ToSet(conns'[AcceptorNode[q]])
        BY <2>2, <4>1, PlacesAssumption DEF AcceptorAlone
      <4>3. \A n \in Nodes : hpc'[n] \in {"add", "move"} => hsock'[n] # asock[q]
        BY <1>1, <4>1 DEF AcceptorAlone, handlerVars
      <4>4. \A r \in Acceptors : apc'[r] = "add" /\ asock'[r] = asock[q] => r = q
        BY <2>3, <4>1 DEF AcceptorAlone
      <4> QED
        BY <4>1, <4>2, <4>3, <4>4 DEF AcceptorAlone
    <3> QED
      BY <2>2, <3>1, <3>2, <3>3 DEF Single, AcceptorAlone
  <2>8. TakeFinds'
    BY <1>1, <2>3 DEF TableInv, TakeFinds
  <2> QED
    BY <1>3, <2>4, <2>6, <2>7, <2>8 DEF TableInv
<1> QED
  BY <1>4, <1>5

\* The entry a process carries is added to conns.
LEMMA AcceptAddSafe ==
    ASSUME TableInv, NEW p \in Acceptors, AcceptAdd(p)
    PROVE  TableInv'
<1> DEFINE k == AcceptorNode[p]
           x == asock[p]
<1>1. /\ k \in Nodes /\ apc[p] = "add" /\ AGoto(p, "notify")
      /\ conns' = [conns EXCEPT ![k] = Append(@, x)]
      /\ UNCHANGED <<chan, incoming, listening, waiters, asock, handlerVars, programVars, rareVars>>
  BY PlacesAssumption DEF AcceptAdd
<1>2. MadeKeeps /\ SpcKeeps
  BY <1>1 DEF MadeKeeps, SpcKeeps, Made, programVars
<1>3. EntryAt(x, k) /\ x \in Sockets
  BY <1>1 DEF TableInv, Owned, EntryAt
<1>4. AcceptorAlone(p)
  BY DEF TableInv, Single
<1>5. /\ apc'[p] = "notify" /\ apc' \in [Acceptors -> AcceptStates]
      /\ \A q \in Acceptors : q # p => apc'[q] = apc[q]
  BY <1>1 DEF AGoto, TableInv, TypeOK, AcceptStates
<1>6. x \notin ToSet(incoming[k]) \cup ToSet(conns[k]) /\ OthersKeep(x)
  BY <1>1, <1>4, <1>5 DEF AcceptorAlone, OthersKeep, handlerVars
<1> HIDE DEF k, x
<1>7. /\ Single' /\ conns' \in [Nodes -> Seq(Sockets)]
      /\ \A n \in Nodes : \A y \in ToSet(incoming'[n]) \cup ToSet(conns'[n]) :
            y \in ToSet(incoming[n]) \cup ToSet(conns[n]) \/ (n = k /\ y = x)
  BY <1>1, <1>3, <1>6, ConnsAdd DEF TableInv
<1>8. TypeOK'
  BY <1>1, <1>5, <1>7 DEF TableInv, TypeOK, handlerVars, programVars, rareVars
<1>9. /\ \A y : y = x => EntryAt(y, k)'
      /\ EntryAt(asock[p], AcceptorNode[p])'
  BY <1>1, <1>3 DEF EntryAt, Made, programVars, x, k
<1>10. Owned'
  BY <1>1, <1>2, <1>5, <1>7, <1>9, OwnedFrom DEF TableInv, handlerVars
<1>11. Connects' /\ SuccessFrom'
  BY <1>1, <1>2, ChanSame DEF TableInv
<1>12. TakeFinds'
  BY <1>1, <1>5, TakeFindsSame DEF TableInv
<1> QED
  BY <1>7, <1>8, <1>10, <1>11, <1>12 DEF TableInv

\* accept returns, with or without a socket.
LEMMA AcceptReturns ==
    ASSUME TableInv, NEW p \in Acceptors, apc[p] = "notify",
           Transmit(asock[p], Msg("CONNECT_SUCCESS", asock[p], 0)),
           spc' = spc \/ spc' = [spc EXCEPT ![asock[p]] = "open"],
           asock' = [asock EXCEPT ![p] = NoSocket], AGoto(p, "idle"),
           errors' \subseteq Failures,
           UNCHANGED <<tables, listening, waiters, handlerVars, csock, written, closedSks, wasted>>
    PROVE  TableInv'
<1> DEFINE x == asock[p]
           k == AcceptorNode[p]
           m == Msg("CONNECT_SUCCESS", x, 0)
<1>1. EntryAt(x, k) /\ k \in Nodes /\ Home(x) = k /\ x \in Sockets
  BY PlacesAssumption DEF TableInv, Owned, EntryAt
<1>2. m \in Messages /\ m.type = "CONNECT_SUCCESS"
  BY <1>1, NoData, Message
<1>3. chan' \in [Nodes -> Seq(Messages)] /\ chan' = [chan EXCEPT ![Other(k)] = Append(@, m)]
  BY <1>1, <1>2, TransmitType DEF TableInv, Transmit
<1>4. /\ apc' \in [Acceptors -> AcceptStates] /\ apc'[p] = "idle"
      /\ \A q \in Acceptors : q # p => apc'[q] = apc[q] /\ asock'[q] = asock[q]
      /\ asock' \in [Acceptors -> Sockets \cup {NoSocket}]
  BY DEF AGoto, TableInv, TypeOK, AcceptStates
<1>5. MadeKeeps /\ SpcKeeps
  BY <1>1 DEF MadeKeeps, SpcKeeps, Made, EntryAt, TableInv, TypeOK
<1>6. TypeOK'
  <2>1. spc' \in [Sockets -> {"idle", "connecting", "absent", "cloned", "open",
                              "removing", "closing", "closed", "failed"}]
    BY DEF TableInv, TypeOK
  <2> QED
    BY <1>3, <1>4, <2>1 DEF TableInv, TypeOK, tables, handlerVars
<1>7. Owned'
  BY <1>4, <1>5, OwnedFrom DEF TableInv, tables, handlerVars
<1>8. Connects' /\ SuccessFrom'
  <2> HIDE DEF m
  <2> QED
    BY <1>2, <1>3, <1>5, ChanAppend DEF TableInv
<1>9. Single'
  BY <1>4, SingleSame DEF TableInv, handlerVars
<1>10. TakeFinds'
  BY <1>4, TakeFindsSame DEF TableInv, tables
<1> QED
  BY <1>6, <1>7, <1>8, <1>9, <1>10 DEF TableInv

LEMMA AcceptNotifySafe ==
    ASSUME TableInv, NEW p \in Acceptors, AcceptNotify(p)
    PROVE  TableInv'
<1>1. errors' \subseteq Failures
  BY DEF AcceptNotify, rareVars, TableInv, TypeOK
<1>2. UNCHANGED <<closedSks, wasted>>
  BY DEF AcceptNotify, rareVars
<1> QED
  BY <1>1, <1>2, AcceptReturns DEF AcceptNotify

LEMMA AcceptNotifyFailsSafe ==
    ASSUME TableInv, NEW p \in Acceptors, AcceptNotifyFails(p)
    PROVE  TableInv'
<1>1. asock[p] \in Sockets
  BY DEF AcceptNotifyFails, TableInv, Owned, EntryAt
<1>2. asock[p][1] \in Clients
  BY <1>1, SocketPlaces
<1>3. errors' \subseteq Failures
  BY <1>2 DEF AcceptNotifyFails, Error, TableInv, TypeOK, Failures
<1>4. UNCHANGED <<closedSks, wasted>>
  BY DEF AcceptNotifyFails, Error
<1> QED
  BY <1>3, <1>4, AcceptReturns DEF AcceptNotifyFails

-----------------------------------------------------------------------------
(* sendmsg and close *)

LEMMA WriteSafe ==
    ASSUME TableInv, NEW s \in Sockets, Write(s)
    PROVE  TableInv'
<1> DEFINE m == Msg("REGULAR", s, written[s] + 1)
<1>1. /\ written[s] < MaxData /\ written' = [written EXCEPT ![s] = @ + 1] /\ Transmit(s, m)
      /\ UNCHANGED <<tables, acceptVars, handlerVars, spc, csock, rareVars>>
  BY DEF Write
<1>2. written[s] + 1 \in 0 .. MaxData
  <2>1. MaxData \in Nat
    BY BoundsAssumption
  <2>2. written[s] \in 0 .. MaxData
    BY DEF TableInv, TypeOK
  <2> QED
    BY <1>1, <2>1, <2>2
<1>3. m \in Messages /\ m.type = "REGULAR"
  BY <1>2, Message
<1> HIDE DEF m
<1>4. chan' \in [Nodes -> Seq(Messages)]
  BY <1>1, <1>3, TransmitType DEF TableInv
<1>5. written' \in [Sockets -> 0 .. MaxData]
  BY <1>1, <1>2 DEF TableInv, TypeOK
<1>6. TypeOK'
  BY <1>1, <1>4, <1>5 DEF TableInv, TypeOK, tables, acceptVars, handlerVars, rareVars
<1>7. MadeKeeps /\ SpcKeeps
  BY <1>1 DEF MadeKeeps, SpcKeeps, Made
<1>8. Owned'
  BY <1>1, <1>7, OwnedFrom DEF TableInv, tables, acceptVars, handlerVars
<1>9. Connects' /\ SuccessFrom'
  BY <1>1, <1>3, <1>7, ChanAppend DEF TableInv, Transmit
<1>10. Single'
  BY <1>1, SingleSame DEF TableInv, acceptVars, handlerVars
<1>11. TakeFinds'
  BY <1>1, TakeFindsSame DEF TableInv, tables, acceptVars
<1> QED
  BY <1>6, <1>8, <1>9, <1>10, <1>11 DEF TableInv

LEMMA CloseCheckSafe ==
    ASSUME TableInv, NEW s \in Sockets, CloseCheck(s)
    PROVE  TableInv'
<1>1. /\ spc[s] = "open"
      /\ spc' = [spc EXCEPT ![s] = "closed"] \/ spc' = [spc EXCEPT ![s] = "removing"]
      /\ UNCHANGED <<chan, tables, acceptVars, handlerVars, csock, written, rareVars>>
  BY DEF CloseCheck
<1>2. spc' \in [Sockets -> {"idle", "connecting", "absent", "cloned", "open",
                            "removing", "closing", "closed", "failed"}]
  BY <1>1 DEF TableInv, TypeOK
<1>3. TypeOK'
  BY <1>1, <1>2 DEF TableInv, TypeOK, tables, acceptVars, handlerVars, rareVars
<1>4. MadeKeeps /\ SpcKeeps
  BY <1>1 DEF MadeKeeps, SpcKeeps, Made, TableInv, TypeOK
<1>5. Owned'
  BY <1>1, <1>4, OwnedFrom DEF TableInv, tables, acceptVars, handlerVars
<1>6. Connects' /\ SuccessFrom'
  BY <1>1, <1>4, ChanSame DEF TableInv
<1>7. Single'
  BY <1>1, SingleSame DEF TableInv, acceptVars, handlerVars
<1>8. TakeFinds'
  BY <1>1, TakeFindsSame DEF TableInv, tables, acceptVars
<1> QED
  BY <1>3, <1>5, <1>6, <1>7, <1>8 DEF TableInv

\* The entry that close finds is taken from conns.
LEMMA CloseRemoveSafe ==
    ASSUME TableInv, NEW s \in Sockets, CloseRemove(s)
    PROVE  TableInv'
<1> DEFINE k == Home(s)
<1>1. /\ k \in Nodes /\ spc[s] = "removing"
      /\ UNCHANGED <<chan, incoming, acceptVars, handlerVars, written, rareVars>>
  BY SocketPlaces DEF CloseRemove
<1>2. /\ spc' = [spc EXCEPT ![s] = "closed"] \/ spc' = [spc EXCEPT ![s] = "closing"]
      /\ \/ conns' = conns /\ csock' = csock
         \/ /\ conns[k] # << >> /\ conns' = [conns EXCEPT ![k] = Tail(@)]
            /\ csock' = [csock EXCEPT ![s] = Head(conns[k])]
  BY DEF CloseRemove
<1> HIDE DEF k
<1>3. MadeKeeps /\ SpcKeeps
  BY <1>1, <1>2 DEF MadeKeeps, SpcKeeps, Made, TableInv, TypeOK
<1>4. /\ conns' \in [Nodes -> Seq(Sockets)]
      /\ csock' \in [Sockets -> Sockets \cup {NoSocket}]
      /\ \A n \in Nodes : ListsApart(n)'
      /\ \A n \in Nodes : \A y \in ToSet(incoming'[n]) \cup ToSet(conns'[n]) :
            y \in ToSet(incoming[n]) \cup ToSet(conns[n])
  <2>1. CASE conns' = conns /\ csock' = csock
    BY <1>1, <2>1 DEF TableInv, TypeOK, Single, ListsApart
  <2>2. CASE /\ conns[k] # << >> /\ conns' = [conns EXCEPT ![k] = Tail(@)]
             /\ csock' = [csock EXCEPT ![s] = Head(conns[k])]
    <3>1. conns[k] \in Seq(Sockets)
      BY <1>1 DEF TableInv, TypeOK
    <3>2. Head(conns[k]) \in Sockets
      BY <2>2, <3>1
    <3>3. csock' \in [Sockets -> Sockets \cup {NoSocket}]
      BY <2>2, <3>2 DEF TableInv, TypeOK
    <3> QED
      BY <1>1, <2>2, <3>3, HeadRemoved DEF TableInv
  <2> QED
    BY <1>2, <2>1, <2>2
<1>5. TypeOK'
  <2>1. spc' \in [Sockets -> {"idle", "connecting", "absent", "cloned", "open",
                              "removing", "closing", "closed", "failed"}]
    BY <1>2 DEF TableInv, TypeOK
  <2> QED
    BY <1>1, <1>4, <2>1 DEF TableInv, TypeOK, acceptVars, handlerVars, rareVars
<1>6. Owned'
  BY <1>1, <1>3, <1>4, OwnedFrom DEF TableInv, acceptVars, handlerVars
<1>7. Connects' /\ SuccessFrom'
  BY <1>1, <1>3, ChanSame DEF TableInv
<1>8. Single'
  BY <1>1, <1>4, PlacesAssumption
     DEF TableInv, Single, AcceptorAlone, HandlerAlone, acceptVars, handlerVars
<1>9. TakeFinds'
  BY <1>1, TakeFindsSame DEF TableInv, acceptVars
<1> QED
  BY <1>5, <1>6, <1>7, <1>8, <1>9 DEF TableInv

LEMMA CloseSendSafe ==
    ASSUME TableInv, NEW s \in Sockets, CloseSend(s)
    PROVE  TableInv'
<1> DEFINE m == Msg("CLOSE", csock[s], 0)
<1>1. /\ spc[s] = "closing" /\ spc' = [spc EXCEPT ![s] = "closed"] /\ Transmit(s, m)
      /\ csock' = [csock EXCEPT ![s] = NoSocket]
      /\ UNCHANGED <<tables, acceptVars, handlerVars, written, rareVars>>
  BY DEF CloseSend
<1>2. m \in Messages /\ m.type = "CLOSE"
  BY NoData DEF TableInv, TypeOK, Msg, Messages
<1> HIDE DEF m
<1>3. chan' \in [Nodes -> Seq(Messages)]
  BY <1>1, <1>2, TransmitType DEF TableInv
<1>4. /\ csock' \in [Sockets -> Sockets \cup {NoSocket}]
      /\ spc' \in [Sockets -> {"idle", "connecting", "absent", "cloned", "open",
                               "removing", "closing", "closed", "failed"}]
  BY <1>1 DEF TableInv, TypeOK
<1>5. TypeOK'
  BY <1>1, <1>3, <1>4 DEF TableInv, TypeOK, tables, acceptVars, handlerVars, rareVars
<1>6. MadeKeeps /\ SpcKeeps
  BY <1>1 DEF MadeKeeps, SpcKeeps, Made, TableInv, TypeOK
<1>7. Owned'
  BY <1>1, <1>6, OwnedFrom DEF TableInv, tables, acceptVars, handlerVars
<1>8. Connects' /\ SuccessFrom'
  BY <1>1, <1>2, <1>6, ChanAppend DEF TableInv, Transmit
<1>9. Single'
  BY <1>1, SingleSame DEF TableInv, acceptVars, handlerVars
<1>10. TakeFinds'
  BY <1>1, TakeFindsSame DEF TableInv, tables, acceptVars
<1> QED
  BY <1>5, <1>7, <1>8, <1>9, <1>10 DEF TableInv

-----------------------------------------------------------------------------
(* local_tcp_rcv *)

\* A message has left the channel of n; it is let fall, or the callback goes on with it.
LEMMA ArrivesType ==
    ASSUME TableInv, NEW n \in Nodes, NEW t, Arrives(n, t),
           \/ LetFall(n)
           \/ \E to \in {"queue", "add", "close", "move"} :
                 \E s \in Sockets : Proceed(n, to, s)
           \/ UNCHANGED <<hpc, hmsg, hsock, lost>>
    PROVE  /\ chan' \in [Nodes -> Seq(Messages)] /\ hmsg' \in [Nodes -> Messages]
           /\ hpc' \in [Nodes -> {"idle", "queue", "add", "wake", "close", "move"}]
           /\ hsock' \in [Nodes -> Sockets \cup {NoSocket}] /\ lost' \subseteq Messages
           /\ \A k \in Nodes \ {n} : hpc'[k] = hpc[k] /\ hsock'[k] = hsock[k]
           /\ chan[n] # << >> /\ Head(chan[n]).type = t /\ Head(chan[n]) \in Messages
           /\ Head(chan[n]) = chan[n][1] /\ 1 \in DOMAIN chan[n]
           /\ chan' = [chan EXCEPT ![n] = Tail(@)] /\ hpc[n] = "idle"
<1>1. /\ chan[n] # << >> /\ Head(chan[n]).type = t
      /\ chan' = [chan EXCEPT ![n] = Tail(@)] /\ hpc[n] = "idle"
  BY DEF Arrives
<1>2. /\ chan' \in [Nodes -> Seq(Messages)] /\ Head(chan[n]) \in Messages
      /\ Head(chan[n]) = chan[n][1] /\ 1 \in DOMAIN chan[n]
  BY <1>1, TailPlaces DEF TableInv
<1>3. CASE LetFall(n)
  BY <1>1, <1>2, <1>3 DEF TableInv, TypeOK, LetFall
<1>4. CASE \E to \in {"queue", "add", "close", "move"} : \E s \in Sockets : Proceed(n, to, s)
  BY <1>1, <1>2, <1>4 DEF TableInv, TypeOK, Proceed
<1>5. CASE UNCHANGED <<hpc, hmsg, hsock, lost>>
  BY <1>1, <1>2, <1>5 DEF TableInv, TypeOK
<1> QED
  BY <1>3, <1>4, <1>5

\* Finish leaves the callback with nothing.
LEMMA FinishType ==
    ASSUME TypeOK, NEW n \in Nodes, Finish(n)
    PROVE  /\ hpc' \in [Nodes -> {"idle", "queue", "add", "wake", "close", "move"}]
           /\ hmsg' \in [Nodes -> Messages] /\ hsock' \in [Nodes -> Sockets \cup {NoSocket}]
           /\ hpc'[n] = "idle"
           /\ \A k \in Nodes \ {n} : hpc'[k] = hpc[k] /\ hsock'[k] = hsock[k]
  BY SocketPlaces DEF TypeOK, Finish

LEMMA RcvRegularSafe ==
    ASSUME TableInv, NEW n \in Nodes, RcvRegular(n)
    PROVE  TableInv'
<1>1. /\ Arrives(n, "REGULAR")
      /\ UNCHANGED <<tables, acceptVars, crashed, received, programVars, rareVars>>
  BY DEF RcvRegular
<1>2. \/ LetFall(n)
      \/ conns[n] # << >> /\ Proceed(n, "queue", Head(conns[n]))
  BY DEF RcvRegular
<1>3. ASSUME conns[n] # << >>
      PROVE  Head(conns[n]) \in Sockets /\ EntryAt(Head(conns[n]), n)
  <2>1. conns[n] \in Seq(Sockets)
    BY DEF TableInv, TypeOK
  <2>2. Head(conns[n]) \in Sockets /\ Head(conns[n]) \in ToSet(conns[n])
    BY <1>3, <2>1, TailSet
  <2> QED
    BY <2>2 DEF TableInv, Owned
<1>4. /\ chan' \in [Nodes -> Seq(Messages)] /\ hmsg' \in [Nodes -> Messages]
      /\ hpc' \in [Nodes -> {"idle", "queue", "add", "wake", "close", "move"}]
      /\ hsock' \in [Nodes -> Sockets \cup {NoSocket}] /\ lost' \subseteq Messages
      /\ \A k \in Nodes \ {n} : hpc'[k] = hpc[k] /\ hsock'[k] = hsock[k]
      /\ chan[n] # << >> /\ chan' = [chan EXCEPT ![n] = Tail(@)] /\ hpc[n] = "idle"
  BY <1>1, <1>2, <1>3, ArrivesType
<1>5. /\ hpc'[n] \in {"idle", "queue"}
      /\ hpc'[n] = "queue" => conns[n] # << >> /\ hsock'[n] = Head(conns[n])
  BY <1>2, <1>4 DEF LetFall, Proceed, TableInv, TypeOK
<1>6. TypeOK'
  BY <1>1, <1>4 DEF TableInv, TypeOK, tables, acceptVars, programVars, rareVars
<1>7. MadeKeeps /\ SpcKeeps
  BY <1>1 DEF MadeKeeps, SpcKeeps, Made, programVars
<1>8. hpc'[n] = "queue" => EntryAt(hsock[n], n)'
  BY <1>1, <1>3, <1>5 DEF EntryAt, Made, programVars
<1>9. Owned'
  BY <1>1, <1>4, <1>5, <1>7, <1>8, OwnedFrom DEF TableInv, tables, acceptVars
<1>10. Connects' /\ SuccessFrom'
  BY <1>4, <1>7, ChanTail DEF TableInv
<1>11. Single'
  BY <1>1, <1>4, <1>5, SingleSame DEF TableInv, acceptVars
<1>12. TakeFinds'
  BY <1>1, TakeFindsSame DEF TableInv, tables, acceptVars
<1> QED
  BY <1>6, <1>9, <1>10, <1>11, <1>12 DEF TableInv

LEMMA RcvQueueSafe ==
    ASSUME TableInv, NEW n \in Nodes, RcvQueue(n)
    PROVE  TableInv'
<1>1. /\ Finish(n) /\ received' = [received EXCEPT ![hsock[n]] = Append(@, hmsg[n])]
      /\ UNCHANGED <<chan, tables, acceptVars, crashed, lost, programVars, rareVars>>
  BY DEF RcvQueue
<1>2. received' \in [Sockets -> Seq(Messages)]
  <2>1. hsock[n] \in Sockets /\ hmsg[n] \in Messages
    BY DEF TableInv, Owned, EntryAt, RcvQueue, TypeOK
  <2>2. Append(received[hsock[n]], hmsg[n]) \in Seq(Messages)
    BY <2>1 DEF TableInv, TypeOK
  <2> QED
    BY <1>1, <2>1, <2>2 DEF TableInv, TypeOK
<1>3. /\ hpc' \in [Nodes -> {"idle", "queue", "add", "wake", "close", "move"}]
      /\ hmsg' \in [Nodes -> Messages] /\ hsock' \in [Nodes -> Sockets \cup {NoSocket}]
      /\ hpc'[n] = "idle" /\ \A k \in Nodes \ {n} : hpc'[k] = hpc[k] /\ hsock'[k] = hsock[k]
  BY <1>1, FinishType DEF TableInv
<1>4. TypeOK'
  BY <1>1, <1>2, <1>3 DEF TableInv, TypeOK, tables, acceptVars, programVars, rareVars
<1>5. MadeKeeps /\ SpcKeeps
  BY <1>1 DEF MadeKeeps, SpcKeeps, Made, programVars
<1>6. Owned'
  BY <1>1, <1>3, <1>5, OwnedFrom DEF TableInv, tables, acceptVars
<1>7. Connects' /\ SuccessFrom'
  BY <1>1, <1>5, ChanSame DEF TableInv
<1>8. Single'
  BY <1>1, <1>3, SingleSame DEF TableInv, acceptVars
<1>9. TakeFinds'
  BY <1>1, TakeFindsSame DEF TableInv, tables, acceptVars
<1> QED
  BY <1>4, <1>6, <1>7, <1>8, <1>9 DEF TableInv

\* The entry that is made for a CONNECT is the first of its socket.
LEMMA RcvConnectSafe ==
    ASSUME TableInv, NEW n \in Nodes, RcvConnect(n)
    PROVE  TableInv'
<1> DEFINE h == Head(chan[n])
           s == Peer(h.sock)
<1>1. /\ Arrives(n, "CONNECT")
      /\ UNCHANGED <<tables, acceptVars, crashed, received, csock, written, rareVars>>
  BY DEF RcvConnect
<1>2. \/ LetFall(n) /\ UNCHANGED spc
      \/ Proceed(n, "add", s) /\ spc' = [spc EXCEPT ![s] = "cloned"]
  BY DEF RcvConnect
<1>3. chan[n] # << >> /\ h = chan[n][1] /\ 1 \in DOMAIN chan[n] /\ h.type = "CONNECT"
  BY <1>1, TailPlaces DEF Arrives, TableInv
<1>4. Awaited(h, n)
  <2>1. chan[n][1].type = "CONNECT"
    BY <1>3
  <2>2. Awaited(chan[n][1], n)
    BY <1>3, <2>1 DEF TableInv, Connects
  <2> HIDE DEF h
  <2> QED
    BY <1>3, <2>2
<1> HIDE DEF h
<1>5. /\ s \in Sockets /\ spc[s] = "absent" /\ Home(s) = n
  BY <1>4, SocketPlaces DEF Awaited
<1>6. /\ chan' \in [Nodes -> Seq(Messages)] /\ hmsg' \in [Nodes -> Messages]
      /\ hpc' \in [Nodes -> {"idle", "queue", "add", "wake", "close", "move"}]
      /\ hsock' \in [Nodes -> Sockets \cup {NoSocket}] /\ lost' \subseteq Messages
      /\ \A k \in Nodes \ {n} : hpc'[k] = hpc[k] /\ hsock'[k] = hsock[k]
      /\ chan' = [chan EXCEPT ![n] = Tail(@)] /\ hpc[n] = "idle"
  BY <1>1, <1>2, <1>5, ArrivesType
<1>7. spc' \in [Sockets -> {"idle", "connecting", "absent", "cloned", "open",
                            "removing", "closing", "closed", "failed"}]
  BY <1>2 DEF TableInv, TypeOK
<1>8. TypeOK'
  BY <1>1, <1>6, <1>7 DEF TableInv, TypeOK, tables, acceptVars, rareVars
<1>9. MadeKeeps
  BY <1>2, <1>5 DEF MadeKeeps, Made, TableInv, TypeOK
<1>10. CASE LetFall(n) /\ UNCHANGED spc
  <2>1. hpc' = hpc /\ hsock' = hsock
    BY <1>10 DEF LetFall
  <2>2. Owned'
    BY <1>1, <1>9, <2>1, OwnedFrom DEF TableInv, tables, acceptVars
  <2>3. Connects' /\ SuccessFrom'
    <3>1. SpcKeeps
      BY <1>10 DEF SpcKeeps
    <3> QED
      BY <1>3, <1>6, <3>1, ChanTail DEF TableInv
  <2>4. Single'
    BY <1>1, <2>1, SingleSame DEF TableInv, acceptVars
  <2>5. TakeFinds'
    BY <1>1, TakeFindsSame DEF TableInv, tables, acceptVars
  <2> QED
    BY <1>8, <2>2, <2>3, <2>4, <2>5 DEF TableInv
<1>11. CASE Proceed(n, "add", s) /\ spc' = [spc EXCEPT ![s] = "cloned"]
  <2>1. hpc'[n] = "add" /\ hsock'[n] = s
    BY <1>11 DEF Proceed, TableInv, TypeOK
  <2>2. spc'[s] = "cloned"
    BY <1>5, <1>11 DEF TableInv, TypeOK
  <2>3. EntryAt(hsock[n], n)'
    BY <1>5, <2>1, <2>2 DEF EntryAt, Made
  <2>4. Owned'
    BY <1>1, <1>6, <1>9, <2>3, OwnedFrom DEF TableInv, tables, acceptVars
  <2>5. Connects' /\ SuccessFrom'
    BY <1>3, <1>6, <1>11, ConnectTaken DEF TableInv, h
  <2>6. \A k : ~EntryAt(s, k)
    BY <1>5 DEF EntryAt, Made
  <2> HIDE DEF s
  <2>7. Single'
    <3>1. \A k \in Nodes : ListsApart(k)'
      BY <1>1 DEF TableInv, Single, ListsApart, tables
    <3>2. \A k \in Nodes : HandlerAlone(k)'
      BY <1>1, <1>6, <2>1, <2>6 DEF TableInv, Owned, Single, HandlerAlone, tables
    <3>3. \A p \in Acceptors : AcceptorAlone(p)'
      BY <1>1, <1>6, <2>1, <2>6 DEF TableInv, Owned, Single, AcceptorAlone, tables, acceptVars
    <3> QED
      BY <3>1, <3>2, <3>3 DEF Single
  <2>8. TakeFinds'
    BY <1>1, TakeFindsSame DEF TableInv, tables, acceptVars
  <2> QED
    BY <1>8, <2>4, <2>5, <2>7, <2>8 DEF TableInv
<1> QED
  BY <1>2, <1>10, <1>11

\* A callback that follows a null pointer had a message to handle.
LEMMA CrashType ==
    ASSUME TypeOK, NEW n \in Nodes, chan[n] # << >>, NEW null \in {"skb", "clone", "psk"},
           Crash(n, null)
    PROVE  crashed' \subseteq Crashes
<1>1. Head(chan[n]) \in Messages
  BY DEF TypeOK
<1> QED
  BY <1>1 DEF Crash, Crashes, TypeOK

LEMMA RcvConnectFailsSafe ==
    ASSUME TableInv, NEW n \in Nodes, RcvConnectFails(n)
    PROVE  TableInv'
<1> DEFINE h == Head(chan[n])
<1>1. /\ Arrives(n, "CONNECT")
      /\ UNCHANGED <<tables, acceptVars, received, programVars, closedSks, wasted>>
      /\ UNCHANGED <<hpc, hmsg, hsock, lost>> \/ LetFall(n)
      /\ crashed' = crashed \/ Crash(n, "clone")
      /\ \/ errors' = errors \cup {<<"clone", h.sock[1]>>}
         \/ errors' = errors \cup {<<"entry", h.sock[1]>>}
  BY DEF RcvConnectFails, Error
<1>2. chan[n] # << >> /\ h = chan[n][1] /\ 1 \in DOMAIN chan[n] /\ h.type = "CONNECT"
  BY <1>1, TailPlaces DEF Arrives, TableInv
<1>3. h.sock \in Sockets
  <2>1. chan[n][1].type = "CONNECT"
    BY <1>2
  <2>2. Awaited(chan[n][1], n)
    BY <1>2, <2>1 DEF TableInv, Connects
  <2> HIDE DEF h
  <2> QED
    BY <1>2, <2>2 DEF Awaited
<1>4. h.sock[1] \in Clients
  BY <1>3, SocketPlaces
<1> HIDE DEF h
<1>5. /\ chan' \in [Nodes -> Seq(Messages)] /\ lost' \subseteq Messages
      /\ chan' = [chan EXCEPT ![n] = Tail(@)] /\ hpc' = hpc /\ hsock' = hsock /\ hmsg' = hmsg
  BY <1>1, ArrivesType DEF LetFall
<1>6. /\ errors' \subseteq Failures
      /\ crashed' \subseteq Crashes
  <2>1. errors' \subseteq Failures
    BY <1>1, <1>4 DEF TableInv, TypeOK, Failures
  <2>2. crashed' \subseteq Crashes
    BY <1>1, <1>2, CrashType DEF TableInv, TypeOK
  <2> QED
    BY <2>1, <2>2
<1>7. TypeOK'
  BY <1>1, <1>5, <1>6 DEF TableInv, TypeOK, tables, acceptVars, programVars
<1>8. MadeKeeps /\ SpcKeeps
  BY <1>1 DEF MadeKeeps, SpcKeeps, Made, programVars
<1>9. Owned'
  BY <1>1, <1>5, <1>8, OwnedFrom DEF TableInv, tables, acceptVars
<1>10. Connects' /\ SuccessFrom'
  BY <1>2, <1>5, <1>8, ChanTail DEF TableInv
<1>11. Single'
  BY <1>1, <1>5, SingleSame DEF TableInv, acceptVars
<1>12. TakeFinds'
  BY <1>1, TakeFindsSame DEF TableInv, tables, acceptVars
<1> QED
  BY <1>7, <1>9, <1>10, <1>11, <1>12 DEF TableInv

\* What the callback carries nobody else does.
LEMMA HandlerCarries ==
    ASSUME TableInv, NEW n \in Nodes, hpc[n] \in {"add", "move"},
           \A k \in Nodes \ {n} : hpc'[k] = hpc[k] /\ hsock'[k] = hsock[k],
           hpc'[n] \notin {"add", "move"}, UNCHANGED acceptVars
    PROVE  /\ hsock[n] \in Sockets /\ EntryAt(hsock[n], n)
           /\ hsock[n] \notin ToSet(incoming[n]) \cup ToSet(conns[n])
           /\ OthersKeep(hsock[n])
<1>1. EntryAt(hsock[n], n)
  BY DEF TableInv, Owned
<1>2. hsock[n] \notin ToSet(incoming[n]) \cup ToSet(conns[n])
  BY DEF TableInv, Single, HandlerAlone
<1>3. \A p \in Acceptors : apc[p] = "add" => asock[p] # hsock[n]
  BY DEF TableInv, Single, AcceptorAlone
<1>4. \A k \in Nodes \ {n} : hpc[k] \in {"add", "move"} => hsock[k] # hsock[n]
  BY <1>1 DEF TableInv, Owned, EntryAt
<1> QED
  BY <1>1, <1>2, <1>3, <1>4 DEF OthersKeep, acceptVars, EntryAt

LEMMA RcvAddSafe ==
    ASSUME TableInv, NEW n \in Nodes, RcvAdd(n)
    PROVE  TableInv'
<1> DEFINE x == hsock[n]
<1>1. /\ hpc[n] = "add" /\ hpc' = [hpc EXCEPT ![n] = "wake"]
      /\ incoming' = [incoming EXCEPT ![n] = Append(@, x)]
      /\ UNCHANGED <<chan, conns, acceptVars, hmsg, hsock, crashed, lost, received,
                     programVars, rareVars>>
  BY DEF RcvAdd
<1>2. /\ hpc' \in [Nodes -> {"idle", "queue", "add", "wake", "close", "move"}]
      /\ hpc'[n] = "wake" /\ \A k \in Nodes \ {n} : hpc'[k] = hpc[k] /\ hsock'[k] = hsock[k]
  BY <1>1 DEF TableInv, TypeOK
<1>3. /\ x \in Sockets /\ EntryAt(x, n)
      /\ x \notin ToSet(incoming[n]) \cup ToSet(conns[n]) /\ OthersKeep(x)
  BY <1>1, <1>2, HandlerCarries
<1> HIDE DEF x
<1>4. /\ Single' /\ incoming' \in [Nodes -> Seq(Sockets)]
      /\ \A k \in Nodes : incoming[k] # << >> => incoming'[k] # << >>
      /\ \A k \in Nodes : \A y \in ToSet(incoming'[k]) \cup ToSet(conns'[k]) :
            y \in ToSet(incoming[k]) \cup ToSet(conns[k]) \/ (k = n /\ y = x)
  BY <1>1, <1>3, IncomingAdd DEF TableInv
<1>5. TypeOK'
  BY <1>1, <1>2, <1>4 DEF TableInv, TypeOK, acceptVars, programVars, rareVars
<1>6. MadeKeeps /\ SpcKeeps
  BY <1>1 DEF MadeKeeps, SpcKeeps, Made, programVars
<1>7. \A y : y = x => EntryAt(y, n)'
  BY <1>3, <1>6 DEF EntryAt, MadeKeeps
<1>8. Owned'
  BY <1>1, <1>2, <1>4, <1>6, <1>7, OwnedFrom DEF TableInv, acceptVars
<1>9. Connects' /\ SuccessFrom'
  BY <1>1, <1>6, ChanSame DEF TableInv
<1>10. TakeFinds'
  BY <1>1, <1>4, TakeFindsSame, PlacesAssumption DEF TableInv, acceptVars
<1> QED
  BY <1>4, <1>5, <1>8, <1>9, <1>10 DEF TableInv

LEMMA RcvMoveSafe ==
    ASSUME TableInv, NEW n \in Nodes, RcvMove(n)
    PROVE  TableInv'
<1> DEFINE x == hsock[n]
<1>1. /\ hpc[n] = "move" /\ Finish(n)
      /\ conns' = [conns EXCEPT ![n] = Append(@, x)]
      /\ UNCHANGED <<chan, incoming, acceptVars, crashed, lost, received, programVars, rareVars>>
  BY DEF RcvMove
<1>2. /\ hpc' \in [Nodes -> {"idle", "queue", "add", "wake", "close", "move"}]
      /\ hmsg' \in [Nodes -> Messages] /\ hsock' \in [Nodes -> Sockets \cup {NoSocket}]
      /\ hpc'[n] = "idle" /\ \A k \in Nodes \ {n} : hpc'[k] = hpc[k] /\ hsock'[k] = hsock[k]
  BY <1>1, FinishType DEF TableInv
<1>3. /\ x \in Sockets /\ EntryAt(x, n)
      /\ x \notin ToSet(incoming[n]) \cup ToSet(conns[n]) /\ OthersKeep(x)
  BY <1>1, <1>2, HandlerCarries
<1> HIDE DEF x
<1>4. /\ Single' /\ conns' \in [Nodes -> Seq(Sockets)]
      /\ \A k \in Nodes : \A y \in ToSet(incoming'[k]) \cup ToSet(conns'[k]) :
            y \in ToSet(incoming[k]) \cup ToSet(conns[k]) \/ (k = n /\ y = x)
  BY <1>1, <1>3, ConnsAdd DEF TableInv
<1>5. TypeOK'
  BY <1>1, <1>2, <1>4 DEF TableInv, TypeOK, acceptVars, programVars, rareVars
<1>6. MadeKeeps /\ SpcKeeps
  BY <1>1 DEF MadeKeeps, SpcKeeps, Made, programVars
<1>7. \A y : y = x => EntryAt(y, n)'
  BY <1>3, <1>6 DEF EntryAt, MadeKeeps
<1>8. Owned'
  BY <1>1, <1>2, <1>4, <1>6, <1>7, OwnedFrom DEF TableInv, acceptVars
<1>9. Connects' /\ SuccessFrom'
  BY <1>1, <1>6, ChanSame DEF TableInv
<1>10. TakeFinds'
  BY <1>1, TakeFindsSame DEF TableInv, acceptVars
<1> QED
  BY <1>4, <1>5, <1>8, <1>9, <1>10 DEF TableInv

LEMMA RcvWakeSafe ==
    ASSUME TableInv, NEW n \in Nodes, RcvWake(n)
    PROVE  TableInv'
<1>1. /\ Finish(n)
      /\ UNCHANGED <<chan, tables, listening, asock, crashed, lost, received, programVars,
                     closedSks, errors>>
  BY DEF RcvWake
<1>2. /\ hpc' \in [Nodes -> {"idle", "queue", "add", "wake", "close", "move"}]
      /\ hmsg' \in [Nodes -> Messages] /\ hsock' \in [Nodes -> Sockets \cup {NoSocket}]
      /\ hpc'[n] = "idle" /\ \A k \in Nodes \ {n} : hpc'[k] = hpc[k] /\ hsock'[k] = hsock[k]
  BY <1>1, FinishType DEF TableInv
<1>3. /\ waiters' \in [Nodes -> Seq(Acceptors)] /\ apc' \in [Acceptors -> AcceptStates]
      /\ \A p \in Acceptors : apc'[p] = apc[p] \/ apc'[p] = "recheck"
  <2>1. CASE waiters[n] = << >>
    BY <2>1 DEF RcvWake, TableInv, TypeOK
  <2>2. CASE waiters[n] # << >>
    <3>1. waiters' = [waiters EXCEPT ![n] = Tail(@)]
      BY <2>2 DEF RcvWake
    <3>2. waiters[n] \in Seq(Acceptors)
      BY DEF TableInv, TypeOK
    <3>3. Tail(waiters[n]) \in Seq(Acceptors) /\ Head(waiters[n]) \in Acceptors
      BY <2>2, <3>2
    <3>4. apc' = [apc EXCEPT ![Head(waiters[n])] = IF @ = "asleep" THEN "recheck" ELSE @]
      BY <2>2 DEF RcvWake
    <3>5. /\ apc' \in [Acceptors -> AcceptStates]
          /\ \A p \in Acceptors : apc'[p] = apc[p] \/ apc'[p] = "recheck"
      BY <3>3, <3>4 DEF TableInv, TypeOK, AcceptStates
    <3> QED
      BY <3>1, <3>3, <3>5 DEF TableInv, TypeOK
  <2> QED
    BY <2>1, <2>2
<1>4. wasted' \subseteq Nodes
  BY DEF RcvWake, TableInv, TypeOK
<1>5. TypeOK'
  BY <1>1, <1>2, <1>3, <1>4 DEF TableInv, TypeOK, tables, programVars
<1>6. MadeKeeps /\ SpcKeeps
  BY <1>1 DEF MadeKeeps, SpcKeeps, Made, programVars
<1>7. Owned'
  BY <1>1, <1>2, <1>3, <1>6, OwnedFrom DEF TableInv, tables
<1>8. Connects' /\ SuccessFrom'
  BY <1>1, <1>6, ChanSame DEF TableInv
<1>9. Single'
  BY <1>1, <1>2, <1>3, SingleSame DEF TableInv
<1>10. TakeFinds'
  BY <1>1, <1>3, TakeFindsSame DEF TableInv, tables
<1> QED
  BY <1>5, <1>7, <1>8, <1>9, <1>10 DEF TableInv

LEMMA RcvCloseSafe ==
    ASSUME TableInv, NEW n \in Nodes, RcvClose(n)
    PROVE  TableInv'
<1> DEFINE x == Head(conns[n])
<1>1. /\ Arrives(n, "CLOSE")
      /\ UNCHANGED <<incoming, acceptVars, received, programVars, rareVars>>
  BY DEF RcvClose
<1>2. \/ /\ UNCHANGED <<conns, hpc, hmsg, hsock, lost>> /\ Crash(n, "psk")
      \/ /\ conns[n] # << >> /\ Proceed(n, "close", x)
         /\ conns' = [conns EXCEPT ![n] = Tail(@)] /\ crashed' = crashed
  BY DEF RcvClose
<1>3. MadeKeeps /\ SpcKeeps
  BY <1>1 DEF MadeKeeps, SpcKeeps, Made, programVars
<1>4. /\ conns' \in [Nodes -> Seq(Sockets)]
      /\ \A k \in Nodes : ListsApart(k)'
      /\ \A k \in Nodes : \A y \in ToSet(incoming'[k]) \cup ToSet(conns'[k]) :
            y \in ToSet(incoming[k]) \cup ToSet(conns[k])
      /\ conns' # conns => x \in Sockets /\ EntryAt(x, n)
      /\ hpc' # hpc => x \in Sockets /\ EntryAt(x, n)
  <2>1. CASE conns' = conns /\ hpc' = hpc
    BY <1>1, <2>1 DEF TableInv, TypeOK, Single, ListsApart
  <2>2. CASE conns[n] # << >> /\ conns' = [conns EXCEPT ![n] = Tail(@)]
    BY <1>1, <2>2, HeadRemoved DEF TableInv, EntryAt
  <2> QED
    BY <1>2, <2>1, <2>2
<1> HIDE DEF x
<1>5. /\ chan' \in [Nodes -> Seq(Messages)] /\ hmsg' \in [Nodes -> Messages]
      /\ hpc' \in [Nodes -> {"idle", "queue", "add", "wake", "close", "move"}]
      /\ hsock' \in [Nodes -> Sockets \cup {NoSocket}] /\ lost' \subseteq Messages
      /\ \A k \in Nodes \ {n} : hpc'[k] = hpc[k] /\ hsock'[k] = hsock[k]
      /\ chan[n] # << >> /\ chan' = [chan EXCEPT ![n] = Tail(@)] /\ hpc[n] = "idle"
  <2>1. CASE UNCHANGED <<hpc, hmsg, hsock, lost>>
    BY <1>1, <2>1, ArrivesType
  <2>2. CASE hpc' # hpc /\ Proceed(n, "close", x)
    BY <1>1, <1>4, <2>2, ArrivesType
  <2>3. hpc[n] = "idle"
    BY <1>1 DEF Arrives
  <2>4. Proceed(n, "close", x) => hpc' # hpc
    BY <2>3 DEF Proceed, TableInv, TypeOK
  <2> QED
    BY <1>2, <2>1, <2>2, <2>4
<1>6. /\ hpc'[n] \in {"idle", "close"}
      /\ hpc'[n] = "close" => hsock'[n] = x /\ hpc' # hpc
  BY <1>2, <1>5 DEF Proceed, TableInv, TypeOK
<1>7. TypeOK'
  <2>1. crashed' \subseteq Crashes
    BY <1>2, <1>5, CrashType DEF TableInv, TypeOK
  <2> QED
    BY <1>1, <1>4, <1>5, <2>1 DEF TableInv, TypeOK, acceptVars, programVars, rareVars
<1>8. hpc'[n] = "close" => EntryAt(hsock[n], n)'
  BY <1>1, <1>4, <1>6 DEF EntryAt, Made, programVars
<1>9. Owned'
  BY <1>1, <1>3, <1>4, <1>5, <1>6, <1>8, OwnedFrom DEF TableInv, acceptVars
<1>10. Connects' /\ SuccessFrom'
  BY <1>3, <1>5, ChanTail DEF TableInv
<1>11. Single'
  <2>1. \A k \in Nodes : hpc'[k] \in {"add", "move"} =>
            hpc[k] \in {"add", "move"} /\ hsock'[k] = hsock[k]
    BY <1>5, <1>6
  <2>2. \A k \in Nodes : HandlerAlone(k)'
    BY <1>4, <2>1 DEF TableInv, Single, HandlerAlone
  <2>3. \A p \in Acceptors : AcceptorAlone(p)'
    BY <1>1, <1>4, <2>1, PlacesAssumption DEF TableInv, Single, AcceptorAlone, acceptVars
  <2> QED
    BY <1>4, <2>2, <2>3 DEF Single
<1>12. TakeFinds'
  BY <1>1, TakeFindsSame DEF TableInv, acceptVars
<1> QED
  BY <1>7, <1>9, <1>10, <1>11, <1>12 DEF TableInv

LEMMA RcvCloseStateSafe ==
    ASSUME TableInv, NEW n \in Nodes, RcvCloseState(n)
    PROVE  TableInv'
<1>1. /\ Finish(n) /\ closedSks' = closedSks \cup {hsock[n]}
      /\ UNCHANGED <<chan, tables, acceptVars, crashed, lost, received, programVars,
                     wasted, errors>>
  BY DEF RcvCloseState
<1>2. closedSks' \subseteq Sockets
  BY <1>1 DEF RcvCloseState, TableInv, Owned, EntryAt, TypeOK
<1>3. /\ hpc' \in [Nodes -> {"idle", "queue", "add", "wake", "close", "move"}]
      /\ hmsg' \in [Nodes -> Messages] /\ hsock' \in [Nodes -> Sockets \cup {NoSocket}]
      /\ hpc'[n] = "idle" /\ \A k \in Nodes \ {n} : hpc'[k] = hpc[k] /\ hsock'[k] = hsock[k]
  BY <1>1, FinishType DEF TableInv
<1>4. TypeOK'
  BY <1>1, <1>2, <1>3 DEF TableInv, TypeOK, tables, acceptVars, programVars
<1>5. MadeKeeps /\ SpcKeeps
  BY <1>1 DEF MadeKeeps, SpcKeeps, Made, programVars
<1>6. Owned'
  BY <1>1, <1>3, <1>5, OwnedFrom DEF TableInv, tables, acceptVars
<1>7. Connects' /\ SuccessFrom'
  BY <1>1, <1>5, ChanSame DEF TableInv
<1>8. Single'
  BY <1>1, <1>3, SingleSame DEF TableInv, acceptVars
<1>9. TakeFinds'
  BY <1>1, TakeFindsSame DEF TableInv, tables, acceptVars
<1> QED
  BY <1>4, <1>6, <1>7, <1>8, <1>9 DEF TableInv

\* A confirmation takes the head of the queue, on a node where nobody accepts if only
\* one process does.
LEMMA RcvSuccessSafe ==
    ASSUME TableInv, NEW n \in Nodes, RcvSuccess(n)
    PROVE  TableInv'
<1> DEFINE x == Head(incoming[n])
<1>1. /\ Arrives(n, "CONNECT_SUCCESS")
      /\ UNCHANGED <<conns, acceptVars, crashed, received, programVars, rareVars>>
  BY DEF RcvSuccess
<1>2. MadeKeeps /\ SpcKeeps
  BY <1>1 DEF MadeKeeps, SpcKeeps, Made, programVars
<1>3. CASE incoming[n] = << >>
  <2>1. LetFall(n) /\ incoming' = incoming
    BY <1>3 DEF RcvSuccess
  <2>2. /\ chan' \in [Nodes -> Seq(Messages)] /\ lost' \subseteq Messages
        /\ chan[n] # << >> /\ chan' = [chan EXCEPT ![n] = Tail(@)]
        /\ hpc' = hpc /\ hsock' = hsock /\ hmsg' = hmsg
    BY <1>1, <2>1, ArrivesType DEF LetFall
  <2>3. TypeOK'
    BY <1>1, <2>1, <2>2 DEF TableInv, TypeOK, acceptVars, programVars, rareVars
  <2>4. Owned'
    BY <1>1, <1>2, <2>1, <2>2, OwnedFrom DEF TableInv, acceptVars
  <2>5. Connects' /\ SuccessFrom'
    BY <1>2, <2>2, ChanTail DEF TableInv
  <2>6. Single'
    BY <1>1, <2>1, <2>2, SingleSame DEF TableInv, acceptVars, tables
  <2>7. TakeFinds'
    BY <1>1, <2>1, TakeFindsSame DEF TableInv, acceptVars
  <2> QED
    BY <2>3, <2>4, <2>5, <2>6, <2>7 DEF TableInv
<1>4. CASE incoming[n] # << >>
  <2>1. Proceed(n, "move", x) /\ incoming' = [incoming EXCEPT ![n] = Tail(@)]
    BY <1>4 DEF RcvSuccess
  <2>2. /\ EntryAt(x, n) /\ x \in Sockets
        /\ x \notin ToSet(incoming'[n]) \cup ToSet(conns'[n])
        /\ \A p \in Acceptors : apc[p] = "add" => asock[p] # x
        /\ \A k \in Nodes : hpc[k] \in {"add", "move"} => hsock[k] # x
        /\ \A k \in Nodes : ListsApart(k)'
        /\ \A k \in Nodes : \A y \in ToSet(incoming'[k]) \cup ToSet(conns'[k]) :
              y \in ToSet(incoming[k]) \cup ToSet(conns[k])
        /\ incoming' \in [Nodes -> Seq(Sockets)]
    BY <1>1, <1>4, <2>1, HeadRemoved DEF TableInv, EntryAt
  <2> HIDE DEF x
  <2>3. /\ chan' \in [Nodes -> Seq(Messages)] /\ hmsg' \in [Nodes -> Messages]
        /\ hpc' \in [Nodes -> {"idle", "queue", "add", "wake", "close", "move"}]
        /\ hsock' \in [Nodes -> Sockets \cup {NoSocket}] /\ lost' \subseteq Messages
        /\ \A k \in Nodes \ {n} : hpc'[k] = hpc[k] /\ hsock'[k] = hsock[k]
        /\ chan[n] # << >> /\ chan[n][1].type = "CONNECT_SUCCESS" /\ 1 \in DOMAIN chan[n]
        /\ chan' = [chan EXCEPT ![n] = Tail(@)]
    BY <1>1, <2>1, <2>2, ArrivesType
  <2>4. hpc'[n] = "move" /\ hsock'[n] = x
    BY <2>1 DEF Proceed, TableInv, TypeOK
  <2>5. TypeOK'
    BY <1>1, <2>2, <2>3, <2>1 DEF TableInv, TypeOK, Proceed, acceptVars, programVars, rareVars
  <2>6. EntryAt(hsock[n], n)'
    BY <1>1, <2>2, <2>4 DEF EntryAt, Made, programVars
  <2>7. Owned'
    BY <1>1, <1>2, <2>2, <2>3, <2>6, OwnedFrom DEF TableInv, acceptVars
  <2>8. Connects' /\ SuccessFrom'
    BY <1>2, <2>3, ChanTail DEF TableInv
  <2>9. Single'
    <3>1. HandlerAlone(n)'
      BY <2>2, <2>4 DEF HandlerAlone
    <3>2. ASSUME NEW k \in Nodes, k # n PROVE HandlerAlone(k)'
      BY <2>2, <2>3, <3>2 DEF TableInv, Single, HandlerAlone
    <3>3. ASSUME NEW p \in Acceptors, apc'[p] = "add" PROVE AcceptorAlone(p)'
      <4>1. /\ apc[p] = "add" /\ asock'[p] = asock[p] /\ asock[p] # x /\ AcceptorAlone(p)
            /\ apc' = apc /\ asock' = asock
        BY <1>1, <2>2, <3>3 DEF TableInv, Single, acceptVars
      <4>2. asock[p] \notin ToSet(incoming'[AcceptorNode[p]]) \cup ToSet(conns'[AcceptorNode[p]])
        BY <2>2, <4>1, PlacesAssumption DEF AcceptorAlone
      <4>3. \A k \in Nodes : hpc'[k] \in {"add", "move"} => hsock'[k] # asock[p]
        BY <2>3, <2>4, <4>1 DEF AcceptorAlone
      <4> QED
        BY <4>1, <4>2, <4>3 DEF AcceptorAlone
    <3> QED
      BY <2>2, <3>1, <3>2, <3>3 DEF Single, AcceptorAlone
  <2>10. TakeFinds'
    <3>1. PICK q \in Acceptors : n = Other(AcceptorNode[q])
      BY <2>3 DEF TableInv, SuccessFrom
    <3>2. n # AcceptorNode[q]
      BY <3>1, OtherNode, PlacesAssumption
    <3>3. incoming'[AcceptorNode[q]] = incoming[AcceptorNode[q]]
      BY <2>1, <3>2, PlacesAssumption DEF TableInv, TypeOK
    <3> QED
      BY <1>1, <3>3 DEF TableInv, TakeFinds, acceptVars
  <2> QED
    BY <2>5, <2>7, <2>8, <2>9, <2>10 DEF TableInv
<1> QED
  BY <1>3, <1>4

-----------------------------------------------------------------------------
(* The theorems *)

\* Without memory for the skb nothing moves.
LEMMA RcvNoMemorySafe ==
    ASSUME TableInv, NEW n \in Nodes, RcvNoMemory(n)
    PROVE  TableInv'
<1>1. /\ UNCHANGED <<chan, tables, acceptVars, hpc, hmsg, hsock, lost, received, programVars>>
      /\ UNCHANGED <<closedSks, wasted>>
      /\ chan[n] # << >> /\ Crash(n, "skb") /\ errors' = errors \cup {<<"skb", n>>}
  BY DEF RcvNoMemory, Error
<1>2. TypeOK'
  <2>1. crashed' \subseteq Crashes
    BY <1>1, CrashType DEF TableInv
  <2>2. errors' \subseteq Failures
    BY <1>1 DEF TableInv, TypeOK, Failures
  <2> QED
    BY <1>1, <2>1, <2>2 DEF TableInv, TypeOK, tables, acceptVars, programVars
<1>3. UNCHANGED <<chan, incoming, conns, apc, asock, hpc, hsock, spc>>
  BY <1>1 DEF tables, acceptVars, programVars
<1>4. MadeKeeps /\ SpcKeeps
  BY <1>3 DEF MadeKeeps, SpcKeeps, Made
<1>5. Owned'
  BY <1>3, <1>4, OwnedFrom DEF TableInv
<1>6. Connects' /\ SuccessFrom'
  BY <1>3, <1>4, ChanSame DEF TableInv
<1>7. Single'
  BY <1>1, <1>3, SingleSame DEF TableInv, tables
<1>8. TakeFinds'
  BY <1>1, <1>3, TakeFindsSame DEF TableInv
<1> QED
  BY <1>2, <1>5, <1>6, <1>7, <1>8 DEF TableInv

LEMMA TableInit == ASSUME Init PROVE TableInv
<1>1. TypeOK
  <2>1. /\ NoMsg \in Messages /\ NoSocket \in Sockets \cup {NoSocket}
        /\ << >> \in Seq(Messages) /\ << >> \in Seq(Sockets) /\ << >> \in Seq(Acceptors)
        /\ 0 \in 0 .. MaxData
    BY SocketPlaces, NoData
  <2>2. /\ chan \in [Nodes -> Seq(Messages)] /\ incoming \in [Nodes -> Seq(Sockets)]
        /\ conns \in [Nodes -> Seq(Sockets)] /\ waiters \in [Nodes -> Seq(Acceptors)]
        /\ received \in [Sockets -> Seq(Messages)] /\ written \in [Sockets -> 0 .. MaxData]
    BY <2>1 DEF Init
  <2>3. /\ listening \in [Nodes -> BOOLEAN]
        /\ apc \in [Acceptors -> AcceptStates]
        /\ asock \in [Acceptors -> Sockets \cup {NoSocket}]
        /\ csock \in [Sockets -> Sockets \cup {NoSocket}]
        /\ hpc \in [Nodes -> {"idle", "queue", "add", "wake", "close", "move"}]
        /\ hmsg \in [Nodes -> Messages] /\ hsock \in [Nodes -> Sockets \cup {NoSocket}]
    BY <2>1 DEF Init, AcceptStates
  <2>4. spc \in [Sockets -> {"idle", "connecting", "absent", "cloned", "open",
                             "removing", "closing", "closed", "failed"}]
    BY DEF Init
  <2>5. /\ closedSks \subseteq Sockets /\ crashed \subseteq Crashes /\ lost \subseteq Messages
        /\ wasted \subseteq Nodes
        /\ errors \subseteq Failures
    BY DEF Init
  <2> QED
    BY <2>2, <2>3, <2>4, <2>5 DEF TypeOK
<1>2. \A n \in Nodes : chan[n] = << >> /\ incoming[n] = << >> /\ conns[n] = << >> /\ hpc[n] = "idle"
  BY DEF Init
<1>3. \A p \in Acceptors : apc[p] = "idle"
  BY DEF Init
<1>4. ToSet(<< >>) = {} /\ IsInjective(<< >>) /\ DOMAIN << >> = {}
  BY DEF ToSet, IsInjective
<1>5. Owned
  BY <1>2, <1>3, <1>4 DEF Owned
<1>6. \A c \in Clients : spc[<<c, "client">>] = "idle" => spc[<<c, "server">>] = "absent"
  BY SocketPlaces DEF Init
<1>7. Connects /\ SuccessFrom
  BY <1>2, <1>4, <1>6 DEF Connects, SuccessFrom
<1>8. Single
  BY <1>2, <1>3, <1>4 DEF Single, ListsApart, HandlerAlone, AcceptorAlone
<1>9. TakeFinds
  BY <1>3 DEF TakeFinds
<1> QED
  BY <1>1, <1>5, <1>7, <1>8, <1>9 DEF TableInv

LEMMA TableStutter == ASSUME TableInv, UNCHANGED vars PROVE TableInv'
<1>1. UNCHANGED <<chan, incoming, conns, apc, asock, hpc, hsock, spc>>
  BY DEF vars, tables, acceptVars, handlerVars, programVars
<1>2. TypeOK'
  BY DEF TableInv, TypeOK, vars, tables, acceptVars, handlerVars, programVars, rareVars
<1>3. MadeKeeps /\ SpcKeeps
  BY <1>1 DEF MadeKeeps, SpcKeeps, Made
<1>4. Owned'
  BY <1>1, <1>3, OwnedFrom DEF TableInv
<1>5. Connects' /\ SuccessFrom'
  BY <1>1, <1>3, ChanSame DEF TableInv
<1>6. Single'
  BY <1>1, SingleSame DEF TableInv, tables
<1>7. TakeFinds'
  BY <1>1, TakeFindsSame DEF TableInv
<1> QED
  BY <1>2, <1>4, <1>5, <1>6, <1>7 DEF TableInv

LEMMA TableStep == ASSUME TableInv, [Next]_vars PROVE TableInv'
<1>1. ASSUME NEW c \in Clients, SendConnect(c) \/ ConnectFails(c) \/ AddConnecting(c)
      PROVE  TableInv'
  BY <1>1, SendConnectSafe, ConnectFailsSafe, AddConnectingSafe
<1>2. ASSUME NEW p \in Acceptors,
             AcceptEnter(p) \/ AcceptInterrupted(p) \/ AcceptStep(p) \/ AcceptNotifyFails(p)
      PROVE  TableInv'
  BY <1>2, AcceptEnterSafe, AcceptPrepareSafe, AcceptCheckSafe, AcceptInterruptedSafe,
     AcceptRecheckSafe, AcceptFinishSafe, AcceptTakeSafe, AcceptAddSafe, AcceptNotifySafe,
     AcceptNotifyFailsSafe DEF AcceptStep
<1>3. ASSUME NEW s \in Sockets, Write(s) \/ CloseCheck(s) \/ CloseStep(s)
      PROVE  TableInv'
  BY <1>3, WriteSafe, CloseCheckSafe, CloseRemoveSafe, CloseSendSafe DEF CloseStep
<1>4. ASSUME NEW n \in Nodes, RcvStep(n)
      PROVE  TableInv'
  BY <1>4, RcvRegularSafe, RcvQueueSafe, RcvConnectSafe, RcvConnectFailsSafe, RcvAddSafe,
     RcvWakeSafe, RcvCloseSafe, RcvCloseStateSafe, RcvSuccessSafe, RcvMoveSafe,
     RcvNoMemorySafe DEF RcvStep
<1>5. CASE UNCHANGED vars
  BY <1>5, TableStutter
<1> QED
  BY <1>1, <1>2, <1>3, <1>4, <1>5 DEF Next

THEOREM TablesInvariant == Spec => []TableInv
<1>1. Init => TableInv
  BY TableInit
<1>2. TableInv /\ [Next]_vars => TableInv'
  BY TableStep
<1> QED
  BY <1>1, <1>2, PTL DEF Spec

\* Every variable has its type, whatever connects, accepts, closes and fails: the
\* entries of the tables are sockets and never null pointers.
THEOREM TypesHold == Spec => []TypeOK
<1>1. TableInv => TypeOK
  BY DEF TableInv
<1> QED
  BY <1>1, TablesInvariant, PTL

\* An entry is in at most one list of its node, once, and in none while accept or the
\* callback carries it, for any number of connections, acceptors and closers, any
\* interleaving of them and any errors of connect, accept and the callback.
THEOREM EntriesInOneTable == Spec => []OneTable
<1>1. TableInv => OneTable
  <2> SUFFICES ASSUME TableInv PROVE OneTable
    OBVIOUS
  <2>1. \A n \in Nodes : ListsApart(n)
    BY DEF TableInv, Single
  <2>2. \A n \in Nodes : \A x \in ToSet(incoming[n]) \cup ToSet(conns[n]) : ~Carried(x)
    BY ListedNotCarried DEF TableInv, Carried
  <2>3. \A p, q \in Acceptors : apc[p] = "add" /\ apc[q] = "add" /\ asock[p] = asock[q] => p = q
    BY DEF TableInv, Single, AcceptorAlone
  <2> QED
    BY <2>1, <2>2, <2>3 DEF OneTable, ListsApart
<1> QED
  BY <1>1, TablesInvariant, PTL

\* With one process in accept, the connection that ended its wait is still there when
\* it takes it: no close and no callback of its node removes it meanwhile.
THEOREM OneAcceptorFindsConnection == Spec => []AcceptFindsConnection
<1>1. TableInv => AcceptFindsConnection
  BY DEF TableInv, TakeFinds, AcceptFindsConnection
<1> QED
  BY <1>1, TablesInvariant, PTL

-----------------------------------------------------------------------------
(* The order of messages in a channel *)

LEMMA AppendAt ==
    ASSUME NEW S, NEW q \in Seq(S), NEW m \in S
    PROVE  /\ \A i \in DOMAIN q : i \in DOMAIN Append(q, m) /\ Append(q, m)[i] = q[i]
           /\ \A i \in DOMAIN Append(q, m) : i \in DOMAIN q \/ Append(q, m)[i] = m
           /\ \E i \in DOMAIN Append(q, m) :
                 Append(q, m)[i] = m /\ \A k \in DOMAIN q : k < i /\ ~(i < k) /\ ~(k > i)
           /\ \A i, k \in DOMAIN Append(q, m) : k \in DOMAIN q /\ i \notin DOMAIN q => i > k /\ k < i
           /\ \A i, k \in DOMAIN Append(q, m) : i \notin DOMAIN q /\ k \notin DOMAIN q => i = k
           /\ \A i \in DOMAIN Append(q, m) : i \in Nat
<1>1. /\ Append(q, m) \in Seq(S) /\ Len(Append(q, m)) = Len(q) + 1 /\ Len(q) \in Nat
      /\ Append(q, m)[Len(q) + 1] = m
      /\ \A i \in 1 .. Len(q) : Append(q, m)[i] = q[i]
      /\ DOMAIN q = 1 .. Len(q) /\ DOMAIN Append(q, m) = 1 .. Len(q) + 1
  OBVIOUS
<1>2. PICK L : L = Len(q)
  OBVIOUS
<1>3. L \in Nat /\ \A i \in 1 .. L + 1 : i \in 1 .. L \/ i = L + 1
  BY <1>1, <1>2
<1> QED
  BY <1>1, <1>2, <1>3

LEMMA TailAt ==
    ASSUME NEW S, NEW q \in Seq(S), q # << >>
    PROVE  /\ 1 \in DOMAIN q /\ q[1] = Head(q) /\ Head(q) \in S
           /\ \A i \in DOMAIN Tail(q) : i + 1 \in DOMAIN q /\ Tail(q)[i] = q[i + 1] /\ i \in Nat /\ i + 1 > 1
           /\ \A i \in DOMAIN q : i = 1 \/ (i > 1 /\ i - 1 \in DOMAIN Tail(q) /\ Tail(q)[i - 1] = q[i])
           /\ \A i \in DOMAIN q : i \in Nat /\ i >= 1
<1>1. /\ Tail(q) \in Seq(S) /\ Len(Tail(q)) = Len(q) - 1 /\ Len(q) \in Nat /\ Len(q) >= 1
      /\ \A i \in 1 .. Len(q) - 1 : Tail(q)[i] = q[i + 1]
      /\ DOMAIN q = 1 .. Len(q) /\ DOMAIN Tail(q) = 1 .. Len(q) - 1
      /\ q[1] = Head(q) /\ Head(q) \in S
  OBVIOUS
<1>2. PICK L : L = Len(q)
  OBVIOUS
<1>3. /\ L \in Nat /\ L >= 1
      /\ \A i \in 1 .. L : i = 1 \/ (i > 1 /\ i - 1 \in 1 .. L - 1 /\ (i - 1) + 1 = i)
      /\ \A i \in 1 .. L - 1 : i + 1 \in 1 .. L /\ i \in Nat /\ i + 1 > 1
  BY <1>1, <1>2
<1> QED
  BY <1>1, <1>2, <1>3

LEMMA HasMoves ==
    ASSUME NEW S, NEW q \in Seq(S), NEW t, NEW c
    PROVE  /\ \A m \in S : Has(Append(q, m), t, c) <=> Has(q, t, c) \/ (m.type = t /\ ConnOf(m) = c)
           /\ q # << >> => (Has(q, t, c) <=> Has(Tail(q), t, c) \/ (Head(q).type = t /\ ConnOf(Head(q)) = c))
<1>1. ASSUME NEW m \in S
      PROVE  Has(Append(q, m), t, c) <=> Has(q, t, c) \/ (m.type = t /\ ConnOf(m) = c)
  BY AppendAt DEF Has
<1>2. ASSUME q # << >>
      PROVE  Has(q, t, c) <=> Has(Tail(q), t, c) \/ (Head(q).type = t /\ ConnOf(Head(q)) = c)
  <2>0. /\ 1 \in DOMAIN q /\ q[1] = Head(q)
        /\ \A i \in DOMAIN Tail(q) : i + 1 \in DOMAIN q /\ Tail(q)[i] = q[i + 1]
        /\ \A i \in DOMAIN q : i = 1 \/ (i - 1 \in DOMAIN Tail(q) /\ Tail(q)[i - 1] = q[i])
    BY <1>2, TailAt
  <2>1. ASSUME NEW i \in DOMAIN q, q[i].type = t, ConnOf(q[i]) = c, i # 1
        PROVE  Has(Tail(q), t, c)
    <3>1. i - 1 \in DOMAIN Tail(q) /\ Tail(q)[i - 1] = q[i]
      BY <2>0, <2>1
    <3> QED
      BY <2>1, <3>1 DEF Has
  <2>2. ASSUME NEW i \in DOMAIN Tail(q), Tail(q)[i].type = t, ConnOf(Tail(q)[i]) = c
        PROVE  Has(q, t, c)
    <3>1. i + 1 \in DOMAIN q /\ Tail(q)[i] = q[i + 1]
      BY <2>0
    <3> QED
      BY <2>2, <3>1 DEF Has
  <2>3. Has(q, t, c) => Has(Tail(q), t, c) \/ (Head(q).type = t /\ ConnOf(Head(q)) = c)
    BY <2>0, <2>1 DEF Has
  <2>4. Head(q).type = t /\ ConnOf(Head(q)) = c => Has(q, t, c)
    BY <2>0 DEF Has
  <2>5. Has(Tail(q), t, c) => Has(q, t, c)
    BY <2>2 DEF Has
  <2> QED
    BY <2>3, <2>4, <2>5
<1> QED
  BY <1>1, <1>2

LEMMA NoneMoves ==
    ASSUME NEW S, NEW q \in Seq(S), NEW c, NoneOf(q, c)
    PROVE  /\ \A m \in S : ConnOf(m) # c => NoneOf(Append(q, m), c)
           /\ q # << >> => NoneOf(Tail(q), c)
  BY AppendAt, TailAt DEF NoneOf

LEMMA AllMoves ==
    ASSUME NEW S, NEW q \in Seq(S), NEW c, AllOf(q, c)
    PROVE  /\ \A m \in S : ConnOf(m) = c => AllOf(Append(q, m), c)
           /\ \A m \in S : ConnOf(m) = c /\ m.type = "CLOSE" => EndsIn(Append(q, m), c)
           /\ q # << >> => AllOf(Tail(q), c) /\ ConnOf(Head(q)) = c
<1>1. \A m \in S : ConnOf(m) = c => AllOf(Append(q, m), c)
  BY AppendAt DEF AllOf
<1>2. ASSUME NEW m \in S, ConnOf(m) = c, m.type = "CLOSE" PROVE EndsIn(Append(q, m), c)
  <2>1. AllOf(Append(q, m), c)
    BY <1>1, <1>2
  <2>2. \E i \in DOMAIN Append(q, m) : Append(q, m)[i] = m
    BY AppendAt
  <2> QED
    BY <1>2, <2>1, <2>2 DEF AllOf, EndsIn
<1>3. q # << >> => AllOf(Tail(q), c) /\ ConnOf(Head(q)) = c
  BY TailAt DEF AllOf
<1> QED
  BY <1>1, <1>2, <1>3

LEMMA EndsMoves ==
    ASSUME NEW S, NEW q \in Seq(S), NEW c, EndsIn(q, c)
    PROVE  /\ \A m \in S : EndsIn(Append(q, m), c)
           /\ q # << >> /\ ConnOf(Head(q)) = c
           /\ Head(q).type # "CLOSE" => EndsIn(Tail(q), c)
<1>1. PICK k \in DOMAIN q : q[k].type = "CLOSE" /\ \A i \in DOMAIN q : i <= k => ConnOf(q[i]) = c
  BY DEF EndsIn
<1>2. q # << >>
  BY <1>1
<1>3. 1 <= k /\ k \in Nat
  BY <1>1, <1>2, TailAt
<1>4. ConnOf(Head(q)) = c
  BY <1>1, <1>2, <1>3, TailAt
<1>5. ASSUME NEW m \in S PROVE EndsIn(Append(q, m), c)
  <2>1. k \in DOMAIN Append(q, m) /\ Append(q, m)[k] = q[k]
    BY AppendAt
  <2>2. ASSUME NEW i \in DOMAIN Append(q, m), i <= k PROVE ConnOf(Append(q, m)[i]) = c
    <3>1. i \in DOMAIN q
      BY <1>3, <2>1, <2>2, AppendAt
    <3> QED
      BY <1>1, <2>2, <3>1, AppendAt
  <2> QED
    BY <1>1, <2>1, <2>2 DEF EndsIn
<1>6. ASSUME Head(q).type # "CLOSE" PROVE EndsIn(Tail(q), c)
  <2>1. k # 1
    BY <1>1, <1>2, <1>6, TailAt
  <2>2. k - 1 \in DOMAIN Tail(q) /\ Tail(q)[k - 1] = q[k]
    BY <1>2, <2>1, TailAt
  <2>3. ASSUME NEW i \in DOMAIN Tail(q), i <= k - 1 PROVE ConnOf(Tail(q)[i]) = c
    <3>1. i + 1 \in DOMAIN q /\ Tail(q)[i] = q[i + 1] /\ i \in Nat
      BY <1>2, TailAt
    <3>2. i + 1 <= k
      BY <1>3, <2>3, <3>1
    <3> QED
      BY <1>1, <3>1, <3>2
  <2> QED
    BY <1>1, <2>2, <2>3 DEF EndsIn
<1> QED
  BY <1>2, <1>4, <1>5, <1>6

LEMMA HeraldedMoves ==
    ASSUME NEW S, NEW q \in Seq(S), NEW t, NEW c
    PROVE  /\ \A m \in S : Heralded(q, t, c) /\ ConnOf(m) = c => Heralded(Append(q, m), t, c)
           /\ \A m \in S : m.type = t /\ ConnOf(m) = c => Heralded(Append(q, m), t, c)
           /\ q # << >> /\ Heralded(q, t, c) => Heralded(Tail(q), t, c)
           /\ q # << >> /\ Heralded(q, t, c) /\ ConnOf(Head(q)) # c => Has(Tail(q), t, c)
<1>1. ASSUME NEW m \in S, Heralded(q, t, c), ConnOf(m) = c PROVE Heralded(Append(q, m), t, c)
  BY <1>1, AppendAt DEF Heralded
<1>2. ASSUME NEW m \in S, m.type = t, ConnOf(m) = c PROVE Heralded(Append(q, m), t, c)
  <2>1. PICK k \in DOMAIN Append(q, m) : Append(q, m)[k] = m /\ \A i \in DOMAIN q : i < k /\ k > i
    BY AppendAt
  <2> QED
    BY <1>2, <2>1, AppendAt DEF Heralded
<1>3. ASSUME q # << >>, Heralded(q, t, c)
      PROVE  Heralded(Tail(q), t, c) /\ (ConnOf(Head(q)) # c => Has(Tail(q), t, c))
  <2>1. ASSUME NEW i \in DOMAIN q, ConnOf(q[i]) # c
        PROVE  \E k \in DOMAIN Tail(q) : k + 1 > i /\ Tail(q)[k].type = t /\ ConnOf(Tail(q)[k]) = c
    <3>1. PICK k \in DOMAIN q : k > i /\ q[k].type = t /\ ConnOf(q[k]) = c
      BY <1>3, <2>1 DEF Heralded
    <3>2. k \in Nat /\ i \in Nat /\ i >= 1
      BY <1>3, TailAt
    <3>3. k # 1 /\ (k - 1) + 1 > i
      BY <3>1, <3>2
    <3>4. k - 1 \in DOMAIN Tail(q) /\ Tail(q)[k - 1] = q[k]
      BY <1>3, <3>3, TailAt
    <3> QED
      BY <3>1, <3>3, <3>4
  <2>2. ASSUME NEW i \in DOMAIN Tail(q), ConnOf(Tail(q)[i]) # c
        PROVE  \E k \in DOMAIN Tail(q) : k > i /\ Tail(q)[k].type = t /\ ConnOf(Tail(q)[k]) = c
    <3>1. i + 1 \in DOMAIN q /\ Tail(q)[i] = q[i + 1] /\ i \in Nat
      BY <1>3, TailAt
    <3>2. PICK k \in DOMAIN Tail(q) :
              k + 1 > i + 1 /\ Tail(q)[k].type = t /\ ConnOf(Tail(q)[k]) = c
      BY <2>1, <2>2, <3>1
    <3>3. k \in Nat
      BY <1>3, TailAt
    <3>4. k > i
      BY <3>1, <3>2, <3>3
    <3> QED
      BY <3>2, <3>4
  <2>3. ConnOf(Head(q)) # c => Has(Tail(q), t, c)
    BY <1>3, <2>1, TailAt DEF Has
  <2> QED
    BY <2>2, <2>3 DEF Heralded
<1> QED
  BY <1>1, <1>2, <1>3

LEMMA FirstMoves ==
    ASSUME NEW S, NEW q \in Seq(S), NEW t, FirstIs(q, t)
    PROVE  /\ \A m \in S : m.type = t => (NoneOf(q, ConnOf(m)) => FirstIs(Append(q, m), t))
           /\ \A m \in S : m.type # t => FirstIs(Append(q, m), t)
           /\ q # << >> => FirstIs(Tail(q), t) /\ ~Has(Tail(q), t, ConnOf(Head(q)))
<1>1. ASSUME NEW m \in S, m.type = t => NoneOf(q, ConnOf(m)) PROVE FirstIs(Append(q, m), t)
  <2> SUFFICES ASSUME NEW i \in DOMAIN Append(q, m), NEW j \in DOMAIN Append(q, m),
                      Append(q, m)[j].type = t, i < j
               PROVE  ConnOf(Append(q, m)[i]) # ConnOf(Append(q, m)[j])
    BY DEF FirstIs
  <2>1. i \in DOMAIN q
    <3> SUFFICES ASSUME i \notin DOMAIN q PROVE FALSE
      OBVIOUS
    <3>1. i \in Nat /\ j \in Nat
      BY AppendAt
    <3>2. j \in DOMAIN q => i > j
      BY AppendAt
    <3>3. j \notin DOMAIN q => i = j
      BY AppendAt
    <3> QED
      BY <3>1, <3>2, <3>3
  <2>2. CASE j \in DOMAIN q
    BY <2>1, <2>2, AppendAt DEF FirstIs
  <2>3. CASE j \notin DOMAIN q
    <3>1. Append(q, m)[j] = m
      BY <2>3, AppendAt
    <3> QED
      BY <1>1, <2>1, <3>1, AppendAt DEF NoneOf
  <2> QED
    BY <2>2, <2>3
<1>2. ASSUME q # << >> PROVE FirstIs(Tail(q), t) /\ ~Has(Tail(q), t, ConnOf(Head(q)))
  <2>1. FirstIs(Tail(q), t)
    BY <1>2, TailAt DEF FirstIs
  <2>2. ~Has(Tail(q), t, ConnOf(Head(q)))
    <3> SUFFICES ASSUME NEW i \in DOMAIN Tail(q), Tail(q)[i].type = t, ConnOf(Tail(q)[i]) = ConnOf(Head(q))
                 PROVE  FALSE
      BY DEF Has
    <3>1. i + 1 \in DOMAIN q /\ Tail(q)[i] = q[i + 1] /\ 1 < i + 1 /\ 1 \in DOMAIN q /\ q[1] = Head(q)
      BY <1>2, TailAt
    <3> QED
      BY <3>1 DEF FirstIs
  <2> QED
    BY <2>1, <2>2
<1> QED
  BY <1>1, <1>2

LEMMA LastMoves ==
    ASSUME NEW S, NEW q \in Seq(S), NEW t, LastIs(q, t)
    PROVE  /\ \A m \in S : ~Has(q, t, ConnOf(m)) => LastIs(Append(q, m), t)
           /\ q # << >> => LastIs(Tail(q), t)
           /\ q # << >> /\ Head(q).type = t => NoneOf(Tail(q), ConnOf(Head(q)))
<1>1. ASSUME NEW m \in S, ~Has(q, t, ConnOf(m)) PROVE LastIs(Append(q, m), t)
  <2> SUFFICES ASSUME NEW i \in DOMAIN Append(q, m), NEW j \in DOMAIN Append(q, m),
                      Append(q, m)[j].type = t, i > j
               PROVE  ConnOf(Append(q, m)[i]) # ConnOf(Append(q, m)[j])
    BY DEF LastIs
  <2>1. j \in DOMAIN q
    <3> SUFFICES ASSUME j \notin DOMAIN q PROVE FALSE
      OBVIOUS
    <3>1. i \in Nat /\ j \in Nat
      BY AppendAt
    <3>2. i \in DOMAIN q => j > i
      BY AppendAt
    <3>3. i \notin DOMAIN q => i = j
      BY AppendAt
    <3> QED
      BY <3>1, <3>2, <3>3
  <2>2. CASE i \in DOMAIN q
    BY <2>1, <2>2, AppendAt DEF LastIs
  <2>3. CASE i \notin DOMAIN q
    <3>1. Append(q, m)[i] = m /\ Append(q, m)[j] = q[j]
      BY <2>1, <2>3, AppendAt
    <3> QED
      BY <1>1, <2>1, <3>1 DEF Has
  <2> QED
    BY <2>2, <2>3
<1>2. ASSUME q # << >> PROVE LastIs(Tail(q), t)
  BY <1>2, TailAt DEF LastIs
<1>3. ASSUME q # << >>, Head(q).type = t PROVE NoneOf(Tail(q), ConnOf(Head(q)))
  <2> SUFFICES ASSUME NEW i \in DOMAIN Tail(q) PROVE ConnOf(Tail(q)[i]) # ConnOf(Head(q))
    BY DEF NoneOf
  <2>1. i + 1 \in DOMAIN q /\ Tail(q)[i] = q[i + 1] /\ i + 1 > 1 /\ 1 \in DOMAIN q /\ q[1] = Head(q)
    BY <1>3, TailAt
  <2> QED
    BY <1>3, <2>1 DEF LastIs
<1> QED
  BY <1>1, <1>2, <1>3

-----------------------------------------------------------------------------
(* The two nodes *)

LEMMA TwoNodes == \E a, b : a # b /\ Nodes = {a, b}
<1>1. Nodes # {}
  BY NodesAssumption, FS_EmptySet
<1>2. PICK a : a \in Nodes
  BY <1>1
<1>3. IsFiniteSet(Nodes \ {a}) /\ Cardinality(Nodes \ {a}) = 1
  BY <1>2, NodesAssumption, FS_RemoveElement
<1>4. PICK b : Nodes \ {a} = {b}
  BY <1>3, FS_Singleton
<1> QED
  BY <1>2, <1>4

LEMMA Sides ==
    ASSUME OneWay
    PROVE  /\ Near \in Nodes /\ Far \in Nodes /\ Near # Far
           /\ Other(Near) = Far /\ Other(Far) = Near
           /\ \A n \in Nodes : n = Near \/ n = Far
           /\ \A p \in Acceptors : AcceptorNode[p] = Far
           /\ \A c \in Clients :
                 /\ Cl(c) \in Sockets /\ Sv(c) \in Sockets
                 /\ Home(Cl(c)) = Near /\ Home(Sv(c)) = Far
                 /\ Peer(Cl(c)) = Sv(c) /\ Peer(Sv(c)) = Cl(c)
           /\ \A c : Cl(c)[1] = c /\ Sv(c)[1] = c /\ Cl(c)[2] = "client" /\ Sv(c)[2] = "server"
           /\ \A s \in Sockets : s[1] \in Clients /\ (s = Cl(s[1]) \/ s = Sv(s[1]))
<1>1. /\ Near \in Nodes
      /\ \A c \in Clients : ClientNode[c] = Near
      /\ \A p \in Acceptors : AcceptorNode[p] = Other(Near)
  BY DEF OneWay, Near
<1>2. PICK a, b : a # b /\ Nodes = {a, b}
  BY TwoNodes
<1>3. Other(a) = b /\ Other(b) = a
  BY <1>2 DEF Other
<1>4. /\ \A c \in Clients : Cl(c) \in Sockets /\ Sv(c) \in Sockets
      /\ \A c : Cl(c)[1] = c /\ Sv(c)[1] = c /\ Cl(c)[2] = "client" /\ Sv(c)[2] = "server"
      /\ \A s \in Sockets : s[1] \in Clients /\ (s = Cl(s[1]) \/ s = Sv(s[1]))
  BY DEF Cl, Sv, Sockets
<1>5. \A c \in Clients : Peer(Cl(c)) = Sv(c) /\ Peer(Sv(c)) = Cl(c)
  BY DEF Peer, Cl, Sv
<1> QED
  BY <1>1, <1>2, <1>3, <1>4, <1>5 DEF Far, Home

-----------------------------------------------------------------------------
(* What the steps leave alone *)

Connecting(c) == SendConnect(c) \/ ConnectFails(c) \/ AddConnecting(c)
Awaits(p) ==
    \/ AcceptEnter(p) \/ AcceptPrepare(p) \/ AcceptCheck(p) \/ AcceptInterrupted(p)
    \/ AcceptRecheck(p) \/ AcceptFinish(p)
Notifies(p) == AcceptNotify(p) \/ AcceptNotifyFails(p)
Accepting(p) == Awaits(p) \/ AcceptTake(p) \/ AcceptAdd(p) \/ Notifies(p)
Using(s) == Write(s) \/ CloseCheck(s) \/ CloseRemove(s) \/ CloseSend(s)

LEMMA Steps ==
    ASSUME [Next]_vars
    PROVE  \/ \E c \in Clients : Connecting(c)
           \/ \E p \in Acceptors : Accepting(p)
           \/ \E s \in Sockets : Using(s)
           \/ \E n \in Nodes : RcvStep(n)
           \/ UNCHANGED vars
  BY DEF Next, Connecting, Accepting, Awaits, Notifies, AcceptStep, Using, CloseStep

LEMMA ConnectingKeeps ==
    ASSUME NEW c \in Clients, Connecting(c)
    PROVE  UNCHANGED <<conns, listening, waiters, apc, asock, hpc, hmsg, hsock, crashed, lost,
                       received, csock, written, closedSks>>
  BY DEF Connecting, SendConnect, ConnectFails, AddConnecting, Error, tables, acceptVars,
         handlerVars, rareVars

AcceptKeeps(p) ==
    /\ UNCHANGED <<hpc, hmsg, hsock, crashed, lost, received, csock, written, closedSks>>
    /\ \A q \in Acceptors : q # p => apc'[q] = apc[q] /\ asock'[q] = asock[q]

LEMMA AwaitsKeeps ==
    ASSUME TypeOK, NEW p \in Acceptors, Awaits(p)
    PROVE  /\ AcceptKeeps(p)
           /\ apc[p] \notin {"add", "notify"} /\ apc'[p] \notin {"add", "notify"}
           /\ UNCHANGED <<chan, incoming, conns, asock, spc, errors>>
<1>1. /\ UNCHANGED <<chan, tables, asock, handlerVars, programVars, rareVars>>
      /\ \E to \in AcceptStates \ {"add", "notify"} : AGoto(p, to)
      /\ apc[p] \notin {"add", "notify"}
  BY DEF Awaits, AcceptEnter, AcceptPrepare, AcceptCheck, AcceptInterrupted, AcceptRecheck,
     AcceptFinish, AcceptStates
<1>2. PICK to \in AcceptStates \ {"add", "notify"} : apc' = [apc EXCEPT ![p] = to]
  BY <1>1 DEF AGoto
<1>3. apc'[p] \notin {"add", "notify"} /\ \A q \in Acceptors : q # p => apc'[q] = apc[q]
  BY <1>2 DEF TypeOK
<1> QED
  BY <1>1, <1>3 DEF AcceptKeeps, tables, handlerVars, programVars, rareVars

LEMMA TakeDoes ==
    ASSUME TypeOK, NEW p \in Acceptors, AcceptTake(p)
    PROVE  /\ AcceptKeeps(p)
           /\ apc[p] = "take" /\ UNCHANGED <<chan, conns, spc, errors>>
           /\ \/ apc'[p] = "failed" /\ UNCHANGED <<incoming, asock>>
              \/ /\ incoming[AcceptorNode[p]] # << >> /\ apc'[p] = "add"
                 /\ asock'[p] = Head(incoming[AcceptorNode[p]])
                 /\ incoming' = [incoming EXCEPT ![AcceptorNode[p]] = Tail(@)]
  BY DEF AcceptKeeps, AcceptTake, AGoto, TypeOK, handlerVars, programVars, rareVars

LEMMA AddDoes ==
    ASSUME TypeOK, NEW p \in Acceptors, AcceptAdd(p)
    PROVE  /\ AcceptKeeps(p)
           /\ apc[p] = "add" /\ apc'[p] = "notify"
           /\ conns' = [conns EXCEPT ![AcceptorNode[p]] = Append(@, asock[p])]
           /\ UNCHANGED <<chan, incoming, asock, spc, errors>>
  BY DEF AcceptKeeps, AcceptAdd, AGoto, TypeOK, handlerVars, programVars, rareVars

LEMMA NotifiesDoes ==
    ASSUME TypeOK, NEW p \in Acceptors, Notifies(p)
    PROVE  /\ AcceptKeeps(p)
           /\ apc[p] = "notify" /\ apc'[p] = "idle"
           /\ Transmit(asock[p], Msg("CONNECT_SUCCESS", asock[p], 0))
           /\ spc' = spc \/ spc' = [spc EXCEPT ![asock[p]] = "open"]
           /\ UNCHANGED <<incoming, conns>>
  BY DEF AcceptKeeps, Notifies, AcceptNotify, AcceptNotifyFails, AGoto, TypeOK, handlerVars,
     rareVars, tables, Error

LEMMA UsingKeeps ==
    ASSUME NEW s \in Sockets, Using(s)
    PROVE  UNCHANGED <<incoming, listening, waiters, apc, asock, hpc, hmsg, hsock, crashed, lost,
                       received, closedSks, errors>>
  BY DEF Using, Write, CloseCheck, CloseRemove, CloseSend, tables, acceptVars, handlerVars, rareVars

\* Without memory for the skb only the null pointer is noted.
LEMMA NoMemoryDoes ==
    ASSUME NEW n \in Nodes, RcvNoMemory(n)
    PROVE  /\ UNCHANGED <<chan, incoming, conns, listening, waiters, apc, asock, hpc, hmsg, hsock,
                          lost, received, spc, csock, written, closedSks, wasted>>
           /\ hpc[n] = "idle" /\ Crash(n, "skb") /\ errors' = errors \cup {<<"skb", n>>}
  BY DEF RcvNoMemory, Error, tables, acceptVars, programVars

LEMMA RcvKeeps ==
    ASSUME TypeOK, NEW n \in Nodes, RcvStep(n)
    PROVE  /\ UNCHANGED <<asock, csock, written>>
           /\ \A k \in Nodes : k # n => hpc'[k] = hpc[k] /\ hsock'[k] = hsock[k] /\ hmsg'[k] = hmsg[k]
           /\ \A q \in Acceptors : apc'[q] = apc[q] \/
                 (apc[q] \notin {"add", "notify"} /\ apc'[q] \notin {"add", "notify"})
<1>1. UNCHANGED <<asock, csock, written>>
  BY DEF RcvStep, RcvRegular, RcvQueue, RcvConnect, RcvConnectFails, RcvAdd, RcvWake, RcvClose,
     RcvCloseState, RcvSuccess, RcvMove, RcvNoMemory, acceptVars, programVars
<1>2. \A k \in Nodes : k # n => hpc'[k] = hpc[k] /\ hsock'[k] = hsock[k] /\ hmsg'[k] = hmsg[k]
  <2>1. CASE RcvRegular(n) \/ RcvConnect(n) \/ RcvConnectFails(n) \/ RcvClose(n) \/ RcvSuccess(n)
    BY <2>1 DEF RcvRegular, RcvConnect, RcvConnectFails, RcvClose, RcvSuccess, Proceed, LetFall, TypeOK
  <2>2. CASE RcvQueue(n) \/ RcvAdd(n) \/ RcvWake(n) \/ RcvCloseState(n) \/ RcvMove(n)
    BY <2>2 DEF RcvQueue, RcvAdd, RcvWake, RcvCloseState, RcvMove, Finish, TypeOK
  <2> QED
    BY <2>1, <2>2, NoMemoryDoes DEF RcvStep
<1>3. \A q \in Acceptors : apc'[q] = apc[q] \/
          (apc[q] \notin {"add", "notify"} /\ apc'[q] \notin {"add", "notify"})
  <2>1. CASE RcvWake(n)
    BY <2>1 DEF RcvWake, TypeOK
  <2>2. CASE ~RcvWake(n)
    <3>1. apc' = apc
      BY <2>2 DEF RcvStep, RcvRegular, RcvQueue, RcvConnect, RcvConnectFails, RcvAdd, RcvClose,
         RcvCloseState, RcvSuccess, RcvMove, RcvNoMemory, acceptVars
    <3> QED
      BY <3>1
  <2> QED
    BY <2>1, <2>2
<1> QED
  BY <1>1, <1>2, <1>3

LEMMA TailSetIs ==
    ASSUME NEW S, NEW q \in Seq(S), q # << >>, IsInjective(q)
    PROVE  ToSet(Tail(q)) = ToSet(q) \ {Head(q)} /\ Head(q) \in ToSet(q) /\ Head(q) \in S
<1>1. /\ Head(q) \in S /\ Head(q) \in ToSet(q) /\ ToSet(Tail(q)) \subseteq ToSet(q)
      /\ Head(q) \notin ToSet(Tail(q))
  BY TailSet
<1>2. ASSUME NEW x \in ToSet(q), x # Head(q) PROVE x \in ToSet(Tail(q))
  <2>1. PICK i \in DOMAIN q : q[i] = x
    BY <1>2 DEF ToSet
  <2>2. i - 1 \in DOMAIN Tail(q) /\ Tail(q)[i - 1] = x
    BY <1>2, <2>1, TailAt
  <2> QED
    BY <2>2 DEF ToSet
<1> QED
  BY <1>1, <1>2

\* Every list, as a set.
LEMMA ListTypes ==
    ASSUME TableInv, NEW n \in Nodes
    PROVE  /\ incoming[n] \in Seq(Sockets) /\ conns[n] \in Seq(Sockets) /\ chan[n] \in Seq(Messages)
           /\ IsInjective(incoming[n]) /\ IsInjective(conns[n])
           /\ ToSet(incoming[n]) \cap ToSet(conns[n]) = {}
           /\ \A x \in ToSet(incoming[n]) \cup ToSet(conns[n]) : x \in Sockets /\ Home(x) = n
           /\ conns[n] # << >> => /\ ToSet(Tail(conns[n])) = ToSet(conns[n]) \ {Head(conns[n])}
                                  /\ Head(conns[n]) \in ToSet(conns[n])
           /\ incoming[n] # << >> => /\ ToSet(Tail(incoming[n])) = ToSet(incoming[n]) \ {Head(incoming[n])}
                                     /\ Head(incoming[n]) \in ToSet(incoming[n])
           /\ \A x \in Sockets : /\ ToSet(Append(conns[n], x)) = ToSet(conns[n]) \cup {x}
                                 /\ ToSet(Append(incoming[n], x)) = ToSet(incoming[n]) \cup {x}
           /\ conns[n] = << >> => ToSet(conns[n]) = {}
<1>1. /\ incoming[n] \in Seq(Sockets) /\ conns[n] \in Seq(Sockets) /\ chan[n] \in Seq(Messages)
  BY DEF TableInv, TypeOK
<1>2. /\ IsInjective(incoming[n]) /\ IsInjective(conns[n])
      /\ ToSet(incoming[n]) \cap ToSet(conns[n]) = {}
  BY DEF TableInv, Single, ListsApart
<1>3. \A x \in ToSet(incoming[n]) \cup ToSet(conns[n]) : x \in Sockets /\ Home(x) = n
  BY DEF TableInv, Owned, EntryAt
<1>4. conns[n] # << >> => /\ ToSet(Tail(conns[n])) = ToSet(conns[n]) \ {Head(conns[n])}
                          /\ Head(conns[n]) \in ToSet(conns[n])
  BY <1>1, <1>2, TailSetIs
<1>5. incoming[n] # << >> => /\ ToSet(Tail(incoming[n])) = ToSet(incoming[n]) \ {Head(incoming[n])}
                             /\ Head(incoming[n]) \in ToSet(incoming[n])
  BY <1>1, <1>2, TailSetIs
<1>6. \A x \in Sockets : /\ ToSet(Append(conns[n], x)) = ToSet(conns[n]) \cup {x}
                         /\ ToSet(Append(incoming[n], x)) = ToSet(incoming[n]) \cup {x}
  BY <1>1, AppendSet
<1>7. conns[n] = << >> => ToSet(conns[n]) = {}
  BY DEF ToSet
<1> QED
  BY <1>1, <1>2, <1>3, <1>4, <1>5, <1>6, <1>7

-----------------------------------------------------------------------------
(* What each step of connect, close and the callback does *)

\* A list of node n gains the entry x, or loses it.
Gains(list, n, x) ==
    /\ ToSet(list'[n]) = ToSet(list[n]) \cup {x}
    /\ \A k \in Nodes : k # n => list'[k] = list[k]
Loses(list, n, x) ==
    /\ x \in ToSet(list[n]) /\ list[n] # << >> /\ x = Head(list[n])
    /\ ToSet(list'[n]) = ToSet(list[n]) \ {x}
    /\ \A k \in Nodes : k # n => list'[k] = list[k]

LEMMA Gaining ==
    ASSUME TableInv, NEW n \in Nodes, NEW x \in Sockets
    PROVE  /\ incoming' = [incoming EXCEPT ![n] = Append(@, x)] => Gains(incoming, n, x)
           /\ conns' = [conns EXCEPT ![n] = Append(@, x)] => Gains(conns, n, x)
           /\ incoming' = [incoming EXCEPT ![n] = Tail(@)] /\ incoming[n] # << >>
                => Loses(incoming, n, Head(incoming[n]))
           /\ conns' = [conns EXCEPT ![n] = Tail(@)] /\ conns[n] # << >>
                => Loses(conns, n, Head(conns[n]))
<1>1. incoming \in [Nodes -> Seq(Sockets)] /\ conns \in [Nodes -> Seq(Sockets)]
  BY DEF TableInv, TypeOK
<1> QED
  BY <1>1, ListTypes DEF Gains, Loses

LEMMA AddConnectingDoes ==
    ASSUME TableInv, NEW c \in Clients, AddConnecting(c)
    PROVE  /\ Gains(incoming, Home(Cl(c)), Cl(c))
           /\ spc[Cl(c)] = "connecting" /\ spc' = [spc EXCEPT ![Cl(c)] = "open"]
           /\ UNCHANGED <<chan, conns, errors>>
  BY Gaining, SocketPlaces DEF AddConnecting, Cl, rareVars

LEMMA CloseRemoveDoes ==
    ASSUME TableInv, NEW s \in Sockets, CloseRemove(s)
    PROVE  /\ spc[s] = "removing" /\ UNCHANGED <<chan, incoming, written, errors>>
           /\ \/ /\ conns[Home(s)] = << >> /\ UNCHANGED <<conns, csock>>
                 /\ spc' = [spc EXCEPT ![s] = "closed"]
              \/ /\ Loses(conns, Home(s), Head(conns[Home(s)]))
                 /\ csock' = [csock EXCEPT ![s] = Head(conns[Home(s)])]
                 /\ spc' = [spc EXCEPT ![s] = "closing"]
<1>1. Home(s) \in Nodes
  BY SocketPlaces
<1> QED
  BY <1>1, Gaining DEF CloseRemove, rareVars

\* The head of a channel is taken.
Takes(n, t) ==
    /\ chan[n] # << >> /\ Head(chan[n]).type = t /\ hpc[n] = "idle"
    /\ chan'[n] = Tail(chan[n]) /\ \A k \in Nodes : k # n => chan'[k] = chan[k]

LEMMA Taking ==
    ASSUME TableInv, NEW n \in Nodes, NEW t, Arrives(n, t)
    PROVE  Takes(n, t)
  BY DEF Arrives, Takes, TableInv, TypeOK

LEMMA RegularDoes ==
    ASSUME TableInv, NEW n \in Nodes, RcvRegular(n)
    PROVE  /\ Takes(n, "REGULAR")
           /\ UNCHANGED <<incoming, conns, apc, asock, crashed, received, spc, closedSks, errors>>
           /\ \/ /\ conns[n] = << >> /\ UNCHANGED <<hpc, hmsg, hsock>>
                 /\ lost' = lost \cup {Head(chan[n])}
              \/ /\ conns[n] # << >> /\ hpc'[n] = "queue" /\ hmsg'[n] = Head(chan[n])
                 /\ hsock'[n] = Head(conns[n]) /\ UNCHANGED lost
<1>1. Takes(n, "REGULAR")
  BY Taking DEF RcvRegular
<1> QED
  BY <1>1 DEF RcvRegular, LetFall, Proceed, TableInv, TypeOK, tables, acceptVars, programVars, rareVars

LEMMA QueueDoes ==
    ASSUME TypeOK, NEW n \in Nodes, RcvQueue(n)
    PROVE  /\ hpc[n] = "queue" /\ hpc'[n] = "idle"
           /\ received' = [received EXCEPT ![hsock[n]] = Append(@, hmsg[n])]
           /\ UNCHANGED <<chan, incoming, conns, apc, asock, crashed, lost, spc, closedSks, errors>>
  BY DEF RcvQueue, Finish, TypeOK, tables, acceptVars, programVars, rareVars

LEMMA RcvAddDoes ==
    ASSUME TableInv, NEW n \in Nodes, RcvAdd(n)
    PROVE  /\ hpc[n] = "add" /\ hpc'[n] = "wake" /\ hsock'[n] = hsock[n]
           /\ Gains(incoming, n, hsock[n]) /\ hsock[n] \in Sockets
           /\ UNCHANGED <<chan, conns, apc, asock, crashed, lost, received, spc, closedSks, errors>>
<1>1. hpc[n] = "add" /\ hsock[n] \in Sockets
  BY DEF RcvAdd, TableInv, Owned, EntryAt
<1> QED
  BY <1>1, Gaining DEF RcvAdd, TableInv, TypeOK, acceptVars, programVars, rareVars

LEMMA WakeDoes ==
    ASSUME TypeOK, NEW n \in Nodes, RcvWake(n)
    PROVE  /\ hpc[n] = "wake" /\ hpc'[n] = "idle"
           /\ UNCHANGED <<chan, incoming, conns, asock, crashed, lost, received, spc, closedSks, errors>>
  BY DEF RcvWake, Finish, TypeOK, tables, acceptVars, programVars, rareVars

LEMMA CloseDoes ==
    ASSUME TableInv, NEW n \in Nodes, RcvClose(n)
    PROVE  /\ Takes(n, "CLOSE")
           /\ UNCHANGED <<incoming, apc, asock, received, spc, closedSks, errors>>
           /\ \/ /\ conns[n] = << >> /\ UNCHANGED <<conns, hpc, hmsg, hsock, lost>>
                 /\ Crash(n, "psk")
              \/ /\ Loses(conns, n, Head(conns[n])) /\ hpc'[n] = "close"
                 /\ hsock'[n] = Head(conns[n]) /\ UNCHANGED <<crashed, lost>>
<1>1. Takes(n, "CLOSE")
  BY Taking DEF RcvClose
<1>2. conns' = [conns EXCEPT ![n] = Tail(@)] /\ conns[n] # << >> => Loses(conns, n, Head(conns[n]))
  <2>1. CASE conns[n] # << >>
    <3>1. Head(conns[n]) \in Sockets
      BY <2>1, ListTypes
    <3> QED
      BY <3>1, Gaining
  <2> QED
    BY <2>1
<1> QED
  BY <1>1, <1>2 DEF RcvClose, Proceed, TableInv, TypeOK, acceptVars, programVars, rareVars

LEMMA CloseStateDoes ==
    ASSUME TypeOK, NEW n \in Nodes, RcvCloseState(n)
    PROVE  /\ hpc[n] = "close" /\ hpc'[n] = "idle" /\ closedSks' = closedSks \cup {hsock[n]}
           /\ UNCHANGED <<chan, incoming, conns, apc, asock, crashed, lost, received, spc, errors>>
  BY DEF RcvCloseState, Finish, TypeOK, tables, acceptVars, programVars

LEMMA MoveDoes ==
    ASSUME TableInv, NEW n \in Nodes, RcvMove(n)
    PROVE  /\ hpc[n] = "move" /\ hpc'[n] = "idle" /\ Gains(conns, n, hsock[n])
           /\ UNCHANGED <<chan, incoming, apc, asock, crashed, lost, received, spc, closedSks, errors>>
<1>1. hpc[n] = "move" /\ hsock[n] \in Sockets
  BY DEF RcvMove, TableInv, Owned, EntryAt
<1> QED
  BY <1>1, Gaining DEF RcvMove, Finish, TableInv, TypeOK, acceptVars, programVars, rareVars

\* CONNECT comes to the accepting node, for a server that does not exist yet.
Knocks(c) ==
    /\ Takes(Far, "CONNECT") /\ c \in Clients /\ Head(chan[Far]).sock = Cl(c)
    /\ spc[Sv(c)] = "absent"
    /\ UNCHANGED <<incoming, conns, apc, asock, received, closedSks>>

LEMMA Knocking ==
    ASSUME TableInv, OneWay, NEW n \in Nodes, Arrives(n, "CONNECT"),
           UNCHANGED <<incoming, conns, apc, asock, received, closedSks>>
    PROVE  n = Far /\ \E c : Knocks(c)
<1>1. Takes(n, "CONNECT")
  BY Taking
<1>2. PICK m : m = Head(chan[n])
  OBVIOUS
<1>3. chan[n][1] = m /\ 1 \in DOMAIN chan[n] /\ m.type = "CONNECT"
  BY <1>1, <1>2, ListTypes, TailAt DEF Takes
<1>4. Awaited(chan[n][1], n)
  BY <1>3 DEF TableInv, Connects
<1>5. Awaited(m, n)
  BY <1>3, <1>4
<1>6. /\ m.sock \in Sockets /\ m.sock[2] = "client" /\ Home(Peer(m.sock)) = n
      /\ spc[Peer(m.sock)] = "absent"
  BY <1>5 DEF Awaited
<1>7. m.sock = Cl(m.sock[1]) /\ m.sock[1] \in Clients
  BY <1>6, Sides
<1>8. n = Far /\ Knocks(m.sock[1])
  BY <1>1, <1>2, <1>6, <1>7, Sides DEF Knocks
<1> QED
  BY <1>8

LEMMA ConnectDoes ==
    ASSUME TableInv, OneWay, NEW n \in Nodes, RcvConnect(n)
    PROVE  /\ n = Far /\ UNCHANGED <<crashed, errors>>
           /\ \E c : /\ Knocks(c)
                     /\ \/ /\ UNCHANGED <<hpc, hmsg, hsock, spc>>
                           /\ lost' = lost \cup {Head(chan[Far])}
                        \/ /\ hpc'[Far] = "add" /\ hsock'[Far] = Sv(c)
                           /\ spc' = [spc EXCEPT ![Sv(c)] = "cloned"] /\ UNCHANGED lost
<1>1. n = Far
  BY Knocking DEF RcvConnect, tables, acceptVars, rareVars
<1>2. PICK c : Knocks(c)
  BY Knocking DEF RcvConnect, tables, acceptVars, rareVars
<1>3. Peer(Head(chan[n]).sock) = Sv(c)
  BY <1>1, <1>2, Sides DEF Knocks
<1>4. \/ /\ UNCHANGED <<hpc, hmsg, hsock, spc>>
         /\ lost' = lost \cup {Head(chan[Far])}
      \/ /\ hpc'[Far] = "add" /\ hsock'[Far] = Sv(c)
         /\ spc' = [spc EXCEPT ![Sv(c)] = "cloned"] /\ UNCHANGED lost
  BY <1>1, <1>3 DEF RcvConnect, LetFall, Proceed, TableInv, TypeOK
<1> QED
  BY <1>1, <1>2, <1>4 DEF RcvConnect, rareVars

LEMMA ConnectFailsDoes ==
    ASSUME TableInv, OneWay, NEW n \in Nodes, RcvConnectFails(n)
    PROVE  /\ n = Far /\ UNCHANGED <<hpc, hmsg, hsock, spc>>
           /\ \E c : Knocks(c)
           /\ \/ lost' = lost \cup {Head(chan[Far])} /\ UNCHANGED crashed
              \/ /\ UNCHANGED lost /\ Crash(n, "clone")
                 /\ <<"clone", Head(chan[Far]).sock[1]>> \in errors'
<1>1. UNCHANGED <<incoming, conns, apc, asock, received, closedSks, spc, hpc, hmsg, hsock>>
  BY DEF RcvConnectFails, LetFall, Error, tables, acceptVars, programVars
<1>2. n = Far /\ \E c : Knocks(c)
  BY <1>1, Knocking DEF RcvConnectFails
<1>3. \/ lost' = lost \cup {Head(chan[Far])} /\ UNCHANGED crashed
      \/ /\ UNCHANGED lost /\ Crash(n, "clone")
         /\ <<"clone", Head(chan[Far]).sock[1]>> \in errors'
  <2>1. CASE Error("clone", Head(chan[n]).sock[1]) /\ Crash(n, "clone") /\ UNCHANGED lost
    <3>1. <<"clone", Head(chan[n]).sock[1]>> \in errors'
      BY <2>1 DEF Error
    <3> QED
      BY <1>2, <2>1, <3>1
  <2> QED
    BY <1>2, <2>1 DEF RcvConnectFails, LetFall
<1> QED
  BY <1>1, <1>2, <1>3

\* CONNECT_SUCCESS comes to the connecting node.
LEMMA SuccessDoes ==
    ASSUME TableInv, OneWay, NEW n \in Nodes, RcvSuccess(n)
    PROVE  /\ n = Near /\ Takes(Near, "CONNECT_SUCCESS")
           /\ UNCHANGED <<conns, apc, asock, crashed, received, spc, closedSks, errors>>
           /\ \/ /\ incoming[Near] = << >> /\ UNCHANGED <<incoming, hpc, hmsg, hsock>>
                 /\ lost' = lost \cup {Head(chan[Near])}
              \/ /\ Loses(incoming, Near, Head(incoming[Near])) /\ hpc'[Near] = "move"
                 /\ hsock'[Near] = Head(incoming[Near]) /\ UNCHANGED lost
<1>1. Takes(n, "CONNECT_SUCCESS")
  BY Taking DEF RcvSuccess
<1>2. chan[n][1].type = "CONNECT_SUCCESS" /\ 1 \in DOMAIN chan[n]
  BY <1>1, ListTypes, TailAt DEF Takes
<1>3. n = Near
  BY <1>2, Sides DEF TableInv, SuccessFrom
<1>4. incoming' = [incoming EXCEPT ![n] = Tail(@)] /\ incoming[n] # << >>
          => Loses(incoming, n, Head(incoming[n]))
  <2>1. CASE incoming[n] # << >>
    <3>1. Head(incoming[n]) \in Sockets
      BY <2>1, ListTypes
    <3> QED
      BY <3>1, Gaining
  <2> QED
    BY <2>1
<1> QED
  BY <1>1, <1>3, <1>4
     DEF RcvSuccess, LetFall, Proceed, TableInv, TypeOK, acceptVars, programVars, rareVars


LEMMA SendDoes ==
    ASSUME TypeOK, NEW s \in Sockets, NEW m, Transmit(s, m)
    PROVE  /\ Other(Home(s)) \in Nodes
           /\ chan'[Other(Home(s))] = Append(chan[Other(Home(s))], m)
           /\ \A n \in Nodes : n # Other(Home(s)) => chan'[n] = chan[n]
<1>1. Other(Home(s)) \in Nodes
  BY SocketPlaces, OtherNode
<1> QED
  BY <1>1 DEF Transmit, TypeOK

LEMMA ConnectBegins ==
    ASSUME NEW c \in Clients, SendConnect(c)
    PROVE  /\ spc[Cl(c)] = "idle" /\ spc' = [spc EXCEPT ![Cl(c)] = "connecting"]
           /\ Transmit(Cl(c), Msg("CONNECT", Cl(c), 0))
           /\ UNCHANGED <<incoming, conns, errors>>
           /\ RequestResponse => PortFree(c)
  BY DEF SendConnect, Cl, tables, rareVars

LEMMA ConnectEnds ==
    ASSUME NEW c \in Clients, ConnectFails(c)
    PROVE  /\ spc[Cl(c)] = "idle" /\ spc' = [spc EXCEPT ![Cl(c)] = "failed"]
           /\ UNCHANGED <<incoming, conns>>
           /\ chan' = chan \/ HalfOpen'
<1>1. ASSUME Error("half-open", c) PROVE HalfOpen'
  <2>1. <<"half-open", c>> \in errors' /\ <<"half-open", c>>[1] = "half-open"
    BY <1>1 DEF Error
  <2> QED
    BY <2>1 DEF HalfOpen
<1> QED
  BY <1>1 DEF ConnectFails, Cl, tables

LEMMA WriteDoes ==
    ASSUME NEW s \in Sockets, Write(s)
    PROVE  /\ spc[s] = "open" /\ UNCHANGED <<spc, conns, csock>>
           /\ Transmit(s, Msg("REGULAR", s, written[s] + 1)) /\ written[s] < MaxData
  BY DEF Write, tables

LEMMA CheckDoes ==
    ASSUME NEW s \in Sockets, CloseCheck(s)
    PROVE  /\ spc[s] = "open" /\ UNCHANGED <<chan, conns, csock, written>>
           /\ RequestResponse /\ s[2] = "client" => received[s] # << >>
           /\ spc' = [spc EXCEPT ![s] = IF s \in closedSks THEN "closed" ELSE "removing"]
  BY DEF CloseCheck, tables

LEMMA CloseSendDoes ==
    ASSUME NEW s \in Sockets, CloseSend(s)
    PROVE  /\ spc[s] = "closing" /\ UNCHANGED <<conns, written>>
           /\ Transmit(s, Msg("CLOSE", csock[s], 0))
           /\ csock' = [csock EXCEPT ![s] = NoSocket]
           /\ spc' = [spc EXCEPT ![s] = "closed"]
  BY DEF CloseSend, tables

-----------------------------------------------------------------------------
(* What a step changes of each variable *)

LEMMA SpcStep ==
    ASSUME TableInv, OneWay, [Next]_vars, NEW x \in Sockets
    PROVE  \/ spc'[x] = spc[x]
           \/ \E c \in Clients : SendConnect(c) /\ x = Cl(c) /\ spc[x] = "idle" /\ spc'[x] = "connecting"
           \/ \E c \in Clients : x = Cl(c) /\ spc[x] = "idle" /\ spc'[x] = "failed"
           \/ \E c \in Clients : x = Cl(c) /\ spc[x] = "connecting" /\ spc'[x] = "open"
           \/ \E c \in Clients : /\ Knocks(c) /\ x = Sv(c) /\ spc[x] = "absent" /\ spc'[x] = "cloned"
                                 /\ hpc'[Far] = "add" /\ hsock'[Far] = x
           \/ \E p \in Acceptors : Notifies(p) /\ x = asock[p] /\ spc'[x] = "open"
           \/ CloseCheck(x) /\ spc[x] = "open" /\ spc'[x] = IF x \in closedSks THEN "closed" ELSE "removing"
           \/ CloseRemove(x) /\ spc[x] = "removing" /\ spc'[x] = "closed" /\ conns[Home(x)] = << >>
           \/ CloseRemove(x) /\ spc[x] = "removing" /\ spc'[x] = "closing" /\ csock'[x] = Head(conns[Home(x)])
           \/ CloseSend(x) /\ spc[x] = "closing" /\ spc'[x] = "closed"
<1>0. TypeOK /\ DOMAIN spc = Sockets /\ DOMAIN csock = Sockets
  BY DEF TableInv, TypeOK
<1>1. ASSUME NEW c \in Clients, Connecting(c)
      PROVE  \/ spc'[x] = spc[x]
             \/ SendConnect(c) /\ x = Cl(c) /\ spc[x] = "idle" /\ spc'[x] = "connecting"
             \/ x = Cl(c) /\ spc[x] = "idle" /\ spc'[x] = "failed"
             \/ x = Cl(c) /\ spc[x] = "connecting" /\ spc'[x] = "open"
  <2>1. CASE SendConnect(c)
    BY <1>0, <2>1, ConnectBegins
  <2>2. CASE ConnectFails(c)
    BY <1>0, <2>2, ConnectEnds
  <2>3. CASE AddConnecting(c)
    BY <1>0, <2>3, AddConnectingDoes
  <2> QED
    BY <1>1, <2>1, <2>2, <2>3 DEF Connecting
<1>2. ASSUME NEW p \in Acceptors, Accepting(p)
      PROVE  spc'[x] = spc[x] \/ (Notifies(p) /\ x = asock[p] /\ spc'[x] = "open")
  <2>1. CASE Awaits(p)
    BY <1>0, <2>1, AwaitsKeeps
  <2>2. CASE AcceptTake(p)
    BY <1>0, <2>2, TakeDoes
  <2>3. CASE AcceptAdd(p)
    BY <1>0, <2>3, AddDoes
  <2>4. CASE Notifies(p)
    BY <1>0, <2>4, NotifiesDoes
  <2> QED
    BY <1>2, <2>1, <2>2, <2>3, <2>4 DEF Accepting
<1>3. ASSUME NEW s \in Sockets, Using(s)
      PROVE  \/ spc'[x] = spc[x]
             \/ CloseCheck(x) /\ spc[x] = "open" /\ spc'[x] = IF x \in closedSks THEN "closed" ELSE "removing"
             \/ CloseRemove(x) /\ spc[x] = "removing" /\ spc'[x] = "closed" /\ conns[Home(x)] = << >>
             \/ CloseRemove(x) /\ spc[x] = "removing" /\ spc'[x] = "closing" /\ csock'[x] = Head(conns[Home(x)])
             \/ CloseSend(x) /\ spc[x] = "closing" /\ spc'[x] = "closed"
  <2>1. CASE Write(s)
    BY <1>0, <2>1, WriteDoes
  <2>2. CASE CloseCheck(s)
    BY <1>0, <2>2, CheckDoes
  <2>3. CASE CloseRemove(s)
    BY <1>0, <2>3, CloseRemoveDoes
  <2>4. CASE CloseSend(s)
    BY <1>0, <2>4, CloseSendDoes
  <2> QED
    BY <1>3, <2>1, <2>2, <2>3, <2>4 DEF Using
<1>4. ASSUME NEW n \in Nodes, RcvStep(n)
      PROVE  \/ spc'[x] = spc[x]
             \/ \E c \in Clients : /\ Knocks(c) /\ x = Sv(c) /\ spc[x] = "absent" /\ spc'[x] = "cloned"
                                   /\ hpc'[Far] = "add" /\ hsock'[Far] = x
  <2>1. CASE RcvConnect(n)
    <3>1. PICK c : /\ Knocks(c)
                   /\ \/ UNCHANGED <<hpc, hmsg, hsock, spc>>
                      \/ /\ hpc'[Far] = "add" /\ hsock'[Far] = Sv(c)
                         /\ spc' = [spc EXCEPT ![Sv(c)] = "cloned"] /\ UNCHANGED lost
      BY <2>1, ConnectDoes
    <3>2. c \in Clients /\ spc[Sv(c)] = "absent"
      BY <3>1 DEF Knocks
    <3> QED
      BY <1>0, <3>1, <3>2
  <2>2. CASE RcvRegular(n) \/ RcvQueue(n) \/ RcvConnectFails(n)
    BY <1>0, <2>2, RegularDoes, QueueDoes, ConnectFailsDoes
  <2>3. CASE RcvAdd(n) \/ RcvWake(n) \/ RcvClose(n)
    BY <1>0, <2>3, RcvAddDoes, WakeDoes, CloseDoes
  <2>4. CASE RcvCloseState(n) \/ RcvSuccess(n) \/ RcvMove(n)
    BY <1>0, <2>4, CloseStateDoes, SuccessDoes, MoveDoes
  <2>5. CASE RcvNoMemory(n)
    BY <2>5, NoMemoryDoes
  <2> QED
    BY <1>4, <2>1, <2>2, <2>3, <2>4, <2>5 DEF RcvStep
<1>5. ASSUME UNCHANGED vars PROVE spc'[x] = spc[x]
  BY <1>5 DEF vars, programVars
<1> QED
  BY <1>1, <1>2, <1>3, <1>4, <1>5, Steps

LEMMA RolesStep ==
    ASSUME TableInv, OneWay, Roles, [Next]_vars
    PROVE  Roles'
<1>0. TypeOK
  BY DEF TableInv
<1>1. ASSUME NEW n \in Nodes, RcvStep(n) PROVE Roles'
  <2>0. \A k \in Nodes : k # n => hpc'[k] = hpc[k]
    BY <1>0, <1>1, RcvKeeps
  <2>1. CASE RcvConnect(n)
    <3>1. n = Far /\ (hpc'[Far] = hpc[Far] \/ hpc'[Far] = "add")
      BY <2>1, ConnectDoes
    <3> QED
      BY <2>0, <3>1, Sides DEF Roles
  <2>2. CASE RcvSuccess(n)
    <3>1. n = Near /\ (hpc'[Near] = hpc[Near] \/ hpc'[Near] = "move")
      BY <2>2, SuccessDoes
    <3> QED
      BY <2>0, <3>1, Sides DEF Roles
  <2>3. CASE RcvRegular(n)
    BY <2>0, <2>3, RegularDoes, Sides DEF Roles
  <2>4. CASE RcvQueue(n)
    BY <1>0, <2>0, <2>4, QueueDoes, Sides DEF Roles
  <2>5. CASE RcvConnectFails(n)
    BY <2>0, <2>5, ConnectFailsDoes, Sides DEF Roles
  <2>6. CASE RcvAdd(n)
    BY <2>0, <2>6, RcvAddDoes, Sides DEF Roles
  <2>7. CASE RcvWake(n)
    BY <1>0, <2>0, <2>7, WakeDoes, Sides DEF Roles
  <2>8. CASE RcvClose(n)
    BY <2>0, <2>8, CloseDoes, Sides DEF Roles
  <2>9. CASE RcvCloseState(n)
    BY <1>0, <2>0, <2>9, CloseStateDoes, Sides DEF Roles
  <2>10. CASE RcvMove(n)
    BY <2>0, <2>10, MoveDoes, Sides DEF Roles
  <2>11. CASE RcvNoMemory(n)
    BY <2>11, NoMemoryDoes DEF Roles
  <2> QED
    BY <1>1, <2>1, <2>2, <2>3, <2>4, <2>5, <2>6, <2>7, <2>8, <2>9, <2>10, <2>11 DEF RcvStep
<1>2. CASE UNCHANGED hpc
  BY <1>2 DEF Roles
<1>3. ASSUME NEW p \in Acceptors, Accepting(p) PROVE UNCHANGED hpc
  BY <1>0, <1>3, AwaitsKeeps, TakeDoes, AddDoes, NotifiesDoes DEF Accepting, AcceptKeeps
<1>4. UNCHANGED vars => UNCHANGED hpc
  BY DEF vars, handlerVars
<1> QED
  BY <1>1, <1>2, <1>3, <1>4, Steps, ConnectingKeeps, UsingKeeps

LEMMA IncomingStep ==
    ASSUME TableInv, OneWay, Roles, [Next]_vars
    PROVE  \/ incoming' = incoming
           \/ \E c \in Clients : Gains(incoming, Near, Cl(c)) /\ spc[Cl(c)] = "connecting"
           \/ \E p \in Acceptors : /\ Loses(incoming, Far, asock'[p]) /\ apc'[p] = "add"
                                   /\ apc[p] = "take" /\ AcceptKeeps(p)
           \/ /\ Gains(incoming, Far, hsock[Far]) /\ hpc[Far] = "add" /\ hpc'[Far] = "wake"
              /\ hsock[Far] \in Sockets
           \/ /\ Loses(incoming, Near, hsock'[Near]) /\ hpc'[Near] = "move" /\ hpc[Near] = "idle"
              /\ Takes(Near, "CONNECT_SUCCESS") /\ conns' = conns
<1>0. TypeOK
  BY DEF TableInv
<1>1. ASSUME NEW c \in Clients, Connecting(c)
      PROVE  incoming' = incoming \/ (Gains(incoming, Near, Cl(c)) /\ spc[Cl(c)] = "connecting")
  BY <1>1, ConnectBegins, ConnectEnds, AddConnectingDoes, Sides DEF Connecting
<1>2. ASSUME NEW p \in Acceptors, Accepting(p)
      PROVE  \/ incoming' = incoming
             \/ /\ Loses(incoming, Far, asock'[p]) /\ apc'[p] = "add"
                /\ apc[p] = "take" /\ AcceptKeeps(p)
  <2>1. CASE AcceptTake(p)
    <3>1. AcceptorNode[p] = Far /\ Far \in Nodes
      BY Sides
    <3>2. \/ incoming' = incoming
          \/ /\ incoming[Far] # << >> /\ apc'[p] = "add" /\ apc[p] = "take" /\ AcceptKeeps(p)
             /\ asock'[p] = Head(incoming[Far])
             /\ incoming' = [incoming EXCEPT ![Far] = Tail(@)]
      BY <1>0, <2>1, <3>1, TakeDoes
    <3>3. CASE incoming[Far] # << >>
      <4>1. Head(incoming[Far]) \in Sockets
        BY <3>1, <3>3, ListTypes
      <4> QED
        BY <3>1, <3>2, <4>1, Gaining
    <3> QED
      BY <3>2, <3>3
  <2>2. CASE Awaits(p) \/ AcceptAdd(p) \/ Notifies(p)
    BY <1>0, <2>2, AwaitsKeeps, AddDoes, NotifiesDoes
  <2> QED
    BY <1>2, <2>1, <2>2 DEF Accepting
<1>3. ASSUME NEW s \in Sockets, Using(s) PROVE incoming' = incoming
  BY <1>3, UsingKeeps
<1>4. ASSUME NEW n \in Nodes, RcvStep(n)
      PROVE  \/ incoming' = incoming
             \/ /\ Gains(incoming, Far, hsock[Far]) /\ hpc[Far] = "add" /\ hpc'[Far] = "wake"
                /\ hsock[Far] \in Sockets
             \/ /\ Loses(incoming, Near, hsock'[Near]) /\ hpc'[Near] = "move" /\ hpc[Near] = "idle"
                /\ Takes(Near, "CONNECT_SUCCESS") /\ conns' = conns
  <2>1. CASE RcvAdd(n)
    <3>1. n = Far
      BY <2>1, RcvAddDoes, Sides DEF Roles
    <3> QED
      BY <2>1, <3>1, RcvAddDoes
  <2>2. CASE RcvSuccess(n)
    BY <2>2, SuccessDoes DEF Takes
  <2>3. CASE RcvConnect(n)
    <3>1. \E c : Knocks(c)
      BY <2>3, ConnectDoes
    <3> QED
      BY <3>1 DEF Knocks
  <2>4. CASE RcvConnectFails(n)
    <3>1. \E c : Knocks(c)
      BY <2>4, ConnectFailsDoes
    <3> QED
      BY <3>1 DEF Knocks
  <2>5. CASE RcvRegular(n) \/ RcvQueue(n) \/ RcvWake(n)
    BY <1>0, <2>5, RegularDoes, QueueDoes, WakeDoes
  <2>6. CASE RcvClose(n) \/ RcvCloseState(n) \/ RcvMove(n)
    BY <1>0, <2>6, CloseDoes, CloseStateDoes, MoveDoes
  <2>7. CASE RcvNoMemory(n)
    BY <2>7, NoMemoryDoes
  <2> QED
    BY <1>4, <2>1, <2>2, <2>3, <2>4, <2>5, <2>6, <2>7 DEF RcvStep
<1>5. ASSUME UNCHANGED vars PROVE incoming' = incoming
  BY <1>5 DEF vars, tables
<1> QED
  BY <1>1, <1>2, <1>3, <1>4, <1>5, Steps

LEMMA ConnsStep ==
    ASSUME TableInv, OneWay, Roles, [Next]_vars
    PROVE  \/ conns' = conns
           \/ \E p \in Acceptors : /\ Gains(conns, Far, asock[p]) /\ apc[p] = "add" /\ apc'[p] = "notify"
                                   /\ UNCHANGED <<asock, spc>> /\ asock[p] \in Sockets
           \/ \E s \in Sockets : /\ Loses(conns, Home(s), csock'[s]) /\ CloseRemove(s)
                                 /\ spc[s] = "removing" /\ spc'[s] = "closing"
           \/ \E n \in Nodes : /\ Loses(conns, n, hsock'[n]) /\ hpc'[n] = "close" /\ Takes(n, "CLOSE")
                               /\ UNCHANGED <<incoming, asock, apc, spc>>
           \/ /\ Gains(conns, Near, hsock[Near]) /\ hpc[Near] = "move" /\ hpc'[Near] = "idle"
              /\ UNCHANGED <<spc, chan>>
<1>0. TypeOK
  BY DEF TableInv
<1>1. ASSUME NEW c \in Clients, Connecting(c) PROVE conns' = conns
  BY <1>1, ConnectingKeeps
<1>2. ASSUME NEW p \in Acceptors, Accepting(p)
      PROVE  \/ conns' = conns
             \/ /\ Gains(conns, Far, asock[p]) /\ apc[p] = "add" /\ apc'[p] = "notify"
                /\ UNCHANGED <<asock, spc>> /\ asock[p] \in Sockets
  <2>1. CASE AcceptAdd(p)
    <3>1. AcceptorNode[p] = Far /\ Far \in Nodes
      BY Sides
    <3>2. apc[p] = "add" /\ asock[p] \in Sockets
      BY <1>0, <2>1, AddDoes DEF TableInv, Owned, EntryAt
    <3> QED
      BY <1>0, <2>1, <3>1, <3>2, AddDoes, Gaining
  <2>2. CASE Awaits(p) \/ AcceptTake(p) \/ Notifies(p)
    BY <1>0, <2>2, AwaitsKeeps, TakeDoes, NotifiesDoes
  <2> QED
    BY <1>2, <2>1, <2>2 DEF Accepting
<1>3. ASSUME NEW s \in Sockets, Using(s)
      PROVE  \/ conns' = conns
             \/ /\ Loses(conns, Home(s), csock'[s]) /\ CloseRemove(s)
                /\ spc[s] = "removing" /\ spc'[s] = "closing"
  <2>1. CASE CloseRemove(s)
    BY <1>0, <2>1, CloseRemoveDoes DEF TypeOK
  <2>2. CASE Write(s) \/ CloseCheck(s) \/ CloseSend(s)
    BY <2>2, WriteDoes, CheckDoes, CloseSendDoes
  <2> QED
    BY <1>3, <2>1, <2>2 DEF Using
<1>4. ASSUME NEW n \in Nodes, RcvStep(n)
      PROVE  \/ conns' = conns
             \/ /\ Loses(conns, n, hsock'[n]) /\ hpc'[n] = "close" /\ Takes(n, "CLOSE")
                /\ UNCHANGED <<incoming, asock, apc, spc>>
             \/ /\ Gains(conns, Near, hsock[Near]) /\ hpc[Near] = "move" /\ hpc'[Near] = "idle"
                /\ UNCHANGED <<spc, chan>>
  <2>1. CASE RcvMove(n)
    <3>1. n = Near
      BY <2>1, MoveDoes, Sides DEF Roles
    <3> QED
      BY <2>1, <3>1, MoveDoes
  <2>2. CASE RcvClose(n)
    BY <2>2, CloseDoes
  <2>3. CASE RcvConnect(n)
    <3>1. \E c : Knocks(c)
      BY <2>3, ConnectDoes
    <3> QED
      BY <3>1 DEF Knocks
  <2>4. CASE RcvConnectFails(n)
    <3>1. \E c : Knocks(c)
      BY <2>4, ConnectFailsDoes
    <3> QED
      BY <3>1 DEF Knocks
  <2>5. CASE RcvRegular(n) \/ RcvQueue(n) \/ RcvWake(n)
    BY <1>0, <2>5, RegularDoes, QueueDoes, WakeDoes
  <2>6. CASE RcvAdd(n) \/ RcvCloseState(n) \/ RcvSuccess(n)
    BY <1>0, <2>6, RcvAddDoes, CloseStateDoes, SuccessDoes
  <2>7. CASE RcvNoMemory(n)
    BY <2>7, NoMemoryDoes
  <2> QED
    BY <1>4, <2>1, <2>2, <2>3, <2>4, <2>5, <2>6, <2>7 DEF RcvStep
<1>5. ASSUME UNCHANGED vars PROVE conns' = conns
  BY <1>5 DEF vars, tables
<1> QED
  BY <1>1, <1>2, <1>3, <1>4, <1>5, Steps

\* A callback that goes on with a message.
LEMMA HandlerStep ==
    ASSUME TableInv, OneWay, Roles, [Next]_vars, NEW n \in Nodes
    PROVE  \/ hpc'[n] = hpc[n] /\ hsock'[n] = hsock[n] /\ hmsg'[n] = hmsg[n]
           \/ hpc'[n] \in {"idle", "wake"}
           \/ /\ hpc'[n] = "queue" /\ hsock'[n] = Head(conns[n]) /\ conns[n] # << >>
              /\ hmsg'[n] = Head(chan[n]) /\ Takes(n, "REGULAR")
              /\ UNCHANGED <<incoming, conns, apc, asock, received, spc>>
           \/ \E c \in Clients : /\ n = Far /\ hpc'[n] = "add" /\ hsock'[n] = Sv(c) /\ Knocks(c)
                                 /\ spc[Sv(c)] = "absent" /\ spc' = [spc EXCEPT ![Sv(c)] = "cloned"]
           \/ /\ hpc'[n] = "close" /\ Loses(conns, n, hsock'[n]) /\ Takes(n, "CLOSE")
              /\ UNCHANGED <<incoming, apc, asock, received, spc, closedSks>>
           \/ /\ n = Near /\ hpc'[n] = "move" /\ Loses(incoming, Near, hsock'[n])
              /\ Takes(n, "CONNECT_SUCCESS") /\ spc' = spc
<1>0. TypeOK
  BY DEF TableInv
<1>1. ASSUME NEW p \in Acceptors, Accepting(p) PROVE UNCHANGED <<hpc, hsock, hmsg>>
  BY <1>0, <1>1, AwaitsKeeps, TakeDoes, AddDoes, NotifiesDoes DEF Accepting, AcceptKeeps
<1>2. UNCHANGED vars => UNCHANGED <<hpc, hsock, hmsg>>
  BY DEF vars, handlerVars
<1>3. CASE ~\E k \in Nodes : RcvStep(k)
  BY <1>1, <1>2, <1>3, Steps, ConnectingKeeps, UsingKeeps
<1>4. ASSUME NEW k \in Nodes, RcvStep(k), k # n PROVE hpc'[n] = hpc[n] /\ hsock'[n] = hsock[n] /\ hmsg'[n] = hmsg[n]
  BY <1>0, <1>4, RcvKeeps
<1>5. CASE RcvRegular(n)
  BY <1>5, RegularDoes
<1>6. CASE RcvConnect(n)
  <2>1. n = Far
    BY <1>6, ConnectDoes
  <2>2. PICK c : /\ Knocks(c)
                 /\ \/ UNCHANGED <<hpc, hmsg, hsock, spc>>
                    \/ /\ hpc'[Far] = "add" /\ hsock'[Far] = Sv(c)
                       /\ spc' = [spc EXCEPT ![Sv(c)] = "cloned"]
    BY <1>6, ConnectDoes
  <2>3. c \in Clients /\ spc[Sv(c)] = "absent"
    BY <2>2 DEF Knocks
  <2> QED
    BY <2>1, <2>2, <2>3
<1>7. CASE RcvConnectFails(n)
  BY <1>7, ConnectFailsDoes
<1>8. CASE RcvQueue(n) \/ RcvAdd(n) \/ RcvWake(n)
  BY <1>0, <1>8, QueueDoes, RcvAddDoes, WakeDoes
<1>9. CASE RcvClose(n)
  BY <1>9, CloseDoes
<1>10. CASE RcvCloseState(n) \/ RcvMove(n)
  BY <1>0, <1>10, CloseStateDoes, MoveDoes
<1>11. CASE RcvSuccess(n)
  BY <1>11, SuccessDoes
<1>12. CASE RcvNoMemory(n)
  BY <1>12, NoMemoryDoes
<1> QED
  BY <1>3, <1>4, <1>5, <1>6, <1>7, <1>8, <1>9, <1>10, <1>11, <1>12 DEF RcvStep

LEMMA AcceptorStep ==
    ASSUME TableInv, OneWay, [Next]_vars, NEW p \in Acceptors
    PROVE  \/ apc'[p] \notin {"add", "notify"}
           \/ apc'[p] = apc[p] /\ asock'[p] = asock[p]
           \/ apc[p] = "take" /\ apc'[p] = "add" /\ Loses(incoming, Far, asock'[p])
           \/ /\ apc[p] = "add" /\ apc'[p] = "notify" /\ asock'[p] = asock[p]
              /\ Gains(conns, Far, asock[p])
<1>0. TypeOK /\ AcceptorNode[p] = Far /\ Far \in Nodes
  BY Sides DEF TableInv
<1>1. ASSUME NEW q \in Acceptors, Accepting(q), q # p PROVE apc'[p] = apc[p] /\ asock'[p] = asock[p]
  BY <1>0, <1>1, AwaitsKeeps, TakeDoes, AddDoes, NotifiesDoes DEF Accepting, AcceptKeeps
<1>2. CASE Awaits(p) \/ Notifies(p)
  BY <1>0, <1>2, AwaitsKeeps, NotifiesDoes
<1>3. CASE AcceptTake(p)
  <2>1. \/ apc'[p] = "failed"
        \/ /\ incoming[Far] # << >> /\ apc'[p] = "add" /\ apc[p] = "take"
           /\ asock'[p] = Head(incoming[Far]) /\ incoming' = [incoming EXCEPT ![Far] = Tail(@)]
    BY <1>0, <1>3, TakeDoes
  <2>2. CASE incoming[Far] # << >>
    <3>1. Head(incoming[Far]) \in Sockets
      BY <1>0, <2>2, ListTypes
    <3> QED
      BY <1>0, <2>1, <3>1, Gaining
  <2> QED
    BY <2>1, <2>2
<1>4. CASE AcceptAdd(p)
  <2>1. apc[p] = "add" /\ asock[p] \in Sockets
    BY <1>0, <1>4, AddDoes DEF TableInv, Owned, EntryAt
  <2> QED
    BY <1>0, <1>4, <2>1, AddDoes, Gaining
<1>5. ASSUME NEW n \in Nodes, RcvStep(n)
      PROVE  apc'[p] \notin {"add", "notify"} \/ (apc'[p] = apc[p] /\ asock'[p] = asock[p])
  BY <1>0, <1>5, RcvKeeps
<1>6. UNCHANGED vars => apc'[p] = apc[p] /\ asock'[p] = asock[p]
  BY DEF vars, acceptVars
<1>7. ASSUME NEW c \in Clients, Connecting(c) PROVE apc'[p] = apc[p] /\ asock'[p] = asock[p]
  BY <1>7, ConnectingKeeps
<1>8. ASSUME NEW s \in Sockets, Using(s) PROVE apc'[p] = apc[p] /\ asock'[p] = asock[p]
  BY <1>8, UsingKeeps
<1> QED
  BY <1>1, <1>2, <1>3, <1>4, <1>5, <1>6, <1>7, <1>8, Steps DEF Accepting

LEMMA ClosedStep ==
    ASSUME TableInv, OneWay, [Next]_vars
    PROVE  /\ closedSks \subseteq closedSks'
           /\ \A x \in closedSks' : x \in closedSks \/ \E n \in Nodes : hpc[n] = "close" /\ hsock[n] = x
<1>0. TypeOK
  BY DEF TableInv
<1>1. ASSUME NEW p \in Acceptors, Accepting(p) PROVE UNCHANGED closedSks
  BY <1>0, <1>1, AwaitsKeeps, TakeDoes, AddDoes, NotifiesDoes DEF Accepting, AcceptKeeps
<1>2. UNCHANGED vars => UNCHANGED closedSks
  BY DEF vars, rareVars
<1>3. ASSUME NEW n \in Nodes, RcvStep(n)
      PROVE  closedSks' = closedSks \/ (hpc[n] = "close" /\ closedSks' = closedSks \cup {hsock[n]})
  <2>1. CASE RcvConnect(n)
    <3>1. \E c : Knocks(c)
      BY <2>1, ConnectDoes
    <3> QED
      BY <3>1 DEF Knocks
  <2>2. CASE RcvConnectFails(n)
    <3>1. \E c : Knocks(c)
      BY <2>2, ConnectFailsDoes
    <3> QED
      BY <3>1 DEF Knocks
  <2>3. CASE RcvRegular(n) \/ RcvQueue(n) \/ RcvAdd(n) \/ RcvWake(n)
    BY <1>0, <2>3, RegularDoes, QueueDoes, RcvAddDoes, WakeDoes
  <2>4. CASE RcvClose(n) \/ RcvCloseState(n) \/ RcvSuccess(n) \/ RcvMove(n)
    BY <1>0, <2>4, CloseDoes, CloseStateDoes, SuccessDoes, MoveDoes
  <2>5. CASE RcvNoMemory(n)
    BY <2>5, NoMemoryDoes
  <2> QED
    BY <1>3, <2>1, <2>2, <2>3, <2>4, <2>5 DEF RcvStep
<1> QED
  BY <1>1, <1>2, <1>3, Steps, ConnectingKeeps, UsingKeeps

LEMMA MadeStays ==
    ASSUME TableInv, OneWay, [Next]_vars, NEW x \in Sockets, Made(x)
    PROVE  Made(x)'
  BY SpcStep DEF Made

\* An entry comes into the tables when its program or the callback makes it.
LEMMA TablesGain ==
    ASSUME TableInv, OneWay, Roles, [Next]_vars, NEW x \in Sockets, Made(x), InTables(x)'
    PROVE  InTables(x)
<1>1. ASSUME NEW p \in Acceptors, apc'[p] = "add", asock'[p] = x PROVE InTables(x)
  BY <1>1, AcceptorStep, Sides DEF InTables, Carried, Loses
<1>2. ASSUME NEW n \in Nodes, hpc'[n] \in {"add", "move"}, hsock'[n] = x PROVE InTables(x)
  <2>1. CASE hpc'[n] = hpc[n] /\ hsock'[n] = hsock[n]
    BY <1>2, <2>1 DEF InTables, Carried
  <2>2. ASSUME NEW c \in Clients, hsock'[n] = Sv(c), spc[Sv(c)] = "absent" PROVE FALSE
    BY <1>2, <2>2 DEF Made
  <2>3. CASE Loses(incoming, Near, hsock'[n])
    BY <1>2, <2>3, Sides DEF InTables, Loses
  <2> QED
    BY <1>2, <2>1, <2>2, <2>3, HandlerStep
<1>3. ASSUME NEW n \in Nodes, x \in ToSet(incoming'[n]) PROVE InTables(x)
  <2>1. CASE x \in ToSet(incoming[n])
    BY <2>1 DEF InTables
  <2>2. ASSUME NEW c \in Clients, x = Cl(c), spc[Cl(c)] = "connecting" PROVE FALSE
    BY <2>2 DEF Made
  <2>3. CASE hpc[Far] = "add" /\ hsock[Far] = x
    BY <2>3, Sides DEF InTables, Carried
  <2> QED
    BY <1>3, <2>1, <2>2, <2>3, IncomingStep, Sides DEF Gains, Loses
<1>4. ASSUME NEW n \in Nodes, x \in ToSet(conns'[n]) PROVE InTables(x)
  <2>1. CASE x \in ToSet(conns[n])
    BY <2>1 DEF InTables
  <2>2. ASSUME NEW p \in Acceptors, asock[p] = x, apc[p] = "add" PROVE InTables(x)
    BY <2>2 DEF InTables, Carried
  <2>3. CASE hpc[Near] = "move" /\ hsock[Near] = x
    BY <2>3, Sides DEF InTables, Carried
  <2> QED
    BY <1>4, <2>1, <2>2, <2>3, ConnsStep, Sides DEF Gains, Loses
<1> QED
  BY <1>1, <1>2, <1>3, <1>4 DEF InTables, Carried

LEMMA ClosedIsOutStep ==
    ASSUME TableInv, OneWay, Roles, ClosedIsOut, [Next]_vars
    PROVE  ClosedIsOut'
<1> SUFFICES ASSUME NEW x \in Sockets, BeingClosed(x)', x[2] = "server" \/ ~ClientsStartClosed
             PROVE  ~InTables(x)' /\ Made(x)'
  BY DEF ClosedIsOut, Made
<1>0. TableInv'
  BY TableStep
<1>1. CASE BeingClosed(x)
  <2>1. ~InTables(x) /\ Made(x)
    BY <1>1 DEF ClosedIsOut, Made
  <2> QED
    BY <2>1, MadeStays, TablesGain
<1>2. CASE ~BeingClosed(x)
  <2>1. PICK n \in Nodes : hpc'[n] = "close" /\ hsock'[n] = x /\ ~(hpc[n] = "close" /\ hsock[n] = x)
    <3>1. x \notin closedSks'
      BY <1>2, ClosedStep DEF BeingClosed
    <3> QED
      BY <1>2, <3>1 DEF BeingClosed
  <2>2. Loses(conns, n, x) /\ UNCHANGED <<incoming, apc, asock>>
    BY <2>1, HandlerStep
  <2>3. x \in ToSet(conns[n]) /\ x \notin ToSet(conns'[n])
    BY <2>2 DEF Loses
  <2>4. Home(x) = n /\ Made(x) /\ x \notin ToSet(incoming[n])
    BY <2>3, ListTypes DEF TableInv, Owned, EntryAt
  <2>5. \A k \in Nodes : x \notin ToSet(incoming'[k]) /\ x \notin ToSet(conns'[k])
    BY <1>0, <2>2, <2>3, <2>4, ListTypes DEF TableInv, Owned, EntryAt
  <2>6. \A p \in Acceptors : ~(apc'[p] = "add" /\ asock'[p] = x)
    BY <2>2, <2>3, <2>4, ListedNotCarried DEF TableInv
  <2>7. \A k \in Nodes : ~(hpc'[k] \in {"add", "move"} /\ hsock'[k] = x)
    BY <1>0, <2>1, <2>4 DEF TableInv, Owned, EntryAt
  <2> QED
    BY <2>4, <2>5, <2>6, <2>7, MadeStays DEF InTables, Carried
<1> QED
  BY <1>1, <1>2

LEMMA NotifyAloneStep ==
    ASSUME TableInv, OneWay, Roles, NotifyAlone, [Next]_vars
    PROVE  NotifyAlone'
<1> SUFFICES ASSUME NEW p \in Acceptors, apc'[p] = "notify"
             PROVE  /\ asock'[p] \notin ToSet(incoming'[Far])
                    /\ \A n \in Nodes : hpc'[n] = "add" => hsock'[n] # asock'[p]
                    /\ \A q \in Acceptors :
                          apc'[q] \in {"add", "notify"} /\ asock'[q] = asock'[p] => q = p
  BY Sides DEF NotifyAlone
<1>0. AcceptorNode[p] = Far /\ Far \in Nodes
  BY Sides
<1>1. apc[p] \in {"add", "notify"} /\ asock'[p] = asock[p]
  BY AcceptorStep
<1>2. PICK x \in Sockets : x = asock[p]
  BY <1>1 DEF TableInv, Owned, EntryAt
<1>3. Made(x)
  BY <1>1, <1>2 DEF TableInv, Owned, EntryAt
<1>4. /\ x \notin ToSet(incoming[Far])
      /\ \A n \in Nodes : hpc[n] = "add" => hsock[n] # x
      /\ \A q \in Acceptors : apc[q] \in {"add", "notify"} /\ asock[q] = x => q = p
  <2>1. CASE apc[p] = "notify"
    BY <1>0, <1>2, <2>1 DEF NotifyAlone
  <2>2. CASE apc[p] = "add"
    <3>1. /\ x \notin ToSet(incoming[Far])
          /\ \A q \in Acceptors : apc[q] = "add" /\ asock[q] = x => q = p
          /\ \A n \in Nodes : hpc[n] \in {"add", "move"} => hsock[n] # x
      BY <1>0, <1>2, <2>2 DEF TableInv, Single, AcceptorAlone
    <3>2. \A q \in Acceptors : apc[q] = "notify" /\ asock[q] = x => q = p
      BY <1>2, <2>2 DEF NotifyAlone
    <3> QED
      BY <3>1, <3>2
  <2> QED
    BY <1>1, <2>1, <2>2
<1>5. x \notin ToSet(incoming'[Far])
  <2>1. \A c \in Clients : spc[Cl(c)] = "connecting" => x # Cl(c)
    BY <1>3 DEF Made
  <2> QED
    BY <1>0, <1>4, <2>1, IncomingStep, Sides DEF Gains, Loses
<1>6. ASSUME NEW n \in Nodes, hpc'[n] = "add" PROVE hsock'[n] # x
  <2>1. \A c \in Clients : spc[Sv(c)] = "absent" => x # Sv(c)
    BY <1>3 DEF Made
  <2> QED
    BY <1>4, <1>6, <2>1, HandlerStep
<1>7. ASSUME NEW q \in Acceptors, apc'[q] \in {"add", "notify"}, asock'[q] = x PROVE q = p
  <2>1. CASE apc[q] \in {"add", "notify"} /\ asock'[q] = asock[q]
    BY <1>4, <1>7, <2>1
  <2>2. CASE Loses(incoming, Far, asock'[q])
    BY <1>4, <1>7, <2>2 DEF Loses
  <2> QED
    BY <1>7, <2>1, <2>2, AcceptorStep
<1> QED
  BY <1>1, <1>2, <1>5, <1>6, <1>7

LEMMA AlwaysHolds == ASSUME OneWay PROVE Spec => [](TableInv /\ AlwaysInv)
<1>1. ASSUME Init PROVE TableInv /\ AlwaysInv
  <2>1. ClosedIsOut
    <3>1. \A n \in Nodes : incoming[n] = << >> /\ conns[n] = << >> /\ hpc[n] = "idle"
      BY <1>1 DEF Init
    <3>2. \A x \in closedSks : x[2] = "client" /\ ClientsStartClosed
      BY <1>1 DEF Init
    <3> QED
      BY <3>1, <3>2 DEF ClosedIsOut, BeingClosed
  <2>2. NotifyAlone
    BY <1>1 DEF Init, NotifyAlone
  <2>3. Roles
    BY <1>1, Sides DEF Init, Roles
  <2> QED
    BY <1>1, <2>1, <2>2, <2>3, TableInit DEF AlwaysInv
<1>2. ASSUME TableInv, AlwaysInv, [Next]_vars PROVE TableInv' /\ AlwaysInv'
  BY <1>2, TableStep, ClosedIsOutStep, NotifyAloneStep, RolesStep DEF AlwaysInv
<1> QED
  BY <1>1, <1>2, PTL DEF Spec

-----------------------------------------------------------------------------
(* What the invariant says of a state *)

Orderly ==
    /\ TableInv /\ AlwaysInv /\ ~HalfOpen
    /\ Flow /\ OneBusy /\ Order /\ Silent /\ Own /\ NoCrossTalk
    /\ \A c \in Clients : Asking(c) /\ Serving(c) /\ Entry(c)

LEMMA InUse ==
    ASSUME OneWay, Orderly, NEW c \in Clients
    PROVE  /\ spc[Sv(c)] # "absent" => Begun(c)
           /\ spc[Sv(c)] \notin {"absent", "closed"} => Busy(c)
           /\ spc[Cl(c)] \notin {"idle", "failed", "closed"} => Busy(c)
           /\ Waiting(c) => spc[Sv(c)] = "cloned"
           /\ Closing(Cl(c)) => Got(Cl(c)) /\ Opened(Sv(c))
           /\ Got(Cl(c)) => Opened(Sv(c))
           /\ \A d \in Clients : Busy(c) /\ Busy(d) => c = d
  BY DEF Orderly, Serving, Asking, Begun, Busy, Got, OneBusy

LEMMA Carries ==
    ASSUME OneWay, Orderly, NEW p \in Acceptors, apc[p] \in {"add", "notify"}
    PROVE  \E c \in Clients : asock[p] = Sv(c) /\ Waiting(c) /\ spc[Sv(c)] = "cloned"
<1>1. asock[p] \in Sockets /\ Home(asock[p]) = Far
  BY Sides DEF Orderly, TableInv, Owned, EntryAt
<1>2. PICK c \in Clients : asock[p] = Sv(c)
  BY <1>1, Sides
<1>3. Waiting(c)
  BY <1>2 DEF Waiting
<1> QED
  BY <1>2, <1>3, InUse

\* The first message, and an entry.
LEMMA FirstMessage ==
    ASSUME OneWay, Orderly, NEW n \in Nodes, chan[n] # << >>
    PROVE  \E c \in Clients :
              /\ ConnOf(Head(chan[n])) = c /\ Begun(c)
              /\ Head(chan[n]).sock = IF n = Near THEN Sv(c) ELSE Cl(c)
              /\ Head(chan[n]).type = "CLOSE" => spc[Head(chan[n]).sock] = "closed"
              /\ n = Near /\ Head(chan[n]).type \in {"REGULAR", "CLOSE"} => Opened(Sv(c))
              /\ Head(chan[n]) \in Messages /\ Has(chan[n], Head(chan[n]).type, c)
<1>1. PICK m : m = Head(chan[n])
  OBVIOUS
<1>2. 1 \in DOMAIN chan[n] /\ chan[n][1] = m /\ m \in Messages
  BY <1>1, ListTypes, TailAt DEF Orderly
<1>3. /\ m.sock \in Sockets /\ m.sock[2] = IF n = Near THEN "server" ELSE "client"
      /\ Begun(ConnOf(m))
      /\ m.type = "CLOSE" => spc[m.sock] = "closed"
      /\ n = Near /\ m.type \in {"REGULAR", "CLOSE"} => Opened(m.sock)
  BY <1>2 DEF Orderly, Flow, Proper
<1>4. m.sock[1] \in Clients /\ (m.sock = Cl(m.sock[1]) \/ m.sock = Sv(m.sock[1]))
  BY <1>3, Sides
<1>5. m.sock = IF n = Near THEN Sv(m.sock[1]) ELSE Cl(m.sock[1])
  BY <1>3, <1>4, Sides
<1>6. Has(chan[n], m.type, ConnOf(m))
  BY <1>2 DEF Has
<1> QED
  BY <1>1, <1>2, <1>3, <1>4, <1>5, <1>6 DEF ConnOf

LEMMA EntryIs ==
    ASSUME OneWay, Orderly
    PROVE  /\ conns[Near] # << >> => \E c \in Clients :
                  Head(conns[Near]) = Cl(c) /\ Cl(c) \in ToSet(conns[Near]) /\ InConns(c) /\ Made(Cl(c))
           /\ conns[Far] # << >> => \E c \in Clients :
                  Head(conns[Far]) = Sv(c) /\ Sv(c) \in ToSet(conns[Far]) /\ Busy(c) /\ spc[Sv(c)] # "absent"
           /\ incoming[Near] # << >> => \E c \in Clients :
                  Head(incoming[Near]) = Cl(c) /\ Cl(c) \in ToSet(incoming[Near]) /\ Made(Cl(c))
<1>0. TableInv
  BY DEF Orderly
<1>1. ASSUME NEW x, x \in ToSet(incoming[Near]) \/ x \in ToSet(conns[Near])
      PROVE  Made(x) /\ \E c \in Clients : x = Cl(c)
  BY <1>1, Sides DEF Orderly, TableInv, Owned, EntryAt
<1>2. ASSUME NEW x, x \in ToSet(conns[Far])
      PROVE  Made(x) /\ \E c \in Clients : x = Sv(c)
  BY <1>2, Sides DEF Orderly, TableInv, Owned, EntryAt
<1>3. \A n \in Nodes : /\ conns[n] # << >> => Head(conns[n]) \in ToSet(conns[n])
                       /\ incoming[n] # << >> => Head(incoming[n]) \in ToSet(incoming[n])
  BY <1>0, ListTypes
<1>4. ASSUME conns[Near] # << >>
      PROVE  \E c \in Clients :
                Head(conns[Near]) = Cl(c) /\ Cl(c) \in ToSet(conns[Near]) /\ InConns(c) /\ Made(Cl(c))
  <2>1. PICK x : x = Head(conns[Near]) /\ x \in ToSet(conns[Near])
    BY <1>3, <1>4, Sides
  <2> QED
    BY <1>1, <2>1 DEF InConns
<1>5. ASSUME incoming[Near] # << >>
      PROVE  \E c \in Clients :
                Head(incoming[Near]) = Cl(c) /\ Cl(c) \in ToSet(incoming[Near]) /\ Made(Cl(c))
  <2>1. PICK x : x = Head(incoming[Near]) /\ x \in ToSet(incoming[Near])
    BY <1>3, <1>5, Sides
  <2> QED
    BY <1>1, <2>1
<1>6. ASSUME conns[Far] # << >>
      PROVE  \E c \in Clients :
                Head(conns[Far]) = Sv(c) /\ Sv(c) \in ToSet(conns[Far]) /\ Busy(c) /\ spc[Sv(c)] # "absent"
  <2>1. PICK x : x = Head(conns[Far]) /\ x \in ToSet(conns[Far])
    BY <1>3, <1>6, Sides
  <2>2. PICK c \in Clients : x = Sv(c) /\ Made(Sv(c))
    BY <1>2, <2>1
  <2>3. spc[Sv(c)] \notin {"absent", "closed"}
    BY <2>1, <2>2 DEF Orderly, Serving, Made
  <2> QED
    BY <2>1, <2>2, <2>3, InUse
<1> QED
  BY <1>4, <1>5, <1>6

\* A message that needs an entry of the connecting side finds its own.
LEMMA NearMeets ==
    ASSUME OneWay, Orderly, chan[Near] # << >>, NEW c \in Clients, InConns(c)
    PROVE  Head(chan[Near]).sock = Sv(c)
<1>1. ConnOf(Head(chan[Near])) = c
  <2>1. AllOf(chan[Near], c) \/ EndsIn(chan[Near], c)
    BY DEF Orderly, Entry
  <2>2. chan[Near] \in Seq(Messages)
    BY ListTypes, Sides DEF Orderly
  <2> QED
    BY <2>1, <2>2, AllMoves, EndsMoves
<1> QED
  BY <1>1, FirstMessage, Sides

\* And one that needs an entry of the accepting side.
LEMMA FarMeets ==
    ASSUME OneWay, Orderly, chan[Far] # << >>, Head(chan[Far]).type # "CONNECT",
           conns[Far] # << >>
    PROVE  \E c \in Clients : Head(conns[Far]) = Sv(c) /\ Head(chan[Far]).sock = Cl(c)
<1>1. PICK c \in Clients : Head(conns[Far]) = Sv(c) /\ Busy(c) /\ spc[Sv(c)] # "absent"
  BY EntryIs
<1>2. chan[Far] \in Seq(Messages)
  BY ListTypes, Sides DEF Orderly
<1>3. Heralded(chan[Far], "CONNECT", c)
  BY <1>1 DEF Orderly, Order
<1>4. ASSUME ConnOf(Head(chan[Far])) # c PROVE FALSE
  <2>1. Has(Tail(chan[Far]), "CONNECT", c)
    BY <1>2, <1>3, <1>4, HeraldedMoves
  <2>2. Has(chan[Far], "CONNECT", c)
    BY <1>2, <2>1, HasMoves
  <2>3. PICK i \in DOMAIN chan[Far] : chan[Far][i].type = "CONNECT" /\ ConnOf(chan[Far][i]) = c
    BY <2>2 DEF Has
  <2>4. PICK m : m = chan[Far][i]
    OBVIOUS
  <2>5. Awaited(chan[Far][i], Far)
    BY <2>3, Sides DEF Orderly, TableInv, Connects
  <2>6. m.sock \in Sockets /\ m.sock[2] = "client" /\ spc[Peer(m.sock)] = "absent"
    BY <2>4, <2>5 DEF Awaited
  <2>7. m.sock[1] = c
    BY <2>3, <2>4 DEF ConnOf
  <2>8. m.sock = Cl(c)
    BY <2>6, <2>7, Sides
  <2> QED
    BY <1>1, <2>6, <2>8, Sides
<1> QED
  BY <1>1, <1>4, FirstMessage, Sides

\* close removes the entry of its own socket.
LEMMA RemovesOwn ==
    ASSUME OneWay, Orderly, NEW s \in Sockets, spc[s] = "removing", conns[Home(s)] # << >>
    PROVE  Head(conns[Home(s)]) = s
<1>1. ASSUME NEW c \in Clients, s = Sv(c) PROVE Head(conns[Far]) = s
  <2>1. Busy(c)
    BY <1>1, InUse
  <2>2. PICK d \in Clients : Head(conns[Far]) = Sv(d) /\ Busy(d)
    BY <1>1, EntryIs, Sides
  <2> QED
    BY <1>1, <2>1, <2>2, InUse
<1>2. ASSUME NEW c \in Clients, s = Cl(c) PROVE Head(conns[Near]) = s
  <2>1. Busy(c) /\ ~ClientsStartClosed
    BY <1>2, InUse DEF Orderly, Silent
  <2>2. PICK d \in Clients : Head(conns[Near]) = Cl(d) /\ InConns(d) /\ Made(Cl(d))
    BY <1>2, EntryIs, Sides
  <2>3. spc[Cl(d)] \notin {"closing", "closed"}
    BY <2>1, <2>2 DEF Orderly, Entry
  <2>4. Busy(d)
    BY <2>2, <2>3, InUse DEF Made
  <2> QED
    BY <1>2, <2>1, <2>2, <2>4, InUse
<1> QED
  BY <1>1, <1>2, Sides

-----------------------------------------------------------------------------
(* What a step changes of the channels and of what was received *)

LEMMA ReceivedStep ==
    ASSUME TableInv, OneWay, [Next]_vars
    PROVE  \/ /\ received' = received
              /\ \A n \in Nodes : hpc[n] = "queue" => hpc'[n] = "queue" /\ hsock'[n] = hsock[n]
           \/ \E n \in Nodes :
                 /\ hpc[n] = "queue" /\ hpc'[n] = "idle"
                 /\ received' = [received EXCEPT ![hsock[n]] = Append(@, hmsg[n])]
                 /\ \A k \in Nodes : k # n => hpc'[k] = hpc[k] /\ hsock'[k] = hsock[k]
<1>0. TypeOK
  BY DEF TableInv
<1>1. ASSUME NEW p \in Acceptors, Accepting(p) PROVE UNCHANGED <<received, hpc, hsock>>
  BY <1>0, <1>1, AwaitsKeeps, TakeDoes, AddDoes, NotifiesDoes DEF Accepting, AcceptKeeps
<1>2. UNCHANGED vars => UNCHANGED <<received, hpc, hsock>>
  BY DEF vars, handlerVars
<1>3. ASSUME NEW n \in Nodes, RcvQueue(n)
      PROVE  /\ hpc[n] = "queue" /\ hpc'[n] = "idle"
             /\ received' = [received EXCEPT ![hsock[n]] = Append(@, hmsg[n])]
             /\ \A k \in Nodes : k # n => hpc'[k] = hpc[k] /\ hsock'[k] = hsock[k]
  BY <1>0, <1>3, QueueDoes, RcvKeeps DEF RcvStep
<1>4. ASSUME NEW n \in Nodes, RcvStep(n), ~RcvQueue(n)
      PROVE  received' = received /\ hpc[n] # "queue"
  <2>1. CASE RcvConnect(n)
    <3>1. n = Far /\ \E c : Knocks(c)
      BY <2>1, ConnectDoes
    <3> QED
      BY <3>1 DEF Knocks, Takes
  <2>2. CASE RcvConnectFails(n)
    <3>1. n = Far /\ \E c : Knocks(c)
      BY <2>2, ConnectFailsDoes
    <3> QED
      BY <3>1 DEF Knocks, Takes
  <2>3. CASE RcvRegular(n) \/ RcvAdd(n) \/ RcvWake(n)
    BY <1>0, <2>3, RegularDoes, RcvAddDoes, WakeDoes DEF Takes
  <2>4. CASE RcvClose(n) \/ RcvCloseState(n) \/ RcvSuccess(n) \/ RcvMove(n)
    BY <1>0, <2>4, CloseDoes, CloseStateDoes, SuccessDoes, MoveDoes DEF Takes
  <2>5. CASE RcvNoMemory(n)
    BY <2>5, NoMemoryDoes
  <2> QED
    BY <1>4, <2>1, <2>2, <2>3, <2>4, <2>5 DEF RcvStep
<1>5. ASSUME NEW n \in Nodes, RcvStep(n)
      PROVE  \A k \in Nodes : k # n => hpc'[k] = hpc[k] /\ hsock'[k] = hsock[k]
  BY <1>0, <1>5, RcvKeeps
<1>6. CASE \E n \in Nodes : RcvStep(n)
  <2>1. PICK n \in Nodes : RcvStep(n)
    BY <1>6
  <2>2. CASE RcvQueue(n)
    BY <1>3, <2>2
  <2>3. CASE ~RcvQueue(n)
    BY <1>4, <1>5, <2>1, <2>3
  <2> QED
    BY <2>2, <2>3
<1>7. CASE UNCHANGED <<received, hpc, hsock>>
  BY <1>7
<1> QED
  BY <1>1, <1>2, <1>6, <1>7, Steps, ConnectingKeeps, UsingKeeps

LEMMA GotStep ==
    ASSUME TableInv, OneWay, Roles, [Next]_vars, NEW x \in Sockets
    PROVE  /\ Got(x) => Got(x)'
           /\ received[x] # << >> => received'[x] # << >>
           /\ Got(x)' => \/ Got(x)
                         \/ \E n \in Nodes :
                               /\ hpc'[n] = "queue" /\ x = Head(conns[n]) /\ conns[n] # << >>
                               /\ Takes(n, "REGULAR")
                               /\ UNCHANGED <<incoming, conns, apc, asock, received, spc>>
<1>0. received \in [Sockets -> Seq(Messages)] /\ \A n \in Nodes : hmsg[n] \in Messages
  BY DEF TableInv, TypeOK
<1>1. ASSUME received[x] # << >> PROVE received'[x] # << >>
  BY <1>0, <1>1, ReceivedStep
<1>2. ASSUME NEW n \in Nodes, hpc[n] = "queue", hsock[n] = x PROVE Got(x)'
  <2>1. CASE hpc'[n] = "queue" /\ hsock'[n] = hsock[n]
    BY <1>2, <2>1 DEF Got
  <2>2. CASE received' = [received EXCEPT ![hsock[n]] = Append(@, hmsg[n])]
    <3>1. received'[x] = Append(received[x], hmsg[n])
      BY <1>0, <1>2, <2>2
    <3>2. received'[x] # << >>
      BY <1>0, <3>1
    <3> QED
      BY <3>2 DEF Got
  <2> QED
    BY <1>2, <2>1, <2>2, ReceivedStep
<1>3. Got(x) => Got(x)'
  BY <1>1, <1>2 DEF Got
<1>4. ASSUME received'[x] # << >> PROVE Got(x)
  <2>1. received'[x] = received[x] \/ \E n \in Nodes : hpc[n] = "queue" /\ hsock[n] = x
    BY <1>0, ReceivedStep
  <2> QED
    BY <1>4, <2>1 DEF Got
<1>5. ASSUME NEW n \in Nodes, hpc'[n] = "queue", hsock'[n] = x
      PROVE  \/ Got(x)
             \/ /\ x = Head(conns[n]) /\ conns[n] # << >> /\ Takes(n, "REGULAR")
                /\ UNCHANGED <<incoming, conns, apc, asock, received, spc>>
  <2>1. CASE hpc'[n] = hpc[n] /\ hsock'[n] = hsock[n]
    BY <1>5, <2>1 DEF Got
  <2> QED
    BY <1>5, <2>1, HandlerStep
<1> QED
  BY <1>1, <1>3, <1>4, <1>5 DEF Got

\* What is sent, and from where.
Sent(s, m) ==
    /\ m.sock = s /\ m \in Messages
    /\ \/ /\ m.type = "CONNECT" /\ s[2] = "client" /\ spc[s] = "idle" /\ spc'[s] = "connecting"
          /\ RequestResponse => PortFree(s[1])
       \/ /\ m.type = "CONNECT_SUCCESS" /\ s[2] = "server" /\ spc[s] = "cloned"
          /\ \E p \in Acceptors : Notifies(p) /\ asock[p] = s
       \/ m.type = "REGULAR" /\ spc[s] = "open" /\ spc' = spc /\ Write(s) /\ m.n = written[s] + 1
       \/ m.type = "CLOSE" /\ spc[s] = "closing" /\ spc'[s] = "closed"
    /\ UNCHANGED <<incoming, conns, hpc, hsock, received>>

LEMMA SentIs ==
    ASSUME OneWay, Orderly, [Next]_vars, ~HalfOpen', NEW n \in Nodes
    PROVE  \/ chan'[n] = chan[n]
           \/ \E t : /\ Takes(n, t)
                     /\ t = "CLOSE" => RcvClose(n)
                     /\ t = "CONNECT_SUCCESS" => RcvSuccess(n)
                     /\ t = "REGULAR" => RcvRegular(n)
           \/ \E s \in Sockets : \E m \in Messages :
                 Sent(s, m) /\ n = Other(Home(s)) /\ chan'[n] = Append(chan[n], m)
<1>0. TableInv /\ TypeOK /\ 0 \in 0 .. MaxData
  BY NoData DEF Orderly, TableInv
<1>1. ASSUME NEW c \in Clients, Connecting(c)
      PROVE  \/ chan'[n] = chan[n]
             \/ \E s \in Sockets : \E m \in Messages :
                   Sent(s, m) /\ n = Other(Home(s)) /\ chan'[n] = Append(chan[n], m)
  <2>1. CASE SendConnect(c)
    <3>1. PICK m : m = Msg("CONNECT", Cl(c), 0)
      OBVIOUS
    <3>2. m \in Messages /\ m.sock = Cl(c) /\ m.type = "CONNECT"
      BY <1>0, <3>1, Message, Sides
    <3>3. /\ spc[Cl(c)] = "idle" /\ spc'[Cl(c)] = "connecting" /\ Transmit(Cl(c), m)
          /\ RequestResponse => PortFree(Cl(c)[1])
      BY <1>0, <2>1, <3>1, ConnectBegins, Sides DEF TypeOK
    <3>4. UNCHANGED <<incoming, conns, hpc, hsock, received>>
      BY <1>1, <2>1, ConnectBegins, ConnectingKeeps
    <3>5. Sent(Cl(c), m)
      BY <3>2, <3>3, <3>4, Sides DEF Sent
    <3> QED
      BY <1>0, <3>2, <3>3, <3>5, SendDoes, Sides
  <2>2. CASE ConnectFails(c)
    BY <2>2, ConnectEnds
  <2>3. CASE AddConnecting(c)
    BY <1>0, <2>3, AddConnectingDoes
  <2> QED
    BY <1>1, <2>1, <2>2, <2>3 DEF Connecting
<1>2. ASSUME NEW p \in Acceptors, Accepting(p)
      PROVE  \/ chan'[n] = chan[n]
             \/ \E s \in Sockets : \E m \in Messages :
                   Sent(s, m) /\ n = Other(Home(s)) /\ chan'[n] = Append(chan[n], m)
  <2>1. CASE Notifies(p)
    <3>1. PICK c \in Clients : asock[p] = Sv(c) /\ spc[Sv(c)] = "cloned"
      BY <1>0, <2>1, NotifiesDoes, Carries
    <3>2. PICK m : m = Msg("CONNECT_SUCCESS", Sv(c), 0)
      OBVIOUS
    <3>3. m \in Messages /\ m.sock = Sv(c) /\ m.type = "CONNECT_SUCCESS"
      BY <1>0, <3>2, Message, Sides
    <3>4. Transmit(Sv(c), m) /\ UNCHANGED <<incoming, conns, hpc, hsock, received>>
      BY <1>0, <2>1, <3>1, <3>2, NotifiesDoes DEF AcceptKeeps
    <3>5. Sent(Sv(c), m)
      BY <2>1, <3>1, <3>3, <3>4, Sides DEF Sent
    <3> QED
      BY <1>0, <3>3, <3>4, <3>5, SendDoes, Sides
  <2>2. CASE Awaits(p) \/ AcceptTake(p) \/ AcceptAdd(p)
    BY <1>0, <2>2, AwaitsKeeps, TakeDoes, AddDoes
  <2> QED
    BY <1>2, <2>1, <2>2 DEF Accepting
<1>3. ASSUME NEW s \in Sockets, Using(s)
      PROVE  \/ chan'[n] = chan[n]
             \/ \E m \in Messages :
                   Sent(s, m) /\ n = Other(Home(s)) /\ chan'[n] = Append(chan[n], m)
  <2>0. UNCHANGED <<incoming, hpc, hsock, received>>
    BY <1>3, UsingKeeps
  <2>1. CASE Write(s)
    <3>1. PICK m : m = Msg("REGULAR", s, written[s] + 1)
      OBVIOUS
    <3>2. /\ spc[s] = "open" /\ UNCHANGED <<spc, conns, csock>> /\ Transmit(s, m)
          /\ written[s] < MaxData
      BY <2>1, <3>1, WriteDoes
    <3>3. written[s] + 1 \in 0 .. MaxData
      <4>1. written[s] \in 0 .. MaxData /\ MaxData \in Nat
        BY <1>0, BoundsAssumption DEF TypeOK
      <4>2. PICK w : w = written[s]
        OBVIOUS
      <4> QED
        BY <3>2, <4>1, <4>2
    <3>4. m \in Messages /\ m.sock = s /\ m.type = "REGULAR" /\ m.n = written[s] + 1
      BY <3>1, <3>3, Message DEF Msg
    <3>5. Sent(s, m)
      BY <2>0, <2>1, <3>2, <3>4 DEF Sent
    <3> QED
      BY <1>0, <3>2, <3>4, <3>5, SendDoes
  <2>2. CASE CloseSend(s)
    <3>1. PICK m : m = Msg("CLOSE", s, 0)
      OBVIOUS
    <3>2. m \in Messages /\ m.sock = s /\ m.type = "CLOSE"
      BY <1>0, <3>1, Message
    <3>3. csock[s] = s
      BY <2>2, CloseSendDoes DEF Orderly, Own
    <3>4. spc[s] = "closing" /\ spc'[s] = "closed" /\ UNCHANGED conns /\ Transmit(s, m)
      BY <1>0, <2>2, <3>1, <3>3, CloseSendDoes DEF TypeOK
    <3>5. Sent(s, m)
      BY <2>0, <3>2, <3>4 DEF Sent
    <3> QED
      BY <1>0, <3>2, <3>4, <3>5, SendDoes
  <2>3. CASE CloseCheck(s) \/ CloseRemove(s)
    BY <1>0, <2>3, CheckDoes, CloseRemoveDoes
  <2> QED
    BY <1>3, <2>1, <2>2, <2>3 DEF Using
<1>4. ASSUME NEW k \in Nodes, RcvStep(k)
      PROVE  \/ chan'[n] = chan[n]
             \/ \E t : /\ Takes(n, t)
                       /\ t = "CLOSE" => RcvClose(n)
                       /\ t = "CONNECT_SUCCESS" => RcvSuccess(n)
                       /\ t = "REGULAR" => RcvRegular(n)
  <2>1. CASE RcvConnect(k)
    <3>1. Takes(Far, "CONNECT")
      BY <1>0, <2>1, ConnectDoes DEF Knocks
    <3> QED
      BY <3>1 DEF Takes
  <2>2. CASE RcvConnectFails(k)
    <3>1. Takes(Far, "CONNECT")
      BY <1>0, <2>2, ConnectFailsDoes DEF Knocks
    <3> QED
      BY <3>1 DEF Takes
  <2>3. CASE RcvRegular(k)
    BY <1>0, <2>3, RegularDoes DEF Takes
  <2>4. CASE RcvClose(k)
    BY <1>0, <2>4, CloseDoes DEF Takes
  <2>5. CASE RcvSuccess(k)
    BY <1>0, <2>5, SuccessDoes DEF Takes
  <2>6. CASE RcvQueue(k) \/ RcvAdd(k) \/ RcvWake(k) \/ RcvCloseState(k) \/ RcvMove(k)
    BY <1>0, <2>6, QueueDoes, RcvAddDoes, WakeDoes, CloseStateDoes, MoveDoes
  <2>7. CASE RcvNoMemory(k)
    BY <2>7, NoMemoryDoes
  <2> QED
    BY <1>4, <2>1, <2>2, <2>3, <2>4, <2>5, <2>6, <2>7 DEF RcvStep
<1>5. UNCHANGED vars => chan'[n] = chan[n]
  BY DEF vars
<1> QED
  BY <1>1, <1>2, <1>3, <1>4, <1>5, Steps

-----------------------------------------------------------------------------
(* What lasts *)

LEMMA SpcMoves ==
    ASSUME OneWay, Orderly, [Next]_vars, NEW x \in Sockets
    PROVE  \/ spc'[x] = spc[x]
           \/ \E c \in Clients : SendConnect(c) /\ x = Cl(c) /\ spc[x] = "idle" /\ spc'[x] = "connecting"
           \/ \E c \in Clients : x = Cl(c) /\ spc[x] = "idle" /\ spc'[x] = "failed"
           \/ \E c \in Clients : x = Cl(c) /\ spc[x] = "connecting" /\ spc'[x] = "open"
           \/ \E c \in Clients : /\ Knocks(c) /\ x = Sv(c) /\ spc[x] = "absent" /\ spc'[x] = "cloned"
                                 /\ hpc'[Far] = "add" /\ hsock'[Far] = x
           \/ \E c \in Clients : /\ x = Sv(c) /\ spc[x] = "cloned" /\ spc'[x] = "open"
                                 /\ \E p \in Acceptors : Notifies(p) /\ asock[p] = x
           \/ CloseCheck(x) /\ spc[x] = "open" /\ spc'[x] = IF x \in closedSks THEN "closed" ELSE "removing"
           \/ spc[x] = "removing" /\ spc'[x] = "closed" /\ conns[Home(x)] = << >>
           \/ /\ spc[x] = "removing" /\ spc'[x] = "closing" /\ csock'[x] = x
              /\ Loses(conns, Home(x), x)
           \/ CloseSend(x) /\ spc[x] = "closing" /\ spc'[x] = "closed"
<1>0. TableInv /\ TypeOK
  BY DEF Orderly, TableInv
<1>1. ASSUME NEW p \in Acceptors, Notifies(p), x = asock[p], spc'[x] = "open"
      PROVE  \E c \in Clients : x = Sv(c) /\ spc[x] = "cloned"
  BY <1>0, <1>1, NotifiesDoes, Carries
<1>2. ASSUME CloseRemove(x), spc[x] = "removing", spc'[x] = "closing", csock'[x] = Head(conns[Home(x)])
      PROVE  csock'[x] = x /\ Loses(conns, Home(x), x)
  <2>1. Loses(conns, Home(x), Head(conns[Home(x)]))
    BY <1>0, <1>2, CloseRemoveDoes DEF TypeOK
  <2>2. conns[Home(x)] # << >>
    BY <2>1 DEF Loses
  <2>3. Head(conns[Home(x)]) = x
    BY <1>2, <2>2, RemovesOwn
  <2> QED
    BY <1>2, <2>1, <2>3
<1> QED
  BY <1>0, <1>1, <1>2, SpcStep

LEMMA Lasting ==
    ASSUME OneWay, Orderly, [Next]_vars
    PROVE  /\ \A x \in Sockets : /\ spc[x] = "closed" => spc'[x] = "closed"
                                 /\ Opened(x) => Opened(x)'
                                 /\ x \in closedSks => x \in closedSks'
           /\ \A c \in Clients : /\ Begun(c) => Begun(c)'
                                 /\ Begun(c)' => Begun(c) \/ SendConnect(c)
                                 /\ Busy(c)' => Busy(c) \/ SendConnect(c)
<1>1. ASSUME NEW x \in Sockets
      PROVE  /\ spc[x] = "closed" => spc'[x] = "closed"
             /\ Opened(x) => Opened(x)'
  BY SpcMoves DEF Opened
<1>2. closedSks \subseteq closedSks'
  BY ClosedStep DEF Orderly
<1>3. ASSUME NEW c \in Clients
      PROVE  /\ Begun(c) => Begun(c)'
             /\ Begun(c)' => Begun(c) \/ SendConnect(c)
  <2>1. Cl(c) \in Sockets /\ \A d : Cl(c) # Sv(d) /\ (Cl(c) = Cl(d) => c = d)
    BY Sides DEF Cl, Sv
  <2> QED
    BY <2>1, SpcMoves DEF Begun
<1>4. ASSUME NEW c \in Clients PROVE Busy(c)' => Busy(c) \/ SendConnect(c)
  BY <1>1, <1>3, Sides DEF Busy
<1> QED
  BY <1>1, <1>2, <1>3, <1>4

LEMMA HandlerGoes ==
    ASSUME TableInv, OneWay, Roles, [Next]_vars, NEW n \in Nodes
    PROVE  /\ hpc[n] = "add" => \/ hpc'[n] = "add" /\ hsock'[n] = hsock[n]
                                \/ Gains(incoming, n, hsock[n])
           /\ hpc[n] = "move" => \/ hpc'[n] = "move" /\ hsock'[n] = hsock[n]
                                 \/ Gains(conns, n, hsock[n])
           /\ hpc[n] = "close" => \/ hpc'[n] = "close" /\ hsock'[n] = hsock[n]
                                  \/ closedSks' = closedSks \cup {hsock[n]}
<1>0. TypeOK
  BY DEF TableInv
<1>1. ASSUME NEW p \in Acceptors, Accepting(p) PROVE UNCHANGED <<hpc, hsock>>
  BY <1>0, <1>1, AwaitsKeeps, TakeDoes, AddDoes, NotifiesDoes DEF Accepting, AcceptKeeps
<1>2. UNCHANGED vars => UNCHANGED <<hpc, hsock>>
  BY DEF vars, handlerVars
<1>3. ASSUME NEW k \in Nodes, RcvStep(k), k # n PROVE hpc'[n] = hpc[n] /\ hsock'[n] = hsock[n]
  BY <1>0, <1>3, RcvKeeps
<1>4. CASE RcvConnect(n)
  <2>1. n = Far /\ \E c : Knocks(c)
    BY <1>4, ConnectDoes
  <2> QED
    BY <2>1 DEF Knocks, Takes
<1>5. CASE RcvConnectFails(n)
  <2>1. n = Far /\ \E c : Knocks(c)
    BY <1>5, ConnectFailsDoes
  <2> QED
    BY <2>1 DEF Knocks, Takes
<1>6. CASE RcvRegular(n) \/ RcvClose(n) \/ RcvSuccess(n)
  BY <1>6, RegularDoes, CloseDoes, SuccessDoes DEF Takes
<1>7. CASE RcvQueue(n) \/ RcvAdd(n) \/ RcvWake(n)
  BY <1>0, <1>7, QueueDoes, RcvAddDoes, WakeDoes
<1>8. CASE RcvCloseState(n) \/ RcvMove(n)
  BY <1>0, <1>8, CloseStateDoes, MoveDoes
<1>9. CASE ~\E k \in Nodes : RcvStep(k)
  BY <1>1, <1>2, <1>9, Steps, ConnectingKeeps, UsingKeeps
<1>10. CASE RcvNoMemory(n)
  BY <1>10, NoMemoryDoes
<1> QED
  BY <1>3, <1>4, <1>5, <1>6, <1>7, <1>8, <1>9, <1>10 DEF RcvStep

LEMMA AcceptorGoes ==
    ASSUME TableInv, OneWay, [Next]_vars, NEW p \in Acceptors, apc[p] \in {"add", "notify"}
    PROVE  \/ apc'[p] \in {"add", "notify"} /\ asock'[p] = asock[p]
           \/ Notifies(p)
<1>0. TypeOK
  BY DEF TableInv
<1>1. ASSUME NEW q \in Acceptors, Accepting(q), q # p PROVE apc'[p] = apc[p] /\ asock'[p] = asock[p]
  BY <1>0, <1>1, AwaitsKeeps, TakeDoes, AddDoes, NotifiesDoes DEF Accepting, AcceptKeeps
<1>2. CASE Awaits(p)
  BY <1>0, <1>2, AwaitsKeeps
<1>3. CASE AcceptTake(p) \/ AcceptAdd(p)
  BY <1>0, <1>3, TakeDoes, AddDoes
<1>4. ASSUME NEW n \in Nodes, RcvStep(n) PROVE apc'[p] = apc[p] /\ asock'[p] = asock[p]
  BY <1>0, <1>4, RcvKeeps
<1>5. UNCHANGED vars => apc'[p] = apc[p] /\ asock'[p] = asock[p]
  BY DEF vars, acceptVars
<1>6. ASSUME NEW c \in Clients, Connecting(c) PROVE apc'[p] = apc[p] /\ asock'[p] = asock[p]
  BY <1>6, ConnectingKeeps
<1>7. ASSUME NEW s \in Sockets, Using(s) PROVE apc'[p] = apc[p] /\ asock'[p] = asock[p]
  BY <1>7, UsingKeeps
<1> QED
  BY <1>1, <1>2, <1>3, <1>4, <1>5, <1>6, <1>7, Steps DEF Accepting

LEMMA WaitingStep ==
    ASSUME OneWay, Orderly, [Next]_vars, NEW c \in Clients
    PROVE  /\ Waiting(c)' => Waiting(c) \/ (spc[Sv(c)] = "absent" /\ spc'[Sv(c)] = "cloned")
           /\ Waiting(c) => Waiting(c)' \/ \E p \in Acceptors : Notifies(p) /\ asock[p] = Sv(c)
           /\ \A p \in Acceptors : Notifies(p) /\ asock[p] = Sv(c) => ~Waiting(c)'
           /\ hpc'[Far] = "add" /\ hsock'[Far] = Sv(c) => Waiting(c)'
<1>0. TableInv /\ TypeOK /\ Roles /\ NotifyAlone /\ Far \in Nodes /\ Near \in Nodes /\ Near # Far
  BY Sides DEF Orderly, AlwaysInv, TableInv
<1>1. ASSUME Sv(c) \in ToSet(incoming'[Far]) PROVE Waiting(c)
  <2>1. \A d \in Clients : Cl(d) # Sv(c)
    BY Sides
  <2>2. CASE Sv(c) \in ToSet(incoming[Far])
    BY <2>2 DEF Waiting
  <2>3. CASE hpc[Far] = "add" /\ Sv(c) = hsock[Far]
    BY <2>3 DEF Waiting
  <2> QED
    BY <1>0, <1>1, <2>1, <2>2, <2>3, IncomingStep DEF Gains, Loses
<1>2. ASSUME hpc'[Far] = "add", hsock'[Far] = Sv(c)
      PROVE  Waiting(c) \/ (spc[Sv(c)] = "absent" /\ spc'[Sv(c)] = "cloned")
  <2>1. CASE hpc'[Far] = hpc[Far] /\ hsock'[Far] = hsock[Far]
    BY <1>2, <2>1 DEF Waiting
  <2>2. CASE ~(hpc'[Far] = hpc[Far] /\ hsock'[Far] = hsock[Far])
    <3>1. PICK d \in Clients : /\ hsock'[Far] = Sv(d) /\ spc[Sv(d)] = "absent"
                               /\ spc' = [spc EXCEPT ![Sv(d)] = "cloned"]
      BY <1>0, <1>2, <2>2, HandlerStep
    <3>2. Sv(c) = Sv(d) /\ Sv(c) \in Sockets
      BY <1>2, <3>1, Sides
    <3> QED
      BY <1>0, <3>1, <3>2 DEF TypeOK
  <2> QED
    BY <2>1, <2>2
<1>3. ASSUME NEW p \in Acceptors, apc'[p] \in {"add", "notify"}, asock'[p] = Sv(c) PROVE Waiting(c)
  BY <1>0, <1>3, AcceptorStep DEF Waiting, Loses
<1>4. ASSUME Sv(c) \in ToSet(incoming[Far]) PROVE Waiting(c)'
  <2>1. CASE Sv(c) \in ToSet(incoming'[Far])
    BY <2>1 DEF Waiting
  <2>2. CASE Sv(c) \notin ToSet(incoming'[Far])
    <3>1. \E p \in Acceptors : asock'[p] = Sv(c) /\ apc'[p] = "add"
      BY <1>0, <1>4, <2>2, IncomingStep DEF Gains, Loses
    <3> QED
      BY <3>1 DEF Waiting
  <2> QED
    BY <2>1, <2>2
<1>5. ASSUME hpc[Far] = "add", hsock[Far] = Sv(c) PROVE Waiting(c)'
  BY <1>0, <1>5, HandlerGoes DEF Waiting, Gains
<1>6. ASSUME NEW p \in Acceptors, apc[p] \in {"add", "notify"}, asock[p] = Sv(c)
      PROVE  Waiting(c)' \/ Notifies(p)
  BY <1>0, <1>6, AcceptorGoes DEF Waiting
<1>7. ASSUME NEW p \in Acceptors, Notifies(p), asock[p] = Sv(c) PROVE ~Waiting(c)'
  <2>1. /\ apc[p] = "notify" /\ apc'[p] = "idle" /\ AcceptKeeps(p) /\ UNCHANGED <<incoming, conns>>
    BY <1>0, <1>7, NotifiesDoes
  <2>2. /\ Sv(c) \notin ToSet(incoming[Far]) /\ ~(hpc[Far] = "add" /\ hsock[Far] = Sv(c))
        /\ \A q \in Acceptors : apc[q] \in {"add", "notify"} /\ asock[q] = Sv(c) => q = p
    BY <1>0, <1>7, <2>1, Sides DEF NotifyAlone
  <2> QED
    BY <2>1, <2>2 DEF AcceptKeeps, Waiting
<1>8. hpc'[Far] = "add" /\ hsock'[Far] = Sv(c) => Waiting(c)'
  BY DEF Waiting
<1>9. Waiting(c)' => Waiting(c) \/ (spc[Sv(c)] = "absent" /\ spc'[Sv(c)] = "cloned")
  BY <1>1, <1>2, <1>3 DEF Waiting
<1>10. Waiting(c) => Waiting(c)' \/ \E p \in Acceptors : Notifies(p) /\ asock[p] = Sv(c)
  BY <1>4, <1>5, <1>6 DEF Waiting
<1> QED
  BY <1>7, <1>8, <1>9, <1>10

LEMMA InConnsStep ==
    ASSUME OneWay, Orderly, [Next]_vars, NEW c \in Clients, InConns(c)'
    PROVE  \/ InConns(c)
           \/ /\ Takes(Near, "CONNECT_SUCCESS") /\ incoming[Near] # << >>
              /\ Cl(c) = Head(incoming[Near]) /\ Cl(c) \in ToSet(incoming[Near]) /\ spc' = spc
<1>0. TableInv /\ Roles /\ Far \in Nodes /\ Near \in Nodes /\ Near # Far
  BY Sides DEF Orderly, AlwaysInv
<1>1. ASSUME Cl(c) \in ToSet(conns'[Near]) PROVE InConns(c)
  BY <1>0, <1>1, ConnsStep, Sides DEF InConns, Gains, Loses
<1>2. ASSUME hpc'[Near] = "move", hsock'[Near] = Cl(c)
      PROVE  \/ InConns(c)
             \/ /\ Takes(Near, "CONNECT_SUCCESS") /\ incoming[Near] # << >>
                /\ Cl(c) = Head(incoming[Near]) /\ Cl(c) \in ToSet(incoming[Near]) /\ spc' = spc
  BY <1>0, <1>2, HandlerStep DEF InConns, Loses
<1> QED
  BY <1>1, <1>2 DEF InConns

-----------------------------------------------------------------------------
(* Every step keeps the invariant *)

LEMMA ProperStays ==
    ASSUME OneWay, Orderly, [Next]_vars, NEW m, NEW n, Proper(m, n)
    PROVE  Proper(m, n)'
<1>1. m.sock \in Sockets /\ ConnOf(m) \in Clients
  BY Sides DEF Proper, ConnOf
<1> QED
  BY <1>1, Lasting DEF Proper

LEMMA SenderIs ==
    ASSUME OneWay, Orderly, [Next]_vars, NEW s \in Sockets, NEW m, Sent(s, m)
    PROVE  \E c \in Clients :
              /\ ConnOf(m) = c /\ spc[s] # "closed" /\ Proper(m, Other(Home(s)))'
              /\ \/ s = Sv(c) /\ Other(Home(s)) = Near /\ Busy(c) /\ m.type # "CONNECT"
                 \/ /\ s = Cl(c) /\ Other(Home(s)) = Far /\ m.type # "CONNECT_SUCCESS"
                    /\ IF m.type = "CONNECT" THEN Busy(c)' ELSE Busy(c)
<1>1. PICK c \in Clients : s[1] = c /\ (s = Cl(c) \/ s = Sv(c))
  BY Sides
<1>2. m.sock = s /\ ConnOf(m) = c
  BY <1>1 DEF Sent, ConnOf
<1>3. CASE s = Sv(c)
  <2>1. s[2] = "server" /\ Other(Home(s)) = Near
    BY <1>3, Sides
  <2>2. spc[s] \in {"cloned", "open", "closing"} /\ m.type # "CONNECT"
    BY <2>1 DEF Sent
  <2>3. Busy(c) /\ Begun(c)
    BY <1>3, <2>2, InUse
  <2>4. Begun(c)'
    BY <2>3, Lasting
  <2>5. /\ m.type = "CLOSE" => spc'[s] = "closed"
        /\ m.type = "REGULAR" => spc'[s] = "open"
    BY DEF Sent
  <2>6. m.type \in {"REGULAR", "CLOSE"} => Opened(s)'
    BY <2>5 DEF Opened
  <2>7. Proper(m, Near)'
    BY <1>2, <2>1, <2>4, <2>5, <2>6 DEF Proper
  <2> QED
    BY <1>2, <1>3, <2>1, <2>2, <2>3, <2>7
<1>4. CASE s = Cl(c)
  <2>1. s[2] = "client" /\ Other(Home(s)) = Far /\ Far # Near
    BY <1>4, Sides
  <2>2. /\ m.type = "CONNECT" => spc[s] = "idle" /\ spc'[s] = "connecting"
        /\ m.type # "CONNECT" => spc[s] \in {"open", "closing"}
        /\ m.type # "CONNECT_SUCCESS"
    BY <2>1 DEF Sent
  <2>3. m.type # "CONNECT" => Busy(c)
    BY <1>4, <2>2, InUse
  <2>4. m.type = "CONNECT" => Busy(c)'
    BY <1>4, <2>2 DEF Busy, Begun
  <2>5. Begun(c)'
    BY <2>3, <2>4, Lasting DEF Busy
  <2>6. m.type = "CLOSE" => spc'[s] = "closed"
    BY DEF Sent
  <2>7. Proper(m, Far)'
    BY <1>2, <2>1, <2>5, <2>6 DEF Proper
  <2>8. spc[s] # "closed"
    BY <2>2
  <2> QED
    BY <1>2, <1>4, <2>1, <2>2, <2>3, <2>4, <2>7, <2>8
<1> QED
  BY <1>1, <1>3, <1>4

LEMMA FlowStep ==
    ASSUME OneWay, Orderly, [Next]_vars, ~HalfOpen'
    PROVE  Flow'
<1> SUFFICES ASSUME NEW n \in Nodes, NEW i \in DOMAIN chan'[n] PROVE Proper(chan[n][i], n)'
  BY DEF Flow
<1>0. chan[n] \in Seq(Messages)
  BY ListTypes DEF Orderly
<1>1. PICK m : m = chan'[n][i]
  OBVIOUS
<1>2. (\E k \in DOMAIN chan[n] : chan[n][k] = m) \/ Proper(m, n)'
  <2>1. CASE chan'[n] = chan[n]
    BY <1>1, <2>1
  <2>2. CASE \E t : Takes(n, t)
    BY <1>0, <1>1, <2>2, TailAt DEF Takes
  <2>3. ASSUME NEW s \in Sockets, NEW x \in Messages, Sent(s, x), n = Other(Home(s)),
               chan'[n] = Append(chan[n], x)
        PROVE  (\E k \in DOMAIN chan[n] : chan[n][k] = m) \/ Proper(m, n)'
    <3>1. Proper(x, n)'
      BY <2>3, SenderIs
    <3>2. (\E k \in DOMAIN chan[n] : chan[n][k] = m) \/ m = x
      BY <1>0, <1>1, <2>3, AppendAt
    <3> QED
      BY <3>1, <3>2
  <2> QED
    BY <2>1, <2>2, <2>3, SentIs
<1>3. ASSUME NEW k \in DOMAIN chan[n], chan[n][k] = m PROVE Proper(m, n)'
  <2>1. Proper(m, n)
    BY <1>3 DEF Orderly, Flow
  <2> QED
    BY <2>1, ProperStays
<1>4. Proper(m, n)'
  BY <1>2, <1>3
<1> QED
  BY <1>1, <1>4 DEF Proper

LEMMA OneBusyStep ==
    ASSUME OneWay, RequestResponse, Orderly, [Next]_vars
    PROVE  OneBusy'
<1>1. ASSUME NEW c \in Clients, NEW d \in Clients, c # d, SendConnect(c) PROVE ~Busy(d)'
  <2>1. Cl(c) # Cl(d) /\ Cl(c) # Sv(d) /\ Cl(d) \in Sockets /\ Sv(d) \in Sockets
    BY <1>1, Sides
  <2>2. spc'[Cl(d)] = spc[Cl(d)] /\ spc'[Sv(d)] = spc[Sv(d)]
    BY <1>1, <2>1, ConnectBegins DEF Orderly, TableInv, TypeOK
  <2>3. \/ spc[Cl(d)] = "idle"
        \/ /\ spc[Cl(d)] \in {"closed", "failed"}
           /\ spc[Sv(d)] \in {"absent", "closed"}
    BY <1>1, ConnectBegins DEF PortFree, Cl, Sv
  <2>4. spc[Cl(d)] = "closed" => spc[Sv(d)] # "absent"
    BY InUse DEF Closing, Opened
  <2> QED
    BY <2>2, <2>3, <2>4 DEF Busy, Begun
<1>2. ASSUME NEW c \in Clients, NEW d \in Clients, Busy(c)', Busy(d)', c # d PROVE FALSE
  <2>1. Busy(c) \/ SendConnect(c)
    BY <1>2, Lasting
  <2>2. Busy(d) \/ SendConnect(d)
    BY <1>2, Lasting
  <2> QED
    BY <1>1, <1>2, <2>1, <2>2, InUse
<1> QED
  BY <1>2 DEF OneBusy

LEMMA CloseIsSent ==
    ASSUME OneWay, Orderly, NEW c \in Clients
    PROVE  /\ Has(chan[Near], "CLOSE", c) => spc[Sv(c)] = "closed"
           /\ Has(chan[Far], "CLOSE", c) => spc[Cl(c)] = "closed"
<1>1. ASSUME NEW n \in Nodes, Has(chan[n], "CLOSE", c)
      PROVE  spc[IF n = Near THEN Sv(c) ELSE Cl(c)] = "closed"
  <2>1. PICK i \in DOMAIN chan[n] : chan[n][i].type = "CLOSE" /\ ConnOf(chan[n][i]) = c
    BY <1>1 DEF Has
  <2>2. PICK m : m = chan[n][i]
    OBVIOUS
  <2>3. /\ m.sock \in Sockets /\ m.sock[2] = IF n = Near THEN "server" ELSE "client"
        /\ spc[m.sock] = "closed"
    BY <2>1, <2>2 DEF Orderly, Flow, Proper
  <2>4. m.sock[1] = c
    BY <2>1, <2>2 DEF ConnOf
  <2>5. m.sock = IF n = Near THEN Sv(c) ELSE Cl(c)
    BY <2>3, <2>4, Sides
  <2> QED
    BY <2>3, <2>5
<1> QED
  BY <1>1, Sides

LEMMA LastStep ==
    ASSUME OneWay, Orderly, [Next]_vars, ~HalfOpen', NEW n \in Nodes
    PROVE  LastIs(chan'[n], "CLOSE")
<1>0. chan[n] \in Seq(Messages) /\ LastIs(chan[n], "CLOSE")
  BY ListTypes DEF Orderly, Order
<1>1. CASE chan'[n] = chan[n]
  BY <1>0, <1>1
<1>2. CASE \E t : Takes(n, t)
  BY <1>0, <1>2, LastMoves DEF Takes
<1>3. ASSUME NEW s \in Sockets, NEW m \in Messages, Sent(s, m), n = Other(Home(s)),
             chan'[n] = Append(chan[n], m)
      PROVE  LastIs(chan'[n], "CLOSE")
  <2>1. PICK c \in Clients : /\ ConnOf(m) = c /\ spc[s] # "closed"
                             /\ (s = Sv(c) /\ n = Near) \/ (s = Cl(c) /\ n = Far)
    BY <1>3, SenderIs
  <2>2. ~Has(chan[n], "CLOSE", c)
    BY <2>1, CloseIsSent
  <2> QED
    BY <1>0, <1>3, <2>1, <2>2, LastMoves
<1> QED
  BY <1>1, <1>2, <1>3, SentIs

\* What announces a connection is sent by its acceptor, and then nothing announces it.
LEMMA UnannouncedStep ==
    ASSUME OneWay, Orderly, [Next]_vars, NEW c \in Clients
    PROVE  /\ Unannounced(c)' => Unannounced(c)
           /\ \A p \in Acceptors : Notifies(p) /\ asock[p] = Sv(c) => ~Unannounced(c)' /\ Unannounced(c)
           /\ Unannounced(c) => \/ Unannounced(c)'
                                \/ \E p \in Acceptors : Notifies(p) /\ asock[p] = Sv(c)
<1>0. Sv(c) \in Sockets /\ \A d \in Clients : Sv(c) # Cl(d)
  BY Sides
<1>1. spc'[Sv(c)] = "absent" => spc[Sv(c)] = "absent"
  BY <1>0, SpcMoves
<1>2. Unannounced(c)' => Unannounced(c)
  BY <1>1, WaitingStep DEF Unannounced
<1>3. ASSUME NEW p \in Acceptors, Notifies(p), asock[p] = Sv(c)
      PROVE  ~Unannounced(c)' /\ Unannounced(c)
  <2>1. apc[p] = "notify"
    BY <1>3, NotifiesDoes DEF Orderly, TableInv
  <2>2. Waiting(c)
    BY <1>3, <2>1 DEF Waiting
  <2>3. spc[Sv(c)] # "absent"
    BY <2>2, InUse
  <2> QED
    BY <1>1, <1>3, <2>2, <2>3, WaitingStep DEF Unannounced
<1>4. ASSUME spc[Sv(c)] = "absent" PROVE Unannounced(c)'
  <2>1. spc'[Sv(c)] = "absent" \/ (hpc'[Far] = "add" /\ hsock'[Far] = Sv(c))
    BY <1>0, <1>4, SpcMoves
  <2> QED
    BY <2>1, WaitingStep DEF Unannounced
<1>5. Unannounced(c) => \/ Unannounced(c)'
                        \/ \E p \in Acceptors : Notifies(p) /\ asock[p] = Sv(c)
  BY <1>4, WaitingStep DEF Unannounced
<1> QED
  BY <1>2, <1>3, <1>5

LEMMA HeraldsConnect ==
    ASSUME OneWay, RequestResponse, Orderly, [Next]_vars, ~HalfOpen', NEW c \in Clients, Busy(c)'
    PROVE  Heralded(chan'[Far], "CONNECT", c)
<1>0. chan[Far] \in Seq(Messages) /\ TypeOK /\ Far \in Nodes
  BY ListTypes, Sides DEF Orderly, TableInv
<1>1. CASE SendConnect(c)
  <2>1. PICK m : m = Msg("CONNECT", Cl(c), 0)
    OBVIOUS
  <2>2. m \in Messages /\ m.type = "CONNECT" /\ m.sock = Cl(c)
    BY <2>1, Message, NoData, Sides
  <2>3. ConnOf(m) = c
    BY <2>2, Sides DEF ConnOf
  <2>4. chan'[Far] = Append(chan[Far], m)
    BY <1>0, <1>1, <2>1, ConnectBegins, SendDoes, Sides
  <2> QED
    BY <1>0, <2>2, <2>3, <2>4, HeraldedMoves
<1>2. CASE Busy(c)
  <2>0. Heralded(chan[Far], "CONNECT", c)
    BY <1>2 DEF Orderly, Order
  <2>1. CASE chan'[Far] = chan[Far]
    BY <2>0, <2>1
  <2>2. CASE \E t : Takes(Far, t)
    BY <1>0, <2>0, <2>2, HeraldedMoves DEF Takes
  <2>3. ASSUME NEW s \in Sockets, NEW m \in Messages, Sent(s, m), Far = Other(Home(s)),
               chan'[Far] = Append(chan[Far], m)
        PROVE  Heralded(chan'[Far], "CONNECT", c)
    <3>1. PICK d \in Clients : ConnOf(m) = d /\ (Busy(d) \/ Busy(d)')
      BY <2>3, SenderIs, Sides
    <3>2. d = c
      BY <1>2, <3>1, InUse, OneBusyStep DEF OneBusy
    <3> QED
      BY <1>0, <2>0, <2>3, <3>1, <3>2, HeraldedMoves
  <2> QED
    BY <1>0, <2>1, <2>2, <2>3, SentIs
<1> QED
  BY <1>1, <1>2, Lasting

\* What accept sends.
LEMMA Confirms ==
    ASSUME OneWay, Orderly, [Next]_vars, NEW c \in Clients, NEW p \in Acceptors,
           Notifies(p), asock[p] = Sv(c)
    PROVE  \E m \in Messages : /\ m.type = "CONNECT_SUCCESS" /\ ConnOf(m) = c
                               /\ chan'[Near] = Append(chan[Near], m)
<1>0. TypeOK /\ Near \in Nodes
  BY Sides DEF Orderly, TableInv
<1>1. PICK m : m = Msg("CONNECT_SUCCESS", Sv(c), 0)
  OBVIOUS
<1>2. m \in Messages /\ m.type = "CONNECT_SUCCESS" /\ m.sock = Sv(c)
  BY <1>1, Message, NoData, Sides
<1>3. ConnOf(m) = c
  BY <1>2, Sides DEF ConnOf
<1>4. chan'[Near] = Append(chan[Near], m)
  BY <1>0, <1>1, NotifiesDoes, SendDoes, Sides
<1> QED
  BY <1>2, <1>3, <1>4

LEMMA HeraldsSuccess ==
    ASSUME OneWay, RequestResponse, Orderly, [Next]_vars, ~HalfOpen', NEW c \in Clients,
           Busy(c)', ~Unannounced(c)'
    PROVE  Heralded(chan'[Near], "CONNECT_SUCCESS", c)
<1>0. chan[Near] \in Seq(Messages) /\ TypeOK /\ Near \in Nodes
  BY ListTypes, Sides DEF Orderly, TableInv
<1>1. CASE Unannounced(c)
  <2>1. PICK p \in Acceptors : Notifies(p) /\ asock[p] = Sv(c)
    BY <1>1, UnannouncedStep
  <2>2. PICK m \in Messages : /\ m.type = "CONNECT_SUCCESS" /\ ConnOf(m) = c
                             /\ chan'[Near] = Append(chan[Near], m)
    BY <2>1, Confirms
  <2> QED
    BY <1>0, <2>2, HeraldedMoves
<1>2. CASE ~Unannounced(c)
  <2>1. Begun(c)
    BY <1>2 DEF Orderly, Serving, Unannounced
  <2>2. Busy(c)
    <3>1. ~SendConnect(c)
      BY <2>1, ConnectBegins DEF Begun
    <3> QED
      BY <3>1, Lasting
  <2>3. Heralded(chan[Near], "CONNECT_SUCCESS", c)
    BY <1>2, <2>2 DEF Orderly, Order
  <2>4. CASE chan'[Near] = chan[Near]
    BY <2>3, <2>4
  <2>5. CASE \E t : Takes(Near, t)
    BY <1>0, <2>3, <2>5, HeraldedMoves DEF Takes
  <2>6. ASSUME NEW s \in Sockets, NEW m \in Messages, Sent(s, m), Near = Other(Home(s)),
               chan'[Near] = Append(chan[Near], m)
        PROVE  Heralded(chan'[Near], "CONNECT_SUCCESS", c)
    <3>1. PICK d \in Clients : ConnOf(m) = d /\ Busy(d)
      BY <2>6, SenderIs, Sides
    <3>2. d = c
      BY <2>2, <3>1, InUse
    <3> QED
      BY <1>0, <2>3, <2>6, <3>1, <3>2, HeraldedMoves
  <2> QED
    BY <1>0, <2>4, <2>5, <2>6, SentIs
<1> QED
  BY <1>1, <1>2

LEMMA NotBefore ==
    ASSUME OneWay, Orderly, [Next]_vars, ~HalfOpen', NEW c \in Clients, Unannounced(c)'
    PROVE  NoneOf(chan'[Near], c)
<1>0. chan[Near] \in Seq(Messages) /\ Near \in Nodes /\ Unannounced(c)
  BY ListTypes, Sides, UnannouncedStep DEF Orderly
<1>1. NoneOf(chan[Near], c)
  BY <1>0 DEF Orderly, Order
<1>2. CASE chan'[Near] = chan[Near]
  BY <1>1, <1>2
<1>3. CASE \E t : Takes(Near, t)
  BY <1>0, <1>1, <1>3, NoneMoves DEF Takes
<1>4. ASSUME NEW s \in Sockets, NEW m \in Messages, Sent(s, m), Near = Other(Home(s)),
             chan'[Near] = Append(chan[Near], m)
      PROVE  NoneOf(chan'[Near], c)
  <2>1. PICK d \in Clients : ConnOf(m) = d /\ s = Sv(d)
    BY <1>4, SenderIs, Sides
  <2>2. ASSUME d = c PROVE FALSE
    <3>1. spc[s] \in {"absent", "cloned"}
      BY <1>0, <2>1, <2>2, InUse DEF Unannounced
    <3>2. s[2] # "client"
      BY <2>1, Sides
    <3>3. \E p \in Acceptors : Notifies(p) /\ asock[p] = s
      BY <1>4, <3>1, <3>2 DEF Sent
    <3> QED
      BY <2>1, <2>2, <3>3, UnannouncedStep
  <2> QED
    BY <1>0, <1>1, <1>4, <2>1, <2>2, NoneMoves
<1> QED
  BY <1>0, <1>2, <1>3, <1>4, SentIs

LEMMA FirstStep ==
    ASSUME OneWay, Orderly, [Next]_vars, ~HalfOpen'
    PROVE  FirstIs(chan'[Near], "CONNECT_SUCCESS")
<1>0. chan[Near] \in Seq(Messages) /\ Near \in Nodes /\ FirstIs(chan[Near], "CONNECT_SUCCESS")
  BY ListTypes, Sides DEF Orderly, Order
<1>1. CASE chan'[Near] = chan[Near]
  BY <1>0, <1>1
<1>2. CASE \E t : Takes(Near, t)
  BY <1>0, <1>2, FirstMoves DEF Takes
<1>3. ASSUME NEW s \in Sockets, NEW m \in Messages, Sent(s, m), Near = Other(Home(s)),
             chan'[Near] = Append(chan[Near], m)
      PROVE  FirstIs(chan'[Near], "CONNECT_SUCCESS")
  <2>1. PICK c \in Clients : ConnOf(m) = c /\ s = Sv(c)
    BY <1>3, SenderIs, Sides
  <2>2. ASSUME m.type = "CONNECT_SUCCESS" PROVE NoneOf(chan[Near], c)
    <3>1. \E p \in Acceptors : Notifies(p) /\ asock[p] = s
      BY <1>3, <2>2 DEF Sent
    <3>2. Unannounced(c)
      BY <2>1, <3>1, UnannouncedStep
    <3> QED
      BY <3>2 DEF Orderly, Order
  <2> QED
    BY <1>0, <1>3, <2>1, <2>2, FirstMoves
<1> QED
  BY <1>0, <1>1, <1>2, <1>3, SentIs

\* The first message for a socket.
LEMMA GotNew ==
    ASSUME OneWay, Orderly, [Next]_vars, NEW c \in Clients, Got(Cl(c))', ~Got(Cl(c))
    PROVE  /\ Takes(Near, "REGULAR") /\ ConnOf(Head(chan[Near])) = c /\ hpc'[Near] = "queue"
           /\ Cl(c) \in ToSet(conns[Near]) /\ Made(Cl(c)) /\ Opened(Sv(c))
           /\ UNCHANGED <<incoming, conns, apc, asock, received, spc>>
<1>0. TableInv /\ Roles /\ Cl(c) \in Sockets
  BY Sides DEF Orderly, AlwaysInv
<1>1. PICK n \in Nodes : /\ hpc'[n] = "queue" /\ Cl(c) = Head(conns[n]) /\ conns[n] # << >>
                         /\ Takes(n, "REGULAR")
                         /\ UNCHANGED <<incoming, conns, apc, asock, received, spc>>
  BY <1>0, GotStep
<1>2. n = Near
  BY <1>1, EntryIs, Sides
<1>3. PICK d \in Clients : Cl(c) = Cl(d) /\ Cl(d) \in ToSet(conns[Near]) /\ InConns(d) /\ Made(Cl(d))
  BY <1>1, <1>2, EntryIs
<1>4. c = d
  BY <1>3, Sides
<1>5. chan[Near] # << >> /\ Head(chan[Near]).type = "REGULAR"
  BY <1>1, <1>2 DEF Takes
<1>6. Head(chan[Near]).sock = Sv(c)
  BY <1>3, <1>4, <1>5, NearMeets
<1>7. Opened(Sv(c))
  BY <1>5, <1>6, FirstMessage, Sides
<1> QED
  BY <1>1, <1>2, <1>3, <1>4, <1>6, <1>7, Sides DEF ConnOf

LEMMA SuccessComesFirst ==
    ASSUME OneWay, Orderly, [Next]_vars, ~HalfOpen', NEW c \in Clients,
           Has(chan'[Near], "CONNECT_SUCCESS", c), Got(Cl(c))'
    PROVE  FALSE
<1>0. chan[Near] \in Seq(Messages) /\ Near \in Nodes
  BY ListTypes, Sides DEF Orderly
<1>1. CASE Got(Cl(c))
  <2>1. ~Has(chan[Near], "CONNECT_SUCCESS", c) /\ Opened(Sv(c))
    BY <1>1, InUse DEF Orderly, Order
  <2>2. CASE chan'[Near] = chan[Near]
    BY <2>1, <2>2
  <2>3. CASE \E t : Takes(Near, t)
    BY <1>0, <2>1, <2>3, HasMoves DEF Takes
  <2>4. ASSUME NEW s \in Sockets, NEW m \in Messages, Sent(s, m), Near = Other(Home(s)),
               chan'[Near] = Append(chan[Near], m)
        PROVE  FALSE
    <3>1. m.type = "CONNECT_SUCCESS" /\ ConnOf(m) = c
      BY <1>0, <2>1, <2>4, HasMoves
    <3>2. s = Sv(c)
      BY <2>4, <3>1, SenderIs, Sides
    <3>3. spc[s] = "cloned"
      BY <2>4, <3>1 DEF Sent
    <3> QED
      BY <2>1, <3>2, <3>3 DEF Opened
  <2> QED
    BY <1>0, <2>2, <2>3, <2>4, SentIs
<1>2. CASE ~Got(Cl(c))
  <2>1. Takes(Near, "REGULAR") /\ ConnOf(Head(chan[Near])) = c
    BY <1>2, GotNew
  <2>2. FirstIs(chan[Near], "CONNECT_SUCCESS")
    BY DEF Orderly, Order
  <2> QED
    BY <1>0, <2>1, <2>2, FirstMoves DEF Takes
<1> QED
  BY <1>1, <1>2

LEMMA OrderStep ==
    ASSUME OneWay, RequestResponse, Orderly, [Next]_vars, ~HalfOpen'
    PROVE  Order'
<1>1. \A n \in Nodes : LastIs(chan'[n], "CLOSE")
  BY LastStep
<1>2. FirstIs(chan'[Near], "CONNECT_SUCCESS")
  BY FirstStep
<1>3. ASSUME NEW c \in Clients
      PROVE  /\ Busy(c)' => Heralded(chan'[Far], "CONNECT", c)
             /\ Busy(c)' /\ ~Unannounced(c)' => Heralded(chan'[Near], "CONNECT_SUCCESS", c)
             /\ Unannounced(c)' => NoneOf(chan'[Near], c)
             /\ Has(chan'[Near], "CONNECT_SUCCESS", c) => ~Got(Cl(c))'
  BY HeraldsConnect, HeraldsSuccess, NotBefore, SuccessComesFirst
<1> QED
  BY <1>1, <1>2, <1>3 DEF Order, LastIs, FirstIs, Heralded, NoneOf, Has

LEMMA AskingStep ==
    ASSUME OneWay, Orderly, [Next]_vars, RequestResponse, NEW c \in Clients
    PROVE  Asking(c)'
<1>0. /\ TableInv /\ Roles /\ Cl(c) \in Sockets /\ Sv(c) \in Sockets /\ Near \in Nodes /\ Far \in Nodes
      /\ Near # Far /\ \A d \in Clients : (Cl(d) = Cl(c) => d = c) /\ Cl(c) # Sv(d)
      /\ Cl(c)[2] = "client"
  BY Sides DEF Orderly, AlwaysInv
<1>1. ASSUME Closing(Cl(c))' PROVE received'[Cl(c)] # << >>
  <2>1. Closing(Cl(c)) \/ CloseCheck(Cl(c))
    BY <1>0, <1>1, SpcMoves DEF Closing
  <2>2. received[Cl(c)] # << >>
    BY <1>0, <2>1, CheckDoes DEF Orderly, Asking
  <2> QED
    BY <1>0, <2>2, GotStep
<1>2. CASE ~Got(Cl(c)) /\ Got(Cl(c))'
  <2>1. /\ hpc'[Near] = "queue" /\ Cl(c) \in ToSet(conns[Near]) /\ Made(Cl(c)) /\ Opened(Sv(c))
        /\ UNCHANGED <<incoming, spc>>
    BY <1>2, GotNew
  <2>2. Cl(c) \notin ToSet(incoming[Near])
    BY <1>0, <2>1, ListTypes
  <2> QED
    BY <1>1, <2>1, <2>2 DEF Asking, Opened, Made, Closing
<1>3. CASE Got(Cl(c))
  <2>1. /\ Opened(Sv(c)) /\ Cl(c) \notin ToSet(incoming[Near]) /\ spc[Cl(c)] # "connecting"
        /\ ~(hpc[Near] = "move" /\ hsock[Near] = Cl(c))
    BY <1>3 DEF Orderly, Asking
  <2>2. Opened(Sv(c))'
    BY <1>0, <2>1, Lasting
  <2>3. Cl(c) \notin ToSet(incoming'[Near])
    BY <1>0, <2>1, IncomingStep DEF Gains, Loses
  <2>4. ~(hpc'[Near] = "move" /\ hsock'[Near] = Cl(c))
    BY <1>0, <2>1, HandlerStep DEF Loses
  <2>5. spc'[Cl(c)] # "connecting"
    <3>1. spc[Cl(c)] # "idle"
      BY <2>1, InUse DEF Opened, Begun
    <3> QED
      BY <1>0, <2>1, <3>1, SpcMoves
  <2> QED
    BY <1>1, <2>2, <2>3, <2>4, <2>5 DEF Asking
<1>4. CASE ~Got(Cl(c)) /\ ~Got(Cl(c))'
  BY <1>1, <1>4 DEF Asking
<1> QED
  BY <1>2, <1>3, <1>4

LEMMA GoneStays ==
    ASSUME OneWay, Orderly, [Next]_vars, ~HalfOpen', NEW c \in Clients, Gone(c)
    PROVE  Gone(c)'
<1>0. chan[Far] \in Seq(Messages) /\ Far \in Nodes /\ Cl(c) \in Sockets
  BY ListTypes, Sides DEF Orderly
<1>1. spc[Cl(c)] = "closed" /\ ~ClientsStartClosed /\ ~Has(chan[Far], "CLOSE", c)
  BY DEF Gone
<1>2. spc'[Cl(c)] = "closed"
  BY <1>0, <1>1, Lasting
<1>3. ~Has(chan'[Far], "CLOSE", c)
  <2>1. CASE chan'[Far] = chan[Far]
    BY <1>1, <2>1
  <2>2. CASE \E t : Takes(Far, t)
    BY <1>0, <1>1, <2>2, HasMoves DEF Takes
  <2>3. ASSUME NEW s \in Sockets, NEW m \in Messages, Sent(s, m), Far = Other(Home(s)),
               chan'[Far] = Append(chan[Far], m)
        PROVE  ~Has(chan'[Far], "CLOSE", c)
    <3>1. PICK d \in Clients : ConnOf(m) = d /\ s = Cl(d) /\ spc[s] # "closed"
      BY <2>3, SenderIs, Sides
    <3>2. d # c
      BY <1>1, <3>1
    <3> QED
      BY <1>0, <1>1, <2>3, <3>1, <3>2, HasMoves
  <2> QED
    BY <1>0, <2>1, <2>2, <2>3, SentIs
<1> QED
  BY <1>1, <1>2, <1>3 DEF Gone, Has

LEMMA ListedStays ==
    ASSUME OneWay, Orderly, [Next]_vars, NEW c \in Clients,
           Sv(c) \in ToSet(conns[Far]), spc'[Sv(c)] \notin {"closing", "closed"}, ~Gone(c)'
    PROVE  Sv(c) \in ToSet(conns'[Far])
<1>0. /\ TableInv /\ Roles /\ Sv(c) \in Sockets /\ Near \in Nodes /\ Far \in Nodes /\ Near # Far
      /\ \A d \in Clients : Cl(d) # Sv(c)
  BY Sides DEF Orderly, AlwaysInv
<1>1. ASSUME NEW s \in Sockets, Loses(conns, Home(s), csock'[s]), spc[s] = "removing", spc'[s] = "closing"
      PROVE  csock'[s] # Sv(c)
  <2>1. csock'[s] = s
    BY <1>1, SpcMoves
  <2> QED
    BY <1>1, <2>1
<1>2. ASSUME NEW n \in Nodes, Loses(conns, n, hsock'[n]), Takes(n, "CLOSE"), hsock'[n] = Sv(c),
             UNCHANGED spc
      PROVE  FALSE
  <2>1. n = Far
    BY <1>0, <1>2, ListTypes, Sides DEF Loses
  <2>2. chan[Far] # << >> /\ Head(chan[Far]).type = "CLOSE" /\ chan'[Far] = Tail(chan[Far])
    BY <1>2, <2>1 DEF Takes
  <2>3. Head(conns[Far]) = Sv(c) /\ conns[Far] # << >>
    BY <1>2, <2>1 DEF Loses
  <2>4. PICK d \in Clients : Head(conns[Far]) = Sv(d) /\ Head(chan[Far]).sock = Cl(d)
    BY <2>2, <2>3, FarMeets
  <2>5. d = c
    BY <2>3, <2>4, Sides
  <2>6. Head(chan[Far]).sock = Cl(c) /\ ConnOf(Head(chan[Far])) = c
    BY <2>4, <2>5, Sides DEF ConnOf
  <2>7. spc[Cl(c)] = "closed" /\ Has(chan[Far], "CLOSE", c)
    BY <1>0, <2>2, <2>6, FirstMessage
  <2>8. ~ClientsStartClosed
    BY <2>7 DEF Orderly, Silent
  <2>9. chan[Far] \in Seq(Messages) /\ LastIs(chan[Far], "CLOSE")
    BY <1>0, ListTypes DEF Orderly, Order
  <2>10. NoneOf(Tail(chan[Far]), c)
    BY <2>2, <2>6, <2>9, LastMoves
  <2>11. ~Has(chan'[Far], "CLOSE", c)
    BY <2>2, <2>10 DEF Has, NoneOf
  <2> QED
    BY <1>2, <2>7, <2>8, <2>11 DEF Gone, Has
<1>3. ASSUME Sv(c) \notin ToSet(conns'[Far]) PROVE FALSE
  <2>1. \/ \E s \in Sockets : /\ Loses(conns, Home(s), csock'[s]) /\ csock'[s] = Sv(c)
                              /\ spc[s] = "removing" /\ spc'[s] = "closing"
        \/ \E n \in Nodes : /\ Loses(conns, n, hsock'[n]) /\ hsock'[n] = Sv(c) /\ Takes(n, "CLOSE")
                            /\ UNCHANGED spc
    BY <1>0, <1>3, ConnsStep DEF Gains, Loses
  <2> QED
    BY <1>1, <1>2, <2>1
<1> QED
  BY <1>3

LEMMA ServingStep ==
    ASSUME OneWay, Orderly, [Next]_vars, ~HalfOpen', NEW c \in Clients
    PROVE  Serving(c)'
<1>0. /\ TableInv /\ Roles /\ Sv(c) \in Sockets /\ Near \in Nodes /\ Far \in Nodes /\ Near # Far
      /\ \A d \in Clients : Cl(d) # Sv(c) /\ (Sv(d) = Sv(c) => d = c)
      /\ \A d \in Clients : Cl(d) = Cl(c) => d = c
      /\ Home(Sv(c)) = Far /\ Sv(c)[2] = "server"
  BY Sides DEF Orderly, AlwaysInv
<1>1. ASSUME ~Begun(c)' PROVE spc'[Sv(c)] = "absent"
  <2>1. ~Begun(c) /\ spc[Sv(c)] = "absent"
    BY <1>1, Lasting DEF Orderly, Serving
  <2>2. ~Knocks(c)
    BY <1>0, <2>1, FirstMessage DEF Knocks, Takes
  <2> QED
    BY <1>0, <2>1, <2>2, SpcMoves
<1>2. ASSUME Waiting(c)' PROVE spc'[Sv(c)] = "cloned"
  <2>1. CASE Waiting(c)
    <3>1. spc[Sv(c)] = "cloned" /\ ~\E p \in Acceptors : Notifies(p) /\ asock[p] = Sv(c)
      BY <1>2, <2>1, InUse, WaitingStep
    <3> QED
      BY <1>0, <3>1, SpcMoves
  <2>2. CASE ~Waiting(c)
    BY <1>2, <2>2, WaitingStep
  <2> QED
    BY <2>1, <2>2
<1>3. ASSUME Sv(c) \in ToSet(conns'[Far]) PROVE spc'[Sv(c)] \notin {"closing", "closed"}
  <2>1. CASE Sv(c) \in ToSet(conns[Far])
    <3>1. spc[Sv(c)] \notin {"closing", "closed"}
      BY <2>1 DEF Orderly, Serving
    <3>2. Sv(c) \notin closedSks
      BY <1>0, <2>1 DEF Orderly, AlwaysInv, ClosedIsOut, BeingClosed, InTables
    <3>3. conns[Far] # << >>
      BY <1>0, <2>1, ListTypes
    <3>4. ~Loses(conns, Far, Sv(c))
      BY <1>3 DEF Loses
    <3> QED
      BY <1>0, <3>1, <3>2, <3>3, <3>4, SpcMoves
  <2>2. CASE Sv(c) \notin ToSet(conns[Far])
    <3>1. PICK p \in Acceptors : asock[p] = Sv(c) /\ apc[p] = "add" /\ spc' = spc
      BY <1>0, <1>3, <2>2, ConnsStep DEF Gains, Loses
    <3>2. Waiting(c)
      BY <3>1 DEF Waiting
    <3> QED
      BY <3>1, <3>2, InUse
  <2> QED
    BY <2>1, <2>2
<1>4. ~Gone(c)' => ~Gone(c)
  BY GoneStays
<1>5. ASSUME spc'[Sv(c)] \in {"open", "removing"}, ~Gone(c)' PROVE Sv(c) \in ToSet(conns'[Far])
  <2>1. Sv(c) \in ToSet(conns[Far])
    <3>1. CASE spc[Sv(c)] \in {"open", "removing"}
      BY <1>4, <1>5, <3>1 DEF Orderly, Serving
    <3>2. CASE spc[Sv(c)] \notin {"open", "removing"}
      <4>1. PICK p \in Acceptors : Notifies(p) /\ asock[p] = Sv(c)
        BY <1>0, <1>5, <3>2, SpcMoves
      <4>2. apc[p] = "notify"
        BY <1>0, <4>1, NotifiesDoes DEF TableInv
      <4> QED
        BY <1>4, <1>5, <4>1, <4>2 DEF Orderly, Serving
    <3> QED
      BY <3>1, <3>2
  <2> QED
    BY <1>5, <2>1, ListedStays
<1>6. ASSUME NEW p \in Acceptors, apc'[p] = "notify", asock'[p] = Sv(c), ~Gone(c)'
      PROVE  Sv(c) \in ToSet(conns'[Far])
  <2>1. CASE apc[p] = "notify" /\ asock[p] = Sv(c)
    <3>1. Sv(c) \in ToSet(conns[Far])
      BY <1>4, <1>6, <2>1 DEF Orderly, Serving
    <3>2. Waiting(c)'
      BY <1>6 DEF Waiting
    <3>3. spc'[Sv(c)] = "cloned"
      BY <1>2, <3>2
    <3> QED
      BY <1>6, <3>1, <3>3, ListedStays
  <2>2. CASE Gains(conns, Far, Sv(c))
    BY <2>2 DEF Gains
  <2> QED
    BY <1>0, <1>6, <2>1, <2>2, AcceptorStep
<1> QED
  BY <1>1, <1>2, <1>3, <1>5, <1>6 DEF Serving

LEMMA EntryOpen ==
    ASSUME OneWay, RequestResponse, Orderly, [Next]_vars, NEW c \in Clients, InConns(c)',
           ~ClientsStartClosed
    PROVE  spc'[Cl(c)] \notin {"closing", "closed"}
<1>0. /\ TableInv /\ Cl(c) \in Sockets /\ Near \in Nodes /\ Home(Cl(c)) = Near
      /\ \A d \in Clients : Sv(d) # Cl(c)
  BY Sides DEF Orderly
<1>1. Asking(c)'
  BY AskingStep
<1>2. CASE InConns(c)
  <2>1. spc[Cl(c)] \notin {"closing", "closed"}
    BY <1>2 DEF Orderly, Entry
  <2>2. Cl(c) \notin closedSks
    BY <1>0, <1>2 DEF Orderly, AlwaysInv, ClosedIsOut, BeingClosed, InTables, InConns, Carried
  <2>3. spc[Cl(c)] = "removing" => conns[Near] # << >> /\ ~(hpc[Near] = "move" /\ hsock[Near] = Cl(c))
    <3>1. ASSUME spc[Cl(c)] = "removing" PROVE ~(hpc[Near] = "move" /\ hsock[Near] = Cl(c))
      BY <3>1, InUse DEF Orderly, Asking, Closing
    <3> QED
      BY <1>0, <1>2, <3>1, ListTypes DEF InConns
  <2>4. ASSUME spc'[Cl(c)] = "closing", Loses(conns, Near, Cl(c)) PROVE FALSE
    <3>1. Got(Cl(c))'
      <4>1. received'[Cl(c)] # << >>
        BY <1>1, <2>4 DEF Asking, Closing
      <4> QED
        BY <4>1 DEF Got
    <3>2. ~(hpc'[Near] = "move" /\ hsock'[Near] = Cl(c))
      BY <1>1, <3>1 DEF Asking
    <3> QED
      BY <2>4, <3>2 DEF InConns, Loses
  <2> QED
    BY <1>0, <2>1, <2>2, <2>3, <2>4, SpcMoves
<1>3. CASE ~InConns(c)
  <2>1. Cl(c) \in ToSet(incoming[Near]) /\ spc' = spc
    BY <1>3, InConnsStep
  <2>2. ~Closing(Cl(c))
    BY <2>1, InUse DEF Orderly, Asking
  <2> QED
    BY <2>1, <2>2 DEF Closing
<1> QED
  BY <1>2, <1>3

\* A CLOSE that is taken at the connecting side ends its entry.
LEMMA CloseEndsEntry ==
    ASSUME OneWay, Orderly, [Next]_vars, NEW c \in Clients, InConns(c), RcvClose(Near)
    PROVE  ~InConns(c)'
<1>0. TableInv /\ Near \in Nodes
  BY Sides DEF Orderly
<1>1. Takes(Near, "CLOSE")
  BY <1>0, CloseDoes
<1>2. Cl(c) \in ToSet(conns[Near]) /\ chan[Near] # << >>
  BY <1>1 DEF InConns, Takes
<1>3. conns[Near] # << >>
  BY <1>0, <1>2, ListTypes
<1>4. Loses(conns, Near, Head(conns[Near])) /\ hpc'[Near] = "close"
  BY <1>0, <1>3, CloseDoes
<1>5. PICK d \in Clients : Head(conns[Near]) = Cl(d) /\ InConns(d)
  BY <1>3, EntryIs
<1>6. Head(chan[Near]).sock = Sv(d) /\ Head(chan[Near]).sock = Sv(c)
  BY <1>2, <1>5, NearMeets
<1>7. d = c
  BY <1>6, Sides
<1> QED
  BY <1>4, <1>5, <1>7 DEF Loses, InConns

LEMMA EndsStays ==
    ASSUME OneWay, Orderly, [Next]_vars, ~HalfOpen', NEW c \in Clients, InConns(c), InConns(c)',
           EndsIn(chan[Near], c)
    PROVE  EndsIn(chan'[Near], c)
<1>0. chan[Near] \in Seq(Messages) /\ Near \in Nodes
  BY ListTypes, Sides DEF Orderly
<1>1. CASE chan'[Near] = chan[Near]
  BY <1>1
<1>2. ASSUME NEW t, Takes(Near, t), t = "CLOSE" => RcvClose(Near) PROVE EndsIn(chan'[Near], c)
  <2>1. t # "CLOSE"
    BY <1>2, CloseEndsEntry
  <2> QED
    BY <1>0, <1>2, <2>1, EndsMoves DEF Takes
<1>3. ASSUME NEW m \in Messages, chan'[Near] = Append(chan[Near], m) PROVE EndsIn(chan'[Near], c)
  BY <1>0, <1>3, EndsMoves
<1> QED
  BY <1>0, <1>1, <1>2, <1>3, SentIs

\* What the confirmation of c brings behind it is of c.
LEMMA EntryComes ==
    ASSUME OneWay, Orderly, [Next]_vars, NEW c \in Clients,
           Takes(Near, "CONNECT_SUCCESS"), incoming[Near] # << >>, Cl(c) = Head(incoming[Near])
    PROVE  /\ AllOf(chan[Near], c) /\ AllOf(chan'[Near], c)
           /\ Has(chan[Near], "CONNECT_SUCCESS", c)
<1>0. chan[Near] \in Seq(Messages) /\ Near \in Nodes /\ chan[Near] # << >>
  BY ListTypes, Sides DEF Orderly, Takes
<1>1. Cl(c) \in ToSet(incoming[Near]) /\ Made(Cl(c))
  BY EntryIs, Sides
<1>2. ~Closing(Cl(c))
  BY <1>1, InUse DEF Orderly, Asking
<1>3. Busy(c)
  BY <1>1, <1>2, InUse DEF Made, Closing
<1>4. PICK d \in Clients : /\ ConnOf(Head(chan[Near])) = d /\ Begun(d)
                           /\ Has(chan[Near], "CONNECT_SUCCESS", d)
  BY <1>0, FirstMessage DEF Takes
<1>5. ~Got(Cl(d)) /\ ~Unannounced(d)
  <2>1. ~Got(Cl(d))
    BY <1>4 DEF Orderly, Order
  <2>2. ~NoneOf(chan[Near], d)
    BY <1>4 DEF Has, NoneOf
  <2> QED
    BY <2>1, <2>2 DEF Orderly, Order
<1>6. Busy(d)
  <2>1. ~Closing(Cl(d))
    BY <1>5, InUse
  <2> QED
    BY <1>4, <2>1 DEF Busy, Closing
<1>7. d = c
  BY <1>3, <1>6, InUse
<1>8. Heralded(chan[Near], "CONNECT_SUCCESS", c) /\ FirstIs(chan[Near], "CONNECT_SUCCESS")
  BY <1>3, <1>5, <1>7 DEF Orderly, Order
<1>9. AllOf(chan[Near], c)
  <2> SUFFICES ASSUME NEW i \in DOMAIN chan[Near], ConnOf(chan[Near][i]) # c PROVE FALSE
    BY DEF AllOf
  <2>1. PICK k \in DOMAIN chan[Near] :
            k > i /\ chan[Near][k].type = "CONNECT_SUCCESS" /\ ConnOf(chan[Near][k]) = c
    BY <1>8 DEF Heralded
  <2>2. 1 \in DOMAIN chan[Near] /\ chan[Near][1] = Head(chan[Near]) /\ i >= 1 /\ i \in Nat /\ k \in Nat
    BY <1>0, TailAt
  <2>3. 1 < k
    BY <2>1, <2>2
  <2>4. ConnOf(chan[Near][1]) = c
    BY <1>4, <1>7, <2>2
  <2> QED
    BY <1>8, <2>1, <2>2, <2>3, <2>4 DEF FirstIs
<1> QED
  BY <1>0, <1>4, <1>7, <1>9, AllMoves DEF Takes

LEMMA EntryOrder ==
    ASSUME OneWay, Orderly, [Next]_vars, ~HalfOpen', NEW c \in Clients, InConns(c)'
    PROVE  AllOf(chan'[Near], c) \/ EndsIn(chan'[Near], c)
<1>0. chan[Near] \in Seq(Messages) /\ Near \in Nodes
  BY ListTypes, Sides DEF Orderly
<1>1. CASE ~InConns(c)
  BY <1>1, InConnsStep, EntryComes
<1>2. CASE InConns(c) /\ EndsIn(chan[Near], c)
  BY <1>2, EndsStays
<1>3. CASE InConns(c) /\ ~EndsIn(chan[Near], c)
  <2>1. AllOf(chan[Near], c)
    BY <1>3 DEF Orderly, Entry
  <2>2. Made(Cl(c))
    BY <1>3, Sides DEF Orderly, TableInv, Owned, EntryAt, InConns
  <2>3. Busy(c)
    <3>1. CASE ~ClientsStartClosed
      <4>1. spc[Cl(c)] # "closed"
        BY <1>3, <3>1 DEF Orderly, Entry
      <4> QED
        BY <2>2, <4>1, InUse DEF Made
    <3>2. CASE ClientsStartClosed
      <4>1. spc[Sv(c)] # "closed"
        BY <1>3, <3>2 DEF Orderly, Entry
      <4> QED
        BY <2>2, <4>1 DEF Made, Busy, Begun
    <3> QED
      BY <3>1, <3>2
  <2>4. CASE chan'[Near] = chan[Near]
    BY <2>1, <2>4
  <2>5. CASE \E t : Takes(Near, t)
    BY <1>0, <2>1, <2>5, AllMoves DEF Takes
  <2>6. ASSUME NEW s \in Sockets, NEW m \in Messages, Sent(s, m), Near = Other(Home(s)),
               chan'[Near] = Append(chan[Near], m)
        PROVE  AllOf(chan'[Near], c)
    <3>1. PICK d \in Clients : ConnOf(m) = d /\ Busy(d)
      BY <2>6, SenderIs, Sides
    <3>2. d = c
      BY <2>3, <3>1, InUse
    <3> QED
      BY <1>0, <2>1, <2>6, <3>1, <3>2, AllMoves
  <2> QED
    BY <1>0, <2>4, <2>5, <2>6, SentIs
<1> QED
  BY <1>1, <1>2, <1>3

\* When the programs of connecting sockets tell nothing, the other side always does.
LEMMA ServerTells ==
    ASSUME OneWay, Orderly, [Next]_vars, ClientsStartClosed, NEW c \in Clients,
           spc[Sv(c)] # "closed", spc'[Sv(c)] = "closed"
    PROVE  \E m \in Messages : /\ m.type = "CLOSE" /\ ConnOf(m) = c
                               /\ chan'[Near] = Append(chan[Near], m)
<1>0. /\ TableInv /\ TypeOK /\ Sv(c) \in Sockets /\ Near \in Nodes /\ Far \in Nodes /\ Home(Sv(c)) = Far
      /\ \A d \in Clients : Cl(d) # Sv(c)
  BY Sides DEF Orderly, TableInv
<1>1. Sv(c) \notin closedSks
  BY DEF Orderly, Silent, BeingClosed
<1>2. spc[Sv(c)] = "removing" => conns[Far] # << >>
  <2>1. ASSUME spc[Sv(c)] = "removing" PROVE Sv(c) \in ToSet(conns[Far])
    BY <2>1 DEF Orderly, Serving, Gone
  <2> QED
    BY <1>0, <2>1, ListTypes
<1>3. CloseSend(Sv(c)) /\ spc[Sv(c)] = "closing"
  BY <1>0, <1>1, <1>2, SpcMoves
<1>4. csock[Sv(c)] = Sv(c)
  BY <1>0, <1>3 DEF Orderly, Own
<1>5. PICK m : m = Msg("CLOSE", Sv(c), 0)
  OBVIOUS
<1>6. m \in Messages /\ m.type = "CLOSE" /\ m.sock = Sv(c)
  BY <1>0, <1>5, Message, NoData
<1>7. ConnOf(m) = c
  BY <1>6, Sides DEF ConnOf
<1>8. chan'[Near] = Append(chan[Near], m)
  BY <1>0, <1>3, <1>4, <1>5, CloseSendDoes, SendDoes, Sides
<1> QED
  BY <1>6, <1>7, <1>8

LEMMA EntryEnds ==
    ASSUME OneWay, Orderly, [Next]_vars, ~HalfOpen', NEW c \in Clients, InConns(c)',
           ClientsStartClosed, spc'[Sv(c)] = "closed"
    PROVE  EndsIn(chan'[Near], c)
<1>0. chan[Near] \in Seq(Messages) /\ Near \in Nodes
  BY ListTypes, Sides DEF Orderly
<1>1. CASE InConns(c) /\ spc[Sv(c)] = "closed"
  <2>1. EndsIn(chan[Near], c)
    BY <1>1 DEF Orderly, Entry
  <2> QED
    BY <1>1, <2>1, EndsStays
<1>2. CASE InConns(c) /\ spc[Sv(c)] # "closed"
  <2>1. PICK m \in Messages : /\ m.type = "CLOSE" /\ ConnOf(m) = c
                              /\ chan'[Near] = Append(chan[Near], m)
    BY <1>2, ServerTells
  <2>2. AllOf(chan[Near], c) \/ EndsIn(chan[Near], c)
    BY <1>2 DEF Orderly, Entry
  <2> QED
    BY <1>0, <2>1, <2>2, AllMoves, EndsMoves
<1>3. CASE ~InConns(c)
  <2>1. /\ Takes(Near, "CONNECT_SUCCESS") /\ incoming[Near] # << >>
        /\ Cl(c) = Head(incoming[Near]) /\ spc' = spc
    BY <1>3, InConnsStep
  <2>2. AllOf(chan'[Near], c) /\ Has(chan[Near], "CONNECT_SUCCESS", c)
    BY <2>1, EntryComes
  <2>3. Has(chan[Near], "CLOSE", c)
    BY <2>1, <2>2 DEF Orderly, Silent
  <2>4. Has(chan'[Near], "CLOSE", c)
    BY <1>0, <2>1, <2>3, HasMoves DEF Takes
  <2> QED
    BY <2>2, <2>4 DEF Has, AllOf, EndsIn
<1> QED
  BY <1>1, <1>2, <1>3

LEMMA EntryStep ==
    ASSUME OneWay, RequestResponse, Orderly, [Next]_vars, ~HalfOpen', NEW c \in Clients
    PROVE  Entry(c)'
<1>1. InConns(c)' /\ ~ClientsStartClosed => spc'[Cl(c)] \notin {"closing", "closed"}
  BY EntryOpen
<1>2. InConns(c)' => AllOf(chan'[Near], c) \/ EndsIn(chan'[Near], c)
  BY EntryOrder
<1>3. InConns(c)' /\ ClientsStartClosed /\ spc'[Sv(c)] = "closed" => EndsIn(chan'[Near], c)
  BY EntryEnds
<1> QED
  BY <1>1, <1>2, <1>3 DEF Entry, AllOf, EndsIn

LEMMA CloseAnswersSuccess ==
    ASSUME OneWay, Orderly, [Next]_vars, ~HalfOpen', NEW c \in Clients, ClientsStartClosed,
           spc'[Sv(c)] = "closed", Has(chan'[Near], "CONNECT_SUCCESS", c)
    PROVE  Has(chan'[Near], "CLOSE", c)
<1>0. chan[Near] \in Seq(Messages) /\ Near \in Nodes /\ Sv(c) \in Sockets
  BY ListTypes, Sides DEF Orderly
<1>1. CASE spc[Sv(c)] # "closed"
  <2>1. PICK m \in Messages : /\ m.type = "CLOSE" /\ ConnOf(m) = c
                              /\ chan'[Near] = Append(chan[Near], m)
    BY <1>1, ServerTells
  <2> QED
    BY <1>0, <2>1, HasMoves
<1>2. CASE spc[Sv(c)] = "closed"
  <2>0. Has(chan[Near], "CONNECT_SUCCESS", c) => Has(chan[Near], "CLOSE", c)
    BY <1>2 DEF Orderly, Silent
  <2>1. CASE chan'[Near] = chan[Near]
    BY <2>0, <2>1
  <2>2. ASSUME NEW t, Takes(Near, t) PROVE Has(chan'[Near], "CLOSE", c)
    <3>1. chan[Near] # << >> /\ chan'[Near] = Tail(chan[Near])
      BY <2>2 DEF Takes
    <3>2. Has(chan[Near], "CLOSE", c)
      BY <1>0, <2>0, <3>1, HasMoves
    <3>3. ASSUME Head(chan[Near]).type = "CLOSE", ConnOf(Head(chan[Near])) = c PROVE FALSE
      <4>1. NoneOf(chan'[Near], c)
        BY <1>0, <3>1, <3>3, LastMoves DEF Orderly, Order
      <4> QED
        BY <4>1 DEF NoneOf, Has
    <3> QED
      BY <1>0, <3>1, <3>2, <3>3, HasMoves
  <2>3. ASSUME NEW s \in Sockets, NEW m \in Messages, Sent(s, m), Near = Other(Home(s)),
               chan'[Near] = Append(chan[Near], m)
        PROVE  Has(chan'[Near], "CLOSE", c)
    <3>1. PICK d \in Clients : ConnOf(m) = d /\ s = Sv(d) /\ spc[s] # "closed"
      BY <2>3, SenderIs, Sides
    <3>2. Has(chan[Near], "CONNECT_SUCCESS", c)
      BY <1>0, <1>2, <2>3, <3>1, HasMoves
    <3> QED
      BY <1>0, <2>0, <2>3, <3>2, HasMoves
  <2> QED
    BY <1>0, <2>1, <2>2, <2>3, SentIs
<1> QED
  BY <1>1, <1>2

LEMMA SilentStep ==
    ASSUME OneWay, Orderly, [Next]_vars, ~HalfOpen'
    PROVE  Silent'
<1> SUFFICES ASSUME ClientsStartClosed, NEW c \in Clients
             PROVE  /\ Cl(c) \in closedSks' /\ spc'[Cl(c)] \notin {"removing", "closing"}
                    /\ ~BeingClosed(Sv(c))' /\ ~Has(chan'[Far], "CLOSE", c)
                    /\ spc'[Sv(c)] = "closed" /\ Has(chan'[Near], "CONNECT_SUCCESS", c)
                          => Has(chan'[Near], "CLOSE", c)
  BY DEF Silent, Has
<1>0. /\ TableInv /\ Roles /\ chan[Far] \in Seq(Messages) /\ Near \in Nodes /\ Far \in Nodes /\ Near # Far
      /\ Cl(c) \in Sockets /\ Sv(c) \in Sockets /\ \A d \in Clients : Sv(d) # Cl(c)
  BY ListTypes, Sides DEF Orderly, AlwaysInv
<1>1. /\ Cl(c) \in closedSks /\ spc[Cl(c)] \notin {"removing", "closing"}
      /\ ~BeingClosed(Sv(c)) /\ ~Has(chan[Far], "CLOSE", c)
  BY DEF Orderly, Silent
<1>2. Cl(c) \in closedSks'
  BY <1>0, <1>1, Lasting
<1>3. spc'[Cl(c)] \notin {"removing", "closing"}
  BY <1>0, <1>1, SpcMoves
<1>4. ~BeingClosed(Sv(c))'
  <2>1. Sv(c) \notin closedSks'
    BY <1>0, <1>1, ClosedStep DEF BeingClosed
  <2>2. ASSUME NEW n \in Nodes, hpc'[n] = "close", hsock'[n] = Sv(c) PROVE FALSE
    <3>1. Loses(conns, n, Sv(c)) /\ Takes(n, "CLOSE")
      BY <1>0, <1>1, <2>2, HandlerStep DEF BeingClosed
    <3>2. n = Far
      BY <1>0, <3>1, ListTypes, Sides DEF Loses
    <3>3. PICK d \in Clients : Has(chan[Far], "CLOSE", d)
      BY <3>1, <3>2, FirstMessage DEF Takes
    <3> QED
      BY <3>3 DEF Orderly, Silent
  <2> QED
    BY <2>1, <2>2 DEF BeingClosed
<1>5. ~Has(chan'[Far], "CLOSE", c)
  <2>1. CASE chan'[Far] = chan[Far]
    BY <1>1, <2>1
  <2>2. CASE \E t : Takes(Far, t)
    BY <1>0, <1>1, <2>2, HasMoves DEF Takes
  <2>3. ASSUME NEW s \in Sockets, NEW m \in Messages, Sent(s, m), Far = Other(Home(s)),
               chan'[Far] = Append(chan[Far], m)
        PROVE  ~Has(chan'[Far], "CLOSE", c)
    <3>1. PICK d \in Clients : ConnOf(m) = d /\ s = Cl(d)
      BY <1>0, <2>3, SenderIs
    <3>2. m.type # "CLOSE"
      <4>1. spc[s] # "closing"
        BY <3>1 DEF Orderly, Silent
      <4> QED
        BY <2>3, <4>1 DEF Sent
    <3> QED
      BY <1>0, <1>1, <2>3, <3>2, HasMoves
  <2> QED
    BY <1>0, <2>1, <2>2, <2>3, SentIs
<1>6. spc'[Sv(c)] = "closed" /\ Has(chan'[Near], "CONNECT_SUCCESS", c) => Has(chan'[Near], "CLOSE", c)
  BY CloseAnswersSuccess
<1> QED
  BY <1>2, <1>3, <1>4, <1>5, <1>6

LEMMA CsockStep ==
    ASSUME TableInv, OneWay, [Next]_vars, NEW x \in Sockets
    PROVE  csock'[x] = csock[x] \/ CloseRemove(x) \/ CloseSend(x)
<1>0. TypeOK
  BY DEF TableInv
<1>1. ASSUME NEW c \in Clients, Connecting(c) PROVE csock' = csock
  BY <1>1, ConnectingKeeps
<1>2. ASSUME NEW p \in Acceptors, Accepting(p) PROVE csock' = csock
  BY <1>0, <1>2, AwaitsKeeps, TakeDoes, AddDoes, NotifiesDoes DEF Accepting, AcceptKeeps
<1>3. ASSUME NEW s \in Sockets, Using(s) PROVE csock'[x] = csock[x] \/ CloseRemove(x) \/ CloseSend(x)
  <2>1. CASE Write(s) \/ CloseCheck(s)
    BY <2>1, WriteDoes, CheckDoes
  <2>2. CASE CloseRemove(s)
    <3>1. csock' = csock \/ \E y : csock' = [csock EXCEPT ![s] = y]
      BY <2>2, CloseRemoveDoes
    <3>2. s # x => csock'[x] = csock[x]
      BY <1>0, <3>1 DEF TypeOK
    <3> QED
      BY <2>2, <3>2
  <2>3. CASE CloseSend(s)
    <3>1. csock' = [csock EXCEPT ![s] = NoSocket]
      BY <2>3, CloseSendDoes
    <3>2. s # x => csock'[x] = csock[x]
      BY <1>0, <3>1 DEF TypeOK
    <3> QED
      BY <2>3, <3>2
  <2> QED
    BY <1>3, <2>1, <2>2, <2>3 DEF Using
<1>4. ASSUME NEW n \in Nodes, RcvStep(n) PROVE csock' = csock
  BY <1>0, <1>4, RcvKeeps
<1>5. UNCHANGED vars => csock' = csock
  BY DEF vars, programVars
<1> QED
  BY <1>1, <1>2, <1>3, <1>4, <1>5, Steps

LEMMA OwnStep ==
    ASSUME OneWay, Orderly, [Next]_vars
    PROVE  Own'
<1>0. TableInv /\ Roles
  BY DEF Orderly, AlwaysInv
<1>1. ASSUME NEW s \in Sockets, spc'[s] = "closing" PROVE csock'[s] = s
  <2>1. CASE spc[s] = "closing"
    <3>1. csock[s] = s
      BY <2>1 DEF Orderly, Own
    <3>2. ~CloseRemove(s)
      BY <1>0, <2>1, CloseRemoveDoes
    <3>3. ~CloseSend(s)
      <4>1. CloseSend(s) => spc'[s] = "closed"
        BY <1>0, CloseSendDoes DEF TableInv, TypeOK
      <4> QED
        BY <1>1, <4>1
    <3> QED
      BY <1>0, <3>1, <3>2, <3>3, CsockStep
  <2>2. CASE spc[s] # "closing"
    BY <1>1, <2>2, SpcMoves
  <2> QED
    BY <2>1, <2>2
<1>2. ASSUME NEW n \in Nodes, hpc'[n] = "queue" PROVE hmsg'[n].sock = Peer(hsock'[n])
  <2>1. CASE hpc'[n] = hpc[n] /\ hsock'[n] = hsock[n] /\ hmsg'[n] = hmsg[n]
    BY <1>2, <2>1 DEF Orderly, Own
  <2>2. CASE /\ hsock'[n] = Head(conns[n]) /\ conns[n] # << >>
             /\ hmsg'[n] = Head(chan[n]) /\ Takes(n, "REGULAR")
    <3>1. chan[n] # << >> /\ Head(chan[n]).type = "REGULAR"
      BY <2>2 DEF Takes
    <3>2. CASE n = Near
      <4>1. PICK c \in Clients : Head(conns[Near]) = Cl(c) /\ InConns(c)
        BY <2>2, <3>2, EntryIs
      <4>2. Head(chan[Near]).sock = Sv(c)
        BY <3>1, <3>2, <4>1, NearMeets
      <4> QED
        BY <2>2, <3>2, <4>1, <4>2, Sides
    <3>3. CASE n = Far
      <4>1. PICK c \in Clients : Head(conns[Far]) = Sv(c) /\ Head(chan[Far]).sock = Cl(c)
        BY <2>2, <3>1, <3>3, FarMeets
      <4> QED
        BY <2>2, <3>3, <4>1, Sides
    <3> QED
      BY <3>2, <3>3, Sides
  <2> QED
    BY <1>0, <1>2, <2>1, <2>2, HandlerStep
<1> QED
  BY <1>1, <1>2 DEF Own

LEMMA CrossStep ==
    ASSUME OneWay, Orderly, [Next]_vars
    PROVE  NoCrossTalk'
<1> SUFFICES ASSUME NEW s \in Sockets, NEW i \in DOMAIN received'[s]
             PROVE  received'[s][i].sock = Peer(s)
  BY DEF NoCrossTalk
<1>0. TableInv /\ TypeOK /\ received[s] \in Seq(Messages) /\ \A n \in Nodes : hmsg[n] \in Messages
  BY DEF Orderly, TableInv, TypeOK
<1>1. \A k \in DOMAIN received[s] : received[s][k].sock = Peer(s)
  BY DEF Orderly, NoCrossTalk
<1>2. CASE received'[s] = received[s]
  BY <1>1, <1>2
<1>3. ASSUME NEW n \in Nodes, hpc[n] = "queue", hsock[n] = s,
             received'[s] = Append(received[s], hmsg[n])
      PROVE  received'[s][i].sock = Peer(s)
  <2>1. hmsg[n].sock = Peer(s)
    BY <1>3 DEF Orderly, Own
  <2>2. (i \in DOMAIN received[s] /\ received'[s][i] = received[s][i]) \/ received'[s][i] = hmsg[n]
    BY <1>0, <1>3, AppendAt
  <2> QED
    BY <1>1, <2>1, <2>2
<1>4. received'[s] = received[s] \/ \E n \in Nodes :
          hpc[n] = "queue" /\ hsock[n] = s /\ received'[s] = Append(received[s], hmsg[n])
  <2>1. DOMAIN received = Sockets
    BY <1>0 DEF TypeOK
  <2>2. ASSUME NEW n \in Nodes, hpc[n] = "queue",
               received' = [received EXCEPT ![hsock[n]] = Append(@, hmsg[n])]
        PROVE  \/ received'[s] = received[s]
               \/ hsock[n] = s /\ received'[s] = Append(received[s], hmsg[n])
    BY <2>1, <2>2
  <2>3. \/ received' = received
        \/ \E n \in Nodes : /\ hpc[n] = "queue"
                            /\ received' = [received EXCEPT ![hsock[n]] = Append(@, hmsg[n])]
    BY <1>0, ReceivedStep
  <2> QED
    BY <2>2, <2>3
<1> QED
  BY <1>2, <1>3, <1>4

-----------------------------------------------------------------------------
(* Each message meets its own connection *)

OrderlyUnlessHalfOpen == TableInv /\ AlwaysInv /\ (~HalfOpen => Orderly)

LEMMA ErrorsStay == ASSUME [Next]_vars PROVE errors \subseteq errors'
  BY DEF Next, SendConnect, ConnectFails, AddConnecting, AcceptEnter, AcceptPrepare, AcceptCheck,
     AcceptInterrupted, AcceptRecheck, AcceptFinish, AcceptTake, AcceptAdd, AcceptNotify,
     AcceptNotifyFails, AcceptStep, Write, CloseCheck, CloseRemove, CloseSend, CloseStep, RcvStep,
     RcvRegular, RcvQueue, RcvConnect, RcvConnectFails, RcvAdd, RcvWake, RcvClose, RcvCloseState,
     RcvSuccess, RcvMove, RcvNoMemory, Error, rareVars, vars

LEMMA OrderlyStep ==
    ASSUME OneWay, RequestResponse, Orderly, [Next]_vars, ~HalfOpen'
    PROVE  Orderly'
<1>1. TableInv' /\ AlwaysInv'
  BY TableStep, ClosedIsOutStep, NotifyAloneStep, RolesStep DEF Orderly, AlwaysInv
<1>2. Flow' /\ OneBusy' /\ Order' /\ Silent' /\ Own' /\ NoCrossTalk'
  BY FlowStep, OneBusyStep, OrderStep, SilentStep, OwnStep, CrossStep
<1>3. \A c \in Clients : Asking(c)' /\ Serving(c)' /\ Entry(c)'
  BY AskingStep, ServingStep, EntryStep
<1> QED
  BY <1>1, <1>2, <1>3 DEF Orderly

LEMMA OrderlyInit == ASSUME OneWay, Init PROVE Orderly
<1>0. TableInv
  BY TableInit
<1>1. /\ \A n \in Nodes : chan[n] = << >> /\ incoming[n] = << >> /\ conns[n] = << >> /\ hpc[n] = "idle"
      /\ \A s \in Sockets : received[s] = << >> /\ spc[s] = IF s[2] = "client" THEN "idle" ELSE "absent"
      /\ \A p \in Acceptors : apc[p] = "idle"
      /\ closedSks = IF ClientsStartClosed THEN {s \in Sockets : s[2] = "client"} ELSE {}
      /\ errors = {}
  BY DEF Init
<1>2. ToSet(<< >>) = {} /\ DOMAIN << >> = {}
  BY DEF ToSet
<1>3. \A c \in Clients : spc[Cl(c)] = "idle" /\ spc[Sv(c)] = "absent"
  BY <1>1, Sides
<1>4. ClosedIsOut
  BY <1>1 DEF ClosedIsOut, BeingClosed
<1>5. NotifyAlone /\ Roles
  BY <1>1, Sides DEF NotifyAlone, Roles
<1>6. ~HalfOpen
  BY <1>1 DEF HalfOpen
<1>7. Flow /\ Own /\ NoCrossTalk
  BY <1>1, <1>2 DEF Flow, Own, NoCrossTalk
<1>8. \A c \in Clients : ~Begun(c) /\ ~Busy(c)
  BY <1>3 DEF Busy, Begun
<1>9. OneBusy
  BY <1>8 DEF OneBusy
<1>10. \A c \in Clients : ~Waiting(c) /\ ~InConns(c) /\ ~Got(Cl(c))
  BY <1>1, <1>2, Sides DEF Waiting, InConns, Got
<1>11. \A n \in Nodes : DOMAIN chan[n] = {} /\ ToSet(conns[n]) = {}
  BY <1>1, <1>2
<1>12. Order
  BY <1>8, <1>10, <1>11, Sides DEF Order, LastIs, FirstIs, NoneOf, Has
<1>13. Silent
  <2>1. ASSUME ClientsStartClosed, NEW c \in Clients
        PROVE  Cl(c) \in closedSks /\ ~BeingClosed(Sv(c))
    BY <1>1, <2>1, Sides DEF BeingClosed
  <2> QED
    BY <1>3, <1>11, <2>1, Sides DEF Silent, Has
<1>14. \A c \in Clients : Asking(c) /\ Entry(c)
  BY <1>3, <1>10 DEF Asking, Entry, Closing
<1>15. \A c \in Clients : Serving(c)
  BY <1>1, <1>3, <1>10, <1>11, Sides DEF Serving
<1> QED
  BY <1>0, <1>4, <1>5, <1>6, <1>7, <1>9, <1>12, <1>13, <1>14, <1>15 DEF Orderly, AlwaysInv

LEMMA OrderlyUnlessStep ==
    ASSUME OneWay, RequestResponse, OrderlyUnlessHalfOpen, [Next]_vars
    PROVE  OrderlyUnlessHalfOpen'
<1>1. TableInv' /\ AlwaysInv'
  BY TableStep, ClosedIsOutStep, NotifyAloneStep, RolesStep DEF OrderlyUnlessHalfOpen, AlwaysInv
<1>2. ~HalfOpen' => Orderly'
  BY ErrorsStay, OrderlyStep DEF OrderlyUnlessHalfOpen, HalfOpen
<1> QED
  BY <1>1, <1>2 DEF OrderlyUnlessHalfOpen

LEMMA OrderHolds ==
    ASSUME OneWay, RequestResponse PROVE Spec => []OrderlyUnlessHalfOpen
<1>1. ASSUME Init PROVE OrderlyUnlessHalfOpen
  BY <1>1, OrderlyInit DEF OrderlyUnlessHalfOpen, Orderly
<1> QED
  BY <1>1, OrderlyUnlessStep, PTL DEF Spec

\* What the receiver queues on a socket, or reads from it, was written by its peer, although
\* the callback takes the first entry of conns and each CONNECT_SUCCESS the first of incoming.
THEOREM MessagesMeetTheirConnection ==
    ASSUME OneWay, RequestResponse PROVE Spec => []NoCrossTalk
<1>1. OrderlyUnlessHalfOpen => NoCrossTalk
  BY DEF OrderlyUnlessHalfOpen, Orderly, NoCrossTalk
<1> QED
  BY <1>1, OrderHolds, PTL

-----------------------------------------------------------------------------
(* Lost messages and crashes *)

\* What local_tcp_rcv discards it has just taken; data, when there is no entry.
LEMMA LostStep ==
    ASSUME TableInv, OneWay, [Next]_vars
    PROVE  /\ lost \subseteq lost'
           /\ \A m \in lost' : \/ m \in lost
                               \/ \E n \in Nodes : /\ Takes(n, m.type) /\ m = Head(chan[n])
                                                   /\ m.type = "REGULAR" => conns[n] = << >>
<1>0. TypeOK
  BY DEF TableInv
<1>1. ASSUME NEW p \in Acceptors, Accepting(p) PROVE lost' = lost
  BY <1>0, <1>1, AwaitsKeeps, TakeDoes, AddDoes, NotifiesDoes DEF Accepting, AcceptKeeps
<1>2. UNCHANGED vars => lost' = lost
  BY DEF vars, handlerVars
<1>3. CASE ~\E k \in Nodes : RcvStep(k)
  BY <1>1, <1>2, <1>3, Steps, ConnectingKeeps, UsingKeeps
<1>4. ASSUME NEW n \in Nodes, RcvStep(n)
      PROVE  \/ lost' = lost
             \/ \E k \in Nodes : \E t :
                  /\ Takes(k, t) /\ lost' = lost \cup {Head(chan[k])}
                  /\ t = "REGULAR" => conns[k] = << >>
  <2>1. CASE RcvRegular(n)
    BY <2>1, RegularDoes
  <2>2. CASE RcvConnect(n) \/ RcvConnectFails(n)
    BY <2>2, ConnectDoes, ConnectFailsDoes, Sides DEF Knocks
  <2>3. CASE RcvClose(n)
    BY <2>3, CloseDoes
  <2>4. CASE RcvSuccess(n)
    BY <2>4, SuccessDoes, Sides
  <2>5. CASE RcvQueue(n) \/ RcvAdd(n) \/ RcvWake(n)
    BY <1>0, <2>5, QueueDoes, RcvAddDoes, WakeDoes
  <2>6. CASE RcvCloseState(n) \/ RcvMove(n)
    BY <1>0, <2>6, CloseStateDoes, MoveDoes
  <2> QED
    BY <1>4, <2>1, <2>2, <2>3, <2>4, <2>5, <2>6, NoMemoryDoes DEF RcvStep
<1>5. CASE \E n \in Nodes : RcvStep(n)
  <2>1. CASE lost' = lost
    BY <2>1
  <2>2. CASE lost' # lost
    <3>1. PICK k \in Nodes :
             \E t : /\ Takes(k, t) /\ lost' = lost \cup {Head(chan[k])}
                    /\ t = "REGULAR" => conns[k] = << >>
      BY <1>4, <1>5, <2>2
    <3>2. PICK t : /\ Takes(k, t) /\ lost' = lost \cup {Head(chan[k])}
                   /\ t = "REGULAR" => conns[k] = << >>
      BY <3>1
    <3>3. Head(chan[k]).type = t
      BY <3>2 DEF Takes
    <3> QED
      BY <3>2, <3>3
  <2> QED
    BY <2>1, <2>2
<1> QED
  BY <1>3, <1>5

\* Why a callback follows the null pointer of x.
Excused(x) ==
    \/ x.null = "skb" /\ <<"skb", x.node>> \in errors'
    \/ x.null = "clone" /\ <<"clone", x.msg.sock[1]>> \in errors'
    \/ /\ x.null = "psk"
       /\ \E n \in Nodes : Takes(n, "CLOSE") /\ conns[n] = << >> /\ x.msg = Head(chan[n])

\* A callback follows a null pointer at a CLOSE without entry, or without memory.
LEMMA CrashStep ==
    ASSUME TableInv, OneWay, [Next]_vars
    PROVE  \A x \in crashed' : x \in crashed \/ Excused(x)
<1>0. TypeOK
  BY DEF TableInv
<1>1. ASSUME NEW p \in Acceptors, Accepting(p) PROVE crashed' = crashed
  BY <1>0, <1>1, AwaitsKeeps, TakeDoes, AddDoes, NotifiesDoes DEF Accepting, AcceptKeeps
<1>2. UNCHANGED vars => crashed' = crashed
  BY DEF vars, handlerVars
<1>3. CASE ~\E k \in Nodes : RcvStep(k)
  BY <1>1, <1>2, <1>3, Steps, ConnectingKeeps, UsingKeeps
<1>4. ASSUME NEW n \in Nodes, RcvStep(n), NEW x \in crashed', x \notin crashed
      PROVE  Excused(x)
  <2>1. ASSUME RcvConnectFails(n) PROVE Excused(x)
    BY <1>4, <2>1, ConnectFailsDoes DEF Excused, Crash
  <2>2. ASSUME RcvClose(n) PROVE Excused(x)
    BY <1>4, <2>2, CloseDoes DEF Excused, Crash
  <2>3. ASSUME RcvNoMemory(n) PROVE Excused(x)
    BY <1>4, <2>3, NoMemoryDoes DEF Excused, Crash
  <2>4. CASE RcvRegular(n) \/ RcvConnect(n) \/ RcvSuccess(n)
    BY <1>4, <2>4, RegularDoes, ConnectDoes, SuccessDoes
  <2>5. CASE RcvQueue(n) \/ RcvAdd(n) \/ RcvWake(n)
    BY <1>0, <1>4, <2>5, QueueDoes, RcvAddDoes, WakeDoes
  <2>6. CASE RcvCloseState(n) \/ RcvMove(n)
    BY <1>0, <1>4, <2>6, CloseStateDoes, MoveDoes
  <2> QED
    BY <1>4, <2>1, <2>2, <2>3, <2>4, <2>5, <2>6 DEF RcvStep
<1> QED
  BY <1>3, <1>4

LEMMA ClosingStays ==
    ASSUME OneWay, Orderly, [Next]_vars, NEW x \in Sockets, Closing(x)
    PROVE  Closing(x)'
  BY SpcMoves DEF Closing

\* When the confirmation of c is taken its entry comes, or the confirmation is lost.
LEMMA ConfirmationArrives ==
    ASSUME OneWay, Orderly, [Next]_vars, ~HalfOpen', NEW c \in Clients,
           Has(chan[Near], "CONNECT_SUCCESS", c)
    PROVE  Has(chan'[Near], "CONNECT_SUCCESS", c) \/ InConns(c)' \/ SuccessLost(c)'
<1>0. chan[Near] \in Seq(Messages) /\ Near \in Nodes /\ TableInv
  BY ListTypes, Sides DEF Orderly
<1>1. CASE chan'[Near] = chan[Near]
  BY <1>1
<1>2. ASSUME NEW m \in Messages, chan'[Near] = Append(chan[Near], m)
      PROVE  Has(chan'[Near], "CONNECT_SUCCESS", c)
  BY <1>0, <1>2, HasMoves
<1>3. ASSUME NEW t, Takes(Near, t), t = "CONNECT_SUCCESS" => RcvSuccess(Near), ~Has(chan'[Near], "CONNECT_SUCCESS", c)
      PROVE  InConns(c)' \/ SuccessLost(c)'
  <2>1. /\ chan[Near] # << >> /\ chan'[Near] = Tail(chan[Near])
        /\ Head(chan[Near]).type = "CONNECT_SUCCESS" /\ ConnOf(Head(chan[Near])) = c
    BY <1>0, <1>3, HasMoves DEF Takes
  <2>2. Takes(Near, "CONNECT_SUCCESS")
    BY <1>3, <2>1 DEF Takes
  <2>3. RcvSuccess(Near)
    BY <1>3, <2>1 DEF Takes
  <2>4. CASE incoming[Near] = << >>
    <3>1. Head(chan[Near]) \in lost'
      BY <1>0, <2>3, <2>4, SuccessDoes DEF Loses
    <3> QED
      BY <2>1, <3>1 DEF SuccessLost, ConnOf
  <2>5. CASE incoming[Near] # << >>
    <3>1. PICK d \in Clients : Head(incoming[Near]) = Cl(d)
      BY <2>5, EntryIs
    <3>2. AllOf(chan[Near], d)
      BY <2>2, <2>5, <3>1, EntryComes
    <3>3. d = c
      BY <1>0, <2>1, <3>2, AllMoves
    <3>4. hpc'[Near] = "move" /\ hsock'[Near] = Cl(c)
      BY <1>0, <2>3, <2>5, <3>1, <3>3, SuccessDoes
    <3> QED
      BY <3>4 DEF InConns
  <2> QED
    BY <2>4, <2>5
<1> QED
  BY <1>0, <1>1, <1>2, <1>3, SentIs

\* An entry of the connecting node leaves its table with its own close, or with the
\* last message of the connection.
LEMMA EntryLeaves ==
    ASSUME OneWay, Orderly, [Next]_vars, NEW c \in Clients, InConns(c), ~InConns(c)'
    PROVE  \/ Closing(Cl(c))'
           \/ Takes(Near, "CLOSE") /\ NoneOf(chan'[Near], c) /\ spc'[Sv(c)] = "closed"
<1>0. TableInv /\ TypeOK /\ Roles /\ Near \in Nodes /\ Cl(c) \in Sockets /\ chan[Near] \in Seq(Messages)
  BY ListTypes, Sides DEF Orderly, AlwaysInv, TableInv
<1>1. CASE hpc[Near] = "move" /\ hsock[Near] = Cl(c)
  <2>1. ~Gains(conns, Near, hsock[Near])
    BY <1>1 DEF InConns, Gains
  <2> QED
    BY <1>0, <1>1, <2>1, HandlerGoes DEF InConns
<1>2. CASE Cl(c) \in ToSet(conns[Near])
  <2>1. Cl(c) \notin ToSet(conns'[Near])
    BY DEF InConns
  <2>2. ASSUME NEW p \in Acceptors, Gains(conns, Far, asock[p]) PROVE FALSE
    BY <1>0, <1>2, <2>1, <2>2, Sides DEF Gains
  <2>3. ~Gains(conns, Near, hsock[Near]) /\ conns' # conns
    BY <1>2, <2>1 DEF Gains
  <2>4. ASSUME NEW s \in Sockets, Loses(conns, Home(s), csock'[s]), CloseRemove(s),
               spc[s] = "removing", spc'[s] = "closing"
        PROVE  Closing(Cl(c))'
    <3>1. Home(s) = Near /\ csock'[s] = Cl(c)
      BY <1>0, <1>2, <2>1, <2>4, Sides DEF Loses
    <3>2. Head(conns[Home(s)]) = s /\ csock'[s] = Head(conns[Home(s)])
      BY <2>4, RemovesOwn DEF Loses
    <3> QED
      BY <2>4, <3>1, <3>2 DEF Closing
  <2>5. ASSUME NEW n \in Nodes, Loses(conns, n, hsock'[n]), Takes(n, "CLOSE"), spc' = spc
        PROVE  Takes(Near, "CLOSE") /\ NoneOf(chan'[Near], c) /\ spc'[Sv(c)] = "closed"
    <3>1. n = Near
      BY <1>0, <1>2, <2>1, <2>5 DEF Loses
    <3>2. chan[Near] # << >> /\ Head(chan[Near]).type = "CLOSE" /\ chan'[Near] = Tail(chan[Near])
      BY <2>5, <3>1 DEF Takes
    <3>3. Head(chan[Near]).sock = Sv(c)
      BY <3>2, NearMeets
    <3>4. spc[Sv(c)] = "closed"
      BY <1>0, <3>2, <3>3, FirstMessage
    <3>5. NoneOf(Tail(chan[Near]), c)
      <4>1. LastIs(chan[Near], "CLOSE") /\ ConnOf(Head(chan[Near])) = c
        BY <1>0, <3>3, Sides DEF Orderly, Order, ConnOf
      <4> QED
        BY <1>0, <3>2, <4>1, LastMoves
    <3> QED
      BY <2>5, <3>1, <3>2, <3>4, <3>5
  <2> QED
    BY <1>0, <2>2, <2>3, <2>4, <2>5, ConnsStep
<1> QED
  BY <1>1, <1>2 DEF InConns

\* What the accepting side may still say, it could say before or begins to say now.
LEMMA SpeaksBefore ==
    ASSUME OneWay, Orderly, [Next]_vars, ~HalfOpen', NEW c \in Clients,
           ~Has(chan'[Near], "CONNECT_SUCCESS", c),
           \/ Has(chan'[Near], "REGULAR", c) \/ Has(chan'[Near], "CLOSE", c)
           \/ spc'[Sv(c)] \in {"open", "removing", "closing"}
    PROVE  \/ Has(chan[Near], "REGULAR", c) \/ Has(chan[Near], "CLOSE", c)
           \/ spc[Sv(c)] \in {"open", "removing", "closing"}
<1>0. chan[Near] \in Seq(Messages) /\ Near \in Nodes /\ Sv(c) \in Sockets
  BY ListTypes, Sides DEF Orderly
<1>1. ASSUME NEW t, t \in {"REGULAR", "CLOSE"}, Has(chan'[Near], t, c)
      PROVE  Has(chan[Near], t, c) \/ spc[Sv(c)] \in {"open", "removing", "closing"}
  <2>1. CASE chan'[Near] = chan[Near]
    BY <1>1, <2>1
  <2>2. ASSUME NEW u, Takes(Near, u) PROVE Has(chan[Near], t, c)
    BY <1>0, <1>1, <2>2, HasMoves DEF Takes
  <2>3. ASSUME NEW s \in Sockets, NEW m \in Messages, Sent(s, m), Near = Other(Home(s)),
               chan'[Near] = Append(chan[Near], m), ~Has(chan[Near], t, c)
        PROVE  spc[Sv(c)] \in {"open", "removing", "closing"}
    <3>1. m.type = t /\ ConnOf(m) = c
      BY <1>0, <1>1, <2>3, HasMoves
    <3>2. s = Sv(c)
      BY <2>3, <3>1, SenderIs, Sides
    <3> QED
      BY <1>1, <2>3, <3>1, <3>2 DEF Sent
  <2> QED
    BY <1>0, <2>1, <2>2, <2>3, SentIs
<1>2. ASSUME spc'[Sv(c)] \in {"open", "removing", "closing"},
             spc[Sv(c)] \notin {"open", "removing", "closing"}
      PROVE  FALSE
  <2>1. \E p \in Acceptors : Notifies(p) /\ asock[p] = Sv(c)
    BY <1>0, <1>2, SpcMoves, Sides
  <2>2. PICK m \in Messages : /\ m.type = "CONNECT_SUCCESS" /\ ConnOf(m) = c
                              /\ chan'[Near] = Append(chan[Near], m)
    BY <2>1, Confirms
  <2> QED
    BY <1>0, <2>2, HasMoves
<1> QED
  BY <1>1, <1>2

LEMMA AnsweredStep ==
    ASSUME OneWay, Orderly, [Next]_vars, ~HalfOpen', NEW c \in Clients, Answered(c)
    PROVE  Answered(c)'
<1>0. TableInv /\ Cl(c) \in Sockets /\ Sv(c) \in Sockets
  BY Sides DEF Orderly
<1> SUFFICES ASSUME \/ Has(chan'[Near], "REGULAR", c) \/ Has(chan'[Near], "CLOSE", c)
                    \/ spc'[Sv(c)] \in {"open", "removing", "closing"},
                    ~Has(chan'[Near], "CONNECT_SUCCESS", c), ~InConns(c)', ~Closing(Cl(c))'
             PROVE  SuccessLost(c)'
  BY DEF Answered, Alive
<1>1. Alive(c)
  BY SpeaksBefore DEF Answered
<1>2. CASE Has(chan[Near], "CONNECT_SUCCESS", c)
  BY <1>2, ConfirmationArrives
<1>3. CASE InConns(c)
  <2>1. NoneOf(chan'[Near], c) /\ spc'[Sv(c)] = "closed"
    BY <1>3, EntryLeaves
  <2>2. ~Has(chan'[Near], "REGULAR", c) /\ ~Has(chan'[Near], "CLOSE", c)
    BY <2>1 DEF NoneOf, Has
  <2> QED
    BY <2>1, <2>2
<1>4. CASE SuccessLost(c)
  BY <1>0, <1>4, LostStep DEF SuccessLost
<1>5. ~Closing(Cl(c))
  BY <1>0, ClosingStays
<1> QED
  BY <1>1, <1>2, <1>3, <1>4, <1>5 DEF Alive

\* Behind the first message of the connection, if it is no confirmation, there is none:
\* the entry is missing only for the reasons that Alive names.
LEMMA WithoutEntry ==
    ASSUME OneWay, Orderly, NEW c \in Clients, Answered(c),
           NEW t \in {"REGULAR", "CLOSE"}, Takes(Near, t), conns[Near] = << >>,
           ConnOf(Head(chan[Near])) = c
    PROVE  SuccessLost(c) \/ Closing(Cl(c))
<1>0. TableInv /\ Near \in Nodes /\ chan[Near] \in Seq(Messages)
  BY ListTypes, Sides DEF Orderly
<1>1. chan[Near] # << >> /\ Head(chan[Near]).type = t /\ hpc[Near] = "idle"
  BY DEF Takes
<1>2. Has(chan[Near], t, c)
  BY <1>0, <1>1, HasMoves
<1>3. Alive(c)
  BY <1>2 DEF Answered
<1>4. ~InConns(c)
  <2>1. ToSet(conns[Near]) = {}
    BY <1>0, ListTypes
  <2> QED
    BY <1>1, <2>1 DEF InConns
<1>5. ~Has(chan[Near], "CONNECT_SUCCESS", c)
  <2>1. FirstIs(chan[Near], "CONNECT_SUCCESS")
    BY DEF Orderly, Order
  <2>2. ~Has(Tail(chan[Near]), "CONNECT_SUCCESS", c)
    BY <1>0, <1>1, <2>1, FirstMoves
  <2> QED
    BY <1>0, <1>1, <2>2, HasMoves
<1> QED
  BY <1>3, <1>4, <1>5 DEF Alive

LEMMA PeerSocket == ASSUME NEW s \in Sockets PROVE Peer(s) \in Sockets
  BY DEF Peer, Sockets

LEMMA AnswersStep ==
    ASSUME OneWay, Orderly, [Next]_vars, ~HalfOpen', \A c \in Clients : Answered(c), AnswersArrive
    PROVE  AnswersArrive'
<1>0. TableInv /\ ~HalfOpen /\ Near \in Nodes /\ Far \in Nodes
  BY Sides DEF Orderly
<1> SUFFICES ASSUME NEW m \in lost', m.type = "REGULAR", m.sock[2] = "server",
                    ~SuccessLost(m.sock[1])', ~Closing(Peer(m.sock))'
             PROVE  FALSE
  BY DEF AnswersArrive, Closing, SuccessLost
<1>1. ~SuccessLost(m.sock[1])
  BY <1>0, LostStep DEF SuccessLost
<1>2. CASE m \in lost
  <2>1. Closing(Peer(m.sock))
    BY <1>0, <1>1, <1>2 DEF AnswersArrive
  <2>2. m.sock \in Sockets
    BY <1>0, <1>2 DEF TableInv, TypeOK, Messages, NoSocket
  <2> QED
    BY <2>1, <2>2, ClosingStays, PeerSocket
<1>3. CASE m \notin lost
  <2>1. PICK n \in Nodes : Takes(n, "REGULAR") /\ m = Head(chan[n]) /\ conns[n] = << >>
    BY <1>0, <1>3, LostStep
  <2>2. PICK c \in Clients : /\ ConnOf(m) = c
                             /\ m.sock = IF n = Near THEN Sv(c) ELSE Cl(c)
    BY <2>1, FirstMessage DEF Takes
  <2>3. n = Near /\ m.sock = Sv(c)
    BY <2>2, Sides
  <2>4. SuccessLost(m.sock[1]) \/ Closing(Cl(c))
    BY <2>1, <2>2, <2>3, WithoutEntry DEF ConnOf
  <2>5. Peer(m.sock) = Cl(c) /\ Cl(c) \in Sockets
    BY <2>3, Sides
  <2> QED
    BY <1>1, <2>4, <2>5, ClosingStays
<1> QED
  BY <1>2, <1>3

\* What CrashCauses says of a CLOSE of c.
Ended(c) == SuccessLost(c) \/ (Closing(<<c, "client">>) /\ Closing(<<c, "server">>))

LEMMA EndedStays ==
    ASSUME TableInv, OneWay, Orderly, [Next]_vars, NEW c \in Clients, Ended(c)
    PROVE  Ended(c)'
<1>1. SuccessLost(c) => SuccessLost(c)'
  BY LostStep DEF SuccessLost
<1>2. \A side \in {"client", "server"} : Closing(<<c, side>>) => Closing(<<c, side>>)'
  BY ClosingStays DEF Sockets
<1> QED
  BY <1>1, <1>2 DEF Ended

\* An entry is missing for a CLOSE when the connection has ended.
LEMMA NoEntryForClose ==
    ASSUME OneWay, Orderly, \A c \in Clients : Answered(c),
           NEW n \in Nodes, Takes(n, "CLOSE"), conns[n] = << >>
    PROVE  ConnOf(Head(chan[n])) \in Clients /\ Ended(ConnOf(Head(chan[n])))
<1>0. TableInv /\ Near \in Nodes /\ Far \in Nodes
  BY Sides DEF Orderly
<1>1. chan[n] # << >> /\ Head(chan[n]).type = "CLOSE"
  BY DEF Takes
<1>2. PICK c \in Clients : /\ ConnOf(Head(chan[n])) = c
                           /\ Head(chan[n]).sock = IF n = Near THEN Sv(c) ELSE Cl(c)
                           /\ spc[Head(chan[n]).sock] = "closed"
                           /\ Has(chan[n], "CLOSE", c)
  BY <1>1, FirstMessage
<1>3. CASE n = Near
  <2>1. SuccessLost(c) \/ Closing(Cl(c))
    BY <1>2, <1>3, WithoutEntry
  <2>2. Closing(Sv(c))
    BY <1>2, <1>3 DEF Closing
  <2> QED
    BY <1>2, <2>1, <2>2 DEF Ended, Cl, Sv
<1>4. CASE n = Far
  <2>1. spc[Cl(c)] = "closed"
    BY <1>0, <1>2, <1>4, Sides
  <2>2. Opened(Sv(c)) /\ ~Gone(c)
    BY <1>2, <1>4, <2>1, InUse DEF Closing, Gone
  <2>3. Sv(c) \notin ToSet(conns[Far])
    BY <1>0, <1>4, ListTypes
  <2>4. spc[Sv(c)] # "open"
    BY <2>2, <2>3 DEF Orderly, Serving
  <2> QED
    BY <1>2, <2>1, <2>2, <2>4 DEF Ended, Closing, Opened, Cl, Sv
<1> QED
  BY <1>3, <1>4, Sides

\* The CLOSE without entry was for a connection.
CrashesNamed == ~HalfOpen => \A x \in crashed : x.null = "psk" => x.msg.sock[1] \in Clients

LEMMA CrashCausesStep ==
    ASSUME OneWay, Orderly, [Next]_vars, ~HalfOpen', \A c \in Clients : Answered(c), CrashCauses,
           CrashesNamed
    PROVE  CrashCauses' /\ CrashesNamed'
<1>0. TableInv /\ ~HalfOpen /\ errors \subseteq errors'
  BY ErrorsStay DEF Orderly
<1> SUFFICES ASSUME NEW x \in crashed'
             PROVE  \/ x.null = "skb" /\ <<"skb", x.node>> \in errors'
                    \/ x.null = "clone" /\ <<"clone", x.msg.sock[1]>> \in errors'
                    \/ /\ x.null = "psk" /\ x.msg.type = "CLOSE"
                       /\ x.msg.sock[1] \in Clients /\ Ended(x.msg.sock[1])'
  BY DEF CrashCauses, CrashesNamed, Ended, Closing, SuccessLost
<1>1. CASE x \in crashed
  <2>1. \/ x.null = "skb" /\ <<"skb", x.node>> \in errors
        \/ x.null = "clone" /\ <<"clone", x.msg.sock[1]>> \in errors
        \/ x.null = "psk" /\ x.msg.type = "CLOSE" /\ Ended(x.msg.sock[1])
    BY <1>0, <1>1 DEF CrashCauses, Ended
  <2>2. x.null = "psk" => x.msg.sock[1] \in Clients
    BY <1>0, <1>1 DEF CrashesNamed
  <2>3. x.null = "psk" /\ Ended(x.msg.sock[1]) => Ended(x.msg.sock[1])'
    BY <1>0, <2>2, EndedStays
  <2> QED
    BY <1>0, <2>1, <2>2, <2>3
<1>2. ASSUME NEW n \in Nodes, Takes(n, "CLOSE"), conns[n] = << >>, x.msg = Head(chan[n])
      PROVE  x.msg.type = "CLOSE" /\ x.msg.sock[1] \in Clients /\ Ended(x.msg.sock[1])'
  <2>1. ConnOf(x.msg) \in Clients /\ Ended(ConnOf(x.msg))
    BY <1>2, NoEntryForClose
  <2>2. Ended(ConnOf(x.msg))'
    BY <1>0, <2>1, EndedStays
  <2> QED
    BY <1>2, <2>1, <2>2 DEF Takes, ConnOf
<1> QED
  BY <1>0, <1>1, <1>2, CrashStep DEF Excused

\* The inductive invariant behind AnswersArrive and CrashCauses.
FatesKnown ==
    /\ OrderlyUnlessHalfOpen /\ AnswersInv
    /\ AnswersArrive /\ CrashCauses /\ CrashesNamed

LEMMA FatesHold ==
    ASSUME OneWay, RequestResponse PROVE Spec => []FatesKnown
<1>1. ASSUME Init PROVE FatesKnown
  <2>1. OrderlyUnlessHalfOpen
    BY <1>1, OrderlyInit DEF OrderlyUnlessHalfOpen, Orderly
  <2>2. /\ chan[Near] = << >> /\ lost = {} /\ crashed = {}
        /\ \A c \in Clients : spc[Sv(c)] = "absent"
    BY <1>1, Sides DEF Init
  <2>3. AnswersInv
    BY <2>2 DEF AnswersInv, Answered, Has
  <2>4. AnswersArrive /\ CrashCauses /\ CrashesNamed
    BY <2>2 DEF AnswersArrive, CrashCauses, CrashesNamed
  <2> QED
    BY <2>1, <2>3, <2>4 DEF FatesKnown
<1>2. ASSUME FatesKnown, [Next]_vars PROVE FatesKnown'
  <2>1. OrderlyUnlessHalfOpen'
    BY <1>2, OrderlyUnlessStep DEF FatesKnown
  <2>2. CASE HalfOpen'
    BY <2>1, <2>2 DEF FatesKnown, AnswersInv, AnswersArrive, CrashCauses, CrashesNamed
  <2>3. CASE ~HalfOpen'
    <3>1. ~HalfOpen
      BY <1>2, <2>3, ErrorsStay DEF HalfOpen
    <3>2. Orderly /\ \A c \in Clients : Answered(c)
      BY <1>2, <3>1 DEF FatesKnown, OrderlyUnlessHalfOpen, AnswersInv
    <3>3. \A c \in Clients : Answered(c)'
      BY <1>2, <2>3, <3>2, AnsweredStep
    <3>4. AnswersArrive' /\ CrashCauses' /\ CrashesNamed'
      BY <1>2, <2>3, <3>2, AnswersStep, CrashCausesStep DEF FatesKnown
    <3> QED
      BY <2>1, <3>3, <3>4 DEF FatesKnown, AnswersInv
  <2> QED
    BY <2>2, <2>3
<1> QED
  BY <1>1, <1>2, PTL DEF Spec

\* What the accepting program writes is discarded only when accept had confirmed that
\* same connection before connect made its entry, or its connecting program has closed.
THEOREM AnswersAreKept ==
    ASSUME OneWay, RequestResponse PROVE Spec => []AnswersArrive
<1>1. FatesKnown => AnswersArrive
  BY DEF FatesKnown
<1> QED
  BY <1>1, FatesHold, PTL

\* The callback follows a null pointer for a skb or a clone that could not be allocated,
\* or at a CLOSE of a connection whose own confirmation was lost or that both of its own
\* programs have closed; nothing is said once a connection is half-open.
THEOREM CrashesHaveCauses ==
    ASSUME OneWay, RequestResponse PROVE Spec => []CrashCauses
<1>1. FatesKnown => CrashCauses
  BY DEF FatesKnown
<1> QED
  BY <1>1, FatesHold, PTL

-----------------------------------------------------------------------------
(* The numbers of the data *)

LEMMA InLineAppend ==
    ASSUME NEW q \in Seq(Messages), NEW x, NEW w \in Nat, NEW m \in Messages, InLine(q, x, w)
    PROVE  /\ ~Data(m, x) => InLine(Append(q, m), x, w)
           /\ Data(m, x) /\ m.n = w + 1 => InLine(Append(q, m), x, w + 1)
<1>0. \A i \in DOMAIN Append(q, m) : Append(q, m)[i] \in Messages
  OBVIOUS
<1>1. ASSUME NEW v \in Nat, v = w \/ (v = w + 1 /\ Data(m, x) /\ m.n = v), v = w => ~Data(m, x)
      PROVE  InLine(Append(q, m), x, v)
  <2> DEFINE a == Append(q, m)
  <2>0. /\ \A i \in DOMAIN q : i \in DOMAIN a /\ a[i] = q[i]
        /\ \A i \in DOMAIN a : i \in DOMAIN q \/ a[i] = m
        /\ \A i, k \in DOMAIN a : k \in DOMAIN q /\ i \notin DOMAIN q => i > k /\ k < i
        /\ \A i, k \in DOMAIN a : i \notin DOMAIN q /\ k \notin DOMAIN q => i = k
        /\ \A i \in DOMAIN a : i \in Nat
        /\ \E i \in DOMAIN a : a[i] = m
    BY AppendAt
  <2>1. \A i \in DOMAIN a : a[i].n \in Nat
    BY <1>0, BoundsAssumption DEF Messages
  <2> HIDE DEF a
  <2> SUFFICES ASSUME NEW i \in DOMAIN a, Data(a[i], x)
               PROVE  /\ a[i].n <= v
                      /\ \A j \in DOMAIN a : i < j /\ Data(a[j], x) => a[i].n < a[j].n
                      /\ \A l \in a[i].n + 1 .. v : \E j \in DOMAIN a : Data(a[j], x) /\ a[j].n = l
    BY DEF InLine, a
  <2>2. CASE i \in DOMAIN q
    <3>1. /\ a[i] = q[i] /\ q[i].n <= w
          /\ \A j \in DOMAIN q : i < j /\ Data(q[j], x) => q[i].n < q[j].n
          /\ \A l \in q[i].n + 1 .. w : \E j \in DOMAIN q : Data(q[j], x) /\ q[j].n = l
      BY <2>0, <2>2 DEF InLine
    <3>2. a[i].n \in Nat
      BY <2>1
    <3>3. a[i].n <= v
      BY <1>1, <3>1, <3>2
    <3>4. ASSUME NEW j \in DOMAIN a, i < j, Data(a[j], x) PROVE a[i].n < a[j].n
      <4>1. CASE j \in DOMAIN q
        BY <2>0, <3>1, <3>4, <4>1
      <4>2. CASE j \notin DOMAIN q
        <5>1. a[j] = m
          BY <2>0, <4>2
        <5>2. m.n = w + 1
          BY <1>1, <3>4, <5>1
        <5> QED
          BY <3>1, <3>2, <5>1, <5>2
      <4> QED
        BY <4>1, <4>2
    <3>5. ASSUME NEW l \in a[i].n + 1 .. v PROVE \E j \in DOMAIN a : Data(a[j], x) /\ a[j].n = l
      <4>1. CASE l <= w
        <5>1. l \in q[i].n + 1 .. w
          BY <3>1, <3>2, <3>5, <4>1
        <5> QED
          BY <2>0, <3>1, <5>1
      <4>2. CASE ~(l <= w)
        <5>1. l = w + 1 /\ v = w + 1
          BY <1>1, <3>2, <3>5, <4>2
        <5> QED
          BY <1>1, <2>0, <5>1
      <4> QED
        BY <4>1, <4>2
    <3> QED
      BY <3>3, <3>4, <3>5
  <2>3. CASE i \notin DOMAIN q
    <3>1. a[i] = m /\ m.n = v
      BY <1>1, <2>0, <2>3
    <3>2. \A j \in DOMAIN a : ~(i < j)
      BY <2>0, <2>3
    <3>3. m.n + 1 .. v = {}
      BY <3>1
    <3> QED
      BY <1>1, <3>1, <3>2, <3>3
  <2> QED
    BY <2>2, <2>3
<1>2. w + 1 \in Nat
  OBVIOUS
<1> QED
  BY <1>1, <1>2

LEMMA InLineTail ==
    ASSUME NEW q \in Seq(Messages), NEW x, NEW w \in Nat, q # << >>, InLine(q, x, w)
    PROVE  /\ InLine(Tail(q), x, w)
           /\ Data(Head(q), x) => Head(q).n <= w /\ RestIn(Tail(q), x, Head(q).n, w)
<1>0. /\ 1 \in DOMAIN q /\ q[1] = Head(q)
      /\ \A i \in DOMAIN Tail(q) : i + 1 \in DOMAIN q /\ Tail(q)[i] = q[i + 1] /\ i \in Nat /\ i + 1 > 1
      /\ \A i \in DOMAIN q : i = 1 \/ (i > 1 /\ i - 1 \in DOMAIN Tail(q) /\ Tail(q)[i - 1] = q[i])
  BY TailAt
<1>1. \A i \in DOMAIN q : q[i].n \in Nat
  <2>1. \A i \in DOMAIN q : q[i] \in Messages
    OBVIOUS
  <2> QED
    BY <2>1, BoundsAssumption DEF Messages
<1>2. ASSUME NEW i \in DOMAIN q, Data(q[i], x), NEW l \in q[i].n + 1 .. w
      PROVE  \E j \in DOMAIN Tail(q) : Data(Tail(q)[j], x) /\ Tail(q)[j].n = l
  <2>1. PICK j \in DOMAIN q : Data(q[j], x) /\ q[j].n = l
    BY <1>2 DEF InLine
  <2>2. j # 1
    <3>1. i = 1 \/ 1 < i
      BY <1>0
    <3>2. j = 1 => q[j].n <= q[i].n
      BY <1>0, <1>1, <1>2, <2>1, <3>1 DEF InLine
    <3> QED
      BY <1>1, <1>2, <2>1, <3>2
  <2> QED
    BY <1>0, <2>1, <2>2
<1>3. InLine(Tail(q), x, w)
  <2> SUFFICES ASSUME NEW i \in DOMAIN Tail(q), Data(Tail(q)[i], x)
               PROVE  /\ Tail(q)[i].n <= w
                      /\ \A j \in DOMAIN Tail(q) : i < j /\ Data(Tail(q)[j], x) => Tail(q)[i].n < Tail(q)[j].n
                      /\ \A l \in Tail(q)[i].n + 1 .. w : \E j \in DOMAIN Tail(q) : Data(Tail(q)[j], x) /\ Tail(q)[j].n = l
    BY DEF InLine
  <2>1. i + 1 \in DOMAIN q /\ Tail(q)[i] = q[i + 1]
    BY <1>0
  <2>2. Tail(q)[i].n <= w
    BY <2>1 DEF InLine
  <2>3. ASSUME NEW j \in DOMAIN Tail(q), i < j, Data(Tail(q)[j], x) PROVE Tail(q)[i].n < Tail(q)[j].n
    <3>1. j + 1 \in DOMAIN q /\ Tail(q)[j] = q[j + 1] /\ i + 1 < j + 1
      BY <1>0, <2>3
    <3> QED
      BY <2>1, <2>3, <3>1 DEF InLine
  <2> QED
    BY <1>2, <2>1, <2>2, <2>3
<1>4. ASSUME Data(Head(q), x) PROVE Head(q).n <= w /\ RestIn(Tail(q), x, Head(q).n, w)
  <2>1. Head(q).n <= w
    BY <1>0, <1>4 DEF InLine
  <2>2. ASSUME NEW i \in DOMAIN Tail(q), Data(Tail(q)[i], x) PROVE Tail(q)[i].n > Head(q).n
    <3>1. i + 1 \in DOMAIN q /\ Tail(q)[i] = q[i + 1] /\ 1 < i + 1
      BY <1>0, <2>2
    <3>2. q[1].n < q[i + 1].n
      BY <1>0, <1>4, <2>2, <3>1 DEF InLine
    <3> QED
      BY <1>0, <1>1, <3>1, <3>2
  <2>3. \A l \in Head(q).n + 1 .. w : \E j \in DOMAIN Tail(q) : Data(Tail(q)[j], x) /\ Tail(q)[j].n = l
    BY <1>0, <1>2, <1>4
  <2> QED
    BY <2>1, <2>2, <2>3 DEF RestIn
<1> QED
  BY <1>3, <1>4

LEMMA RestMoves ==
    ASSUME NEW q \in Seq(Messages), NEW x, NEW w \in Nat, NEW k \in Nat, k <= w, RestIn(q, x, k, w)
    PROVE  /\ \A m \in Messages : ~Data(m, x) => RestIn(Append(q, m), x, k, w)
           /\ \A m \in Messages : Data(m, x) /\ m.n = w + 1 => RestIn(Append(q, m), x, k, w + 1)
           /\ q # << >> /\ ~Data(Head(q), x) => RestIn(Tail(q), x, k, w)
           /\ q # << >> /\ Data(Head(q), x) /\ InLine(q, x, w) => Head(q).n = k + 1
<1>1. ASSUME NEW m \in Messages, NEW v \in Nat,
             v = w \/ (v = w + 1 /\ Data(m, x) /\ m.n = v), v = w => ~Data(m, x)
      PROVE  RestIn(Append(q, m), x, k, v)
  <2> DEFINE a == Append(q, m)
  <2>0. /\ \A i \in DOMAIN q : i \in DOMAIN a /\ a[i] = q[i]
        /\ \A i \in DOMAIN a : i \in DOMAIN q \/ a[i] = m
        /\ \E i \in DOMAIN a : a[i] = m
    BY AppendAt
  <2> HIDE DEF a
  <2>1. ASSUME NEW i \in DOMAIN a, Data(a[i], x) PROVE a[i].n > k
    <3>1. CASE i \in DOMAIN q
      BY <2>0, <2>1, <3>1 DEF RestIn
    <3>2. CASE i \notin DOMAIN q
      <4>1. a[i] = m
        BY <2>0, <3>2
      <4>2. m.n = w + 1
        BY <1>1, <2>1, <4>1
      <4> QED
        BY <4>1, <4>2
    <3> QED
      BY <3>1, <3>2
  <2>2. ASSUME NEW l \in k + 1 .. v PROVE \E j \in DOMAIN a : Data(a[j], x) /\ a[j].n = l
    <3>1. CASE l <= w
      <4>1. l \in k + 1 .. w
        BY <2>2, <3>1
      <4> QED
        BY <2>0, <4>1 DEF RestIn
    <3>2. CASE ~(l <= w)
      <4>1. l = w + 1 /\ v = w + 1
        BY <1>1, <2>2, <3>2
      <4> QED
        BY <1>1, <2>0, <4>1
    <3> QED
      BY <3>1, <3>2
  <2> QED
    BY <2>1, <2>2 DEF RestIn, a
<1>2. w + 1 \in Nat
  OBVIOUS
<1>3. ASSUME q # << >> PROVE
      /\ 1 \in DOMAIN q /\ q[1] = Head(q)
      /\ \A i \in DOMAIN Tail(q) : i + 1 \in DOMAIN q /\ Tail(q)[i] = q[i + 1] /\ i \in Nat /\ i + 1 > 1
      /\ \A i \in DOMAIN q : i = 1 \/ (i > 1 /\ i - 1 \in DOMAIN Tail(q) /\ Tail(q)[i - 1] = q[i])
  BY <1>3, TailAt
<1>4. ASSUME q # << >>, ~Data(Head(q), x) PROVE RestIn(Tail(q), x, k, w)
  <2>1. \A i \in DOMAIN Tail(q) : Data(Tail(q)[i], x) => Tail(q)[i].n > k
    BY <1>3, <1>4 DEF RestIn
  <2>2. ASSUME NEW l \in k + 1 .. w PROVE \E j \in DOMAIN Tail(q) : Data(Tail(q)[j], x) /\ Tail(q)[j].n = l
    <3>1. PICK i \in DOMAIN q : Data(q[i], x) /\ q[i].n = l
      BY DEF RestIn
    <3> QED
      BY <1>3, <1>4, <3>1
  <2> QED
    BY <2>1, <2>2 DEF RestIn
<1>5. ASSUME q # << >>, Data(Head(q), x), InLine(q, x, w) PROVE Head(q).n = k + 1
  <2>0. Head(q) \in Messages
    BY <1>5
  <2>1. Head(q).n > k /\ Head(q).n <= w /\ Head(q).n \in Nat
    <3>1. Head(q).n \in Nat
      BY <2>0, BoundsAssumption DEF Messages
    <3> QED
      BY <1>3, <1>5, <3>1 DEF RestIn, InLine
  <2>2. k + 1 \in k + 1 .. w
    BY <2>1
  <2>3. PICK i \in DOMAIN q : Data(q[i], x) /\ q[i].n = k + 1
    BY <2>2 DEF RestIn
  <2>4. i = 1 \/ (1 < i /\ q[1].n < q[i].n)
    BY <1>3, <1>5, <2>3 DEF InLine
  <2> QED
    BY <1>3, <1>5, <2>1, <2>3, <2>4
<1> QED
  BY <1>1, <1>2, <1>4, <1>5

LEMMA NoHoleAppend ==
    ASSUME NEW q \in Seq(Messages), NEW m \in Messages, NoHole(q),
           q # << >> => m.n = q[Len(q)].n + 1
    PROVE  NoHole(Append(q, m))
<1> SUFFICES ASSUME NEW i \in 1 .. Len(Append(q, m)) - 1
             PROVE  Append(q, m)[i + 1].n = Append(q, m)[i].n + 1
  BY DEF NoHole
<1>1. Len(Append(q, m)) = Len(q) + 1 /\ Len(q) \in Nat
  OBVIOUS
<1>2. CASE i < Len(q)
  <2>1. i \in 1 .. Len(q) - 1 /\ Append(q, m)[i] = q[i] /\ Append(q, m)[i + 1] = q[i + 1]
    BY <1>1, <1>2
  <2> QED
    BY <2>1 DEF NoHole
<1>3. CASE ~(i < Len(q))
  <2>1. i = Len(q) /\ q # << >> /\ Append(q, m)[i] = q[i] /\ Append(q, m)[i + 1] = m
    BY <1>1, <1>3
  <2> QED
    BY <2>1
<1> QED
  BY <1>2, <1>3

LEMMA Ends ==
    ASSUME OneWay, NEW y \in Sockets
    PROVE  /\ Peer(y) \in Sockets /\ Peer(Peer(y)) = y
           /\ Other(Home(Peer(y))) = Home(y) /\ Home(y) \in Nodes
           /\ Other(Home(y)) \in Nodes
  BY Sides

LEMMA WrittenStep ==
    ASSUME [Next]_vars, TypeOK, NEW x \in Sockets
    PROVE  \/ written'[x] = written[x] /\ ~Write(x)
           \/ written'[x] = written[x] + 1 /\ Write(x)
<1>1. ASSUME NEW s \in Sockets, Write(s)
      PROVE  written' = [written EXCEPT ![s] = @ + 1]
  BY <1>1 DEF Write
<1>2. ASSUME \A s \in Sockets : ~Write(s) PROVE written' = written
  <2>1. ASSUME NEW c \in Clients, Connecting(c) PROVE written' = written
    BY <2>1, ConnectingKeeps
  <2>2. ASSUME NEW p \in Acceptors, Accepting(p) PROVE written' = written
    BY <2>2, AwaitsKeeps, TakeDoes, AddDoes, NotifiesDoes DEF Accepting, AcceptKeeps
  <2>3. ASSUME NEW s \in Sockets, Using(s) PROVE written' = written
    BY <1>2, <2>3 DEF Using, CloseCheck, CloseRemove, CloseSend, programVars
  <2>4. ASSUME NEW n \in Nodes, RcvStep(n) PROVE written' = written
    BY <2>4, RcvKeeps
  <2>5. UNCHANGED vars => written' = written
    BY DEF vars, programVars
  <2> QED
    BY <2>1, <2>2, <2>3, <2>4, <2>5, Steps
<1>3. DOMAIN written = Sockets /\ written[x] \in 0 .. MaxData /\ MaxData \in Nat
  BY BoundsAssumption DEF TypeOK
<1>4. written[x] # written[x] + 1
  BY <1>3
<1>5. CASE \E s \in Sockets : Write(s)
  <2>1. PICK s \in Sockets : Write(s)
    BY <1>5
  <2>2. CASE s = x
    BY <1>1, <1>3, <2>1, <2>2
  <2>3. CASE s # x
    <3>1. written'[x] = written[x]
      BY <1>1, <1>3, <2>1, <2>3
    <3>2. ~Write(x)
      <4>1. ASSUME Write(x) PROVE FALSE
        <5>1. written'[x] = written[x] + 1
          BY <1>1, <1>3, <4>1
        <5> QED
          BY <1>4, <3>1, <5>1
      <4> QED
        BY <4>1
    <3> QED
      BY <3>1, <3>2
  <2> QED
    BY <2>2, <2>3
<1> QED
  BY <1>2, <1>5

\* What a step does to the data of x on its way.
LEMMA DataMoves ==
    ASSUME OneWay, Orderly, [Next]_vars, ~HalfOpen', NEW x \in Sockets,
           NEW n, n = Other(Home(x))
    PROVE  \/ written'[x] = written[x] /\ chan'[n] = chan[n]
           \/ /\ written'[x] = written[x]
              /\ \E m \in Messages : ~Data(m, x) /\ chan'[n] = Append(chan[n], m)
           \/ /\ written'[x] = written[x] + 1
              /\ \E m \in Messages : /\ Data(m, x) /\ m.n = written[x] + 1
                                     /\ chan'[n] = Append(chan[n], m)
           \/ /\ written'[x] = written[x]
              /\ \E t : Takes(n, t) /\ (t = "REGULAR" => RcvRegular(n))
<1>0. TypeOK /\ n \in Nodes
  BY Ends DEF Orderly, TableInv
<1>1. CASE Write(x)
  <2>1. written'[x] = written[x] + 1
    BY <1>0, <1>1, WrittenStep
  <2>2. PICK m : m = Msg("REGULAR", x, written[x] + 1)
    OBVIOUS
  <2>3. written[x] < MaxData /\ Transmit(x, m)
    BY <1>1, <2>2, WriteDoes
  <2>4. written[x] + 1 \in 0 .. MaxData
    <3>1. written[x] \in 0 .. MaxData /\ MaxData \in Nat
      BY <1>0, BoundsAssumption DEF TypeOK
    <3>2. PICK w : w = written[x]
      OBVIOUS
    <3> QED
      BY <2>3, <3>1, <3>2
  <2>5. m \in Messages /\ Data(m, x) /\ m.n = written[x] + 1
    BY <2>2, <2>4, Message DEF Msg, Data
  <2>6. chan'[n] = Append(chan[n], m)
    BY <1>0, <2>3, SendDoes
  <2> QED
    BY <2>1, <2>5, <2>6
<1>2. CASE ~Write(x)
  <2>1. written'[x] = written[x]
    BY <1>0, <1>2, WrittenStep
  <2>2. ASSUME NEW s \in Sockets, NEW m \in Messages, Sent(s, m), chan'[n] = Append(chan[n], m)
        PROVE  ~Data(m, x)
    BY <1>2, <2>2 DEF Sent, Data
  <2> QED
    BY <1>0, <2>1, <2>2, SentIs
<1> QED
  BY <1>1, <1>2

\* A message that needs an entry finds the only one of the node, which is its own.
LEMMA OneEntry ==
    ASSUME OneWay, Orderly, NEW n \in Nodes, NEW y \in ToSet(conns[n]),
           chan[n] # << >>, Head(chan[n]).type = "REGULAR"
    PROVE  conns[n] # << >> /\ Head(conns[n]) = y /\ Head(chan[n]).sock = Peer(y)
<1>0. TableInv /\ EntryAt(y, n)
  BY DEF Orderly, TableInv, Owned
<1>1. conns[n] # << >>
  BY <1>0, ListTypes
<1>2. CASE n = Near
  <2>1. PICK c \in Clients : y = Cl(c) /\ InConns(c)
    BY <1>0, <1>2, Sides DEF EntryAt, InConns
  <2>2. PICK d \in Clients : Head(conns[Near]) = Cl(d) /\ InConns(d)
    BY <1>1, <1>2, EntryIs
  <2>3. Head(chan[Near]).sock = Sv(c) /\ Head(chan[Near]).sock = Sv(d)
    BY <1>2, <2>1, <2>2, NearMeets
  <2>4. c = d
    BY <2>3, Sides
  <2> QED
    BY <1>1, <1>2, <2>1, <2>2, <2>3, <2>4, Sides
<1>3. CASE n = Far
  <2>1. PICK c \in Clients : y = Sv(c) /\ spc[Sv(c)] # "absent"
    BY <1>0, <1>3, Sides DEF EntryAt, Made
  <2>2. spc[Sv(c)] # "closed"
    BY <1>3, <2>1 DEF Orderly, Serving
  <2>3. PICK d \in Clients : Head(conns[Far]) = Sv(d) /\ Head(chan[Far]).sock = Cl(d)
    BY <1>1, <1>3, FarMeets
  <2>4. PICK e \in Clients : Head(conns[Far]) = Sv(e) /\ Busy(e)
    BY <1>1, <1>3, EntryIs
  <2>5. d = e
    BY <2>3, <2>4, Sides
  <2>6. c = d
    BY <2>1, <2>2, <2>4, <2>5, InUse
  <2> QED
    BY <1>1, <1>3, <2>1, <2>3, <2>6, Sides
<1> QED
  BY <1>2, <1>3, Sides

LEMMA RegularTaken ==
    ASSUME OneWay, Orderly, [Next]_vars, ~HalfOpen', NEW n \in Nodes, Takes(n, "REGULAR")
    PROVE  RcvRegular(n)
<1>1. PICK q \in Seq(Messages) : q = chan[n]
  BY ListTypes DEF Orderly
<1>2. q # << >> /\ Head(q).type = "REGULAR" /\ chan'[n] = Tail(q)
  BY <1>1 DEF Takes
<1>3. Tail(q) # q /\ \A m \in Messages : Tail(q) # Append(q, m)
  <2>1. Len(Tail(q)) # Len(q)
    BY <1>2
  <2>2. \A m \in Messages : Len(Tail(q)) # Len(Append(q, m))
    BY <1>2
  <2> QED
    BY <2>1, <2>2
<1>4. \E t : Takes(n, t) /\ (t = "REGULAR" => RcvRegular(n))
  BY <1>1, <1>2, <1>3, SentIs
<1> QED
  BY <1>1, <1>2, <1>4 DEF Takes

\* The message that is taken for y, and no other, is added to what has arrived.
TakenFor(y) ==
    RcvRegular(Home(y)) /\ conns[Home(y)] # << >> /\ Head(conns[Home(y)]) = y

LEMMA ArrivedStep ==
    ASSUME OneWay, Orderly, [Next]_vars, ~HalfOpen', NEW y \in Sockets
    PROVE  /\ Arrived(y) \in Seq(Messages)
           /\ Arrived(y) # << >> => Got(y)
           /\ TakenFor(y) => Arrived(y)' = Append(Arrived(y), Head(chan[Home(y)]))
           /\ ~TakenFor(y) => Arrived(y)' = Arrived(y)
<1> DEFINE n == Home(y)
<1>0. /\ TableInv /\ TypeOK /\ Roles /\ n \in Nodes /\ DOMAIN received = Sockets
      /\ received[y] \in Seq(Messages) /\ hmsg[n] \in Messages
  BY Ends DEF Orderly, AlwaysInv, TableInv, TypeOK
<1>1. \A k \in Nodes : hpc[k] = "queue" => hsock[k] \in Sockets /\ Home(hsock[k]) = k
  BY <1>0 DEF TableInv, Owned, EntryAt
<1> HIDE DEF n
<1>2. /\ hpc[n] = "queue" /\ hsock[n] = y => Arrived(y) = Append(received[y], hmsg[n])
      /\ ~(hpc[n] = "queue" /\ hsock[n] = y) => Arrived(y) = received[y]
      /\ hpc'[n] = "queue" /\ hsock'[n] = y => Arrived(y)' = Append(received'[y], hmsg'[n])
      /\ ~(hpc'[n] = "queue" /\ hsock'[n] = y) => Arrived(y)' = received'[y]
  BY DEF Arrived, n
<1>3. \/ received'[y] = received[y] /\ (hpc[n] = "queue" => hpc'[n] = "queue" /\ hsock'[n] = hsock[n])
      \/ /\ hpc[n] = "queue" /\ hpc'[n] = "idle" /\ hsock[n] = y
         /\ received'[y] = Append(received[y], hmsg[n])
      \/ hpc[n] = "queue" /\ hpc'[n] = "idle" /\ hsock[n] # y /\ received'[y] = received[y]
  <2>1. CASE /\ received' = received
             /\ \A k \in Nodes : hpc[k] = "queue" => hpc'[k] = "queue" /\ hsock'[k] = hsock[k]
    BY <1>0, <2>1
  <2>2. ASSUME NEW k \in Nodes, hpc[k] = "queue", hpc'[k] = "idle",
               received' = [received EXCEPT ![hsock[k]] = Append(@, hmsg[k])],
               \A j \in Nodes : j # k => hpc'[j] = hpc[j] /\ hsock'[j] = hsock[j]
        PROVE  \/ received'[y] = received[y] /\ (hpc[n] = "queue" => hpc'[n] = "queue" /\ hsock'[n] = hsock[n])
               \/ /\ hpc[n] = "queue" /\ hpc'[n] = "idle" /\ hsock[n] = y
                  /\ received'[y] = Append(received[y], hmsg[n])
               \/ hpc[n] = "queue" /\ hpc'[n] = "idle" /\ hsock[n] # y /\ received'[y] = received[y]
    <3>1. CASE hsock[k] = y
      <4>1. k = n
        BY <1>1, <2>2, <3>1 DEF n
      <4> QED
        BY <1>0, <2>2, <3>1, <4>1
    <3>2. CASE hsock[k] # y
      BY <1>0, <2>2, <3>2
    <3> QED
      BY <3>1, <3>2
  <2> QED
    BY <1>0, <2>1, <2>2, ReceivedStep
<1>4. Arrived(y) \in Seq(Messages) /\ (Arrived(y) # << >> => Got(y))
  <2>1. CASE hpc[n] = "queue" /\ hsock[n] = y
    BY <1>0, <1>2, <2>1 DEF Got
  <2>2. CASE ~(hpc[n] = "queue" /\ hsock[n] = y)
    BY <1>0, <1>2, <2>2 DEF Got
  <2> QED
    BY <2>1, <2>2
<1>5. ASSUME TakenFor(y) PROVE Arrived(y)' = Append(Arrived(y), Head(chan[n]))
  <2>1. RcvRegular(n) /\ conns[n] # << >> /\ Head(conns[n]) = y
    BY <1>5 DEF TakenFor, n
  <2>2. /\ hpc[n] = "idle" /\ hpc'[n] = "queue" /\ hmsg'[n] = Head(chan[n]) /\ hsock'[n] = y
        /\ received' = received
    BY <1>0, <2>1, RegularDoes DEF Takes
  <2> QED
    BY <1>2, <2>2
<1>6. ASSUME ~TakenFor(y) PROVE Arrived(y)' = Arrived(y)
  <2>1. CASE hpc'[n] = hpc[n] /\ hsock'[n] = hsock[n] /\ hmsg'[n] = hmsg[n]
    BY <1>2, <1>3, <2>1
  <2>2. CASE hpc'[n] \in {"idle", "wake"}
    BY <1>2, <1>3, <2>2
  <2>3. CASE Takes(n, "REGULAR") /\ hpc'[n] = "queue" /\ hsock'[n] # y
    <3>1. hpc[n] = "idle"
      BY <2>3 DEF Takes
    <3> QED
      BY <1>2, <1>3, <2>3, <3>1
  <2>4. CASE hpc'[n] \in {"add", "close", "move"} /\ hpc[n] # "queue"
    BY <1>2, <1>3, <2>4
  <2>5. ASSUME Takes(n, "REGULAR"), hpc'[n] = "queue", hsock'[n] = Head(conns[n]), conns[n] # << >>,
               hsock'[n] = y
        PROVE  FALSE
    <3>1. RcvRegular(n)
      BY <1>0, <2>5, RegularTaken
    <3> QED
      BY <1>6, <2>5, <3>1 DEF TakenFor, n
  <2>6. hpc[n] = "queue" => hpc'[n] \in {"queue", "idle"}
    BY <1>3
  <2>7. hpc'[n] \in {"add", "close", "move"} => hpc[n] # "queue"
    BY <2>6
  <2> QED
    BY <1>0, <2>1, <2>2, <2>3, <2>4, <2>5, <2>7, HandlerStep
<1> QED
  BY <1>4, <1>5, <1>6 DEF n

\* What is taken for y is the next data for it.
LEMMA TakenIs ==
    ASSUME OneWay, Orderly, [Next]_vars, NEW y \in Sockets, TakenFor(y)
    PROVE  /\ y \in ToSet(conns[Home(y)]) /\ Takes(Home(y), "REGULAR")
           /\ Data(Head(chan[Home(y)]), Peer(y)) /\ Head(chan[Home(y)]) \in Messages
           /\ hpc'[Home(y)] = "queue"
           /\ UNCHANGED <<incoming, conns, apc, asock, spc>>
<1>1. PICK n \in Nodes : n = Home(y)
  BY Ends
<1>0. TableInv /\ chan[n] \in Seq(Messages)
  BY ListTypes DEF Orderly
<1>2. RcvRegular(n) /\ conns[n] # << >> /\ Head(conns[n]) = y
  BY <1>1 DEF TakenFor
<1>3. y \in ToSet(conns[n])
  BY <1>0, <1>2, ListTypes
<1>4. /\ Takes(n, "REGULAR") /\ UNCHANGED <<incoming, conns, apc, asock, spc>>
      /\ hpc'[n] = "queue"
  BY <1>0, <1>2, RegularDoes
<1>5. chan[n] # << >> /\ Head(chan[n]).type = "REGULAR"
  BY <1>4 DEF Takes
<1>6. Head(chan[n]).sock = Peer(y)
  BY <1>3, <1>5, OneEntry
<1>7. Head(chan[n]) \in Messages
  BY <1>0, <1>5
<1> QED
  BY <1>1, <1>3, <1>4, <1>5, <1>6, <1>7 DEF Data

LEMMA EnteredOnceStep ==
    ASSUME OneWay, Orderly, [Next]_vars, ~HalfOpen', NEW c \in Clients, EnteredOnce(c)
    PROVE  EnteredOnce(c)'
<1>0. TableInv /\ Roles /\ Sv(c) \in Sockets /\ Home(Sv(c)) = Far /\ Far \in Nodes /\ Near # Far
  BY Sides DEF Orderly, AlwaysInv
<1> SUFFICES ASSUME Arrived(Sv(c))' # << >>
             PROVE  /\ spc'[Sv(c)] # "absent"
                    /\ Sv(c) \notin ToSet(incoming'[Far])
                    /\ ~(hpc'[Far] = "add" /\ hsock'[Far] = Sv(c))
                    /\ \A p \in Acceptors : ~(apc'[p] = "add" /\ asock'[p] = Sv(c))
  BY DEF EnteredOnce
<1>1. CASE TakenFor(Sv(c))
  <2>1. /\ Sv(c) \in ToSet(conns[Far]) /\ hpc'[Far] = "queue"
        /\ UNCHANGED <<incoming, conns, apc, asock, spc>>
    BY <1>0, <1>1, TakenIs
  <2>2. EntryAt(Sv(c), Far)
    BY <1>0, <2>1 DEF TableInv, Owned
  <2>3. Sv(c) \notin ToSet(incoming[Far])
    BY <1>0, <2>1 DEF TableInv, Single, ListsApart
  <2>4. \A p \in Acceptors : ~(apc[p] = "add" /\ asock[p] = Sv(c))
    BY <1>0, <2>1, Sides DEF TableInv, Single, AcceptorAlone
  <2> QED
    BY <2>1, <2>2, <2>3, <2>4 DEF EntryAt, Made
<1>2. CASE ~TakenFor(Sv(c))
  <2>1. /\ spc[Sv(c)] # "absent"
        /\ Sv(c) \notin ToSet(incoming[Far])
        /\ ~(hpc[Far] = "add" /\ hsock[Far] = Sv(c))
        /\ \A p \in Acceptors : ~(apc[p] = "add" /\ asock[p] = Sv(c))
    BY <1>0, <1>2, ArrivedStep DEF EnteredOnce
  <2>2. spc'[Sv(c)] # "absent"
    BY <1>0, <2>1, SpcMoves
  <2>3. Sv(c) \notin ToSet(incoming'[Far])
    BY <1>0, <2>1, IncomingStep DEF Gains, Loses
  <2>4. ~(hpc'[Far] = "add" /\ hsock'[Far] = Sv(c))
    BY <1>0, <2>1, HandlerStep, Sides
  <2>5. ASSUME NEW p \in Acceptors, apc'[p] = "add", asock'[p] = Sv(c) PROVE FALSE
    BY <1>0, <2>1, <2>5, AcceptorStep DEF Loses
  <2> QED
    BY <2>2, <2>3, <2>4, <2>5
<1> QED
  BY <1>1, <1>2

LEMMA InLineStep ==
    ASSUME OneWay, Orderly, [Next]_vars, ~HalfOpen', NEW x \in Sockets,
           NEW n, n = Other(Home(x)), InLine(chan[n], x, written[x])
    PROVE  InLine(chan'[n], x, written'[x])
<1>0. n \in Nodes /\ TypeOK
  BY Ends DEF Orderly, TableInv
<1>1. chan[n] \in Seq(Messages) /\ written[x] \in Nat
  BY <1>0, BoundsAssumption DEF TypeOK
<1>2. ASSUME NEW m \in Messages, ~Data(m, x), chan'[n] = Append(chan[n], m), written'[x] = written[x]
      PROVE  InLine(chan'[n], x, written'[x])
  BY <1>1, <1>2, InLineAppend
<1>3. ASSUME NEW m \in Messages, Data(m, x), m.n = written[x] + 1, chan'[n] = Append(chan[n], m),
             written'[x] = written[x] + 1
      PROVE  InLine(chan'[n], x, written'[x])
  BY <1>1, <1>3, InLineAppend
<1>4. ASSUME NEW t, Takes(n, t), written'[x] = written[x]
      PROVE  InLine(chan'[n], x, written'[x])
  BY <1>1, <1>4, InLineTail DEF Takes
<1> QED
  BY <1>2, <1>3, <1>4, DataMoves

\* A socket that something has arrived for keeps its entry or loses it, and gets no other.
LEMMA NoSecondEntry ==
    ASSUME OneWay, Orderly, [Next]_vars, \A c \in Clients : EnteredOnce(c), NEW y \in Sockets,
           Arrived(y) # << >>, Got(y), y \in ToSet(conns'[Home(y)])
    PROVE  y \in ToSet(conns[Home(y)])
<1>0. TableInv /\ Roles
  BY DEF Orderly, AlwaysInv
<1>1. SUFFICES ASSUME y \notin ToSet(conns[Home(y)]) PROVE FALSE
  OBVIOUS
<1>2. PICK n \in Nodes : n = Home(y)
  BY Ends
<1>3. ASSUME NEW p \in Acceptors, Gains(conns, Far, asock[p]), apc[p] = "add" PROVE FALSE
  <2>1. n = Far /\ y = asock[p]
    BY <1>1, <1>2, <1>3 DEF Gains
  <2>2. y = Sv(y[1]) /\ y[1] \in Clients
    BY <1>2, <2>1, Sides
  <2> QED
    BY <1>3, <2>1, <2>2 DEF EnteredOnce
<1>4. ASSUME Gains(conns, Near, hsock[Near]), hpc[Near] = "move" PROVE FALSE
  <2>1. n = Near /\ y = hsock[Near]
    BY <1>1, <1>2, <1>4 DEF Gains
  <2>2. y = Cl(y[1]) /\ y[1] \in Clients
    BY <1>2, <2>1, Sides
  <2> QED
    BY <1>4, <2>1, <2>2 DEF Orderly, Asking
<1>5. ASSUME NEW k \in Nodes, NEW x, Loses(conns, k, x) PROVE FALSE
  BY <1>1, <1>2, <1>5 DEF Loses
<1>6. conns' # conns
  BY <1>1
<1>7. \A s \in Sockets : Home(s) \in Nodes
  BY Ends
<1> QED
  BY <1>0, <1>3, <1>4, <1>5, <1>6, <1>7, ConnsStep

LEMMA LastOf ==
    ASSUME NEW q \in Seq(Messages), q # << >>
    PROVE  q[Len(q)] \in Messages /\ q[Len(q)].n \in Nat
<1>1. q[Len(q)] \in Messages
  OBVIOUS
<1> QED
  BY <1>1, BoundsAssumption DEF Messages

LEMMA ContinuesStep ==
    ASSUME OneWay, Orderly, Numbered, [Next]_vars, ~HalfOpen', NEW y \in Sockets
    PROVE  Continues(y)'
<1>1. PICK n \in Nodes, x \in Sockets : n = Home(y) /\ x = Peer(y) /\ n = Other(Home(x))
  BY Ends
<1>0. chan[n] \in Seq(Messages) /\ written[x] \in Nat /\ Arrived(y) \in Seq(Messages)
  BY ArrivedStep, BoundsAssumption DEF Orderly, TableInv, TypeOK
<1>2. InLine(chan[n], x, written[x])
  BY <1>1 DEF Numbered
<1> SUFFICES ASSUME y \in ToSet(conns'[n]), Arrived(y)' # << >>
             PROVE  /\ (Arrived(y)')[Len(Arrived(y)')].n <= written'[x]
                    /\ RestIn(chan'[n], x, (Arrived(y)')[Len(Arrived(y)')].n, written'[x])
  BY <1>1 DEF Continues
<1>3. CASE TakenFor(y)
  <2>1. PICK h \in Messages : h = Head(chan[n]) /\ Data(h, x) /\ Takes(n, "REGULAR")
    BY <1>1, <1>3, TakenIs
  <2>2. chan[n] # << >> /\ chan'[n] = Tail(chan[n])
    BY <2>1 DEF Takes
  <2>3. Arrived(y)' = Append(Arrived(y), h)
    BY <1>1, <1>3, <2>1, ArrivedStep
  <2>4. (Arrived(y)')[Len(Arrived(y)')] = h
    BY <1>0, <2>3
  <2>5. h.n <= written[x] /\ RestIn(Tail(chan[n]), x, h.n, written[x])
    BY <1>0, <1>2, <2>1, <2>2, InLineTail
  <2>6. written'[x] = written[x]
    <3>1. \A m \in Messages : Append(chan[n], m) # Tail(chan[n])
      <4>1. \A m \in Messages : Len(Append(chan[n], m)) # Len(Tail(chan[n]))
        BY <1>0, <2>2
      <4> QED
        BY <4>1
    <3> QED
      BY <1>1, <2>2, <3>1, DataMoves
  <2> QED
    BY <2>2, <2>4, <2>5, <2>6
<1>4. CASE ~TakenFor(y)
  <2>1. Arrived(y)' = Arrived(y) /\ Arrived(y) # << >> /\ Got(y)
    BY <1>4, ArrivedStep
  <2>2. y \in ToSet(conns[n])
    BY <1>1, <2>1, NoSecondEntry DEF Numbered
  <2>3. PICK k : k = Arrived(y)[Len(Arrived(y))].n
    OBVIOUS
  <2>4. k \in Nat /\ k <= written[x] /\ RestIn(chan[n], x, k, written[x])
    BY <1>0, <1>1, <2>1, <2>2, <2>3, LastOf DEF Numbered, Continues
  <2>5. k <= written[x] + 1
    BY <1>0, <2>4
  <2>6. ASSUME NEW t, Takes(n, t), t = "REGULAR" => RcvRegular(n)
        PROVE  RestIn(chan'[n], x, k, written[x])
    <3>1. chan[n] # << >> /\ Head(chan[n]).type = t /\ chan'[n] = Tail(chan[n])
      BY <2>6 DEF Takes
    <3>2. ~Data(Head(chan[n]), x)
      <4>1. ASSUME Data(Head(chan[n]), x) PROVE FALSE
        <5>1. RcvRegular(n) /\ Head(chan[n]).type = "REGULAR"
          BY <2>6, <3>1, <4>1 DEF Data
        <5>2. conns[n] # << >> /\ Head(conns[n]) = y
          BY <2>2, <3>1, <5>1, OneEntry
        <5> QED
          BY <1>1, <1>4, <5>1, <5>2 DEF TakenFor
      <4> QED
        BY <4>1
    <3> QED
      BY <1>0, <2>4, <3>1, <3>2, RestMoves
  <2>7. ASSUME NEW m \in Messages, ~Data(m, x), chan'[n] = Append(chan[n], m)
        PROVE  RestIn(chan'[n], x, k, written[x])
    BY <1>0, <2>4, <2>7, RestMoves
  <2>8. ASSUME NEW m \in Messages, Data(m, x), m.n = written[x] + 1, chan'[n] = Append(chan[n], m)
        PROVE  RestIn(chan'[n], x, k, written[x] + 1)
    <3>1. \A d \in Messages : Data(d, x) /\ d.n = written[x] + 1 =>
              RestIn(Append(chan[n], d), x, k, written[x] + 1)
      BY <1>0, <2>4, RestMoves, Zenon
    <3> QED
      BY <2>8, <3>1
  <2>9. k <= written'[x] /\ RestIn(chan'[n], x, k, written'[x])
    <3>1. CASE written'[x] = written[x] /\ RestIn(chan'[n], x, k, written[x])
      BY <2>4, <3>1
    <3>2. CASE written'[x] = written[x] + 1 /\ RestIn(chan'[n], x, k, written[x] + 1)
      BY <2>5, <3>2
    <3> QED
      BY <1>1, <2>4, <2>6, <2>7, <2>8, <3>1, <3>2, DataMoves
  <2> QED
    BY <2>1, <2>3, <2>9
<1> QED
  BY <1>3, <1>4

LEMMA NoHoleStep ==
    ASSUME OneWay, Orderly, Numbered, [Next]_vars, ~HalfOpen', NEW y \in Sockets
    PROVE  NoHole(Arrived(y))'
<1>1. PICK n \in Nodes, x \in Sockets : n = Home(y) /\ x = Peer(y) /\ n = Other(Home(x))
  BY Ends
<1>0. chan[n] \in Seq(Messages) /\ written[x] \in Nat /\ Arrived(y) \in Seq(Messages)
  BY ArrivedStep, BoundsAssumption DEF Orderly, TableInv, TypeOK
<1>2. NoHole(Arrived(y)) /\ Continues(y) /\ InLine(chan[n], x, written[x])
  BY <1>1 DEF Numbered
<1>3. CASE TakenFor(y)
  <2>1. PICK h \in Messages : h = Head(chan[n]) /\ Data(h, x) /\ Takes(n, "REGULAR")
    BY <1>1, <1>3, TakenIs
  <2>2. chan[n] # << >>
    BY <2>1 DEF Takes
  <2>3. Arrived(y)' = Append(Arrived(y), h)
    BY <1>1, <1>3, <2>1, ArrivedStep
  <2>4. ASSUME Arrived(y) # << >> PROVE h.n = Arrived(y)[Len(Arrived(y))].n + 1
    <3>1. PICK k : k = Arrived(y)[Len(Arrived(y))].n
      OBVIOUS
    <3>2. k \in Nat /\ k <= written[x] /\ RestIn(chan[n], x, k, written[x])
      BY <1>0, <1>1, <1>2, <1>3, <2>4, <3>1, LastOf, TakenIs DEF Continues
    <3> QED
      BY <1>0, <1>2, <2>1, <2>2, <3>1, <3>2, RestMoves
  <2>5. NoHole(Append(Arrived(y), h))
    BY <1>0, <1>2, <2>4, NoHoleAppend
  <2> QED
    BY <2>3, <2>5
<1>4. CASE ~TakenFor(y)
  <2>1. Arrived(y)' = Arrived(y)
    BY <1>4, ArrivedStep
  <2> QED
    BY <1>2, <2>1
<1> QED
  BY <1>3, <1>4

LEMMA NumberedStep ==
    ASSUME OneWay, Orderly, Numbered, [Next]_vars, ~HalfOpen'
    PROVE  Numbered'
<1>1. \A c \in Clients : EnteredOnce(c)'
  BY EnteredOnceStep DEF Numbered
<1>2. ASSUME NEW x \in Sockets
      PROVE  InLine(chan'[Other(Home(x))], x, written'[x])
  BY InLineStep DEF Numbered
<1>3. \A x \in Sockets : Continues(x)' /\ NoHole(Arrived(x))'
  BY ContinuesStep, NoHoleStep
<1> QED
  BY <1>1, <1>2, <1>3 DEF Numbered

\* The inductive invariant behind Gapless.
NumberedUnlessHalfOpen == OrderlyUnlessHalfOpen /\ (~HalfOpen => Numbered)

LEMMA NumbersHold ==
    ASSUME OneWay, RequestResponse PROVE Spec => []NumberedUnlessHalfOpen
<1>1. ASSUME Init PROVE NumberedUnlessHalfOpen
  <2>1. OrderlyUnlessHalfOpen
    BY <1>1, OrderlyInit DEF OrderlyUnlessHalfOpen, Orderly
  <2>2. \A n \in Nodes : chan[n] = << >> /\ conns[n] = << >> /\ hpc[n] = "idle"
    BY <1>1 DEF Init
  <2>3. \A x \in Sockets : Arrived(x) = << >>
    BY <1>1, <2>2, SocketPlaces DEF Init, Arrived
  <2>4. \A c \in Clients : EnteredOnce(c)
    BY <2>3, Sides DEF EnteredOnce
  <2>5. \A x \in Sockets : Continues(x) /\ NoHole(Arrived(x))
    BY <2>3 DEF Continues, NoHole
  <2>6. \A x \in Sockets : InLine(chan[Other(Home(x))], x, written[x])
    BY <2>2, Ends DEF InLine
  <2> QED
    BY <2>1, <2>4, <2>5, <2>6 DEF NumberedUnlessHalfOpen, Numbered
<1>2. ASSUME NumberedUnlessHalfOpen, [Next]_vars PROVE NumberedUnlessHalfOpen'
  <2>1. OrderlyUnlessHalfOpen'
    BY <1>2, OrderlyUnlessStep DEF NumberedUnlessHalfOpen
  <2>2. ASSUME ~HalfOpen' PROVE Numbered'
    <3>1. ~HalfOpen
      BY <1>2, <2>2, ErrorsStay DEF HalfOpen
    <3>2. Orderly /\ Numbered
      BY <1>2, <3>1 DEF NumberedUnlessHalfOpen, OrderlyUnlessHalfOpen
    <3> QED
      BY <1>2, <2>2, <3>2, NumberedStep
  <2> QED
    BY <2>1, <2>2 DEF NumberedUnlessHalfOpen
<1> QED
  BY <1>1, <1>2, PTL DEF Spec

\* What is queued on a socket is a part of what has arrived for it.
LEMMA ReceivedHasNoHole ==
    ASSUME TypeOK, NEW y \in Sockets, NoHole(Arrived(y))
    PROVE  NoHole(received[y])
<1>1. CASE Arrived(y) = received[y]
  BY <1>1
<1>2. ASSUME NEW m, Arrived(y) = Append(received[y], m) PROVE NoHole(received[y])
  <2>0. PICK q \in Seq(Messages) : q = received[y]
    BY DEF TypeOK
  <2>1. \A i \in 1 .. Len(q) - 1 : /\ i \in 1 .. Len(Append(q, m)) - 1
                                   /\ Append(q, m)[i] = q[i] /\ Append(q, m)[i + 1] = q[i + 1]
    OBVIOUS
  <2>2. NoHole(Append(q, m))
    BY <1>2, <2>0
  <2> QED
    BY <2>0, <2>1, <2>2 DEF NoHole
<1> QED
  BY <1>1, <1>2 DEF Arrived

\* What a socket receives has no hole: a message is discarded only before the entry is
\* in conns or after it has left, and no socket gets an entry twice.
THEOREM NothingIsSkipped ==
    ASSUME OneWay, RequestResponse PROVE Spec => []Gapless
<1>1. NumberedUnlessHalfOpen => Gapless
  <2> SUFFICES ASSUME NumberedUnlessHalfOpen, ~HalfOpen, NEW y \in Sockets PROVE NoHole(received[y])
    BY DEF Gapless, NoHole
  <2> QED
    BY ReceivedHasNoHole DEF NumberedUnlessHalfOpen, OrderlyUnlessHalfOpen, Numbered, TableInv
<1> QED
  BY <1>1, NumbersHold, PTL

-----------------------------------------------------------------------------
(* The inductive invariant *)

\* All that the order of the connections rests on: what is in the channels, the tables and
\* the hands of the callback and the programs while no socket is half-open.
THEOREM ConnectionsInOrder ==
    ASSUME OneWay, RequestResponse PROVE Spec => []ConnectionsInv
<1>1. OrderlyUnlessHalfOpen => AlwaysInv /\ OrderInv
  BY DEF OrderlyUnlessHalfOpen, Orderly, OrderInv
<1>2. FatesKnown => AnswersInv
  BY DEF FatesKnown
<1>3. NumberedUnlessHalfOpen => OrderlyUnlessHalfOpen /\ NumbersInv
  BY DEF NumberedUnlessHalfOpen, NumbersInv
<1>4. OrderlyUnlessHalfOpen /\ FatesKnown /\ NumberedUnlessHalfOpen => ConnectionsInv
  BY <1>1, <1>2, <1>3 DEF ConnectionsInv
<1> QED
  BY <1>4, OrderHolds, FatesHold, NumbersHold, PTL
=============================================================================
