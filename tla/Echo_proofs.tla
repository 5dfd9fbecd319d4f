----------------------------- MODULE Echo_proofs ----------------------------
(***************************************************************************)
(* Proof that the programs of Echo stay in step, for pages of any size,    *)
(* any limit on a message, rounds of any length and any number of them:    *)
(* what is proved of one call of sendmsg (Segmentation_proofs), for the    *)
(* client's and for the server's, carried over the queues and the loops.   *)
(***************************************************************************)
EXTENDS Echo, Segmentation_proofs

ServerP == INSTANCE Segmentation_proofs WITH
    buf <- rbuf, pc <- rpc, nrPages <- rnr, i <- ri, left <- rleft, sent <- rsent

-----------------------------------------------------------------------------
(* What waits at a side *)

Mail == [size : Nat \ {0}, round : Nat, from : Nat]

\* The messages of round n that bring its bytes from lo up to hi.
Chain(q, n, lo, hi) ==
    /\ q \in Seq(Mail)
    /\ \A k \in DOMAIN q :
          /\ q[k].round = n /\ q[k].from + q[k].size <= hi
          /\ q[k].from = IF k = 1 THEN lo ELSE q[k - 1].from + q[k - 1].size
    /\ IF q = << >> THEN lo = hi ELSE q[Len(q)].from + q[Len(q)].size = hi

LEMMA ChainEmpty == ASSUME NEW n, NEW lo PROVE Chain(<< >>, n, lo, lo)
  BY DEF Chain

LEMMA ChainAppend ==
    ASSUME NEW q, NEW n \in Nat, NEW lo \in Nat, NEW hi \in Nat, Chain(q, n, lo, hi),
           NEW m \in Mail, m.round = n, m.from = hi
    PROVE  Chain(Append(q, m), n, lo, hi + m.size)
<1> DEFINE t == Append(q, m)
<1>1. /\ t \in Seq(Mail) /\ Len(t) = Len(q) + 1 /\ Len(q) \in Nat /\ t[Len(q) + 1] = m
      /\ \A k \in 1 .. Len(q) : t[k] = q[k]
      /\ DOMAIN q = 1 .. Len(q) /\ DOMAIN t = 1 .. Len(q) + 1
      /\ t # << >>
  <2>1. q \in Seq(Mail)
    BY DEF Chain
  <2> QED
    BY <2>1
<1> HIDE DEF t
<1>2. m.size \in Nat /\ m.from \in Nat
  BY DEF Mail
<1>3. ASSUME NEW k \in DOMAIN t
      PROVE  /\ t[k].round = n /\ t[k].from + t[k].size <= hi + m.size
             /\ t[k].from = IF k = 1 THEN lo ELSE t[k - 1].from + t[k - 1].size
  <2>1. CASE k \in 1 .. Len(q)
    <3>1. t[k] = q[k] /\ k \in DOMAIN q /\ (k # 1 => t[k - 1] = q[k - 1])
      BY <1>1, <2>1
    <3>2. q[k] \in Mail
      BY <3>1 DEF Chain
    <3>3. q[k].from \in Nat /\ q[k].size \in Nat
      BY <3>2 DEF Mail
    <3>4. /\ q[k].round = n /\ q[k].from + q[k].size <= hi
          /\ q[k].from = IF k = 1 THEN lo ELSE q[k - 1].from + q[k - 1].size
      BY <3>1 DEF Chain
    <3>5. q[k].from + q[k].size <= hi + m.size
      BY <1>2, <3>3, <3>4
    <3> QED
      BY <3>1, <3>4, <3>5
  <2>2. CASE k = Len(q) + 1
    <3>1. t[k] = m
      BY <1>1, <2>2
    <3>2. CASE q = << >>
      <4>1. k = 1 /\ lo = hi
        BY <2>2, <3>2 DEF Chain
      <4> QED
        BY <1>2, <3>1, <4>1
    <3>3. CASE q # << >>
      <4>1. k # 1 /\ k - 1 = Len(q) /\ Len(q) \in 1 .. Len(q)
        BY <1>1, <2>2, <3>3
      <4>2. t[k - 1] = q[Len(q)]
        BY <1>1, <4>1
      <4>3. q[Len(q)].from + q[Len(q)].size = hi
        BY <3>3 DEF Chain
      <4> QED
        BY <1>2, <3>1, <4>1, <4>2, <4>3
    <3> QED
      BY <3>2, <3>3
  <2> QED
    BY <1>1, <2>1, <2>2
<1>4. t[Len(t)].from + t[Len(t)].size = hi + m.size
  BY <1>1
<1>5. Chain(t, n, lo, hi + m.size)
  BY <1>1, <1>3, <1>4 DEF Chain
<1> QED
  BY <1>5 DEF t

\* A side takes the first of them.
LEMMA ChainTail ==
    ASSUME NEW q, NEW n \in Nat, NEW lo \in Nat, NEW hi \in Nat, Chain(q, n, lo, hi), q # << >>
    PROVE  /\ Head(q).size \in Nat \ {0} /\ lo + Head(q).size <= hi
           /\ Chain(Tail(q), n, lo + Head(q).size, hi)
           /\ lo + Head(q).size = hi => Tail(q) = << >>
<1> DEFINE t == Tail(q)
<1>1. /\ t \in Seq(Mail) /\ Len(t) = Len(q) - 1 /\ Len(q) \in Nat \ {0} /\ Head(q) = q[1]
      /\ \A k \in 1 .. Len(q) - 1 : t[k] = q[k + 1]
      /\ DOMAIN q = 1 .. Len(q) /\ DOMAIN t = 1 .. Len(q) - 1
      /\ 1 \in DOMAIN q
  BY DEF Chain
<1> HIDE DEF t
<1>2. q[1] \in Mail /\ q[1].from = lo /\ q[1].from + q[1].size <= hi
  BY <1>1 DEF Chain
<1>3. Head(q).size \in Nat \ {0} /\ lo + Head(q).size <= hi /\ lo + Head(q).size = q[1].from + q[1].size
  BY <1>1, <1>2 DEF Mail
<1>4. ASSUME NEW k \in DOMAIN t
      PROVE  /\ t[k] \in Mail /\ t[k].round = n /\ t[k].from + t[k].size <= hi
             /\ t[k].from = IF k = 1 THEN lo + Head(q).size ELSE t[k - 1].from + t[k - 1].size
  <2>1. t[k] = q[k + 1] /\ k + 1 \in DOMAIN q /\ k + 1 # 1 /\ (k + 1) - 1 = k
        /\ (k # 1 => t[k - 1] = q[k])
    BY <1>1
  <2>2. \A j \in DOMAIN q :
            /\ q[j] \in Mail /\ q[j].round = n /\ q[j].from + q[j].size <= hi
            /\ j # 1 => q[j].from = q[j - 1].from + q[j - 1].size
    BY DEF Chain
  <2> QED
    BY <1>3, <2>1, <2>2
<1>5. CASE t = << >>
  <2>1. Len(q) = 1
    BY <1>1, <1>5
  <2>2. q[1].from + q[1].size = hi
    BY <2>1 DEF Chain
  <2> QED
    BY <1>1, <1>3, <1>5, <2>2 DEF Chain, t
<1>6. CASE t # << >>
  <2>1. 1 \in DOMAIN t /\ t[Len(t)] = q[Len(q)]
    BY <1>1, <1>6
  <2>2. q[Len(q)].from + q[Len(q)].size = hi
    BY DEF Chain
  <2>3. Chain(t, n, lo + Head(q).size, hi)
    BY <1>1, <1>4, <1>6, <2>1, <2>2 DEF Chain
  <2>4. t[1] \in Mail /\ t[1].from = lo + Head(q).size /\ t[1].from + t[1].size <= hi
    BY <1>4, <2>1
  <2>5. lo + Head(q).size # hi
    BY <1>3, <2>4 DEF Mail
  <2> QED
    BY <1>3, <2>3, <2>5 DEF t
<1> QED
  BY <1>5, <1>6

\* When nothing is missing nothing waits.
LEMMA ChainNothing ==
    ASSUME NEW q, NEW n \in Nat, NEW lo \in Nat, Chain(q, n, lo, lo)
    PROVE  q = << >>
<1> SUFFICES ASSUME q # << >> PROVE FALSE
  OBVIOUS
<1>1. Head(q).size \in Nat \ {0} /\ lo + Head(q).size <= lo
  BY ChainTail
<1> QED
  BY <1>1

-----------------------------------------------------------------------------
(* The inductive invariant *)

Good == faults = 0 /\ sound

EchoType ==
    /\ base \in [Sides -> PageSize .. 2 * PageSize - 1]
    /\ at \in [Sides -> {"write", "read", "next", "over"}]
    /\ size \in [Sides -> 1 .. SendSize - 1]
    /\ tot \in [Sides -> Nat]
    /\ queue \in [Sides -> Seq(Mail)]

\* Both calls of write go well, the client's and the server's.
Calls ==
    /\ GoesWell /\ buf = Buffer("client", size["client"])
    /\ ServerP!GoesWell /\ rbuf = Buffer("server", size["server"])

\* Where a side is in its loop, where its write is and what it has read.
Loops ==
    /\ at["client"] # "write" => pc = "done"
    /\ at["server"] = "read" => rpc = "start"
    /\ at["server"] \in {"next", "over"} => rpc = "done"
    /\ at["server"] = "write" => tot["server"] = size["server"]
    /\ \A s \in Sides :
          /\ at[s] = "read" => tot[s] < size[s]
          /\ at[s] = "next" => tot[s] = size[s]
          /\ at[s] = "over" => 2 * size[s] >= SendSize

\* The client has nothing to read yet.
ClientWaits ==
    /\ at["client"] \in {"write", "read"} /\ queue["client"] = << >>
    /\ at["client"] = "read" => tot["client"] = 0

\* In one round, the server reads what the client writes ...
ServerReads ==
    /\ size["client"] = size["server"] /\ at["server"] = "read" /\ ClientWaits
    /\ Chain(queue["server"], size["client"], tot["server"], Reached)

\* ... then the client reads what the server writes ...
ClientReads ==
    /\ size["client"] = size["server"] /\ at["server"] # "read"
    /\ at["client"] \in {"write", "read"} /\ pc = "done" /\ queue["server"] = << >>
    /\ Chain(queue["client"], size["client"], Taken("client"), ServerP!Reached)

\* ... and both have what they expect.
RoundOver ==
    /\ size["client"] = size["server"] /\ at["server"] # "read" /\ rpc = "done"
    /\ at["client"] \in {"next", "over"}
    /\ queue["server"] = << >> /\ queue["client"] = << >>

\* The client writes the next round before the server has begun it.
ClientAhead ==
    /\ size["client"] = 2 * size["server"] /\ at["server"] \in {"write", "next"} /\ rpc = "done"
    /\ ClientWaits
    /\ Chain(queue["server"], size["client"], 0, Reached)

\* The server waits for the next round while the client still reads this one.
ServerAhead ==
    /\ size["server"] = 2 * size["client"] /\ at["server"] = "read" /\ tot["server"] = 0
    /\ pc = "done" /\ queue["server"] = << >>
    /\ \/ /\ at["client"] \in {"write", "read"}
          /\ Chain(queue["client"], size["client"], Taken("client"), size["client"])
       \/ at["client"] = "next" /\ queue["client"] = << >>

Turns == ServerReads \/ ClientReads \/ RoundOver \/ ClientAhead \/ ServerAhead

\* Nothing is claimed once a call has failed or a buffer was not Sound.
EchoInv ==
    /\ faults \in Nat
    /\ Good => EchoType /\ Calls /\ Loops /\ Turns

-----------------------------------------------------------------------------
(* The two sides *)

LEMMA TwoSides ==
    /\ "client" \in Sides /\ "server" \in Sides /\ "client" # "server"
    /\ Other("client") = "server" /\ Other("server") = "client"
    /\ \A s \in Sides : s = "client" \/ s = "server"
<1>1. /\ "client" \in Sides /\ "server" \in Sides /\ "client" # "server"
      /\ \A s \in Sides : s = "client" \/ s = "server"
  BY DEF Sides
<1>2. Other("client") = "server"
  <2>1. \E t \in Sides : t # "client"
    BY <1>1
  <2>2. Other("client") \in Sides /\ Other("client") # "client"
    BY <2>1 DEF Other
  <2> QED
    BY <1>1, <2>2
<1>3. Other("server") = "client"
  <2>1. \E t \in Sides : t # "server"
    BY <1>1
  <2>2. Other("server") \in Sides /\ Other("server") # "server"
    BY <2>1 DEF Other
  <2> QED
    BY <1>1, <2>2
<1> QED
  BY <1>1, <1>2, <1>3

\* The buffer of a round is one the program may write.
LEMMA BufferType ==
    ASSUME base \in [Sides -> PageSize .. 2 * PageSize - 1], NEW s \in Sides,
           NEW n \in 1 .. SendSize - 1
    PROVE  Buffer(s, n) \in Buffers /\ Buffer(s, n).len = n /\ Buffer(s, n).start \in Nat
<1>1. /\ PageSize \in Nat /\ SendSize \in Nat /\ n \in Nat /\ n >= 1 /\ n <= SendSize - 1
      /\ [start : PageSize .. 2 * PageSize + SendSize, len : 1 .. SendSize - 1] \subseteq Buffers
  BY SizesAssumption, EchoAssumption
<1>2. base[s] \in PageSize .. 2 * PageSize - 1
  OBVIOUS
<1>3. /\ base[s] + (n - 1) \in PageSize .. 2 * PageSize + SendSize
      /\ base[s] + 0 \in PageSize .. 2 * PageSize + SendSize
      /\ base[s] + (n - 1) \in Nat /\ base[s] + 0 \in Nat
  BY <1>1, <1>2
<1>4. Buffer(s, n) \in [start : PageSize .. 2 * PageSize + SendSize, len : 1 .. SendSize - 1]
  BY <1>3 DEF Buffer
<1>5. Buffer(s, n).len = n /\ Buffer(s, n).start \in Nat
  BY <1>3 DEF Buffer
<1> QED
  BY <1>1, <1>4, <1>5

\* The server's copy of Segmentation is the one its proofs are about.
LEMMA SameServer ==
    /\ Server!Sound <=> ServerP!Sound
    /\ Server!CallStep <=> ServerP!CallStep
    /\ Server!Init <=> ServerP!Init
    /\ \A b : Server!CallAgain(b) <=> ServerP!CallAgain(b)
    /\ UNCHANGED serverVars <=> UNCHANGED ServerP!vars
<1>1. Server!Sound <=> ServerP!Sound
  BY DEF Server!Sound, ServerP!Sound, Server!Offset, ServerP!Offset
<1>2. Server!CallStep <=> ServerP!CallStep
  BY DEF Server!CallStep, ServerP!CallStep, Server!Start, ServerP!Start,
         Server!SendPart, ServerP!SendPart, Server!SendLast, ServerP!SendLast,
         Server!XmitFails, ServerP!XmitFails, Server!Message, ServerP!Message,
         Server!LastRound, ServerP!LastRound, Server!PagesToSend, ServerP!PagesToSend,
         Server!Offset, ServerP!Offset, Server!CalcNrPages, ServerP!CalcNrPages
<1>3. Server!Init <=> ServerP!Init
  BY DEF Server!Init, ServerP!Init
<1>4. \A b : Server!CallAgain(b) <=> ServerP!CallAgain(b)
  BY DEF Server!CallAgain, ServerP!CallAgain
<1>5. UNCHANGED serverVars <=> UNCHANGED ServerP!vars
  BY DEF serverVars, ServerP!vars
<1> QED
  BY <1>1, <1>2, <1>3, <1>4, <1>5

-----------------------------------------------------------------------------
(* A step of write *)

\* What a write that goes well adds to the queue of the other side: the next bytes of
\* the buffer, or nothing.
LEMMA ClientPublishes ==
    ASSUME EchoInv, WriteStep("client"), Good'
    PROVE  /\ Good /\ at["client"] = "write" /\ pc # "done"
           /\ UNCHANGED <<base, loopVars, serverVars, buf>> /\ faults' \in Nat
           /\ GoesWell'
           /\ \/ Reached' = Reached /\ queue' = queue
              \/ \E m \in Mail :
                    /\ queue' = [queue EXCEPT !["server"] = Append(@, m)]
                    /\ m.round = size["client"] /\ m.from = Reached
                    /\ Reached' = Reached + m.size /\ Reached \in Nat
<1>1. /\ at["client"] = "write" /\ CallStep /\ UNCHANGED <<base, loopVars, serverVars>>
      /\ queue' = [queue EXCEPT !["server"] = @ \o NewMessages("client")]
      /\ sound' = (sound /\ Sound') /\ faults' = faults + (IF pc' = "failed" THEN 1 ELSE 0)
  BY TwoSides DEF WriteStep, SoundBuffer, WriteAt
<1>2. Good /\ Sound' /\ pc' # "failed" /\ faults' \in Nat
  <2>1. faults \in Nat /\ faults' = 0
    BY DEF EchoInv, Good
  <2>2. faults = 0 /\ pc' # "failed"
    BY <1>1, <2>1
  <2>3. sound /\ Sound'
    BY <1>1 DEF Good
  <2> QED
    BY <2>1, <2>2, <2>3 DEF Good
<1>3. EchoType /\ SegInv /\ buf = Buffer("client", size["client"])
  BY <1>2 DEF EchoInv, Calls, GoesWell
<1>4. size["client"] \in 1 .. SendSize - 1 /\ queue["server"] \in Seq(Mail) /\ DOMAIN queue = Sides
      /\ size["client"] \in Nat
  BY <1>3, TwoSides DEF EchoType
<1>5. buf.len > 0 /\ buf.start \in Nat
  <2>1. buf.len = size["client"] /\ buf.start \in Nat
    BY <1>3, <1>4, TwoSides, BufferType DEF EchoType
  <2> QED
    BY <1>4, <2>1
<1>6. /\ SegInv' /\ buf' = buf /\ pc' \in {"loop", "done"}
      /\ \/ sent' = << >> /\ sent = << >>
         \/ \E m \in [addr : Int, pages : Int, off : Int, size : Nat \ {0}] :
               /\ sent' = Append(sent, m) /\ m.addr = buf.start + Reached
               /\ Reached' = Reached + m.size
               /\ sent \in Seq([addr : Int, pages : Int, off : Int, size : Int])
               /\ Reached \in Nat
  BY <1>1, <1>2, <1>3, <1>5, PublishStep
<1>7. GoesWell' /\ pc # "done"
  <2>1. pc # "done"
    BY <1>1 DEF CallStep, Start, SendPart, SendLast, XmitFails
  <2> QED
    BY <1>2, <1>6, <2>1 DEF GoesWell
<1>8. CASE sent' = << >> /\ sent = << >>
  <2>1. NewMessages("client") = << >>
    BY <1>8 DEF NewMessages, Published
  <2>2. queue["server"] \o << >> = queue["server"]
    BY <1>4
  <2>3. queue' = queue
    BY <1>1, <1>3, <2>1, <2>2 DEF EchoType
  <2>4. Reached' = Reached
    BY <1>6, <1>8 DEF Reached
  <2> QED
    BY <1>1, <1>2, <1>6, <1>7, <2>3, <2>4
<1>9. ASSUME NEW m \in [addr : Int, pages : Int, off : Int, size : Nat \ {0}],
             sent' = Append(sent, m), m.addr = buf.start + Reached, Reached' = Reached + m.size,
             sent \in Seq([addr : Int, pages : Int, off : Int, size : Int]), Reached \in Nat
      PROVE  \E w \in Mail :
                /\ queue' = [queue EXCEPT !["server"] = Append(@, w)]
                /\ w.round = size["client"] /\ w.from = Reached
                /\ Reached' = Reached + w.size /\ Reached \in Nat
  <2> DEFINE w == [size |-> m.size, round |-> size["client"], from |-> Reached]
  <2>1. w \in Mail
    BY <1>4, <1>9 DEF Mail
  <2>2. Len(sent') - Len(sent) = 1 /\ sent'[Len(sent) + 1] = m
    BY <1>9
  <2>3. m.addr - Buffer("client", size["client"]).start = Reached
    BY <1>3, <1>5, <1>9
  <2>4. NewMessages("client") = [k \in 1 .. 1 |-> w]
    <3>1. NewMessages("client") =
            [k \in 1 .. 1 |-> [size |-> sent'[Len(sent) + k].size, round |-> size["client"],
                               from |-> sent'[Len(sent) + k].addr - Buffer("client", size["client"]).start]]
      BY <2>2 DEF NewMessages, Published
    <3>2. \A k \in 1 .. 1 : k = 1
      OBVIOUS
    <3> QED
      BY <2>2, <2>3, <3>1, <3>2
  <2> HIDE DEF w
  <2>5. queue["server"] \o [k \in 1 .. 1 |-> w] = Append(queue["server"], w)
    BY <1>4, <2>1
  <2>6. queue' = [queue EXCEPT !["server"] = Append(@, w)]
    BY <1>1, <2>4, <2>5
  <2>7. w.round = size["client"] /\ w.from = Reached /\ w.size = m.size
    BY DEF w
  <2> QED
    BY <1>9, <2>1, <2>6, <2>7
<1> QED
  BY <1>1, <1>2, <1>6, <1>7, <1>8, <1>9

LEMMA ServerPublishes ==
    ASSUME EchoInv, WriteStep("server"), Good'
    PROVE  /\ Good /\ at["server"] = "write" /\ rpc # "done"
           /\ UNCHANGED <<base, loopVars, vars, rbuf>> /\ faults' \in Nat
           /\ ServerP!GoesWell'
           /\ \/ ServerP!Reached' = ServerP!Reached /\ queue' = queue
              \/ \E m \in Mail :
                    /\ queue' = [queue EXCEPT !["client"] = Append(@, m)]
                    /\ m.round = size["server"] /\ m.from = ServerP!Reached
                    /\ ServerP!Reached' = ServerP!Reached + m.size /\ ServerP!Reached \in Nat
<1>0. Server!Sound' <=> ServerP!Sound'
  BY DEF Server!Sound, ServerP!Sound, Server!Offset, ServerP!Offset
<1>1. /\ at["server"] = "write" /\ ServerP!CallStep /\ UNCHANGED <<base, loopVars, vars>>
      /\ queue' = [queue EXCEPT !["client"] = @ \o NewMessages("server")]
      /\ sound' = (sound /\ ServerP!Sound') /\ faults' = faults + (IF rpc' = "failed" THEN 1 ELSE 0)
  BY <1>0, TwoSides, SameServer DEF WriteStep, SoundBuffer, WriteAt
<1>2. Good /\ ServerP!Sound' /\ rpc' # "failed" /\ faults' \in Nat
  <2>1. faults \in Nat /\ faults' = 0
    BY DEF EchoInv, Good
  <2>2. faults = 0 /\ rpc' # "failed"
    BY <1>1, <2>1
  <2>3. sound /\ ServerP!Sound'
    BY <1>1 DEF Good
  <2> QED
    BY <2>1, <2>2, <2>3 DEF Good
<1>3. EchoType /\ ServerP!SegInv /\ rbuf = Buffer("server", size["server"])
  BY <1>2 DEF EchoInv, Calls, ServerP!GoesWell
<1>4. size["server"] \in 1 .. SendSize - 1 /\ queue["client"] \in Seq(Mail) /\ DOMAIN queue = Sides
      /\ size["server"] \in Nat
  BY <1>3, TwoSides DEF EchoType
<1>5. rbuf.len > 0 /\ rbuf.start \in Nat
  <2>1. rbuf.len = size["server"] /\ rbuf.start \in Nat
    BY <1>3, <1>4, TwoSides, BufferType DEF EchoType
  <2> QED
    BY <1>4, <2>1
<1>6. /\ ServerP!SegInv' /\ rbuf' = rbuf /\ rpc' \in {"loop", "done"}
      /\ \/ rsent' = << >> /\ rsent = << >>
         \/ \E m \in [addr : Int, pages : Int, off : Int, size : Nat \ {0}] :
               /\ rsent' = Append(rsent, m) /\ m.addr = rbuf.start + ServerP!Reached
               /\ ServerP!Reached' = ServerP!Reached + m.size
               /\ rsent \in Seq([addr : Int, pages : Int, off : Int, size : Int])
               /\ ServerP!Reached \in Nat
  BY <1>1, <1>2, <1>3, <1>5, ServerP!PublishStep,
     SizesAssumption, BuffersAssumption, FailAssumption
<1>7. ServerP!GoesWell' /\ rpc # "done"
  <2>1. rpc # "done"
    BY <1>1 DEF ServerP!CallStep, ServerP!Start, ServerP!SendPart, ServerP!SendLast, ServerP!XmitFails
  <2> QED
    BY <1>2, <1>6, <2>1 DEF ServerP!GoesWell
<1>8. CASE rsent' = << >> /\ rsent = << >>
  <2>1. NewMessages("server") = << >>
    BY <1>8 DEF NewMessages, Published
  <2>2. queue["client"] \o << >> = queue["client"]
    BY <1>4
  <2>3. queue' = queue
    BY <1>1, <1>3, <2>1, <2>2 DEF EchoType
  <2>4. ServerP!Reached' = ServerP!Reached
    BY <1>6, <1>8 DEF ServerP!Reached
  <2> QED
    BY <1>1, <1>2, <1>6, <1>7, <2>3, <2>4
<1>9. ASSUME NEW m \in [addr : Int, pages : Int, off : Int, size : Nat \ {0}],
             rsent' = Append(rsent, m), m.addr = rbuf.start + ServerP!Reached, ServerP!Reached' = ServerP!Reached + m.size,
             rsent \in Seq([addr : Int, pages : Int, off : Int, size : Int]), ServerP!Reached \in Nat
      PROVE  \E w \in Mail :
                /\ queue' = [queue EXCEPT !["client"] = Append(@, w)]
                /\ w.round = size["server"] /\ w.from = ServerP!Reached
                /\ ServerP!Reached' = ServerP!Reached + w.size /\ ServerP!Reached \in Nat
  <2> DEFINE w == [size |-> m.size, round |-> size["server"], from |-> ServerP!Reached]
  <2>1. w \in Mail
    BY <1>4, <1>9 DEF Mail
  <2>2. Len(rsent') - Len(rsent) = 1 /\ rsent'[Len(rsent) + 1] = m
    BY <1>9
  <2>3. m.addr - Buffer("server", size["server"]).start = ServerP!Reached
    BY <1>3, <1>5, <1>9
  <2>4. NewMessages("server") = [k \in 1 .. 1 |-> w]
    <3>1. NewMessages("server") =
            [k \in 1 .. 1 |-> [size |-> rsent'[Len(rsent) + k].size, round |-> size["server"],
                               from |-> rsent'[Len(rsent) + k].addr - Buffer("server", size["server"]).start]]
      BY <2>2 DEF NewMessages, Published
    <3>2. \A k \in 1 .. 1 : k = 1
      OBVIOUS
    <3> QED
      BY <2>2, <2>3, <3>1, <3>2
  <2> HIDE DEF w
  <2>5. queue["client"] \o [k \in 1 .. 1 |-> w] = Append(queue["client"], w)
    BY <1>4, <2>1
  <2>6. queue' = [queue EXCEPT !["client"] = Append(@, w)]
    BY <1>1, <2>4, <2>5
  <2>7. w.round = size["server"] /\ w.from = ServerP!Reached /\ w.size = m.size
    BY DEF w
  <2> QED
    BY <1>9, <2>1, <2>6, <2>7
<1> QED
  BY <1>1, <1>2, <1>6, <1>7, <1>8, <1>9

\* How far the calls are, in terms of the round.
LEMMA ClientReached ==
    ASSUME EchoInv, Good
    PROVE  /\ Reached \in Nat /\ Reached <= size["client"]
           /\ Reached = size["client"] <=> pc = "done"
           /\ pc = "start" => Reached = 0
<1>1. EchoType /\ GoesWell /\ buf = Buffer("client", size["client"])
  BY DEF EchoInv, Calls
<1>2. size["client"] \in 1 .. SendSize - 1
  BY <1>1, TwoSides DEF EchoType
<1>3. buf.len = size["client"] /\ buf.len > 0
  <2>1. buf.len = size["client"]
    BY <1>1, <1>2, TwoSides, BufferType DEF EchoType
  <2> QED
    BY <1>2, <2>1, EchoAssumption
<1>4. SegInv /\ Sound /\ pc # "failed"
  BY <1>1 DEF GoesWell
<1> QED
  BY <1>1, <1>3, <1>4, ReachedAlways, WellBegins

LEMMA ServerReached ==
    ASSUME EchoInv, Good
    PROVE  /\ ServerP!Reached \in Nat /\ ServerP!Reached <= size["server"]
           /\ ServerP!Reached = size["server"] <=> rpc = "done"
           /\ rpc = "start" => ServerP!Reached = 0
<1>1. EchoType /\ ServerP!GoesWell /\ rbuf = Buffer("server", size["server"])
  BY DEF EchoInv, Calls
<1>2. size["server"] \in 1 .. SendSize - 1
  BY <1>1, TwoSides DEF EchoType
<1>3. rbuf.len = size["server"] /\ rbuf.len > 0
  <2>1. rbuf.len = size["server"]
    BY <1>1, <1>2, TwoSides, BufferType DEF EchoType
  <2> QED
    BY <1>2, <2>1, EchoAssumption
<1>4. ServerP!SegInv /\ ServerP!Sound /\ rpc # "failed"
  BY <1>1 DEF ServerP!GoesWell
<1> QED
  BY <1>1, <1>3, <1>4, ServerP!ReachedAlways, ServerP!WellBegins,
     SizesAssumption, BuffersAssumption, FailAssumption

\* A call that is not made does not move.
LEMMA CallStays ==
    /\ GoesWell /\ UNCHANGED vars => GoesWell' /\ Reached' = Reached /\ pc' = pc /\ buf' = buf
    /\ ServerP!GoesWell /\ UNCHANGED serverVars =>
          ServerP!GoesWell' /\ ServerP!Reached' = ServerP!Reached /\ rpc' = rpc /\ rbuf' = rbuf
<1>1. UNCHANGED vars => pc' = pc /\ buf' = buf
  BY DEF vars
<1>2. UNCHANGED serverVars => UNCHANGED ServerP!vars /\ rpc' = rpc /\ rbuf' = rbuf
  BY SameServer DEF serverVars
<1>3. ServerP!GoesWell /\ UNCHANGED ServerP!vars => ServerP!GoesWell' /\ ServerP!Reached' = ServerP!Reached
  BY ServerP!WellStutter, SizesAssumption, BuffersAssumption, FailAssumption
<1> QED
  BY <1>1, <1>2, <1>3, WellStutter

-----------------------------------------------------------------------------
(* The steps keep the invariant *)

LEMMA FaultsType ==
    ASSUME EchoInv, NEW s \in Sides, Step(s) \/ ReadFails(s)
    PROVE  faults' \in Nat
<1>1. faults \in Nat
  BY DEF EchoInv
<1>2. CASE WriteStep(s)
  <2>1. faults' = faults + 1 \/ faults' = faults + 0
    BY <1>2 DEF WriteStep
  <2> QED
    BY <1>1, <2>1
<1>3. CASE WriteOver(s) \/ Read(s) \/ NextRound(s)
  <2>1. faults' = faults
    BY <1>3 DEF WriteOver, Read, NextRound
  <2> QED
    BY <1>1, <2>1
<1>4. CASE ReadFails(s)
  BY <1>1, <1>4 DEF ReadFails
<1> QED
  BY <1>2, <1>3, <1>4 DEF Step

LEMMA ClientWriteStep == EchoInv /\ WriteStep("client") => EchoInv'
<1> SUFFICES ASSUME EchoInv, WriteStep("client"), Good' PROVE EchoInv'
  BY TwoSides, FaultsType DEF EchoInv, Step
<1>1. /\ Good /\ at["client"] = "write" /\ pc # "done" /\ GoesWell'
      /\ UNCHANGED <<base, loopVars, serverVars, buf>> /\ faults' \in Nat
  BY ClientPublishes
<1>2. EchoType /\ Calls /\ Loops /\ Turns
  BY <1>1 DEF EchoInv
<1>3. at' = at /\ size' = size /\ tot' = tot /\ base' = base /\ buf' = buf /\ rpc' = rpc /\ rbuf' = rbuf
  BY <1>1 DEF loopVars, serverVars
<1>4. Calls'
  BY <1>1, <1>2, <1>3, CallStays DEF Calls, Buffer
<1>5. Loops'
  BY <1>1, <1>2, <1>3 DEF Loops
<1>6. ServerReads \/ ClientAhead
  BY <1>1, <1>2 DEF Turns, ClientReads, RoundOver, ServerAhead
<1>7. CASE Reached' = Reached /\ queue' = queue
  <2>1. EchoType'
    BY <1>2, <1>3, <1>7 DEF EchoType
  <2>2. Turns'
    BY <1>3, <1>6, <1>7 DEF Turns, ServerReads, ClientAhead, ClientWaits
  <2> QED
    BY <1>1, <1>4, <1>5, <2>1, <2>2 DEF EchoInv
<1>8. ASSUME NEW m \in Mail, queue' = [queue EXCEPT !["server"] = Append(@, m)],
             m.round = size["client"], m.from = Reached,
             Reached' = Reached + m.size, Reached \in Nat
      PROVE  EchoInv'
  <2>1. /\ queue["client"] \in Seq(Mail) /\ queue["server"] \in Seq(Mail)
        /\ size["client"] \in Nat /\ tot["server"] \in Nat
        /\ queue'["client"] = queue["client"]
        /\ queue'["server"] = Append(queue["server"], m)
    BY <1>2, <1>8, TwoSides DEF EchoType
  <2>2. EchoType'
    BY <1>2, <1>3, <1>8, <2>1 DEF EchoType
  <2>3. ASSUME NEW lo \in Nat, Chain(queue["server"], size["client"], lo, Reached)
        PROVE  Chain(queue'["server"], size["client"], lo, Reached')
    BY <1>8, <2>1, <2>3, ChainAppend
  <2>4. Turns'
    <3>1. CASE ServerReads
      <4>1. Chain(queue'["server"], size["client"], tot["server"], Reached')
        BY <2>1, <2>3, <3>1 DEF ServerReads
      <4>2. ServerReads'
        BY <1>3, <2>1, <3>1, <4>1 DEF ServerReads, ClientWaits
      <4> QED
        BY <4>2 DEF Turns
    <3>2. CASE ClientAhead
      <4>1. Chain(queue'["server"], size["client"], 0, Reached')
        BY <2>3, <3>2 DEF ClientAhead
      <4>2. ClientAhead'
        BY <1>3, <2>1, <3>2, <4>1 DEF ClientAhead, ClientWaits
      <4> QED
        BY <4>2 DEF Turns
    <3> QED
      BY <1>6, <3>1, <3>2
  <2> QED
    BY <1>1, <1>4, <1>5, <2>2, <2>4 DEF EchoInv
<1> QED
  BY <1>7, <1>8, ClientPublishes

LEMMA ServerWriteStep == EchoInv /\ WriteStep("server") => EchoInv'
<1> SUFFICES ASSUME EchoInv, WriteStep("server"), Good' PROVE EchoInv'
  BY TwoSides, FaultsType DEF EchoInv, Step
<1>1. /\ Good /\ at["server"] = "write" /\ rpc # "done" /\ ServerP!GoesWell'
      /\ UNCHANGED <<base, loopVars, vars, rbuf>> /\ faults' \in Nat
  BY ServerPublishes
<1>2. EchoType /\ Calls /\ Loops /\ Turns
  BY <1>1 DEF EchoInv
<1>3. at' = at /\ size' = size /\ tot' = tot /\ base' = base /\ buf' = buf /\ pc' = pc /\ rbuf' = rbuf
  BY <1>1 DEF loopVars, vars
<1>4. Calls'
  BY <1>1, <1>2, <1>3, CallStays DEF Calls, Buffer
<1>5. Loops'
  BY <1>1, <1>2, <1>3 DEF Loops
<1>6. ClientReads
  BY <1>1, <1>2 DEF Turns, ServerReads, RoundOver, ServerAhead, ClientAhead
<1>7. CASE ServerP!Reached' = ServerP!Reached /\ queue' = queue
  <2>1. EchoType'
    BY <1>2, <1>3, <1>7 DEF EchoType
  <2>2. Turns'
    BY <1>3, <1>6, <1>7 DEF Turns, ClientReads, Taken
  <2> QED
    BY <1>1, <1>4, <1>5, <2>1, <2>2 DEF EchoInv
<1>8. ASSUME NEW m \in Mail, queue' = [queue EXCEPT !["client"] = Append(@, m)],
             m.round = size["server"], m.from = ServerP!Reached,
             ServerP!Reached' = ServerP!Reached + m.size, ServerP!Reached \in Nat
      PROVE  EchoInv'
  <2>1. /\ queue["client"] \in Seq(Mail) /\ queue["server"] \in Seq(Mail)
        /\ size["client"] \in Nat /\ tot["client"] \in Nat
        /\ queue'["server"] = queue["server"]
        /\ queue'["client"] = Append(queue["client"], m)
    BY <1>2, <1>8, TwoSides DEF EchoType
  <2>2. EchoType'
    BY <1>2, <1>3, <1>8, <2>1 DEF EchoType
  <2>3. Taken("client") \in Nat /\ Taken("client")' = Taken("client")
        /\ m.round = size["client"]
    BY <1>3, <1>6, <1>8, <2>1 DEF Taken, ClientReads
  <2>4. Chain(queue'["client"], size["client"], Taken("client"), ServerP!Reached')
    <3>1. Chain(queue["client"], size["client"], Taken("client"), ServerP!Reached)
      BY <1>6 DEF ClientReads
    <3> QED
      BY <1>8, <2>1, <2>3, <3>1, ChainAppend
  <2>5. ClientReads'
    BY <1>3, <1>6, <2>1, <2>3, <2>4 DEF ClientReads
  <2> QED
    BY <1>1, <1>4, <1>5, <2>2, <2>5 DEF EchoInv, Turns
<1> QED
  BY <1>7, <1>8, ServerPublishes

LEMMA ClientWriteOver == EchoInv /\ WriteOver("client") => EchoInv'
<1> SUFFICES ASSUME EchoInv, WriteOver("client"), Good' PROVE EchoInv'
  BY TwoSides, FaultsType DEF EchoInv, Step
<1>1. /\ at["client"] = "write" /\ pc \in {"done", "failed"}
      /\ at' = [at EXCEPT !["client"] = "read"] /\ tot' = [tot EXCEPT !["client"] = 0]
      /\ base' = base /\ size' = size /\ queue' = queue /\ faults' = faults /\ sound' = sound
      /\ UNCHANGED vars /\ UNCHANGED serverVars
  BY DEF WriteOver, WriteAt
<1>2. Good /\ EchoType /\ Calls /\ Loops /\ Turns /\ faults' \in Nat
  BY <1>1 DEF EchoInv, Good
<1>3. /\ at'["client"] = "read" /\ at'["server"] = at["server"]
      /\ tot'["client"] = 0 /\ tot'["server"] = tot["server"]
      /\ size["client"] \in Nat \ {0}
  BY <1>1, <1>2, TwoSides DEF EchoType
<1>4. /\ GoesWell' /\ Reached' = Reached /\ pc' = pc /\ buf' = buf
      /\ ServerP!GoesWell' /\ ServerP!Reached' = ServerP!Reached /\ rpc' = rpc /\ rbuf' = rbuf
  BY <1>1, <1>2, CallStays DEF Calls
<1>5. pc = "done"
  BY <1>1, <1>2 DEF Calls, GoesWell
<1>6. EchoType'
  BY <1>1, <1>2 DEF EchoType
<1>7. Calls'
  BY <1>1, <1>2, <1>4 DEF Calls, Buffer
<1>8. Loops'
  <2>1. \A s \in Sides :
            /\ at'[s] = "read" => tot'[s] < size'[s]
            /\ at'[s] = "next" => tot'[s] = size'[s]
            /\ at'[s] = "over" => 2 * size'[s] >= SendSize
    BY <1>1, <1>2, <1>3, TwoSides DEF Loops
  <2> QED
    BY <1>1, <1>2, <1>3, <1>4, <1>5, <2>1 DEF Loops
<1>9. Turns'
  <2>1. Taken("client") = 0 /\ Taken("client")' = 0
    BY <1>1, <1>3 DEF Taken
  <2> QED
    BY <1>1, <1>2, <1>3, <1>4, <2>1
    DEF Turns, ServerReads, ClientReads, RoundOver, ClientAhead, ServerAhead, ClientWaits
<1> QED
  BY <1>2, <1>6, <1>7, <1>8, <1>9 DEF EchoInv

LEMMA ServerWriteOver == EchoInv /\ WriteOver("server") => EchoInv'
<1> SUFFICES ASSUME EchoInv, WriteOver("server"), Good' PROVE EchoInv'
  BY TwoSides, FaultsType DEF EchoInv, Step
<1>1. /\ at["server"] = "write" /\ rpc \in {"done", "failed"}
      /\ at' = [at EXCEPT !["server"] = "next"] /\ tot' = [tot EXCEPT !["server"] = @]
      /\ base' = base /\ size' = size /\ queue' = queue /\ faults' = faults /\ sound' = sound
      /\ UNCHANGED vars /\ UNCHANGED serverVars
  BY TwoSides DEF WriteOver, WriteAt
<1>2. Good /\ EchoType /\ Calls /\ Loops /\ Turns /\ faults' \in Nat
  BY <1>1 DEF EchoInv, Good
<1>3. /\ at'["server"] = "next" /\ at'["client"] = at["client"] /\ tot' = tot
  BY <1>1, <1>2, TwoSides DEF EchoType
<1>4. /\ GoesWell' /\ Reached' = Reached /\ pc' = pc /\ buf' = buf
      /\ ServerP!GoesWell' /\ ServerP!Reached' = ServerP!Reached /\ rpc' = rpc /\ rbuf' = rbuf
  BY <1>1, <1>2, CallStays DEF Calls
<1>5. rpc = "done" /\ tot["server"] = size["server"]
  BY <1>1, <1>2 DEF Calls, ServerP!GoesWell, Loops
<1>6. EchoType'
  BY <1>1, <1>2, <1>3 DEF EchoType
<1>7. Calls'
  BY <1>1, <1>2, <1>4 DEF Calls, Buffer
<1>8. Loops'
  <2>1. \A s \in Sides :
            /\ at'[s] = "read" => tot'[s] < size'[s]
            /\ at'[s] = "next" => tot'[s] = size'[s]
            /\ at'[s] = "over" => 2 * size'[s] >= SendSize
    BY <1>1, <1>2, <1>3, <1>5, TwoSides DEF Loops
  <2> QED
    BY <1>1, <1>2, <1>3, <1>4, <1>5, <2>1 DEF Loops
<1>9. Turns'
  <2>1. Taken("client")' = Taken("client")
    BY <1>3 DEF Taken
  <2> QED
    BY <1>1, <1>2, <1>3, <1>4, <1>5, <2>1
    DEF Turns, ServerReads, ClientReads, RoundOver, ClientAhead, ServerAhead, ClientWaits
<1> QED
  BY <1>2, <1>6, <1>7, <1>8, <1>9 DEF EchoInv

\* A read takes the next bytes of the round; the loop ends with the last of them.
LEMMA ReadTakes ==
    ASSUME EchoType, NEW s \in Sides, Read(s), NEW n \in Nat, NEW hi \in Nat, hi <= size[s],
           Chain(queue[s], n, tot[s], hi)
    PROVE  \E t \in Nat :
              /\ tot' = [tot EXCEPT ![s] = t] /\ Chain(Tail(queue[s]), n, t, hi)
              /\ \/ t < size[s] /\ at' = at
                 \/ /\ t = size[s] /\ hi = t /\ Tail(queue[s]) = << >>
                    /\ at' = [at EXCEPT ![s] = IF s = "client" THEN "next" ELSE "write"]
<1> DEFINE r == Head(queue[s]).size
<1>1. /\ queue[s] # << >> /\ tot[s] \in Nat /\ size[s] \in 1 .. SendSize - 1
      /\ DOMAIN tot = Sides /\ SendSize \in Nat /\ Word \in Nat \ {0} /\ SendSize < Word
      /\ Got(s, IF r < size[s] THEN r ELSE size[s])
  BY SizesAssumption, EchoAssumption DEF EchoType, Read
<1>2. /\ r \in Nat \ {0} /\ tot[s] + r <= hi /\ Chain(Tail(queue[s]), n, tot[s] + r, hi)
      /\ tot[s] + r = hi => Tail(queue[s]) = << >>
  BY <1>1, ChainTail
<1> HIDE DEF r
<1>3. PICK t \in Nat : t = tot[s] + r
  BY <1>1, <1>2
<1>4. t <= hi /\ t <= size[s] /\ (IF r < size[s] THEN r ELSE size[s]) = r
  BY <1>1, <1>2, <1>3
<1>5. (tot[s] + r) % Word = t
  <2>1. t \in 0 .. Word - 1
    BY <1>1, <1>3, <1>4
  <2> QED
    BY <1>1, <1>3, <2>1, SmallMod
<1>6. LoopEnds(s, r) <=> t >= size[s]
  BY <1>2, <1>5 DEF LoopEnds
<1>7. /\ tot' = [tot EXCEPT ![s] = t]
      /\ at' = IF t >= size[s]
               THEN [at EXCEPT ![s] = IF s = "client" THEN "next" ELSE "write"] ELSE at
  BY <1>1, <1>4, <1>5, <1>6 DEF Got
<1>8. CASE t < size[s]
  <2>1. ~(t >= size[s])
    BY <1>1, <1>8
  <2> QED
    BY <1>2, <1>3, <1>7, <1>8, <2>1
<1>9. CASE t = size[s]
  <2>1. t >= size[s] /\ t = hi
    BY <1>1, <1>4, <1>9
  <2> QED
    BY <1>2, <1>3, <1>7, <1>9, <2>1
<1> QED
  BY <1>1, <1>4, <1>8, <1>9

LEMMA ClientRead == EchoInv /\ Read("client") => EchoInv'
<1> SUFFICES ASSUME EchoInv, Read("client"), Good' PROVE EchoInv'
  BY TwoSides, FaultsType DEF EchoInv, Step
<1>1. /\ at["client"] = "read" /\ queue["client"] # << >>
      /\ queue' = [queue EXCEPT !["client"] = Tail(@)]
      /\ base' = base /\ size' = size /\ faults' = faults /\ sound' = sound
      /\ UNCHANGED vars /\ UNCHANGED serverVars
  BY DEF Read
<1>2. Good /\ EchoType /\ Calls /\ Loops /\ Turns /\ faults' \in Nat
  BY <1>1 DEF EchoInv, Good
<1>3. /\ queue["client"] \in Seq(Mail) /\ size["client"] \in Nat /\ tot["client"] \in Nat
      /\ queue'["client"] = Tail(queue["client"]) /\ queue'["server"] = queue["server"]
  BY <1>1, <1>2, TwoSides DEF EchoType
<1>4. /\ GoesWell' /\ Reached' = Reached /\ pc' = pc /\ buf' = buf
      /\ ServerP!GoesWell' /\ ServerP!Reached' = ServerP!Reached /\ rpc' = rpc /\ rbuf' = rbuf
  BY <1>1, <1>2, CallStays DEF Calls
<1>5. ClientReads \/ ServerAhead
  BY <1>1, <1>2 DEF Turns, ServerReads, RoundOver, ClientAhead, ClientWaits
<1>6. PICK hi \in Nat :
          /\ hi <= size["client"] /\ Chain(queue["client"], size["client"], tot["client"], hi)
          /\ hi = IF ClientReads THEN ServerP!Reached ELSE size["client"]
  <2>1. CASE ClientReads
    <3>1. /\ ServerP!Reached \in Nat /\ ServerP!Reached <= size["server"]
          /\ size["server"] = size["client"]
      BY <1>2, <2>1, ServerReached DEF ClientReads
    <3>2. Chain(queue["client"], size["client"], tot["client"], ServerP!Reached)
      BY <1>1, <2>1 DEF ClientReads, Taken
    <3> QED
      BY <2>1, <3>1, <3>2
  <2>2. CASE ~ClientReads
    <3>1. Chain(queue["client"], size["client"], tot["client"], size["client"])
      BY <1>1, <1>5, <2>2 DEF ServerAhead, Taken
    <3> QED
      BY <1>3, <2>2, <3>1
  <2> QED
    BY <2>1, <2>2
<1>7. PICK t \in Nat :
          /\ tot' = [tot EXCEPT !["client"] = t]
          /\ Chain(Tail(queue["client"]), size["client"], t, hi)
          /\ \/ t < size["client"] /\ at' = at
             \/ /\ t = size["client"] /\ hi = t /\ Tail(queue["client"]) = << >>
                /\ at' = [at EXCEPT !["client"] = "next"]
  BY <1>2, <1>3, <1>6, TwoSides, ReadTakes
<1>8. /\ tot'["client"] = t /\ tot'["server"] = tot["server"]
      /\ at'["server"] = at["server"]
      /\ at'["client"] = IF t < size["client"] THEN "read" ELSE "next"
  BY <1>1, <1>2, <1>3, <1>7, TwoSides DEF EchoType
<1>9. EchoType'
  <2>1. at' \in [Sides -> {"write", "read", "next", "over"}]
    BY <1>2, <1>7 DEF EchoType
  <2>2. Tail(queue["client"]) \in Seq(Mail)
    BY <1>1, <1>3
  <2> QED
    BY <1>1, <1>2, <1>3, <1>7, <2>1, <2>2 DEF EchoType
<1>10. Calls'
  BY <1>1, <1>2, <1>4 DEF Calls, Buffer
<1>11. Loops'
  <2>1. \A s \in Sides :
            /\ at'[s] = "read" => tot'[s] < size'[s]
            /\ at'[s] = "next" => tot'[s] = size'[s]
            /\ at'[s] = "over" => 2 * size'[s] >= SendSize
    BY <1>1, <1>2, <1>7, <1>8, TwoSides DEF Loops
  <2>2. pc = "done"
    BY <1>1, <1>2 DEF Loops
  <2> QED
    BY <1>1, <1>2, <1>4, <1>8, <2>1, <2>2 DEF Loops
<1>12. Turns'
  <2>1. CASE t < size["client"]
    <3>1. at' = at /\ Taken("client")' = t /\ at'["client"] = "read"
      BY <1>3, <1>7, <1>8, <2>1 DEF Taken
    <3>2. Chain(queue'["client"], size'["client"], Taken("client")', hi)
      BY <1>1, <1>3, <1>7, <3>1
    <3>3. CASE ClientReads
      <4>1. ClientReads'
        BY <1>1, <1>3, <1>4, <1>6, <3>1, <3>2, <3>3 DEF ClientReads
      <4> QED
        BY <4>1 DEF Turns
    <3>4. CASE ServerAhead /\ ~ClientReads
      <4>1. ServerAhead'
        BY <1>1, <1>3, <1>4, <1>6, <1>8, <3>1, <3>2, <3>4 DEF ServerAhead
      <4> QED
        BY <4>1 DEF Turns
    <3> QED
      BY <1>5, <3>3, <3>4
  <2>2. CASE ~(t < size["client"])
    <3>1. /\ hi = size["client"] /\ queue'["client"] = << >> /\ at'["client"] = "next"
      BY <1>3, <1>7, <1>8, <2>2
    <3>2. CASE ClientReads
      <4>1. rpc = "done"
        BY <1>2, <1>6, <3>1, <3>2, ServerReached DEF ClientReads
      <4>2. RoundOver'
        BY <1>1, <1>3, <1>4, <1>8, <3>1, <3>2, <4>1 DEF ClientReads, RoundOver
      <4> QED
        BY <4>2 DEF Turns
    <3>3. CASE ServerAhead
      <4>1. ServerAhead'
        BY <1>1, <1>3, <1>4, <1>8, <3>1, <3>3 DEF ServerAhead
      <4> QED
        BY <4>1 DEF Turns
    <3> QED
      BY <1>5, <3>2, <3>3
  <2> QED
    BY <2>1, <2>2
<1> QED
  BY <1>2, <1>9, <1>10, <1>11, <1>12 DEF EchoInv

LEMMA ServerRead == EchoInv /\ Read("server") => EchoInv'
<1> SUFFICES ASSUME EchoInv, Read("server"), Good' PROVE EchoInv'
  BY TwoSides, FaultsType DEF EchoInv, Step
<1>1. /\ at["server"] = "read" /\ queue["server"] # << >>
      /\ queue' = [queue EXCEPT !["server"] = Tail(@)]
      /\ base' = base /\ size' = size /\ faults' = faults /\ sound' = sound
      /\ UNCHANGED vars /\ UNCHANGED serverVars
  BY DEF Read
<1>2. Good /\ EchoType /\ Calls /\ Loops /\ Turns /\ faults' \in Nat
  BY <1>1 DEF EchoInv, Good
<1>3. /\ queue["server"] \in Seq(Mail) /\ size["client"] \in Nat /\ tot["server"] \in Nat
      /\ size["server"] \in Nat
      /\ queue'["server"] = Tail(queue["server"]) /\ queue'["client"] = queue["client"]
  BY <1>1, <1>2, TwoSides DEF EchoType
<1>4. /\ GoesWell' /\ Reached' = Reached /\ pc' = pc /\ buf' = buf
      /\ ServerP!GoesWell' /\ ServerP!Reached' = ServerP!Reached /\ rpc' = rpc /\ rbuf' = rbuf
  BY <1>1, <1>2, CallStays DEF Calls
<1>5. ServerReads
  BY <1>1, <1>2 DEF Turns, ClientReads, RoundOver, ClientAhead, ServerAhead
<1>6. /\ Reached \in Nat /\ Reached <= size["server"] /\ (Reached = size["server"] <=> pc = "done")
      /\ Chain(queue["server"], size["client"], tot["server"], Reached)
      /\ size["client"] = size["server"]
  BY <1>2, <1>5, ClientReached DEF ServerReads
<1>7. PICK t \in Nat :
          /\ tot' = [tot EXCEPT !["server"] = t]
          /\ Chain(Tail(queue["server"]), size["client"], t, Reached)
          /\ \/ t < size["server"] /\ at' = at
             \/ /\ t = size["server"] /\ Reached = t /\ Tail(queue["server"]) = << >>
                /\ at' = [at EXCEPT !["server"] = "write"]
  <2>1. PICK hi \in Nat : hi = Reached
    BY <1>6
  <2>2. /\ EchoType /\ "server" \in Sides /\ Read("server") /\ size["client"] \in Nat
        /\ hi <= size["server"] /\ Chain(queue["server"], size["client"], tot["server"], hi)
    BY <1>2, <1>3, <1>6, <2>1, TwoSides
  <2>3. \E t \in Nat :
            /\ tot' = [tot EXCEPT !["server"] = t]
            /\ Chain(Tail(queue["server"]), size["client"], t, hi)
            /\ \/ t < size["server"] /\ at' = at
               \/ /\ t = size["server"] /\ hi = t /\ Tail(queue["server"]) = << >>
                  /\ at' = [at EXCEPT !["server"] = IF "server" = "client" THEN "next" ELSE "write"]
    BY <2>2, ReadTakes
  <2> QED
    BY <2>1, <2>3, TwoSides
<1>8. /\ tot'["server"] = t /\ tot'["client"] = tot["client"]
      /\ at'["client"] = at["client"]
      /\ at'["server"] = IF t < size["server"] THEN "read" ELSE "write"
  BY <1>1, <1>2, <1>3, <1>7, TwoSides DEF EchoType
<1>9. EchoType'
  <2>1. at' \in [Sides -> {"write", "read", "next", "over"}]
    BY <1>2, <1>7 DEF EchoType
  <2>2. Tail(queue["server"]) \in Seq(Mail)
    BY <1>1, <1>3
  <2> QED
    BY <1>1, <1>2, <1>3, <1>7, <2>1, <2>2 DEF EchoType
<1>10. Calls'
  BY <1>1, <1>2, <1>4 DEF Calls, Buffer
<1>11. rpc = "start" /\ ServerP!Reached = 0
  BY <1>1, <1>2, ServerReached DEF Loops
<1>12. Loops'
  <2>1. \A s \in Sides :
            /\ at'[s] = "read" => tot'[s] < size'[s]
            /\ at'[s] = "next" => tot'[s] = size'[s]
            /\ at'[s] = "over" => 2 * size'[s] >= SendSize
    BY <1>1, <1>2, <1>7, <1>8, TwoSides DEF Loops
  <2> QED
    BY <1>1, <1>2, <1>4, <1>7, <1>8, <1>11, <2>1 DEF Loops
<1>13. Turns'
  <2>1. CASE t < size["server"]
    <3>1. ServerReads'
      BY <1>1, <1>3, <1>4, <1>5, <1>7, <1>8, <2>1 DEF ServerReads, ClientWaits
    <3> QED
      BY <3>1 DEF Turns
  <2>2. CASE ~(t < size["server"])
    <3>1. /\ Reached = size["server"] /\ queue'["server"] = << >> /\ at'["server"] = "write"
      BY <1>3, <1>7, <1>8, <2>2
    <3>2. pc = "done"
      BY <1>6, <3>1
    <3>3. queue'["client"] = << >> /\ Taken("client")' = 0 /\ at["client"] \in {"write", "read"}
      BY <1>3, <1>5, <1>8 DEF ServerReads, ClientWaits, Taken
    <3>4. Chain(queue'["client"], size["client"], Taken("client")', ServerP!Reached')
      BY <1>4, <1>11, <3>3, ChainEmpty
    <3>5. ClientReads'
      BY <1>1, <1>4, <1>6, <1>8, <3>1, <3>2, <3>3, <3>4 DEF ClientReads
    <3> QED
      BY <3>5 DEF Turns
  <2> QED
    BY <2>1, <2>2
<1> QED
  BY <1>2, <1>9, <1>10, <1>12, <1>13 DEF EchoInv

LEMMA ClientNextRound == EchoInv /\ NextRound("client") => EchoInv'
<1> SUFFICES ASSUME EchoInv, NextRound("client"), Good' PROVE EchoInv'
  BY TwoSides, FaultsType DEF EchoInv, Step
<1>1. /\ at["client"] = "next" /\ UNCHANGED serverVars
      /\ base' = base /\ queue' = queue /\ faults' = faults /\ sound' = sound
  BY TwoSides DEF NextRound
<1>2. Good /\ EchoType /\ Calls /\ Loops /\ Turns /\ faults' \in Nat
  BY <1>1 DEF EchoInv, Good
<1>3. /\ size["client"] \in Nat \ {0} /\ size["server"] \in 1 .. SendSize - 1 /\ SendSize \in Nat
      /\ tot["client"] = size["client"] /\ pc = "done"
  BY <1>1, <1>2, TwoSides, EchoAssumption DEF EchoType, Loops
<1>4. /\ ServerP!GoesWell' /\ ServerP!Reached' = ServerP!Reached /\ rpc' = rpc /\ rbuf' = rbuf
  BY <1>1, <1>2, CallStays DEF Calls
<1>5. RoundOver \/ (ServerAhead /\ queue["client"] = << >>)
  BY <1>1, <1>2 DEF Turns, ServerReads, ClientReads, ClientAhead, ClientWaits, ServerAhead
<1>6. CASE size["client"] * 2 < SendSize
  <2>1. /\ size' = [size EXCEPT !["client"] = @ * 2] /\ at' = [at EXCEPT !["client"] = "write"]
        /\ tot' = [tot EXCEPT !["client"] = @] /\ CallAgain(Buffer("client", size["client"] * 2))
    BY <1>6, TwoSides DEF NextRound
  <2>2. PICK n \in 1 .. SendSize - 1 : n = size["client"] * 2
    BY <1>3, <1>6
  <2>3. /\ size'["client"] = n /\ size'["server"] = size["server"] /\ tot' = tot
        /\ at'["client"] = "write" /\ at'["server"] = at["server"]
        /\ n = 2 * size["client"] /\ size["client"] \in Nat
    BY <1>2, <1>3, <2>1, <2>2, TwoSides DEF EchoType
  <2>4. Buffer("client", n) \in Buffers
    BY <1>2, TwoSides, BufferType DEF EchoType
  <2>5. GoesWell' /\ pc' = "start" /\ buf' = Buffer("client", n) /\ Reached' = 0
    BY <1>2, <2>1, <2>2, <2>4, WellAgain DEF Calls
  <2>6. EchoType'
    BY <1>1, <1>2, <2>1, <2>2, <2>3 DEF EchoType
  <2>7. Calls'
    BY <1>1, <1>2, <1>4, <2>3, <2>5 DEF Calls, Buffer
  <2>8. Loops'
    <3>1. \A s \in Sides :
              /\ at'[s] = "read" => tot'[s] < size'[s]
              /\ at'[s] = "next" => tot'[s] = size'[s]
              /\ at'[s] = "over" => 2 * size'[s] >= SendSize
      BY <1>2, <2>3, TwoSides DEF Loops
    <3> QED
      BY <1>2, <1>4, <2>3, <3>1 DEF Loops
  <2>9. CASE RoundOver
    <3>1. at["server"] \in {"write", "next"}
      BY <1>2, <1>3, <1>6, <2>9, TwoSides DEF RoundOver, Loops, EchoType
    <3>2. Chain(queue'["server"], size'["client"], 0, Reached')
      BY <1>1, <2>5, <2>9, ChainEmpty DEF RoundOver
    <3>3. ClientAhead'
      BY <1>1, <1>4, <2>3, <2>9, <3>1, <3>2 DEF ClientAhead, ClientWaits, RoundOver
    <3> QED
      BY <1>2, <2>6, <2>7, <2>8, <3>3 DEF EchoInv, Turns
  <2>10. CASE ServerAhead /\ queue["client"] = << >>
    <3>1. Chain(queue'["server"], size'["client"], tot'["server"], Reached')
      BY <1>1, <2>3, <2>5, <2>10, ChainEmpty DEF ServerAhead
    <3>2. ServerReads'
      BY <1>1, <1>4, <2>3, <2>10, <3>1 DEF ServerReads, ClientWaits, ServerAhead
    <3> QED
      BY <1>2, <2>6, <2>7, <2>8, <3>2 DEF EchoInv, Turns
  <2> QED
    BY <1>5, <2>9, <2>10
<1>7. CASE ~(size["client"] * 2 < SendSize)
  <2>1. /\ at' = [at EXCEPT !["client"] = "over"] /\ size' = size /\ tot' = tot /\ UNCHANGED vars
    BY <1>7 DEF NextRound
  <2>2. at'["client"] = "over" /\ at'["server"] = at["server"] /\ 2 * size["client"] >= SendSize
    BY <1>2, <1>3, <1>7, <2>1, TwoSides DEF EchoType
  <2>3. GoesWell' /\ Reached' = Reached /\ pc' = pc /\ buf' = buf
    BY <1>2, <2>1, CallStays DEF Calls
  <2>4. EchoType'
    BY <1>1, <1>2, <2>1 DEF EchoType
  <2>5. Calls'
    BY <1>1, <1>2, <1>4, <2>1, <2>3 DEF Calls, Buffer
  <2>6. Loops'
    <3>1. \A s \in Sides :
              /\ at'[s] = "read" => tot'[s] < size'[s]
              /\ at'[s] = "next" => tot'[s] = size'[s]
              /\ at'[s] = "over" => 2 * size'[s] >= SendSize
      BY <1>2, <2>1, <2>2, TwoSides DEF Loops
    <3> QED
      BY <1>2, <1>3, <1>4, <2>1, <2>2, <2>3, <3>1 DEF Loops
  <2>7. RoundOver
    BY <1>3, <1>5, <2>2 DEF ServerAhead
  <2>8. RoundOver'
    BY <1>1, <1>4, <2>1, <2>2, <2>7 DEF RoundOver
  <2> QED
    BY <1>2, <2>4, <2>5, <2>6, <2>8 DEF EchoInv, Turns
<1> QED
  BY <1>6, <1>7

LEMMA ServerNextRound == EchoInv /\ NextRound("server") => EchoInv'
<1> SUFFICES ASSUME EchoInv, NextRound("server"), Good' PROVE EchoInv'
  BY TwoSides, FaultsType DEF EchoInv, Step
<1>1. /\ at["server"] = "next" /\ UNCHANGED vars
      /\ base' = base /\ queue' = queue /\ faults' = faults /\ sound' = sound
  BY TwoSides DEF NextRound
<1>2. Good /\ EchoType /\ Calls /\ Loops /\ Turns /\ faults' \in Nat
  BY <1>1 DEF EchoInv, Good
<1>3. /\ size["server"] \in Nat \ {0} /\ size["client"] \in 1 .. SendSize - 1 /\ SendSize \in Nat
      /\ tot["server"] = size["server"] /\ rpc = "done"
  BY <1>1, <1>2, TwoSides, EchoAssumption DEF EchoType, Loops
<1>4. /\ GoesWell' /\ Reached' = Reached /\ pc' = pc /\ buf' = buf
  BY <1>1, <1>2, CallStays DEF Calls
<1>5. ClientReads \/ RoundOver \/ ClientAhead
  BY <1>1, <1>2 DEF Turns, ServerReads, ServerAhead
<1>6. CASE size["server"] * 2 < SendSize
  <2>1. /\ size' = [size EXCEPT !["server"] = @ * 2] /\ at' = [at EXCEPT !["server"] = "read"]
        /\ tot' = [tot EXCEPT !["server"] = 0]
        /\ ServerP!CallAgain(Buffer("server", size["server"] * 2))
    BY <1>6, TwoSides, SameServer DEF NextRound
  <2>2. PICK n \in 1 .. SendSize - 1 : n = size["server"] * 2
    BY <1>3, <1>6
  <2>3. /\ size'["server"] = n /\ size'["client"] = size["client"]
        /\ tot'["server"] = 0 /\ tot'["client"] = tot["client"]
        /\ at'["server"] = "read" /\ at'["client"] = at["client"]
        /\ n = 2 * size["server"] /\ size["server"] \in Nat /\ n \in Nat /\ n > 0
    BY <1>2, <1>3, <2>1, <2>2, TwoSides DEF EchoType
  <2>4. Buffer("server", n) \in Buffers
    BY <1>2, TwoSides, BufferType DEF EchoType
  <2>5. /\ ServerP!GoesWell' /\ rpc' = "start" /\ rbuf' = Buffer("server", n)
        /\ ServerP!Reached' = 0
    <3>1. ServerP!GoesWell /\ ServerP!CallAgain(Buffer("server", n))
      BY <1>2, <2>1, <2>2 DEF Calls
    <3> QED
      BY <2>4, <3>1, ServerP!WellAgain, SizesAssumption, BuffersAssumption, FailAssumption
  <2>6. EchoType'
    BY <1>1, <1>2, <2>1, <2>2, <2>3 DEF EchoType
  <2>7. Calls'
    BY <1>1, <1>2, <1>4, <2>3, <2>5 DEF Calls, Buffer
  <2>8. Loops'
    <3>1. \A s \in Sides :
              /\ at'[s] = "read" => tot'[s] < size'[s]
              /\ at'[s] = "next" => tot'[s] = size'[s]
              /\ at'[s] = "over" => 2 * size'[s] >= SendSize
      BY <1>2, <2>3, TwoSides DEF Loops
    <3> QED
      BY <1>2, <1>4, <2>3, <2>5, <3>1 DEF Loops
  <2>9. Taken("client")' = Taken("client")
    BY <2>3 DEF Taken
  <2>10. CASE ClientReads
    <3>1. ServerP!Reached = size["client"]
      BY <1>2, <1>3, <2>10, ServerReached DEF ClientReads
    <3>2. Chain(queue'["client"], size'["client"], Taken("client")', size'["client"])
      BY <1>1, <2>3, <2>9, <2>10, <3>1 DEF ClientReads
    <3>3. ServerAhead'
      BY <1>1, <1>4, <2>3, <2>10, <3>2 DEF ServerAhead, ClientReads
    <3> QED
      BY <1>2, <2>6, <2>7, <2>8, <3>3 DEF EchoInv, Turns
  <2>11. CASE RoundOver
    <3>1. at["client"] = "next" /\ pc = "done"
      BY <1>2, <1>3, <1>6, <2>11, TwoSides DEF RoundOver, Loops
    <3>2. ServerAhead'
      BY <1>1, <1>4, <2>3, <2>11, <3>1 DEF ServerAhead, RoundOver
    <3> QED
      BY <1>2, <2>6, <2>7, <2>8, <3>2 DEF EchoInv, Turns
  <2>12. CASE ClientAhead
    <3>1. Chain(queue'["server"], size'["client"], tot'["server"], Reached')
      BY <1>1, <1>4, <2>3, <2>12 DEF ClientAhead
    <3>2. ServerReads'
      BY <1>1, <1>4, <2>3, <2>12, <3>1 DEF ServerReads, ClientWaits, ClientAhead
    <3> QED
      BY <1>2, <2>6, <2>7, <2>8, <3>2 DEF EchoInv, Turns
  <2> QED
    BY <1>5, <2>10, <2>11, <2>12
<1>7. CASE ~(size["server"] * 2 < SendSize)
  <2>1. /\ at' = [at EXCEPT !["server"] = "over"] /\ size' = size /\ tot' = tot
        /\ UNCHANGED serverVars
    BY <1>7 DEF NextRound
  <2>2. at'["server"] = "over" /\ at'["client"] = at["client"] /\ 2 * size["server"] >= SendSize
    BY <1>2, <1>3, <1>7, <2>1, TwoSides DEF EchoType
  <2>3. /\ ServerP!GoesWell' /\ ServerP!Reached' = ServerP!Reached /\ rpc' = rpc /\ rbuf' = rbuf
    BY <1>2, <2>1, CallStays DEF Calls
  <2>4. EchoType'
    BY <1>1, <1>2, <2>1 DEF EchoType
  <2>5. Calls'
    BY <1>1, <1>2, <1>4, <2>1, <2>3 DEF Calls, Buffer
  <2>6. Loops'
    <3>1. \A s \in Sides :
              /\ at'[s] = "read" => tot'[s] < size'[s]
              /\ at'[s] = "next" => tot'[s] = size'[s]
              /\ at'[s] = "over" => 2 * size'[s] >= SendSize
      BY <1>2, <2>1, <2>2, TwoSides DEF Loops
    <3> QED
      BY <1>2, <1>3, <1>4, <2>1, <2>2, <2>3, <3>1 DEF Loops
  <2>7. ClientReads \/ RoundOver
    BY <1>3, <1>5, <2>2 DEF ClientAhead
  <2>8. Taken("client")' = Taken("client")
    BY <2>1, <2>2 DEF Taken
  <2>9. ClientReads' \/ RoundOver'
    BY <1>1, <1>4, <2>1, <2>2, <2>3, <2>7, <2>8 DEF RoundOver, ClientReads
  <2> QED
    BY <1>2, <2>4, <2>5, <2>6, <2>9 DEF EchoInv, Turns
<1> QED
  BY <1>6, <1>7

\* Behind a read that fails nothing is claimed.
LEMMA ReadFailsStep == ASSUME NEW s \in Sides PROVE EchoInv /\ ReadFails(s) => EchoInv'
<1> SUFFICES ASSUME EchoInv, ReadFails(s) PROVE EchoInv'
  OBVIOUS
<1>1. faults \in Nat /\ faults' = faults + 1
  BY DEF EchoInv, ReadFails
<1>2. faults' \in Nat /\ faults' # 0
  BY <1>1
<1> QED
  BY <1>2 DEF EchoInv, Good

LEMMA EchoStutter == EchoInv /\ UNCHANGED echoVars => EchoInv'
<1> SUFFICES ASSUME EchoInv, UNCHANGED echoVars, Good' PROVE EchoInv'
  BY DEF EchoInv, echoVars
<1>1. /\ base' = base /\ at' = at /\ size' = size /\ tot' = tot /\ queue' = queue
      /\ faults' = faults /\ sound' = sound /\ UNCHANGED vars /\ UNCHANGED serverVars
  BY DEF echoVars, loopVars
<1>2. Good /\ EchoType /\ Calls /\ Loops /\ Turns /\ faults' \in Nat
  BY <1>1 DEF EchoInv, Good
<1>3. /\ GoesWell' /\ Reached' = Reached /\ pc' = pc /\ buf' = buf
      /\ ServerP!GoesWell' /\ ServerP!Reached' = ServerP!Reached /\ rpc' = rpc /\ rbuf' = rbuf
  BY <1>1, <1>2, CallStays DEF Calls
<1>4. EchoType' /\ Calls' /\ Loops'
  BY <1>1, <1>2, <1>3 DEF EchoType, Calls, Buffer, Loops
<1>5. Turns'
  BY <1>1, <1>2, <1>3
  DEF Turns, ServerReads, ClientReads, RoundOver, ClientAhead, ServerAhead, ClientWaits, Taken
<1> QED
  BY <1>2, <1>4, <1>5 DEF EchoInv

LEMMA EchoStep == EchoInv /\ [EchoNext]_echoVars => EchoInv'
<1> SUFFICES ASSUME EchoInv, [EchoNext]_echoVars PROVE EchoInv'
  OBVIOUS
<1>1. ASSUME NEW s \in Sides, Step(s) PROVE EchoInv'
  <2>1. CASE s = "client"
    BY <1>1, <2>1, ClientWriteStep, ClientWriteOver, ClientRead, ClientNextRound DEF Step
  <2>2. CASE s = "server"
    BY <1>1, <2>2, ServerWriteStep, ServerWriteOver, ServerRead, ServerNextRound DEF Step
  <2> QED
    BY <2>1, <2>2, TwoSides
<1>2. ASSUME NEW s \in Sides, ReadFails(s) PROVE EchoInv'
  BY <1>2, ReadFailsStep
<1> QED
  BY <1>1, <1>2, EchoStutter DEF EchoNext

LEMMA EchoStarts == EchoInit => EchoInv
<1> SUFFICES ASSUME EchoInit PROVE EchoInv
  OBVIOUS
<1>1. PICK n \in Firsts : /\ size = [s \in Sides |-> n]
                         /\ buf = Buffer("client", n) /\ rbuf = Buffer("server", n)
  BY DEF EchoInit
<1>2. /\ base \in [Sides -> PageSize .. 2 * PageSize - 1] /\ Init /\ ServerP!Init
      /\ at = [client |-> "write", server |-> "read"]
      /\ tot = [s \in Sides |-> 0] /\ queue = [s \in Sides |-> << >>] /\ faults = 0
  BY SameServer DEF EchoInit
<1>3. n \in 1 .. SendSize - 1 /\ n > 0
  BY EchoAssumption
<1>4. /\ size["client"] = n /\ size["server"] = n
      /\ at["client"] = "write" /\ at["server"] = "read"
      /\ tot["server"] = 0 /\ queue["server"] = << >> /\ queue["client"] = << >>
  BY <1>1, <1>2, TwoSides
<1>5. EchoType
  <2>1. at \in [Sides -> {"write", "read", "next", "over"}]
    BY <1>2 DEF Sides
  <2> QED
    BY <1>1, <1>2, <1>3, <2>1 DEF EchoType
<1>6. GoesWell /\ pc = "start" /\ Reached = 0
  BY <1>2, WellInit
<1>7. ServerP!GoesWell /\ rpc = "start"
  BY <1>2, ServerP!WellInit, SizesAssumption, BuffersAssumption, FailAssumption
<1>8. Calls
  BY <1>1, <1>4, <1>6, <1>7 DEF Calls
<1>9. Loops
  BY <1>3, <1>4, <1>7, TwoSides DEF Loops
<1>10. ServerReads
  BY <1>4, <1>6, ChainEmpty DEF ServerReads, ClientWaits
<1> QED
  BY <1>2, <1>5, <1>8, <1>9, <1>10 DEF EchoInv, Turns

-----------------------------------------------------------------------------
(* What the invariant implies *)

LEMMA EchoInStep == EchoInv => InStep
<1> SUFFICES ASSUME EchoInv, Good PROVE InStep
  BY DEF InStep, Good
<1>1. EchoType /\ Loops /\ Turns
  BY DEF EchoInv
<1>2. /\ size["client"] \in Nat /\ size["server"] \in Nat
      /\ queue["client"] \in Seq(Mail) /\ queue["server"] \in Seq(Mail)
  BY <1>1, TwoSides DEF EchoType
<1>3. /\ Expected("client") = size["client"] /\ Expected("client") \in Nat
      /\ Expected("server") = IF at["server"] = "read" THEN size["server"] ELSE 2 * size["server"]
      /\ Expected("server") \in Nat
  BY <1>2, TwoSides DEF Expected
<1>4. ASSUME NEW s \in Sides, queue[s] = << >>, Taken(s) = 0
      PROVE  \E hi \in Nat : hi <= Expected(s) /\ Chain(queue[s], Expected(s), Taken(s), hi)
  <2>1. 0 <= Expected(s)
    BY <1>3, TwoSides
  <2>2. Chain(queue[s], Expected(s), Taken(s), 0)
    BY <1>4, ChainEmpty
  <2> QED
    BY <2>1, <2>2
<1>5. \E hi \in Nat : hi <= Expected("client") /\ Chain(queue["client"], Expected("client"), Taken("client"), hi)
  <2>1. CASE ServerReads \/ ClientAhead \/ RoundOver \/ (ServerAhead /\ at["client"] = "next")
    <3>1. queue["client"] = << >> /\ Taken("client") = 0
      BY <2>1 DEF ServerReads, ClientAhead, ClientWaits, RoundOver, ServerAhead, Taken
    <3> QED
      BY <1>4, <3>1, TwoSides
  <2>2. CASE ClientReads
    <3>1. ServerP!Reached \in Nat /\ ServerP!Reached <= size["client"]
      BY <2>2, ServerReached DEF ClientReads
    <3>2. Chain(queue["client"], Expected("client"), Taken("client"), ServerP!Reached)
      BY <1>3, <2>2 DEF ClientReads
    <3> QED
      BY <1>3, <3>1, <3>2
  <2>3. CASE ServerAhead /\ at["client"] # "next"
    <3>1. Chain(queue["client"], Expected("client"), Taken("client"), size["client"])
      BY <1>3, <2>3 DEF ServerAhead
    <3>2. size["client"] <= Expected("client")
      BY <1>2, <1>3
    <3> QED
      BY <1>2, <3>1, <3>2
  <2> QED
    BY <1>1, <2>1, <2>2, <2>3 DEF Turns
<1>6. \E hi \in Nat : hi <= Expected("server") /\ Chain(queue["server"], Expected("server"), Taken("server"), hi)
  <2>1. CASE ClientReads \/ RoundOver \/ ServerAhead
    <3>1. queue["server"] = << >> /\ Taken("server") = 0
      BY <2>1 DEF ClientReads, RoundOver, ServerAhead, Taken
    <3> QED
      BY <1>4, <3>1, TwoSides
  <2>2. CASE ServerReads \/ ClientAhead
    <3>1. Reached \in Nat /\ Reached <= size["client"]
      BY ClientReached
    <3>2. Expected("server") = size["client"]
      BY <1>3, <2>2 DEF ServerReads, ClientAhead
    <3>3. Chain(queue["server"], Expected("server"), Taken("server"), Reached)
      BY <2>2, <3>2 DEF ServerReads, ClientAhead, Taken
    <3> QED
      BY <3>1, <3>2, <3>3
  <2> QED
    BY <1>1, <2>1, <2>2 DEF Turns
<1>7. ASSUME NEW s \in Sides, NEW k \in DOMAIN queue[s]
      PROVE  /\ queue[s][k].round = Expected(s)
             /\ queue[s][k].from + queue[s][k].size <= Expected(s)
             /\ queue[s][k].from = IF k = 1 THEN Taken(s)
                                  ELSE queue[s][k - 1].from + queue[s][k - 1].size
  <2>1. PICK hi \in Nat : hi <= Expected(s) /\ Chain(queue[s], Expected(s), Taken(s), hi)
    BY <1>5, <1>6, TwoSides
  <2>2. /\ queue[s][k] \in Mail /\ queue[s][k].round = Expected(s)
        /\ queue[s][k].from + queue[s][k].size <= hi
        /\ queue[s][k].from = IF k = 1 THEN Taken(s)
                             ELSE queue[s][k - 1].from + queue[s][k - 1].size
    BY <2>1 DEF Chain
  <2>3. Expected(s) \in Nat
    BY <1>3, TwoSides
  <2>4. queue[s][k].from \in Nat /\ queue[s][k].size \in Nat
    BY <2>2 DEF Mail
  <2>5. queue[s][k].from + queue[s][k].size <= Expected(s)
    BY <2>1, <2>2, <2>3, <2>4
  <2> QED
    BY <2>2, <2>5
<1>8. ASSUME NEW s \in Sides, at[s] = "next"
      PROVE  tot[s] = size[s] /\ (s = "client" => queue[s] = << >>)
  <2>1. tot[s] = size[s]
    BY <1>1, <1>8 DEF Loops
  <2>2. s = "client" => queue[s] = << >>
    BY <1>1, <1>8 DEF Turns, ServerReads, ClientReads, RoundOver, ClientAhead, ServerAhead, ClientWaits
  <2> QED
    BY <2>1, <2>2
<1> QED
  BY <1>7, <1>8 DEF InStep

-----------------------------------------------------------------------------
(* The writes, whatever has failed *)

\* The programs write buffers that Segmentation knows of.
Ranges ==
    /\ base \in [Sides -> PageSize .. 2 * PageSize - 1]
    /\ size \in [Sides -> 1 .. SendSize - 1]

LEMMA RangesStart == EchoInit => Ranges
  BY EchoAssumption DEF EchoInit, Ranges

LEMMA RoundBuffer ==
    ASSUME Ranges, NEW s \in Sides, size[s] * 2 < SendSize
    PROVE  size[s] * 2 \in 1 .. SendSize - 1 /\ Buffer(s, size[s] * 2) \in Buffers
<1>1. size[s] \in 1 .. SendSize - 1 /\ SendSize \in Nat
  BY EchoAssumption DEF Ranges
<1>2. PICK n \in 1 .. SendSize - 1 : n = size[s] * 2
  BY <1>1
<1>3. Buffer(s, n) \in Buffers
  BY BufferType DEF Ranges
<1> QED
  BY <1>2, <1>3

LEMMA RangesStep == Ranges /\ [EchoNext]_echoVars => Ranges'
<1> SUFFICES ASSUME Ranges, [EchoNext]_echoVars PROVE Ranges'
  OBVIOUS
<1>1. ASSUME NEW s \in Sides, NextRound(s) PROVE Ranges'
  <2>1. CASE size[s] * 2 < SendSize
    <3>1. base' = base /\ size' = [size EXCEPT ![s] = size[s] * 2]
      BY <1>1, <2>1 DEF NextRound
    <3>2. size[s] * 2 \in 1 .. SendSize - 1
      BY <2>1, RoundBuffer
    <3> QED
      BY <3>1, <3>2 DEF Ranges
  <2>2. CASE ~(size[s] * 2 < SendSize)
    BY <1>1, <2>2 DEF NextRound, Ranges
  <2> QED
    BY <2>1, <2>2
<1>2. ASSUME NEW s \in Sides, WriteStep(s) \/ WriteOver(s) \/ Read(s) \/ ReadFails(s) PROVE Ranges'
  BY <1>2 DEF WriteStep, WriteOver, Read, ReadFails, loopVars, Ranges
<1>3. CASE UNCHANGED echoVars
  BY <1>3 DEF echoVars, loopVars, Ranges
<1> QED
  BY <1>1, <1>2, <1>3 DEF EchoNext, Step

LEMMA CallsInit == EchoInit => Init /\ Server!Init
  BY DEF EchoInit

\* What a step of the programs is for the two calls of write.
LEMMA CallsStep == Ranges /\ [EchoNext]_echoVars => [Next]_vars /\ [Server!Next]_(Server!vars)
<1> SUFFICES ASSUME Ranges, [EchoNext]_echoVars PROVE [Next]_vars /\ [Server!Next]_(Server!vars)
  OBVIOUS
<1>1. UNCHANGED serverVars => UNCHANGED Server!vars
  BY DEF serverVars, Server!vars
<1>2. ASSUME NEW s \in Sides, WriteStep(s) PROVE [Next]_vars /\ [Server!Next]_(Server!vars)
  <2>1. \/ CallStep /\ UNCHANGED serverVars
        \/ Server!CallStep /\ UNCHANGED vars
    BY <1>2 DEF WriteStep
  <2> QED
    BY <1>1, <2>1 DEF Next, Server!Next
<1>3. ASSUME NEW s \in Sides, NextRound(s) PROVE [Next]_vars /\ [Server!Next]_(Server!vars)
  <2>1. CASE size[s] * 2 < SendSize
    <3>1. \/ CallAgain(Buffer(s, size[s] * 2)) /\ UNCHANGED serverVars
          \/ Server!CallAgain(Buffer(s, size[s] * 2)) /\ UNCHANGED vars
      BY <1>3, <2>1 DEF NextRound
    <3>2. Buffer(s, size[s] * 2) \in Buffers
      BY <2>1, RoundBuffer
    <3> QED
      BY <1>1, <3>1, <3>2 DEF Next, Server!Next
  <2>2. CASE ~(size[s] * 2 < SendSize)
    BY <1>1, <1>3, <2>2 DEF NextRound
  <2> QED
    BY <2>1, <2>2
<1>4. ASSUME NEW s \in Sides, WriteOver(s) \/ Read(s) \/ ReadFails(s)
      PROVE  [Next]_vars /\ [Server!Next]_(Server!vars)
  BY <1>1, <1>4 DEF WriteOver, Read, ReadFails
<1>5. CASE UNCHANGED echoVars
  BY <1>1, <1>5 DEF echoVars
<1> QED
  BY <1>2, <1>3, <1>4, <1>5 DEF EchoNext, Step

-----------------------------------------------------------------------------
(* Theorems *)

\* While no call fails and the buffers are Sound the two programs stay in step: what waits
\* at a side is of the round it is in or about to enter, continues what it has read and
\* ends in its buffer, and every round ends with the bytes that were written in it.
THEOREM ProgramsStayInStep == EchoSpec => []InStep
  BY EchoStarts, EchoStep, EchoInStep, PTL DEF EchoSpec

\* The programs implement Segmentation twice: each write of either is one of its calls,
\* on a buffer that is new every time, also behind calls that have failed.
THEOREM WritesAreCalls == EchoSpec => Spec /\ Server!Spec
  BY RangesStart, RangesStep, CallsInit, CallsStep, PTL DEF EchoSpec, Spec, Server!Spec

\* So what is proved of a call of sendmsg holds of every write of the client.
THEOREM ClientWritesWhole ==
    EchoSpec => [](PagesNeeded /\ PageListFits /\ Contiguous /\ InsideMapping /\ WholeBuffer)
  BY WritesAreCalls, PagesAreNeeded, ListHasRoom, NoGaps, MappedExactly, AllIsSent, PTL

\* And of every write of the server.
THEOREM ServerWritesWhole ==
    EchoSpec => [](/\ Server!PagesNeeded /\ Server!PageListFits /\ Server!Contiguous
                  /\ Server!InsideMapping /\ Server!WholeBuffer)
<1>1. ServerP!SegInv => Server!PagesNeeded
  <2>1. ServerP!SegInv => ServerP!PagesNeeded
    BY ServerP!SegPagesNeeded, SizesAssumption, BuffersAssumption, FailAssumption
  <2> QED
    BY <2>1 DEF Server!PagesNeeded, ServerP!PagesNeeded, Server!Cardinality, ServerP!Cardinality
<1>2. ServerP!SegInv => Server!PageListFits
  <2>1. ServerP!SegInv => ServerP!PageListFits
    BY ServerP!SegPageListFits, SizesAssumption, BuffersAssumption, FailAssumption
  <2> QED
    BY <2>1 DEF Server!PageListFits, ServerP!PageListFits
<1>3. ServerP!SegInv => Server!Contiguous
  <2>1. ServerP!SegInv => ServerP!Contiguous
    BY ServerP!SegContiguous, SizesAssumption, BuffersAssumption, FailAssumption
  <2> QED
    BY <2>1 DEF Server!Contiguous, ServerP!Contiguous
<1>4. ServerP!SegInv => Server!InsideMapping
  <2>1. ServerP!SegInv => ServerP!InsideMapping
    BY ServerP!SegInsideMapping, SizesAssumption, BuffersAssumption, FailAssumption
  <2> QED
    BY <2>1, SameServer DEF Server!InsideMapping, ServerP!InsideMapping
<1>5. ServerP!SegInv => Server!WholeBuffer
  <2>1. ServerP!SegInv => ServerP!WholeBuffer
    BY ServerP!SegWholeBuffer, SizesAssumption, BuffersAssumption, FailAssumption
  <2> QED
    BY <2>1, SameServer DEF Server!WholeBuffer, ServerP!WholeBuffer, Server!EndOf, ServerP!EndOf
<1>6. Server!Init => ServerP!SegInv
  BY SameServer, ServerP!InitSeg, SizesAssumption, BuffersAssumption, FailAssumption
<1>7. ServerP!SegInv /\ [Server!Next]_(Server!vars) => ServerP!SegInv'
  <2>1. [Server!Next]_(Server!vars) => [ServerP!Next]_(ServerP!vars)
    BY SameServer DEF Server!Next, ServerP!Next, Server!vars, ServerP!vars
  <2> QED
    BY <2>1, ServerP!SegStep, SizesAssumption, BuffersAssumption, FailAssumption
<1> QED
  BY <1>1, <1>2, <1>3, <1>4, <1>5, <1>6, <1>7, WritesAreCalls, PTL DEF Server!Spec
=============================================================================
