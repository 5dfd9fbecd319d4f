-------------------------------- MODULE Echo --------------------------------
(***************************************************************************)
(* The programs client.c and server.c of userspace_test/write_file over a  *)
(* connection: in every round the client writes a buffer and the server    *)
(* reads it and writes one of the same length back.  A write is cut into   *)
(* messages (Segmentation, one copy for each side); a read takes one       *)
(* message, whatever it asked for; both sides read in a loop until they    *)
(* have the length they expect.                                            *)
(***************************************************************************)
EXTENDS Segmentation

CONSTANTS
    Firsts,   \* the length of the first round (1 in the programs)
    SendSize, \* SEND_SIZE: the rounds stay below it
    MaxFaults \* bound: calls of write or read that fail

ASSUME EchoAssumption ==
    /\ SendSize \in Nat /\ SendSize < Word
    /\ Firsts \subseteq 1 .. SendSize - 1
    /\ MaxFaults \in Nat
    /\ [start : PageSize .. 2 * PageSize + SendSize, len : 1 .. SendSize - 1] \subseteq Buffers

Sides == {"client", "server"}
Other(s) == CHOOSE t \in Sides : t # s

VARIABLES
    rbuf, rpc, rnr, ri, rleft, rsent, \* the write of the server; the client's is Segmentation's
    base,   \* where the array tempbuff of each side lies
    at,     \* where each side is in its loop
    size,   \* the loop variable i of each side: the length of the round
    tot,    \* the bytes read in the round
    queue,  \* the receive queue of each side: the size of each message; history: the
            \* round it is of and its place in the buffer of that round
    faults, \* history: calls that have failed
    sound   \* history: every buffer written so far is Sound

serverVars == <<rbuf, rpc, rnr, ri, rleft, rsent>>
loopVars == <<at, size, tot>>
echoVars == <<vars, serverVars, base, loopVars, queue, faults, sound>>

Server == INSTANCE Segmentation WITH
    buf <- rbuf, pc <- rpc, nrPages <- rnr, i <- ri, left <- rleft, sent <- rsent

\* The client writes the front of its array, the server from its byte n - 1 on.
Buffer(s, n) ==
    [start |-> base[s] + (IF s = "server" THEN n - 1 ELSE 0), len |-> n]

\* Both are behind accept and connect; the client is about to write.
EchoInit ==
    /\ base \in [Sides -> PageSize .. 2 * PageSize - 1]
    /\ \E n \in Firsts :
          /\ size = [s \in Sides |-> n]
          /\ buf = Buffer("client", n) /\ rbuf = Buffer("server", n)
    /\ Init /\ Server!Init
    /\ at = [client |-> "write", server |-> "read"]
    /\ tot = [s \in Sides |-> 0]
    /\ queue = [s \in Sides |-> << >>]
    /\ faults = 0
    /\ sound = TRUE

-----------------------------------------------------------------------------
(* write *)

WriteAt(s) == IF s = "client" THEN pc ELSE rpc
SoundBuffer(s) == IF s = "client" THEN Sound ELSE Server!Sound
Published(s) == IF s = "client" THEN sent ELSE rsent

\* What the step adds to the messages of the call.
NewMessages(s) ==
    [k \in 1 .. Len(Published(s)') - Len(Published(s)) |->
        LET m == Published(s)'[Len(Published(s)) + k] IN
        [size |-> m.size, round |-> size[s], from |-> m.addr - Buffer(s, size[s]).start]]

\* One step of ltcp_direct_copy; what it publishes reaches the other side in order.
WriteStep(s) ==
    /\ at[s] = "write"
    /\ \/ s = "client" /\ CallStep /\ UNCHANGED serverVars
       \/ s = "server" /\ Server!CallStep /\ UNCHANGED vars
    /\ queue' = [queue EXCEPT ![Other(s)] = @ \o NewMessages(s)]
    /\ sound' = (sound /\ SoundBuffer(s)')
    /\ faults' = faults + (IF WriteAt(s)' = "failed" THEN 1 ELSE 0)
    /\ faults' <= MaxFaults
    /\ UNCHANGED <<base, loopVars>>

\* Neither program looks at what write has returned.
WriteOver(s) ==
    /\ at[s] = "write" /\ WriteAt(s) \in {"done", "failed"}
    /\ at' = [at EXCEPT ![s] = IF s = "client" THEN "read" ELSE "next"]
    /\ tot' = [tot EXCEPT ![s] = IF s = "client" THEN 0 ELSE @]
    /\ UNCHANGED <<vars, serverVars, base, size, queue, faults, sound>>

-----------------------------------------------------------------------------
(* while(r = read(fd, ..., i)) { tot += r; if(tot >= i) break; } *)

\* Mutant of LoopEnds: the loop waits for more than the length.
LoopEndsAbove(s, r) == r = 0 \/ (tot[s] + r) % Word > size[s]

\* What read returns is a size_t in the programs: -1 is the largest.
LoopEnds(s, r) == r = 0 \/ (tot[s] + r) % Word >= size[s]

Got(s, r) ==
    /\ tot' = [tot EXCEPT ![s] = (@ + r) % Word]
    /\ at' = IF LoopEnds(s, r)
             THEN [at EXCEPT ![s] = IF s = "client" THEN "next" ELSE "write"]
             ELSE at

\* recvmsg takes the first message; what the buffer has no room for is lost with it.
Read(s) ==
    /\ at[s] = "read" /\ queue[s] # << >>
    /\ LET all == Head(queue[s]).size IN Got(s, IF all < size[s] THEN all ELSE size[s])
    /\ queue' = [queue EXCEPT ![s] = Tail(@)]
    /\ UNCHANGED <<vars, serverVars, base, size, faults, sound>>

\* An error of recvmsg consumes the message, too.
ReadFails(s) ==
    /\ at[s] = "read" /\ queue[s] # << >> /\ faults < MaxFaults
    /\ Got(s, Word - 1)
    /\ queue' = [queue EXCEPT ![s] = Tail(@)]
    /\ faults' = faults + 1
    /\ UNCHANGED <<vars, serverVars, base, size, sound>>

\* for(i = 1; i < SEND_SIZE; i = i * 2)
NextRound(s) ==
    /\ at[s] = "next"
    /\ IF size[s] * 2 < SendSize
       THEN /\ size' = [size EXCEPT ![s] = @ * 2]
            /\ at' = [at EXCEPT ![s] = IF s = "client" THEN "write" ELSE "read"]
            /\ tot' = [tot EXCEPT ![s] = IF s = "server" THEN 0 ELSE @]
            /\ \/ s = "client" /\ CallAgain(Buffer(s, size[s] * 2)) /\ UNCHANGED serverVars
               \/ s = "server" /\ Server!CallAgain(Buffer(s, size[s] * 2)) /\ UNCHANGED vars
       ELSE /\ at' = [at EXCEPT ![s] = "over"]
            /\ UNCHANGED <<vars, serverVars, size, tot>>
    /\ UNCHANGED <<base, queue, faults, sound>>

Step(s) == WriteStep(s) \/ WriteOver(s) \/ Read(s) \/ NextRound(s)

EchoNext == \E s \in Sides : Step(s) \/ ReadFails(s)

\* A program that can run does; no call has to fail.
EchoSpec ==
    EchoInit /\ [][EchoNext]_echoVars /\ \A s \in Sides : WF_echoVars(Step(s))

-----------------------------------------------------------------------------
(* Properties *)

\* The round whose messages a side reads next, and how much of it it has read.
Expected(s) == IF s = "server" /\ at[s] # "read" THEN 2 * size[s] ELSE size[s]
Taken(s) == IF at[s] = "read" THEN tot[s] ELSE 0

\* While no call fails and the buffers are Sound, the two programs stay in step: what
\* waits at a side is of the round it is in or about to enter, continues what it has read
\* of it and stays inside its buffer, and a round ends with exactly the bytes written in it.
InStep ==
    faults = 0 /\ sound => \A s \in Sides :
        /\ \A k \in DOMAIN queue[s] : LET m == queue[s][k] IN
              /\ m.round = Expected(s) /\ m.from + m.size <= Expected(s)
              /\ m.from = IF k = 1 THEN Taken(s)
                          ELSE queue[s][k - 1].from + queue[s][k - 1].size
        /\ at[s] = "next" => tot[s] = size[s]
        /\ at[s] = "next" /\ s = "client" => queue[s] = << >>

\* Without an error every round ends and both programs come to the end of their loop,
\* although a read may ask for more than one message brings.
EchoEnds == <>(faults > 0 \/ \A s \in Sides : at[s] = "over")
=============================================================================
