------------------------------ MODULE RecvPath ------------------------------
(***************************************************************************)
(* The readers of RecvMsg with the aperture they map their buffers into,   *)
(* which they share with a process that sends: the block of a call is the  *)
(* place its transfer writes to, also when that ends after the call.       *)
(***************************************************************************)
EXTENDS RecvMsg, IommuAperture

CONSTANTS
    Sender,  \* a process in rdma_xmit
    MaxSends \* bound: messages it sends

ASSUME UsersAssumption == Users = Readers \cup {Sender} /\ Sender \notin Readers
ASSUME MaxSendsAssumption == MaxSends \in Nat

VARIABLES
    sends, \* messages of the sender
    target \* data_bus_addr: the block each transfer in flight writes to

pathVars == <<vars, apertureVars, sends, target>>

PathInit == Init /\ ApertureInit /\ sends = 0 /\ target = << >>

\* osif_iommu_map_user_pages inside recvmsg, and get_user_pages_locked before it
MapBuffer(p) ==
    /\ pc[p] = "map"
    /\ \/ /\ \/ \E n \in Needs : Reserve(p, n)
             \/ MapPage(p) \/ MapPageFails(p) \/ UnmapPage(p)
          /\ UNCHANGED vars
       \/ Succeed(p) /\ Map(p) /\ pc'[p] = "down"
       \/ /\ \/ Release(p)
             \/ \E n \in Needs : Refused(p, n)
             \/ step[p] = "out" /\ UNCHANGED apertureVars
          /\ Map(p) /\ pc'[p] = "error"
    /\ UNCHANGED <<sends, target>>

\* The transfer is given the address of the block of the call.
StartPull(p) ==
    /\ StartDma(p)
    /\ target' = [d \in dma' |-> IF d \in dma THEN target[d] ELSE block[p]]
    /\ UNCHANGED <<apertureVars, sends>>

PullEnds ==
    /\ Callback
    /\ target' = [d \in dma' |-> target[d]]
    /\ UNCHANGED <<apertureVars, sends>>

OtherReaderStep(p) ==
    /\ \/ Call(p) \/ Arrive(p) \/ Peek(p) \/ NoData(p) \/ Down(p) \/ Wait(p)
       \/ TimeOut(p) \/ Check(p) \/ Return(p)
    /\ UNCHANGED <<apertureVars, sends, target>>

\* The same function inside rdma_xmit, whose message points to the block.
SendBuffer ==
    /\ \/ /\ sends < MaxSends
          /\ sends' = sends + 1
          /\ \E n \in Needs : Reserve(Sender, n) \/ Refused(Sender, n)
       \/ /\ \/ MapPage(Sender) \/ MapPageFails(Sender) \/ UnmapPage(Sender)
             \/ Release(Sender) \/ Succeed(Sender)
          /\ UNCHANGED sends
    /\ UNCHANGED <<vars, target>>

PathNext ==
    \/ \E p \in Readers : MapBuffer(p) \/ StartPull(p) \/ OtherReaderStep(p)
    \/ PullEnds
    \/ SendBuffer

PathSpec == PathInit /\ [][PathNext]_pathVars

\* As in RecvMsg; a process inside osif_iommu_map_user_pages runs on too.
PathFairSpec ==
    /\ PathSpec
    /\ \A p \in Readers :
          WF_pathVars(\/ MapBuffer(p) \/ StartPull(p)
                      \/ /\ OtherReaderStep(p)
                         /\ ~TimeOut(p) /\ ~NoData(p) /\ ~Call(p) /\ ~Arrive(p))
    /\ WF_pathVars(PullEnds)

-----------------------------------------------------------------------------
(* Properties *)

\* A transfer writes to a block that is mapped from end to end and that no process
\* maps or unmaps, even when the call that started it has long returned: this is so
\* only because a block is never given back after a success.
PullsMapped ==
    \A d \in dma :
        /\ Pages(target[d]) \subseteq mapped
        /\ \A u \in Users : AtWork(u) => Pages(target[d]) \cap Pages(block[u]) = {}
=============================================================================
