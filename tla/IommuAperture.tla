--------------------------- MODULE IommuAperture ----------------------------
(***************************************************************************)
(* osif_iommu_map_user_pages of ltcp/local_tcp_protocol.c: a block of the  *)
(* one aperture of the node is reserved for the pages of a user buffer,    *)
(* which are mapped into it one by one.  An error unmaps them and gives    *)
(* the block back; after a success nothing ever does.  All processes that  *)
(* send or receive call it, and no lock orders their calls.                *)
(***************************************************************************)
EXTENDS Integers, FiniteSets

CONSTANTS
    Users,       \* processes in sendmsg and recvmsg
    Room,        \* pages of the aperture
    Needs,       \* pages a buffer may need
    IommuMayFail \* iommu_map may return an error

ASSUME RoomAssumption == Room \in Nat /\ Needs \subseteq Nat \ {0} /\ IommuMayFail \in BOOLEAN

VARIABLES
    blocks, \* the blocks reserved in the allocator
    mapped, \* the pages of the aperture that have a page of memory behind them
    step,   \* where each process is in the function
    block,  \* the block it has reserved
    count   \* i, the pages of it that are mapped

apertureVars == <<blocks, mapped, step, block, count>>

Pages(b) == b.first .. b.first + b.len - 1

\* The places where a block of n pages fits.
Places(n) == {f \in 0 .. Room - n :
                \A b \in blocks : Pages(b) \cap (f .. f + n - 1) = {}}

NoBlock == [first |-> 0, len |-> 0]

ApertureInit ==
    /\ blocks = {} /\ mapped = {}
    /\ step = [u \in Users |-> "out"]
    /\ block = [u \in Users |-> NoBlock]
    /\ count = [u \in Users |-> 0]

\* osif_allocator_alloc finds room.
Reserve(u, n) ==
    /\ step[u] = "out"
    /\ \E f \in Places(n) :
          /\ block' = [block EXCEPT ![u] = [first |-> f, len |-> n]]
          /\ blocks' = blocks \cup {[first |-> f, len |-> n]}
    /\ step' = [step EXCEPT ![u] = "map"]
    /\ count' = [count EXCEPT ![u] = 0]
    /\ UNCHANGED mapped

\* It finds none: OSIF_ERR_NOSPC.
Refused(u, n) == step[u] = "out" /\ Places(n) = {} /\ UNCHANGED apertureVars

\* iommu_map of the next page
MapPage(u) ==
    /\ step[u] = "map" /\ count[u] < block[u].len
    /\ mapped' = mapped \cup {block[u].first + count[u]}
    /\ count' = [count EXCEPT ![u] = @ + 1]
    /\ UNCHANGED <<blocks, step, block>>

MapPageFails(u) ==
    /\ IommuMayFail
    /\ step[u] = "map" /\ count[u] < block[u].len
    /\ step' = [step EXCEPT ![u] = "unmap"]
    /\ UNCHANGED <<blocks, mapped, block, count>>

\* Mutant of UnmapPage: the first page of the block is left mapped.
UnmapPageButFirst(u) ==
    /\ step[u] = "unmap" /\ count[u] > 0
    /\ mapped' = IF count[u] = 1 THEN mapped ELSE mapped \ {block[u].first + count[u] - 1}
    /\ count' = [count EXCEPT ![u] = @ - 1]
    /\ UNCHANGED <<blocks, step, block>>

\* iommu_unmap of the pages mapped so far, from the last one down
UnmapPage(u) ==
    /\ step[u] = "unmap" /\ count[u] > 0
    /\ mapped' = mapped \ {block[u].first + count[u] - 1}
    /\ count' = [count EXCEPT ![u] = @ - 1]
    /\ UNCHANGED <<blocks, step, block>>

\* osif_allocator_free, and OSIF_ERR_NOMEM is returned.
Release(u) ==
    /\ step[u] = "unmap" /\ count[u] = 0
    /\ blocks' = blocks \ {block[u]}
    /\ block' = [block EXCEPT ![u] = NoBlock]
    /\ step' = [step EXCEPT ![u] = "out"]
    /\ UNCHANGED <<mapped, count>>

\* Mutant of Succeed: the block is given back when the function returns.
SucceedReleases(u) ==
    /\ step[u] = "map" /\ count[u] = block[u].len
    /\ blocks' = blocks \ {block[u]}
    /\ step' = [step EXCEPT ![u] = "out"]
    /\ UNCHANGED <<mapped, block, count>>

\* Every page is mapped and the handle is the block.
Succeed(u) ==
    /\ step[u] = "map" /\ count[u] = block[u].len
    /\ step' = [step EXCEPT ![u] = "out"]
    /\ UNCHANGED <<blocks, mapped, block, count>>

ApertureStep(u) ==
    \/ \E n \in Needs : Reserve(u, n) \/ Refused(u, n)
    \/ MapPage(u) \/ MapPageFails(u) \/ UnmapPage(u) \/ Release(u) \/ Succeed(u)

ApertureNext == \E u \in Users : ApertureStep(u)

ApertureSpec == ApertureInit /\ [][ApertureNext]_apertureVars

-----------------------------------------------------------------------------
(* Properties *)

\* The pages of a block a process has mapped so far.
Prefix(u) == block[u].first .. block[u].first + count[u] - 1

AtWork(u) == step[u] # "out"

\* A buffer is mapped as a whole or not at all: blocks never overlap, the block of a
\* finished call is mapped from end to end, that of a call at work up to its count,
\* and no page is mapped outside a block, whatever errors there were.
AllOrNothing ==
    /\ \A b, c \in blocks : b # c => Pages(b) \cap Pages(c) = {}
    /\ mapped = UNION ({Pages(b) : b \in blocks \ {block[u] : u \in {v \in Users : AtWork(v)}}}
                       \cup {Prefix(u) : u \in {v \in Users : AtWork(v)}})
=============================================================================
