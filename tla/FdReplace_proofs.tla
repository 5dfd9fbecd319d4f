-------------------------- MODULE FdReplace_proofs --------------------------
(***************************************************************************)
(* Proofs about FdReplace, for any number of threads and descriptors:      *)
(* files are counted as often as they are referred to, and connect         *)
(* replaces the file of its own socket when it is left alone.              *)
(***************************************************************************)
EXTENDS FdReplace, FiniteSetTheorems, WellFoundedInduction, TLAPS

Labels == {"idle", "create", "found", "replace", "close", "send", "connected", "failed", "over", "oops"}

FdType ==
    /\ table \in [Fds -> Files \cup {NoFile}]
    /\ count \in [Files -> Int]
    /\ pc \in [Connectors -> Labels]
    /\ oldFd \in [Connectors -> Fds]
    /\ file \in [Connectors -> Files \cup {NoFile}]
    /\ moved \in [Connectors -> BOOLEAN]
    /\ leaked \subseteq Connectors

\* A thread that closes a file has taken one; one that has lost its file is at its end.
Taken ==
    /\ \A c \in Connectors : pc[c] = "close" => file[c] # NoFile
    /\ \A c \in leaked : pc[c] \in {"failed", "over"}

\* A descriptor that was looked up and left alone still denotes the socket, the old one
\* and then the new one.
OwnFd ==
    /\ \A c \in Connectors :
          pc[c] \in {"found", "replace"} /\ ~moved[c] => table[oldFd[c]] = Old(c)
    /\ \A c \in Connectors : UsesNew(c) /\ ~moved[c] => table[oldFd[c]] = New(c)
    /\ OwnFileReplaced

CountedAt(f) == IsFiniteSet(Refs(f)) /\ count[f] = Cardinality(Refs(f))

\* The inductive invariant.
FdInv == FdType /\ Taken /\ OwnFd /\ \A f \in Files : CountedAt(f)

-----------------------------------------------------------------------------
(* Counting *)

LEMMA Gain ==
    ASSUME NEW f \in Files, NEW r, CountedAt(f), r \notin Refs(f),
           Refs(f)' = Refs(f) \cup {r}, count'[f] = count[f] + 1
    PROVE  CountedAt(f)'
  BY FS_AddElement DEF CountedAt

LEMMA Lose ==
    ASSUME NEW f \in Files, NEW r, CountedAt(f), r \in Refs(f),
           Refs(f)' = Refs(f) \ {r}, count'[f] = count[f] - 1
    PROVE  CountedAt(f)'
  BY FS_RemoveElement DEF CountedAt

LEMMA Swap ==
    ASSUME NEW f \in Files, NEW r, NEW t, CountedAt(f), r \in Refs(f), t \notin Refs(f),
           Refs(f)' = (Refs(f) \ {r}) \cup {t}, count'[f] = count[f]
    PROVE  CountedAt(f)'
<1>1. IsFiniteSet(Refs(f) \ {r}) /\ Cardinality(Refs(f) \ {r}) = Cardinality(Refs(f)) - 1
  BY FS_RemoveElement DEF CountedAt
<1>2. /\ IsFiniteSet((Refs(f) \ {r}) \cup {t})
      /\ Cardinality((Refs(f) \ {r}) \cup {t}) = Cardinality(Refs(f) \ {r}) + 1
  BY <1>1, FS_AddElement
<1>3. Cardinality(Refs(f)) \in Nat
  BY FS_CardinalityType DEF CountedAt
<1> QED
  BY <1>1, <1>2, <1>3 DEF CountedAt

LEMMA Same ==
    ASSUME NEW f \in Files, CountedAt(f), Refs(f)' = Refs(f), count'[f] = count[f]
    PROVE  CountedAt(f)'
  BY DEF CountedAt

\* The files of two sockets are two files, and none of them is null.
LEMMA Names ==
    /\ \A c, d : Old(c) # New(d)
    /\ \A c, d : (Old(c) = Old(d) => c = d) /\ (New(c) = New(d) => c = d)
    /\ \A c \in Connectors : Old(c) \in Files /\ New(c) \in Files
    /\ NoFile \notin Files
  BY FilesAssumption DEF Old, New, Files

\* What refers to a file, kind by kind.
LEMMA RefsAre ==
    ASSUME NEW f
    PROVE  /\ \A x : <<"table", x>> \in Refs(f) <=> x \in Fds /\ table[x] = f
           /\ \A x : <<"call", x>> \in Refs(f) <=> x \in Connectors /\ InCall(x) /\ Old(x) = f
           /\ \A x : <<"taken", x>> \in Refs(f)
                        <=> x \in Connectors /\ pc[x] = "close" /\ file[x] = f
           /\ \A x : <<"made", x>> \in Refs(f)
                        <=> x \in Connectors /\ pc[x] = "replace" /\ New(x) = f
           /\ \A x : <<"leaked", x>> \in Refs(f) <=> x \in leaked /\ New(x) = f
  BY DEF Refs, Denoting

-----------------------------------------------------------------------------

LEMMA FdInitInv == Init => FdInv
<1> SUFFICES ASSUME Init PROVE FdInv
  OBVIOUS
<1>1. FdType
  BY FdAssumption, Names DEF Init, FdType, Labels, Fds, Files
<1>2. Taken /\ OwnFd
  BY DEF Init, Taken, OwnFd, UsesNew, OwnFileReplaced
<1>3. ASSUME NEW f \in Files PROVE CountedAt(f)
  <2>0. leaked = {} /\ \A d \in Connectors : pc[d] = "idle" /\ ~InCall(d)
    BY DEF Init, InCall
  <2>1. Refs(f) = {<<"table", fd>> : fd \in Denoting(f)}
    <3>1. ASSUME NEW r \in Refs(f) PROVE r \in {<<"table", fd>> : fd \in Denoting(f)}
      <4>1. \/ \E fd \in Denoting(f) : r = <<"table", fd>>
            \/ \E c \in Connectors : InCall(c) \/ pc[c] = "close" \/ pc[c] = "replace"
            \/ \E c \in leaked : TRUE
        BY DEF Refs
      <4> QED
        BY <4>1, <2>0
    <3>2. {<<"table", fd>> : fd \in Denoting(f)} \subseteq Refs(f)
      BY DEF Refs
    <3> QED
      BY <3>1, <3>2
  <2>2. CASE f \in {Old(c) : c \in Connectors}
    <3>1. Cardinality(Denoting(f)) = 1 /\ count[f] = 1
      BY <2>2 DEF Init
    <3>2. IsFiniteSet(Denoting(f))
      <4>1. IsFiniteSet(0 .. MaxFd)
        BY FS_Interval, FdAssumption
      <4>2. Denoting(f) \in SUBSET (0 .. MaxFd)
        BY DEF Denoting, Fds
      <4> QED
        BY <4>1, <4>2, FS_Subset
    <3>3. PICK fd : Denoting(f) = {fd}
      BY <3>1, <3>2, FS_Singleton
    <3>4. Refs(f) = {<<"table", fd>>}
      BY <2>1, <3>3
    <3> QED
      BY <3>1, <3>4, FS_Singleton DEF CountedAt
  <2>3. CASE f \notin {Old(c) : c \in Connectors}
    <3>1. Denoting(f) = {} /\ count[f] = 0
      BY <2>3, Names DEF Init, Denoting
    <3>2. Refs(f) = {}
      BY <2>1, <3>1
    <3> QED
      BY <3>1, <3>2, FS_EmptySet DEF CountedAt
  <2> QED
    BY <2>2, <2>3
<1> QED
  BY <1>1, <1>2, <1>3 DEF FdInv

Less == OpToRel(<, Nat)

LEMMA LessIs == \A x, y \in Nat : <<x, y>> \in Less <=> x < y
  BY DEF Less, OpToRel

\* The first descriptor of the socket is one of its descriptors.
LEMMA MinIsIn ==
    ASSUME NEW S \in SUBSET Nat, S # {}
    PROVE  Min(S) \in S
<1>1. IsWellFoundedOn(Less, Nat)
  BY NatLessThanWellFounded DEF Less
<1>2. \E x \in S : \A y \in S : <<y, x>> \notin Less
  BY <1>1, WFMin, Zenon
<1>3. PICK x \in S : \A y \in S : <<y, x>> \notin Less
  BY <1>2
<1>4. ASSUME NEW y \in S PROVE x <= y
  <2>1. ~(y < x)
    BY <1>3, LessIs
  <2> QED
    BY <2>1
<1> QED
  BY <1>4 DEF Min

-----------------------------------------------------------------------------
(* connect *)

LEMMA EnterInv ==
    ASSUME FdInv, NEW c \in Connectors, Enter(c)
    PROVE  FdInv'
<1> USE DEF FdInv
<1>1. /\ pc[c] = "idle" /\ pc' = [pc EXCEPT ![c] = "create"]
      /\ count' = [count EXCEPT ![Old(c)] = @ + 1]
      /\ UNCHANGED <<table, oldFd, file, moved, leaked>>
  BY DEF Enter, Get, Goto
<1>2. FdType' /\ Taken'
  BY <1>1, Names DEF FdType, Taken, Labels
<1>3. OwnFd'
  BY <1>1 DEF OwnFd, UsesNew, OwnFileReplaced, FdType
<1>4. ASSUME NEW f \in Files PROVE CountedAt(f)'
  <2>1. CASE f = Old(c)
    <3>1. Refs(f)' = Refs(f) \cup {<<"call", c>>}
      BY <1>1, <2>1, Names DEF Refs, Denoting, InCall, FdType, Taken
    <3>2. <<"call", c>> \notin Refs(f)
      BY <1>1, RefsAre DEF InCall
    <3> QED
      BY <1>1, <2>1, <3>1, <3>2, Gain DEF FdType
  <2>2. CASE f # Old(c)
    <3>1. Refs(f)' = Refs(f)
      BY <1>1, <2>2, Names DEF Refs, Denoting, InCall, FdType, Taken
    <3> QED
      BY <1>1, <2>2, <3>1, Same DEF FdType
  <2> QED
    BY <2>1, <2>2
<1> QED
  BY <1>2, <1>3, <1>4

LEMMA FindInv ==
    ASSUME FdInv, NEW c \in Connectors, Find(c)
    PROVE  FdInv'
<1> USE DEF FdInv
<1>1. /\ pc[c] = "create" /\ pc'[c] \in {"found", "failed"}
      /\ pc' = [pc EXCEPT ![c] = pc'[c]]
      /\ UNCHANGED <<table, count, file, moved, leaked>>
  BY DEF Find, Goto, FdType
<1>2. Denoting(Old(c)) \in SUBSET Nat
  BY DEF Denoting, Fds
<1>3. /\ \A d \in Connectors \ {c} : oldFd'[d] = oldFd[d]
      /\ oldFd' \in [Connectors -> Fds]
      /\ pc'[c] = "found" => table[oldFd'[c]] = Old(c)
  <2>1. Denoting(Old(c)) # {} => Min(Denoting(Old(c))) \in Denoting(Old(c))
    BY <1>2, MinIsIn
  <2> QED
    BY <2>1 DEF Find, Goto, FdType, Denoting
<1>4. FdType' /\ Taken'
  BY <1>1, <1>3 DEF FdType, Taken, Labels
<1>5. OwnFd'
  BY <1>1, <1>3 DEF OwnFd, UsesNew, OwnFileReplaced, FdType
<1>6. ASSUME NEW f \in Files PROVE CountedAt(f)'
  <2>1. Refs(f)' = Refs(f)
    BY <1>1 DEF Refs, Denoting, InCall, FdType
  <2> QED
    BY <1>1, <2>1, Same
<1> QED
  BY <1>4, <1>5, <1>6

LEMMA AllocateInv ==
    ASSUME FdInv, NEW c \in Connectors, AllocateFile(c)
    PROVE  FdInv'
<1> USE DEF FdInv
<1>1. pc[c] = "found" /\ UNCHANGED <<table, oldFd, file, moved, leaked>>
  BY DEF AllocateFile
<1>2. CASE pc' = [pc EXCEPT ![c] = "replace"] /\ count' = [count EXCEPT ![New(c)] = @ + 1]
  <2>1. FdType' /\ Taken' /\ OwnFd'
    BY <1>1, <1>2, Names DEF FdType, Taken, Labels, OwnFd, UsesNew, OwnFileReplaced
  <2>2. ASSUME NEW f \in Files PROVE CountedAt(f)'
    <3>1. CASE f = New(c)
      <4>1. Refs(f)' = Refs(f) \cup {<<"made", c>>}
        BY <1>1, <1>2, <3>1, Names DEF Refs, Denoting, InCall, FdType
      <4>2. <<"made", c>> \notin Refs(f)
        BY <1>1, RefsAre
      <4> QED
        BY <1>2, <3>1, <4>1, <4>2, Gain DEF FdType
    <3>2. CASE f # New(c)
      <4>1. Refs(f)' = Refs(f)
        BY <1>1, <1>2, <3>2, Names DEF Refs, Denoting, InCall, FdType
      <4> QED
        BY <1>2, <3>2, <4>1, Same DEF FdType
    <3> QED
      BY <3>1, <3>2
  <2> QED
    BY <2>1, <2>2
<1>3. CASE pc' = [pc EXCEPT ![c] = "failed"] /\ count' = count
  <2>1. FdType' /\ Taken' /\ OwnFd'
    BY <1>1, <1>3 DEF FdType, Taken, Labels, OwnFd, UsesNew, OwnFileReplaced
  <2>2. ASSUME NEW f \in Files PROVE CountedAt(f)'
    <3>1. Refs(f)' = Refs(f)
      BY <1>1, <1>3 DEF Refs, Denoting, InCall, FdType
    <3> QED
      BY <1>3, <3>1, Same
  <2> QED
    BY <2>1, <2>2
<1> QED
  BY <1>2, <1>3 DEF AllocateFile, Get, Goto

\* The file that was in the table is taken and the new one is in its place; without
\* one the new file is lost.
LEMMA ReplaceInv ==
    ASSUME FdInv, NEW c \in Connectors, Replace(c)
    PROVE  FdInv'
<1> USE DEF FdInv
<1> DEFINE fd == oldFd[c]
<1>1. pc[c] = "replace" /\ fd \in Fds /\ UNCHANGED <<count, oldFd>>
  BY DEF Replace, FdType
<1>2. CASE /\ table[fd] # NoFile
           /\ file' = [file EXCEPT ![c] = table[fd]]
           /\ table' = [table EXCEPT ![fd] = New(c)]
           /\ moved' = [d \in Connectors |-> moved[d] \/ d \in Exposed(fd) \ {c}]
           /\ pc' = [pc EXCEPT ![c] = "close"]
           /\ UNCHANGED leaked
  <2>1. FdType' /\ Taken'
    BY <1>1, <1>2, Names DEF FdType, Taken, Labels
  <2>2. OwnFd'
    <3>1. ASSUME NEW d \in Connectors, pc'[d] \in {"found", "replace"}, ~moved'[d]
          PROVE  table'[oldFd'[d]] = Old(d)
      BY <1>1, <1>2, <3>1 DEF OwnFd, UsesNew, Exposed, FdType
    <3>2. OwnFileReplaced'
      BY <1>1, <1>2 DEF OwnFd, OwnFileReplaced, FdType
    <3>3. ASSUME NEW d \in Connectors, UsesNew(d)', ~moved'[d]
          PROVE  table'[oldFd'[d]] = New(d)
      BY <1>1, <1>2, <3>3 DEF OwnFd, Exposed, UsesNew, FdType
    <3> QED
      BY <3>1, <3>2, <3>3 DEF OwnFd
  <2>3. ASSUME NEW f \in Files PROVE CountedAt(f)'
    <3>1. c \notin leaked
      BY <1>1 DEF Taken
    <3>2. CASE f = New(c) /\ f # table[fd]
      <4>1. Refs(f)' = (Refs(f) \ {<<"made", c>>}) \cup {<<"table", fd>>}
        BY <1>1, <1>2, <3>2, Names DEF Refs, Denoting, InCall, FdType
      <4>2. <<"made", c>> \in Refs(f) /\ <<"table", fd>> \notin Refs(f)
        BY <1>1, <3>2, RefsAre
      <4> QED
        BY <1>1, <4>1, <4>2, Swap
    <3>3. CASE f # New(c) /\ f = table[fd]
      <4>1. Refs(f)' = (Refs(f) \ {<<"table", fd>>}) \cup {<<"taken", c>>}
        BY <1>1, <1>2, <3>3, Names DEF Refs, Denoting, InCall, FdType
      <4>2. <<"table", fd>> \in Refs(f) /\ <<"taken", c>> \notin Refs(f)
        BY <1>1, <3>3, RefsAre
      <4> QED
        BY <1>1, <4>1, <4>2, Swap
    <3>4. CASE f = New(c) /\ f = table[fd]
      <4>1. Refs(f)' = (Refs(f) \ {<<"made", c>>}) \cup {<<"taken", c>>}
        BY <1>1, <1>2, <3>4, Names DEF Refs, Denoting, InCall, FdType
      <4>2. <<"made", c>> \in Refs(f) /\ <<"taken", c>> \notin Refs(f)
        BY <1>1, <3>4, RefsAre
      <4> QED
        BY <1>1, <4>1, <4>2, Swap
    <3>5. CASE f # New(c) /\ f # table[fd]
      <4>1. Refs(f)' = Refs(f)
        BY <1>1, <1>2, <3>5, Names DEF Refs, Denoting, InCall, FdType
      <4> QED
        BY <1>1, <4>1, Same
    <3> QED
      BY <3>2, <3>3, <3>4, <3>5
  <2> QED
    BY <2>1, <2>2, <2>3
<1>3. CASE /\ table[fd] = NoFile
           /\ leaked' = leaked \cup {c}
           /\ pc' = [pc EXCEPT ![c] = "failed"]
           /\ UNCHANGED <<table, file, moved>>
  <2>1. FdType' /\ Taken'
    BY <1>1, <1>3 DEF FdType, Taken, Labels
  <2>2. moved[c]
    BY <1>1, <1>3, Names DEF OwnFd, UsesNew, FdType
  <2>3. OwnFd'
    BY <1>1, <1>3, <2>2 DEF OwnFd, UsesNew, OwnFileReplaced, FdType
  <2>4. ASSUME NEW f \in Files PROVE CountedAt(f)'
    <3>1. c \notin leaked
      BY <1>1 DEF Taken
    <3>2. CASE f = New(c)
      <4>1. Refs(f)' = (Refs(f) \ {<<"made", c>>}) \cup {<<"leaked", c>>}
        BY <1>1, <1>3, <3>2, Names DEF Refs, Denoting, InCall, FdType
      <4>2. <<"made", c>> \in Refs(f) /\ <<"leaked", c>> \notin Refs(f)
        BY <1>1, <3>1, <3>2, RefsAre
      <4> QED
        BY <1>1, <4>1, <4>2, Swap
    <3>3. CASE f # New(c)
      <4>1. Refs(f)' = Refs(f)
        BY <1>1, <1>3, <3>3, Names DEF Refs, Denoting, InCall, FdType
      <4> QED
        BY <1>1, <4>1, Same
    <3> QED
      BY <3>2, <3>3
  <2> QED
    BY <2>1, <2>3, <2>4
<1> QED
  BY <1>2, <1>3 DEF Replace, Disturb, Goto

LEMMA CloseOldInv ==
    ASSUME FdInv, NEW c \in Connectors, CloseOld(c)
    PROVE  FdInv'
<1> USE DEF FdInv
<1>1. /\ pc[c] = "close" /\ pc' = [pc EXCEPT ![c] = "send"]
      /\ count' = [count EXCEPT ![file[c]] = @ - 1]
      /\ UNCHANGED <<table, oldFd, file, moved, leaked>>
      /\ file[c] \in Files
  BY DEF CloseOld, Put, Goto, Taken, FdType
<1>2. FdType' /\ Taken' /\ OwnFd'
  BY <1>1 DEF FdType, Taken, Labels, OwnFd, UsesNew, OwnFileReplaced
<1>3. ASSUME NEW f \in Files PROVE CountedAt(f)'
  <2>1. CASE f = file[c]
    <3>1. Refs(f)' = Refs(f) \ {<<"taken", c>>}
      BY <1>1, <2>1 DEF Refs, Denoting, InCall, FdType
    <3>2. <<"taken", c>> \in Refs(f)
      BY <1>1, <2>1, RefsAre
    <3> QED
      BY <1>1, <2>1, <3>1, <3>2, Lose DEF FdType
  <2>2. CASE f # file[c]
    <3>1. Refs(f)' = Refs(f)
      BY <1>1, <2>2 DEF Refs, Denoting, InCall, FdType
    <3> QED
      BY <1>1, <2>2, <3>1, Same DEF FdType
  <2> QED
    BY <2>1, <2>2
<1> QED
  BY <1>2, <1>3

LEMMA FinishInv ==
    ASSUME FdInv, NEW c \in Connectors, Finish(c)
    PROVE  FdInv'
<1> USE DEF FdInv
<1>1. /\ pc[c] = "send" /\ pc'[c] \in {"connected", "failed", "oops"}
      /\ pc' = [pc EXCEPT ![c] = pc'[c]]
      /\ UNCHANGED <<table, count, oldFd, file, moved, leaked>>
  BY DEF Finish, Goto, FdType
<1>2. FdType' /\ Taken' /\ OwnFd'
  BY <1>1 DEF FdType, Taken, Labels, OwnFd, UsesNew, OwnFileReplaced
<1>3. ASSUME NEW f \in Files PROVE CountedAt(f)'
  <2>1. Refs(f)' = Refs(f)
    BY <1>1 DEF Refs, Denoting, InCall, FdType
  <2> QED
    BY <1>1, <2>1, Same
<1> QED
  BY <1>2, <1>3

LEMMA ReturnInv ==
    ASSUME FdInv, NEW c \in Connectors, Return(c)
    PROVE  FdInv'
<1> USE DEF FdInv
<1>1. /\ pc[c] \in {"connected", "failed"} /\ pc' = [pc EXCEPT ![c] = "over"]
      /\ count' = [count EXCEPT ![Old(c)] = @ - 1]
      /\ UNCHANGED <<table, oldFd, file, moved, leaked>>
  BY DEF Return, Put, Goto
<1>2. FdType' /\ Taken' /\ OwnFd'
  BY <1>1, Names DEF FdType, Taken, Labels, OwnFd, UsesNew, OwnFileReplaced
<1>3. ASSUME NEW f \in Files PROVE CountedAt(f)'
  <2>1. CASE f = Old(c)
    <3>1. Refs(f)' = Refs(f) \ {<<"call", c>>}
      BY <1>1, <2>1, Names DEF Refs, Denoting, InCall, FdType
    <3>2. <<"call", c>> \in Refs(f)
      BY <1>1, <2>1, RefsAre DEF InCall
    <3> QED
      BY <1>1, <2>1, <3>1, <3>2, Lose DEF FdType
  <2>2. CASE f # Old(c)
    <3>1. Refs(f)' = Refs(f)
      BY <1>1, <2>2, Names DEF Refs, Denoting, InCall, FdType
    <3> QED
      BY <1>1, <2>2, <3>1, Same DEF FdType
  <2> QED
    BY <2>1, <2>2
<1> QED
  BY <1>2, <1>3

-----------------------------------------------------------------------------
(* Other threads *)

\* Setting a descriptor disturbs the threads that have looked it up.
LEMMA SetKeeps ==
    ASSUME FdInv, NEW fd \in Fds, NEW f \in Files \cup {NoFile}, Set(fd, f),
           count' \in [Files -> Int]
    PROVE  FdType' /\ Taken' /\ OwnFd'
<1> USE DEF FdInv
<1>1. /\ table' = [table EXCEPT ![fd] = f]
      /\ moved' = [c \in Connectors |-> moved[c] \/ c \in Exposed(fd)]
      /\ UNCHANGED <<pc, oldFd, file, leaked>>
  BY DEF Set, Disturb
<1>2. FdType' /\ Taken'
  BY <1>1 DEF FdType, Taken
<1>3. OwnFd'
  BY <1>1 DEF OwnFd, UsesNew, OwnFileReplaced, Exposed, FdType
<1> QED
  BY <1>2, <1>3

\* The references of the two files of a step change by the one descriptor.
LEMMA SetRefs ==
    ASSUME FdType, NEW fd \in Fds, NEW g, Set(fd, g), NEW f \in Files
    PROVE  /\ f = table[fd] /\ f # g => /\ Refs(f)' = Refs(f) \ {<<"table", fd>>}
                                      /\ <<"table", fd>> \in Refs(f)
           /\ f # table[fd] /\ f = g => /\ Refs(f)' = Refs(f) \cup {<<"table", fd>>}
                                      /\ <<"table", fd>> \notin Refs(f)
           /\ f # table[fd] /\ f # g => Refs(f)' = Refs(f)
<1>1. table' = [table EXCEPT ![fd] = g] /\ UNCHANGED <<pc, file, leaked>>
  BY DEF Set
<1>2. <<"table", fd>> \in Refs(f) <=> table[fd] = f
  BY RefsAre
<1>3. CASE f = table[fd] /\ f # g
  BY <1>1, <1>2, <1>3 DEF Refs, Denoting, InCall, FdType
<1>4. CASE f # table[fd] /\ f = g
  BY <1>1, <1>2, <1>4 DEF Refs, Denoting, InCall, FdType
<1>5. CASE f # table[fd] /\ f # g
  BY <1>1, <1>5 DEF Refs, Denoting, InCall, FdType
<1> QED
  BY <1>3, <1>4, <1>5

LEMMA CloseInv ==
    ASSUME FdInv, NEW fd \in Fds, Close(fd)
    PROVE  FdInv'
<1> USE DEF FdInv
<1>1. /\ table[fd] \in Files /\ Set(fd, NoFile)
      /\ count' = [count EXCEPT ![table[fd]] = @ - 1] /\ NoFile \notin Files
  BY Names DEF Close, Put, FdType
<1>2. FdType' /\ Taken' /\ OwnFd'
  BY <1>1, SetKeeps DEF FdType
<1>3. ASSUME NEW f \in Files PROVE CountedAt(f)'
  <2>1. CASE f = table[fd]
    <3>1. Refs(f)' = Refs(f) \ {<<"table", fd>>} /\ <<"table", fd>> \in Refs(f)
      BY <1>1, <2>1, SetRefs
    <3>2. count'[f] = count[f] - 1
      BY <1>1, <2>1 DEF FdType
    <3> QED
      BY <3>1, <3>2, Lose
  <2>2. CASE f # table[fd]
    BY <1>1, <2>2, SetRefs, Same DEF FdType
  <2> QED
    BY <2>1, <2>2
<1> QED
  BY <1>2, <1>3

\* Open and Dup put a file at a descriptor that is free.
LEMMA PutInv ==
    ASSUME FdInv, NEW fd \in Denoting(NoFile), NEW g \in Files, Set(fd, g), Get(g)
    PROVE  FdInv'
<1> USE DEF FdInv
<1>1. /\ fd \in Fds /\ table[fd] = NoFile
      /\ count' = [count EXCEPT ![g] = @ + 1] /\ NoFile \notin Files
  BY Names DEF Denoting, Get
<1>2. FdType' /\ Taken' /\ OwnFd'
  BY <1>1, SetKeeps DEF FdType
<1>3. ASSUME NEW f \in Files PROVE CountedAt(f)'
  <2>1. CASE f = g
    BY <1>1, <2>1, SetRefs, Gain DEF FdType
  <2>2. CASE f # g
    BY <1>1, <2>2, SetRefs, Same DEF FdType
  <2> QED
    BY <2>1, <2>2
<1> QED
  BY <1>2, <1>3

LEMMA DupToInv ==
    ASSUME FdInv, NEW from \in Fds, NEW to \in Fds, DupTo(from, to)
    PROVE  FdInv'
<1> USE DEF FdInv
<1> DEFINE g == table[from]
           h == table[to]
<1>1. /\ g \in Files /\ h \in Files /\ g # h /\ Set(to, g)
      /\ count' = [count EXCEPT ![g] = @ + 1, ![h] = @ - 1]
  BY DEF DupTo, FdType
<1>2. FdType' /\ Taken' /\ OwnFd'
  BY <1>1, SetKeeps DEF FdType
<1>3. ASSUME NEW f \in Files PROVE CountedAt(f)'
  <2>1. CASE f = g
    BY <1>1, <2>1, SetRefs, Gain DEF FdType
  <2>2. CASE f = h
    <3>1. Refs(f)' = Refs(f) \ {<<"table", to>>} /\ <<"table", to>> \in Refs(f)
      BY <1>1, <2>2, SetRefs
    <3>2. count'[f] = count[f] - 1
      BY <1>1, <2>2 DEF FdType
    <3> QED
      BY <3>1, <3>2, Lose
  <2>3. CASE f # g /\ f # h
    BY <1>1, <2>3, SetRefs, Same DEF FdType
  <2> QED
    BY <2>1, <2>2, <2>3
<1> QED
  BY <1>2, <1>3

LEMMA OtherInv ==
    ASSUME FdInv, OtherThread
    PROVE  FdInv'
<1>1. ASSUME NEW fd \in Fds, Close(fd) PROVE FdInv'
  BY <1>1, CloseInv
<1>2. Denoting(NoFile) # {} => Min(Denoting(NoFile)) \in Denoting(NoFile)
  <2>1. Denoting(NoFile) \in SUBSET Nat
    BY DEF Denoting, Fds
  <2> QED
    BY <2>1, MinIsIn
<1>3. ASSUME NEW fd \in Fds, Dup(fd) PROVE FdInv'
  <2>1. table[fd] \in Files
    BY <1>3 DEF Dup, FdInv, FdType
  <2> QED
    BY <1>2, <1>3, <2>1, PutInv DEF Dup
<1>4. ASSUME NEW from \in Fds, NEW to \in Fds, DupTo(from, to) PROVE FdInv'
  BY <1>4, DupToInv
<1>5. ASSUME NEW f \in Others, Open(f) PROVE FdInv'
  <2>1. f \in Files
    BY DEF Files
  <2> QED
    BY <1>2, <1>5, <2>1, PutInv DEF Open
<1> QED
  BY <1>1, <1>3, <1>4, <1>5 DEF OtherThread

LEMMA FdStepInv == FdInv /\ [Next]_vars => FdInv'
<1> SUFFICES ASSUME FdInv, [Next]_vars PROVE FdInv'
  OBVIOUS
<1>1. ASSUME NEW c \in Connectors,
             \/ Enter(c) \/ Find(c) \/ AllocateFile(c) \/ Replace(c)
             \/ CloseOld(c) \/ Finish(c) \/ Return(c)
      PROVE  FdInv'
  BY <1>1, EnterInv, FindInv, AllocateInv, ReplaceInv, CloseOldInv, FinishInv, ReturnInv
<1>2. CASE OtherThread
  BY <1>2, OtherInv
<1>3. CASE UNCHANGED vars
  <2>1. FdType' /\ Taken' /\ OwnFd'
    BY <1>3 DEF vars, FdInv, FdType, Taken, OwnFd, UsesNew, OwnFileReplaced
  <2>2. ASSUME NEW f \in Files PROVE CountedAt(f)'
    BY <1>3 DEF vars, FdInv, CountedAt, Refs, Denoting, InCall
  <2> QED
    BY <2>1, <2>2 DEF FdInv
<1> QED
  BY <1>1, <1>2, <1>3 DEF Next

-----------------------------------------------------------------------------
(* Theorems *)

LEMMA FdAlways == Spec => []FdInv
<1> QED
  BY FdInitInv, FdStepInv, PTL DEF Spec

\* For any number of threads in connect and any threads beside them, the count of a
\* file is the number of its references: none is freed while a descriptor denotes it,
\* or while the call that entered through it runs.
THEOREM FilesAreCounted == Spec => []Counted
<1>1. FdInv => Counted
  BY DEF FdInv, CountedAt, Counted
<1> QED
  BY <1>1, FdAlways, PTL

\* connect takes the file of its own socket out of the table, and loses none, unless
\* another thread has changed the descriptor since it was looked up.
THEOREM OwnSocketReplaced == Spec => []OwnFileReplaced
<1>1. FdInv => OwnFileReplaced
  BY DEF FdInv, OwnFd, UsesNew
<1> QED
  BY <1>1, FdAlways, PTL

\* The new socket of a connect that works on it is what the descriptor denotes, and its
\* file is there, unless another thread has changed the descriptor.
THEOREM NewSocketIsHeld == Spec => []NewSocketHeld
<1>1. FdInv => NewSocketHeld
  <2> SUFFICES ASSUME FdInv, NEW c \in Connectors, UsesNew(c), ~moved[c]
               PROVE  table[oldFd[c]] = New(c) /\ count[New(c)] > 0
    BY DEF NewSocketHeld
  <2>1. table[oldFd[c]] = New(c) /\ New(c) \in Files /\ oldFd[c] \in Fds
    BY Names DEF FdInv, FdType, OwnFd
  <2>2. <<"table", oldFd[c]>> \in Refs(New(c))
    BY <2>1, RefsAre
  <2>3. IsFiniteSet(Refs(New(c))) /\ count[New(c)] = Cardinality(Refs(New(c)))
    BY <2>1 DEF FdInv, CountedAt
  <2>4. Cardinality(Refs(New(c))) \in Nat /\ Cardinality(Refs(New(c))) # 0
    BY <2>2, <2>3, FS_CardinalityType, FS_EmptySet
  <2> QED
    BY <2>1, <2>3, <2>4
<1> QED
  BY <1>1, FdAlways, PTL
=============================================================================
