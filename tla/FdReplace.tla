----------------------------- MODULE FdReplace ------------------------------
(***************************************************************************)
(* The part of connect that puts the file of the new socket in the place   *)
(* of the program's: ltcp_tcp_v4_connect, get_fd_for_sock and              *)
(* replace_socket_filedescriptor of ltcp/local_tcp_protocol.c.  The        *)
(* descriptor is looked up, a file is allocated, and the descriptor is     *)
(* replaced, each under a lock of its own, while other threads of the      *)
(* process open, close and duplicate descriptors.                          *)
(***************************************************************************)
EXTENDS Integers, FiniteSets, FiniteSetsExt

CONSTANTS
    Connectors, \* threads in connect, each on a socket of its own
    Others,     \* files that other threads may open
    MaxFd,      \* bound: the highest descriptor of the process
    NoFile,     \* a null pointer in the table
    MayFail     \* calls into the kernel may return an error

ASSUME FdAssumption == MaxFd \in Nat /\ MayFail \in BOOLEAN

VARIABLES
    table,   \* files->fdt: the file of each descriptor
    count,   \* f_count of each file
    pc,      \* where each thread is in connect
    oldFd,   \* old_fd
    file,    \* file: what the descriptor denoted when it was replaced
    moved,   \* history: another thread changed the descriptor after the look-up,
             \* before it was replaced or while connect works on the new socket
    leaked   \* history: the threads whose new file nothing refers to

vars == <<table, count, pc, oldFd, file, moved, leaked>>

Fds == 0 .. MaxFd

\* The file of the program's socket and that of the socket connect makes.
Old(c) == <<c, "old">>
New(c) == <<c, "new">>
Files == {Old(c) : c \in Connectors} \cup {New(c) : c \in Connectors} \cup Others

ASSUME FilesAssumption ==
    /\ Others \cap ({Old(c) : c \in Connectors} \cup {New(c) : c \in Connectors}) = {}
    /\ NoFile \notin Files

Denoting(f) == {fd \in Fds : table[fd] = f}

\* A program that has called socket for every connection, and nothing else.
Init ==
    /\ table \in [Fds -> {Old(c) : c \in Connectors} \cup {NoFile}]
    /\ \A c \in Connectors : Cardinality(Denoting(Old(c))) = 1
    /\ count = [f \in Files |-> IF f \in {Old(c) : c \in Connectors} THEN 1 ELSE 0]
    /\ pc = [c \in Connectors |-> "idle"]
    /\ oldFd = [c \in Connectors |-> 0]
    /\ file = [c \in Connectors |-> NoFile]
    /\ moved = [c \in Connectors |-> FALSE]
    /\ leaked = {}

Goto(c, label) == pc' = [pc EXCEPT ![c] = label]
Get(f) == count' = [count EXCEPT ![f] = @ + 1]
Put(f) == count' = [count EXCEPT ![f] = @ - 1]

\* connect works on its new socket, and holds no reference to the file of it.
UsesNew(c) == pc[c] \in {"close", "send"}

\* Threads that go by this descriptor: they have looked it up and not replaced it yet,
\* or it is what keeps their new socket.
Exposed(fd) ==
    {c \in Connectors : (pc[c] \in {"found", "replace"} \/ UsesNew(c)) /\ oldFd[c] = fd}

\* A descriptor is changed that these threads go by.
Disturb(threads) == moved' = [c \in Connectors |-> moved[c] \/ c \in threads]

-----------------------------------------------------------------------------
(* connect *)

\* The system call takes a reference to the file while it runs.
Enter(c) ==
    /\ pc[c] = "idle" /\ Denoting(Old(c)) # {}
    /\ Get(Old(c))
    /\ Goto(c, "create")
    /\ UNCHANGED <<table, oldFd, file, moved, leaked>>

\* sock_create, and iterate_fd, which stops at the first descriptor of the socket
Find(c) ==
    /\ pc[c] = "create"
    /\ \/ /\ Denoting(Old(c)) # {}
          /\ oldFd' = [oldFd EXCEPT ![c] = Min(Denoting(Old(c)))]
          /\ Goto(c, "found")
       \/ /\ MayFail \/ Denoting(Old(c)) = {}
          /\ Goto(c, "failed") /\ UNCHANGED oldFd
    /\ UNCHANGED <<table, count, file, moved, leaked>>

\* sock_alloc_file
AllocateFile(c) ==
    /\ pc[c] = "found"
    /\ \/ Get(New(c)) /\ Goto(c, "replace")
       \/ MayFail /\ Goto(c, "failed") /\ UNCHANGED count
    /\ UNCHANGED <<table, oldFd, file, moved, leaked>>

\* Mutant of Replace: the descriptor is not looked at.
ReplaceUnseen(c) ==
    /\ pc[c] = "replace"
    /\ file' = [file EXCEPT ![c] = Old(c)]
    /\ table' = [table EXCEPT ![oldFd[c]] = New(c)]
    /\ Disturb(Exposed(oldFd[c]) \ {c})
    /\ Goto(c, "close")
    /\ UNCHANGED <<count, oldFd, leaked>>

\* Mutant of Replace: the lowest descriptor of the process is replaced.
ReplaceFirst(c) ==
    /\ pc[c] = "replace" /\ table[0] # NoFile
    /\ file' = [file EXCEPT ![c] = table[0]]
    /\ table' = [table EXCEPT ![0] = New(c)]
    /\ Disturb(Exposed(0) \ {c})
    /\ Goto(c, "close")
    /\ UNCHANGED <<count, oldFd, leaked>>

\* Under file_lock.  The table never shrinks, so old_fd is below max_fds.
Replace(c) ==
    /\ pc[c] = "replace"
    /\ \/ /\ table[oldFd[c]] # NoFile
          /\ file' = [file EXCEPT ![c] = table[oldFd[c]]]
          /\ table' = [table EXCEPT ![oldFd[c]] = New(c)]
          /\ Disturb(Exposed(oldFd[c]) \ {c})
          /\ Goto(c, "close")
          /\ UNCHANGED leaked
       \/ /\ table[oldFd[c]] = NoFile
          /\ leaked' = leaked \cup {c}
          /\ Goto(c, "failed")
          /\ UNCHANGED <<table, file, moved>>
    /\ UNCHANGED <<count, oldFd>>

\* Mutant of CloseOld: the new file is closed.
CloseNew(c) ==
    /\ pc[c] = "close"
    /\ Put(New(c))
    /\ Goto(c, "send")
    /\ UNCHANGED <<table, oldFd, file, moved, leaked>>

\* filp_close
CloseOld(c) ==
    /\ pc[c] = "close"
    /\ Put(file[c])
    /\ Goto(c, "send")
    /\ UNCHANGED <<table, oldFd, file, moved, leaked>>

\* The rest of ltcp_tcp_v4_connect, on the new socket.  An error does not bring the old
\* file back.  Once the new file has been released the socket is gone too: connect goes
\* on as if it were there, or the kernel ends the thread.
Finish(c) ==
    /\ pc[c] = "send"
    /\ \/ Goto(c, "connected")
       \/ MayFail /\ Goto(c, "failed")
       \/ count[New(c)] = 0 /\ Goto(c, "oops")
    /\ UNCHANGED <<table, count, oldFd, file, moved, leaked>>

Return(c) ==
    /\ pc[c] \in {"connected", "failed"}
    /\ Put(Old(c))
    /\ Goto(c, "over")
    /\ UNCHANGED <<table, oldFd, file, moved, leaked>>

-----------------------------------------------------------------------------
(* Other threads of the process, which take file_lock for each step *)

Set(fd, f) ==
    /\ table' = [table EXCEPT ![fd] = f]
    /\ Disturb(Exposed(fd))
    /\ UNCHANGED <<pc, oldFd, file, leaked>>

\* The kernel hands out the lowest descriptor that is free.
Close(fd) == table[fd] # NoFile /\ Put(table[fd]) /\ Set(fd, NoFile)

Open(f) ==
    /\ Denoting(NoFile) # {} /\ count[f] = 0
    /\ Get(f) /\ Set(Min(Denoting(NoFile)), f)

Dup(fd) ==
    /\ table[fd] # NoFile /\ Denoting(NoFile) # {}
    /\ Get(table[fd]) /\ Set(Min(Denoting(NoFile)), table[fd])

\* dup2
DupTo(from, to) ==
    /\ table[from] # NoFile /\ table[to] \notin {NoFile, table[from]}
    /\ count' = [count EXCEPT ![table[from]] = @ + 1, ![table[to]] = @ - 1]
    /\ Set(to, table[from])

OtherThread ==
    \/ \E fd \in Fds : Close(fd) \/ Dup(fd)
    \/ \E from, to \in Fds : DupTo(from, to)
    \/ \E f \in Others : Open(f)

Next ==
    \/ \E c \in Connectors :
          \/ Enter(c) \/ Find(c) \/ AllocateFile(c) \/ Replace(c)
          \/ CloseOld(c) \/ Finish(c) \/ Return(c)
    \/ OtherThread

Spec == Init /\ [][Next]_vars

-----------------------------------------------------------------------------
(* Properties *)

InCall(c) == pc[c] \notin {"idle", "over"}

\* What refers to a file: its descriptors, the system call that entered through it,
\* the thread that has taken it out of the table and not closed it yet, and the thread
\* that has made it and not put it into the table yet or never will.  The use that
\* connect makes of its new socket later (UsesNew) is not a reference.
Refs(f) ==
    {<<"table", fd>> : fd \in Denoting(f)}
    \cup {<<"call", c>> : c \in {d \in Connectors : InCall(d) /\ Old(d) = f}}
    \cup {<<"taken", c>> : c \in {d \in Connectors : pc[d] = "close" /\ file[d] = f}}
    \cup {<<"made", c>> : c \in {d \in Connectors : pc[d] = "replace" /\ New(d) = f}}
    \cup {<<"leaked", c>> : c \in {d \in leaked : New(d) = f}}

\* Every file is counted as often as it is referred to, whatever the threads do: no
\* descriptor denotes a file that has been released, and the file connect was called
\* with is there until it returns.  Of the new file see NewSocketHeld.
Counted == \A f \in Files : count[f] = Cardinality(Refs(f))

\* connect closes the file of its own socket and no other, and loses no file, unless
\* another thread changed the descriptor between the look-up and the replacement.
OwnFileReplaced ==
    \A c \in Connectors : ~moved[c] => file[c] \in {NoFile, Old(c)} /\ c \notin leaked

\* While connect works on its new socket the program's descriptor denotes it and its
\* file is not released, unless another thread changes the descriptor: connect has
\* handed its one reference to the table.
NewSocketHeld ==
    \A c \in Connectors :
        UsesNew(c) /\ ~moved[c] => table[oldFd[c]] = New(c) /\ count[New(c)] > 0
=============================================================================
