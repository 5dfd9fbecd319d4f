----------------------------- MODULE PortTable -----------------------------
(***************************************************************************)
(* One list of ltcp/port_functions.c: the port_sk_arr of one port in       *)
(* incoming_conns or conns, a doubly linked list with a head and a tail    *)
(* pointer.  Every operation holds the lock of the list, so each is one    *)
(* step.  The key of an entry stands for its remote port and address.      *)
(***************************************************************************)
EXTENDS Integers, Sequences, FiniteSets, SequencesExt

CONSTANTS
    Entries, \* the addresses at which a struct port_sk can be
    Null,
    Keys     \* the remote ends an entry can have

ASSUME EntriesAssumption == IsFiniteSet(Entries) /\ Null \notin Entries

VARIABLES
    keyOf,          \* the remote port and address of every struct port_sk
    head, tail,
    next, previous, \* the links of every struct port_sk, in a list or not
    answer,         \* what the last operation returned
    fault,          \* a null pointer was followed, or the walk never ends
    queue,          \* history: the entries added and not yet returned, in order
    wasCut,         \* history: the last of several entries was removed
    expected        \* history: the entry the last operation should have returned

links == <<next, previous>>
vars == <<keyOf, head, tail, links, answer, fault, queue, wasCut, expected>>

Pointers == Entries \cup {Null}

Init ==
    /\ keyOf \in [Entries -> Keys]
    /\ head = Null /\ tail = Null
    /\ next = [e \in Entries |-> Null]
    /\ previous = [e \in Entries |-> Null]
    /\ answer = Null /\ expected = Null
    /\ fault = FALSE
    /\ queue = << >>
    /\ wasCut = FALSE

\* current_psk after n turns of the loop of remove_port_sk and get_port_sk.
Walk[n \in 0 .. Cardinality(Entries)] ==
    IF n = 0 THEN head
    ELSE IF Walk[n - 1] = Null THEN Null ELSE next[Walk[n - 1]]

\* The turns after which the loop stops at an entry with the key.
Stops(key) ==
    {n \in DOMAIN Walk : Walk[n] # Null /\ keyOf[Walk[n]] = key}

\* Mutant of Found: the newest entry instead of the oldest.
FoundLast(key) ==
    IF Stops(key) = {} THEN Null
    ELSE Walk[CHOOSE n \in Stops(key) : \A m \in Stops(key) : m <= n]

Found(key) ==
    IF Stops(key) = {} THEN Null
    ELSE Walk[CHOOSE n \in Stops(key) : \A m \in Stops(key) : n <= m]

\* More turns than there are entries: the list has become a ring.
Endless(key) == Stops(key) = {} /\ Walk[Cardinality(Entries)] # Null

\* The first entry of the queue with the key, as the callers mean it.
FirstOf(key) ==
    LET places == {n \in DOMAIN queue : keyOf[queue[n]] = key}
    IN  IF places = {} THEN Null
        ELSE queue[CHOOSE n \in places : \A m \in places : n <= m]

\* The queue after e, which is in it at most once, is returned.
Without(s, e) ==
    IF Contains(s, e) THEN RemoveAt(s, CHOOSE i \in DOMAIN s : s[i] = e) ELSE s

Answer(e, meant) ==
    /\ answer' = e
    /\ expected' = meant

-----------------------------------------------------------------------------

\* Mutant of AddBehindTail: added before the head.
AddHeadFirst(e) ==
    /\ next' = [next EXCEPT ![e] = head]
    /\ previous' = IF head = Null THEN [previous EXCEPT ![e] = Null]
                   ELSE [previous EXCEPT ![e] = Null, ![head] = e]
    /\ tail' = IF tail = Null THEN e ELSE tail
    /\ head' = e
    /\ queue' = Append(queue, e)
    /\ UNCHANGED <<keyOf, answer, fault, wasCut, expected>>

AddBehindTail(e) ==
    /\ IF tail = Null
       THEN /\ next' = [next EXCEPT ![e] = Null]
            /\ previous' = [previous EXCEPT ![e] = Null]
            /\ head' = e
       ELSE /\ next' = [next EXCEPT ![e] = Null, ![tail] = e]
            /\ previous' = [previous EXCEPT ![e] = tail]
            /\ UNCHANGED head
    /\ tail' = e
    /\ queue' = Append(queue, e)
    /\ UNCHANGED <<keyOf, answer, fault, wasCut, expected>>

\* Mutant of Add: a missing entry is added.
AddNullToo(e) ==
    /\ ~fault /\ ~Contains(queue, e)
    /\ AddBehindTail(e)

\* add_port_sk(arr, lport, psk); CONNECT_SUCCESS may pass no entry.
Add(e) ==
    /\ ~fault /\ ~Contains(queue, e)
    /\ IF e = Null THEN UNCHANGED vars ELSE AddBehindTail(e)

\* Mutant of UnlinkHead: the tail pointer is not cleared.
UnlinkHeadKeepsTail(e) ==
    /\ e = head
    /\ head' = next[e]
    /\ previous' = IF next[e] = Null THEN previous
                   ELSE [previous EXCEPT ![next[e]] = Null]
    /\ UNCHANGED <<tail, next, fault>>

\* The branches of remove_port_sk at the entry it has found.
UnlinkHead(e) ==
    /\ e = head
    /\ head' = next[e]
    /\ IF next[e] = Null
       THEN tail' = Null /\ UNCHANGED previous
       ELSE previous' = [previous EXCEPT ![next[e]] = Null] /\ UNCHANGED tail
    /\ UNCHANGED <<next, fault>>

\* The last entry: the tail pointer is not moved.
UnlinkTail(e) ==
    /\ e # head /\ e = tail
    /\ IF previous[e] = Null
       THEN fault' = TRUE /\ UNCHANGED next
       ELSE next' = [next EXCEPT ![previous[e]] = Null] /\ UNCHANGED fault
    /\ UNCHANGED <<head, tail, previous>>

UnlinkMiddle(e) ==
    /\ e # head /\ e # tail
    /\ IF previous[e] = Null \/ next[e] = Null
       THEN fault' = TRUE /\ UNCHANGED links
       ELSE /\ next' = [next EXCEPT ![previous[e]] = next[e]]
            /\ previous' = [previous EXCEPT ![next[e]] = previous[e]]
            /\ UNCHANGED fault
    /\ UNCHANGED <<head, tail>>

RemoveFound(e) ==
    /\ UnlinkHead(e) \/ UnlinkTail(e) \/ UnlinkMiddle(e)
    /\ queue' = Without(queue, e)
    /\ wasCut' = (wasCut \/ (e # head /\ e = tail))

\* remove_port_sk(arr, lport, rport, rip)
RemoveKey(key) ==
    /\ ~fault /\ UNCHANGED keyOf
    /\ Answer(Found(key), FirstOf(key))
    /\ IF Found(key) = Null
       THEN /\ fault' = Endless(key)
            /\ UNCHANGED <<head, tail, links, queue, wasCut>>
       ELSE RemoveFound(Found(key))

\* get_port_sk(arr, lport, rport, rip)
GetKey(key) ==
    /\ ~fault
    /\ Answer(Found(key), FirstOf(key))
    /\ fault' = Endless(key)
    /\ UNCHANGED <<keyOf, head, tail, links, queue, wasCut>>

\* put_port_sk(arr, lport): the first entry, whoever it is from.
Put ==
    /\ ~fault
    /\ Answer(head, IF queue = << >> THEN Null ELSE queue[1])
    /\ IF head = Null THEN UNCHANGED <<head, tail, links, queue, fault>>
       ELSE /\ UnlinkHead(head)
            /\ queue' = Without(queue, head)
    /\ UNCHANGED <<keyOf, wasCut>>

\* An entry that was returned is freed, and its memory is used for other things.
Reuse(e) ==
    /\ ~fault /\ ~Contains(queue, e)
    /\ \E p \in Pointers : next' = [next EXCEPT ![e] = p]
    /\ \E p \in Pointers : previous' = [previous EXCEPT ![e] = p]
    /\ UNCHANGED <<keyOf, head, tail, answer, fault, queue, wasCut, expected>>

Next ==
    \/ \E e \in Pointers : Add(e)
    \/ \E e \in Entries : Reuse(e)
    \/ \E key \in Keys : RemoveKey(key) \/ GetKey(key)
    \/ Put

Spec == Init /\ [][Next]_vars

-----------------------------------------------------------------------------
(* Properties.  They hold until the last of several entries is removed, which  *)
(* remove_port_sk only does when the entries of a port have different keys.    *)

TypeOK ==
    /\ keyOf \in [Entries -> Keys]
    /\ head \in Pointers /\ tail \in Pointers
    /\ next \in [Entries -> Pointers]
    /\ previous \in [Entries -> Pointers]
    /\ answer \in Pointers /\ expected \in Pointers
    /\ fault \in BOOLEAN /\ wasCut \in BOOLEAN
    /\ queue \in Seq(Entries)

\* The links of the list are those of the queue, in both directions, and so are
\* its ends.
ListIsQueue == ~wasCut =>
    /\ IsInjective(queue)
    /\ head = IF queue = << >> THEN Null ELSE queue[1]
    /\ tail = IF queue = << >> THEN Null ELSE queue[Len(queue)]
    /\ \A n \in DOMAIN queue :
          /\ next[queue[n]] = IF n = Len(queue) THEN Null ELSE queue[n + 1]
          /\ previous[queue[n]] = IF n = 1 THEN Null ELSE queue[n - 1]

\* Every look-up, removal and take answers with the oldest entry it could mean,
\* and no operation follows a null pointer or goes round for ever.
AnswersRight == ~wasCut => answer = expected /\ ~fault

\* When all entries have the same key, as those of ltcp_tcp_v4_connect and of the
\* connections it makes have, nothing but the head is ever removed.
OneKeyIsSafe == (\A e, f \in Entries : keyOf[e] = keyOf[f]) => ~wasCut
=============================================================================
