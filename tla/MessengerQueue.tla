---------------------------- MODULE MessengerQueue ----------------------------
(***************************************************************************)
(* The queue of received messages of the UHK 80 (device/src/               *)
(* messenger_queue.c): two pools of memory segments and a linked list,     *)
(* worked on without locks by the contexts that receive packets and by the *)
(* main loop, which takes the messages out.                                *)
(*                                                                         *)
(* Contexts are numbered by priority: 0 is the main loop, then the         *)
(* Bluetooth receive thread, then the UART interrupt.  There is one core:  *)
(* a context takes steps only while those above it have nothing to do, so  *)
(* what one does to another it does all at once.                           *)
(*                                                                         *)
(* A message is the segment that holds it.                                 *)
(***************************************************************************)
EXTENDS Integers, FiniteSets, Sequences

CONSTANTS
    PoolSize,       \* POOL_SIZE
    Retries,        \* FIFO_RETRIES
    Producers,      \* contexts that receive packets
    Swapping,       \* the one that receives into a segment of its own (uart.c), if any
    MaxUnread       \* bounds the messages on their way, what senders may pile up

Main == 0
Contexts == {Main} \cup Producers
Segments == 0 .. PoolSize - 1
NULL == -1
Pools == {"region", "queue"}

ASSUME QueueAssumption ==
    /\ PoolSize \in Nat \ {0} /\ Retries \in Nat \ {0} /\ MaxUnread \in Nat
    /\ Producers \subseteq Nat \ {0} /\ IsFiniteSet(Producers) /\ Swapping \subseteq Producers
    /\ Cardinality(Swapping) <= 1

VARIABLES
    taken,          \* segmentTaken, for each pool a set
    idx,            \* idx of each pool
    first, last,    \* fifo
    link,           \* fifo_reserved of every record
    data,           \* data of every record
    pc,             \* where each context is
    tried, tries,   \* consumedIdx, and the count of attempts
    message,        \* the segment a context works with
    record,         \* the record it works with
    buffer,         \* rxBuffer of uart.c
    next,           \* next of fifoTake
    newMessage,     \* EventVector_NewMessage
    panic,          \* why k_panic was called
    raced           \* history: a producer met another context in a Window

pools == <<taken, idx>>
fifo == <<first, last, link, data>>
locals == <<tried, tries, message, record, buffer, next>>
vars == <<pools, fifo, pc, locals, newMessage, panic, raced>>

PcValues == {"idle", "pick region", "claim region", "pick queue", "claim queue",
             "look", "set first", "set last", "append", "advance", "announce",
             "take", "read next", "swing", "free record", "receive"}

TypeOK ==
    /\ taken \in [Pools -> SUBSET Segments] /\ idx \in [Pools -> Segments]
    /\ {first, last, next} \subseteq Segments \cup {NULL}
    /\ link \in [Segments -> Segments \cup {NULL}]
    /\ data \in [Segments -> Segments \cup {NULL}]
    /\ pc \in [Contexts -> PcValues]
    /\ tried \in [Contexts -> Segments] /\ tries \in [Contexts -> 0 .. PoolSize + Retries]
    /\ message \in [Contexts -> Segments \cup {NULL}]
    /\ record \in [Contexts -> Segments \cup {NULL}]
    /\ buffer \in [Producers -> Segments \cup {NULL}]
    /\ {newMessage, raced} \subseteq BOOLEAN
    /\ panic \in {"no", "no space", "no insert", "no take", "NULL read"}

\* The UART has allocated the segment for its first packet.
Init ==
    /\ taken = [l \in Pools |-> IF l = "region" /\ Swapping # {} THEN {0} ELSE {}]
    /\ idx = [l \in Pools |-> IF l = "region" /\ Swapping # {} THEN 1 % PoolSize ELSE 0]
    /\ first = NULL /\ last = NULL /\ next = NULL
    /\ link = [s \in Segments |-> NULL] /\ data = [s \in Segments |-> NULL]
    /\ pc = [c \in Contexts |-> "idle"]
    /\ tried = [c \in Contexts |-> 0] /\ tries = [c \in Contexts |-> 0]
    /\ message = [c \in Contexts |-> NULL] /\ record = [c \in Contexts |-> NULL]
    /\ buffer = [p \in Producers |-> IF p \in Swapping THEN 0 ELSE NULL]
    /\ newMessage = FALSE /\ panic = "no" /\ raced = FALSE

-----------------------------------------------------------------------------
(* The list, as the main loop would walk it.                               *)

Walk[i \in 0 .. PoolSize] ==
    IF i = 0 THEN first
    ELSE IF Walk[i - 1] = NULL THEN NULL ELSE link[Walk[i - 1]]

Listed == {Walk[i]: i \in 0 .. PoolSize} \ {NULL}

Queued == [i \in 1 .. Cardinality(Listed) |-> data[Walk[i - 1]]]

\* A context other than the main loop has a segment until it has linked its record.
Linked == {"set last", "advance", "announce"}
Writing ==
    ({message[p]: p \in {p \in Producers: pc[p] \notin Linked}}
         \cup {buffer[p]: p \in Producers}) \ {NULL}
Reading == {message[Main]} \ {NULL}

\* Where the loss of another context's record, or its link, goes unnoticed: the main
\* loop has read that a record is the last one, or a producer has linked its record
\* and not yet moved last.
Window(p) ==
    \/ pc[Main] = "swing" /\ next = NULL
    \/ \E q \in Producers: q < p /\ pc[q] \in {"set last", "advance"}

MayRun(c) == panic = "no" /\ \A d \in Contexts: d > c => pc[d] = "idle"

At(c, label) == MayRun(c) /\ pc[c] = label
GoTo(c, label) == pc' = [pc EXCEPT ![c] = label]

-----------------------------------------------------------------------------
(* The pools.                                                              *)

After(i) == (i + 1) % PoolSize

\* Mutant: the last of the segments is not tried.
OutOfTries_Early(n) == n = PoolSize - 1

OutOfTries(n) == n = PoolSize

\* POOL_ALLOCATE reads idx ...
Pick(p, pool, claim) ==
    /\ tried' = [tried EXCEPT ![p] = idx[pool]]
    /\ GoTo(p, claim)
    /\ UNCHANGED <<pools, fifo, tries, message, record, buffer, next, newMessage,
                   panic, raced>>

\* ... and moves it on; if the segment is free it is taken, if not the next one is
\* tried, as often as there are segments.
Claim(p, pool) ==
    /\ idx' = [idx EXCEPT ![pool] = After(tried[p])]
    /\ IF tried[p] \notin taken[pool]
       THEN /\ taken' = [taken EXCEPT ![pool] = @ \cup {tried[p]}]
            /\ tries' = [tries EXCEPT ![p] = 0]
            /\ UNCHANGED panic
       ELSE /\ tries' = [tries EXCEPT ![p] = @ + 1]
            /\ panic' = IF OutOfTries(tries'[p]) THEN "no space" ELSE panic
            /\ UNCHANGED taken
    /\ UNCHANGED <<fifo, tried, next, newMessage, raced>>

Claimed(p, pool) == tried[p] \notin taken[pool]

Release(pool, s) == taken' = [taken EXCEPT ![pool] = @ \ {s}]

-----------------------------------------------------------------------------
(* A producer: a packet has come in.                                       *)

Receives(p) ==
    /\ At(p, "idle")
    /\ Cardinality({c \in Contexts: pc[c] # "idle"} \ {Main}) + Cardinality(Listed)
           + Cardinality(Reading) < MaxUnread
    /\ GoTo(p, "pick region")
    /\ UNCHANGED <<pools, fifo, locals, newMessage, panic, raced>>

\* MessengerQueue_AllocateMemory
PickRegion(p) == At(p, "pick region") /\ Pick(p, "region", "claim region")

\* The packet is copied to the segment; the UART's is already in one, and the new
\* segment is for the next packet.
ClaimRegion(p) ==
    /\ At(p, "claim region")
    /\ Claim(p, "region")
    /\ IF Claimed(p, "region")
       THEN /\ message' = [message EXCEPT ![p] = IF p \in Swapping THEN buffer[p] ELSE tried[p]]
            /\ buffer' = [buffer EXCEPT ![p] = IF p \in Swapping THEN tried[p] ELSE @]
            /\ GoTo(p, "pick queue")
       ELSE GoTo(p, "pick region") /\ UNCHANGED <<message, buffer>>
    /\ UNCHANGED record

\* MessengerQueue_Put
PickRecord(p) == At(p, "pick queue") /\ Pick(p, "queue", "claim queue")

ClaimRecord(p) ==
    /\ At(p, "claim queue")
    /\ Claim(p, "queue")
    /\ record' = IF Claimed(p, "queue") THEN [record EXCEPT ![p] = tried[p]] ELSE record
    /\ GoTo(p, IF Claimed(p, "queue") THEN "look" ELSE "pick queue")
    /\ UNCHANGED <<message, buffer>>

\* Mutant: fifo_reserved of a record in use for the second time is not cleared.
Look_KeepsLink(p) ==
    /\ At(p, "look")
    /\ data' = [data EXCEPT ![record[p]] = message[p]]
    /\ GoTo(p, IF first = NULL THEN "set first" ELSE "append")
    /\ raced' = (raced \/ Window(p))
    /\ UNCHANGED <<pools, first, last, link, locals, newMessage, panic>>

\* fifoPut looks whether the queue is empty.
Look(p) ==
    /\ At(p, "look")
    /\ data' = [data EXCEPT ![record[p]] = message[p]]
    /\ link' = [link EXCEPT ![record[p]] = NULL]
    /\ GoTo(p, IF first = NULL THEN "set first" ELSE "append")
    /\ raced' = (raced \/ Window(p))
    /\ UNCHANGED <<pools, first, last, locals, newMessage, panic>>

\* A compare-and-swap that fails starts over, Retries times.
Retry(p) ==
    /\ tries' = [tries EXCEPT ![p] = @ + 1]
    /\ panic' = IF tries'[p] = Retries THEN "no insert" ELSE panic
    /\ GoTo(p, "look")
    /\ UNCHANGED <<pools, fifo, tried, message, record, buffer, next, newMessage, raced>>

SetFirst(p) ==
    /\ At(p, "set first")
    /\ \/ /\ first = NULL
          /\ first' = record[p]
          /\ GoTo(p, "set last")
          /\ UNCHANGED <<pools, last, link, data, locals, newMessage, panic, raced>>
       \/ first # NULL /\ Retry(p)

\* Mutant: last still names a record that was taken out long ago.
SetLast_Forgets(p) ==
    /\ At(p, "set last")
    /\ GoTo(p, "announce")
    /\ UNCHANGED <<pools, first, last, link, data, locals, newMessage, panic, raced>>

SetLast(p) ==
    /\ At(p, "set last")
    /\ last' = first
    /\ GoTo(p, "announce")
    /\ UNCHANGED <<pools, first, link, data, locals, newMessage, panic, raced>>

\* last->fifo_reserved; there is no last record before the first one was linked.
AppendRecord(p) ==
    /\ At(p, "append")
    /\ \/ /\ last # NULL /\ link[last] = NULL
          /\ link' = [link EXCEPT ![last] = record[p]]
          /\ GoTo(p, "advance")
          /\ UNCHANGED <<pools, first, last, data, locals, newMessage, panic, raced>>
       \/ last # NULL /\ link[last] # NULL /\ Retry(p)
       \/ /\ last = NULL
          /\ panic' = "NULL read"
          /\ UNCHANGED <<pools, fifo, pc, locals, newMessage, raced>>

Advance(p) ==
    /\ At(p, "advance")
    /\ IF link[last] # NULL
       THEN last' = link[last] /\ UNCHANGED pc
       ELSE GoTo(p, "announce") /\ UNCHANGED last
    /\ UNCHANGED <<pools, first, link, data, locals, newMessage, panic, raced>>

\* Messenger_Enqueue sets the bit and wakes the main loop.
Announce(p) ==
    /\ At(p, "announce")
    /\ newMessage' = TRUE
    /\ tries' = [tries EXCEPT ![p] = 0]
    /\ message' = [message EXCEPT ![p] = NULL]
    /\ record' = [record EXCEPT ![p] = NULL]
    /\ tried' = [tried EXCEPT ![p] = 0]
    /\ GoTo(p, "idle")
    /\ UNCHANGED <<pools, fifo, buffer, next, panic, raced>>

-----------------------------------------------------------------------------
(* The main loop: Messenger_ProcessQueue.                                  *)

ProcessQueue ==
    /\ At(Main, "idle")
    /\ newMessage' = FALSE
    /\ GoTo(Main, "take")
    /\ UNCHANGED <<pools, fifo, locals, panic, raced>>

\* fifoTake
Take ==
    /\ At(Main, "take")
    /\ record' = [record EXCEPT ![Main] = first]
    /\ GoTo(Main, IF first = NULL THEN "idle" ELSE "read next")
    /\ tries' = IF first = NULL THEN [tries EXCEPT ![Main] = 0] ELSE tries
    /\ UNCHANGED <<pools, fifo, tried, message, buffer, next, newMessage, panic, raced>>

ReadNext ==
    /\ At(Main, "read next")
    /\ next' = link[record[Main]]
    /\ GoTo(Main, "swing")
    /\ UNCHANGED <<pools, fifo, tried, tries, message, record, buffer, newMessage,
                   panic, raced>>

Swing ==
    /\ At(Main, "swing")
    /\ next' = NULL
    /\ IF first = record[Main]
       THEN /\ first' = next
            /\ message' = [message EXCEPT ![Main] = data[record[Main]]]
            /\ tries' = [tries EXCEPT ![Main] = 0]
            /\ GoTo(Main, "free record")
            /\ UNCHANGED panic
       ELSE /\ tries' = [tries EXCEPT ![Main] = @ + 1]
            /\ panic' = IF tries'[Main] = Retries THEN "no take" ELSE panic
            /\ GoTo(Main, "take")
            /\ UNCHANGED <<first, message>>
    /\ UNCHANGED <<pools, last, link, data, tried, record, buffer, newMessage, raced>>

\* MessengerQueue_Take has copied the record.
FreeRecord ==
    /\ At(Main, "free record")
    /\ Release("queue", record[Main])
    /\ record' = [record EXCEPT ![Main] = NULL]
    /\ GoTo(Main, "receive")
    /\ UNCHANGED <<idx, fifo, tried, tries, message, buffer, next, newMessage, panic, raced>>

\* Mutant: the memory of a message is not freed.
FreeMemory_Forgets ==
    /\ At(Main, "receive")
    /\ message' = [message EXCEPT ![Main] = NULL]
    /\ GoTo(Main, "take")
    /\ UNCHANGED <<pools, fifo, tried, tries, record, buffer, next, newMessage, panic, raced>>

\* receive() returns and MessengerQueue_FreeMemory is called.
FreeMemory ==
    /\ At(Main, "receive")
    /\ Release("region", message[Main])
    /\ message' = [message EXCEPT ![Main] = NULL]
    /\ GoTo(Main, "take")
    /\ UNCHANGED <<idx, fifo, tried, tries, record, buffer, next, newMessage, panic, raced>>

-----------------------------------------------------------------------------
Allocates(p) == PickRegion(p) \/ ClaimRegion(p) \/ PickRecord(p) \/ ClaimRecord(p)
Inserts(p) ==
    Look(p) \/ SetFirst(p) \/ SetLast(p) \/ AppendRecord(p) \/ Advance(p) \/ Announce(p)
Takes == Take \/ ReadNext \/ Swing \/ FreeRecord \/ FreeMemory

Next ==
    \/ \E p \in Producers: Receives(p) \/ Allocates(p) \/ Inserts(p)
    \/ ProcessQueue \/ Takes

Spec == Init /\ [][Next]_vars

\* Contexts run on, and the main loop takes a turn when it was told of a message.
Fairness ==
    /\ \A p \in Producers: WF_vars(Allocates(p) \/ Inserts(p))
    /\ WF_vars(Takes)
    /\ WF_vars(newMessage /\ ProcessQueue)

FairSpec == Spec /\ Fairness

-----------------------------------------------------------------------------
(* Properties.                                                             *)

\* The queue keeps its promise to Messenger_ProcessQueue and to the receivers.
M == INSTANCE Mailbox WITH writing <- Writing, queue <- Queued,
                           reading <- Reading, void <- raced
MailboxKept == M!Spec

\* No segment leaks: whatever is marked as taken can still be freed by somebody.
InUse(pool) ==
    IF pool = "region"
    THEN Writing \cup Reading \cup {data[r]: r \in Listed}
    ELSE Listed \cup ({record[c]: c \in {c \in Contexts: pc[c] \notin {"read next", "swing"}}}
                         \ {NULL})
NothingLeaks ==
    ~raced => \A pool \in Pools: taken[pool] \subseteq InUse(pool)

\* As long as there is a segment for every message on its way, and one for the UART,
\* and no contexts meet, none of the panics of messenger_queue.c is reached.
PanicsOnlyAfterRace == panic # "no" => raced

\* messenger_queue.c's own view: none of its panics is reached.
NeverPanics == panic = "no"

\* A message put into the queue gets received.
MessagesReceived ==
    \A s \in Segments: s \in M!InQueue ~> s \in Reading \/ raced

=============================================================================
