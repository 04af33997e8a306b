------------------------- MODULE MessengerQueue_proofs -------------------------
(***************************************************************************)
(* Proofs about MessengerQueue, for pools of any size and any number of    *)
(* contexts that receive packets: as long as no two contexts have met in a *)
(* Window, no segment leaks, the queue keeps the promises of Mailbox, and  *)
(* no panic is reached.                                                    *)
(***************************************************************************)
EXTENDS MessengerQueue, FiniteSetTheorems, SequenceTheorems, WellFoundedInduction, TLAPS

-----------------------------------------------------------------------------
(* The inductive invariant.                                                *)

Allocating == {"pick region", "claim region", "pick queue", "claim queue"}
Carrying == {"pick queue", "claim queue", "look", "set first", "append"}
Inserting == {"set first", "append"} \cup Linked
Recording == {"look"} \cup Inserting

\* What each context has at hand, whoever meets whom.
HandFits(p) ==
    /\ pc[p] \in {"idle", "pick region", "claim region"} \cup Carrying \cup Linked
    /\ record[p] # NULL <=> pc[p] \in Recording
    /\ message[p] # NULL <=> pc[p] \in Carrying \cup Linked
    /\ buffer[p] # NULL <=> p \in Swapping
    /\ pc[p] = "set last" => first # NULL
    /\ pc[p] = "advance" => last # NULL
    /\ pc[p] = "idle" => tries[p] = 0
MainFits ==
    /\ pc[Main] \in {"idle", "take", "read next", "swing", "free record", "receive"}
    /\ record[Main] # NULL <=> pc[Main] \in {"read next", "swing", "free record"}
    /\ pc[Main] \in {"read next", "swing"} => first = record[Main]
LocalsFit == MainFits /\ \A p \in Producers: HandFits(p)

\* Nobody has tried in vain too often, unless that was the end.
Counts ==
    panic = "no" => \A d \in Contexts:
        tries[d] < IF pc[d] \in Allocating THEN PoolSize ELSE Retries

Basics == TypeOK /\ LocalsFit /\ Counts

\* A producer that has looked whether the queue is empty has met nobody in a Window.
Clear == \A p \in Producers: pc[p] \in Inserting => ~Window(p)

\* The list consists of the records c[1], ..., c[n].
Chain(n, c) ==
    /\ first = IF n = 0 THEN NULL ELSE c[1]
    /\ \A i \in 1..n: link[c[i]] = IF i = n THEN NULL ELSE c[i + 1]
    /\ \A i, j \in 1..n: c[i] = c[j] => i = j
Cells(n, c) == {c[i]: i \in 1..n}
Contents(n, c) == {data[c[i]]: i \in 1..n}

\* last is the last record, unless a producer is about to move it there.
NearEnd(n, c) == \E i \in 1..n: last = c[i] /\ i + 1 >= n
LastFits(n, c) ==
    /\ \A p \in Producers:
          /\ pc[p] = "append" => n > 0
          /\ pc[p] = "set last" => n = 1
          /\ pc[p] = "advance" => NearEnd(n, c)
    /\ (\A p \in Producers: pc[p] \notin {"set last", "advance"}) /\ n > 0 => last = c[n]

\* The main loop takes out the first record.
TakeFits(n, c) ==
    /\ pc[Main] \in {"read next", "swing"} => n > 0 /\ record[Main] = c[1]
    /\ pc[Main] = "swing" => next = IF n = 1 THEN NULL ELSE c[2]
    /\ message[Main] # NULL <=> pc[Main] \in {"free record", "receive"}

\* Every record that is taken is in the list or in one pair of hands.
RecordFits(p, n, c) ==
    /\ record[p] \in Cells(n, c) <=> pc[p] \in Linked
    /\ pc[p] \in Inserting => data[record[p]] = message[p]
    /\ pc[p] \in {"set first", "append"} => link[record[p]] = NULL
Distinct == \A p, q \in Producers: record[p] = record[q] /\ record[p] # NULL => p = q
Records(n, c) ==
    /\ Distinct /\ \A p \in Producers: RecordFits(p, n, c)
    /\ pc[Main] = "free record" =>
          record[Main] \notin Cells(n, c) /\ \A p \in Producers: record[p] # record[Main]
    /\ taken["queue"] = Cells(n, c) \cup ({record[d]: d \in Contexts} \ {NULL})

\* Every message that is taken is in the list, in one pair of hands, or the UART's.
Own(p) == IF pc[p] \in Linked THEN {} ELSE {message[p]} \ {NULL}
Buffered(p) == {buffer[p]} \ {NULL}
Apart ==
    \A p, q \in Producers:
        /\ p # q => Own(p) \cap Own(q) = {} /\ Buffered(p) \cap Buffered(q) = {}
        /\ Own(p) \cap Buffered(q) = {}
Messages(n, c) ==
    /\ \A i, j \in 1..n: data[c[i]] = data[c[j]] => i = j
    /\ Apart
    /\ Writing \cap Reading = {} /\ (Writing \cup Reading) \cap Contents(n, c) = {}
    /\ taken["region"] = Contents(n, c) \cup Writing \cup Reading

Sound(n, c) ==
    /\ n \in Nat /\ c \in [1..n -> Segments]
    /\ Chain(n, c) /\ LastFits(n, c) /\ TakeFits(n, c) /\ Records(n, c) /\ Messages(n, c)

Orderly == Clear /\ \E n, c: Sound(n, c)
Inv == Basics /\ (~raced => Orderly)

-----------------------------------------------------------------------------
(* What each context has at hand.                                          *)

LEMMA Constants ==
    /\ PoolSize \in Nat \ {0} /\ Retries \in Nat \ {0} /\ MaxUnread \in Nat
    /\ Main = 0 /\ Main \in Contexts /\ Main \notin Producers
    /\ Producers \subseteq Nat \ {0} /\ Contexts = {Main} \cup Producers
    /\ \A p \in Producers: p \in Contexts /\ p # Main
    /\ Segments \subseteq Nat /\ NULL = -1 /\ NULL \notin Segments /\ 0 \in Segments
BY QueueAssumption DEF Main, Contexts, Segments, NULL

LEMMA Sizes == PoolSize \in Nat /\ PoolSize > 0 /\ Retries \in Nat /\ Retries > 0
BY QueueAssumption

LEMMA AfterInRange == \A i \in Segments: After(i) \in Segments
BY QueueAssumption DEF After, Segments

\* A step of one context.
Quiet(p) == panic = "no" /\ \A d \in Contexts: d > p => pc[d] = "idle"
Alone(p) ==
    /\ \A d \in Contexts \ {p}:
          pc'[d] = pc[d] /\ tries'[d] = tries[d] /\ message'[d] = message[d] /\ record'[d] = record[d]
    /\ \A q \in Producers \ {p}: buffer'[q] = buffer[q]

\* Before Main takes a step the others have nothing to do.
LEMMA MainIsLast == Quiet(Main) => \A p \in Producers: pc[p] = "idle"
BY Constants DEF Quiet

LEMMA OthersAreLower ==
    ASSUME NEW p \in Producers, NEW q \in Producers, Quiet(p), q # p, pc[q] # "idle"
    PROVE  q < p
<1>1. p \in Int /\ q \in Int /\ q \in Contexts
    BY Constants
<1>2. ~(q > p)
    BY <1>1 DEF Quiet
<1> QED BY <1>1, <1>2

LEMMA HandsStep ==
    ASSUME LocalsFit, NEW p \in Producers, Alone(p), HandFits(p)',
           first # NULL => first' = first, last # NULL => last' # NULL
    PROVE  LocalsFit'
<1>1. MainFits'
  <2>1. MainFits /\ pc'[Main] = pc[Main] /\ record'[Main] = record[Main]
      BY Constants DEF LocalsFit, Alone
  <2> QED BY <2>1 DEF MainFits
<1>2. ASSUME NEW q \in Producers, q # p PROVE HandFits(q)'
  <2>1. HandFits(q) /\ (first # NULL => first' # NULL)
      BY DEF LocalsFit
  <2>2. /\ pc'[q] = pc[q] /\ tries'[q] = tries[q] /\ message'[q] = message[q]
        /\ record'[q] = record[q] /\ buffer'[q] = buffer[q]
      BY <1>2, Constants DEF Alone
  <2> QED BY <2>1, <2>2 DEF HandFits
<1> QED BY <1>1, <1>2 DEF LocalsFit

LEMMA MainStep ==
    ASSUME LocalsFit, Quiet(Main), Alone(Main), MainFits'
    PROVE  LocalsFit'
<1> SUFFICES ASSUME NEW q \in Producers PROVE HandFits(q)'
    BY DEF LocalsFit
<1>1. HandFits(q) /\ pc[q] = "idle"
    BY MainIsLast DEF LocalsFit
<1>2. /\ pc'[q] = pc[q] /\ tries'[q] = tries[q] /\ message'[q] = message[q]
      /\ record'[q] = record[q] /\ buffer'[q] = buffer[q]
    BY Constants DEF Alone
<1> QED BY <1>1, <1>2 DEF HandFits

LEMMA CountsStep ==
    ASSUME Counts, panic = "no", NEW p \in Contexts, Alone(p),
           panic' = "no" => tries'[p] < IF pc'[p] \in Allocating THEN PoolSize ELSE Retries
    PROVE  Counts'
<1> SUFFICES ASSUME panic' = "no", NEW d \in Contexts
             PROVE  tries'[d] < IF pc'[d] \in Allocating THEN PoolSize ELSE Retries
    BY DEF Counts
<1>1. CASE d = p
    BY <1>1
<1>2. CASE d # p
    BY <1>2 DEF Counts, Alone
<1> QED BY <1>1, <1>2

\* The parts of TypeOK.
PoolTypes == taken \in [Pools -> SUBSET Segments] /\ idx \in [Pools -> Segments]
FifoTypes ==
    /\ first \in Segments \cup {NULL} /\ last \in Segments \cup {NULL}
    /\ next \in Segments \cup {NULL}
    /\ link \in [Segments -> Segments \cup {NULL}]
    /\ data \in [Segments -> Segments \cup {NULL}]
PcType == pc \in [Contexts -> PcValues]
TryTypes == tried \in [Contexts -> Segments] /\ tries \in [Contexts -> 0 .. PoolSize + Retries]
HandTypes ==
    /\ message \in [Contexts -> Segments \cup {NULL}]
    /\ record \in [Contexts -> Segments \cup {NULL}]
    /\ buffer \in [Producers -> Segments \cup {NULL}]
RestTypes ==
    /\ newMessage \in BOOLEAN /\ raced \in BOOLEAN
    /\ panic \in {"no", "no space", "no insert", "no take", "NULL read"}

LEMMA Types ==
    TypeOK <=> PoolTypes /\ FifoTypes /\ PcType /\ TryTypes /\ HandTypes /\ RestTypes
BY DEF TypeOK, PoolTypes, FifoTypes, PcType, TryTypes, HandTypes, RestTypes

LEMMA TypesNext ==
    PoolTypes' /\ FifoTypes' /\ PcType' /\ TryTypes' /\ HandTypes' /\ RestTypes' => TypeOK'
BY Types, PTL

\* What a step leaves alone.
Keeps(p) ==
    /\ message'[p] = message[p] /\ record'[p] = record[p]
    /\ p \in Producers => buffer'[p] = buffer[p]
Unlisted == UNCHANGED <<first, last, link, data, taken, next>>

LEMMA TriesFit ==
    ASSUME Basics, panic = "no", NEW d \in Contexts
    PROVE  /\ tries[d] \in Nat /\ tries[d] + 1 \in 0 .. PoolSize + Retries
           /\ pc[d] \in Allocating => tries[d] < PoolSize
           /\ pc[d] \notin Allocating => tries[d] < Retries
<1>1. tries \in [Contexts -> 0 .. PoolSize + Retries]
    BY Types DEF Basics, TryTypes
<1>2. tries[d] \in 0 .. PoolSize + Retries
    BY <1>1
<1>3. tries[d] < IF pc[d] \in Allocating THEN PoolSize ELSE Retries
    BY DEF Basics, Counts
<1>4. CASE pc[d] \in Allocating
    BY <1>2, <1>3, <1>4, Sizes
<1>5. CASE pc[d] \notin Allocating
    BY <1>2, <1>3, <1>5, Sizes
<1> QED BY <1>4, <1>5

LEMMA ReceivesStep ==
    ASSUME Basics, NEW p \in Producers, Receives(p)
    PROVE  /\ Basics' /\ Alone(p) /\ Quiet(p)
           /\ pc[p] = "idle" /\ pc'[p] = "pick region" /\ Keeps(p) /\ Unlisted /\ raced' = raced
<1>1. /\ PoolTypes /\ FifoTypes /\ PcType /\ TryTypes /\ HandTypes /\ RestTypes
      /\ LocalsFit /\ Counts
    BY Types DEF Basics
<1>2. Quiet(p) /\ pc[p] = "idle" /\ p \in Contexts
    BY Constants DEF Receives, At, MayRun, Quiet
<1>3. HandFits(p) /\ panic = "no"
    BY <1>1, <1>2 DEF LocalsFit, Quiet
<1>4. /\ pc' = [pc EXCEPT ![p] = "pick region"]
      /\ UNCHANGED <<tries, tried, message, record, buffer, first, last, next, link, data,
                     taken, idx, panic, newMessage, raced>>
    BY <1>1, <1>2, <1>3 DEF Receives, pools, fifo, locals, GoTo
<1>5. /\ pc'[p] = "pick region"
      /\ tries'[p] = tries[p]
      /\ tried'[p] = tried[p]
      /\ message'[p] = message[p]
      /\ record'[p] = record[p]
      /\ buffer'[p] = buffer[p]
      /\ Alone(p)
    BY <1>1, <1>2, <1>4, Constants DEF PcType, TryTypes, HandTypes, Alone
<1>6. PcType'
    BY <1>1, <1>2, <1>4 DEF PcType, PcValues
<1>7. PoolTypes' /\ FifoTypes' /\ TryTypes' /\ HandTypes' /\ RestTypes'
    BY <1>1, <1>4 DEF PoolTypes, FifoTypes, TryTypes, HandTypes, RestTypes
<1>8. TypeOK'
    BY <1>6, <1>7, TypesNext
<1>9. HandFits(p)'
    BY <1>2, <1>3, <1>4, <1>5 DEF HandFits, Carrying, Linked, Recording, Inserting
<1>10. LocalsFit'
    BY <1>1, <1>4, <1>5, <1>9, HandsStep
<1>11. panic' = "no" => tries'[p] < IF pc'[p] \in Allocating THEN PoolSize ELSE Retries
    BY <1>1, <1>2, <1>3, <1>4, <1>5, Sizes DEF Allocating, Counts, HandFits
<1>12. Counts'
    BY <1>1, <1>2, <1>3, <1>5, <1>11, CountsStep
<1> QED BY <1>1, <1>2, <1>4, <1>5, <1>8, <1>10, <1>12 DEF Basics, Keeps, Unlisted

LEMMA PickRegionStep ==
    ASSUME Basics, NEW p \in Producers, PickRegion(p)
    PROVE  /\ Basics' /\ Alone(p) /\ Quiet(p)
           /\ pc[p] = "pick region" /\ pc'[p] = "claim region" /\ Keeps(p) /\ Unlisted /\ raced' = raced
<1>1. /\ PoolTypes /\ FifoTypes /\ PcType /\ TryTypes /\ HandTypes /\ RestTypes
      /\ LocalsFit /\ Counts
    BY Types DEF Basics
<1>2. Quiet(p) /\ pc[p] = "pick region" /\ p \in Contexts
    BY Constants DEF PickRegion, At, MayRun, Quiet
<1>3. HandFits(p) /\ panic = "no"
    BY <1>1, <1>2 DEF LocalsFit, Quiet
<1>4. idx["region"] \in Segments
    BY <1>1 DEF PoolTypes, Pools
<1>5. /\ pc' = [pc EXCEPT ![p] = "claim region"]
      /\ tried' = [tried EXCEPT ![p] = idx["region"]]
      /\ UNCHANGED <<tries, message, record, buffer, first, last, next, link, data, taken, idx,
                     panic, newMessage, raced>>
    BY <1>1, <1>2, <1>3, <1>4 DEF PickRegion, Pick, pools, fifo, locals, GoTo
<1>6. /\ pc'[p] = "claim region"
      /\ tries'[p] = tries[p]
      /\ tried'[p] = idx["region"]
      /\ message'[p] = message[p]
      /\ record'[p] = record[p]
      /\ buffer'[p] = buffer[p]
      /\ Alone(p)
    BY <1>1, <1>2, <1>5, Constants DEF PcType, TryTypes, HandTypes, Alone
<1>7. PcType'
    BY <1>1, <1>2, <1>5 DEF PcType, PcValues
<1>8. TryTypes'
    BY <1>1, <1>2, <1>5, <1>4 DEF TryTypes
<1>9. PoolTypes' /\ FifoTypes' /\ HandTypes' /\ RestTypes'
    BY <1>1, <1>5 DEF PoolTypes, FifoTypes, HandTypes, RestTypes
<1>10. TypeOK'
    BY <1>7, <1>8, <1>9, TypesNext
<1>11. HandFits(p)'
    BY <1>2, <1>3, <1>4, <1>5, <1>6 DEF HandFits, Carrying, Linked, Recording, Inserting
<1>12. LocalsFit'
    BY <1>1, <1>5, <1>6, <1>11, HandsStep
<1>13. panic' = "no" => tries'[p] < IF pc'[p] \in Allocating THEN PoolSize ELSE Retries
    BY <1>1, <1>2, <1>3, <1>5, <1>6, Sizes DEF Allocating, Counts, HandFits
<1>14. Counts'
    BY <1>1, <1>2, <1>3, <1>6, <1>13, CountsStep
<1> QED BY <1>1, <1>2, <1>5, <1>6, <1>10, <1>12, <1>14, <1>4 DEF Basics, Keeps, Unlisted

LEMMA PickRecordStep ==
    ASSUME Basics, NEW p \in Producers, PickRecord(p)
    PROVE  /\ Basics' /\ Alone(p) /\ Quiet(p)
           /\ pc[p] = "pick queue" /\ pc'[p] = "claim queue" /\ Keeps(p) /\ Unlisted /\ raced' = raced
<1>1. /\ PoolTypes /\ FifoTypes /\ PcType /\ TryTypes /\ HandTypes /\ RestTypes
      /\ LocalsFit /\ Counts
    BY Types DEF Basics
<1>2. Quiet(p) /\ pc[p] = "pick queue" /\ p \in Contexts
    BY Constants DEF PickRecord, At, MayRun, Quiet
<1>3. HandFits(p) /\ panic = "no"
    BY <1>1, <1>2 DEF LocalsFit, Quiet
<1>4. idx["queue"] \in Segments
    BY <1>1 DEF PoolTypes, Pools
<1>5. /\ pc' = [pc EXCEPT ![p] = "claim queue"]
      /\ tried' = [tried EXCEPT ![p] = idx["queue"]]
      /\ UNCHANGED <<tries, message, record, buffer, first, last, next, link, data, taken, idx,
                     panic, newMessage, raced>>
    BY <1>1, <1>2, <1>3, <1>4 DEF PickRecord, Pick, pools, fifo, locals, GoTo
<1>6. /\ pc'[p] = "claim queue"
      /\ tries'[p] = tries[p]
      /\ tried'[p] = idx["queue"]
      /\ message'[p] = message[p]
      /\ record'[p] = record[p]
      /\ buffer'[p] = buffer[p]
      /\ Alone(p)
    BY <1>1, <1>2, <1>5, Constants DEF PcType, TryTypes, HandTypes, Alone
<1>7. PcType'
    BY <1>1, <1>2, <1>5 DEF PcType, PcValues
<1>8. TryTypes'
    BY <1>1, <1>2, <1>5, <1>4 DEF TryTypes
<1>9. PoolTypes' /\ FifoTypes' /\ HandTypes' /\ RestTypes'
    BY <1>1, <1>5 DEF PoolTypes, FifoTypes, HandTypes, RestTypes
<1>10. TypeOK'
    BY <1>7, <1>8, <1>9, TypesNext
<1>11. HandFits(p)'
    BY <1>2, <1>3, <1>4, <1>5, <1>6 DEF HandFits, Carrying, Linked, Recording, Inserting
<1>12. LocalsFit'
    BY <1>1, <1>5, <1>6, <1>11, HandsStep
<1>13. panic' = "no" => tries'[p] < IF pc'[p] \in Allocating THEN PoolSize ELSE Retries
    BY <1>1, <1>2, <1>3, <1>5, <1>6, Sizes DEF Allocating, Counts, HandFits
<1>14. Counts'
    BY <1>1, <1>2, <1>3, <1>6, <1>13, CountsStep
<1> QED BY <1>1, <1>2, <1>5, <1>6, <1>10, <1>12, <1>14, <1>4 DEF Basics, Keeps, Unlisted

LEMMA ClaimRegionStep ==
    ASSUME Basics, NEW p \in Producers, ClaimRegion(p)
    PROVE  /\ Basics' /\ Alone(p) /\ Quiet(p)
           /\ pc[p] = "claim region" /\ UNCHANGED <<first, last, link, data, next, raced>>
           /\ \/ pc'[p] = "pick region" /\ Keeps(p) /\ taken' = taken
              \/ /\ pc'[p] = "pick queue" /\ record'[p] = record[p]
                 /\ tried[p] \in Segments /\ tried[p] \notin taken["region"]
                 /\ message'[p] = IF p \in Swapping THEN buffer[p] ELSE tried[p]
                 /\ buffer'[p] = IF p \in Swapping THEN tried[p] ELSE buffer[p]
                 /\ taken' = [taken EXCEPT !["region"] = taken["region"] \cup {tried[p]}]
<1>1. /\ PoolTypes /\ FifoTypes /\ PcType /\ TryTypes /\ HandTypes /\ RestTypes
      /\ LocalsFit /\ Counts
    BY Types DEF Basics
<1>2. Quiet(p) /\ pc[p] = "claim region" /\ p \in Contexts
    BY Constants DEF ClaimRegion, At, MayRun, Quiet
<1>3. HandFits(p) /\ panic = "no"
    BY <1>1, <1>2 DEF LocalsFit, Quiet
<1>4. tries[p] \in Nat /\ tries[p] < PoolSize /\ tries[p] + 1 \in 0 .. PoolSize + Retries
    BY <1>2, <1>3, TriesFit DEF Allocating
<1>5. tried[p] \in Segments /\ After(tried[p]) \in Segments /\ "region" \in Pools
    BY <1>1, <1>2, AfterInRange DEF TryTypes, Pools
<1>6. 0 \in 0 .. PoolSize + Retries
    BY Sizes
<1>7. CASE tried[p] \in taken["region"]
  <2>1. /\ pc' = [pc EXCEPT ![p] = "pick region"]
        /\ tries' = [tries EXCEPT ![p] = tries[p] + 1]
        /\ idx' = [idx EXCEPT !["region"] = After(tried[p])]
        /\ panic' = IF tries[p] + 1 = PoolSize THEN "no space" ELSE panic
        /\ UNCHANGED <<tried, message, record, buffer, first, last, next, link, data, taken,
                       newMessage, raced>>
      BY <1>1, <1>2, <1>3, <1>4, <1>5, <1>6, <1>7 DEF ClaimRegion, pools, fifo, locals, GoTo,
         Claim, Claimed, OutOfTries, PoolTypes, TryTypes, PcType
  <2>2. /\ pc'[p] = "pick region"
        /\ tries'[p] = tries[p] + 1
        /\ tried'[p] = tried[p]
        /\ message'[p] = message[p]
        /\ record'[p] = record[p]
        /\ buffer'[p] = buffer[p]
        /\ Alone(p)
      BY <1>1, <1>2, <2>1, Constants DEF PcType, TryTypes, HandTypes, Alone
  <2>3. PoolTypes'
      BY <1>1, <1>2, <2>1, <1>5 DEF PoolTypes
  <2>4. PcType'
      BY <1>1, <1>2, <2>1 DEF PcType, PcValues
  <2>5. TryTypes'
      BY <1>1, <1>2, <2>1, <1>4 DEF TryTypes
  <2>6. RestTypes'
      BY <1>1, <1>2, <2>1 DEF RestTypes
  <2>7. FifoTypes' /\ HandTypes'
      BY <1>1, <2>1 DEF FifoTypes, HandTypes
  <2>8. TypeOK'
      BY <2>3, <2>4, <2>5, <2>6, <2>7, TypesNext
  <2>9. HandFits(p)'
      BY <1>2, <1>3, <1>4, <1>5, <1>6, <1>7, <2>1, <2>2 DEF HandFits, Carrying, Linked,
         Recording, Inserting
  <2>10. LocalsFit'
      BY <1>1, <2>1, <2>2, <2>9, HandsStep
  <2>11. panic' = IF tries[p] + 1 = PoolSize THEN "no space" ELSE panic
      BY <2>1
  <2>12. panic' = "no" => tries[p] + 1 < PoolSize
      BY <1>4, <2>11, Sizes
  <2>13. panic' = "no" => tries'[p] < IF pc'[p] \in Allocating THEN PoolSize ELSE Retries
      BY <1>1, <1>2, <1>3, <2>1, <2>2, Sizes, <2>12 DEF Allocating, Counts, HandFits
  <2>14. Counts'
      BY <1>1, <1>2, <1>3, <2>2, <2>13, CountsStep
  <2> QED BY <1>1, <1>2, <2>1, <2>2, <2>8, <2>10, <2>14, <1>4, <1>5, <1>6, <1>7
             DEF Basics, Keeps, Unlisted
<1>8. CASE tried[p] \notin taken["region"]
  <2>1. /\ pc' = [pc EXCEPT ![p] = "pick queue"]
        /\ tries' = [tries EXCEPT ![p] = 0]
        /\ message' = [message EXCEPT ![p] = IF p \in Swapping THEN buffer[p] ELSE tried[p]]
        /\ buffer' = [buffer EXCEPT ![p] = IF p \in Swapping THEN tried[p] ELSE buffer[p]]
        /\ taken' = [taken EXCEPT !["region"] = taken["region"] \cup {tried[p]}]
        /\ idx' = [idx EXCEPT !["region"] = After(tried[p])]
        /\ UNCHANGED <<tried, record, first, last, next, link, data, panic, newMessage, raced>>
      BY <1>1, <1>2, <1>3, <1>4, <1>5, <1>6, <1>8 DEF ClaimRegion, pools, fifo, locals, GoTo,
         Claim, Claimed, OutOfTries, PoolTypes, TryTypes, PcType, HandTypes
  <2>2. /\ pc'[p] = "pick queue"
        /\ tries'[p] = 0
        /\ tried'[p] = tried[p]
        /\ message'[p] = IF p \in Swapping THEN buffer[p] ELSE tried[p]
        /\ record'[p] = record[p]
        /\ buffer'[p] = IF p \in Swapping THEN tried[p] ELSE buffer[p]
        /\ Alone(p)
      BY <1>1, <1>2, <2>1, Constants DEF PcType, TryTypes, HandTypes, Alone
  <2>3. PoolTypes'
      BY <1>1, <1>2, <2>1, <1>5 DEF PoolTypes
  <2>4. PcType'
      BY <1>1, <1>2, <2>1 DEF PcType, PcValues
  <2>5. TryTypes'
      BY <1>1, <1>2, <2>1, <1>6 DEF TryTypes
  <2>6. HandTypes'
      BY <1>1, <1>2, <2>1, <1>5 DEF HandTypes
  <2>7. FifoTypes' /\ RestTypes'
      BY <1>1, <2>1 DEF FifoTypes, RestTypes
  <2>8. TypeOK'
      BY <2>3, <2>4, <2>5, <2>6, <2>7, TypesNext
  <2>9. HandFits(p)'
      BY <1>2, <1>3, <1>4, <1>5, <1>6, <1>8, <2>1, <2>2, <1>5, Constants
         DEF HandFits, Carrying, Linked, Recording, Inserting
  <2>10. LocalsFit'
      BY <1>1, <2>1, <2>2, <2>9, HandsStep
  <2>11. panic' = "no" => tries'[p] < IF pc'[p] \in Allocating THEN PoolSize ELSE Retries
      BY <1>1, <1>2, <1>3, <2>1, <2>2, Sizes DEF Allocating, Counts, HandFits
  <2>12. Counts'
      BY <1>1, <1>2, <1>3, <2>2, <2>11, CountsStep
  <2> QED BY <1>1, <1>2, <2>1, <2>2, <2>8, <2>10, <2>12, <1>4, <1>5, <1>6, <1>8
             DEF Basics, Keeps, Unlisted
<1> QED BY <1>7, <1>8

LEMMA ClaimRecordStep ==
    ASSUME Basics, NEW p \in Producers, ClaimRecord(p)
    PROVE  /\ Basics' /\ Alone(p) /\ Quiet(p)
           /\ pc[p] = "claim queue" /\ UNCHANGED <<first, last, link, data, next, raced>>
           /\ \/ pc'[p] = "pick queue" /\ Keeps(p) /\ taken' = taken
              \/ /\ pc'[p] = "look" /\ message'[p] = message[p] /\ buffer'[p] = buffer[p]
                 /\ tried[p] \in Segments /\ tried[p] \notin taken["queue"]
                 /\ record'[p] = tried[p]
                 /\ taken' = [taken EXCEPT !["queue"] = taken["queue"] \cup {tried[p]}]
<1>1. /\ PoolTypes /\ FifoTypes /\ PcType /\ TryTypes /\ HandTypes /\ RestTypes
      /\ LocalsFit /\ Counts
    BY Types DEF Basics
<1>2. Quiet(p) /\ pc[p] = "claim queue" /\ p \in Contexts
    BY Constants DEF ClaimRecord, At, MayRun, Quiet
<1>3. HandFits(p) /\ panic = "no"
    BY <1>1, <1>2 DEF LocalsFit, Quiet
<1>4. tries[p] \in Nat /\ tries[p] < PoolSize /\ tries[p] + 1 \in 0 .. PoolSize + Retries
    BY <1>2, <1>3, TriesFit DEF Allocating
<1>5. tried[p] \in Segments /\ After(tried[p]) \in Segments /\ "queue" \in Pools
    BY <1>1, <1>2, AfterInRange DEF TryTypes, Pools
<1>6. 0 \in 0 .. PoolSize + Retries
    BY Sizes
<1>7. CASE tried[p] \in taken["queue"]
  <2>1. /\ pc' = [pc EXCEPT ![p] = "pick queue"]
        /\ tries' = [tries EXCEPT ![p] = tries[p] + 1]
        /\ idx' = [idx EXCEPT !["queue"] = After(tried[p])]
        /\ panic' = IF tries[p] + 1 = PoolSize THEN "no space" ELSE panic
        /\ UNCHANGED <<tried, message, record, buffer, first, last, next, link, data, taken,
                       newMessage, raced>>
      BY <1>1, <1>2, <1>3, <1>4, <1>5, <1>6, <1>7 DEF ClaimRecord, pools, fifo, locals, GoTo,
         Claim, Claimed, OutOfTries, PoolTypes, TryTypes, PcType
  <2>2. /\ pc'[p] = "pick queue"
        /\ tries'[p] = tries[p] + 1
        /\ tried'[p] = tried[p]
        /\ message'[p] = message[p]
        /\ record'[p] = record[p]
        /\ buffer'[p] = buffer[p]
        /\ Alone(p)
      BY <1>1, <1>2, <2>1, Constants DEF PcType, TryTypes, HandTypes, Alone
  <2>3. PoolTypes'
      BY <1>1, <1>2, <2>1, <1>5 DEF PoolTypes
  <2>4. PcType'
      BY <1>1, <1>2, <2>1 DEF PcType, PcValues
  <2>5. TryTypes'
      BY <1>1, <1>2, <2>1, <1>4 DEF TryTypes
  <2>6. RestTypes'
      BY <1>1, <1>2, <2>1 DEF RestTypes
  <2>7. FifoTypes' /\ HandTypes'
      BY <1>1, <2>1 DEF FifoTypes, HandTypes
  <2>8. TypeOK'
      BY <2>3, <2>4, <2>5, <2>6, <2>7, TypesNext
  <2>9. HandFits(p)'
      BY <1>2, <1>3, <1>4, <1>5, <1>6, <1>7, <2>1, <2>2 DEF HandFits, Carrying, Linked,
         Recording, Inserting
  <2>10. LocalsFit'
      BY <1>1, <2>1, <2>2, <2>9, HandsStep
  <2>11. panic' = IF tries[p] + 1 = PoolSize THEN "no space" ELSE panic
      BY <2>1
  <2>12. panic' = "no" => tries[p] + 1 < PoolSize
      BY <1>4, <2>11, Sizes
  <2>13. panic' = "no" => tries'[p] < IF pc'[p] \in Allocating THEN PoolSize ELSE Retries
      BY <1>1, <1>2, <1>3, <2>1, <2>2, Sizes, <2>12 DEF Allocating, Counts, HandFits
  <2>14. Counts'
      BY <1>1, <1>2, <1>3, <2>2, <2>13, CountsStep
  <2> QED BY <1>1, <1>2, <2>1, <2>2, <2>8, <2>10, <2>14, <1>4, <1>5, <1>6, <1>7
             DEF Basics, Keeps, Unlisted
<1>8. CASE tried[p] \notin taken["queue"]
  <2>1. /\ pc' = [pc EXCEPT ![p] = "look"]
        /\ tries' = [tries EXCEPT ![p] = 0]
        /\ record' = [record EXCEPT ![p] = tried[p]]
        /\ taken' = [taken EXCEPT !["queue"] = taken["queue"] \cup {tried[p]}]
        /\ idx' = [idx EXCEPT !["queue"] = After(tried[p])]
        /\ UNCHANGED <<tried, message, buffer, first, last, next, link, data, panic, newMessage,
                       raced>>
      BY <1>1, <1>2, <1>3, <1>4, <1>5, <1>6, <1>8 DEF ClaimRecord, pools, fifo, locals, GoTo,
         Claim, Claimed, OutOfTries, PoolTypes, TryTypes, PcType, HandTypes
  <2>2. /\ pc'[p] = "look"
        /\ tries'[p] = 0
        /\ tried'[p] = tried[p]
        /\ message'[p] = message[p]
        /\ record'[p] = tried[p]
        /\ buffer'[p] = buffer[p]
        /\ Alone(p)
      BY <1>1, <1>2, <2>1, Constants DEF PcType, TryTypes, HandTypes, Alone
  <2>3. PoolTypes'
      BY <1>1, <1>2, <2>1, <1>5 DEF PoolTypes
  <2>4. PcType'
      BY <1>1, <1>2, <2>1 DEF PcType, PcValues
  <2>5. TryTypes'
      BY <1>1, <1>2, <2>1, <1>6 DEF TryTypes
  <2>6. HandTypes'
      BY <1>1, <1>2, <2>1, <1>5 DEF HandTypes
  <2>7. FifoTypes' /\ RestTypes'
      BY <1>1, <2>1 DEF FifoTypes, RestTypes
  <2>8. TypeOK'
      BY <2>3, <2>4, <2>5, <2>6, <2>7, TypesNext
  <2>9. HandFits(p)'
      BY <1>2, <1>3, <1>4, <1>5, <1>6, <1>8, <2>1, <2>2, <1>5, Constants
         DEF HandFits, Carrying, Linked, Recording, Inserting
  <2>10. LocalsFit'
      BY <1>1, <2>1, <2>2, <2>9, HandsStep
  <2>11. panic' = "no" => tries'[p] < IF pc'[p] \in Allocating THEN PoolSize ELSE Retries
      BY <1>1, <1>2, <1>3, <2>1, <2>2, Sizes DEF Allocating, Counts, HandFits
  <2>12. Counts'
      BY <1>1, <1>2, <1>3, <2>2, <2>11, CountsStep
  <2> QED BY <1>1, <1>2, <2>1, <2>2, <2>8, <2>10, <2>12, <1>4, <1>5, <1>6, <1>8
             DEF Basics, Keeps, Unlisted
<1> QED BY <1>7, <1>8

LEMMA LookStep ==
    ASSUME Basics, NEW p \in Producers, Look(p)
    PROVE  /\ Basics' /\ Alone(p) /\ Quiet(p)
           /\ pc[p] = "look" /\ Keeps(p) /\ UNCHANGED <<first, last, next, taken>>
           /\ pc'[p] = IF first = NULL THEN "set first" ELSE "append"
           /\ record[p] \in Segments /\ message[p] \in Segments
           /\ data' = [data EXCEPT ![record[p]] = message[p]]
           /\ link' = [link EXCEPT ![record[p]] = NULL]
           /\ raced' = (raced \/ Window(p))
<1>1. /\ PoolTypes /\ FifoTypes /\ PcType /\ TryTypes /\ HandTypes /\ RestTypes
      /\ LocalsFit /\ Counts
    BY Types DEF Basics
<1>2. Quiet(p) /\ pc[p] = "look" /\ p \in Contexts
    BY Constants DEF Look, At, MayRun, Quiet
<1>3. HandFits(p) /\ panic = "no"
    BY <1>1, <1>2 DEF LocalsFit, Quiet
<1>4. record[p] \in Segments /\ message[p] \in Segments
    BY <1>1, <1>2, <1>3 DEF HandTypes, HandFits, Recording, Inserting, Carrying
<1>5. (raced \/ Window(p)) \in BOOLEAN
    BY <1>1 DEF RestTypes
<1>6. CASE first = NULL
  <2>1. /\ pc' = [pc EXCEPT ![p] = "set first"]
        /\ link' = [link EXCEPT ![record[p]] = NULL]
        /\ data' = [data EXCEPT ![record[p]] = message[p]]
        /\ raced' = (raced \/ Window(p))
        /\ UNCHANGED <<tries, tried, message, record, buffer, first, last, next, taken, idx,
                       panic, newMessage>>
      BY <1>1, <1>2, <1>3, <1>4, <1>5, <1>6 DEF Look, pools, fifo, locals, GoTo
  <2>2. /\ pc'[p] = "set first"
        /\ tries'[p] = tries[p]
        /\ tried'[p] = tried[p]
        /\ message'[p] = message[p]
        /\ record'[p] = record[p]
        /\ buffer'[p] = buffer[p]
        /\ Alone(p)
      BY <1>1, <1>2, <2>1, Constants DEF PcType, TryTypes, HandTypes, Alone
  <2>3. FifoTypes'
      BY <1>1, <1>2, <2>1, <1>4 DEF FifoTypes
  <2>4. PcType'
      BY <1>1, <1>2, <2>1 DEF PcType, PcValues
  <2>5. RestTypes'
      BY <1>1, <1>2, <2>1, <1>5 DEF RestTypes
  <2>6. PoolTypes' /\ TryTypes' /\ HandTypes'
      BY <1>1, <2>1 DEF PoolTypes, TryTypes, HandTypes
  <2>7. TypeOK'
      BY <2>3, <2>4, <2>5, <2>6, TypesNext
  <2>8. HandFits(p)'
      BY <1>2, <1>3, <1>4, <1>5, <1>6, <2>1, <2>2 DEF HandFits, Carrying, Linked, Recording,
         Inserting
  <2>9. LocalsFit'
      BY <1>1, <2>1, <2>2, <2>8, HandsStep
  <2>10. panic' = "no" => tries'[p] < IF pc'[p] \in Allocating THEN PoolSize ELSE Retries
      BY <1>1, <1>2, <1>3, <2>1, <2>2, Sizes DEF Allocating, Counts, HandFits
  <2>11. Counts'
      BY <1>1, <1>2, <1>3, <2>2, <2>10, CountsStep
  <2> QED BY <1>1, <1>2, <2>1, <2>2, <2>7, <2>9, <2>11, <1>4, <1>5, <1>6
             DEF Basics, Keeps, Unlisted
<1>7. CASE first # NULL
  <2>1. /\ pc' = [pc EXCEPT ![p] = "append"]
        /\ link' = [link EXCEPT ![record[p]] = NULL]
        /\ data' = [data EXCEPT ![record[p]] = message[p]]
        /\ raced' = (raced \/ Window(p))
        /\ UNCHANGED <<tries, tried, message, record, buffer, first, last, next, taken, idx,
                       panic, newMessage>>
      BY <1>1, <1>2, <1>3, <1>4, <1>5, <1>7 DEF Look, pools, fifo, locals, GoTo
  <2>2. /\ pc'[p] = "append"
        /\ tries'[p] = tries[p]
        /\ tried'[p] = tried[p]
        /\ message'[p] = message[p]
        /\ record'[p] = record[p]
        /\ buffer'[p] = buffer[p]
        /\ Alone(p)
      BY <1>1, <1>2, <2>1, Constants DEF PcType, TryTypes, HandTypes, Alone
  <2>3. FifoTypes'
      BY <1>1, <1>2, <2>1, <1>4 DEF FifoTypes
  <2>4. PcType'
      BY <1>1, <1>2, <2>1 DEF PcType, PcValues
  <2>5. RestTypes'
      BY <1>1, <1>2, <2>1, <1>5 DEF RestTypes
  <2>6. PoolTypes' /\ TryTypes' /\ HandTypes'
      BY <1>1, <2>1 DEF PoolTypes, TryTypes, HandTypes
  <2>7. TypeOK'
      BY <2>3, <2>4, <2>5, <2>6, TypesNext
  <2>8. HandFits(p)'
      BY <1>2, <1>3, <1>4, <1>5, <1>7, <2>1, <2>2 DEF HandFits, Carrying, Linked, Recording,
         Inserting
  <2>9. LocalsFit'
      BY <1>1, <2>1, <2>2, <2>8, HandsStep
  <2>10. panic' = "no" => tries'[p] < IF pc'[p] \in Allocating THEN PoolSize ELSE Retries
      BY <1>1, <1>2, <1>3, <2>1, <2>2, Sizes DEF Allocating, Counts, HandFits
  <2>11. Counts'
      BY <1>1, <1>2, <1>3, <2>2, <2>10, CountsStep
  <2> QED BY <1>1, <1>2, <2>1, <2>2, <2>7, <2>9, <2>11, <1>4, <1>5, <1>7
             DEF Basics, Keeps, Unlisted
<1> QED BY <1>6, <1>7

LEMMA SetFirstStep ==
    ASSUME Basics, NEW p \in Producers, SetFirst(p)
    PROVE  /\ Basics' /\ Alone(p) /\ Quiet(p)
           /\ pc[p] = "set first" /\ Keeps(p) /\ UNCHANGED <<last, link, data, taken, next,
                                                             raced>>
           /\ \/ first = NULL /\ pc'[p] = "set last" /\ first' = record[p]
              \/ first # NULL /\ pc'[p] = "look" /\ first' = first
<1>1. /\ PoolTypes /\ FifoTypes /\ PcType /\ TryTypes /\ HandTypes /\ RestTypes
      /\ LocalsFit /\ Counts
    BY Types DEF Basics
<1>2. Quiet(p) /\ pc[p] = "set first" /\ p \in Contexts
    BY Constants DEF SetFirst, At, MayRun, Quiet
<1>3. HandFits(p) /\ panic = "no"
    BY <1>1, <1>2 DEF LocalsFit, Quiet
<1>4. tries[p] \in Nat /\ tries[p] < Retries /\ tries[p] + 1 \in 0 .. PoolSize + Retries
    BY <1>2, <1>3, TriesFit DEF Allocating
<1>5. record[p] \in Segments
    BY <1>1, <1>2, <1>3 DEF HandTypes, HandFits, Recording, Inserting
<1>6. CASE first = NULL
  <2>1. /\ pc' = [pc EXCEPT ![p] = "set last"]
        /\ first' = record[p]
        /\ UNCHANGED <<tries, tried, message, record, buffer, last, next, link, data, taken,
                       idx, panic, newMessage, raced>>
      BY <1>1, <1>2, <1>3, <1>4, <1>5, <1>6 DEF SetFirst, pools, fifo, locals, GoTo, Retry
  <2>2. /\ pc'[p] = "set last"
        /\ tries'[p] = tries[p]
        /\ tried'[p] = tried[p]
        /\ message'[p] = message[p]
        /\ record'[p] = record[p]
        /\ buffer'[p] = buffer[p]
        /\ Alone(p)
      BY <1>1, <1>2, <2>1, Constants DEF PcType, TryTypes, HandTypes, Alone
  <2>3. FifoTypes'
      BY <1>1, <1>2, <2>1, <1>5 DEF FifoTypes
  <2>4. PcType'
      BY <1>1, <1>2, <2>1 DEF PcType, PcValues
  <2>5. PoolTypes' /\ TryTypes' /\ HandTypes' /\ RestTypes'
      BY <1>1, <2>1 DEF PoolTypes, TryTypes, HandTypes, RestTypes
  <2>6. TypeOK'
      BY <2>3, <2>4, <2>5, TypesNext
  <2>7. HandFits(p)'
      BY <1>2, <1>3, <1>4, <1>5, <1>6, <2>1, <2>2, <1>5, Constants
         DEF HandFits, Carrying, Linked, Recording, Inserting
  <2>8. (first # NULL => first' = first) /\ (last # NULL => last' # NULL)
      BY <1>2, <1>3, <1>4, <1>5, <1>6, <2>1, Constants DEF HandFits
  <2>9. LocalsFit'
      BY <1>1, <2>1, <2>2, <2>7, <2>8, HandsStep
  <2>10. panic' = "no" => tries'[p] < IF pc'[p] \in Allocating THEN PoolSize ELSE Retries
      BY <1>1, <1>2, <1>3, <2>1, <2>2, Sizes DEF Allocating, Counts, HandFits
  <2>11. Counts'
      BY <1>1, <1>2, <1>3, <2>2, <2>10, CountsStep
  <2> QED BY <1>1, <1>2, <2>1, <2>2, <2>6, <2>9, <2>11, <1>4, <1>5, <1>6
             DEF Basics, Keeps, Unlisted
<1>7. CASE first # NULL
  <2>1. /\ pc' = [pc EXCEPT ![p] = "look"]
        /\ tries' = [tries EXCEPT ![p] = tries[p] + 1]
        /\ panic' = IF tries[p] + 1 = Retries THEN "no insert" ELSE panic
        /\ UNCHANGED <<tried, message, record, buffer, first, last, next, link, data, taken,
                       idx, newMessage, raced>>
      BY <1>1, <1>2, <1>3, <1>4, <1>5, <1>7 DEF SetFirst, pools, fifo, locals, GoTo, Retry,
         TryTypes
  <2>2. /\ pc'[p] = "look"
        /\ tries'[p] = tries[p] + 1
        /\ tried'[p] = tried[p]
        /\ message'[p] = message[p]
        /\ record'[p] = record[p]
        /\ buffer'[p] = buffer[p]
        /\ Alone(p)
      BY <1>1, <1>2, <2>1, Constants DEF PcType, TryTypes, HandTypes, Alone
  <2>3. PcType'
      BY <1>1, <1>2, <2>1 DEF PcType, PcValues
  <2>4. TryTypes'
      BY <1>1, <1>2, <2>1, <1>4 DEF TryTypes
  <2>5. RestTypes'
      BY <1>1, <1>2, <2>1 DEF RestTypes
  <2>6. PoolTypes' /\ FifoTypes' /\ HandTypes'
      BY <1>1, <2>1 DEF PoolTypes, FifoTypes, HandTypes
  <2>7. TypeOK'
      BY <2>3, <2>4, <2>5, <2>6, TypesNext
  <2>8. HandFits(p)'
      BY <1>2, <1>3, <1>4, <1>5, <1>7, <2>1, <2>2 DEF HandFits, Carrying, Linked, Recording,
         Inserting
  <2>9. LocalsFit'
      BY <1>1, <2>1, <2>2, <2>8, HandsStep
  <2>10. panic' = IF tries[p] + 1 = Retries THEN "no insert" ELSE panic
      BY <2>1
  <2>11. panic' = "no" => tries[p] + 1 < Retries
      BY <1>4, <2>10, Sizes
  <2>12. panic' = "no" => tries'[p] < IF pc'[p] \in Allocating THEN PoolSize ELSE Retries
      BY <1>1, <1>2, <1>3, <2>1, <2>2, Sizes, <2>11 DEF Allocating, Counts, HandFits
  <2>13. Counts'
      BY <1>1, <1>2, <1>3, <2>2, <2>12, CountsStep
  <2> QED BY <1>1, <1>2, <2>1, <2>2, <2>7, <2>9, <2>13, <1>4, <1>5, <1>7
             DEF Basics, Keeps, Unlisted
<1> QED BY <1>6, <1>7

LEMMA SetLastStep ==
    ASSUME Basics, NEW p \in Producers, SetLast(p)
    PROVE  /\ Basics' /\ Alone(p) /\ Quiet(p)
           /\ pc[p] = "set last" /\ pc'[p] = "announce" /\ Keeps(p)
           /\ last' = first /\ UNCHANGED <<first, link, data, taken, next, raced>>
<1>1. /\ PoolTypes /\ FifoTypes /\ PcType /\ TryTypes /\ HandTypes /\ RestTypes
      /\ LocalsFit /\ Counts
    BY Types DEF Basics
<1>2. Quiet(p) /\ pc[p] = "set last" /\ p \in Contexts
    BY Constants DEF SetLast, At, MayRun, Quiet
<1>3. HandFits(p) /\ panic = "no"
    BY <1>1, <1>2 DEF LocalsFit, Quiet
<1>4. /\ pc' = [pc EXCEPT ![p] = "announce"]
      /\ last' = first
      /\ UNCHANGED <<tries, tried, message, record, buffer, first, next, link, data, taken, idx,
                     panic, newMessage, raced>>
    BY <1>1, <1>2, <1>3 DEF SetLast, pools, fifo, locals, GoTo
<1>5. /\ pc'[p] = "announce"
      /\ tries'[p] = tries[p]
      /\ tried'[p] = tried[p]
      /\ message'[p] = message[p]
      /\ record'[p] = record[p]
      /\ buffer'[p] = buffer[p]
      /\ Alone(p)
    BY <1>1, <1>2, <1>4, Constants DEF PcType, TryTypes, HandTypes, Alone
<1>6. FifoTypes'
    BY <1>1, <1>2, <1>4 DEF FifoTypes
<1>7. PcType'
    BY <1>1, <1>2, <1>4 DEF PcType, PcValues
<1>8. PoolTypes' /\ TryTypes' /\ HandTypes' /\ RestTypes'
    BY <1>1, <1>4 DEF PoolTypes, TryTypes, HandTypes, RestTypes
<1>9. TypeOK'
    BY <1>6, <1>7, <1>8, TypesNext
<1>10. HandFits(p)'
    BY <1>2, <1>3, <1>4, <1>5 DEF HandFits, Carrying, Linked, Recording, Inserting
<1>11. (first # NULL => first' = first) /\ (last # NULL => last' # NULL)
    BY <1>2, <1>3, <1>4, Constants DEF HandFits
<1>12. LocalsFit'
    BY <1>1, <1>4, <1>5, <1>10, <1>11, HandsStep
<1>13. panic' = "no" => tries'[p] < IF pc'[p] \in Allocating THEN PoolSize ELSE Retries
    BY <1>1, <1>2, <1>3, <1>4, <1>5, Sizes DEF Allocating, Counts, HandFits
<1>14. Counts'
    BY <1>1, <1>2, <1>3, <1>5, <1>13, CountsStep
<1> QED BY <1>1, <1>2, <1>4, <1>5, <1>9, <1>12, <1>14 DEF Basics, Keeps, Unlisted

LEMMA AppendRecordStep ==
    ASSUME Basics, NEW p \in Producers, AppendRecord(p)
    PROVE  /\ Basics' /\ Alone(p) /\ Quiet(p)
           /\ pc[p] = "append" /\ Keeps(p) /\ UNCHANGED <<first, last, data, taken, next, raced>>
           /\ \/ /\ last # NULL /\ link[last] = NULL /\ pc'[p] = "advance"
                 /\ link' = [link EXCEPT ![last] = record[p]]
              \/ (last = NULL \/ link[last] # NULL) /\ pc'[p] \in {"look",
                 "append"} /\ link' = link
<1>1. /\ PoolTypes /\ FifoTypes /\ PcType /\ TryTypes /\ HandTypes /\ RestTypes
      /\ LocalsFit /\ Counts
    BY Types DEF Basics
<1>2. Quiet(p) /\ pc[p] = "append" /\ p \in Contexts
    BY Constants DEF AppendRecord, At, MayRun, Quiet
<1>3. HandFits(p) /\ panic = "no"
    BY <1>1, <1>2 DEF LocalsFit, Quiet
<1>4. tries[p] \in Nat /\ tries[p] < Retries /\ tries[p] + 1 \in 0 .. PoolSize + Retries
    BY <1>2, <1>3, TriesFit DEF Allocating
<1>5. record[p] \in Segments
    BY <1>1, <1>2, <1>3 DEF HandTypes, HandFits, Recording, Inserting
<1>6. CASE last # NULL /\ link[last] = NULL
  <2>1. /\ pc' = [pc EXCEPT ![p] = "advance"]
        /\ link' = [link EXCEPT ![last] = record[p]]
        /\ UNCHANGED <<tries, tried, message, record, buffer, first, last, next, data, taken,
                       idx, panic, newMessage, raced>>
      BY <1>1, <1>2, <1>3, <1>4, <1>5, <1>6 DEF AppendRecord, pools, fifo, locals, GoTo, Retry
  <2>2. /\ pc'[p] = "advance"
        /\ tries'[p] = tries[p]
        /\ tried'[p] = tried[p]
        /\ message'[p] = message[p]
        /\ record'[p] = record[p]
        /\ buffer'[p] = buffer[p]
        /\ Alone(p)
      BY <1>1, <1>2, <2>1, Constants DEF PcType, TryTypes, HandTypes, Alone
  <2>3. FifoTypes'
      BY <1>1, <1>2, <2>1, <1>5 DEF FifoTypes
  <2>4. PcType'
      BY <1>1, <1>2, <2>1 DEF PcType, PcValues
  <2>5. PoolTypes' /\ TryTypes' /\ HandTypes' /\ RestTypes'
      BY <1>1, <2>1 DEF PoolTypes, TryTypes, HandTypes, RestTypes
  <2>6. TypeOK'
      BY <2>3, <2>4, <2>5, TypesNext
  <2>7. HandFits(p)'
      BY <1>2, <1>3, <1>4, <1>5, <1>6, <2>1, <2>2 DEF HandFits, Carrying, Linked, Recording,
         Inserting
  <2>8. LocalsFit'
      BY <1>1, <2>1, <2>2, <2>7, HandsStep
  <2>9. panic' = "no" => tries'[p] < IF pc'[p] \in Allocating THEN PoolSize ELSE Retries
      BY <1>1, <1>2, <1>3, <2>1, <2>2, Sizes DEF Allocating, Counts, HandFits
  <2>10. Counts'
      BY <1>1, <1>2, <1>3, <2>2, <2>9, CountsStep
  <2> QED BY <1>1, <1>2, <2>1, <2>2, <2>6, <2>8, <2>10, <1>4, <1>5, <1>6
             DEF Basics, Keeps, Unlisted
<1>7. CASE last # NULL /\ link[last] # NULL
  <2>1. /\ pc' = [pc EXCEPT ![p] = "look"]
        /\ tries' = [tries EXCEPT ![p] = tries[p] + 1]
        /\ panic' = IF tries[p] + 1 = Retries THEN "no insert" ELSE panic
        /\ UNCHANGED <<tried, message, record, buffer, first, last, next, link, data, taken,
                       idx, newMessage, raced>>
      BY <1>1, <1>2, <1>3, <1>4, <1>5, <1>7 DEF AppendRecord, pools, fifo, locals, GoTo, Retry,
         TryTypes
  <2>2. /\ pc'[p] = "look"
        /\ tries'[p] = tries[p] + 1
        /\ tried'[p] = tried[p]
        /\ message'[p] = message[p]
        /\ record'[p] = record[p]
        /\ buffer'[p] = buffer[p]
        /\ Alone(p)
      BY <1>1, <1>2, <2>1, Constants DEF PcType, TryTypes, HandTypes, Alone
  <2>3. PcType'
      BY <1>1, <1>2, <2>1 DEF PcType, PcValues
  <2>4. TryTypes'
      BY <1>1, <1>2, <2>1, <1>4 DEF TryTypes
  <2>5. RestTypes'
      BY <1>1, <1>2, <2>1 DEF RestTypes
  <2>6. PoolTypes' /\ FifoTypes' /\ HandTypes'
      BY <1>1, <2>1 DEF PoolTypes, FifoTypes, HandTypes
  <2>7. TypeOK'
      BY <2>3, <2>4, <2>5, <2>6, TypesNext
  <2>8. HandFits(p)'
      BY <1>2, <1>3, <1>4, <1>5, <1>7, <2>1, <2>2 DEF HandFits, Carrying, Linked, Recording,
         Inserting
  <2>9. LocalsFit'
      BY <1>1, <2>1, <2>2, <2>8, HandsStep
  <2>10. panic' = IF tries[p] + 1 = Retries THEN "no insert" ELSE panic
      BY <2>1
  <2>11. panic' = "no" => tries[p] + 1 < Retries
      BY <1>4, <2>10, Sizes
  <2>12. panic' = "no" => tries'[p] < IF pc'[p] \in Allocating THEN PoolSize ELSE Retries
      BY <1>1, <1>2, <1>3, <2>1, <2>2, Sizes, <2>11 DEF Allocating, Counts, HandFits
  <2>13. Counts'
      BY <1>1, <1>2, <1>3, <2>2, <2>12, CountsStep
  <2> QED BY <1>1, <1>2, <2>1, <2>2, <2>7, <2>9, <2>13, <1>4, <1>5, <1>7
             DEF Basics, Keeps, Unlisted
<1>8. CASE last = NULL
  <2>1. /\ panic' = "NULL read"
        /\ UNCHANGED <<pc, tries, tried, message, record, buffer, first, last, next, link, data,
                       taken, idx, newMessage, raced>>
      BY <1>1, <1>2, <1>3, <1>4, <1>5, <1>8 DEF AppendRecord, pools, fifo, locals, GoTo, Retry
  <2>2. /\ pc'[p] = pc[p]
        /\ tries'[p] = tries[p]
        /\ tried'[p] = tried[p]
        /\ message'[p] = message[p]
        /\ record'[p] = record[p]
        /\ buffer'[p] = buffer[p]
        /\ Alone(p)
      BY <1>1, <1>2, <2>1, Constants DEF PcType, TryTypes, HandTypes, Alone
  <2>3. RestTypes'
      BY <1>1, <1>2, <2>1 DEF RestTypes
  <2>4. PoolTypes' /\ FifoTypes' /\ PcType' /\ TryTypes' /\ HandTypes'
      BY <1>1, <2>1 DEF PoolTypes, FifoTypes, PcType, TryTypes, HandTypes
  <2>5. TypeOK'
      BY <2>3, <2>4, TypesNext
  <2>6. HandFits(p)'
      BY <1>2, <1>3, <1>4, <1>5, <1>8, <2>1, <2>2 DEF HandFits, Carrying, Linked, Recording,
         Inserting
  <2>7. LocalsFit'
      BY <1>1, <2>1, <2>2, <2>6, HandsStep
  <2>8. Counts'
      BY <1>1, <2>1, <2>2 DEF Counts, Alone
  <2> QED BY <1>1, <1>2, <2>1, <2>2, <2>5, <2>7, <2>8, <1>4, <1>5, <1>8
             DEF Basics, Keeps, Unlisted
<1> QED BY <1>6, <1>7, <1>8

LEMMA AdvanceStep ==
    ASSUME Basics, NEW p \in Producers, Advance(p)
    PROVE  /\ Basics' /\ Alone(p) /\ Quiet(p)
           /\ pc[p] = "advance" /\ Keeps(p) /\ UNCHANGED <<first, link, data, taken, next, raced>>
           /\ \/ link[last] # NULL /\ last' = link[last] /\ pc'[p] = "advance"
              \/ link[last] = NULL /\ last' = last /\ pc'[p] = "announce"
<1>1. /\ PoolTypes /\ FifoTypes /\ PcType /\ TryTypes /\ HandTypes /\ RestTypes
      /\ LocalsFit /\ Counts
    BY Types DEF Basics
<1>2. Quiet(p) /\ pc[p] = "advance" /\ p \in Contexts
    BY Constants DEF Advance, At, MayRun, Quiet
<1>3. HandFits(p) /\ panic = "no"
    BY <1>1, <1>2 DEF LocalsFit, Quiet
<1>4. last \in Segments /\ link[last] \in Segments \cup {NULL}
    BY <1>1, <1>2, <1>3 DEF HandFits, FifoTypes
<1>5. CASE link[last] # NULL
  <2>1. /\ last' = link[last]
        /\ UNCHANGED <<pc, tries, tried, message, record, buffer, first, next, link, data,
                       taken, idx, panic, newMessage, raced>>
      BY <1>1, <1>2, <1>3, <1>4, <1>5 DEF Advance, pools, fifo, locals, GoTo
  <2>2. /\ pc'[p] = pc[p]
        /\ tries'[p] = tries[p]
        /\ tried'[p] = tried[p]
        /\ message'[p] = message[p]
        /\ record'[p] = record[p]
        /\ buffer'[p] = buffer[p]
        /\ Alone(p)
      BY <1>1, <1>2, <2>1, Constants DEF PcType, TryTypes, HandTypes, Alone
  <2>3. FifoTypes'
      BY <1>1, <1>2, <2>1, <1>4 DEF FifoTypes
  <2>4. PoolTypes' /\ PcType' /\ TryTypes' /\ HandTypes' /\ RestTypes'
      BY <1>1, <2>1 DEF PoolTypes, PcType, TryTypes, HandTypes, RestTypes
  <2>5. TypeOK'
      BY <2>3, <2>4, TypesNext
  <2>6. HandFits(p)'
      BY <1>2, <1>3, <1>4, <1>5, <2>1, <2>2 DEF HandFits, Carrying, Linked, Recording, Inserting
  <2>7. (first # NULL => first' = first) /\ (last # NULL => last' # NULL)
      BY <1>2, <1>3, <1>4, <1>5, <2>1, Constants DEF HandFits
  <2>8. LocalsFit'
      BY <1>1, <2>1, <2>2, <2>6, <2>7, HandsStep
  <2>9. Counts'
      BY <1>1, <2>1, <2>2 DEF Counts, Alone
  <2> QED BY <1>1, <1>2, <2>1, <2>2, <2>5, <2>8, <2>9, <1>4, <1>5 DEF Basics, Keeps, Unlisted
<1>6. CASE link[last] = NULL
  <2>1. /\ pc' = [pc EXCEPT ![p] = "announce"]
        /\ UNCHANGED <<tries, tried, message, record, buffer, first, last, next, link, data,
                       taken, idx, panic, newMessage, raced>>
      BY <1>1, <1>2, <1>3, <1>4, <1>6 DEF Advance, pools, fifo, locals, GoTo
  <2>2. /\ pc'[p] = "announce"
        /\ tries'[p] = tries[p]
        /\ tried'[p] = tried[p]
        /\ message'[p] = message[p]
        /\ record'[p] = record[p]
        /\ buffer'[p] = buffer[p]
        /\ Alone(p)
      BY <1>1, <1>2, <2>1, Constants DEF PcType, TryTypes, HandTypes, Alone
  <2>3. PcType'
      BY <1>1, <1>2, <2>1 DEF PcType, PcValues
  <2>4. PoolTypes' /\ FifoTypes' /\ TryTypes' /\ HandTypes' /\ RestTypes'
      BY <1>1, <2>1 DEF PoolTypes, FifoTypes, TryTypes, HandTypes, RestTypes
  <2>5. TypeOK'
      BY <2>3, <2>4, TypesNext
  <2>6. HandFits(p)'
      BY <1>2, <1>3, <1>4, <1>6, <2>1, <2>2 DEF HandFits, Carrying, Linked, Recording, Inserting
  <2>7. LocalsFit'
      BY <1>1, <2>1, <2>2, <2>6, HandsStep
  <2>8. panic' = "no" => tries'[p] < IF pc'[p] \in Allocating THEN PoolSize ELSE Retries
      BY <1>1, <1>2, <1>3, <2>1, <2>2, Sizes DEF Allocating, Counts, HandFits
  <2>9. Counts'
      BY <1>1, <1>2, <1>3, <2>2, <2>8, CountsStep
  <2> QED BY <1>1, <1>2, <2>1, <2>2, <2>5, <2>7, <2>9, <1>4, <1>6 DEF Basics, Keeps, Unlisted
<1> QED BY <1>5, <1>6

LEMMA AnnounceStep ==
    ASSUME Basics, NEW p \in Producers, Announce(p)
    PROVE  /\ Basics' /\ Alone(p) /\ Quiet(p)
           /\ pc[p] = "announce" /\ pc'[p] = "idle"
           /\ message'[p] = NULL /\ record'[p] = NULL /\ buffer'[p] = buffer[p]
           /\ Unlisted /\ raced' = raced
<1>1. /\ PoolTypes /\ FifoTypes /\ PcType /\ TryTypes /\ HandTypes /\ RestTypes
      /\ LocalsFit /\ Counts
    BY Types DEF Basics
<1>2. Quiet(p) /\ pc[p] = "announce" /\ p \in Contexts
    BY Constants DEF Announce, At, MayRun, Quiet
<1>3. HandFits(p) /\ panic = "no"
    BY <1>1, <1>2 DEF LocalsFit, Quiet
<1>4. 0 \in 0 .. PoolSize + Retries
    BY Sizes
<1>5. /\ pc' = [pc EXCEPT ![p] = "idle"]
      /\ tries' = [tries EXCEPT ![p] = 0]
      /\ tried' = [tried EXCEPT ![p] = 0]
      /\ message' = [message EXCEPT ![p] = NULL]
      /\ record' = [record EXCEPT ![p] = NULL]
      /\ newMessage' = TRUE
      /\ UNCHANGED <<buffer, first, last, next, link, data, taken, idx, panic, raced>>
    BY <1>1, <1>2, <1>3, <1>4 DEF Announce, pools, fifo, locals, GoTo
<1>6. /\ pc'[p] = "idle"
      /\ tries'[p] = 0
      /\ tried'[p] = 0
      /\ message'[p] = NULL
      /\ record'[p] = NULL
      /\ buffer'[p] = buffer[p]
      /\ Alone(p)
    BY <1>1, <1>2, <1>5, Constants DEF PcType, TryTypes, HandTypes, Alone
<1>7. PcType'
    BY <1>1, <1>2, <1>5 DEF PcType, PcValues
<1>8. TryTypes'
    BY <1>1, <1>2, <1>5, <1>4, Constants DEF TryTypes
<1>9. HandTypes'
    BY <1>1, <1>2, <1>5 DEF HandTypes
<1>10. RestTypes'
    BY <1>1, <1>2, <1>5 DEF RestTypes
<1>11. PoolTypes' /\ FifoTypes'
    BY <1>1, <1>5 DEF PoolTypes, FifoTypes
<1>12. TypeOK'
    BY <1>7, <1>8, <1>9, <1>10, <1>11, TypesNext
<1>13. HandFits(p)'
    BY <1>2, <1>3, <1>4, <1>5, <1>6 DEF HandFits, Carrying, Linked, Recording, Inserting
<1>14. LocalsFit'
    BY <1>1, <1>5, <1>6, <1>13, HandsStep
<1>15. panic' = "no" => tries'[p] < IF pc'[p] \in Allocating THEN PoolSize ELSE Retries
    BY <1>1, <1>2, <1>3, <1>5, <1>6, Sizes DEF Allocating, Counts, HandFits
<1>16. Counts'
    BY <1>1, <1>2, <1>3, <1>6, <1>15, CountsStep
<1> QED BY <1>1, <1>2, <1>5, <1>6, <1>12, <1>14, <1>16, <1>4 DEF Basics, Keeps, Unlisted

LEMMA ProcessQueueStep ==
    ASSUME Basics, ProcessQueue
    PROVE  /\ Basics' /\ Alone(Main) /\ Quiet(Main)
           /\ pc[Main] = "idle" /\ pc'[Main] = "take" /\ Keeps(Main) /\ Unlisted /\ raced' = raced
<1>1. /\ PoolTypes /\ FifoTypes /\ PcType /\ TryTypes /\ HandTypes /\ RestTypes
      /\ LocalsFit /\ Counts
    BY Types DEF Basics
<1>2. Quiet(Main) /\ pc[Main] = "idle" /\ Main \in Contexts
    BY Constants DEF ProcessQueue, At, MayRun, Quiet
<1>3. MainFits /\ panic = "no"
    BY <1>1, <1>2 DEF LocalsFit, Quiet
<1>4. /\ pc' = [pc EXCEPT ![Main] = "take"]
      /\ newMessage' = FALSE
      /\ UNCHANGED <<tries, tried, message, record, buffer, first, last, next, link, data,
                     taken, idx, panic, raced>>
    BY <1>1, <1>2, <1>3 DEF ProcessQueue, pools, fifo, locals, GoTo
<1>5. /\ pc'[Main] = "take"
      /\ tries'[Main] = tries[Main]
      /\ tried'[Main] = tried[Main]
      /\ message'[Main] = message[Main]
      /\ record'[Main] = record[Main]
      /\ Alone(Main)
    BY <1>1, <1>2, <1>4, Constants DEF PcType, TryTypes, HandTypes, Alone
<1>6. PcType'
    BY <1>1, <1>2, <1>4 DEF PcType, PcValues
<1>7. RestTypes'
    BY <1>1, <1>2, <1>4 DEF RestTypes
<1>8. PoolTypes' /\ FifoTypes' /\ TryTypes' /\ HandTypes'
    BY <1>1, <1>4 DEF PoolTypes, FifoTypes, TryTypes, HandTypes
<1>9. TypeOK'
    BY <1>6, <1>7, <1>8, TypesNext
<1>10. MainFits'
    BY <1>2, <1>3, <1>4, <1>5, Constants DEF MainFits
<1>11. LocalsFit'
    BY <1>1, <1>2, <1>5, <1>10, MainStep
<1>12. panic' = "no" => tries'[Main] < IF pc'[Main] \in Allocating THEN PoolSize ELSE Retries
    BY <1>1, <1>2, <1>3, <1>4, <1>5, Sizes DEF Allocating, Counts, HandFits
<1>13. Counts'
    BY <1>1, <1>2, <1>3, <1>5, <1>12, CountsStep
<1> QED BY <1>1, <1>2, <1>4, <1>5, <1>9, <1>11, <1>13 DEF Basics, Keeps, Unlisted

LEMMA TakeStep ==
    ASSUME Basics, Take
    PROVE  /\ Basics' /\ Alone(Main) /\ Quiet(Main)
           /\ pc[Main] = "take" /\ message'[Main] = message[Main] /\ buffer' = buffer
           /\ record'[Main] = first /\ pc'[Main] = IF first = NULL THEN "idle" ELSE "read next"
           /\ Unlisted /\ raced' = raced
<1>1. /\ PoolTypes /\ FifoTypes /\ PcType /\ TryTypes /\ HandTypes /\ RestTypes
      /\ LocalsFit /\ Counts
    BY Types DEF Basics
<1>2. Quiet(Main) /\ pc[Main] = "take" /\ Main \in Contexts
    BY Constants DEF Take, At, MayRun, Quiet
<1>3. MainFits /\ panic = "no"
    BY <1>1, <1>2 DEF LocalsFit, Quiet
<1>4. 0 \in 0 .. PoolSize + Retries
    BY Sizes
<1>5. first \in Segments \cup {NULL}
    BY <1>1 DEF FifoTypes
<1>6. CASE first = NULL
  <2>1. /\ pc' = [pc EXCEPT ![Main] = "idle"]
        /\ tries' = [tries EXCEPT ![Main] = 0]
        /\ record' = [record EXCEPT ![Main] = first]
        /\ UNCHANGED <<tried, message, buffer, first, last, next, link, data, taken, idx, panic,
                       newMessage, raced>>
      BY <1>1, <1>2, <1>3, <1>4, <1>5, <1>6 DEF Take, pools, fifo, locals, GoTo
  <2>2. /\ pc'[Main] = "idle"
        /\ tries'[Main] = 0
        /\ tried'[Main] = tried[Main]
        /\ message'[Main] = message[Main]
        /\ record'[Main] = first
        /\ Alone(Main)
      BY <1>1, <1>2, <2>1, Constants DEF PcType, TryTypes, HandTypes, Alone
  <2>3. PcType'
      BY <1>1, <1>2, <2>1 DEF PcType, PcValues
  <2>4. TryTypes'
      BY <1>1, <1>2, <2>1, <1>4 DEF TryTypes
  <2>5. HandTypes'
      BY <1>1, <1>2, <2>1, <1>5 DEF HandTypes
  <2>6. PoolTypes' /\ FifoTypes' /\ RestTypes'
      BY <1>1, <2>1 DEF PoolTypes, FifoTypes, RestTypes
  <2>7. TypeOK'
      BY <2>3, <2>4, <2>5, <2>6, TypesNext
  <2>8. MainFits'
      BY <1>2, <1>3, <1>4, <1>5, <1>6, <2>1, <2>2, Constants DEF MainFits
  <2>9. LocalsFit'
      BY <1>1, <1>2, <2>2, <2>8, MainStep
  <2>10. panic' = "no" => tries'[Main] < IF pc'[Main] \in Allocating THEN PoolSize ELSE Retries
      BY <1>1, <1>2, <1>3, <2>1, <2>2, Sizes DEF Allocating, Counts, HandFits
  <2>11. Counts'
      BY <1>1, <1>2, <1>3, <2>2, <2>10, CountsStep
  <2> QED BY <1>1, <1>2, <2>1, <2>2, <2>7, <2>9, <2>11, <1>4, <1>5, <1>6
             DEF Basics, Keeps, Unlisted
<1>7. CASE first # NULL
  <2>1. /\ pc' = [pc EXCEPT ![Main] = "read next"]
        /\ record' = [record EXCEPT ![Main] = first]
        /\ UNCHANGED <<tries, tried, message, buffer, first, last, next, link, data, taken, idx,
                       panic, newMessage, raced>>
      BY <1>1, <1>2, <1>3, <1>4, <1>5, <1>7 DEF Take, pools, fifo, locals, GoTo
  <2>2. /\ pc'[Main] = "read next"
        /\ tries'[Main] = tries[Main]
        /\ tried'[Main] = tried[Main]
        /\ message'[Main] = message[Main]
        /\ record'[Main] = first
        /\ Alone(Main)
      BY <1>1, <1>2, <2>1, Constants DEF PcType, TryTypes, HandTypes, Alone
  <2>3. PcType'
      BY <1>1, <1>2, <2>1 DEF PcType, PcValues
  <2>4. HandTypes'
      BY <1>1, <1>2, <2>1, <1>5 DEF HandTypes
  <2>5. PoolTypes' /\ FifoTypes' /\ TryTypes' /\ RestTypes'
      BY <1>1, <2>1 DEF PoolTypes, FifoTypes, TryTypes, RestTypes
  <2>6. TypeOK'
      BY <2>3, <2>4, <2>5, TypesNext
  <2>7. MainFits'
      BY <1>2, <1>3, <1>4, <1>5, <1>7, <2>1, <2>2, Constants DEF MainFits
  <2>8. LocalsFit'
      BY <1>1, <1>2, <2>2, <2>7, MainStep
  <2>9. panic' = "no" => tries'[Main] < IF pc'[Main] \in Allocating THEN PoolSize ELSE Retries
      BY <1>1, <1>2, <1>3, <2>1, <2>2, Sizes DEF Allocating, Counts, HandFits
  <2>10. Counts'
      BY <1>1, <1>2, <1>3, <2>2, <2>9, CountsStep
  <2> QED BY <1>1, <1>2, <2>1, <2>2, <2>6, <2>8, <2>10, <1>4, <1>5, <1>7
             DEF Basics, Keeps, Unlisted
<1> QED BY <1>6, <1>7

LEMMA ReadNextStep ==
    ASSUME Basics, ReadNext
    PROVE  /\ Basics' /\ Alone(Main) /\ Quiet(Main)
           /\ pc[Main] = "read next" /\ pc'[Main] = "swing" /\ Keeps(Main) /\ buffer' = buffer
           /\ next' = link[record[Main]] /\ UNCHANGED <<first, last, link, data, taken, raced>>
<1>1. /\ PoolTypes /\ FifoTypes /\ PcType /\ TryTypes /\ HandTypes /\ RestTypes
      /\ LocalsFit /\ Counts
    BY Types DEF Basics
<1>2. Quiet(Main) /\ pc[Main] = "read next" /\ Main \in Contexts
    BY Constants DEF ReadNext, At, MayRun, Quiet
<1>3. MainFits /\ panic = "no"
    BY <1>1, <1>2 DEF LocalsFit, Quiet
<1>4. record[Main] \in Segments
    BY <1>1, <1>2, <1>3 DEF HandTypes, MainFits
<1>5. /\ pc' = [pc EXCEPT ![Main] = "swing"]
      /\ next' = link[record[Main]]
      /\ UNCHANGED <<tries, tried, message, record, buffer, first, last, link, data, taken, idx,
                     panic, newMessage, raced>>
    BY <1>1, <1>2, <1>3, <1>4 DEF ReadNext, pools, fifo, locals, GoTo
<1>6. /\ pc'[Main] = "swing"
      /\ tries'[Main] = tries[Main]
      /\ tried'[Main] = tried[Main]
      /\ message'[Main] = message[Main]
      /\ record'[Main] = record[Main]
      /\ Alone(Main)
    BY <1>1, <1>2, <1>5, Constants DEF PcType, TryTypes, HandTypes, Alone
<1>7. FifoTypes'
    BY <1>1, <1>2, <1>5, <1>4 DEF FifoTypes
<1>8. PcType'
    BY <1>1, <1>2, <1>5 DEF PcType, PcValues
<1>9. PoolTypes' /\ TryTypes' /\ HandTypes' /\ RestTypes'
    BY <1>1, <1>5 DEF PoolTypes, TryTypes, HandTypes, RestTypes
<1>10. TypeOK'
    BY <1>7, <1>8, <1>9, TypesNext
<1>11. MainFits'
    BY <1>2, <1>3, <1>4, <1>5, <1>6, Constants DEF MainFits
<1>12. LocalsFit'
    BY <1>1, <1>2, <1>6, <1>11, MainStep
<1>13. panic' = "no" => tries'[Main] < IF pc'[Main] \in Allocating THEN PoolSize ELSE Retries
    BY <1>1, <1>2, <1>3, <1>5, <1>6, Sizes DEF Allocating, Counts, HandFits
<1>14. Counts'
    BY <1>1, <1>2, <1>3, <1>6, <1>13, CountsStep
<1> QED BY <1>1, <1>2, <1>5, <1>6, <1>10, <1>12, <1>14, <1>4 DEF Basics, Keeps, Unlisted

LEMMA SwingStep ==
    ASSUME Basics, Swing
    PROVE  /\ Basics' /\ Alone(Main) /\ Quiet(Main)
           /\ pc[Main] = "swing" /\ record'[Main] = record[Main] /\ buffer' = buffer /\ next' = NULL
           /\ UNCHANGED <<last, link, data, taken, raced>>
           /\ first = record[Main] /\ first' = next /\ pc'[Main] = "free record"
           /\ message'[Main] = data[record[Main]]
<1>1. /\ PoolTypes /\ FifoTypes /\ PcType /\ TryTypes /\ HandTypes /\ RestTypes
      /\ LocalsFit /\ Counts
    BY Types DEF Basics
<1>2. Quiet(Main) /\ pc[Main] = "swing" /\ Main \in Contexts
    BY Constants DEF Swing, At, MayRun, Quiet
<1>3. MainFits /\ panic = "no"
    BY <1>1, <1>2 DEF LocalsFit, Quiet
<1>4. tries[Main] \in Nat /\ tries[Main] < Retries /\ tries[Main] + 1 \in 0 .. PoolSize + Retries
    BY <1>2, <1>3, TriesFit DEF Allocating
<1>5. 0 \in 0 .. PoolSize + Retries
    BY Sizes
<1>6. record[Main] \in Segments /\ data[record[Main]] \in Segments \cup {NULL} /\ first = record[Main]
    BY <1>1, <1>2, <1>3 DEF HandTypes, FifoTypes, MainFits
<1>7. /\ pc' = [pc EXCEPT ![Main] = "free record"]
      /\ tries' = [tries EXCEPT ![Main] = 0]
      /\ message' = [message EXCEPT ![Main] = data[record[Main]]]
      /\ first' = next
      /\ next' = NULL
      /\ UNCHANGED <<tried, record, buffer, last, link, data, taken, idx, panic, newMessage,
                     raced>>
    BY <1>1, <1>2, <1>3, <1>4, <1>5, <1>6 DEF Swing, pools, fifo, locals, GoTo
<1>8. /\ pc'[Main] = "free record"
      /\ tries'[Main] = 0
      /\ tried'[Main] = tried[Main]
      /\ message'[Main] = data[record[Main]]
      /\ record'[Main] = record[Main]
      /\ Alone(Main)
    BY <1>1, <1>2, <1>7, Constants DEF PcType, TryTypes, HandTypes, Alone
<1>9. FifoTypes'
    BY <1>1, <1>2, <1>7 DEF FifoTypes
<1>10. PcType'
    BY <1>1, <1>2, <1>7 DEF PcType, PcValues
<1>11. TryTypes'
    BY <1>1, <1>2, <1>7, <1>5 DEF TryTypes
<1>12. HandTypes'
    BY <1>1, <1>2, <1>7, <1>6 DEF HandTypes
<1>13. PoolTypes' /\ RestTypes'
    BY <1>1, <1>7 DEF PoolTypes, RestTypes
<1>14. TypeOK'
    BY <1>9, <1>10, <1>11, <1>12, <1>13, TypesNext
<1>15. MainFits'
    BY <1>2, <1>3, <1>4, <1>5, <1>6, <1>7, <1>8, Constants DEF MainFits
<1>16. LocalsFit'
    BY <1>1, <1>2, <1>8, <1>15, MainStep
<1>17. panic' = "no" => tries'[Main] < IF pc'[Main] \in Allocating THEN PoolSize ELSE Retries
    BY <1>1, <1>2, <1>3, <1>7, <1>8, Sizes DEF Allocating, Counts, HandFits
<1>18. Counts'
    BY <1>1, <1>2, <1>3, <1>8, <1>17, CountsStep
<1> QED BY <1>1, <1>2, <1>7, <1>8, <1>14, <1>16, <1>18, <1>4, <1>5, <1>6
           DEF Basics, Keeps, Unlisted

LEMMA FreeRecordStep ==
    ASSUME Basics, FreeRecord
    PROVE  /\ Basics' /\ Alone(Main) /\ Quiet(Main)
           /\ pc[Main] = "free record" /\ pc'[Main] = "receive" /\ record'[Main] = NULL /\ message'[Main] = message[Main]
           /\ buffer' = buffer /\ taken' = [taken EXCEPT !["queue"] = taken["queue"] \ {record[Main]}]
           /\ UNCHANGED <<first, last, link, data, next, raced>>
<1>1. /\ PoolTypes /\ FifoTypes /\ PcType /\ TryTypes /\ HandTypes /\ RestTypes
      /\ LocalsFit /\ Counts
    BY Types DEF Basics
<1>2. Quiet(Main) /\ pc[Main] = "free record" /\ Main \in Contexts
    BY Constants DEF FreeRecord, At, MayRun, Quiet
<1>3. MainFits /\ panic = "no"
    BY <1>1, <1>2 DEF LocalsFit, Quiet
<1>4. /\ pc' = [pc EXCEPT ![Main] = "receive"]
      /\ record' = [record EXCEPT ![Main] = NULL]
      /\ taken' = [taken EXCEPT !["queue"] = taken["queue"] \ {record[Main]}]
      /\ UNCHANGED <<tries, tried, message, buffer, first, last, next, link, data, idx, panic,
                     newMessage, raced>>
    BY <1>1, <1>2, <1>3 DEF FreeRecord, pools, fifo, locals, GoTo, Release, PoolTypes, Pools
<1>5. /\ pc'[Main] = "receive"
      /\ tries'[Main] = tries[Main]
      /\ tried'[Main] = tried[Main]
      /\ message'[Main] = message[Main]
      /\ record'[Main] = NULL
      /\ Alone(Main)
    BY <1>1, <1>2, <1>4, Constants DEF PcType, TryTypes, HandTypes, Alone
<1>6. PoolTypes'
    BY <1>1, <1>2, <1>4 DEF PoolTypes
<1>7. PcType'
    BY <1>1, <1>2, <1>4 DEF PcType, PcValues
<1>8. HandTypes'
    BY <1>1, <1>2, <1>4 DEF HandTypes
<1>9. FifoTypes' /\ TryTypes' /\ RestTypes'
    BY <1>1, <1>4 DEF FifoTypes, TryTypes, RestTypes
<1>10. TypeOK'
    BY <1>6, <1>7, <1>8, <1>9, TypesNext
<1>11. MainFits'
    BY <1>2, <1>3, <1>4, <1>5, Constants DEF MainFits
<1>12. LocalsFit'
    BY <1>1, <1>2, <1>5, <1>11, MainStep
<1>13. panic' = "no" => tries'[Main] < IF pc'[Main] \in Allocating THEN PoolSize ELSE Retries
    BY <1>1, <1>2, <1>3, <1>4, <1>5, Sizes DEF Allocating, Counts, HandFits
<1>14. Counts'
    BY <1>1, <1>2, <1>3, <1>5, <1>13, CountsStep
<1> QED BY <1>1, <1>2, <1>4, <1>5, <1>10, <1>12, <1>14 DEF Basics, Keeps, Unlisted

LEMMA FreeMemoryStep ==
    ASSUME Basics, FreeMemory
    PROVE  /\ Basics' /\ Alone(Main) /\ Quiet(Main)
           /\ pc[Main] = "receive" /\ pc'[Main] = "take" /\ message'[Main] = NULL /\ record'[Main] = record[Main]
           /\ buffer' = buffer /\ taken' = [taken EXCEPT !["region"] = taken["region"] \ {message[Main]}]
           /\ UNCHANGED <<first, last, link, data, next, raced>>
<1>1. /\ PoolTypes /\ FifoTypes /\ PcType /\ TryTypes /\ HandTypes /\ RestTypes
      /\ LocalsFit /\ Counts
    BY Types DEF Basics
<1>2. Quiet(Main) /\ pc[Main] = "receive" /\ Main \in Contexts
    BY Constants DEF FreeMemory, At, MayRun, Quiet
<1>3. MainFits /\ panic = "no"
    BY <1>1, <1>2 DEF LocalsFit, Quiet
<1>4. /\ pc' = [pc EXCEPT ![Main] = "take"]
      /\ message' = [message EXCEPT ![Main] = NULL]
      /\ taken' = [taken EXCEPT !["region"] = taken["region"] \ {message[Main]}]
      /\ UNCHANGED <<tries, tried, record, buffer, first, last, next, link, data, idx, panic,
                     newMessage, raced>>
    BY <1>1, <1>2, <1>3 DEF FreeMemory, pools, fifo, locals, GoTo, Release, PoolTypes, Pools
<1>5. /\ pc'[Main] = "take"
      /\ tries'[Main] = tries[Main]
      /\ tried'[Main] = tried[Main]
      /\ message'[Main] = NULL
      /\ record'[Main] = record[Main]
      /\ Alone(Main)
    BY <1>1, <1>2, <1>4, Constants DEF PcType, TryTypes, HandTypes, Alone
<1>6. PoolTypes'
    BY <1>1, <1>2, <1>4 DEF PoolTypes
<1>7. PcType'
    BY <1>1, <1>2, <1>4 DEF PcType, PcValues
<1>8. HandTypes'
    BY <1>1, <1>2, <1>4 DEF HandTypes
<1>9. FifoTypes' /\ TryTypes' /\ RestTypes'
    BY <1>1, <1>4 DEF FifoTypes, TryTypes, RestTypes
<1>10. TypeOK'
    BY <1>6, <1>7, <1>8, <1>9, TypesNext
<1>11. MainFits'
    BY <1>2, <1>3, <1>4, <1>5, Constants DEF MainFits
<1>12. LocalsFit'
    BY <1>1, <1>2, <1>5, <1>11, MainStep
<1>13. panic' = "no" => tries'[Main] < IF pc'[Main] \in Allocating THEN PoolSize ELSE Retries
    BY <1>1, <1>2, <1>3, <1>4, <1>5, Sizes DEF Allocating, Counts, HandFits
<1>14. Counts'
    BY <1>1, <1>2, <1>3, <1>5, <1>13, CountsStep
<1> QED BY <1>1, <1>2, <1>4, <1>5, <1>10, <1>12, <1>14 DEF Basics, Keeps, Unlisted

-----------------------------------------------------------------------------
(* The list, and who holds what.                                           *)

LEMMA WritingIs == \A x: x \in Writing <=> \E q \in Producers: x \in Own(q) \cup Buffered(q)
<1> TAKE x
<1>1. x \in Writing <=> /\ x # NULL
                        /\ \/ \E q \in Producers: pc[q] \notin Linked /\ x = message[q]
                           \/ \E q \in Producers: x = buffer[q]
    BY DEF Writing
<1>2. \A q \in Producers: x \in Own(q) <=> pc[q] \notin Linked /\ x = message[q] /\ x # NULL
    BY DEF Own
<1>3. \A q \in Producers: x \in Buffered(q) <=> x = buffer[q] /\ x # NULL
    BY DEF Buffered
<1> QED BY <1>1, <1>2, <1>3

Holdings == \A x: x \in Writing <=> \E q \in Producers: x \in Own(q) \cup Buffered(q)

LEMMA HoldingsNext == Holdings'
<1>1. Holdings
    BY WritingIs DEF Holdings
<1> QED BY <1>1, PTL

LEMMA SoundParts ==
    ASSUME NEW n, NEW c
    PROVE  /\ Sound(n, c) <=> /\ n \in Nat /\ c \in [1..n -> Segments]
                              /\ Chain(n, c) /\ LastFits(n, c) /\ TakeFits(n, c)
                              /\ Records(n, c) /\ Messages(n, c)
           /\ Sound(n, c)' <=> /\ n \in Nat /\ c \in [1..n -> Segments]
                               /\ Chain(n, c)' /\ LastFits(n, c)' /\ TakeFits(n, c)'
                               /\ Records(n, c)' /\ Messages(n, c)'
BY DEF Sound

LEMMA MessagesKept ==
    ASSUME NEW n, NEW c, Messages(n, c), Reading' = Reading, taken'["region"] = taken["region"],
           \A q \in Producers: Own(q)' = Own(q) /\ Buffered(q)' = Buffered(q),
           \A i \in 1..n: data'[c[i]] = data[c[i]]
    PROVE  Messages(n, c)' /\ Contents(n, c)' = Contents(n, c) /\ Writing' = Writing
<1>1. Writing' = Writing
    BY WritingIs, HoldingsNext DEF Holdings
<1>2. Contents(n, c)' = Contents(n, c)
    BY DEF Contents
<1>3. Apart'
    BY DEF Messages, Apart
<1>4. \A i, j \in 1..n: data'[c[i]] = data'[c[j]] => i = j
    BY DEF Messages
<1> QED BY <1>1, <1>2, <1>3, <1>4 DEF Messages

LEMMA OwnKept ==
    ASSUME NEW p \in Contexts, Alone(p), Keeps(p),
           p \in Producers => (pc'[p] \in Linked <=> pc[p] \in Linked)
    PROVE  /\ \A q \in Producers: Own(q)' = Own(q) /\ Buffered(q)' = Buffered(q)
           /\ Reading' = Reading
<1>1. Reading' = Reading
    BY Constants DEF Alone, Keeps, Reading
<1>2. ASSUME NEW q \in Producers PROVE Own(q)' = Own(q) /\ Buffered(q)' = Buffered(q)
  <2>1. message'[q] = message[q] /\ buffer'[q] = buffer[q] /\ (pc'[q] \in Linked <=> pc[q] \in Linked)
      BY Constants DEF Alone, Keeps
  <2> QED BY <2>1 DEF Own, Buffered
<1> QED BY <1>1, <1>2

\* A step that leaves the records of the list and what is in whose hands alone.
LEMMA Frame ==
    ASSUME NEW n, NEW c, Sound(n, c), NEW p \in Producers, Alone(p), Keeps(p),
           UNCHANGED <<first, link, data, taken, next>>,
           pc'[p] \in Linked <=> pc[p] \in Linked, pc'[p] \in Inserting => pc'[p] \in Linked,
           LastFits(n, c)'
    PROVE  Sound(n, c)'
<1>1. /\ n \in Nat /\ c \in [1..n -> Segments] /\ Chain(n, c) /\ LastFits(n, c)
      /\ TakeFits(n, c) /\ Records(n, c) /\ Messages(n, c)
    BY SoundParts
<1>2. /\ \A d \in Contexts: record'[d] = record[d] /\ message'[d] = message[d]
      /\ \A q \in Producers: buffer'[q] = buffer[q] /\ (q # p => pc'[q] = pc[q])
      /\ pc'[Main] = pc[Main]
    BY Constants DEF Alone, Keeps
<1>3. \A q \in Producers: /\ pc'[q] \in Linked <=> pc[q] \in Linked
                          /\ pc'[q] \in Inserting => pc'[q] = pc[q] \/ pc'[q] \in Linked
    BY <1>2
<1>4. Chain(n, c)'
    BY <1>1 DEF Chain
<1>5. TakeFits(n, c)'
    BY <1>1, <1>2, Constants DEF TakeFits
<1>6. Cells(n, c)' = Cells(n, c) /\ Contents(n, c)' = Contents(n, c)
    BY DEF Cells, Contents
<1>7. Records(n, c)'
  <2>1. {record[d]: d \in Contexts}' = {record[d]: d \in Contexts}
      BY <1>2
  <2>2. ASSUME NEW q \in Producers PROVE RecordFits(q, n, c)'
    <3>1. RecordFits(q, n, c) /\ record'[q] = record[q] /\ message'[q] = message[q]
        BY <1>1, <1>2, Constants DEF Records
    <3>2. pc'[q] \in {"set first", "append"} => pc'[q] = pc[q]
        BY <1>3 DEF Inserting, Linked
    <3>3. pc'[q] \in Inserting => pc[q] \in Inserting
        BY <1>3 DEF Inserting
    <3> QED BY <1>3, <1>6, <3>1, <3>2, <3>3 DEF RecordFits
  <2>3. Distinct'
    <3>1. Distinct /\ \A q \in Producers: record'[q] = record[q]
        BY <1>1, <1>2, Constants DEF Records
    <3> QED BY <3>1 DEF Distinct
  <2>4. pc'[Main] = "free record" =>
          record'[Main] \notin Cells(n, c) /\ \A q \in Producers: record'[q] # record'[Main]
      BY <1>1, <1>2, Constants DEF Records
  <2>5. taken["queue"] = Cells(n, c) \cup ({record[d]: d \in Contexts}' \ {NULL})
      BY <1>1, <2>1 DEF Records
  <2> QED BY <1>6, <2>2, <2>3, <2>4, <2>5 DEF Records
<1>8. Messages(n, c)'
  <2>1. p \in Contexts /\ \A i \in 1..n: data'[c[i]] = data[c[i]]
      BY Constants
  <2> QED BY <1>1, <2>1, OwnKept, MessagesKept
<1> QED BY <1>1, <1>4, <1>5, <1>7, <1>8, SoundParts

\* A step that neither touches the list nor changes hands.
LEMMA Unnoticed ==
    ASSUME NEW n, NEW c, Sound(n, c), NEW p \in Producers, Alone(p), Keeps(p), Unlisted,
           pc[p] \notin Linked, pc'[p] \notin Inserting
    PROVE  Sound(n, c)'
<1>1. \A q \in Producers: q # p => pc'[q] = pc[q]
    BY Constants DEF Alone
<1>2. LastFits(n, c)'
  <2>1. pc'[p] \notin {"append", "set last", "advance"}
      BY DEF Inserting, Linked
  <2>2. pc[p] \notin {"set last", "advance"}
      BY DEF Linked
  <2>3. \A q \in Producers: /\ pc'[q] \in {"append", "set last", "advance"} => pc'[q] = pc[q]
                            /\ pc[q] \in {"set last", "advance"} => pc'[q] = pc[q]
      BY <1>1, <2>1, <2>2
  <2>4. LastFits(n, c) /\ last' = last
      BY SoundParts DEF Unlisted
  <2>5. NearEnd(n, c)' <=> NearEnd(n, c)
      BY <2>4 DEF NearEnd
  <2>6. ASSUME NEW q \in Producers
        PROVE  /\ pc'[q] = "append" => n > 0
               /\ pc'[q] = "set last" => n = 1
               /\ pc'[q] = "advance" => NearEnd(n, c)'
      BY <2>3, <2>4, <2>5 DEF LastFits
  <2>7. (\A q \in Producers: pc'[q] \notin {"set last", "advance"}) /\ n > 0 => last' = c[n]
      BY <2>3, <2>4 DEF LastFits
  <2> QED BY <2>6, <2>7 DEF LastFits
<1>3. UNCHANGED <<first, link, data, taken, next>>
    BY DEF Unlisted
<1>4. pc'[p] \notin Linked
    BY DEF Inserting
<1> QED BY <1>2, <1>3, <1>4, Frame

\* What a segment in somebody's hands is.
LEMMA Hands ==
    ASSUME Basics, NEW p \in Producers
    PROVE  /\ pc[p] \in Recording => record[p] \in Segments
           /\ pc[p] \notin Recording => record[p] = NULL
           /\ pc[p] \in Carrying \cup Linked => message[p] \in Segments
           /\ pc[p] \notin Carrying \cup Linked => message[p] = NULL
           /\ p \in Swapping => buffer[p] \in Segments
           /\ p \notin Swapping => buffer[p] = NULL
<1>1. HandTypes /\ HandFits(p) /\ p \in Contexts
    BY Types, Constants DEF Basics, LocalsFit
<1> QED BY <1>1 DEF HandTypes, HandFits

\* Only one context receives into a segment of its own.
LEMMA OneSwaps == \A p, q \in Swapping: p = q
<1> SUFFICES ASSUME NEW p \in Swapping, NEW q \in Swapping, p # q PROVE FALSE
    OBVIOUS
<1>1. IsFiniteSet(Swapping) /\ Cardinality(Swapping) <= 1
    BY QueueAssumption, FS_Subset
<1>2. IsFiniteSet({p, q}) /\ Cardinality({p, q}) = 2
  <2>1. IsFiniteSet({p}) /\ Cardinality({p}) = 1
      BY FS_Singleton
  <2>2. Cardinality({p} \cup {q}) = 2 /\ IsFiniteSet({p} \cup {q})
      BY <2>1, FS_AddElement
  <2>3. {p, q} = {p} \cup {q}
      OBVIOUS
  <2> QED BY <2>2, <2>3
<1>3. Cardinality({p, q}) <= Cardinality(Swapping)
    BY <1>1, <1>2, FS_Subset
<1>4. Cardinality(Swapping) \in Nat
    BY <1>1, FS_CardinalityType
<1> QED BY <1>1, <1>2, <1>3, <1>4

LEMMA ClaimRegionSound ==
    ASSUME Basics, NEW n, NEW c, Sound(n, c), NEW p \in Producers, ClaimRegion(p)
    PROVE  Sound(n, c)'
<1>1. /\ n \in Nat /\ c \in [1..n -> Segments] /\ Chain(n, c) /\ LastFits(n, c)
      /\ TakeFits(n, c) /\ Records(n, c) /\ Messages(n, c)
    BY SoundParts
<1>2. CASE pc'[p] = "pick region" /\ Keeps(p) /\ taken' = taken
  <2>1. Alone(p) /\ Unlisted /\ pc[p] = "claim region"
      BY <1>2, ClaimRegionStep DEF Unlisted
  <2> QED BY <1>2, <2>1, Unnoticed DEF Linked, Inserting
<1>3. CASE ~(pc'[p] = "pick region" /\ Keeps(p) /\ taken' = taken)
  <2> DEFINE s == tried[p]
  <2>1. /\ Alone(p) /\ UNCHANGED <<first, last, link, data, next>>
        /\ pc[p] = "claim region" /\ pc'[p] = "pick queue" /\ record'[p] = record[p]
        /\ s \in Segments /\ s \notin taken["region"]
        /\ message'[p] = IF p \in Swapping THEN buffer[p] ELSE s
        /\ buffer'[p] = IF p \in Swapping THEN s ELSE buffer[p]
        /\ taken' = [taken EXCEPT !["region"] = taken["region"] \cup {s}]
      BY <1>3, ClaimRegionStep
  <2> HIDE DEF s
  <2>2. /\ \A d \in Contexts: record'[d] = record[d] /\ (d # p => message'[d] = message[d])
        /\ \A q \in Producers: q # p => buffer'[q] = buffer[q] /\ pc'[q] = pc[q]
        /\ pc'[Main] = pc[Main] /\ message'[Main] = message[Main]
      BY <2>1, Constants DEF Alone
  <2>3. /\ taken'["queue"] = taken["queue"] /\ taken'["region"] = taken["region"] \cup {s}
      BY <2>1, Types DEF Basics, PoolTypes, Pools
  <2>4. Chain(n, c)' /\ LastFits(n, c)' /\ TakeFits(n, c)'
    <3>1. Chain(n, c)'
        BY <1>1, <2>1 DEF Chain
    <3>2. \A q \in Producers: /\ pc'[q] \in {"append", "set last", "advance"} => pc'[q] = pc[q]
                              /\ pc[q] \in {"set last", "advance"} => pc'[q] = pc[q]
        BY <2>1, <2>2
    <3>3. LastFits(n, c)'
        BY <1>1, <2>1, <3>2 DEF LastFits, NearEnd
    <3> QED BY <1>1, <2>1, <2>2, <3>1, <3>3, Constants DEF TakeFits
  <2>5. Cells(n, c)' = Cells(n, c) /\ Contents(n, c)' = Contents(n, c)
      BY <2>1 DEF Cells, Contents
  <2>6. Records(n, c)'
    <3>1. {record[d]: d \in Contexts}' = {record[d]: d \in Contexts}
        BY <2>2
    <3>2. ASSUME NEW q \in Producers PROVE RecordFits(q, n, c)'
      <4>1. RecordFits(q, n, c) /\ record'[q] = record[q]
          BY <1>1, <2>2, Constants DEF Records
      <4>2. CASE q = p
          BY <2>1, <2>5, <4>1, <4>2 DEF RecordFits, Linked, Inserting
      <4>3. CASE q # p
        <5>1. pc'[q] = pc[q] /\ message'[q] = message[q]
            BY <2>2, <4>3, Constants
        <5> QED BY <2>1, <2>5, <4>1, <5>1 DEF RecordFits
      <4> QED BY <4>2, <4>3
    <3>3. Distinct'
      <4>1. Distinct /\ \A q \in Producers: record'[q] = record[q]
          BY <1>1, <2>2, Constants DEF Records
      <4> QED BY <4>1 DEF Distinct
    <3>4. pc'[Main] = "free record" =>
          record'[Main] \notin Cells(n, c) /\ \A q \in Producers: record'[q] # record'[Main]
        BY <1>1, <2>2, Constants DEF Records
    <3>5. taken'["queue"] = Cells(n, c) \cup ({record[d]: d \in Contexts}' \ {NULL})
        BY <1>1, <2>3, <3>1 DEF Records
    <3> QED BY <2>1, <2>5, <3>2, <3>3, <3>4, <3>5 DEF Records
  <2>7. Messages(n, c)'
    <3>1. \A q \in Producers: q # p => Own(q)' = Own(q) /\ Buffered(q)' = Buffered(q)
        BY <2>2, Constants DEF Own, Buffered
    <3>2. Own(p) = {} /\ Own(p)' \cup Buffered(p)' = {s} \cup Buffered(p)
        /\ Own(p)' \cap Buffered(p)' = {} /\ s \notin Writing \cup Contents(n, c) \cup Reading
      <4>1. s \notin Writing \cup Contents(n, c) \cup Reading
          BY <1>1, <2>1 DEF Messages
      <4>2. message[p] = NULL /\ (p \in Swapping => buffer[p] \in Segments)
            /\ (p \notin Swapping => buffer[p] = NULL) /\ s # NULL
          BY <2>1, Hands, Constants DEF Carrying, Linked
      <4>3. p \in Swapping => s # buffer[p]
          BY <4>1, <4>2, WritingIs, Constants DEF Buffered
      <4>4. Own(p) = {} /\ Own(p)' = {message'[p]} \ {NULL}
          BY <2>1, <4>2 DEF Own, Linked
      <4>5. CASE p \in Swapping
          BY <2>1, <4>1, <4>2, <4>3, <4>4, <4>5, Constants DEF Buffered
      <4>6. CASE p \notin Swapping
          BY <2>1, <4>1, <4>2, <4>4, <4>6, Constants DEF Buffered
      <4> QED BY <4>5, <4>6
    <3>3. \A x: x \in Writing' <=> x = s \/ x \in Writing
        BY <3>1, <3>2, WritingIs, HoldingsNext DEF Holdings
    <3>4. Writing' = Writing \cup {s} /\ Reading' = Reading
        BY <2>2, <3>3 DEF Reading
    <3>5. \A q \in Producers: Own(q) \subseteq Writing /\ Buffered(q) \subseteq Writing
        BY WritingIs
    <3>6. ASSUME NEW q \in Producers, NEW r \in Producers
          PROVE  /\ q # r => /\ Own(q)' \cap Own(r)' = {}
                             /\ Buffered(q)' \cap Buffered(r)' = {}
                 /\ Own(q)' \cap Buffered(r)' = {}
      <4>1. /\ q # r => Own(q) \cap Own(r) = {} /\ Buffered(q) \cap Buffered(r) = {}
            /\ Own(q) \cap Buffered(r) = {} /\ Own(r) \cap Buffered(q) = {}
            /\ q # r => Own(q) \cap Buffered(r) = {}
          BY <1>1 DEF Messages, Apart
      <4>2. Buffered(q) \cap Buffered(r) # {} => q = r
          BY <4>1
      <4>3. CASE q # p /\ r # p
          BY <3>1, <4>1, <4>3
      <4>4. CASE q = p /\ r = p
          BY <3>2, <4>4
      <4>5. CASE q = p /\ r # p
        <5>1. Own(q)' \subseteq {s} \cup Buffered(q) /\ Buffered(q)' \subseteq {s} \cup Buffered(q)
            BY <3>2, <4>5
        <5>2. Own(r)' = Own(r) /\ Buffered(r)' = Buffered(r)
            BY <3>1, <4>5
        <5>3. s \notin Own(r) /\ s \notin Buffered(r)
            BY <3>2, <3>5
        <5> QED BY <4>1, <4>5, <5>1, <5>2, <5>3
      <4>6. CASE q # p /\ r = p
        <5>1. Own(r)' \subseteq {s} \cup Buffered(r) /\ Buffered(r)' \subseteq {s} \cup Buffered(r)
            BY <3>2, <4>6
        <5>2. Own(q)' = Own(q) /\ Buffered(q)' = Buffered(q)
            BY <3>1, <4>6
        <5>3. s \notin Own(q) /\ s \notin Buffered(q)
            BY <3>2, <3>5
        <5> QED BY <4>1, <4>6, <5>1, <5>2, <5>3
      <4> QED BY <4>3, <4>4, <4>5, <4>6
    <3>7. \A i, j \in 1..n: data[c[i]] = data[c[j]] => i = j
        BY <1>1 DEF Messages
    <3>8. Writing' \cap Reading' = {} /\ (Writing' \cup Reading') \cap Contents(n, c) = {}
        BY <1>1, <3>2, <3>4 DEF Messages
    <3>9. taken'["region"] = Contents(n, c) \cup Writing' \cup Reading'
        BY <1>1, <2>3, <3>4 DEF Messages
    <3>10. Apart'
        BY <3>6 DEF Apart
    <3> QED BY <2>1, <2>5, <3>7, <3>8, <3>9, <3>10 DEF Messages
  <2> QED BY <1>1, <2>4, <2>6, <2>7, SoundParts
<1> QED BY <1>2, <1>3

LEMMA ClaimRecordSound ==
    ASSUME Basics, NEW n, NEW c, Sound(n, c), NEW p \in Producers, ClaimRecord(p)
    PROVE  Sound(n, c)'
<1>1. /\ n \in Nat /\ c \in [1..n -> Segments] /\ Chain(n, c) /\ LastFits(n, c)
      /\ TakeFits(n, c) /\ Records(n, c) /\ Messages(n, c)
    BY SoundParts
<1>2. CASE pc'[p] = "pick queue" /\ Keeps(p) /\ taken' = taken
  <2>1. Alone(p) /\ Unlisted /\ pc[p] = "claim queue"
      BY <1>2, ClaimRecordStep DEF Unlisted
  <2> QED BY <1>2, <2>1, Unnoticed DEF Linked, Inserting
<1>3. CASE ~(pc'[p] = "pick queue" /\ Keeps(p) /\ taken' = taken)
  <2> DEFINE s == tried[p]
  <2>1. /\ Alone(p) /\ UNCHANGED <<first, last, link, data, next>>
        /\ pc[p] = "claim queue" /\ pc'[p] = "look"
        /\ message'[p] = message[p] /\ buffer'[p] = buffer[p]
        /\ s \in Segments /\ s \notin taken["queue"] /\ record'[p] = s
        /\ taken' = [taken EXCEPT !["queue"] = taken["queue"] \cup {s}]
      BY <1>3, ClaimRecordStep
  <2> HIDE DEF s
  <2>2. \A d \in Contexts: /\ message'[d] = message[d]
                           /\ d # p => record'[d] = record[d] /\ pc'[d] = pc[d]
      BY <2>1 DEF Alone
  <2>3. /\ taken'["queue"] = taken["queue"] \cup {s} /\ taken'["region"] = taken["region"]
      BY <2>1, Types DEF Basics, PoolTypes, Pools
  <2>4. record[p] = NULL /\ s # NULL /\ p \in Contexts /\ p # Main /\ Main \in Contexts
      BY <2>1, Hands, Constants DEF Recording, Inserting, Linked
  <2>5. Chain(n, c)' /\ LastFits(n, c)' /\ TakeFits(n, c)'
    <3>1. Chain(n, c)'
        BY <1>1, <2>1 DEF Chain
    <3>2. \A q \in Producers: /\ pc'[q] \in {"append", "set last", "advance"} => pc'[q] = pc[q]
                              /\ pc[q] \in {"set last", "advance"} => pc'[q] = pc[q]
        BY <2>1, <2>2, Constants
    <3>3. LastFits(n, c)'
        BY <1>1, <2>1, <3>2 DEF LastFits, NearEnd
    <3> QED BY <1>1, <2>1, <2>2, <2>4, <3>1, <3>3 DEF TakeFits
  <2>6. Cells(n, c)' = Cells(n, c)
      BY DEF Cells
  <2>7. Records(n, c)'
    <3>1. s \notin Cells(n, c) /\ \A d \in Contexts: record[d] # s
        BY <1>1, <2>1, <2>4 DEF Records
    <3>2. {record[d]: d \in Contexts}' \ {NULL} = ({record[d]: d \in Contexts} \ {NULL}) \cup {s}
      <4>1. \A x: x \in {record[d]: d \in Contexts}' <=> x = s \/ \E d \in Contexts: d # p /\ x = record[d]
          BY <2>1, <2>2, <2>4
      <4> QED BY <2>4, <4>1
    <3>3. ASSUME NEW q \in Producers PROVE RecordFits(q, n, c)'
      <4>1. RecordFits(q, n, c)
          BY <1>1 DEF Records
      <4>2. CASE q = p
          BY <2>1, <2>6, <3>1, <4>2 DEF RecordFits, Linked, Inserting
      <4>3. CASE q # p
        <5>1. pc'[q] = pc[q] /\ message'[q] = message[q] /\ record'[q] = record[q]
            BY <2>2, <4>3, Constants
        <5> QED BY <2>1, <2>6, <4>1, <5>1 DEF RecordFits
      <4> QED BY <4>2, <4>3
    <3>4. Distinct'
      <4>1. Distinct /\ \A q \in Producers: record'[q] = IF q = p THEN s ELSE record[q]
          BY <1>1, <2>1, <2>2, Constants DEF Records
      <4>2. \A q \in Producers: record[q] # s
          BY <3>1, Constants
      <4> QED BY <4>1, <4>2 DEF Distinct
    <3>5. pc'[Main] = "free record" =>
          record'[Main] \notin Cells(n, c) /\ \A q \in Producers: record'[q] # record'[Main]
      <4>1. pc[Main] = "free record" =>
              record[Main] \notin Cells(n, c) /\ \A q \in Producers: record[q] # record[Main]
          BY <1>1 DEF Records
      <4>2. record'[Main] = record[Main] /\ pc'[Main] = pc[Main] /\ record[Main] # s
          BY <2>2, <2>4, <3>1
      <4>3. \A q \in Producers: record'[q] = IF q = p THEN s ELSE record[q]
          BY <2>1, <2>2, Constants
      <4> QED BY <4>1, <4>2, <4>3
    <3>6. taken'["queue"] = Cells(n, c) \cup ({record[d]: d \in Contexts}' \ {NULL})
        BY <1>1, <2>3, <3>2 DEF Records
    <3> QED BY <2>6, <3>3, <3>4, <3>5, <3>6 DEF Records
  <2>8. Messages(n, c)'
    <3>1. \A q \in Producers: Own(q)' = Own(q) /\ Buffered(q)' = Buffered(q)
      <4>1. \A q \in Producers: /\ message'[q] = message[q] /\ buffer'[q] = buffer[q]
                                /\ pc'[q] \in Linked <=> pc[q] \in Linked
          BY <2>1, <2>2, Constants DEF Alone, Linked
      <4> QED BY <4>1 DEF Own, Buffered
    <3>2. Reading' = Reading
        BY <2>2, <2>4 DEF Reading
    <3> QED BY <1>1, <2>1, <2>3, <3>1, <3>2, MessagesKept
  <2> QED BY <1>1, <2>5, <2>7, <2>8, SoundParts
<1> QED BY <1>2, <1>3

LEMMA LookSound ==
    ASSUME Basics, NEW n, NEW c, Sound(n, c), NEW p \in Producers, Look(p)
    PROVE  Sound(n, c)'
<1>1. /\ n \in Nat /\ c \in [1..n -> Segments] /\ Chain(n, c) /\ LastFits(n, c)
      /\ TakeFits(n, c) /\ Records(n, c) /\ Messages(n, c)
    BY SoundParts
<1> DEFINE r == record[p]
<1>2. /\ Alone(p) /\ pc[p] = "look" /\ Keeps(p) /\ UNCHANGED <<first, last, next, taken>>
      /\ pc'[p] = IF first = NULL THEN "set first" ELSE "append"
      /\ r \in Segments /\ message[p] \in Segments
      /\ data' = [data EXCEPT ![r] = message[p]]
      /\ link' = [link EXCEPT ![r] = NULL]
    BY LookStep
<1>3. \A s \in Segments: /\ data'[s] = IF s = r THEN message[p] ELSE data[s]
                         /\ link'[s] = IF s = r THEN NULL ELSE link[s]
    BY <1>2, Types DEF Basics, FifoTypes
<1>4. r \notin Cells(n, c)
    BY <1>1, <1>2 DEF Records, RecordFits, Linked
<1> HIDE DEF r
<1>5. \A i \in 1..n: c[i] \in Segments /\ c[i] # r
    BY <1>1, <1>4 DEF Cells
<1>6. \A i \in 1..n: data'[c[i]] = data[c[i]] /\ link'[c[i]] = link[c[i]]
    BY <1>3, <1>5
<1>7. /\ \A d \in Contexts: /\ message'[d] = message[d] /\ record'[d] = record[d]
                            /\ d # p => pc'[d] = pc[d]
      /\ p \in Contexts /\ p # Main /\ Main \in Contexts
    BY <1>2, Constants DEF Alone, Keeps
<1>8. Chain(n, c)'
    BY <1>1, <1>2, <1>6 DEF Chain
<1>9. LastFits(n, c)'
  <2>1. pc'[p] = "append" => n > 0
    <3>1. n = 0 => first = NULL
        BY <1>1 DEF Chain
    <3>2. pc'[p] = "append" => first # NULL
        BY <1>2
    <3> QED BY <1>1, <3>1, <3>2
  <2>2. \A q \in Producers: q # p => pc'[q] = pc[q]
      BY <1>7, Constants
  <2>3. \A q \in Producers: /\ pc'[q] \in {"set last", "advance"} => pc'[q] = pc[q]
                            /\ pc[q] \in {"set last", "advance"} => pc'[q] = pc[q]
                            /\ pc'[q] = "append" => n > 0
      BY <1>1, <1>2, <2>1, <2>2 DEF LastFits, NearEnd
  <2> QED BY <1>1, <1>2, <2>3 DEF LastFits, NearEnd
<1>10. TakeFits(n, c)'
    BY <1>1, <1>2, <1>7 DEF TakeFits
<1>11. Cells(n, c)' = Cells(n, c)
    BY DEF Cells
<1>12. Records(n, c)'
  <2>1. {record[d]: d \in Contexts}' = {record[d]: d \in Contexts}
      BY <1>7
  <2>2. Distinct /\ \A q \in Producers: record'[q] = record[q] /\ message'[q] = message[q]
      BY <1>1, <1>7, Constants DEF Records
  <2>3. ASSUME NEW q \in Producers PROVE RecordFits(q, n, c)'
    <3>1. RecordFits(q, n, c)
        BY <1>1 DEF Records
    <3>2. CASE q = p
      <4>1. record'[q] = r /\ message'[q] = message[q] /\ data'[r] = message[q] /\ link'[r] = NULL
          BY <1>2, <1>3, <2>2, <3>2 DEF r
      <4> QED BY <1>2, <1>4, <1>11, <3>2, <4>1 DEF RecordFits, Linked
    <3>3. CASE q # p
      <4>1. pc'[q] = pc[q]
          BY <1>7, <3>3, Constants
      <4>2. pc[q] \in Inserting => record[q] \in Segments /\ record[q] # r
          BY <1>2, <2>2, <3>3, Hands, Constants DEF Recording, Distinct, r
      <4>3. pc[q] \in {"set first", "append"} => pc[q] \in Inserting
          BY DEF Inserting
      <4> QED BY <1>3, <1>11, <2>2, <3>1, <4>1, <4>2, <4>3 DEF RecordFits
    <3> QED BY <3>2, <3>3
  <2>4. Distinct'
      BY <2>2 DEF Distinct
  <2>5. pc'[Main] = "free record" =>
          record'[Main] \notin Cells(n, c) /\ \A q \in Producers: record'[q] # record'[Main]
      BY <1>1, <1>7, <2>2 DEF Records
  <2>6. taken'["queue"] = Cells(n, c) \cup ({record[d]: d \in Contexts}' \ {NULL})
      BY <1>1, <1>2, <2>1 DEF Records
  <2> QED BY <1>11, <2>3, <2>4, <2>5, <2>6 DEF Records
<1>13. Messages(n, c)'
  <2>1. pc'[p] \notin Linked /\ pc[p] \notin Linked
      BY <1>2 DEF Linked
  <2> QED BY <1>1, <1>2, <1>6, <1>7, <2>1, OwnKept, MessagesKept
<1> QED BY <1>1, <1>8, <1>9, <1>10, <1>12, <1>13, SoundParts

\* The list with one more record.
Grown(n, c, r) == [i \in 1 .. n + 1 |-> IF i = n + 1 THEN r ELSE c[i]]

LEMMA OneMore ==
    ASSUME NEW n \in Nat
    PROVE  n + 1 \in Nat /\ 1 .. n + 1 = 1..n \cup {n + 1} /\ n + 1 \notin 1..n
OBVIOUS

LEMMA GrownIs ==
    ASSUME NEW n \in Nat, NEW c \in [1..n -> Segments], NEW r \in Segments
    PROVE  /\ Grown(n, c, r) \in [1 .. n + 1 -> Segments]
           /\ Grown(n, c, r)[n + 1] = r
           /\ \A i \in 1..n: Grown(n, c, r)[i] = c[i]
BY OneMore DEF Grown

ElseUnlinked(n, c) == \A s \in Segments \ Cells(n, c): link'[s] = link[s]

\* Linking a record: what changes hands.
LEMMA Linking ==
    ASSUME Basics, NEW CONSTANT n, NEW CONSTANT c, Sound(n, c), NEW CONSTANT p \in Producers,
           Alone(p), Keeps(p), UNCHANGED <<data, taken, next>>,
           pc[p] \in {"set first", "append"}, pc'[p] \in {"set last", "advance"},
           NEW CONSTANT r, record[p] = r, link'[r] = NULL,
           ElseUnlinked(n, c)
    PROVE  LET g == Grown(n, c, r)
           IN  Records(n + 1, g)' /\ Messages(n + 1, g)'
<1> DEFINE g == Grown(n, c, r)
<1> SUFFICES Records(n + 1, g)' /\ Messages(n + 1, g)'
    OBVIOUS
<1>1. n \in Nat /\ c \in [1..n -> Segments] /\ Records(n, c) /\ Messages(n, c)
    BY SoundParts
<1>2. /\ \A d \in Contexts: /\ message'[d] = message[d] /\ record'[d] = record[d]
                            /\ d # p => pc'[d] = pc[d]
      /\ p \in Contexts /\ p # Main /\ Main \in Contexts
    BY Constants DEF Alone, Keeps
<1>3. /\ pc[p] \in Inserting /\ pc[p] \notin Linked /\ pc[p] \in Carrying /\ pc[p] \in Recording
      /\ pc'[p] \in Linked /\ pc'[p] \notin {"set first", "append"}
    BY DEF Inserting, Linked, Carrying, Recording
<1>4. r \in Segments /\ message[p] \in Segments /\ data[r] = message[p] /\ r \notin Cells(n, c)
    BY <1>1, <1>3, Hands DEF Records, RecordFits
<1>5. /\ g \in [1 .. n + 1 -> Segments] /\ g[n + 1] = r /\ \A i \in 1..n: g[i] = c[i]
      /\ 1 .. n + 1 = 1..n \cup {n + 1} /\ n + 1 \notin 1..n
      /\ Cells(n + 1, g) = Cells(n, c) \cup {r}
      /\ Contents(n + 1, g) = Contents(n, c) \cup {message[p]}
  <2>1. n \in Nat /\ c \in [1..n -> Segments] /\ r \in Segments
      BY <1>1, <1>4
  <2>2. g \in [1 .. n + 1 -> Segments] /\ g[n + 1] = r /\ \A i \in 1..n: g[i] = c[i]
      BY <2>1, GrownIs
  <2>3. 1 .. n + 1 = 1..n \cup {n + 1} /\ n + 1 \notin 1..n
      BY <2>1, OneMore
  <2> HIDE DEF g
  <2>4. Cells(n + 1, g) = Cells(n, c) \cup {r}
      BY <2>2, <2>3 DEF Cells
  <2>5. Contents(n + 1, g) = Contents(n, c) \cup {data[r]}
    <3>1. \A x: x \in Contents(n + 1, g) <=> x = data[r] \/ \E i \in 1..n: x = data[c[i]]
        BY <2>2, <2>3 DEF Contents
    <3>2. \A x: x \in Contents(n, c) <=> \E i \in 1..n: x = data[c[i]]
        BY DEF Contents
    <3>3. \A x: x \in Contents(n + 1, g) <=> x \in Contents(n, c) \cup {data[r]}
        BY <3>1, <3>2, Zenon
    <3> QED BY <3>3, Zenon
  <2> QED BY <1>4, <2>2, <2>3, <2>4, <2>5
<1>6. Cells(n + 1, g)' = Cells(n + 1, g) /\ Contents(n + 1, g)' = Contents(n + 1, g)
    BY DEF Cells, Contents
<1>7. r # NULL /\ message[p] # NULL
    BY <1>4, Constants
<1> HIDE DEF g
<1>8. Records(n + 1, g)'
  <2>1. {record[d]: d \in Contexts}' = {record[d]: d \in Contexts}
      BY <1>2
  <2>2. Distinct /\ \A q \in Producers: record'[q] = record[q] /\ message'[q] = message[q]
      BY <1>1, <1>2, Constants DEF Records
  <2>3. Distinct'
      BY <2>2 DEF Distinct
  <2>4. ASSUME NEW q \in Producers PROVE RecordFits(q, n + 1, g)'
    <3>1. RecordFits(q, n, c)
        BY <1>1 DEF Records
    <3>2. CASE q = p
        BY <1>3, <1>4, <1>5, <1>6, <2>2, <3>2 DEF RecordFits
    <3>3. CASE q # p
      <4>1. pc'[q] = pc[q]
          BY <1>2, <3>3, Constants
      <4>2. record[q] # r
          BY <1>7, <2>2, <3>3 DEF Distinct
      <4>3. record'[q] \in Cells(n + 1, g) <=> record[q] \in Cells(n, c)
          BY <1>5, <2>2, <4>2
      <4>4. pc[q] \in {"set first", "append"} =>
                record[q] \in Segments \ Cells(n, c)
        <5>1. pc[q] \in {"set first", "append"} => pc[q] \in Recording /\ pc[q] \notin Linked
            BY DEF Recording, Inserting, Linked
        <5> QED BY <3>1, <5>1, Hands DEF RecordFits
      <4> QED BY <1>6, <2>2, <3>1, <4>1, <4>3, <4>4 DEF RecordFits, ElseUnlinked
    <3> QED BY <3>2, <3>3
  <2>5. pc'[Main] = "free record" => /\ record'[Main] \notin Cells(n + 1, g)
                                     /\ \A q \in Producers: record'[q] # record'[Main]
    <3>1. pc[Main] = "free record" => /\ record[Main] \notin Cells(n, c) /\ record[Main] # r
                                      /\ \A q \in Producers: record[q] # record[Main]
        BY <1>1 DEF Records
    <3> QED BY <1>2, <1>5, <2>2, <3>1
  <2>6. taken'["queue"] = Cells(n + 1, g) \cup ({record[d]: d \in Contexts}' \ {NULL})
    <3>1. r \in {record[d]: d \in Contexts} \ {NULL}
        BY <1>2, <1>7
    <3> QED BY <1>1, <1>5, <2>1, <3>1 DEF Records
  <2> QED BY <1>6, <2>3, <2>4, <2>5, <2>6 DEF Records
<1>9. Messages(n + 1, g)'
  <2> DEFINE m == message[p]
  <2>1. Own(p) = {m} /\ Own(p)' = {} /\ Buffered(p)' = Buffered(p)
      BY <1>2, <1>3, <1>7, Constants DEF Own, Buffered, Keeps
  <2>2. ASSUME NEW q \in Producers, q # p PROVE Own(q)' = Own(q) /\ Buffered(q)' = Buffered(q)
    <3>1. message'[q] = message[q] /\ buffer'[q] = buffer[q] /\ pc'[q] = pc[q]
        BY <1>2, <2>2, Constants DEF Alone
    <3> QED BY <3>1 DEF Own, Buffered
  <2>3. Apart /\ m \notin Contents(n, c) /\ m \notin Reading
    <3>1. m \in Writing
        BY <2>1, WritingIs
    <3> QED BY <1>1, <3>1 DEF Messages
  <2>4. Reading' = Reading
      BY <1>2 DEF Reading
  <2>5. /\ \A q \in Producers: q # p => m \notin Own(q) /\ m \notin Buffered(q)
        /\ m \notin Buffered(p)
      BY <2>1, <2>3 DEF Apart
  <2>6. Writing' = Writing \ {m}
    <3>1. \A x: x \in Writing' <=> \E q \in Producers: x \in Own(q)' \cup Buffered(q)'
        BY HoldingsNext DEF Holdings
    <3>2. \A x: x \in Writing' <=> x \in Writing /\ x # m
      <4> TAKE x
      <4>1. ASSUME x \in Writing' PROVE x \in Writing /\ x # m
        <5>1. PICK q \in Producers: x \in Own(q)' \cup Buffered(q)'
            BY <3>1, <4>1
        <5>2. CASE q = p
            BY <2>1, <2>5, <5>1, <5>2, WritingIs
        <5>3. CASE q # p
            BY <2>2, <2>5, <5>1, <5>3, WritingIs
        <5> QED BY <5>2, <5>3
      <4>2. ASSUME x \in Writing, x # m PROVE x \in Writing'
        <5>1. PICK q \in Producers: x \in Own(q) \cup Buffered(q)
            BY <4>2, WritingIs
        <5>2. x \in Own(q)' \cup Buffered(q)'
          <6>1. CASE q = p
              BY <2>1, <4>2, <5>1, <6>1
          <6>2. CASE q # p
              BY <2>2, <5>1, <6>2
          <6> QED BY <6>1, <6>2
        <5> QED BY <3>1, <5>2
      <4> QED BY <4>1, <4>2
    <3> QED BY <3>2
  <2>7. Apart'
    <3> SUFFICES ASSUME NEW q \in Producers, NEW s \in Producers
                 PROVE  /\ q # s => /\ Own(q)' \cap Own(s)' = {}
                                    /\ Buffered(q)' \cap Buffered(s)' = {}
                        /\ Own(q)' \cap Buffered(s)' = {}
        BY DEF Apart
    <3>1. /\ Own(q)' \subseteq Own(q) /\ Buffered(q)' = Buffered(q)
          /\ Own(s)' \subseteq Own(s) /\ Buffered(s)' = Buffered(s)
        BY <2>1, <2>2
    <3>2. /\ q # s => Own(q) \cap Own(s) = {} /\ Buffered(q) \cap Buffered(s) = {}
          /\ Own(q) \cap Buffered(s) = {}
        BY <2>3 DEF Apart
    <3> QED BY <3>1, <3>2
  <2>8. \A i, j \in 1 .. n + 1: data[g[i]] = data[g[j]] => i = j
    <3>1. \A i \in 1..n: data[g[i]] \in Contents(n, c)
        BY <1>5 DEF Contents
    <3>2. data[g[n + 1]] = m
        BY <1>4, <1>5
    <3>3. \A i, j \in 1..n: data[g[i]] = data[g[j]] => i = j
        BY <1>1, <1>5 DEF Messages
    <3> HIDE DEF m
    <3> QED BY <1>5, <2>3, <3>1, <3>2, <3>3
  <2>9. /\ Writing' \cap Reading' = {}
        /\ (Writing' \cup Reading') \cap Contents(n + 1, g) = {}
    <3>1. Writing \cap Reading = {} /\ (Writing \cup Reading) \cap Contents(n, c) = {}
        BY <1>1 DEF Messages
    <3>2. Contents(n + 1, g) = Contents(n, c) \cup {m}
        BY <1>5
    <3> QED BY <2>3, <2>4, <2>6, <3>1, <3>2
  <2>10. taken'["region"] = Contents(n + 1, g) \cup Writing' \cup Reading'
    <3>1. m \in Writing
        BY <2>1, WritingIs
    <3>2. taken'["region"] = Contents(n, c) \cup Writing \cup Reading
        BY <1>1 DEF Messages
    <3> QED BY <1>5, <2>4, <2>6, <3>1, <3>2
  <2> QED BY <1>6, <2>7, <2>8, <2>9, <2>10 DEF Messages
<1> QED BY <1>8, <1>9 DEF g

LEMMA SetFirstSound ==
    ASSUME Basics, NEW CONSTANT n, NEW CONSTANT c, Sound(n, c), NEW CONSTANT p \in Producers,
           SetFirst(p), first = NULL, NEW CONSTANT r, record[p] = r
    PROVE  n = 0 /\ Sound(n + 1, Grown(n, c, r))' /\ UNCHANGED data
<1>1. /\ n \in Nat /\ c \in [1..n -> Segments] /\ Chain(n, c) /\ LastFits(n, c)
      /\ TakeFits(n, c) /\ Records(n, c) /\ Messages(n, c)
    BY SoundParts
<1>2. /\ Alone(p) /\ pc[p] = "set first" /\ pc'[p] = "set last" /\ Keeps(p) /\ first' = r
      /\ UNCHANGED <<last, link, data, taken, next, raced>>
    BY SetFirstStep
<1>3. n = 0
  <2>1. n # 0 => first = c[1] /\ c[1] \in Segments
      BY <1>1 DEF Chain
  <2> QED BY <1>1, <2>1, Constants
<1>4. r \in Segments /\ link[r] = NULL
  <2>1. pc[p] \in Recording
      BY <1>2 DEF Recording, Inserting
  <2> QED BY <1>1, <1>2, <2>1, Hands DEF Records, RecordFits
<1> DEFINE g == Grown(n, c, r)
<1>5. g \in [1 .. n + 1 -> Segments] /\ g[n + 1] = r /\ n + 1 = 1
  <2>1. g \in [1 .. n + 1 -> Segments] /\ g[n + 1] = r
      BY <1>1, <1>4, GrownIs
  <2> QED BY <1>3, <2>1
<1> HIDE DEF g
<1>6. /\ \A q \in Producers: q # p => pc'[q] = pc[q]
      /\ pc'[Main] = pc[Main] /\ message'[Main] = message[Main]
    BY <1>2, Constants DEF Alone
<1>7. Chain(n + 1, g)'
  <2>1. \A i \in 1..1: i = 1
      OBVIOUS
  <2>2. first' = g[1] /\ link'[g[1]] = NULL
      BY <1>2, <1>4, <1>5
  <2> QED BY <1>5, <2>1, <2>2 DEF Chain
<1>8. LastFits(n + 1, g)'
  <2>1. \A q \in Producers: pc[q] \notin {"append", "set last", "advance"}
    <3>1. ~(n > 0) /\ n # 1 /\ \A i \in 1..n: FALSE
        BY <1>3
    <3>2. ~NearEnd(n, c)
        BY <3>1 DEF NearEnd
    <3> QED BY <1>1, <3>1, <3>2 DEF LastFits
  <2>2. \A q \in Producers: pc'[q] \notin {"append", "advance"}
    <3> TAKE q \in Producers
    <3>1. CASE q = p
        BY <1>2, <3>1
    <3>2. CASE q # p
        BY <1>6, <2>1, <3>2
    <3> QED BY <3>1, <3>2
  <2>3. pc'[p] = "set last"
      BY <1>2
  <2> QED BY <1>5, <2>2, <2>3 DEF LastFits
<1>9. TakeFits(n + 1, g)'
  <2>1. pc[Main] \notin {"read next", "swing"}
    <3>1. ~(n > 0)
        BY <1>3
    <3> QED BY <1>1, <3>1 DEF TakeFits
  <2> QED BY <1>1, <1>6, <2>1 DEF TakeFits
<1>10. Records(n + 1, g)' /\ Messages(n + 1, g)'
    BY <1>2, <1>4, Linking DEF g, ElseUnlinked
<1> QED BY <1>1, <1>2, <1>3, <1>5, <1>7, <1>8, <1>9, <1>10, SoundParts DEF g

LEMMA AppendRecordSound ==
    ASSUME Basics, Clear, NEW CONSTANT n, NEW CONSTANT c, Sound(n, c),
           NEW CONSTANT p \in Producers, AppendRecord(p), NEW CONSTANT r, record[p] = r
    PROVE  n > 0 /\ Sound(n + 1, Grown(n, c, r))' /\ pc'[p] = "advance" /\ UNCHANGED data
<1>1. /\ n \in Nat /\ c \in [1..n -> Segments] /\ Chain(n, c) /\ LastFits(n, c)
      /\ TakeFits(n, c) /\ Records(n, c) /\ Messages(n, c)
    BY SoundParts
<1>2. /\ Alone(p) /\ pc[p] = "append" /\ Keeps(p) /\ Quiet(p)
      /\ UNCHANGED <<first, last, data, taken, next, raced>>
    BY AppendRecordStep
<1>3. n > 0 /\ n \in 1..n /\ 1 \in 1..n /\ p \in Contexts /\ p # Main
  <2>1. n > 0 /\ n \in Nat
      BY <1>1, <1>2 DEF LastFits
  <2> QED BY <2>1, Constants
\* Whoever was about to move last would have been met in a Window.
<1>4. \A q \in Producers: pc[q] \notin {"set last", "advance"}
  <2> SUFFICES ASSUME NEW q \in Producers, pc[q] \in {"set last", "advance"} PROVE FALSE
      OBVIOUS
  <2>1. q # p /\ pc[q] # "idle"
      BY <1>2
  <2>2. q < p
      BY <1>2, <2>1, OthersAreLower
  <2>3. ~Window(p)
      BY <1>2 DEF Clear, Inserting
  <2> QED BY <2>2, <2>3 DEF Window
<1>5. last = c[n] /\ link[c[n]] = NULL /\ last \in Segments /\ last # NULL
  <2>1. last = c[n] /\ link[c[n]] = NULL
      BY <1>1, <1>3, <1>4 DEF LastFits, Chain
  <2> QED BY <1>1, <1>3, <2>1, Constants
<1>6. pc'[p] = "advance" /\ link' = [link EXCEPT ![last] = r]
    BY <1>5, AppendRecordStep
<1>7. r \in Segments /\ link[r] = NULL /\ r \notin Cells(n, c)
  <2>1. pc[p] \in Recording /\ pc[p] \notin Linked
      BY <1>2 DEF Recording, Inserting, Linked
  <2> QED BY <1>1, <1>2, <2>1, Hands DEF Records, RecordFits
<1>8. \A s \in Segments: link'[s] = IF s = last THEN r ELSE link[s]
    BY <1>5, <1>6, Types DEF Basics, FifoTypes
<1>9. last \in Cells(n, c) /\ last # r
    BY <1>3, <1>5, <1>7 DEF Cells
<1> DEFINE g == Grown(n, c, r)
<1>10. /\ g \in [1 .. n + 1 -> Segments] /\ g[n + 1] = r /\ \A i \in 1..n: g[i] = c[i]
       /\ 1 .. n + 1 = 1..n \cup {n + 1} /\ n + 1 \notin 1..n
  <2>1. g \in [1 .. n + 1 -> Segments] /\ g[n + 1] = r /\ \A i \in 1..n: g[i] = c[i]
      BY <1>1, <1>7, GrownIs
  <2> QED BY <1>1, <2>1, OneMore
<1> HIDE DEF g
<1>11. /\ \A q \in Producers: q # p => pc'[q] = pc[q]
       /\ pc'[Main] = pc[Main] /\ message'[Main] = message[Main] /\ record'[Main] = record[Main]
    BY <1>2, Constants DEF Alone
<1>12. Chain(n + 1, g)'
  <2>1. first' = g[1]
      BY <1>1, <1>2, <1>3, <1>10 DEF Chain
  <2>2. link'[g[n + 1]] = NULL
      BY <1>7, <1>8, <1>9, <1>10
  <2>3. \A i \in 1..n: link'[g[i]] = g[i + 1]
    <3> TAKE i \in 1..n
    <3>1. CASE i = n
        BY <1>5, <1>8, <1>10, <3>1
    <3>2. CASE i # n
      <4>1. i + 1 \in 1..n /\ g[i + 1] = c[i + 1] /\ g[i] = c[i] /\ c[i] \in Segments
          BY <1>1, <1>10, <3>2
      <4>2. c[i] # last /\ link[c[i]] = c[i + 1]
          BY <1>1, <1>3, <1>5, <3>2 DEF Chain
      <4> QED BY <1>8, <4>1, <4>2
    <3> QED BY <3>1, <3>2
  <2>4. \A i, j \in 1 .. n + 1: g[i] = g[j] => i = j
    <3>1. \A i \in 1..n: g[i] \in Cells(n, c)
        BY <1>10 DEF Cells
    <3>2. \A i, j \in 1..n: g[i] = g[j] => i = j
        BY <1>1, <1>10 DEF Chain
    <3> QED BY <1>7, <1>10, <3>1, <3>2
  <2>5. \A i \in 1 .. n + 1: link'[g[i]] = IF i = n + 1 THEN NULL ELSE g[i + 1]
      BY <1>10, <2>2, <2>3
  <2>6. n + 1 # 0
      BY <1>1
  <2> QED BY <2>1, <2>4, <2>5, <2>6 DEF Chain
<1>13. LastFits(n + 1, g)'
  <2>1. last' = g[n] /\ n \in 1 .. n + 1 /\ n + 1 >= n + 1
      BY <1>1, <1>2, <1>3, <1>5, <1>10
  <2>2. \A q \in Producers: pc'[q] \notin {"set last", "append"} \/ (pc'[q] = "append" /\ q # p)
      BY <1>4, <1>6, <1>11
  <2>3. n + 1 > 0 /\ pc'[p] = "advance"
      BY <1>1, <1>6
  <2>4. NearEnd(n + 1, g)'
      BY <2>1 DEF NearEnd
  <2> QED BY <2>2, <2>3, <2>4 DEF LastFits
<1>14. TakeFits(n + 1, g)'
  <2>1. ~(pc[Main] = "swing" /\ next = NULL)
      BY <1>2 DEF Clear, Inserting, Window
  <2>2. pc[Main] = "swing" => n # 1 /\ 2 \in 1..n /\ next = c[2]
    <3>1. pc[Main] = "swing" => next = IF n = 1 THEN NULL ELSE c[2]
        BY <1>1 DEF TakeFits
    <3> QED BY <1>1, <1>3, <2>1, <3>1
  <2>3. g[1] = c[1] /\ (n # 1 => g[2] = c[2])
      BY <1>1, <1>3, <1>10
  <2>4. n + 1 > 0 /\ n + 1 # 1
      BY <1>1, <1>3
  <2> QED BY <1>1, <1>2, <1>11, <2>2, <2>3, <2>4 DEF TakeFits
<1>15. Records(n + 1, g)' /\ Messages(n + 1, g)'
  <2>1. link'[r] = NULL /\ ElseUnlinked(n, c)
      BY <1>7, <1>8, <1>9 DEF ElseUnlinked
  <2> QED BY <1>2, <1>6, <2>1, Linking DEF g
<1>16. n + 1 \in Nat
    BY <1>1
<1> QED BY <1>2, <1>3, <1>6, <1>10, <1>12, <1>13, <1>14, <1>15, <1>16, SoundParts DEF g

LEMMA SetLastSound ==
    ASSUME Basics, NEW CONSTANT n, NEW CONSTANT c, Sound(n, c), NEW CONSTANT p \in Producers,
           SetLast(p)
    PROVE  Sound(n, c)'
<1>1. /\ Alone(p) /\ pc[p] = "set last" /\ pc'[p] = "announce" /\ Keeps(p)
      /\ last' = first /\ UNCHANGED <<first, link, data, taken, next, raced>>
    BY SetLastStep
<1>2. n = 1 /\ LastFits(n, c) /\ Chain(n, c)
    BY <1>1, SoundParts DEF LastFits
<1>3. last' = c[n]
  <2>1. first = c[1]
      BY <1>2 DEF Chain
  <2> QED BY <1>1, <1>2, <2>1
<1>4. \A q \in Producers: q # p => pc'[q] = pc[q]
    BY <1>1, Constants DEF Alone
<1>5. LastFits(n, c)'
  <2>1. NearEnd(n, c)'
      BY <1>2, <1>3 DEF NearEnd
  <2>2. \A q \in Producers: /\ pc'[q] = "append" => n > 0
                            /\ pc'[q] = "set last" => n = 1
      BY <1>2
  <2> QED BY <1>3, <2>1, <2>2 DEF LastFits
<1> QED BY <1>1, <1>5, Frame DEF Linked

LEMMA AdvanceSound ==
    ASSUME Basics, NEW CONSTANT n, NEW CONSTANT c, Sound(n, c), NEW CONSTANT p \in Producers,
           Advance(p)
    PROVE  Sound(n, c)'
<1>1. /\ Alone(p) /\ pc[p] = "advance" /\ Keeps(p)
      /\ UNCHANGED <<first, link, data, taken, next, raced>>
      /\ \/ link[last] # NULL /\ last' = link[last] /\ pc'[p] = "advance"
         \/ link[last] = NULL /\ last' = last /\ pc'[p] = "announce"
    BY AdvanceStep
<1>2. n \in Nat /\ LastFits(n, c) /\ Chain(n, c) /\ NearEnd(n, c) /\ c \in [1..n -> Segments]
    BY <1>1, SoundParts DEF LastFits
<1>3. last' = c[n] /\ n > 0
  <2>1. PICK i \in 1..n: last = c[i] /\ i + 1 >= n
      BY <1>2 DEF NearEnd
  <2>2. link[last] = IF i = n THEN NULL ELSE c[i + 1]
      BY <1>2, <2>1 DEF Chain
  <2>3. CASE i = n
      BY <1>1, <2>1, <2>2, <2>3
  <2>4. CASE i # n
    <3>1. i + 1 = n /\ n \in 1..n
        BY <1>2, <2>1, <2>4
    <3>2. link[last] = c[n] /\ c[n] # NULL
        BY <1>2, <2>2, <2>4, <3>1, Constants
    <3> QED BY <1>1, <3>1, <3>2
  <2> QED BY <2>1, <2>3, <2>4
<1>4. \A q \in Producers: q # p => pc'[q] = pc[q]
    BY <1>1, Constants DEF Alone
<1>5. LastFits(n, c)'
  <2>1. NearEnd(n, c)'
      BY <1>2, <1>3 DEF NearEnd
  <2>2. \A q \in Producers: /\ pc'[q] = "append" => n > 0
                            /\ pc'[q] = "set last" => n = 1
      BY <1>1, <1>2, <1>4 DEF LastFits
  <2> QED BY <1>3, <2>1, <2>2 DEF LastFits
<1> QED BY <1>1, <1>5, Frame DEF Linked

LEMMA AnnounceSound ==
    ASSUME Basics, NEW CONSTANT n, NEW CONSTANT c, Sound(n, c), NEW CONSTANT p \in Producers,
           Announce(p)
    PROVE  Sound(n, c)'
<1>1. /\ n \in Nat /\ c \in [1..n -> Segments] /\ Chain(n, c) /\ LastFits(n, c)
      /\ TakeFits(n, c) /\ Records(n, c) /\ Messages(n, c)
    BY SoundParts
<1>2. /\ Alone(p) /\ pc[p] = "announce" /\ pc'[p] = "idle"
      /\ message'[p] = NULL /\ record'[p] = NULL /\ buffer'[p] = buffer[p] /\ Unlisted
    BY AnnounceStep
<1>3. UNCHANGED <<first, last, link, data, taken, next>>
    BY <1>2 DEF Unlisted
<1>4. /\ \A d \in Contexts: /\ d # p => /\ pc'[d] = pc[d] /\ record'[d] = record[d]
                                        /\ message'[d] = message[d]
      /\ \A q \in Producers: buffer'[q] = buffer[q]
      /\ p \in Contexts /\ p # Main /\ Main \in Contexts
    BY <1>2, Constants DEF Alone
<1>5. \A q \in Producers: q # p => pc'[q] = pc[q]
    BY <1>4, Constants
<1>6. Chain(n, c)' /\ LastFits(n, c)' /\ TakeFits(n, c)'
  <2>1. \A q \in Producers: /\ pc'[q] \in {"append", "set last", "advance"} => pc'[q] = pc[q]
                            /\ pc[q] \in {"set last", "advance"} => pc'[q] = pc[q]
      BY <1>2, <1>5
  <2>2. LastFits(n, c)'
      BY <1>1, <1>3, <2>1 DEF LastFits, NearEnd
  <2> QED BY <1>1, <1>3, <1>4, <2>2 DEF Chain, TakeFits
<1>7. Cells(n, c)' = Cells(n, c)
    BY DEF Cells
<1>8. record[p] \in Cells(n, c)
    BY <1>1, <1>2 DEF Records, RecordFits, Linked
<1>9. NULL \notin Cells(n, c)
    BY <1>1, Constants DEF Cells
<1>10. Records(n, c)'
  <2>1. \A q \in Producers: record'[q] = IF q = p THEN NULL ELSE record[q]
      BY <1>2, <1>4, Constants
  <2>2. Distinct'
    <3>1. Distinct
        BY <1>1 DEF Records
    <3> QED BY <2>1, <3>1 DEF Distinct
  <2>3. ASSUME NEW q \in Producers PROVE RecordFits(q, n, c)'
    <3>1. RecordFits(q, n, c)
        BY <1>1 DEF Records
    <3>2. CASE q = p
        BY <1>2, <1>7, <1>9, <3>2 DEF RecordFits, Linked, Inserting
    <3>3. CASE q # p
      <4>1. pc'[q] = pc[q] /\ record'[q] = record[q] /\ message'[q] = message[q]
          BY <1>4, <3>3, Constants
      <4> QED BY <1>3, <1>7, <3>1, <4>1 DEF RecordFits
    <3> QED BY <3>2, <3>3
  <2>4. pc'[Main] = "free record" =>
          record'[Main] \notin Cells(n, c) /\ \A q \in Producers: record'[q] # record'[Main]
    <3>1. pc[Main] = "free record" =>
            /\ record[Main] \notin Cells(n, c) /\ record[Main] # NULL
            /\ \A q \in Producers: record[q] # record[Main]
        BY <1>1 DEF Records, Basics, LocalsFit, MainFits
    <3> QED BY <1>4, <2>1, <3>1
  <2>5. taken["queue"] = Cells(n, c) \cup ({record[d]: d \in Contexts}' \ {NULL})
    <3>1. taken["queue"] = Cells(n, c) \cup ({record[d]: d \in Contexts} \ {NULL})
        BY <1>1 DEF Records
    <3>2. \A x: x \in {record[d]: d \in Contexts} /\ x # NULL /\ x # record[p]
                    => x \in {record[d]: d \in Contexts}'
        BY <1>4
    <3>3. \A x: x \in {record[d]: d \in Contexts}' /\ x # NULL => x \in {record[d]: d \in Contexts}
        BY <1>2, <1>4
    <3> QED BY <1>8, <3>1, <3>2, <3>3
  <2> QED BY <1>3, <1>7, <2>2, <2>3, <2>4, <2>5 DEF Records
<1>11. Messages(n, c)'
  <2>1. \A q \in Producers: Own(q)' = Own(q) /\ Buffered(q)' = Buffered(q)
    <3> TAKE q \in Producers
    <3>1. CASE q = p
        BY <1>2, <3>1 DEF Own, Buffered, Linked
    <3>2. CASE q # p
        BY <1>4, <3>2, Constants DEF Own, Buffered
    <3> QED BY <3>1, <3>2
  <2>2. Reading' = Reading
      BY <1>4 DEF Reading
  <2>3. taken'["region"] = taken["region"] /\ \A i \in 1..n: data'[c[i]] = data[c[i]]
      BY <1>3
  <2> QED BY <1>1, <2>1, <2>2, <2>3, MessagesKept
<1> QED BY <1>1, <1>6, <1>10, <1>11, SoundParts

-----------------------------------------------------------------------------
(* The main loop: nobody else is on the way.                               *)

LEMMA OthersIdle ==
    ASSUME Basics, Quiet(Main), Alone(Main)
    PROVE  /\ \A q \in Producers: /\ pc[q] = "idle" /\ record[q] = NULL
                                  /\ pc'[q] = "idle" /\ record'[q] = NULL
           /\ \A q \in Producers: Own(q)' = Own(q) /\ Buffered(q)' = Buffered(q)
<1>1. \A q \in Producers: pc[q] = "idle"
    BY MainIsLast
<1>2. \A q \in Producers: record[q] = NULL
    BY <1>1, Hands DEF Recording, Inserting, Linked
<1>3. \A q \in Producers: /\ pc'[q] = pc[q] /\ record'[q] = record[q]
                          /\ message'[q] = message[q] /\ buffer'[q] = buffer[q]
    BY Constants DEF Alone
<1>4. \A q \in Producers: Own(q)' = Own(q) /\ Buffered(q)' = Buffered(q)
    BY <1>3 DEF Own, Buffered
<1> QED BY <1>1, <1>2, <1>3, <1>4

LEMMA NullIsNoCell ==
    ASSUME NEW n \in Nat, NEW c \in [1..n -> Segments]
    PROVE  /\ Cells(n, c) \subseteq Segments /\ NULL \notin Cells(n, c)
BY Constants DEF Cells

LEMMA MainQueue ==
    ASSUME NEW n, NEW c, Records(n, c), \A q \in Producers: record[q] = NULL
    PROVE  taken["queue"] = Cells(n, c) \cup ({record[Main]} \ {NULL})
<1>1. \A x: x \in {record[d]: d \in Contexts} \ {NULL} <=> x \in {record[Main]} \ {NULL}
    BY Constants
<1> QED BY <1>1 DEF Records

\* What has to be seen to of the list when the main loop takes a step.
LEMMA MainSound ==
    ASSUME Basics, Basics', Quiet(Main), Alone(Main), NEW CONSTANT n \in Nat,
           NEW CONSTANT c \in [1..n -> Segments], Chain(n, c)', TakeFits(n, c)', Messages(n, c)',
           n > 0 => last' = c[n],
           pc'[Main] = "free record" => record'[Main] \notin Cells(n, c)',
           taken'["queue"] = Cells(n, c)' \cup ({record'[Main]} \ {NULL})
    PROVE  Sound(n, c)'
<1>1. \A q \in Producers: pc'[q] = "idle" /\ record'[q] = NULL
    BY OthersIdle
<1>2. LastFits(n, c)'
    BY <1>1 DEF LastFits
<1>3. Cells(n, c)' = Cells(n, c) /\ NULL \notin Cells(n, c)
    BY NullIsNoCell DEF Cells
<1>4. Records(n, c)'
  <2>1. Distinct'
      BY <1>1 DEF Distinct
  <2>2. ASSUME NEW q \in Producers PROVE RecordFits(q, n, c)'
      BY <1>1, <1>3 DEF RecordFits, Linked, Inserting
  <2>3. pc'[Main] = "free record" => \A q \in Producers: record'[q] # record'[Main]
    <3>1. MainFits'
        BY DEF Basics, LocalsFit
    <3> QED BY <1>1, <3>1 DEF MainFits
  <2>4. \A x: x \in {record[d]: d \in Contexts}' /\ x # NULL <=> x = record'[Main] /\ x # NULL
      BY <1>1, Constants
  <2>5. taken'["queue"] = Cells(n, c)' \cup ({record[d]: d \in Contexts}' \ {NULL})
      BY <2>4
  <2> QED BY <2>1, <2>2, <2>3, <2>5 DEF Records
<1> QED BY <1>2, <1>4, SoundParts

\* A step that leaves the list and the messages alone.
LEMMA MainFrame ==
    ASSUME Basics, Basics', Quiet(Main), Alone(Main), NEW CONSTANT n, NEW CONSTANT c, Sound(n, c),
           UNCHANGED <<first, last, link, data, taken>>, message'[Main] = message[Main],
           pc'[Main] # "free record", TakeFits(n, c)',
           record[Main] \in Cells(n, c) \cup {NULL}, record'[Main] \in Cells(n, c) \cup {NULL}
    PROVE  Sound(n, c)'
<1>1. /\ n \in Nat /\ c \in [1..n -> Segments] /\ Chain(n, c) /\ LastFits(n, c)
      /\ TakeFits(n, c) /\ Records(n, c) /\ Messages(n, c)
    BY SoundParts
<1>2. Chain(n, c)'
    BY <1>1 DEF Chain
<1>3. n > 0 => last' = c[n]
    BY <1>1, MainIsLast DEF LastFits
<1>4. Messages(n, c)'
  <2>1. Reading' = Reading
      BY DEF Reading
  <2> QED BY <1>1, <2>1, OthersIdle, MessagesKept
<1>5. taken'["queue"] = Cells(n, c)' \cup ({record'[Main]} \ {NULL})
  <2>1. \A q \in Producers: record[q] = NULL
      BY OthersIdle
  <2>2. taken["queue"] = Cells(n, c) \cup ({record[Main]} \ {NULL})
      BY <1>1, <2>1, MainQueue
  <2>3. Cells(n, c)' = Cells(n, c)
      BY DEF Cells
  <2> QED BY <2>2, <2>3
<1> QED BY <1>1, <1>2, <1>3, <1>4, <1>5, MainSound

LEMMA FirstIsCell ==
    ASSUME NEW n, NEW c, Sound(n, c)
    PROVE  /\ n > 0 => first = c[1] /\ c[1] \in Cells(n, c) /\ c[1] \in Segments /\ c[1] # NULL
           /\ n = 0 => first = NULL
           /\ n \in Nat /\ c \in [1..n -> Segments]
<1>1. n \in Nat /\ c \in [1..n -> Segments] /\ Chain(n, c)
    BY SoundParts
<1>2. n > 0 => 1 \in 1..n /\ n # 0
    BY <1>1
<1> QED BY <1>1, <1>2, Constants DEF Cells, Chain

LEMMA ProcessQueueSound ==
    ASSUME Basics, NEW CONSTANT n, NEW CONSTANT c, Sound(n, c), ProcessQueue
    PROVE  Sound(n, c)'
<1>1. /\ Basics' /\ Alone(Main) /\ Quiet(Main) /\ pc[Main] = "idle" /\ pc'[Main] = "take"
      /\ Keeps(Main) /\ Unlisted
    BY ProcessQueueStep
<1>2. /\ UNCHANGED <<first, last, link, data, taken>> /\ message'[Main] = message[Main]
      /\ record'[Main] = record[Main]
    BY <1>1 DEF Keeps, Unlisted
<1>3. record[Main] = NULL
    BY <1>1 DEF Basics, LocalsFit, MainFits
<1>4. TakeFits(n, c)'
    BY <1>1, <1>2, SoundParts DEF TakeFits
<1> QED BY <1>1, <1>2, <1>3, <1>4, MainFrame

LEMMA TakeSound ==
    ASSUME Basics, NEW CONSTANT n, NEW CONSTANT c, Sound(n, c), Take
    PROVE  Sound(n, c)'
<1>1. /\ Basics' /\ Alone(Main) /\ Quiet(Main) /\ pc[Main] = "take"
      /\ message'[Main] = message[Main] /\ Unlisted /\ record'[Main] = first
      /\ pc'[Main] = IF first = NULL THEN "idle" ELSE "read next"
    BY TakeStep
<1>2. UNCHANGED <<first, last, link, data, taken>>
    BY <1>1 DEF Unlisted
<1>3. record[Main] = NULL
    BY <1>1 DEF Basics, LocalsFit, MainFits
<1>4. /\ n > 0 => first = c[1] /\ c[1] \in Cells(n, c) /\ c[1] # NULL
      /\ n = 0 => first = NULL
      /\ n \in Nat
    BY FirstIsCell
<1>5. TakeFits(n, c)'
  <2>1. first # NULL => n > 0
      BY <1>4
  <2> QED BY <1>1, <1>4, <2>1, SoundParts DEF TakeFits
<1>6. record'[Main] \in Cells(n, c) \cup {NULL}
  <2>1. n > 0 \/ n = 0
      BY <1>4
  <2> QED BY <1>1, <1>4, <2>1
<1> QED BY <1>1, <1>2, <1>3, <1>5, <1>6, MainFrame

LEMMA ReadNextSound ==
    ASSUME Basics, NEW CONSTANT n, NEW CONSTANT c, Sound(n, c), ReadNext
    PROVE  Sound(n, c)'
<1>1. /\ Basics' /\ Alone(Main) /\ Quiet(Main) /\ pc[Main] = "read next" /\ pc'[Main] = "swing"
      /\ Keeps(Main) /\ next' = link[record[Main]] /\ UNCHANGED <<first, last, link, data, taken>>
    BY ReadNextStep
<1>2. /\ message'[Main] = message[Main] /\ record'[Main] = record[Main]
    BY <1>1 DEF Keeps
<1>3. TakeFits(n, c) /\ Chain(n, c) /\ n \in Nat
    BY SoundParts
<1>4. n > 0 /\ record[Main] = c[1] /\ 1 \in 1..n
  <2>1. n > 0 /\ record[Main] = c[1]
      BY <1>1, <1>3 DEF TakeFits
  <2> QED BY <1>3, <2>1
<1>5. c[1] \in Cells(n, c)
    BY <1>4 DEF Cells
<1>6. link[c[1]] = IF n = 1 THEN NULL ELSE c[2]
  <2>1. link[c[1]] = IF 1 = n THEN NULL ELSE c[1 + 1]
      BY <1>3, <1>4 DEF Chain
  <2> QED BY <2>1
<1>7. TakeFits(n, c)'
    BY <1>1, <1>2, <1>3, <1>4, <1>6 DEF TakeFits
<1> QED BY <1>1, <1>2, <1>4, <1>5, <1>7, MainFrame

\* The list without its first record.
Shifted(n, c) == [i \in 1 .. n - 1 |-> c[i + 1]]

LEMMA ShiftedIs ==
    ASSUME NEW n \in Nat \ {0}, NEW c \in [1..n -> Segments]
    PROVE  /\ n - 1 \in Nat /\ Shifted(n, c) \in [1 .. n - 1 -> Segments]
           /\ \A i \in 1 .. n - 1: Shifted(n, c)[i] = c[i + 1] /\ i + 1 \in 1..n /\ i + 1 # 1
           /\ \A i \in 1..n: i # 1 => i - 1 \in 1 .. n - 1 /\ Shifted(n, c)[i - 1] = c[i]
<1>1. n - 1 \in Nat /\ \A i \in 1 .. n - 1: i + 1 \in 1..n /\ i + 1 # 1
    OBVIOUS
<1>2. \A i \in 1 .. n - 1: Shifted(n, c)[i] = c[i + 1]
    BY DEF Shifted
<1>3. \A i \in 1..n: i # 1 => i - 1 \in 1 .. n - 1 /\ (i - 1) + 1 = i
    OBVIOUS
<1>4. \A i \in 1 .. n - 1: c[i + 1] \in Segments
    BY <1>1
<1>5. Shifted(n, c) \in [1 .. n - 1 -> Segments]
    BY <1>4 DEF Shifted
<1> QED BY <1>1, <1>2, <1>3, <1>5

LEMMA SwingSound ==
    ASSUME Basics, NEW CONSTANT n, NEW CONSTANT c, Sound(n, c), Swing
    PROVE  /\ n > 0 /\ Sound(n - 1, Shifted(n, c))' /\ UNCHANGED data
           /\ Reading = {} /\ Reading' = {data[c[1]]} /\ Writing' = Writing
<1>1. /\ n \in Nat /\ c \in [1..n -> Segments] /\ Chain(n, c) /\ LastFits(n, c)
      /\ TakeFits(n, c) /\ Records(n, c) /\ Messages(n, c)
    BY SoundParts
<1>2. /\ Basics' /\ Alone(Main) /\ Quiet(Main) /\ pc[Main] = "swing" /\ pc'[Main] = "free record"
      /\ record'[Main] = record[Main] /\ first = record[Main] /\ first' = next /\ next' = NULL
      /\ message'[Main] = data[record[Main]] /\ UNCHANGED <<last, link, data, taken>>
    BY SwingStep
<1>3. n > 0 /\ record[Main] = c[1] /\ next = (IF n = 1 THEN NULL ELSE c[2]) /\ message[Main] = NULL
    BY <1>1, <1>2 DEF TakeFits
<1>4. n \in Nat \ {0} /\ 1 \in 1..n /\ n \in 1..n
    BY <1>1, <1>3
<1> DEFINE g == Shifted(n, c)
           m == data[c[1]]
<1>5. /\ n - 1 \in Nat /\ g \in [1 .. n - 1 -> Segments]
      /\ \A i \in 1 .. n - 1: g[i] = c[i + 1] /\ i + 1 \in 1..n /\ i + 1 # 1
      /\ \A i \in 1..n: i # 1 => i - 1 \in 1 .. n - 1 /\ g[i - 1] = c[i]
    BY <1>1, <1>4, ShiftedIs
<1> HIDE DEF g
<1>6. /\ \A i, j \in 1..n: c[i] = c[j] => i = j
      /\ \A i, j \in 1..n: data[c[i]] = data[c[j]] => i = j
    BY <1>1 DEF Chain, Messages
<1>7. m # NULL /\ m \in Contents(n, c) /\ MainFits'
  <2>1. MainFits' /\ TakeFits(n, c)
      BY <1>1, <1>2 DEF Basics, LocalsFit
  <2>2. m \in Contents(n, c)
      BY <1>4 DEF Contents
  <2>3. m # NULL
    <3>1. NULL \notin taken["region"]
        BY Types, Constants DEF Basics, PoolTypes, Pools
    <3>2. Contents(n, c) \subseteq taken["region"]
        BY <1>1 DEF Messages
    <3> QED BY <2>2, <3>1, <3>2
  <2> QED BY <2>1, <2>2, <2>3
<1>8. /\ \A x: x \in Cells(n - 1, g) <=> x \in Cells(n, c) /\ x # c[1]
      /\ \A x: x \in Contents(n - 1, g) <=> x \in Contents(n, c) /\ x # m
  <2>1. \A x: x \in Cells(n - 1, g) => \E i \in 1..n: i # 1 /\ x = c[i]
      BY <1>5 DEF Cells
  <2>2. \A i \in 1..n: i # 1 => c[i] \in Cells(n - 1, g) /\ data[c[i]] \in Contents(n - 1, g)
      BY <1>5 DEF Cells, Contents
  <2>3. \A x: x \in Contents(n - 1, g) => \E i \in 1..n: i # 1 /\ x = data[c[i]]
      BY <1>5 DEF Contents
  <2>4. /\ \A x: x \in Cells(n, c) <=> \E i \in 1..n: x = c[i]
        /\ \A x: x \in Contents(n, c) <=> \E i \in 1..n: x = data[c[i]]
      BY DEF Cells, Contents
  <2>5. \A x: x \in Cells(n - 1, g) <=> x \in Cells(n, c) /\ x # c[1]
      BY <1>4, <1>6, <2>1, <2>2, <2>4
  <2>6. \A x: x \in Contents(n - 1, g) <=> x \in Contents(n, c) /\ x # m
      BY <1>4, <1>6, <2>2, <2>3, <2>4
  <2> QED BY <2>5, <2>6
<1>9. Cells(n - 1, g)' = Cells(n - 1, g) /\ Contents(n - 1, g)' = Contents(n - 1, g)
    BY <1>2 DEF Cells, Contents
<1>10. Reading = {} /\ Reading' = {m} /\ Writing' = Writing
  <2>1. Writing' = Writing
      BY <1>2, OthersIdle, WritingIs, HoldingsNext DEF Holdings
  <2> QED BY <1>2, <1>3, <1>7, <2>1 DEF Reading
<1>11. Chain(n - 1, g)'
  <2>1. first' = IF n - 1 = 0 THEN NULL ELSE g[1]
    <3>1. n # 1 => g[1] = c[2] /\ n - 1 # 0
      <4>1. n # 1 => 1 \in 1 .. n - 1 /\ n - 1 # 0
          BY <1>4
      <4>2. n # 1 => g[1] = c[1 + 1]
          BY <1>5, <4>1
      <4> QED BY <4>1, <4>2
    <3>2. n = 1 => n - 1 = 0
        OBVIOUS
    <3> QED BY <1>2, <1>3, <3>1, <3>2
  <2>2. \A i \in 1 .. n - 1: link'[g[i]] = IF i = n - 1 THEN NULL ELSE g[i + 1]
    <3> TAKE i \in 1 .. n - 1
    <3>1. i + 1 \in 1..n /\ g[i] = c[i + 1]
        BY <1>5
    <3>2. link[c[i + 1]] = IF i + 1 = n THEN NULL ELSE c[(i + 1) + 1]
        BY <1>1, <3>1 DEF Chain
    <3>3. CASE i = n - 1
      <4>1. i + 1 = n
          BY <1>1, <3>3
      <4> QED BY <1>2, <3>1, <3>2, <3>3, <4>1
    <3>4. CASE i # n - 1
      <4>1. i + 1 # n /\ i + 1 \in 1 .. n - 1
          BY <1>1, <3>4
      <4>2. g[i + 1] = c[(i + 1) + 1]
          BY <1>5, <4>1
      <4> QED BY <1>2, <3>1, <3>2, <3>4, <4>1, <4>2
    <3> QED BY <3>3, <3>4
  <2>3. \A i, j \in 1 .. n - 1: g[i] = g[j] => i = j
    <3> TAKE i, j \in 1 .. n - 1
    <3> HAVE g[i] = g[j]
    <3>1. i + 1 = j + 1
        BY <1>5, <1>6
    <3> QED BY <1>1, <3>1
  <2> QED BY <2>1, <2>2, <2>3 DEF Chain
<1>12. TakeFits(n - 1, g)'
  <2>1. message'[Main] # NULL
      BY <1>2, <1>3, <1>7
  <2> QED BY <1>2, <2>1 DEF TakeFits
<1>13. Messages(n - 1, g)'
  <2>1. Apart'
    <3>1. Apart /\ \A q \in Producers: Own(q)' = Own(q) /\ Buffered(q)' = Buffered(q)
        BY <1>1, <1>2, OthersIdle DEF Messages
    <3> QED BY <3>1 DEF Apart
  <2>2. \A i, j \in 1 .. n - 1: data[g[i]] = data[g[j]] => i = j
    <3> TAKE i, j \in 1 .. n - 1
    <3> HAVE data[g[i]] = data[g[j]]
    <3>1. i + 1 = j + 1
        BY <1>5, <1>6
    <3> QED BY <1>1, <3>1
  <2>3. /\ (Writing \cup Reading) \cap Contents(n, c) = {}
        /\ taken["region"] = Contents(n, c) \cup Writing \cup Reading
      BY <1>1 DEF Messages
  <2>4. Writing' \cap Reading' = {} /\ (Writing' \cup Reading') \cap Contents(n - 1, g) = {}
      BY <1>7, <1>8, <1>10, <2>3
  <2>5. taken'["region"] = Contents(n - 1, g) \cup Writing' \cup Reading'
    <3>1. \A x: x \in Contents(n - 1, g) \cup {m} <=> x \in Contents(n, c)
        BY <1>7, <1>8
    <3> QED BY <1>2, <1>10, <2>3, <3>1
  <2> QED BY <1>2, <1>9, <2>1, <2>2, <2>4, <2>5 DEF Messages
<1>14. n - 1 > 0 => last' = g[n - 1]
  <2>1. last = c[n]
      BY <1>1, <1>2, <1>3, MainIsLast DEF LastFits
  <2>2. n - 1 > 0 => g[n - 1] = c[n]
      BY <1>4, <1>5
  <2> QED BY <1>2, <2>1, <2>2
<1>15. record'[Main] \notin Cells(n - 1, g)'
    BY <1>2, <1>3, <1>8, <1>9
<1>16. taken'["queue"] = Cells(n - 1, g)' \cup ({record'[Main]} \ {NULL})
  <2>1. \A q \in Producers: record[q] = NULL
      BY <1>2, OthersIdle
  <2>2. taken["queue"] = Cells(n, c) \cup ({record[Main]} \ {NULL})
      BY <1>1, <2>1, MainQueue
  <2>3. record[Main] = c[1] /\ c[1] # NULL /\ c[1] \in Cells(n, c)
      BY <1>3, FirstIsCell
  <2> QED BY <1>2, <1>8, <1>9, <2>2, <2>3
<1>17. Sound(n - 1, g)'
    BY <1>2, <1>5, <1>11, <1>12, <1>13, <1>14, <1>15, <1>16, MainSound
<1> QED BY <1>2, <1>3, <1>10, <1>17 DEF g

LEMMA FreeRecordSound ==
    ASSUME Basics, NEW CONSTANT n, NEW CONSTANT c, Sound(n, c), FreeRecord
    PROVE  Sound(n, c)'
<1>1. /\ n \in Nat /\ c \in [1..n -> Segments] /\ Chain(n, c) /\ LastFits(n, c)
      /\ TakeFits(n, c) /\ Records(n, c) /\ Messages(n, c)
    BY SoundParts
<1>2. /\ Basics' /\ Alone(Main) /\ Quiet(Main) /\ pc[Main] = "free record" /\ pc'[Main] = "receive"
      /\ record'[Main] = NULL /\ message'[Main] = message[Main]
      /\ taken' = [taken EXCEPT !["queue"] = taken["queue"] \ {record[Main]}]
      /\ UNCHANGED <<first, last, link, data, next>>
    BY FreeRecordStep
<1>3. taken'["queue"] = taken["queue"] \ {record[Main]} /\ taken'["region"] = taken["region"]
    BY <1>2, Types DEF Basics, PoolTypes, Pools
<1>4. Chain(n, c)' /\ TakeFits(n, c)'
    BY <1>1, <1>2 DEF Chain, TakeFits
<1>5. Messages(n, c)'
  <2>1. Reading' = Reading
      BY <1>2 DEF Reading
  <2> QED BY <1>1, <1>2, <1>3, <2>1, OthersIdle, MessagesKept
<1>6. n > 0 => last' = c[n]
    BY <1>1, <1>2, MainIsLast DEF LastFits
<1>7. taken'["queue"] = Cells(n, c)' \cup ({record'[Main]} \ {NULL})
  <2>1. \A q \in Producers: record[q] = NULL
      BY <1>2, OthersIdle
  <2>2. taken["queue"] = Cells(n, c) \cup ({record[Main]} \ {NULL})
      BY <1>1, <2>1, MainQueue
  <2>3. record[Main] \notin Cells(n, c)
      BY <1>1, <1>2 DEF Records
  <2>4. Cells(n, c)' = Cells(n, c)
      BY DEF Cells
  <2> QED BY <1>2, <1>3, <2>2, <2>3, <2>4
<1> QED BY <1>1, <1>2, <1>4, <1>5, <1>6, <1>7, MainSound

LEMMA FreeMemorySound ==
    ASSUME Basics, NEW CONSTANT n, NEW CONSTANT c, Sound(n, c), FreeMemory
    PROVE  /\ Sound(n, c)' /\ UNCHANGED data
           /\ Reading # {} /\ Reading' = {} /\ Writing' = Writing
<1>1. /\ n \in Nat /\ c \in [1..n -> Segments] /\ Chain(n, c) /\ LastFits(n, c)
      /\ TakeFits(n, c) /\ Records(n, c) /\ Messages(n, c)
    BY SoundParts
<1>2. /\ Basics' /\ Alone(Main) /\ Quiet(Main) /\ pc[Main] = "receive" /\ pc'[Main] = "take"
      /\ message'[Main] = NULL /\ record'[Main] = record[Main]
      /\ taken' = [taken EXCEPT !["region"] = taken["region"] \ {message[Main]}]
      /\ UNCHANGED <<first, last, link, data, next>>
    BY FreeMemoryStep
<1>3. taken'["region"] = taken["region"] \ {message[Main]} /\ taken'["queue"] = taken["queue"]
    BY <1>2, Types DEF Basics, PoolTypes, Pools
<1>4. Chain(n, c)' /\ TakeFits(n, c)'
    BY <1>1, <1>2 DEF Chain, TakeFits
<1>5. message[Main] # NULL /\ Reading = {message[Main]} /\ Reading' = {} /\ Writing' = Writing
  <2>1. message[Main] # NULL
      BY <1>1, <1>2 DEF TakeFits
  <2>2. Writing' = Writing
      BY <1>2, OthersIdle, WritingIs, HoldingsNext DEF Holdings
  <2> QED BY <1>2, <2>1, <2>2 DEF Reading
<1>6. Messages(n, c)'
  <2>1. Contents(n, c)' = Contents(n, c)
      BY <1>2 DEF Contents
  <2>2. Apart'
    <3>1. Apart /\ \A q \in Producers: Own(q)' = Own(q) /\ Buffered(q)' = Buffered(q)
        BY <1>1, <1>2, OthersIdle DEF Messages
    <3> QED BY <3>1 DEF Apart
  <2>3. \A i, j \in 1..n: data'[c[i]] = data'[c[j]] => i = j
      BY <1>1, <1>2 DEF Messages
  <2>4. /\ Writing \cap Reading = {} /\ (Writing \cup Reading) \cap Contents(n, c) = {}
        /\ taken["region"] = Contents(n, c) \cup Writing \cup Reading
      BY <1>1 DEF Messages
  <2>5. taken'["region"] = Contents(n, c) \cup Writing' \cup Reading'
      BY <1>3, <1>5, <2>4
  <2>6. Writing' \cap Reading' = {} /\ (Writing' \cup Reading') \cap Contents(n, c) = {}
      BY <1>5, <2>4
  <2> QED BY <2>1, <2>2, <2>3, <2>5, <2>6 DEF Messages
<1>7. n > 0 => last' = c[n]
    BY <1>1, <1>2, MainIsLast DEF LastFits
<1>8. taken'["queue"] = Cells(n, c)' \cup ({record'[Main]} \ {NULL})
  <2>1. \A q \in Producers: record[q] = NULL
      BY <1>2, OthersIdle
  <2>2. taken["queue"] = Cells(n, c) \cup ({record[Main]} \ {NULL})
      BY <1>1, <2>1, MainQueue
  <2>3. Cells(n, c)' = Cells(n, c)
      BY DEF Cells
  <2> QED BY <1>2, <1>3, <2>2, <2>3
<1>9. Sound(n, c)'
    BY <1>1, <1>2, <1>4, <1>6, <1>7, <1>8, MainSound
<1> QED BY <1>2, <1>5, <1>9

-----------------------------------------------------------------------------
(* Whoever has looked meets nobody in a Window.                            *)

\* A producer on its way stays on its way only when it is the one that moves, or when
\* those above it are done.
LEMMA ClearStep ==
    ASSUME Basics, Clear, NEW p \in Producers, Alone(p), Quiet(p),
           next' = next, pc'[p] \in Inserting => ~Window(p)
    PROVE  Clear'
<1> SUFFICES ASSUME NEW q \in Producers, pc'[q] \in Inserting, Window(q)' PROVE FALSE
    BY DEF Clear
<1>1. /\ \A d \in Contexts: d # p => pc'[d] = pc[d]
      /\ pc'[Main] = pc[Main]
    BY Constants DEF Alone
<1>2. CASE q = p
  <2>1. \A r \in Producers: r < p => pc'[r] = pc[r]
    <3>1. \A r \in Producers: r < p => r # p
        BY Constants
    <3> QED BY <1>1, <3>1, Constants
  <2>2. ~Window(p)
      BY <1>2
  <2> QED BY <1>1, <1>2, <2>1, <2>2 DEF Window
<1>3. CASE q # p
  <2>1. pc[q] = pc'[q] /\ q < p /\ ~Window(q)
    <3>1. pc[q] = pc'[q] /\ pc[q] # "idle"
        BY <1>1, <1>3, Constants DEF Inserting, Linked
    <3> QED BY <1>3, <3>1, OthersAreLower DEF Clear
  <2>2. ~(p < q)
      BY <2>1, Constants
  <2> QED BY <1>1, <2>1, <2>2, Constants DEF Window
<1> QED BY <1>2, <1>3

LEMMA ClearOfMain ==
    ASSUME Basics, Quiet(Main), Alone(Main)
    PROVE  Clear'
<1>1. \A q \in Producers: pc'[q] = "idle"
    BY OthersIdle
<1> QED BY <1>1 DEF Clear, Inserting, Linked

\* A producer that has looked already meets nobody now.
LEMMA ClearOn ==
    ASSUME Basics, Clear, NEW p \in Producers, Alone(p), Quiet(p), next' = next,
           pc'[p] \in Inserting => pc[p] \in Inserting
    PROVE  Clear'
BY ClearStep DEF Clear

-----------------------------------------------------------------------------
(* Every step, as the mailbox sees it.                                     *)

\* The messages in the list.
Letters(n, c) == [i \in 1..n |-> data[c[i]]]

Calm(n, c) ==
    Sound(n, c)' /\ Letters(n, c)' = Letters(n, c) /\ Writing' = Writing /\ Reading' = Reading

\* What is taken and neither in the list nor read is with the producers.
WrittenIsLeft(n, c) ==
    Messages(n, c) =>
        \A x: x \in Writing <=> x \in taken["region"] /\ x \notin Contents(n, c) \cup Reading

LEMMA WrittenLeft ==
    ASSUME NEW CONSTANT n, NEW CONSTANT c
    PROVE  WrittenIsLeft(n, c) /\ WrittenIsLeft(n, c)'
<1>1. WrittenIsLeft(n, c)
    BY DEF WrittenIsLeft, Messages
<1> QED BY <1>1, PTL

LEMMA CalmStep ==
    ASSUME NEW CONSTANT n, NEW CONSTANT c, Sound(n, c), Sound(n, c)',
           \A i \in 1..n: data'[c[i]] = data[c[i]],
           Reading' = Reading, taken'["region"] = taken["region"]
    PROVE  Calm(n, c)
<1>1. Messages(n, c) /\ Messages(n, c)'
    BY SoundParts
<1>2. Contents(n, c)' = Contents(n, c)
    BY DEF Contents
<1>3. \A x: x \in Writing' <=> x \in Writing
    BY <1>1, <1>2, WrittenLeft DEF WrittenIsLeft
<1>4. Letters(n, c)' = Letters(n, c)
    BY DEF Letters
<1> QED BY <1>3, <1>4 DEF Calm

LEMMA ReadingKept ==
    ASSUME NEW p \in Producers, Alone(p)
    PROVE  Reading' = Reading
BY Constants DEF Alone, Reading

LEMMA AllocatesCalm ==
    ASSUME Basics, Clear, NEW CONSTANT n, NEW CONSTANT c, Sound(n, c),
    NEW CONSTANT p \in Producers,
           Receives(p) \/ PickRegion(p) \/ PickRecord(p) \/ ClaimRecord(p)
    PROVE  Basics' /\ Clear' /\ Calm(n, c)
<1>1. CASE Receives(p)
  <2>1. /\ Basics' /\ Alone(p) /\ Quiet(p) /\ pc[p] = "idle" /\ pc'[p] = "pick region"
        /\ Keeps(p) /\ Unlisted
      BY <1>1, ReceivesStep
  <2>2. Sound(n, c)'
      BY <2>1, Unnoticed DEF Linked, Inserting
  <2>3. Clear'
      BY <2>1, ClearOn DEF Unlisted, Linked, Inserting
  <2> QED BY <2>1, <2>2, <2>3, ReadingKept, CalmStep DEF Unlisted
<1>2. CASE PickRegion(p)
  <2>1. /\ Basics' /\ Alone(p) /\ Quiet(p) /\ pc[p] = "pick region" /\ pc'[p] = "claim region"
        /\ Keeps(p) /\ Unlisted
      BY <1>2, PickRegionStep
  <2>2. Sound(n, c)'
      BY <2>1, Unnoticed DEF Linked, Inserting
  <2>3. Clear'
      BY <2>1, ClearOn DEF Unlisted, Linked, Inserting
  <2> QED BY <2>1, <2>2, <2>3, ReadingKept, CalmStep DEF Unlisted
<1>3. CASE PickRecord(p)
  <2>1. /\ Basics' /\ Alone(p) /\ Quiet(p) /\ pc[p] = "pick queue" /\ pc'[p] = "claim queue"
        /\ Keeps(p) /\ Unlisted
      BY <1>3, PickRecordStep
  <2>2. Sound(n, c)'
      BY <2>1, Unnoticed DEF Linked, Inserting
  <2>3. Clear'
      BY <2>1, ClearOn DEF Unlisted, Linked, Inserting
  <2> QED BY <2>1, <2>2, <2>3, ReadingKept, CalmStep DEF Unlisted
<1>4. CASE ClaimRecord(p)
  <2>1. /\ Basics' /\ Alone(p) /\ Quiet(p) /\ pc'[p] \in {"pick queue", "look"}
        /\ UNCHANGED <<data, next>>
        /\ taken' = taken \/ taken' = [taken EXCEPT !["queue"] = taken["queue"] \cup {tried[p]}]
      BY <1>4, ClaimRecordStep
  <2>2. taken'["region"] = taken["region"]
      BY <2>1, Types DEF Basics, PoolTypes, Pools
  <2>3. Sound(n, c)'
      BY <1>4, ClaimRecordSound
  <2>4. Clear'
      BY <2>1, ClearOn DEF Linked, Inserting
  <2> QED BY <2>1, <2>2, <2>3, <2>4, ReadingKept, CalmStep
<1> QED BY <1>1, <1>2, <1>3, <1>4

LEMMA LookCalm ==
    ASSUME Basics, Clear, NEW CONSTANT n, NEW CONSTANT c, Sound(n, c),
    NEW CONSTANT p \in Producers,
           Look(p), ~raced'
    PROVE  Basics' /\ Clear' /\ Calm(n, c)
<1>1. /\ Basics' /\ Alone(p) /\ Quiet(p) /\ pc[p] = "look" /\ UNCHANGED <<next, taken>>
      /\ record[p] \in Segments /\ data' = [data EXCEPT ![record[p]] = message[p]]
      /\ raced' = (raced \/ Window(p))
    BY LookStep
<1>2. Sound(n, c)'
    BY LookSound
<1>3. record[p] \notin Cells(n, c) /\ c \in [1..n -> Segments]
  <2>1. c \in [1..n -> Segments] /\ RecordFits(p, n, c)
      BY SoundParts DEF Records
  <2> QED BY <1>1, <2>1 DEF RecordFits, Linked
<1>4. \A i \in 1..n: data'[c[i]] = data[c[i]]
  <2>1. data \in [Segments -> Segments \cup {NULL}]
      BY Types DEF Basics, FifoTypes
  <2> QED BY <1>1, <1>3, <2>1 DEF Cells
<1>5. Clear'
    BY <1>1, ClearStep
<1> QED BY <1>1, <1>2, <1>4, <1>5, ReadingKept, CalmStep

LEMMA InsertsCalm ==
    ASSUME Basics, Clear, NEW CONSTANT n, NEW CONSTANT c, Sound(n, c),
    NEW CONSTANT p \in Producers,
           \/ SetFirst(p) /\ first # NULL
           \/ SetLast(p) \/ Advance(p) \/ Announce(p)
    PROVE  Basics' /\ Clear' /\ Calm(n, c)
<1>1. CASE SetFirst(p) /\ first # NULL
  <2>1. /\ Basics' /\ Alone(p) /\ Quiet(p) /\ pc[p] = "set first" /\ pc'[p] = "look"
        /\ Keeps(p) /\ Unlisted
      BY <1>1, SetFirstStep DEF Unlisted
  <2>2. Sound(n, c)'
      BY <2>1, Unnoticed DEF Linked, Inserting
  <2>3. Clear'
      BY <2>1, ClearOn DEF Unlisted, Linked, Inserting
  <2> QED BY <2>1, <2>2, <2>3, ReadingKept, CalmStep DEF Unlisted
<1>2. CASE SetLast(p)
  <2>1. /\ Basics' /\ Alone(p) /\ Quiet(p) /\ pc[p] = "set last" /\ UNCHANGED <<data, taken,
                                                                                next>>
      BY <1>2, SetLastStep
  <2>2. pc[p] \in Inserting
      BY <2>1 DEF Linked, Inserting
  <2> QED BY <1>2, <2>1, <2>2, SetLastSound, ClearOn, ReadingKept, CalmStep
<1>3. CASE Advance(p)
  <2>1. /\ Basics' /\ Alone(p) /\ Quiet(p) /\ pc[p] = "advance" /\ UNCHANGED <<data, taken, next>>
      BY <1>3, AdvanceStep
  <2>2. pc[p] \in Inserting
      BY <2>1 DEF Linked, Inserting
  <2> QED BY <1>3, <2>1, <2>2, AdvanceSound, ClearOn, ReadingKept, CalmStep
<1>4. CASE Announce(p)
  <2>1. /\ Basics' /\ Alone(p) /\ Quiet(p) /\ pc[p] = "announce" /\ UNCHANGED <<data, taken,
                                                                                next>>
      BY <1>4, AnnounceStep DEF Unlisted
  <2>2. pc[p] \in Inserting
      BY <2>1 DEF Linked, Inserting
  <2> QED BY <1>4, <2>1, <2>2, AnnounceSound, ClearOn, ReadingKept, CalmStep
<1> QED BY <1>1, <1>2, <1>3, <1>4

LEMMA MainCalm ==
    ASSUME Basics, NEW CONSTANT n, NEW CONSTANT c, Sound(n, c),
           ProcessQueue \/ Take \/ ReadNext \/ FreeRecord
    PROVE  Basics' /\ Clear' /\ Calm(n, c)
<1>1. CASE ProcessQueue
  <2>1. Basics' /\ Alone(Main) /\ Quiet(Main) /\ message'[Main] = message[Main]
        /\ UNCHANGED <<data, taken>>
      BY <1>1, ProcessQueueStep DEF Keeps, Unlisted
  <2>2. Reading' = Reading
      BY <2>1 DEF Reading
  <2> QED BY <1>1, <2>1, <2>2, ProcessQueueSound, ClearOfMain, CalmStep
<1>2. CASE Take
  <2>1. Basics' /\ Alone(Main) /\ Quiet(Main) /\ message'[Main] = message[Main]
        /\ UNCHANGED <<data, taken>>
      BY <1>2, TakeStep DEF Unlisted
  <2>2. Reading' = Reading
      BY <2>1 DEF Reading
  <2> QED BY <1>2, <2>1, <2>2, TakeSound, ClearOfMain, CalmStep
<1>3. CASE ReadNext
  <2>1. Basics' /\ Alone(Main) /\ Quiet(Main) /\ message'[Main] = message[Main]
        /\ UNCHANGED <<data, taken>>
      BY <1>3, ReadNextStep DEF Keeps
  <2>2. Reading' = Reading
      BY <2>1 DEF Reading
  <2> QED BY <1>3, <2>1, <2>2, ReadNextSound, ClearOfMain, CalmStep
<1>4. CASE FreeRecord
  <2>1. Basics' /\ Alone(Main) /\ Quiet(Main) /\ message'[Main] = message[Main] /\ data' = data
        /\ taken' = [taken EXCEPT !["queue"] = taken["queue"] \ {record[Main]}]
      BY <1>4, FreeRecordStep
  <2>2. Reading' = Reading
      BY <2>1 DEF Reading
  <2>3. taken'["region"] = taken["region"]
      BY <2>1, Types DEF Basics, PoolTypes, Pools
  <2> QED BY <1>4, <2>1, <2>2, <2>3, FreeRecordSound, ClearOfMain, CalmStep
<1> QED BY <1>1, <1>2, <1>3, <1>4

LEMMA Appended ==
    ASSUME NEW S, NEW n \in Nat, NEW s \in [1..n -> S], NEW e \in S,
           NEW t \in [1 .. n + 1 -> S], t[n + 1] = e, \A i \in 1..n: t[i] = s[i]
    PROVE  t = Append(s, e)
<1>1. s \in Seq(S) /\ t \in Seq(S) /\ Len(s) = n /\ Len(t) = n + 1
    BY SeqDef
<1>2. /\ Append(s, e) \in Seq(S) /\ Len(Append(s, e)) = n + 1
      /\ \A i \in 1..n: Append(s, e)[i] = s[i]
      /\ Append(s, e)[n + 1] = e
    BY <1>1, AppendProperties
<1>3. \A i \in 1 .. n + 1: t[i] = Append(s, e)[i]
    BY <1>2
<1> QED BY <1>1, <1>2, <1>3, SeqEqual

LEMMA Tailed ==
    ASSUME NEW S, NEW n \in Nat \ {0}, NEW s \in [1..n -> S],
           NEW t \in [1 .. n - 1 -> S], \A i \in 1 .. n - 1: t[i] = s[i + 1]
    PROVE  s # <<>> /\ t = Tail(s) /\ Head(s) = s[1]
<1>1. s \in Seq(S) /\ t \in Seq(S) /\ Len(s) = n /\ Len(t) = n - 1
    BY SeqDef
<1>2. s # <<>>
    BY <1>1
<1>3. /\ Tail(s) \in Seq(S) /\ Len(Tail(s)) = n - 1
      /\ \A i \in 1 .. n - 1: Tail(s)[i] = s[i + 1]
    BY <1>1, <1>2, HeadTailProperties
<1>4. t = Tail(s)
    BY <1>1, <1>3, SeqEqual
<1> QED BY <1>1, <1>2, <1>4

\* What becomes of the list n, c.
Given(n, c) ==
    /\ Sound(n, c)' /\ Letters(n, c)' = Letters(n, c) /\ Reading' = Reading
    /\ \E s \in Segments: s \notin Writing \cup Reading \cup Contents(n, c)
                          /\ Writing' = Writing \cup {s}
Freed(n, c) ==
    /\ Sound(n, c)' /\ Letters(n, c)' = Letters(n, c) /\ Writing' = Writing
    /\ Reading # {} /\ Reading' = {}
PutIn(n, c, m, d) ==
    /\ Sound(m, d)' /\ Reading' = Reading
    /\ \E s \in Writing: Writing' = Writing \ {s} /\ Letters(m, d)' = Append(Letters(n, c), s)
TakenOut(n, c, m, d) ==
    /\ Sound(m, d)' /\ Writing' = Writing /\ Letters(n, c) # <<>>
    /\ Reading = {} /\ Reading' = {Head(Letters(n, c))} /\ Letters(m, d)' = Tail(Letters(n, c))
ListStep(n, c) ==
    Calm(n, c) \/ Given(n, c) \/ Freed(n, c) \/ \E m, d: PutIn(n, c, m, d) \/ TakenOut(n, c, m, d)

LEMMA ClaimRegionGives ==
    ASSUME Basics, Clear, NEW CONSTANT n, NEW CONSTANT c, Sound(n, c),
    NEW CONSTANT p \in Producers,
           ClaimRegion(p)
    PROVE  Basics' /\ Clear' /\ (Calm(n, c) \/ Given(n, c))
<1>1. /\ Basics' /\ Alone(p) /\ Quiet(p) /\ UNCHANGED <<data, next>>
      /\ pc'[p] \in {"pick region", "pick queue"}
      /\ \/ taken' = taken
         \/ /\ tried[p] \in Segments /\ tried[p] \notin taken["region"]
            /\ taken' = [taken EXCEPT !["region"] = taken["region"] \cup {tried[p]}]
    BY ClaimRegionStep
<1>2. Sound(n, c)'
    BY ClaimRegionSound
<1>3. Clear'
    BY <1>1, ClearOn DEF Linked, Inserting
<1>4. Reading' = Reading
    BY <1>1, ReadingKept
<1>5. CASE taken' = taken
    BY <1>1, <1>2, <1>3, <1>4, <1>5, CalmStep
<1>6. CASE taken' # taken
  <2>1. PICK s \in Segments: s \notin taken["region"] /\ taken'["region"] = taken["region"] \cup {s}
      BY <1>1, <1>6, Types DEF Basics, PoolTypes, Pools
  <2>2. Messages(n, c) /\ Messages(n, c)'
      BY <1>2, SoundParts
  <2>3. Contents(n, c)' = Contents(n, c) /\ Letters(n, c)' = Letters(n, c)
      BY <1>1 DEF Contents, Letters
  <2>4. s \notin Writing \cup Reading \cup Contents(n, c)
      BY <2>1, <2>2 DEF Messages
  <2>5. \A x: x \in Writing' <=> x \in Writing \/ x = s
      BY <1>4, <2>1, <2>2, <2>3, <2>4, WrittenLeft DEF WrittenIsLeft
  <2>6. Writing' = Writing \cup {s}
      BY <2>5
  <2> QED BY <1>1, <1>2, <1>3, <1>4, <2>3, <2>4, <2>6 DEF Given
<1> QED BY <1>5, <1>6

LEMMA LettersAre ==
    ASSUME Basics, NEW n \in Nat, NEW c \in [1..n -> Segments]
    PROVE  Letters(n, c) \in [1..n -> Segments \cup {NULL}]
<1>1. data \in [Segments -> Segments \cup {NULL}]
    BY Types DEF Basics, FifoTypes
<1> QED BY <1>1 DEF Letters

\* A record is linked: its message is put in.
LEMMA LinkedIsPut ==
    ASSUME Basics, NEW CONSTANT n, NEW CONSTANT c, Sound(n, c), NEW CONSTANT p \in Producers,
           NEW CONSTANT r, record[p] = r, pc[p] \in {"set first", "append"}, Alone(p),
           UNCHANGED <<data, taken>>, Sound(n + 1, Grown(n, c, r))'
    PROVE  PutIn(n, c, n + 1, Grown(n, c, r))
<1> DEFINE g == Grown(n, c, r)
           m == data[r]
<1>1. n \in Nat /\ c \in [1..n -> Segments] /\ Messages(n, c) /\ RecordFits(p, n, c)
    BY SoundParts DEF Records
<1>2. r \in Segments
  <2>1. pc[p] \in Recording
      BY DEF Recording, Inserting
  <2> QED BY <2>1, Hands
<1>3. /\ g \in [1 .. n + 1 -> Segments] /\ g[n + 1] = r /\ \A i \in 1..n: g[i] = c[i]
      /\ 1 .. n + 1 = 1..n \cup {n + 1}
  <2>1. n \in Nat /\ c \in [1..n -> Segments]
      BY <1>1
  <2>2. g \in [1 .. n + 1 -> Segments] /\ g[n + 1] = r /\ \A i \in 1..n: g[i] = c[i]
      BY <1>2, <2>1, GrownIs
  <2>3. 1 .. n + 1 = 1..n \cup {n + 1}
      BY <2>1, OneMore
  <2> QED BY <2>2, <2>3
<1>4. Sound(n + 1, g)'
    OBVIOUS
<1> HIDE DEF g
<1>5. Messages(n + 1, g)'
    BY <1>4, SoundParts
<1>6. \A x: x \in Contents(n + 1, g)' <=> x \in Contents(n, c) \/ x = m
  <2>1. \A x: x \in Contents(n + 1, g) <=> x = data[r] \/ \E i \in 1..n: x = data[c[i]]
      BY <1>3 DEF Contents
  <2>2. Contents(n + 1, g)' = Contents(n + 1, g)
      BY DEF Contents
  <2> QED BY <2>1, <2>2 DEF Contents
<1>7. m \in Writing
  <2>1. message[p] # NULL /\ m = message[p] /\ pc[p] \notin Linked
      BY <1>1, Constants, Hands DEF RecordFits, Inserting, Linked, Carrying
  <2> QED BY <2>1, WritingIs DEF Own
<1>8. Reading' = Reading
    BY ReadingKept
<1>9. Writing' = Writing \ {m}
  <2>1. m \notin Contents(n, c) /\ m \notin Reading
      BY <1>1, <1>7 DEF Messages
  <2>2. \A x: x \in Writing' <=> x \in Writing /\ x # m
      BY <1>1, <1>5, <1>6, <1>8, <2>1, WrittenLeft DEF WrittenIsLeft
  <2> QED BY <2>2
<1>10. Letters(n + 1, g)' = Append(Letters(n, c), m)
  <2> DEFINE S == Segments \cup {NULL}
             s == Letters(n, c)
             t == Letters(n + 1, g)
  <2>1. s \in [1..n -> S] /\ t \in [1 .. n + 1 -> S] /\ n \in Nat
    <3>1. n \in Nat /\ n + 1 \in Nat /\ c \in [1..n -> Segments]
      <4>1. n \in Nat /\ c \in [1..n -> Segments]
          BY <1>1
      <4> QED BY <4>1, OneMore
    <3>2. s \in [1..n -> S]
        BY <3>1, LettersAre
    <3>3. t \in [1 .. n + 1 -> S]
        BY <1>3, <3>1, LettersAre
    <3> QED BY <3>1, <3>2, <3>3
  <2>2. t[n + 1] = m /\ \A i \in 1..n: t[i] = s[i]
      BY <1>3 DEF Letters
  <2>3. m \in S
      BY <1>2, Types DEF Basics, FifoTypes
  <2>4. Letters(n + 1, g)' = t
      BY DEF Letters
  <2> HIDE DEF s, t, S, m
  <2>5. t = Append(s, m)
      BY <2>1, <2>2, <2>3, Appended
  <2> QED BY <2>4, <2>5 DEF s
<1> QED BY <1>4, <1>7, <1>8, <1>9, <1>10 DEF PutIn, g

LEMMA SetFirstPuts ==
    ASSUME Basics, Clear, NEW CONSTANT n, NEW CONSTANT c, Sound(n, c),
    NEW CONSTANT p \in Producers,
           SetFirst(p), first = NULL
    PROVE  Basics' /\ Clear' /\ \E m, d: PutIn(n, c, m, d)
<1>1. PICK r: r = record[p]
    OBVIOUS
<1>2. /\ Basics' /\ Alone(p) /\ Quiet(p) /\ pc[p] = "set first" /\ UNCHANGED <<data, taken, next>>
    BY SetFirstStep
<1>3. Sound(n + 1, Grown(n, c, r))'
    BY <1>1, SetFirstSound
<1>4. PutIn(n, c, n + 1, Grown(n, c, r))
    BY <1>1, <1>2, <1>3, LinkedIsPut
<1>5. Clear'
    BY <1>2, ClearOn DEF Inserting
<1> QED BY <1>2, <1>4, <1>5

LEMMA AppendRecordPuts ==
    ASSUME Basics, Clear, NEW CONSTANT n, NEW CONSTANT c, Sound(n, c),
    NEW CONSTANT p \in Producers,
           AppendRecord(p)
    PROVE  Basics' /\ Clear' /\ \E m, d: PutIn(n, c, m, d)
<1>1. PICK r: r = record[p]
    OBVIOUS
<1>2. /\ Basics' /\ Alone(p) /\ Quiet(p) /\ pc[p] = "append" /\ UNCHANGED <<data, taken, next>>
    BY AppendRecordStep
<1>3. Sound(n + 1, Grown(n, c, r))'
    BY <1>1, AppendRecordSound
<1>4. PutIn(n, c, n + 1, Grown(n, c, r))
    BY <1>1, <1>2, <1>3, LinkedIsPut
<1>5. Clear'
    BY <1>2, ClearOn DEF Inserting
<1> QED BY <1>2, <1>4, <1>5

LEMMA SwingTakes ==
    ASSUME Basics, NEW CONSTANT n, NEW CONSTANT c, Sound(n, c), Swing
    PROVE  Basics' /\ Clear' /\ \E m, d: TakenOut(n, c, m, d)
<1> DEFINE g == Shifted(n, c)
           S == Segments \cup {NULL}
           s == Letters(n, c)
           t == Letters(n - 1, g)
<1>1. /\ n > 0 /\ Sound(n - 1, g)' /\ UNCHANGED data
      /\ Reading = {} /\ Reading' = {data[c[1]]} /\ Writing' = Writing
    BY SwingSound
<1>2. Basics' /\ Alone(Main) /\ Quiet(Main)
    BY SwingStep
<1>3. n \in Nat \ {0} /\ 1 \in 1..n /\ c \in [1..n -> Segments]
  <2>1. n \in Nat /\ c \in [1..n -> Segments]
      BY SoundParts
  <2> QED BY <1>1, <2>1
<1>4. /\ n - 1 \in Nat /\ g \in [1 .. n - 1 -> Segments]
      /\ \A i \in 1 .. n - 1: g[i] = c[i + 1] /\ i + 1 \in 1..n
    BY <1>3, ShiftedIs
<1> HIDE DEF g
<1>5. s \in [1..n -> S] /\ t \in [1 .. n - 1 -> S]
    BY <1>3, <1>4, LettersAre
<1>6. s[1] = data[c[1]] /\ \A i \in 1 .. n - 1: t[i] = s[i + 1]
    BY <1>3, <1>4 DEF Letters
<1>7. Letters(n - 1, g)' = t
    BY <1>1 DEF Letters
<1> HIDE DEF s, t, S
<1>8. s # <<>> /\ t = Tail(s) /\ Head(s) = s[1]
    BY <1>3, <1>5, <1>6, Tailed
<1>9. TakenOut(n, c, n - 1, g)
    BY <1>1, <1>6, <1>7, <1>8 DEF TakenOut, s
<1> QED BY <1>2, <1>9, ClearOfMain

LEMMA FreeMemoryFrees ==
    ASSUME Basics, NEW CONSTANT n, NEW CONSTANT c, Sound(n, c), FreeMemory
    PROVE  Basics' /\ Clear' /\ Freed(n, c)
<1>1. /\ Sound(n, c)' /\ UNCHANGED data
      /\ Reading # {} /\ Reading' = {} /\ Writing' = Writing
    BY FreeMemorySound
<1>2. Basics' /\ Alone(Main) /\ Quiet(Main)
    BY FreeMemoryStep
<1>3. Letters(n, c)' = Letters(n, c)
    BY <1>1 DEF Letters
<1> QED BY <1>1, <1>2, <1>3, ClearOfMain DEF Freed

LEMMA StepOfList ==
    ASSUME Basics, Clear, NEW CONSTANT n, NEW CONSTANT c, Sound(n, c), Next, ~raced'
    PROVE  Basics' /\ Clear' /\ ListStep(n, c)
<1>1. ASSUME NEW CONSTANT p \in Producers, Receives(p) \/ Allocates(p)
      PROVE  Basics' /\ Clear' /\ ListStep(n, c)
    BY <1>1, AllocatesCalm, ClaimRegionGives DEF Allocates, ListStep
<1>2. ASSUME NEW CONSTANT p \in Producers, Inserts(p)
      PROVE  Basics' /\ Clear' /\ ListStep(n, c)
  <2>1. CASE Look(p)
      BY <2>1, LookCalm DEF ListStep
  <2>2. CASE SetFirst(p) /\ first = NULL
      BY <2>2, SetFirstPuts DEF ListStep
  <2>3. CASE AppendRecord(p)
      BY <2>3, AppendRecordPuts DEF ListStep
  <2>4. CASE (SetFirst(p) /\ first # NULL) \/ SetLast(p) \/ Advance(p) \/ Announce(p)
      BY <2>4, InsertsCalm DEF ListStep
  <2> QED BY <1>2, <2>1, <2>2, <2>3, <2>4 DEF Inserts
<1>3. CASE ProcessQueue \/ Take \/ ReadNext \/ FreeRecord
    BY <1>3, MainCalm DEF ListStep
<1>4. CASE Swing
    BY <1>4, SwingTakes DEF ListStep
<1>5. CASE FreeMemory
    BY <1>5, FreeMemoryFrees DEF ListStep
<1> QED BY <1>1, <1>2, <1>3, <1>4, <1>5 DEF Next, Takes

-----------------------------------------------------------------------------
(* Induction, over a set instead of an operator.                           *)

LEMMA NatIsWellOrdered ==
    \E R: IsWellFoundedOn(R, Nat) /\ \A x, y \in Nat: x < y => <<x, y>> \in R
<1> DEFINE R == OpToRel(<, Nat)
<1>1. IsWellFoundedOn(R, Nat)
    BY NatLessThanWellFounded
<1>2. \A x, y \in Nat: x < y => <<x, y>> \in R
    BY DEF OpToRel
<1> QED BY <1>1, <1>2

LEMMA LeastNumber ==
    ASSUME NEW T, T \subseteq Nat, T # {}
    PROVE  \E x \in T: \A y \in T: ~(y < x)
<1>1. PICK R: IsWellFoundedOn(R, Nat) /\ \A x, y \in Nat: x < y => <<x, y>> \in R
    BY NatIsWellOrdered
<1>2. \A x, y \in Nat: x < y => <<x, y>> \in R
    BY <1>1
<1>3. IsWellFoundedOn(R, Nat)
    BY <1>1
<1>4. PICK x \in T: \A y \in T: ~(<<y, x>> \in R)
    BY <1>3, WFMin, Zenon
<1>5. \A y \in T: ~(y < x)
    BY <1>2, <1>4
<1> QED BY <1>5

LEMMA InductionOverSet ==
    ASSUME NEW S, 0 \in S, \A i \in Nat: i \in S => i + 1 \in S
    PROVE  Nat \subseteq S
<1> SUFFICES ASSUME Nat \ S # {} PROVE FALSE
    OBVIOUS
<1>1. PICK x \in Nat \ S: \A y \in Nat \ S: ~(y < x)
    BY LeastNumber
<1>2. x # 0
    OBVIOUS
<1>3. x - 1 \in Nat /\ x - 1 < x /\ (x - 1) + 1 = x
    BY <1>2
<1> QED BY <1>1, <1>3

LEMMA IntervalIs ==
    ASSUME NEW n \in Nat
    PROVE  IsFiniteSet(1..n) /\ Cardinality(1..n) = n
<1>1. 1 \in Int /\ n \in Int
    OBVIOUS
<1>2. IsFiniteSet(1..n) /\ Cardinality(1..n) = IF 1 > n THEN 0 ELSE n - 1 + 1
    BY <1>1, FS_Interval
<1>3. n = IF 1 > n THEN 0 ELSE n - 1 + 1
    OBVIOUS
<1> QED BY <1>2, <1>3

LEMMA SegmentsAre == IsFiniteSet(Segments) /\ Cardinality(Segments) = PoolSize
<1>1. 0 \in Int /\ PoolSize - 1 \in Int /\ PoolSize > 0
    BY Sizes
<1>2. IsFiniteSet(0 .. PoolSize - 1)
      /\ Cardinality(0 .. PoolSize - 1) = IF 0 > PoolSize - 1 THEN 0 ELSE (PoolSize - 1) - 0 + 1
    BY <1>1, FS_Interval
<1> QED BY <1>2, Sizes DEF Segments

-----------------------------------------------------------------------------
(* The walk of the list.                                                   *)

LEMMA IsInjection ==
    ASSUME NEW S, NEW T, NEW f \in [S -> T], \A a, b \in S: f[a] = f[b] => a = b
    PROVE  f \in Injection(S, T)
BY DEF Injection, IsInjective

LEMMA CellsAreFew ==
    ASSUME NEW n, NEW c, Sound(n, c)
    PROVE  /\ n \in Nat /\ n <= PoolSize /\ c \in [1..n -> Segments]
           /\ IsFiniteSet(Cells(n, c)) /\ Cardinality(Cells(n, c)) = n
<1>1. /\ n \in Nat /\ c \in [1..n -> Segments]
      /\ \A i, j \in 1..n: c[i] = c[j] => i = j
    BY SoundParts DEF Chain
<1>2. IsFiniteSet(1..n) /\ Cardinality(1..n) = n
    BY <1>1, IntervalIs
<1>3. IsFiniteSet(Segments) /\ Cardinality(Segments) = PoolSize
    BY SegmentsAre
<1>4. c \in Bijection(1..n, Cells(n, c))
  <2>1. c \in [1..n -> Cells(n, c)]
      BY <1>1 DEF Cells
  <2>2. \A t \in Cells(n, c): \E s \in 1..n: c[s] = t
      BY DEF Cells
  <2>3. \A i, j \in 1..n: c[i] = c[j] => i = j
      BY <1>1
  <2>4. c \in Injection(1..n, Cells(n, c))
      BY <2>1, <2>3, IsInjection
  <2>5. c \in Surjection(1..n, Cells(n, c))
      BY <2>1, <2>2 DEF Surjection
  <2> QED BY <2>4, <2>5 DEF Bijection
<1>5. IsFiniteSet(Cells(n, c)) /\ Cardinality(Cells(n, c)) = n
  <2>1. ExistsBijection(1..n, Cells(n, c))
      BY <1>4 DEF ExistsBijection
  <2> QED BY <1>2, <2>1, FS_Bijection
<1>6. n <= PoolSize
  <2>1. Cells(n, c) \in SUBSET Segments
      BY <1>1, NullIsNoCell
  <2> QED BY <1>3, <1>5, <2>1, FS_Subset
<1> QED BY <1>1, <1>5, <1>6

\* Walk steps from record to record.
LEMMA WalkUnfolds ==
    ASSUME NEW n, NEW c, Sound(n, c)
    PROVE  Walk = [i \in 0 .. PoolSize |->
                      IF i = 0 THEN first
                      ELSE IF Walk[i - 1] = NULL THEN NULL ELSE link[Walk[i - 1]]]
<1>1. /\ n \in Nat /\ c \in [1..n -> Segments]
      /\ first = IF n = 0 THEN NULL ELSE c[1]
      /\ \A i \in 1..n: link[c[i]] = IF i = n THEN NULL ELSE c[i + 1]
    BY SoundParts DEF Chain
<1> DEFINE f == [i \in 0 .. PoolSize |-> IF i < n THEN c[i + 1] ELSE NULL]
<1>2. f = [i \in 0 .. PoolSize |->
              IF i = 0 THEN first ELSE IF f[i - 1] = NULL THEN NULL ELSE link[f[i - 1]]]
  <2> SUFFICES ASSUME NEW i \in 0 .. PoolSize
               PROVE  f[i] = IF i = 0 THEN first
                             ELSE IF f[i - 1] = NULL THEN NULL ELSE link[f[i - 1]]
      OBVIOUS
  <2>1. CASE i = 0
      BY <1>1, <2>1
  <2>2. CASE i # 0 /\ i - 1 < n
    <3>1. f[i - 1] = c[i] /\ i \in 1..n
        BY <1>1, <2>2, Sizes
    <3>2. f[i - 1] # NULL
        BY <1>1, <3>1, Constants
    <3> QED BY <1>1, <2>2, <3>1, <3>2
  <2>3. CASE i # 0 /\ ~(i - 1 < n)
      BY <1>1, <2>3, Sizes
  <2> QED BY <2>1, <2>2, <2>3
<1> HIDE DEF f
<1> QED BY <1>2 DEF Walk

\* The first records of the walk are those of the list.
LEMMA WalkIs ==
    ASSUME NEW n, NEW c, Sound(n, c)
    PROVE  \A i \in 0 .. PoolSize: Walk[i] = IF i < n THEN c[i + 1] ELSE NULL
<1>1. /\ n \in Nat /\ c \in [1..n -> Segments]
      /\ first = IF n = 0 THEN NULL ELSE c[1]
      /\ \A i \in 1..n: link[c[i]] = IF i = n THEN NULL ELSE c[i + 1]
    BY SoundParts DEF Chain
<1> DEFINE P(i) == i <= PoolSize => Walk[i] = IF i < n THEN c[i + 1] ELSE NULL
<1>2. P(0)
    BY <1>1, WalkUnfolds, Sizes
<1>3. \A i \in Nat: P(i) => P(i + 1)
  <2> SUFFICES ASSUME NEW i \in Nat, P(i), i + 1 <= PoolSize
               PROVE  Walk[i + 1] = IF i + 1 < n THEN c[(i + 1) + 1] ELSE NULL
      OBVIOUS
  <2>1. i + 1 \in 0 .. PoolSize /\ i <= PoolSize /\ (i + 1) - 1 = i /\ i + 1 # 0
      BY Sizes
  <2>2. Walk[i + 1] = IF Walk[i] = NULL THEN NULL ELSE link[Walk[i]]
    <3> DEFINE w == Walk
    <3>1. w = [j \in 0 .. PoolSize |->
                  IF j = 0 THEN first ELSE IF w[j - 1] = NULL THEN NULL ELSE link[w[j - 1]]]
        BY WalkUnfolds
    <3> HIDE DEF w
    <3>2. w[i + 1] = IF w[i] = NULL THEN NULL ELSE link[w[i]]
        BY <2>1, <3>1
    <3> QED BY <3>2 DEF w
  <2>3. CASE i < n
    <3>1. Walk[i] = c[i + 1] /\ i + 1 \in 1..n
        BY <1>1, <2>1, <2>3
    <3>2. Walk[i] # NULL
        BY <1>1, <3>1, Constants
    <3> QED BY <1>1, <2>2, <2>3, <3>1, <3>2
  <2>4. CASE ~(i < n)
      BY <1>1, <2>1, <2>2, <2>4
  <2> QED BY <2>3, <2>4
<1> HIDE DEF P
<1>4. \A i \in Nat: P(i)
  <2> DEFINE T == {i \in Nat: P(i)}
  <2>1. 0 \in T /\ \A i \in Nat: i \in T => i + 1 \in T
      BY <1>2, <1>3
  <2> HIDE DEF T
  <2>2. Nat \subseteq T
      BY <2>1, InductionOverSet
  <2> QED BY <2>2 DEF T
<1> QED BY <1>4, Sizes DEF P

ListIs(n, c) == Sound(n, c) => Listed = Cells(n, c) /\ Queued = Letters(n, c)

LEMMA TheList ==
    ASSUME NEW CONSTANT n, NEW CONSTANT c
    PROVE  ListIs(n, c) /\ ListIs(n, c)'
<1>1. ListIs(n, c)
  <2> SUFFICES ASSUME Sound(n, c) PROVE Listed = Cells(n, c) /\ Queued = Letters(n, c)
      BY DEF ListIs
  <2>1. /\ n \in Nat /\ n <= PoolSize /\ c \in [1..n -> Segments]
        /\ Cardinality(Cells(n, c)) = n
      BY CellsAreFew
  <2>2. \A i \in 0 .. PoolSize: Walk[i] = IF i < n THEN c[i + 1] ELSE NULL
      BY WalkIs
  <2>3. \A i \in 1..n: i - 1 \in 0 .. PoolSize /\ i - 1 < n /\ (i - 1) + 1 = i
      BY <2>1, Sizes
  <2>4. \A i \in 1..n: Walk[i - 1] = c[i] /\ c[i] # NULL
      BY <2>1, <2>2, <2>3, Constants
  <2>5. \A i \in 0 .. PoolSize: Walk[i] # NULL => i + 1 \in 1..n /\ Walk[i] = c[i + 1]
      BY <2>1, <2>2, Sizes
  <2>6. Listed = Cells(n, c)
      BY <2>3, <2>4, <2>5 DEF Listed, Cells
  <2>7. Queued = Letters(n, c)
      BY <2>1, <2>4, <2>6 DEF Queued, Letters
  <2> QED BY <2>6, <2>7
<1> QED BY <1>1, PTL

-----------------------------------------------------------------------------
(* The invariant.                                                          *)

LEMMA InitBasics == Init => Basics
<1> SUFFICES ASSUME Init PROVE Basics
    OBVIOUS
<1>1. /\ PoolSize \in Nat /\ PoolSize > 0 /\ 1 % PoolSize \in Segments /\ 0 \in Segments
    BY Sizes DEF Segments
<1>2. PoolTypes
    BY <1>1 DEF Init, PoolTypes, Pools
<1>3. FifoTypes /\ PcType /\ TryTypes /\ RestTypes
  <2>1. 0 \in 0 .. PoolSize + Retries
      BY Sizes
  <2> QED BY <1>1, <2>1 DEF Init, FifoTypes, PcType, PcValues, TryTypes, RestTypes
<1>4. HandTypes
    BY <1>1 DEF Init, HandTypes
<1>5. LocalsFit
  <2>1. MainFits
      BY Constants DEF Init, MainFits
  <2>2. ASSUME NEW p \in Producers PROVE HandFits(p)
      BY Constants DEF Init, HandFits, Recording, Inserting, Linked, Carrying
  <2> QED BY <2>1, <2>2 DEF LocalsFit
<1>6. Counts
    BY Sizes DEF Init, Counts, Allocating
<1> QED BY <1>2, <1>3, <1>4, <1>5, <1>6, Types DEF Basics

LEMMA InitOrderly == Init => Orderly
<1> SUFFICES ASSUME Init PROVE Orderly
    OBVIOUS
<1> DEFINE c == [i \in 1..0 |-> 0]
<1>1. \A i \in 1..0: FALSE
    OBVIOUS
<1>2. c \in [1..0 -> Segments]
    BY <1>1
<1>3. /\ \A d \in Contexts: pc[d] = "idle" /\ message[d] = NULL /\ record[d] = NULL
      /\ first = NULL
      /\ \A p \in Producers: buffer[p] = IF p \in Swapping THEN 0 ELSE NULL
      /\ taken["region"] = (IF Swapping # {} THEN {0} ELSE {}) /\ taken["queue"] = {}
    BY DEF Init, Pools
<1> HIDE DEF c
<1>4. \A p \in Producers: pc[p] = "idle" /\ message[p] = NULL /\ record[p] = NULL
    BY <1>3, Constants
<1>5. pc[Main] = "idle" /\ message[Main] = NULL /\ record[Main] = NULL
    BY <1>3, Constants
<1>6. Clear
    BY <1>4 DEF Clear, Inserting, Linked
<1>7. Chain(0, c) /\ LastFits(0, c) /\ TakeFits(0, c)
  <2>1. Chain(0, c)
      BY <1>1, <1>3 DEF Chain
  <2>2. LastFits(0, c)
    <3>1. ~(0 > 0)
        OBVIOUS
    <3> QED BY <1>4, <3>1 DEF LastFits
  <2> QED BY <1>5, <2>1, <2>2 DEF TakeFits
<1>8. Cells(0, c) = {} /\ Contents(0, c) = {}
    BY <1>1 DEF Cells, Contents
<1>9. Records(0, c)
  <2>1. \A d \in Contexts: record[d] = NULL
      BY <1>3
  <2>2. {record[d]: d \in Contexts} \ {NULL} = {}
      BY <2>1
  <2>3. Distinct
      BY <1>4 DEF Distinct
  <2>4. \A p \in Producers: RecordFits(p, 0, c)
      BY <1>4, <1>8 DEF RecordFits, Linked, Inserting
  <2> QED BY <1>3, <1>5, <1>8, <2>2, <2>3, <2>4 DEF Records
<1>10. Messages(0, c)
  <2>1. \A p \in Producers: Own(p) = {} /\ Buffered(p) = IF p \in Swapping THEN {0} ELSE {}
      BY <1>3, <1>4, Constants DEF Own, Buffered
  <2>2. Apart
    <3>1. \A p, q \in Producers: p # q => p \notin Swapping \/ q \notin Swapping
        BY OneSwaps
    <3> QED BY <2>1, <3>1 DEF Apart
  <2>3. Writing = IF Swapping # {} THEN {0} ELSE {}
    <3>1. Swapping \subseteq Producers
        BY QueueAssumption
    <3>2. \A x: x \in Writing <=> \E p \in Swapping: x = 0
        BY <2>1, <3>1, WritingIs
    <3> QED BY <3>2
  <2>4. Reading = {}
      BY <1>5 DEF Reading
  <2> QED BY <1>1, <1>3, <1>8, <2>2, <2>3, <2>4 DEF Messages
<1>11. Sound(0, c)
    BY <1>2, <1>7, <1>9, <1>10, SoundParts
<1> QED BY <1>6, <1>11 DEF Orderly

LEMMA StepOfBasics ==
    ASSUME Basics, Next
    PROVE  Basics' /\ (raced => raced')
<1>1. ASSUME NEW p \in Producers, Receives(p) \/ Allocates(p)
      PROVE  Basics' /\ (raced => raced')
    BY <1>1, ReceivesStep, PickRegionStep, ClaimRegionStep, PickRecordStep, ClaimRecordStep
       DEF Allocates
<1>2. ASSUME NEW p \in Producers, Inserts(p)
      PROVE  Basics' /\ (raced => raced')
    BY <1>2, LookStep, SetFirstStep, SetLastStep, AppendRecordStep, AdvanceStep, AnnounceStep
       DEF Inserts
<1>3. CASE ProcessQueue \/ Takes
  <2>1. CASE ProcessQueue
    <3>1. Basics' /\ raced' = raced
        BY <2>1, ProcessQueueStep
    <3> QED BY <3>1
  <2>2. CASE Take
    <3>1. Basics' /\ raced' = raced
        BY <2>2, TakeStep
    <3> QED BY <3>1
  <2>3. CASE ReadNext
    <3>1. Basics' /\ raced' = raced
        BY <2>3, ReadNextStep
    <3> QED BY <3>1
  <2>4. CASE Swing
    <3>1. Basics' /\ raced' = raced
        BY <2>4, SwingStep
    <3> QED BY <3>1
  <2>5. CASE FreeRecord
    <3>1. Basics' /\ raced' = raced
        BY <2>5, FreeRecordStep
    <3> QED BY <3>1
  <2>6. CASE FreeMemory
    <3>1. Basics' /\ raced' = raced
        BY <2>6, FreeMemoryStep
    <3> QED BY <3>1
  <2> QED BY <1>3, <2>1, <2>2, <2>3, <2>4, <2>5, <2>6 DEF Takes
<1> QED BY <1>1, <1>2, <1>3 DEF Next

LEMMA StutterBasics ==
    ASSUME Basics, UNCHANGED vars
    PROVE  Basics'
<1>1. /\ UNCHANGED <<taken, idx, first, last, link, data, tried, tries, message>>
      /\ UNCHANGED <<record, buffer, next, pc, newMessage, panic, raced>>
    BY DEF vars, pools, fifo, locals
<1>2. TypeOK'
    BY <1>1 DEF Basics, TypeOK
<1>3. LocalsFit'
  <2>1. MainFits'
      BY <1>1 DEF Basics, LocalsFit, MainFits
  <2>2. ASSUME NEW p \in Producers PROVE HandFits(p)'
      BY <1>1 DEF Basics, LocalsFit, HandFits
  <2> QED BY <2>1, <2>2 DEF LocalsFit
<1>4. Counts'
    BY <1>1 DEF Basics, Counts
<1> QED BY <1>2, <1>3, <1>4 DEF Basics

LEMMA StutterCalm ==
    ASSUME UNCHANGED vars, Clear, NEW CONSTANT n, NEW CONSTANT c, Sound(n, c)
    PROVE  Clear' /\ Calm(n, c)
<1>1. /\ UNCHANGED <<taken, first, last, link, data, message>>
      /\ UNCHANGED <<record, buffer, next, pc>>
    BY DEF vars, pools, fifo, locals
<1>2. Clear'
    BY <1>1 DEF Clear, Window
<1>3. /\ n \in Nat /\ c \in [1..n -> Segments] /\ Chain(n, c) /\ LastFits(n, c)
      /\ TakeFits(n, c) /\ Records(n, c) /\ Messages(n, c)
    BY SoundParts
<1>4. Chain(n, c)' /\ TakeFits(n, c)'
    BY <1>1, <1>3 DEF Chain, TakeFits
<1>5. LastFits(n, c)'
  <2>1. NearEnd(n, c)' <=> NearEnd(n, c)
      BY <1>1 DEF NearEnd
  <2> QED BY <1>1, <1>3, <2>1 DEF LastFits
<1>6. Cells(n, c)' = Cells(n, c)
    BY DEF Cells
<1>7. Records(n, c)'
  <2>1. \A p \in Producers: RecordFits(p, n, c)'
      BY <1>1, <1>3, <1>6 DEF Records, RecordFits
  <2>2. Distinct'
      BY <1>1, <1>3 DEF Records, Distinct
  <2> QED BY <1>1, <1>3, <1>6, <2>1, <2>2 DEF Records
<1>8. Reading' = Reading
    BY <1>1 DEF Reading
<1>9. Messages(n, c)'
  <2>1. \A q \in Producers: Own(q)' = Own(q) /\ Buffered(q)' = Buffered(q)
      BY <1>1 DEF Own, Buffered
  <2> QED BY <1>1, <1>3, <1>8, <2>1, MessagesKept
<1>10. Sound(n, c)'
    BY <1>3, <1>4, <1>5, <1>7, <1>9, SoundParts
<1> QED BY <1>1, <1>2, <1>8, <1>10, CalmStep

\* One step, from one list to another.
LEMMA StepOrStutter ==
    ASSUME Basics, Clear, NEW CONSTANT n, NEW CONSTANT c, Sound(n, c), [Next]_vars, ~raced'
    PROVE  Clear' /\ ListStep(n, c)
BY StepOfList, StutterCalm DEF ListStep

LEMMA Inductive == Init => Inv
BY InitBasics, InitOrderly DEF Inv

LEMMA InductiveStep ==
    ASSUME Inv, [Next]_vars
    PROVE  Inv' /\ (raced => raced')
<1>1. Basics /\ (~raced => Orderly)
    BY DEF Inv
<1>2. Basics' /\ (raced => raced')
  <2>1. CASE Next
      BY <1>1, <2>1, StepOfBasics
  <2>2. CASE UNCHANGED vars
      BY <1>1, <2>2, StutterBasics DEF vars
  <2> QED BY <2>1, <2>2
<1>3. ASSUME ~raced' PROVE Orderly'
  <2>1. Orderly
      BY <1>1, <1>2, <1>3
  <2>2. PICK n, c: Sound(n, c)
      BY <2>1 DEF Orderly
  <2>3. Clear' /\ ListStep(n, c)
      BY <1>1, <1>3, <2>1, <2>2, StepOrStutter DEF Orderly
  <2>4. \E m, d: Sound(m, d)'
      BY <2>3 DEF ListStep, Calm, Given, Freed, PutIn, TakenOut
  <2> QED BY <2>3, <2>4 DEF Orderly
<1> QED BY <1>2, <1>3 DEF Inv

\* What each variable holds, in every state, and that the queue is in order as long
\* as no two contexts have met in a Window (fifoPut, fifoTake, POOL_ALLOCATE).
THEOREM QueueIsOrderly == Spec => []Inv
<1>1. Inv /\ [Next]_vars => Inv'
    BY InductiveStep
<1> QED BY <1>1, Inductive, PTL DEF Spec

\* The pools, the list and every context's locals hold what they may hold, raced or not.
THEOREM QueueTypes == Spec => []TypeOK
<1>1. Inv => TypeOK
    BY DEF Inv, Basics
<1> QED BY <1>1, QueueIsOrderly, PTL

LEMMA NothingLeaksNow == Inv => NothingLeaks
<1> SUFFICES ASSUME Inv, ~raced PROVE \A pool \in Pools: taken[pool] \subseteq InUse(pool)
    BY DEF NothingLeaks
<1>1. PICK n, c: Sound(n, c)
    BY DEF Inv, Orderly
<1>2. Basics /\ Records(n, c) /\ Messages(n, c) /\ TakeFits(n, c)
    BY <1>1, SoundParts DEF Inv
<1>3. Listed = Cells(n, c)
    BY <1>1, TheList DEF ListIs
<1>4. taken["region"] \subseteq InUse("region")
  <2>1. \A x: x \in Contents(n, c) => x \in {data[r]: r \in Listed}
      BY <1>3 DEF Contents, Cells
  <2>2. InUse("region") = Writing \cup Reading \cup {data[r]: r \in Listed}
      BY DEF InUse
  <2> QED BY <1>2, <2>1, <2>2 DEF Messages
<1>5. taken["queue"] \subseteq InUse("queue")
  <2>1. InUse("queue") = Listed \cup
           ({record[d]: d \in {d \in Contexts: pc[d] \notin {"read next", "swing"}}} \ {NULL})
      BY DEF InUse
  <2>2. taken["queue"] = Cells(n, c) \cup ({record[d]: d \in Contexts} \ {NULL})
      BY <1>2 DEF Records
  <2>3. ASSUME NEW d \in Contexts, pc[d] \in {"read next", "swing"} PROVE record[d] \in Cells(n,
  c)
    <3>1. d = Main
      <4>1. \A p \in Producers: pc[p] \notin {"read next", "swing"}
          BY <1>2 DEF Basics, LocalsFit, HandFits, Carrying, Linked
      <4> QED BY <2>3, <4>1, Constants
    <3>2. n > 0 /\ record[Main] = c[1]
        BY <1>2, <2>3, <3>1 DEF TakeFits
    <3> QED BY <1>1, <3>1, <3>2, FirstIsCell
  <2>4. \A x: x \in taken["queue"] /\ x \notin Cells(n, c) =>
           x \in {record[d]: d \in {d \in Contexts: pc[d] \notin {"read next", "swing"}}} \ {NULL}
      BY <2>2, <2>3
  <2> QED BY <1>3, <2>1, <2>4
<1> QED BY <1>4, <1>5 DEF Pools

\* No segment leaks: whatever POOL_ALLOCATE has marked as taken is in the hands of a
\* context or in the list, as long as no two contexts have met in a Window.
THEOREM NoSegmentLeaks == Spec => []NothingLeaks
BY QueueIsOrderly, NothingLeaksNow, PTL

-----------------------------------------------------------------------------
(* The queue is a mailbox.                                                 *)

LEMMA QueuedAre ==
    ASSUME Basics, NEW n, NEW c, Sound(n, c), Queued = Letters(n, c)
    PROVE  M!InQueue = Contents(n, c)
<1>1. n \in Nat /\ c \in [1..n -> Segments]
    BY SoundParts
<1>2. DOMAIN Queued = 1..n /\ \A i \in 1..n: Queued[i] = data[c[i]]
    BY DEF Letters
<1> QED BY <1>2 DEF M!InQueue, Contents

LEMMA WritingAreSegments ==
    ASSUME Basics, NEW n, NEW c, Sound(n, c)
    PROVE  Writing \subseteq Segments
<1>1. taken["region"] \subseteq Segments
    BY Types DEF Basics, PoolTypes, Pools
<1>2. Writing \subseteq taken["region"]
    BY SoundParts DEF Messages
<1> QED BY <1>1, <1>2

LEMMA InitOfMailbox == Init => M!Init
<1> SUFFICES ASSUME Init PROVE M!Init
    OBVIOUS
<1>1. Basics /\ Orderly
    BY InitBasics, InitOrderly
<1>2. PICK n, c: Sound(n, c)
    BY <1>1 DEF Orderly
<1>3. first = NULL /\ message[Main] = NULL /\ raced = FALSE
    BY Constants DEF Init
<1>4. n = 0
  <2>1. n > 0 => first = c[1] /\ c[1] # NULL
      BY <1>2, FirstIsCell
  <2>2. n \in Nat
      BY <1>2, SoundParts
  <2> QED BY <1>3, <2>1, <2>2
<1>5. Queued = <<>>
  <2>1. Queued = Letters(n, c)
      BY <1>2, TheList DEF ListIs
  <2>2. Letters(n, c) \in Seq(Segments \cup {NULL}) /\ Len(Letters(n, c)) = 0
    <3>1. Letters(n, c) \in [1..0 -> Segments \cup {NULL}]
        BY <1>1, <1>2, <1>4, FirstIsCell, LettersAre
    <3> QED BY <3>1, SeqDef
  <2>3. Letters(n, c) = <<>>
      BY <2>2, EmptySeq
  <2> QED BY <2>1, <2>3
<1>6. Reading = {}
    BY <1>3 DEF Reading
<1>7. Writing \subseteq Segments
    BY <1>1, <1>2, WritingAreSegments
<1> QED BY <1>3, <1>5, <1>6, <1>7 DEF M!Init

LEMMA StepOfMailbox ==
    ASSUME Inv, [Next]_vars
    PROVE  [M!Next]_(M!vars)
<1>1. Basics /\ (~raced => Orderly) /\ Inv' /\ (raced => raced')
    BY InductiveStep DEF Inv
<1>2. CASE raced'
    BY <1>1, <1>2 DEF M!Next
<1>3. CASE ~raced'
  <2>1. ~raced /\ Orderly
      BY <1>1, <1>3
  <2>2. PICK n, c: Sound(n, c)
      BY <2>1 DEF Orderly
  <2>3. ListStep(n, c)
      BY <1>1, <1>3, <2>1, <2>2, StepOrStutter DEF Orderly
  <2>4. Queued = Letters(n, c) /\ M!InQueue = Contents(n, c) /\ Writing \subseteq Segments
      BY <1>1, <2>2, TheList, QueuedAre, WritingAreSegments DEF ListIs
  <2>5. CASE Calm(n, c)
    <3>1. Queued' = Queued
        BY <2>4, <2>5, TheList DEF Calm, ListIs
    <3>2. raced' = raced
      <4>1. raced \in BOOLEAN /\ raced' \in BOOLEAN
          BY <1>1, Types DEF Inv, Basics, TypeOK
      <4> QED BY <1>3, <2>1, <4>1
    <3> QED BY <2>5, <3>1, <3>2 DEF Calm, M!vars
  <2>6. CASE Given(n, c)
    <3>1. Queued' = Queued
        BY <2>4, <2>6, TheList DEF Given, ListIs
    <3>2. \E s \in Segments: M!Allocate(s)
        BY <2>4, <2>6, <3>1 DEF Given, M!Allocate
    <3> QED BY <2>1, <3>2 DEF M!Next, M!Kept
  <2>7. CASE Freed(n, c)
    <3>1. Queued' = Queued
        BY <2>4, <2>7, TheList DEF Freed, ListIs
    <3>2. M!Free
        BY <2>7, <3>1 DEF Freed, M!Free
    <3> QED BY <2>1, <3>2 DEF M!Next, M!Kept
  <2>8. ASSUME NEW m, NEW d, PutIn(n, c, m, d) PROVE M!Next
    <3>1. Queued' = Letters(m, d)'
        BY <2>8, TheList DEF PutIn, ListIs
    <3>2. PICK s \in Writing: Writing' = Writing \ {s} /\ Letters(m, d)' = Append(Letters(n, c),
    s)
        BY <2>8 DEF PutIn
    <3>3. M!Put(s) /\ s \in Segments
        BY <2>4, <2>8, <3>1, <3>2 DEF PutIn, M!Put
    <3> QED BY <2>1, <3>3 DEF M!Next, M!Kept
  <2>9. ASSUME NEW m, NEW d, TakenOut(n, c, m, d) PROVE M!Next
    <3>1. Queued' = Letters(m, d)'
        BY <2>9, TheList DEF TakenOut, ListIs
    <3>2. M!Take
        BY <2>4, <2>9, <3>1 DEF TakenOut, M!Take
    <3> QED BY <2>1, <3>2 DEF M!Next, M!Kept
  <2> QED BY <2>3, <2>5, <2>6, <2>7, <2>8, <2>9 DEF ListStep
<1> QED BY <1>2, <1>3

\* The pools and the linked list, worked on step by step, are a mailbox: a segment is
\* given out only when nobody has it, a message is put in once, stays where it is and
\* is taken out in its turn, until two contexts meet in a Window.
THEOREM QueueIsAMailbox == Spec => MailboxKept
<1>1. Inv /\ [Next]_vars => [M!Next]_(M!vars)
    BY StepOfMailbox
<1> QED BY <1>1, InitOfMailbox, QueueIsOrderly, PTL DEF Spec, MailboxKept, M!Spec

-----------------------------------------------------------------------------
(* No panic.                                                               *)

\* There is a segment for every message on its way, and one for the UART, and a
\* compare-and-swap may fail once.
Capacity == MaxUnread + Cardinality(Swapping) <= PoolSize /\ Retries > 1

\* How far a pool's idx has moved on since it was at s.
Behind(s, i) == IF s < i THEN i - s ELSE i - s + PoolSize

\* The k segments before i are among those.
Full(those, i, k) == \A s \in Segments: Behind(s, i) <= k => s \in those

Picks(pool) == IF pool = "region" THEN "pick region" ELSE "pick queue"
Claims(pool) == IF pool = "region" THEN "claim region" ELSE "claim queue"

\* A producer that has tried k segments in vain has the k before the next one taken, and
\* whoever gets ahead of it moves on from there.
Search(pool) == \A p \in Producers:
    /\ pc[p] = Claims(pool) => Full(taken[pool], tried[p], tries[p])
    /\ pc[p] = Picks(pool) =>
          /\ Full(taken[pool], idx[pool], tries[p])
          /\ \A q \in Producers:
                pc[q] = Claims(pool) /\ q > p => Full(taken[pool], tried[q], tries[p])

\* Once the queue is not empty it stays so while a producer is on its way.
Retrying == \A p \in Producers:
    /\ pc[p] = "set first" => tries[p] = 0
    /\ pc[p] = "look" => tries[p] = 0 \/ (tries[p] = 1 /\ first # NULL)

Searching == Search("region") /\ Search("queue") /\ Retrying

\* Producers that have not linked their message yet.
Waiting == {p \in Producers: pc[p] # "idle" /\ pc[p] \notin Linked}
Room == Cardinality(Waiting) + Cardinality(Listed) + Cardinality(Reading) <= MaxUnread

Roomy == panic = "no" /\ Room /\ Searching

LEMMA AfterIs ==
    ASSUME NEW i \in Segments
    PROVE  After(i) = IF i + 1 = PoolSize THEN 0 ELSE i + 1
BY Sizes DEF After, Segments

LEMMA BehindAfter ==
    ASSUME NEW i \in Segments, NEW s \in Segments
    PROVE  /\ Behind(s, i) \in 1 .. PoolSize /\ Behind(i, i) = PoolSize
           /\ Behind(s, After(i)) = IF s = i THEN 1 ELSE Behind(s, i) + 1
<1>1. i \in Nat /\ s \in Nat /\ i < PoolSize /\ s < PoolSize /\ PoolSize \in Nat
    BY Sizes DEF Segments
<1>2. After(i) = IF i + 1 = PoolSize THEN 0 ELSE i + 1
    BY AfterIs
<1> HIDE DEF After
<1> QED BY <1>1, <1>2 DEF Behind

\* Nothing has been tried yet.
LEMMA FullOfNone ==
    ASSUME NEW S, NEW i \in Segments
    PROVE  Full(S, i, 0)
<1>1. \A s \in Segments: ~(Behind(s, i) <= 0)
    BY BehindAfter
<1> QED BY <1>1 DEF Full

LEMMA FullOfMore ==
    ASSUME NEW S, NEW T, S \subseteq T, NEW i, NEW k, Full(S, i, k)
    PROVE  Full(T, i, k)
BY DEF Full

\* One more has been tried, or others have been.
LEMMA FullGrows ==
    ASSUME NEW S, NEW i \in Segments, i \in S, NEW k \in Nat, Full(S, i, k),
           NEW j \in Nat, j <= k + 1
    PROVE  Full(S, After(i), j)
<1> SUFFICES ASSUME NEW s \in Segments, Behind(s, After(i)) <= j, s # i PROVE s \in S
    BY DEF Full
<1>1. Behind(s, After(i)) = Behind(s, i) + 1 /\ Behind(s, i) \in Nat
    BY BehindAfter
<1>2. Behind(s, i) <= k
    BY <1>1
<1> QED BY <1>2 DEF Full

\* All have been tried.
LEMMA FullOfAll ==
    ASSUME NEW S, NEW i \in Segments, i \in S, Full(S, i, PoolSize - 1)
    PROVE  Segments \subseteq S
<1> SUFFICES ASSUME NEW s \in Segments, s # i PROVE s \in S
    OBVIOUS
<1>1. Behind(s, i) <= PoolSize - 1
  <2>1. i \in Nat /\ s \in Nat /\ i < PoolSize /\ s < PoolSize /\ PoolSize \in Nat
      BY Sizes DEF Segments
  <2> QED BY <2>1 DEF Behind
<1> QED BY <1>1 DEF Full

\* The rest of what a step leaves alone.
AloneTries(p) == \A q \in Producers \ {p}:
    tried'[q] = tried[q] /\ tries'[q] = tries[q] /\ pc'[q] = pc[q]

LEMMA SearchTypes ==
    ASSUME Basics, NEW pool \in Pools
    PROVE  /\ idx[pool] \in Segments /\ taken[pool] \subseteq Segments
           /\ \A q \in Producers: tried[q] \in Segments /\ tries[q] \in Nat
<1>1. PoolTypes /\ TryTypes
    BY Types DEF Basics
<1>2. tries \in [Contexts -> Nat]
    BY <1>1, Sizes DEF TryTypes
<1> QED BY <1>1, <1>2, Constants DEF PoolTypes, TryTypes

\* A step that does not search in a pool.
LEMMA SearchKept ==
    ASSUME Basics, NEW pool \in Pools, Search(pool), NEW p \in Producers, AloneTries(p),
           idx'[pool] = idx[pool], taken'[pool] = taken[pool],
           pc'[p] # Claims(pool), pc'[p] = Picks(pool) => tries'[p] = 0
    PROVE  Search(pool)'
<1> DEFINE S == taken[pool]
<1>1. idx[pool] \in Segments /\ \A q \in Producers: tried[q] \in Segments
    BY SearchTypes
<1>2. \A q \in Producers: q # p => tried'[q] = tried[q] /\ tries'[q] = tries[q] /\ pc'[q] = pc[q]
    BY DEF AloneTries
<1>3. Full(S, idx[pool], 0) /\ \A q \in Producers: Full(S, tried[q], 0)
    BY <1>1, FullOfNone
<1>4. taken'[pool] = S
    OBVIOUS
<1> HIDE DEF S
<1>5. ASSUME NEW q \in Producers
      PROVE  /\ pc'[q] = Claims(pool) => Full(S, tried'[q], tries'[q])
             /\ pc'[q] = Picks(pool) =>
                   /\ Full(S, idx[pool], tries'[q])
                   /\ \A r \in Producers:
                         pc'[r] = Claims(pool) /\ r > q => Full(S, tried'[r], tries'[q])
  <2>1. CASE q = p
      BY <1>2, <1>3, <2>1
  <2>2. CASE q # p
      BY <1>2, <2>2 DEF Search, S
  <2> QED BY <2>1, <2>2
<1> QED BY <1>4, <1>5 DEF Search, Claims, Picks

LEMMA SearchPicks ==
    ASSUME Basics, NEW pool \in Pools, Search(pool), NEW p \in Producers, AloneTries(p),
           pc[p] = Picks(pool), pc'[p] = Claims(pool), tried'[p] = idx[pool],
           tries'[p] = tries[p],
           UNCHANGED <<taken, idx>>
    PROVE  Search(pool)'
<1> DEFINE S == taken[pool]
<1>1. \A q \in Producers: q # p => tried'[q] = tried[q] /\ tries'[q] = tries[q] /\ pc'[q] = pc[q]
    BY DEF AloneTries
<1>2. Claims(pool) # Picks(pool)
    BY DEF Claims, Picks
<1>3. taken'[pool] = S /\ idx'[pool] = idx[pool]
    OBVIOUS
<1>4. ASSUME NEW q \in Producers
      PROVE  /\ pc'[q] = Claims(pool) => Full(S, tried'[q], tries'[q])
             /\ pc'[q] = Picks(pool) =>
                   /\ Full(S, idx[pool], tries'[q])
                   /\ \A r \in Producers:
                         pc'[r] = Claims(pool) /\ r > q => Full(S, tried'[r], tries'[q])
  <2>1. CASE q = p
      BY <1>2, <2>1 DEF Search, S
  <2>2. CASE q # p
    <3>1. pc[q] = Picks(pool) => Full(S, idx[pool], tries[q])
        BY DEF Search, S
    <3> QED BY <1>1, <2>2, <3>1 DEF Search, S
  <2> QED BY <2>1, <2>2
<1> QED BY <1>3, <1>4 DEF Search, Claims, Picks

LEMMA SearchClaims ==
    ASSUME Basics, NEW pool \in Pools, Search(pool), NEW p \in Producers, AloneTries(p),
           pc[p] = Claims(pool), pc'[p] # Claims(pool), idx'[pool] = After(tried[p]),
           \A q \in Producers: q > p => pc[q] = "idle", Producers \subseteq Nat,
           taken'[pool] = taken[pool] \cup {tried[p]},
           pc'[p] = Picks(pool) => tries'[p] = tries[p] + 1
    PROVE  Search(pool)'
<1> DEFINE T == taken[pool] \cup {tried[p]}
<1>1. \A q \in Producers: q # p => tried'[q] = tried[q] /\ tries'[q] = tries[q] /\ pc'[q] = pc[q]
    BY DEF AloneTries
<1>2. \A q \in Producers: tried[q] \in Segments /\ tries[q] \in Nat
    BY SearchTypes
<1>3. tried[p] \in T /\ taken[pool] \subseteq T /\ taken'[pool] = T
    OBVIOUS
<1> HIDE DEF T
<1>4. ASSUME NEW q \in Producers
      PROVE  /\ pc'[q] = Claims(pool) => Full(T, tried'[q], tries'[q])
             /\ pc'[q] = Picks(pool) =>
                   /\ Full(T, After(tried[p]), tries'[q])
                   /\ \A r \in Producers:
                         pc'[r] = Claims(pool) /\ r > q => Full(T, tried'[r], tries'[q])
  <2>1. ASSUME NEW r \in Producers, r # p, pc[r] = Claims(pool) PROVE r < p
    <3>1. ~(r > p) /\ r \in Nat /\ p \in Nat
        BY <2>1 DEF Claims
    <3> QED BY <2>1, <3>1
  <2>2. CASE q = p
    <3>1. Full(taken[pool], tried[p], tries[p])
        BY DEF Search
    <3>2. pc'[p] = Picks(pool) => Full(T, After(tried[p]), tries'[p])
      <4>1. Full(T, tried[p], tries[p])
          BY <1>3, <3>1, FullOfMore
      <4>2. tries[p] + 1 \in Nat /\ tries[p] + 1 <= tries[p] + 1
          BY <1>2
      <4>3. Full(T, After(tried[p]), tries[p] + 1)
          BY <1>2, <1>3, <4>1, <4>2, FullGrows
      <4> QED BY <4>3
    <3>3. \A r \in Producers: ~(pc'[r] = Claims(pool) /\ r > p)
      <4> SUFFICES ASSUME NEW r \in Producers, pc'[r] = Claims(pool), r > p PROVE FALSE
          OBVIOUS
      <4>1. r # p /\ pc[r] = Claims(pool)
          BY <1>1
      <4>2. r < p /\ r \in Nat /\ p \in Nat
          BY <2>1, <4>1
      <4> QED BY <4>2
    <3> QED BY <2>2, <3>2, <3>3
  <2>3. CASE q # p
    <3>1. pc'[q] = pc[q] /\ tried'[q] = tried[q] /\ tries'[q] = tries[q]
        BY <1>1, <2>3
    <3>2. ASSUME pc[q] = Claims(pool) PROVE Full(T, tried[q], tries[q])
      <4>1. Full(taken[pool], tried[q], tries[q])
          BY <3>2 DEF Search
      <4> QED BY <1>3, <4>1, FullOfMore
    <3>3. ASSUME pc[q] = Picks(pool), NEW r \in Producers, pc'[r] = Claims(pool), r > q
          PROVE  Full(T, tried'[r], tries[q])
      <4>1. r # p /\ pc[r] = Claims(pool) /\ tried'[r] = tried[r]
          BY <1>1, <3>3
      <4>2. Full(taken[pool], tried[r], tries[q])
          BY <3>3, <4>1 DEF Search
      <4> QED BY <1>3, <4>1, <4>2, FullOfMore
    <3>4. ASSUME pc[q] = Picks(pool) PROVE Full(T, After(tried[p]), tries[q])
      <4>1. p > q
        <5>1. pc[q] # "idle" /\ q \in Nat /\ p \in Nat
            BY <3>4 DEF Picks
        <5>2. ~(q > p)
            BY <5>1
        <5> QED BY <2>3, <5>1, <5>2
      <4>2. Full(taken[pool], tried[p], tries[q])
          BY <3>4, <4>1 DEF Search
      <4>3. Full(T, tried[p], tries[q])
          BY <1>3, <4>2, FullOfMore
      <4>4. tries[q] \in Nat /\ tries[q] <= tries[q] + 1
          BY <1>2
      <4> QED BY <1>2, <1>3, <4>3, <4>4, FullGrows
    <3> QED BY <3>1, <3>2, <3>3, <3>4
  <2> QED BY <2>2, <2>3
<1> QED BY <1>3, <1>4 DEF Search, Claims, Picks

\* There is always a segment left.
LEMMA ImageIsNoLarger ==
    ASSUME NEW B, IsFiniteSet(B), NEW f
    PROVE  IsFiniteSet({f[q]: q \in B}) /\ Cardinality({f[q]: q \in B}) <= Cardinality(B)
<1> DEFINE T == {f[q]: q \in B}
           g == [q \in B |-> f[q]]
<1>1. g \in Surjection(B, T)
  <2>1. g \in [B -> T] /\ \A t \in T: \E q \in B: g[q] = t
      OBVIOUS
  <2> HIDE DEF g, T
  <2> QED BY <2>1 DEF Surjection
<1> HIDE DEF g
<1> QED BY <1>1, FS_Surjection

LEMMA UnionIsNoLarger ==
    ASSUME NEW S, IsFiniteSet(S), NEW T, IsFiniteSet(T)
    PROVE  /\ IsFiniteSet(S \cup T) /\ Cardinality(S \cup T) <= Cardinality(S) + Cardinality(T)
           /\ Cardinality(S) \in Nat /\ Cardinality(T) \in Nat
<1>1. /\ IsFiniteSet(S \cup T)
      /\ Cardinality(S \cup T) = Cardinality(S) + Cardinality(T) - Cardinality(S \cap T)
    BY FS_Union
<1>2. IsFiniteSet(S \cap T)
  <2>1. S \cap T \in SUBSET S
      OBVIOUS
  <2> QED BY <2>1, FS_Subset
<1>3. Cardinality(S) \in Nat /\ Cardinality(T) \in Nat /\ Cardinality(S \cap T) \in Nat
    BY <1>2, FS_CardinalityType
<1> QED BY <1>1, <1>3

LEMMA SomeLeft ==
    ASSUME NEW A, NEW B, NEW C, NEW T, IsFiniteSet(A), IsFiniteSet(B), IsFiniteSet(C),
           T \subseteq A \cup B \cup C,
           Cardinality(A) + Cardinality(B) + Cardinality(C) < PoolSize
    PROVE  ~(Segments \subseteq T)
<1>1. /\ IsFiniteSet(A \cup B) /\ Cardinality(A \cup B) <= Cardinality(A) + Cardinality(B)
      /\ Cardinality(A) \in Nat /\ Cardinality(B) \in Nat
    BY UnionIsNoLarger
<1>2. /\ IsFiniteSet((A \cup B) \cup C)
      /\ Cardinality((A \cup B) \cup C) <= Cardinality(A \cup B) + Cardinality(C)
      /\ Cardinality(A \cup B) \in Nat /\ Cardinality(C) \in Nat
    BY <1>1, UnionIsNoLarger
<1>3. SUFFICES ASSUME Segments \subseteq T PROVE FALSE
    OBVIOUS
<1>4. Segments \in SUBSET ((A \cup B) \cup C)
    BY <1>3
<1>5. /\ Cardinality(Segments) <= Cardinality((A \cup B) \cup C)
      /\ Cardinality((A \cup B) \cup C) \in Nat
    BY <1>2, <1>4, FS_Subset, FS_CardinalityType
<1> QED BY <1>1, <1>2, <1>5, SegmentsAre, Sizes

LEMMA WaitingIsFinite ==
    /\ IsFiniteSet(Waiting) /\ Cardinality(Waiting) \in Nat
    /\ IsFiniteSet(Reading) /\ Cardinality(Reading) \in Nat /\ Cardinality(Reading) <= 1
    /\ Reading = {} <=> Cardinality(Reading) = 0
    /\ IsFiniteSet(Swapping) /\ Cardinality(Swapping) \in Nat
<1>1. IsFiniteSet(Producers) /\ Swapping \subseteq Producers
    BY QueueAssumption
<1>2. Waiting \in SUBSET Producers /\ Swapping \in SUBSET Producers
    BY <1>1 DEF Waiting
<1>3. IsFiniteSet(Waiting) /\ IsFiniteSet(Swapping)
    BY <1>1, <1>2, FS_Subset
<1>4. IsFiniteSet({message[Main]}) /\ Cardinality({message[Main]}) = 1
    BY FS_Singleton
<1>5. Reading \in SUBSET {message[Main]}
    BY DEF Reading
<1>6. IsFiniteSet(Reading) /\ Cardinality(Reading) <= 1
    BY <1>4, <1>5, FS_Subset
<1> QED BY <1>3, <1>6, FS_CardinalityType, FS_EmptySet

\* The others on their way are fewer than the messages there may be.
LEMMA OthersAreFewer ==
    ASSUME NEW n, NEW c, Sound(n, c), Room, NEW p \in Waiting
    PROVE  /\ IsFiniteSet(Waiting \ {p}) /\ n \in Nat
           /\ Cardinality(Waiting \ {p}) \in Nat
           /\ Cardinality(Waiting \ {p}) + n + Cardinality(Reading) < MaxUnread
<1>1. n \in Nat /\ Cardinality(Listed) = n
    BY CellsAreFew, TheList DEF ListIs
<1>2. IsFiniteSet(Waiting) /\ Cardinality(Waiting) \in Nat /\ Cardinality(Reading) \in Nat
    BY WaitingIsFinite
<1>3. /\ IsFiniteSet(Waiting \ {p}) /\ Cardinality(Waiting \ {p}) = Cardinality(Waiting) - 1
    BY <1>2, FS_RemoveElement
<1>4. Cardinality(Waiting \ {p}) \in Nat
    BY <1>3, FS_CardinalityType
<1> QED BY <1>1, <1>2, <1>3, <1>4, QueueAssumption DEF Room

LEMMA AtLeast ==
    ASSUME NEW a \in Nat
    PROVE  a <= a /\ 0 <= a /\ 0 \in Nat /\ 1 \in Nat /\ (a # 0 => 1 <= a)
OBVIOUS

LEMMA AtMostMore ==
    ASSUME NEW a \in Nat, NEW b \in Nat, NEW c \in Nat, a <= b
    PROVE  a <= b + c
OBVIOUS

LEMMA AtMostBoth ==
    ASSUME NEW x, NEW y \in Nat, NEW z \in Nat, NEW a \in Nat, NEW b \in Nat,
           x <= y + z, x \in Nat, y <= a, z <= b
    PROVE  x <= a + b
OBVIOUS

LEMMA StillLeft ==
    ASSUME NEW w \in Nat, NEW n \in Nat, NEW r \in Nat, NEW s \in Nat,
           NEW a \in Nat, NEW b \in Nat, NEW k \in Nat,
           w + n + r < MaxUnread, MaxUnread + s <= PoolSize, a <= n, b <= w + s, k <= r
    PROVE  a + b + k < PoolSize
BY QueueAssumption

LEMMA RegionLeft ==
    ASSUME Capacity, Basics, NEW CONSTANT n, NEW CONSTANT c, Sound(n, c), Room,
           NEW p \in Producers, pc[p] \in {"pick region", "claim region"}
    PROVE  ~(Segments \subseteq taken["region"])
<1> DEFINE A == Contents(n, c)
           B == {message[q]: q \in Waiting \ {p}} \cup {buffer[q]: q \in Swapping}
           C == Reading
<1>1. p \in Waiting
    BY DEF Waiting, Linked
<1>2. /\ IsFiniteSet(Waiting \ {p}) /\ n \in Nat /\ Cardinality(Waiting \ {p}) \in Nat
      /\ Cardinality(Waiting \ {p}) + n + Cardinality(Reading) < MaxUnread
    BY <1>1, OthersAreFewer
<1>3. IsFiniteSet(A) /\ Cardinality(A) <= n /\ Cardinality(A) \in Nat
  <2>1. IsFiniteSet(1..n) /\ Cardinality(1..n) = n
    <3>1. n \in Nat
        BY <1>2, Zenon
    <3> QED BY <3>1, IntervalIs, Zenon
  <2> DEFINE f == Letters(n, c)
  <2>2. A = {f[i]: i \in 1..n}
      BY DEF Letters, Contents
  <2> HIDE DEF f
  <2>3. IsFiniteSet({f[i]: i \in 1..n}) /\ Cardinality({f[i]: i \in 1..n}) <= Cardinality(1..n)
      BY <2>1, ImageIsNoLarger
  <2> HIDE DEF A
  <2> QED BY <2>1, <2>2, <2>3, FS_CardinalityType
<1>4. /\ IsFiniteSet(B) /\ Cardinality(B) \in Nat
      /\ Cardinality(B) <= Cardinality(Waiting \ {p}) + Cardinality(Swapping)
  <2> DEFINE X == {message[q]: q \in Waiting \ {p}}
             Y == {buffer[q]: q \in Swapping}
  <2>1. IsFiniteSet(X) /\ Cardinality(X) <= Cardinality(Waiting \ {p})
      BY <1>2, ImageIsNoLarger
  <2>2. IsFiniteSet(Y) /\ Cardinality(Y) <= Cardinality(Swapping) /\ Cardinality(Swapping) \in Nat
      BY WaitingIsFinite, ImageIsNoLarger
  <2> HIDE DEF X, Y
  <2>3. /\ IsFiniteSet(X \cup Y) /\ Cardinality(X \cup Y) <= Cardinality(X) + Cardinality(Y)
        /\ Cardinality(X) \in Nat /\ Cardinality(Y) \in Nat
      BY <2>1, <2>2, UnionIsNoLarger
  <2>4. Cardinality(X \cup Y) \in Nat
      BY <2>3, FS_CardinalityType
  <2>5. Cardinality(X \cup Y) <= Cardinality(Waiting \ {p}) + Cardinality(Swapping)
      BY <1>2, <2>1, <2>2, <2>3, <2>4, AtMostBoth, Zenon
  <2> QED BY <2>3, <2>4, <2>5 DEF X, Y
<1>5. taken["region"] \subseteq A \cup B \cup C
  <2>1. taken["region"] = Contents(n, c) \cup Writing \cup Reading
      BY SoundParts DEF Messages
  <2>2. ASSUME NEW x \in Writing PROVE x \in B
    <3>1. PICK q \in Producers: x \in Own(q) \cup Buffered(q)
        BY WritingIs
    <3>2. CASE x \in Own(q)
      <4>1. x = message[q] /\ message[q] # NULL /\ pc[q] \notin Linked
          BY <3>2 DEF Own
      <4>2. pc[q] \in Carrying
          BY <4>1, Hands
      <4>3. q \in Waiting \ {p}
          BY <4>1, <4>2 DEF Waiting, Carrying
      <4> QED BY <4>1, <4>3
    <3>3. CASE x \in Buffered(q)
      <4>1. x = buffer[q] /\ q \in Swapping
          BY <3>3, Hands DEF Buffered
      <4> QED BY <4>1
    <3> QED BY <3>1, <3>2, <3>3
  <2> HIDE DEF B
  <2> QED BY <2>1, <2>2
<1>6. IsFiniteSet(C) /\ Cardinality(C) \in Nat /\ Cardinality(Swapping) \in Nat
    BY WaitingIsFinite
<1> HIDE DEF A, B
<1>7. Cardinality(A) + Cardinality(B) + Cardinality(C) < PoolSize
  <2>1. MaxUnread + Cardinality(Swapping) <= PoolSize
      BY DEF Capacity
  <2>2. Cardinality(C) <= Cardinality(C)
      BY <1>6, AtLeast, Zenon
  <2>3. C = Reading
      OBVIOUS
  <2> HIDE DEF C
  <2> QED BY <1>2, <1>3, <1>4, <1>6, <2>1, <2>2, <2>3, StillLeft, Zenon
<1> HIDE DEF C
<1> QED BY <1>3, <1>4, <1>5, <1>6, <1>7, SomeLeft

LEMMA QueueLeft ==
    ASSUME Capacity, Basics, NEW CONSTANT n, NEW CONSTANT c, Sound(n, c), Room,
           NEW p \in Producers, pc[p] \in {"pick queue", "claim queue"}
    PROVE  ~(Segments \subseteq taken["queue"])
<1> DEFINE A == Cells(n, c)
           B == {record[q]: q \in Waiting \ {p}}
           C == IF pc[Main] = "free record" THEN {record[Main]} ELSE {}
<1>1. p \in Waiting
    BY DEF Waiting, Linked
<1>2. /\ IsFiniteSet(Waiting \ {p}) /\ n \in Nat /\ Cardinality(Waiting \ {p}) \in Nat
      /\ Cardinality(Waiting \ {p}) + n + Cardinality(Reading) < MaxUnread
    BY <1>1, OthersAreFewer
<1>3. IsFiniteSet(A) /\ Cardinality(A) = n
    BY CellsAreFew
<1>4. IsFiniteSet(B) /\ Cardinality(B) <= Cardinality(Waiting \ {p}) /\ Cardinality(B) \in Nat
    BY <1>2, ImageIsNoLarger, FS_CardinalityType
<1>5. IsFiniteSet(C) /\ Cardinality(C) <= Cardinality(Reading) /\ Cardinality(C) \in Nat
  <2>1. Cardinality(Reading) \in Nat /\ (Reading # {} => Cardinality(Reading) # 0)
      BY WaitingIsFinite
  <2>2. CASE pc[Main] = "free record"
    <3>1. Reading # {}
        BY <2>2, SoundParts DEF TakeFits, Reading
    <3>2. C = {record[Main]}
        BY <2>2
    <3>3. IsFiniteSet(C) /\ Cardinality(C) = 1
        BY <3>2, FS_Singleton
    <3>4. 1 <= Cardinality(Reading) /\ 1 \in Nat
        BY <2>1, <3>1, AtLeast, Zenon
    <3> HIDE DEF C
    <3> QED BY <3>3, <3>4, Zenon
  <2>3. CASE pc[Main] # "free record"
    <3>1. C = {}
        BY <2>3
    <3>2. IsFiniteSet(C) /\ Cardinality(C) = 0
        BY <3>1, FS_EmptySet
    <3>3. 0 <= Cardinality(Reading) /\ 0 \in Nat
        BY <2>1, AtLeast, Zenon
    <3> HIDE DEF C
    <3> QED BY <3>2, <3>3, Zenon
  <2> QED BY <2>2, <2>3
<1>6. taken["queue"] \subseteq A \cup B \cup C
  <2>1. taken["queue"] = Cells(n, c) \cup ({record[d]: d \in Contexts} \ {NULL})
      BY SoundParts DEF Records
  <2>2. ASSUME NEW q \in Producers, record[q] # NULL PROVE record[q] \in A \cup B
    <3>1. pc[q] \in Recording
        BY <2>2, Hands
    <3>2. CASE pc[q] \in Linked
        BY <3>2, SoundParts DEF Records, RecordFits
    <3>3. CASE pc[q] \notin Linked
        BY <3>1, <3>3 DEF Waiting, Recording, Inserting
    <3> QED BY <3>2, <3>3
  <2>3. record[Main] # NULL => record[Main] \in A \cup C
    <3>1. record[Main] # NULL => pc[Main] \in {"read next", "swing", "free record"}
        BY DEF Basics, LocalsFit, MainFits
    <3>2. pc[Main] \in {"read next", "swing"} => n > 0 /\ record[Main] = c[1]
        BY SoundParts DEF TakeFits
    <3>3. n > 0 => c[1] \in A
        BY FirstIsCell
    <3> HIDE DEF A
    <3> QED BY <3>1, <3>2, <3>3
  <2> HIDE DEF A, B, C
  <2>4. \A d \in Contexts: record[d] # NULL => record[d] \in A \cup B \cup C
      BY <2>2, <2>3, Constants
  <2> QED BY <2>1, <2>4 DEF A
<1> HIDE DEF A, B, C
<1>7. Cardinality(A) + Cardinality(B) + Cardinality(C) < PoolSize
  <2>1. Cardinality(Reading) \in Nat /\ Cardinality(Swapping) \in Nat
      BY WaitingIsFinite
  <2>2. MaxUnread + Cardinality(Swapping) <= PoolSize
      BY DEF Capacity
  <2>3. Cardinality(A) <= n /\ Cardinality(A) \in Nat
    <3>1. n <= n
        BY <1>2, AtLeast, Zenon
    <3> QED BY <1>2, <1>3, <3>1, Zenon
  <2>4. Cardinality(B) <= Cardinality(Waiting \ {p}) + Cardinality(Swapping)
      BY <1>2, <1>4, <2>1, AtMostMore, Zenon
  <2> QED BY <1>2, <1>4, <1>5, <2>1, <2>2, <2>3, <2>4, StillLeft, Zenon
<1> QED BY <1>3, <1>4, <1>5, <1>6, <1>7, SomeLeft

\* What a producer's step does to its search.
LEMMA TryingTypes ==
    ASSUME Basics
    PROVE  /\ pc \in [Contexts -> PcValues] /\ tries \in [Contexts -> Nat]
           /\ tried \in [Contexts -> Segments] /\ idx \in [Pools -> Segments]
           /\ taken \in [Pools -> SUBSET Segments] /\ "region" \in Pools /\ "queue" \in Pools
<1>1. PoolTypes /\ TryTypes /\ PcType
    BY Types DEF Basics
<1>2. tries \in [Contexts -> Nat]
    BY <1>1, Sizes DEF TryTypes
<1> QED BY <1>1, <1>2 DEF PoolTypes, TryTypes, PcType, Pools

Stays == UNCHANGED <<idx, taken, first, panic>>

LEMMA ReceivesTries ==
    ASSUME Basics, NEW p \in Producers, Receives(p)
    PROVE  /\ AloneTries(p) /\ Stays
           /\ pc[p] = "idle" /\ pc'[p] = "pick region" /\ tries'[p] = 0
<1>1. /\ pc[p] = "idle" /\ pc' = [pc EXCEPT ![p] = "pick region"]
      /\ UNCHANGED <<tries, tried, idx, taken, first, panic>>
    BY DEF Receives, At, GoTo, pools, fifo, locals
<1>2. p \in Contexts /\ \A q \in Producers: q \in Contexts
    BY Constants
<1>3. tries[p] = 0
    BY <1>1 DEF Basics, LocalsFit, HandFits
<1> QED BY <1>1, <1>2, <1>3, TryingTypes DEF AloneTries, Stays

LEMMA PickTries ==
    ASSUME Basics, NEW p \in Producers, NEW pool \in Pools, NEW claim, Pick(p, pool, claim)
    PROVE  AloneTries(p) /\ Stays /\ pc'[p] = claim /\ tried'[p] = idx[pool] /\ tries'[p] = tries[p]
<1>1. /\ pc' = [pc EXCEPT ![p] = claim] /\ tried' = [tried EXCEPT ![p] = idx[pool]]
      /\ UNCHANGED <<tries, idx, taken, first, panic>>
    BY DEF Pick, GoTo, pools, fifo
<1>2. p \in Contexts /\ \A q \in Producers: q \in Contexts
    BY Constants
<1> QED BY <1>1, <1>2, TryingTypes DEF AloneTries, Stays

\* The segment is p's, or it goes on to the next one.
Outcome(p, pool, more, again) ==
    /\ AloneTries(p) /\ first' = first
    /\ idx'[pool] = After(tried[p]) /\ taken'[pool] = taken[pool] \cup {tried[p]}
    /\ \A other \in Pools \ {pool}: idx'[other] = idx[other] /\ taken'[other] = taken[other]
    /\ \/ pc'[p] = more /\ tries'[p] = 0 /\ panic' = panic
       \/ /\ pc'[p] = again /\ tries'[p] = tries[p] + 1 /\ tried[p] \in taken[pool]
          /\ panic' # panic => tries[p] + 1 = PoolSize

LEMMA ClaimTries ==
    ASSUME Basics, NEW p \in Producers, NEW pool \in Pools, Claim(p, pool), NEW more, NEW again,
           GoTo(p, IF Claimed(p, pool) THEN more ELSE again)
    PROVE  Outcome(p, pool, more, again)
<1> USE DEF Outcome
<1>1. p \in Contexts /\ \A q \in Producers: q \in Contexts
    BY Constants
<1>2. /\ first' = first /\ tried' = tried
      /\ idx'[pool] = After(tried[p]) /\ \A other \in Pools \ {pool}: idx'[other] = idx[other]
    BY TryingTypes DEF Claim, fifo
<1>3. CASE tried[p] \notin taken[pool]
  <2>1. /\ taken' = [taken EXCEPT ![pool] = @ \cup {tried[p]}] /\ tries' = [tries EXCEPT ![p] = 0]
        /\ panic' = panic /\ pc' = [pc EXCEPT ![p] = more]
      BY <1>3 DEF Claim, Claimed, GoTo
  <2> QED BY <1>1, <1>2, <2>1, TryingTypes DEF AloneTries
<1>4. CASE tried[p] \in taken[pool]
  <2>1. /\ taken' = taken /\ tries' = [tries EXCEPT ![p] = tries[p] + 1]
        /\ panic' = (IF OutOfTries(tries'[p]) THEN "no space" ELSE panic)
        /\ pc' = [pc EXCEPT ![p] = again]
      BY <1>4 DEF Claim, Claimed, GoTo
  <2>2. tries'[p] = tries[p] + 1 /\ taken'[pool] = taken[pool] \cup {tried[p]}
      BY <1>1, <1>4, <2>1, TryingTypes
  <2>3. panic' # panic => tries'[p] = PoolSize
      BY <2>1 DEF OutOfTries
  <2>4. AloneTries(p) /\ pc'[p] = again
      BY <1>1, <1>2, <2>1, TryingTypes DEF AloneTries
  <2>5. panic' # panic => tries[p] + 1 = PoolSize
      BY <2>2, <2>3, Zenon
  <2> QED BY <1>2, <1>4, <2>1, <2>2, <2>4, <2>5
<1> QED BY <1>3, <1>4

LEMMA LookTries ==
    ASSUME Basics, NEW p \in Producers, Look(p)
    PROVE  /\ AloneTries(p) /\ Stays /\ pc[p] = "look" /\ tries'[p] = tries[p]
           /\ pc'[p] = IF first = NULL THEN "set first" ELSE "append"
<1>1. /\ pc[p] = "look" /\ pc' = [pc EXCEPT ![p] = IF first = NULL THEN "set first" ELSE "append"]
      /\ UNCHANGED <<tries, tried, idx, taken, first, panic>>
    BY DEF Look, At, GoTo, pools, locals
<1>2. p \in Contexts /\ \A q \in Producers: q \in Contexts
    BY Constants
<1> QED BY <1>1, <1>2, TryingTypes DEF AloneTries, Stays

LEMMA SetFirstTries ==
    ASSUME Basics, NEW p \in Producers, SetFirst(p)
    PROVE  /\ AloneTries(p) /\ UNCHANGED <<idx, taken>> /\ pc[p] = "set first"
           /\ \/ pc'[p] = "set last" /\ first' = record[p] /\ panic' = panic
              \/ /\ first # NULL /\ first' = first /\ pc'[p] = "look" /\ tries'[p] = tries[p] + 1
                 /\ panic' # panic => tries[p] + 1 = Retries
<1>1. p \in Contexts /\ \A q \in Producers: q \in Contexts
    BY Constants
<1>2. pc[p] = "set first"
    BY DEF SetFirst, At
<1>3. CASE first = NULL
  <2>1. /\ first' = record[p] /\ pc' = [pc EXCEPT ![p] = "set last"]
        /\ UNCHANGED <<tries, tried, idx, taken, panic>>
      BY <1>3 DEF SetFirst, GoTo, pools, locals
  <2> QED BY <1>1, <1>2, <2>1, TryingTypes DEF AloneTries
<1>4. CASE first # NULL
  <2>1. /\ tries' = [tries EXCEPT ![p] = tries[p] + 1] /\ pc' = [pc EXCEPT ![p] = "look"]
        /\ panic' = (IF tries'[p] = Retries THEN "no insert" ELSE panic)
        /\ UNCHANGED <<tried, idx, taken, first>>
      BY <1>4 DEF SetFirst, Retry, GoTo, pools, fifo
  <2>2. tries'[p] = tries[p] + 1 /\ AloneTries(p) /\ pc'[p] = "look"
      BY <1>1, <2>1, TryingTypes DEF AloneTries
  <2>3. panic' # panic => tries'[p] = Retries
      BY <2>1
  <2>4. panic' # panic => tries[p] + 1 = Retries
      BY <2>2, <2>3, Zenon
  <2> QED BY <1>2, <1>4, <2>1, <2>2, <2>4
<1> QED BY <1>3, <1>4

LEMMA SetLastTries ==
    ASSUME Basics, NEW p \in Producers, SetLast(p)
    PROVE  AloneTries(p) /\ Stays /\ pc[p] = "set last" /\ pc'[p] = "announce"
<1>1. /\ pc[p] = "set last" /\ pc' = [pc EXCEPT ![p] = "announce"]
      /\ UNCHANGED <<tries, tried, idx, taken, first, panic>>
    BY DEF SetLast, At, GoTo, pools, locals
<1>2. p \in Contexts /\ \A q \in Producers: q \in Contexts
    BY Constants
<1> QED BY <1>1, <1>2, TryingTypes DEF AloneTries, Stays

\* With nobody in a Window the last record is the last one.
LEMMA AppendRecordTries ==
    ASSUME Basics, NEW p \in Producers, AppendRecord(p), last # NULL, link[last] = NULL
    PROVE  AloneTries(p) /\ Stays /\ pc[p] = "append" /\ pc'[p] = "advance"
<1>1. /\ pc[p] = "append" /\ pc' = [pc EXCEPT ![p] = "advance"]
      /\ UNCHANGED <<tries, tried, idx, taken, first, panic>>
    BY DEF AppendRecord, At, GoTo, pools, locals
<1>2. p \in Contexts /\ \A q \in Producers: q \in Contexts
    BY Constants
<1> QED BY <1>1, <1>2, TryingTypes DEF AloneTries, Stays

LEMMA AdvanceTries ==
    ASSUME Basics, NEW p \in Producers, Advance(p)
    PROVE  AloneTries(p) /\ Stays /\ pc[p] = "advance" /\ pc'[p] \in {"advance", "announce"}
<1>1. /\ pc[p] = "advance" /\ (pc' = pc \/ pc' = [pc EXCEPT ![p] = "announce"])
      /\ UNCHANGED <<tries, tried, idx, taken, first, panic>>
    BY DEF Advance, At, GoTo, pools, locals
<1>2. p \in Contexts /\ \A q \in Producers: q \in Contexts
    BY Constants
<1> QED BY <1>1, <1>2, TryingTypes DEF AloneTries, Stays

LEMMA AnnounceTries ==
    ASSUME Basics, NEW p \in Producers, Announce(p)
    PROVE  AloneTries(p) /\ Stays /\ pc[p] = "announce" /\ pc'[p] = "idle"
<1>1. /\ pc[p] = "announce" /\ pc' = [pc EXCEPT ![p] = "idle"]
      /\ tries' = [tries EXCEPT ![p] = 0] /\ tried' = [tried EXCEPT ![p] = 0]
      /\ UNCHANGED <<idx, taken, first, panic>>
    BY DEF Announce, At, GoTo, pools, fifo
<1>2. p \in Contexts /\ \A q \in Producers: q \in Contexts
    BY Constants
<1> QED BY <1>1, <1>2, TryingTypes DEF AloneTries, Stays

\* The messages on their way.
LEMMA WaitingStep ==
    ASSUME NEW p \in Producers, AloneTries(p)
    PROVE  Waiting' = IF pc'[p] = "idle" \/ pc'[p] \in Linked THEN Waiting \ {p} ELSE Waiting \cup {p}
<1>1. \A q \in Producers: q # p => pc'[q] = pc[q]
    BY DEF AloneTries
<1>2. \A q: q \in Waiting' <=> q \in Producers /\ pc'[q] # "idle" /\ pc'[q] \notin Linked
    BY DEF Waiting
<1>3. \A q: q \in Waiting <=> q \in Producers /\ pc[q] # "idle" /\ pc[q] \notin Linked
    BY DEF Waiting
<1>4. \A q: q # p => (q \in Waiting' <=> q \in Waiting)
    BY <1>1, <1>2, <1>3
<1>5. CASE pc'[p] = "idle" \/ pc'[p] \in Linked
    BY <1>2, <1>4, <1>5
<1>6. CASE ~(pc'[p] = "idle" \/ pc'[p] \in Linked)
    BY <1>2, <1>4, <1>6
<1> QED BY <1>5, <1>6

ManyListed(n, c) == Sound(n, c) => n \in Nat /\ Cardinality(Listed) = n

LEMMA ListedAre ==
    ASSUME NEW CONSTANT n, NEW CONSTANT c
    PROVE  ManyListed(n, c) /\ ManyListed(n, c)'
<1>1. ManyListed(n, c)
    BY CellsAreFew, TheList DEF ListIs, ManyListed
<1> QED BY <1>1, PTL

RoomIs == Room <=> Cardinality(Waiting) + Cardinality(Listed) + Cardinality(Reading) <= MaxUnread
FewWaiting ==
    /\ IsFiniteSet(Waiting) /\ Cardinality(Waiting) \in Nat
    /\ IsFiniteSet(Reading) /\ Cardinality(Reading) \in Nat /\ Cardinality(Reading) <= 1

LEMMA RoomsAre == RoomIs /\ RoomIs' /\ FewWaiting /\ FewWaiting'
<1>1. RoomIs /\ FewWaiting
    BY WaitingIsFinite DEF RoomIs, Room, FewWaiting
<1> QED BY <1>1, PTL

LEMMA NoMore ==
    ASSUME NEW w \in Nat, NEW v \in Nat, NEW n \in Nat, NEW r \in Nat,
           w + n + r <= MaxUnread, v <= w
    PROVE  v + n + r <= MaxUnread
BY QueueAssumption

LEMMA RoomKept ==
    ASSUME NEW CONSTANT n, NEW CONSTANT c, Sound(n, c), Sound(n, c)', Room,
           Waiting' \subseteq Waiting, Reading' = Reading
    PROVE  Room'
<1>1. n \in Nat /\ Cardinality(Listed) = n /\ Cardinality(Listed') = n
    BY ListedAre DEF ManyListed
<1>2. IsFiniteSet(Waiting) /\ Cardinality(Waiting) \in Nat /\ Cardinality(Reading) \in Nat
    BY RoomsAre DEF FewWaiting
<1>3. Waiting' \in SUBSET Waiting
    OBVIOUS
<1>4. Cardinality(Waiting') <= Cardinality(Waiting) /\ Cardinality(Waiting') \in Nat
    BY <1>2, <1>3, FS_Subset, FS_CardinalityType
<1>5. Cardinality(Waiting) + n + Cardinality(Reading) <= MaxUnread
    BY <1>1 DEF Room
<1>6. Cardinality(Waiting') + n + Cardinality(Reading) <= MaxUnread
    BY <1>1, <1>2, <1>4, <1>5, NoMore, Zenon
<1>7. Cardinality(Waiting') + Cardinality(Listed') + Cardinality(Reading') <= MaxUnread
    BY <1>1, <1>6, Zenon
<1> QED BY <1>7, RoomsAre, Zenon DEF RoomIs

LEMMA OneMoreThere ==
    ASSUME NEW v \in Nat, NEW n \in Nat, NEW r \in Nat, v + n + r < MaxUnread
    PROVE  v + (n + 1) + r <= MaxUnread
BY QueueAssumption

\* A message changes from its producer's hands to the list.
LEMMA RoomPut ==
    ASSUME NEW CONSTANT n, NEW CONSTANT c, NEW CONSTANT m, NEW CONSTANT d, m = n + 1,
           Sound(n, c), Sound(m, d)', Room,
           NEW CONSTANT p \in Waiting, Waiting' = Waiting \ {p}, Reading' = Reading
    PROVE  Room'
<1>1. Cardinality(Listed') = m
    BY ListedAre DEF ManyListed
<1>2. /\ n \in Nat /\ Cardinality(Waiting \ {p}) \in Nat
      /\ Cardinality(Waiting \ {p}) + n + Cardinality(Reading) < MaxUnread
    BY OthersAreFewer
<1>3. Cardinality(Reading) \in Nat
    BY RoomsAre DEF FewWaiting
<1>4. Cardinality(Waiting \ {p}) + (n + 1) + Cardinality(Reading) <= MaxUnread
    BY <1>2, <1>3, OneMoreThere, Zenon
<1>5. Cardinality(Waiting') + Cardinality(Listed') + Cardinality(Reading') <= MaxUnread
    BY <1>1, <1>4, Zenon
<1> QED BY <1>5, RoomsAre, Zenon DEF RoomIs

LEMMA OneMoreOnTheWay ==
    ASSUME NEW v \in Nat, NEW w \in Nat, NEW g \in Nat, NEW n \in Nat, NEW r \in Nat,
           v <= w + 1, w <= g, g + n + r < MaxUnread
    PROVE  v + n + r <= MaxUnread
BY QueueAssumption

LEMMA RoomReceives ==
    ASSUME Basics, NEW CONSTANT n, NEW CONSTANT c, Sound(n, c), Sound(n, c)',
           NEW CONSTANT p \in Producers, Receives(p), Waiting' = Waiting \cup {p},
           Reading' = Reading
    PROVE  Room'
<1> DEFINE G == {d \in Contexts: pc[d] # "idle"} \ {Main}
<1>1. n \in Nat /\ Cardinality(Listed) = n /\ Cardinality(Listed') = n
    BY ListedAre DEF ManyListed
<1>2. /\ IsFiniteSet(Waiting) /\ Cardinality(Waiting) \in Nat /\ Cardinality(Reading) \in Nat
      /\ Cardinality(Waiting') \in Nat
    BY RoomsAre DEF FewWaiting
<1>3. G \in SUBSET Producers /\ Waiting \in SUBSET G
    BY Constants DEF Waiting
<1>4. IsFiniteSet(G)
    BY <1>3, QueueAssumption, FS_Subset
<1>5. Cardinality(G) + n + Cardinality(Reading) < MaxUnread
    BY <1>1 DEF Receives
<1> HIDE DEF G
<1>6. Cardinality(Waiting) <= Cardinality(G) /\ Cardinality(G) \in Nat
    BY <1>3, <1>4, FS_Subset, FS_CardinalityType
<1>7. Cardinality(Waiting \cup {p}) <= Cardinality(Waiting) + 1
  <2>1. IsFiniteSet({p}) /\ Cardinality({p}) = 1
      BY FS_Singleton
  <2>2. Cardinality(Waiting \cup {p}) <= Cardinality(Waiting) + Cardinality({p})
      BY <1>2, <2>1, UnionIsNoLarger
  <2> QED BY <2>1, <2>2, Zenon
<1>8. Cardinality(Waiting') + n + Cardinality(Reading) <= MaxUnread
    BY <1>1, <1>2, <1>5, <1>6, <1>7, OneMoreOnTheWay, Zenon
<1>9. Cardinality(Waiting') + Cardinality(Listed') + Cardinality(Reading') <= MaxUnread
    BY <1>1, <1>8, Zenon
<1> QED BY <1>9, RoomsAre, Zenon DEF RoomIs

LEMMA RetryingStep ==
    ASSUME Retrying, NEW p \in Producers, AloneTries(p), first # NULL => first' # NULL,
           pc'[p] = "set first" => tries'[p] = 0,
           pc'[p] = "look" => tries'[p] = 0 \/ (tries'[p] = 1 /\ first' # NULL)
    PROVE  Retrying'
<1>1. ASSUME NEW q \in Producers
      PROVE  /\ pc'[q] = "set first" => tries'[q] = 0
             /\ pc'[q] = "look" => tries'[q] = 0 \/ (tries'[q] = 1 /\ first' # NULL)
  <2>1. CASE q = p
      BY <2>1
  <2>2. CASE q # p
      BY <2>2 DEF Retrying, AloneTries
  <2> QED BY <2>1, <2>2
<1> QED BY <1>1 DEF Retrying

\* A step that searches in no pool.
LEMMA SearchingOn ==
    ASSUME Basics, Searching, NEW p \in Producers, AloneTries(p), UNCHANGED <<idx, taken>>,
           pc'[p] \notin {"claim region", "claim queue", "pick queue"},
           pc'[p] = "pick region" => tries'[p] = 0,
           first # NULL => first' # NULL,
           pc'[p] = "set first" => tries'[p] = 0,
           pc'[p] = "look" => tries'[p] = 0 \/ (tries'[p] = 1 /\ first' # NULL)
    PROVE  Searching'
<1>1. Search("region")'
    BY SearchKept, TryingTypes DEF Searching, Claims, Picks
<1>2. Search("queue")'
    BY SearchKept, TryingTypes DEF Searching, Claims, Picks
<1>3. Retrying'
    BY RetryingStep DEF Searching
<1> QED BY <1>1, <1>2, <1>3 DEF Searching

LEMMA PickRegionSearches ==
    ASSUME Basics, Searching, NEW p \in Producers, PickRegion(p)
    PROVE  Searching' /\ AloneTries(p) /\ Stays /\ pc[p] = "pick region" /\ pc'[p] = "claim region"
<1>1. pc[p] = "pick region" /\ Pick(p, "region", "claim region")
    BY DEF PickRegion, At
<1>2. /\ AloneTries(p) /\ Stays /\ pc'[p] = "claim region"
      /\ tried'[p] = idx["region"] /\ tries'[p] = tries[p]
    BY <1>1, PickTries, TryingTypes
<1>3. Search("region")'
    BY <1>1, <1>2, SearchPicks, TryingTypes DEF Searching, Stays, Claims, Picks
<1>4. Search("queue")'
    BY <1>2, SearchKept, TryingTypes DEF Searching, Stays, Claims, Picks
<1>5. Retrying'
    BY <1>2, RetryingStep DEF Searching, Stays
<1> QED BY <1>1, <1>2, <1>3, <1>4, <1>5 DEF Searching

LEMMA PickRecordSearches ==
    ASSUME Basics, Searching, NEW p \in Producers, PickRecord(p)
    PROVE  Searching' /\ AloneTries(p) /\ Stays /\ pc[p] = "pick queue" /\ pc'[p] = "claim queue"
<1>1. pc[p] = "pick queue" /\ Pick(p, "queue", "claim queue")
    BY DEF PickRecord, At
<1>2. /\ AloneTries(p) /\ Stays /\ pc'[p] = "claim queue"
      /\ tried'[p] = idx["queue"] /\ tries'[p] = tries[p]
    BY <1>1, PickTries, TryingTypes
<1>3. Search("queue")'
    BY <1>1, <1>2, SearchPicks, TryingTypes DEF Searching, Stays, Claims, Picks
<1>4. Search("region")'
    BY <1>2, SearchKept, TryingTypes DEF Searching, Stays, Claims, Picks
<1>5. Retrying'
    BY <1>2, RetryingStep DEF Searching, Stays
<1> QED BY <1>1, <1>2, <1>3, <1>4, <1>5 DEF Searching

\* All segments have been tried in vain only if all are taken.
LEMMA TriedAll ==
    ASSUME Basics, NEW pool \in Pools, Search(pool), NEW p \in Producers, pc[p] = Claims(pool),
           tried[p] \in taken[pool], tries[p] + 1 = PoolSize
    PROVE  Segments \subseteq taken[pool]
<1>1. tries[p] \in Nat /\ tried[p] \in Segments
    BY SearchTypes
<1>2. tries[p] = PoolSize - 1
    BY <1>1, Sizes
<1>3. Full(taken[pool], tried[p], tries[p])
    BY DEF Search
<1>4. Full(taken[pool], tried[p], PoolSize - 1)
    BY <1>2, <1>3, Zenon
<1> QED BY <1>1, <1>4, FullOfAll

LEMMA ClaimRegionSearches ==
    ASSUME Capacity, Basics, Searching, Room, NEW CONSTANT n, NEW CONSTANT c, Sound(n, c),
           NEW p \in Producers, ClaimRegion(p)
    PROVE  /\ Searching' /\ AloneTries(p) /\ panic' = panic
           /\ pc[p] = "claim region" /\ pc'[p] \in {"pick region", "pick queue"}
<1>1. pc[p] = "claim region" /\ Claim(p, "region") /\ "region" \in Pools /\ "queue" \in Pools
    BY TryingTypes DEF ClaimRegion, At
<1>2. GoTo(p, IF Claimed(p, "region") THEN "pick queue" ELSE "pick region")
    BY DEF ClaimRegion
<1>3. Quiet(p)
    BY ClaimRegionStep
<1>4. /\ AloneTries(p) /\ first' = first
      /\ idx'["region"] = After(tried[p]) /\ taken'["region"] = taken["region"] \cup {tried[p]}
      /\ \A other \in Pools \ {"region"}: idx'[other] = idx[other] /\ taken'[other] = taken[other]
      /\ \/ pc'[p] = "pick queue" /\ tries'[p] = 0 /\ panic' = panic
         \/ /\ pc'[p] = "pick region" /\ tries'[p] = tries[p] + 1 /\ tried[p] \in taken["region"]
            /\ panic' # panic => tries[p] + 1 = PoolSize
  <2>1. Outcome(p, "region", "pick queue", "pick region")
      BY <1>1, <1>2, ClaimTries, Zenon
  <2> QED BY <2>1 DEF Outcome
<1>5. Search("region")'
  <2>1. Producers \subseteq Nat /\ \A q \in Producers: q > p => pc[q] = "idle"
      BY <1>3, Constants DEF Quiet
  <2>2. pc[p] = Claims("region") /\ pc'[p] # Claims("region")
        /\ (pc'[p] = Picks("region") => tries'[p] = tries[p] + 1)
      BY <1>1, <1>4 DEF Claims, Picks
  <2> QED BY <1>1, <1>4, <2>1, <2>2, SearchClaims DEF Searching
<1>6. Search("queue")'
  <2>1. idx'["queue"] = idx["queue"] /\ taken'["queue"] = taken["queue"]
      BY <1>1, <1>4
  <2>2. pc'[p] # Claims("queue") /\ (pc'[p] = Picks("queue") => tries'[p] = 0)
      BY <1>4 DEF Claims, Picks
  <2> QED BY <1>1, <1>4, <2>1, <2>2, SearchKept DEF Searching
<1>7. Retrying'
    BY <1>4, RetryingStep DEF Searching
<1>8. ~(tried[p] \in taken["region"] /\ tries[p] + 1 = PoolSize)
    BY <1>1, TriedAll, RegionLeft DEF Searching, Claims
<1> QED BY <1>1, <1>4, <1>5, <1>6, <1>7, <1>8, Zenon DEF Searching

LEMMA ClaimRecordSearches ==
    ASSUME Capacity, Basics, Searching, Room, NEW CONSTANT n, NEW CONSTANT c, Sound(n, c),
           NEW p \in Producers, ClaimRecord(p)
    PROVE  /\ Searching' /\ AloneTries(p) /\ panic' = panic
           /\ pc[p] = "claim queue" /\ pc'[p] \in {"pick queue", "look"}
<1>1. pc[p] = "claim queue" /\ Claim(p, "queue") /\ "region" \in Pools /\ "queue" \in Pools
    BY TryingTypes DEF ClaimRecord, At
<1>2. GoTo(p, IF Claimed(p, "queue") THEN "look" ELSE "pick queue")
    BY DEF ClaimRecord
<1>3. Quiet(p)
    BY ClaimRecordStep
<1>4. /\ AloneTries(p) /\ first' = first
      /\ idx'["queue"] = After(tried[p]) /\ taken'["queue"] = taken["queue"] \cup {tried[p]}
      /\ \A other \in Pools \ {"queue"}: idx'[other] = idx[other] /\ taken'[other] = taken[other]
      /\ \/ pc'[p] = "look" /\ tries'[p] = 0 /\ panic' = panic
         \/ /\ pc'[p] = "pick queue" /\ tries'[p] = tries[p] + 1 /\ tried[p] \in taken["queue"]
            /\ panic' # panic => tries[p] + 1 = PoolSize
  <2>1. Outcome(p, "queue", "look", "pick queue")
      BY <1>1, <1>2, ClaimTries, Zenon
  <2> QED BY <2>1 DEF Outcome
<1>5. Search("queue")'
  <2>1. Producers \subseteq Nat /\ \A q \in Producers: q > p => pc[q] = "idle"
      BY <1>3, Constants DEF Quiet
  <2>2. pc[p] = Claims("queue") /\ pc'[p] # Claims("queue")
        /\ (pc'[p] = Picks("queue") => tries'[p] = tries[p] + 1)
      BY <1>1, <1>4 DEF Claims, Picks
  <2> QED BY <1>1, <1>4, <2>1, <2>2, SearchClaims DEF Searching
<1>6. Search("region")'
  <2>1. idx'["region"] = idx["region"] /\ taken'["region"] = taken["region"]
      BY <1>1, <1>4
  <2>2. pc'[p] # Claims("region") /\ (pc'[p] = Picks("region") => tries'[p] = 0)
      BY <1>4 DEF Claims, Picks
  <2> QED BY <1>1, <1>4, <2>1, <2>2, SearchKept DEF Searching
<1>7. Retrying'
    BY <1>4, RetryingStep DEF Searching
<1>8. ~(tried[p] \in taken["queue"] /\ tries[p] + 1 = PoolSize)
    BY <1>1, TriedAll, QueueLeft DEF Searching, Claims
<1> QED BY <1>1, <1>4, <1>5, <1>6, <1>7, <1>8, Zenon DEF Searching

\* Every step leaves room.
LEMMA LeavesWaiting ==
    ASSUME NEW p \in Producers, AloneTries(p),
           pc'[p] = "idle" \/ pc'[p] \in Linked \/ (pc[p] # "idle" /\ pc[p] \notin Linked)
    PROVE  Waiting' \subseteq Waiting
<1>1. pc[p] # "idle" /\ pc[p] \notin Linked => p \in Waiting
    BY DEF Waiting
<1> QED BY <1>1, WaitingStep

LEMMA AllocatesRoomy ==
    ASSUME Capacity, Basics, Clear, Roomy, NEW CONSTANT n, NEW CONSTANT c, Sound(n, c),
           NEW CONSTANT p \in Producers, Receives(p) \/ Allocates(p)
    PROVE  Roomy'
<1>1. Room /\ Searching /\ panic = "no"
    BY DEF Roomy
<1>2. Sound(n, c)' /\ Reading' = Reading
    BY AllocatesCalm, ClaimRegionGives DEF Allocates, Calm, Given
<1>3. CASE Receives(p)
  <2>1. AloneTries(p) /\ Stays /\ pc[p] = "idle" /\ pc'[p] = "pick region" /\ tries'[p] = 0
      BY <1>3, ReceivesTries
  <2>2. Searching'
      BY <1>1, <2>1, SearchingOn DEF Stays
  <2>3. Waiting' = Waiting \cup {p}
      BY <2>1, WaitingStep DEF Linked
  <2>4. Room'
      BY <1>2, <1>3, <2>3, RoomReceives
  <2> QED BY <1>1, <2>1, <2>2, <2>4 DEF Roomy, Stays
<1>4. CASE Allocates(p)
  <2>1. /\ Searching' /\ AloneTries(p) /\ panic' = panic
        /\ pc[p] \in {"pick region", "claim region", "pick queue", "claim queue"}
    <3>1. CASE PickRegion(p)
        BY <1>1, <3>1, PickRegionSearches DEF Stays
    <3>2. CASE ClaimRegion(p)
        BY <1>1, <3>2, ClaimRegionSearches
    <3>3. CASE PickRecord(p)
        BY <1>1, <3>3, PickRecordSearches DEF Stays
    <3>4. CASE ClaimRecord(p)
        BY <1>1, <3>4, ClaimRecordSearches
    <3> QED BY <1>4, <3>1, <3>2, <3>3, <3>4 DEF Allocates
  <2>2. Waiting' \subseteq Waiting
      BY <2>1, LeavesWaiting DEF Linked
  <2>3. Room'
      BY <1>1, <1>2, <2>2, RoomKept
  <2> QED BY <1>1, <2>1, <2>3 DEF Roomy
<1> QED BY <1>3, <1>4

\* A compare-and-swap fails once, when another context has put the first message in.
LEMMA SetFirstRoomy ==
    ASSUME Capacity, Basics, Clear, Roomy, NEW CONSTANT n, NEW CONSTANT c, Sound(n, c),
           NEW CONSTANT p \in Producers, SetFirst(p)
    PROVE  Roomy'
<1>1. Room /\ Searching /\ panic = "no"
    BY DEF Roomy
<1>2. /\ AloneTries(p) /\ UNCHANGED <<idx, taken>> /\ pc[p] = "set first"
      /\ \/ pc'[p] = "set last" /\ first' = record[p] /\ panic' = panic
         \/ /\ first # NULL /\ first' = first /\ pc'[p] = "look" /\ tries'[p] = tries[p] + 1
            /\ panic' # panic => tries[p] + 1 = Retries
    BY SetFirstTries
<1>3. Alone(p)
    BY SetFirstStep
<1>4. CASE first = NULL
  <2>1. PICK r: r = record[p]
      OBVIOUS
  <2>2. Sound(n + 1, Grown(n, c, r))'
      BY <1>4, <2>1, SetFirstSound
  <2>3. p \in Waiting /\ Waiting' = Waiting \ {p}
      BY <1>2, <1>4, WaitingStep DEF Waiting, Linked
  <2>4. Room'
      BY <1>1, <1>3, <2>2, <2>3, ReadingKept, RoomPut, Constants
  <2>5. record[p] # NULL
    <3>1. pc[p] \in Recording
        BY <1>2 DEF Recording, Inserting
    <3> QED BY <3>1, Hands, Constants
  <2>6. Searching'
      BY <1>1, <1>2, <1>4, <2>5, SearchingOn
  <2> QED BY <1>1, <1>2, <1>4, <2>4, <2>6 DEF Roomy
<1>5. CASE first # NULL
  <2>1. Sound(n, c)' /\ Reading' = Reading
      BY <1>5, InsertsCalm DEF Calm
  <2>2. pc'[p] = "look" /\ first' = first
      BY <1>5, SetFirstStep
  <2>3. tries[p] = 0
      BY <1>1, <1>2 DEF Searching, Retrying
  <2>4. tries'[p] = 1
    <3>1. tries'[p] = tries[p] + 1
        BY <1>2, <2>2
    <3> QED BY <2>3, <3>1
  <2>5. panic' = panic
    <3>1. panic' # panic => tries[p] + 1 = Retries
        BY <1>2, <2>2
    <3>2. tries[p] + 1 # Retries
        BY <2>3, Sizes DEF Capacity
    <3> QED BY <3>1, <3>2, Zenon
  <2>6. Searching'
      BY <1>1, <1>2, <1>5, <2>2, <2>4, SearchingOn
  <2>7. Waiting' \subseteq Waiting
      BY <1>2, LeavesWaiting DEF Linked
  <2>8. Room'
      BY <1>1, <2>1, <2>7, RoomKept
  <2> QED BY <1>1, <2>5, <2>6, <2>8 DEF Roomy
<1> QED BY <1>4, <1>5

LEMMA AppendRecordRoomy ==
    ASSUME Basics, Clear, Roomy, NEW CONSTANT n, NEW CONSTANT c, Sound(n, c),
           NEW CONSTANT p \in Producers, AppendRecord(p)
    PROVE  Roomy'
<1>1. Room /\ Searching /\ panic = "no"
    BY DEF Roomy
<1>2. PICK r: r = record[p]
    OBVIOUS
<1>3. Sound(n + 1, Grown(n, c, r))' /\ pc'[p] = "advance"
    BY <1>2, AppendRecordSound
<1>4. Alone(p) /\ last # NULL /\ link[last] = NULL
    BY <1>3, AppendRecordStep
<1>5. AloneTries(p) /\ Stays /\ pc[p] = "append"
    BY <1>4, AppendRecordTries
<1>6. Searching'
    BY <1>1, <1>3, <1>5, SearchingOn DEF Stays
<1>7. p \in Waiting /\ Waiting' = Waiting \ {p}
    BY <1>3, <1>5, WaitingStep DEF Waiting, Linked
<1>8. Room'
    BY <1>1, <1>3, <1>4, <1>7, ReadingKept, RoomPut, Constants
<1> QED BY <1>1, <1>5, <1>6, <1>8 DEF Roomy, Stays

LEMMA InsertsRoomy ==
    ASSUME Capacity, Basics, Clear, Roomy, NEW CONSTANT n, NEW CONSTANT c, Sound(n, c),
           NEW CONSTANT p \in Producers, Inserts(p), ~raced'
    PROVE  Roomy'
<1>1. Room /\ Searching /\ panic = "no"
    BY DEF Roomy
<1>2. CASE Look(p)
  <2>1. /\ AloneTries(p) /\ Stays /\ pc[p] = "look" /\ tries'[p] = tries[p]
        /\ pc'[p] = IF first = NULL THEN "set first" ELSE "append"
      BY <1>2, LookTries
  <2>2. Sound(n, c)' /\ Reading' = Reading
      BY <1>2, LookCalm DEF Calm
  <2>3. pc'[p] = "set first" => tries'[p] = 0
      BY <1>1, <2>1 DEF Searching, Retrying
  <2>4. Searching'
      BY <1>1, <2>1, <2>3, SearchingOn DEF Stays
  <2>5. Waiting' \subseteq Waiting
      BY <2>1, LeavesWaiting DEF Linked
  <2>6. Room'
      BY <1>1, <2>2, <2>5, RoomKept
  <2> QED BY <1>1, <2>1, <2>4, <2>6 DEF Roomy, Stays
<1>3. CASE SetLast(p) \/ Advance(p) \/ Announce(p)
  <2>1. AloneTries(p) /\ Stays /\ pc'[p] \in {"advance", "announce", "idle"}
      BY <1>3, SetLastTries, AdvanceTries, AnnounceTries
  <2>2. Sound(n, c)' /\ Reading' = Reading
      BY <1>3, InsertsCalm DEF Calm
  <2>3. Searching'
      BY <1>1, <2>1, SearchingOn DEF Stays
  <2>4. Waiting' \subseteq Waiting
      BY <2>1, LeavesWaiting DEF Linked
  <2>5. Room'
      BY <1>1, <2>2, <2>4, RoomKept
  <2> QED BY <1>1, <2>1, <2>3, <2>5 DEF Roomy, Stays
<1> QED BY <1>2, <1>3, SetFirstRoomy, AppendRecordRoomy DEF Inserts

\* The main loop takes its turn when nobody is on the way.
LEMMA NoneMore ==
    ASSUME NEW w \in Nat, NEW n \in Nat, NEW r \in Nat, w + n + r <= MaxUnread,
           NEW m \in Nat, NEW s \in Nat, m + s <= n + r
    PROVE  0 + m + s <= MaxUnread
BY QueueAssumption

LEMMA OneTakenOut ==
    ASSUME NEW n \in Nat, NEW s \in Nat, s <= 1
    PROVE  (n - 1) + s <= n + 0
OBVIOUS

LEMMA OneFreed ==
    ASSUME NEW n \in Nat, NEW r \in Nat
    PROVE  n + 0 <= n + r /\ n + r <= n + r
OBVIOUS

LEMMA MainRoomy ==
    ASSUME Basics, Quiet(Main), Alone(Main), Roomy, panic' = panic,
           NEW CONSTANT n, NEW CONSTANT c, NEW CONSTANT m, NEW CONSTANT d, Sound(n, c), Sound(m,
           d)',
           m + Cardinality(Reading') <= n + Cardinality(Reading)
    PROVE  Roomy'
<1>1. \A q \in Producers: pc'[q] = "idle"
    BY OthersIdle
<1>2. Searching'
    BY <1>1 DEF Searching, Search, Retrying, Picks, Claims
<1>3. Waiting' = {}
    BY <1>1 DEF Waiting
<1>4. /\ n \in Nat /\ Cardinality(Listed) = n /\ m \in Nat /\ Cardinality(Listed') = m
      /\ Cardinality(Waiting) \in Nat /\ Cardinality(Reading) \in Nat /\ Cardinality(Reading') \in Nat
    BY ListedAre, RoomsAre DEF ManyListed, FewWaiting
<1>5. Cardinality(Waiting) + n + Cardinality(Reading) <= MaxUnread
    BY <1>4 DEF Roomy, Room
<1>6. 0 + m + Cardinality(Reading') <= MaxUnread
    BY <1>4, <1>5, NoneMore, Zenon
<1>7. Cardinality(Waiting') = 0
    BY <1>3, FS_EmptySet
<1>8. Cardinality(Waiting') + Cardinality(Listed') + Cardinality(Reading') <= MaxUnread
    BY <1>4, <1>6, <1>7, Zenon
<1>9. Room'
    BY <1>8, RoomsAre, Zenon DEF RoomIs
<1> QED BY <1>2, <1>9 DEF Roomy

LEMMA TakesRoomy ==
    ASSUME Basics, Roomy, NEW CONSTANT n, NEW CONSTANT c, Sound(n, c), ProcessQueue \/ Takes
    PROVE  Roomy'
<1>1. n \in Nat /\ Cardinality(Reading) \in Nat /\ Cardinality(Reading') \in Nat
    BY ListedAre, RoomsAre DEF ManyListed, FewWaiting
<1>2. CASE ProcessQueue \/ Take \/ ReadNext \/ FreeRecord
  <2>1. Quiet(Main) /\ Alone(Main)
      BY <1>2, ProcessQueueStep, TakeStep, ReadNextStep, FreeRecordStep
  <2>2. panic' = panic
      BY <1>2 DEF ProcessQueue, Take, ReadNext, FreeRecord
  <2>3. Sound(n, c)' /\ Reading' = Reading
      BY <1>2, MainCalm DEF Calm
  <2>4. n + Cardinality(Reading) <= n + Cardinality(Reading)
      BY <1>1, OneFreed, Zenon
  <2>5. n + Cardinality(Reading') <= n + Cardinality(Reading)
      BY <2>3, <2>4, Zenon
  <2> QED BY <2>1, <2>2, <2>3, <2>5, MainRoomy
<1>3. CASE Swing
  <2>1. Quiet(Main) /\ Alone(Main) /\ first = record[Main]
      BY <1>3, SwingStep
  <2>2. panic' = panic
      BY <1>3, <2>1 DEF Swing
  <2>3. Sound(n - 1, Shifted(n, c))' /\ Reading = {}
      BY <1>3, SwingSound
  <2>4. Cardinality(Reading) = 0
      BY <2>3, FS_EmptySet
  <2>5. Cardinality(Reading') <= 1
      BY RoomsAre DEF FewWaiting
  <2>6. (n - 1) + Cardinality(Reading') <= n + Cardinality(Reading)
      BY <1>1, <2>4, <2>5, OneTakenOut, Zenon
  <2> QED BY <2>1, <2>2, <2>3, <2>6, MainRoomy
<1>4. CASE FreeMemory
  <2>1. Quiet(Main) /\ Alone(Main)
      BY <1>4, FreeMemoryStep
  <2>2. panic' = panic
      BY <1>4 DEF FreeMemory
  <2>3. Sound(n, c)' /\ Reading' = {}
      BY <1>4, FreeMemorySound
  <2>4. Cardinality(Reading') = 0
      BY <2>3, FS_EmptySet
  <2>5. n + Cardinality(Reading') <= n + Cardinality(Reading)
      BY <1>1, <2>4, OneFreed, Zenon
  <2> QED BY <2>1, <2>2, <2>3, <2>5, MainRoomy
<1> QED BY <1>2, <1>3, <1>4 DEF Takes

LEMMA InitRoomy ==
    ASSUME Init
    PROVE  Roomy
<1>1. \A d \in Contexts: pc[d] = "idle" /\ message[d] = NULL
    BY DEF Init
<1>2. \A p \in Producers: pc[p] = "idle"
    BY <1>1, Constants
<1>3. Searching
    BY <1>2 DEF Searching, Search, Retrying, Picks, Claims
<1>4. Waiting = {} /\ Reading = {}
    BY <1>1, <1>2, Constants DEF Waiting, Reading
<1>5. PICK n, c: Sound(n, c)
    BY InitOrderly DEF Orderly
<1>6. n = 0
  <2>1. first = NULL
      BY DEF Init
  <2>2. n \in Nat /\ (n > 0 => first = c[1] /\ c[1] # NULL)
      BY <1>5, FirstIsCell
  <2> QED BY <2>1, <2>2
<1>7. Cardinality(Listed) = 0
    BY <1>5, <1>6, ListedAre DEF ManyListed
<1>8. Room
  <2>1. Cardinality(Waiting) = 0 /\ Cardinality(Reading) = 0
      BY <1>4, FS_EmptySet
  <2> QED BY <1>7, <2>1, QueueAssumption DEF Room
<1> QED BY <1>3, <1>8 DEF Init, Roomy

InvRoomy == Inv /\ (~raced => Roomy)

LEMMA InvRoomyStep ==
    ASSUME Capacity, InvRoomy, [Next]_vars
    PROVE  InvRoomy'
<1>1. Inv /\ (~raced => Roomy)
    BY DEF InvRoomy
<1>2. Inv' /\ (raced => raced')
    BY <1>1, InductiveStep
<1>3. ASSUME ~raced' PROVE Roomy'
  <2>1. Basics /\ Orderly /\ Roomy
      BY <1>1, <1>2, <1>3 DEF Inv
  <2>2. PICK n, c: Sound(n, c)
      BY <2>1 DEF Orderly
  <2>3. Clear
      BY <2>1 DEF Orderly
  <2>4. CASE Next
    <3>1. ASSUME NEW CONSTANT p \in Producers,
    Receives(p) \/ Allocates(p) \/ Inserts(p) PROVE Roomy'
        BY <1>3, <2>1, <2>2, <2>3, <3>1, AllocatesRoomy, InsertsRoomy
    <3> QED BY <2>1, <2>2, <2>4, <3>1, TakesRoomy DEF Next
  <2>5. CASE UNCHANGED vars
    <3>1. UNCHANGED <<pc, first, last, link, data, taken, idx, tried, tries, message, panic>>
        BY <2>5 DEF vars, pools, fifo, locals
    <3>2. Searching'
      <4>1. Search("region")' /\ Search("queue")'
          BY <2>1, <3>1 DEF Roomy, Searching, Search, Full
      <4>2. Retrying'
          BY <2>1, <3>1 DEF Roomy, Searching, Retrying
      <4> QED BY <4>1, <4>2 DEF Searching
    <3>3. Waiting' = Waiting /\ Reading' = Reading
        BY <3>1 DEF Waiting, Reading
    <3>4. Sound(n, c)'
        BY <2>2, <2>3, <2>5, StutterCalm DEF Calm
    <3>5. Room'
        BY <2>1, <2>2, <3>3, <3>4, RoomKept DEF Roomy
    <3> QED BY <2>1, <3>1, <3>2, <3>5 DEF Roomy
  <2> QED BY <2>4, <2>5
<1> QED BY <1>2, <1>3 DEF InvRoomy

\* With a segment for every message on its way and one for the UART, and one failed
\* compare-and-swap allowed, no k_panic of messenger_queue.c is reached before two
\* contexts meet in a Window.
THEOREM NoPanicWithoutRace ==
    ASSUME Capacity
    PROVE  Spec => []PanicsOnlyAfterRace
<1>1. Init => InvRoomy
    BY Inductive, InitRoomy DEF InvRoomy
<1>2. InvRoomy /\ [Next]_vars => InvRoomy'
    BY InvRoomyStep
<1>3. InvRoomy => PanicsOnlyAfterRace
    BY DEF InvRoomy, Roomy, PanicsOnlyAfterRace
<1> QED BY <1>1, <1>2, <1>3, PTL DEF Spec

=============================================================================
