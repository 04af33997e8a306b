------------------------- MODULE ModuleDriver_proofs -------------------------
(***************************************************************************)
(* Proofs about ModuleDriver, for any modules with any number of keys, any *)
(* part of the handshake that keeps what decides, any time of the alarm    *)
(* and any number of messages in flight.                                   *)
(***************************************************************************)
EXTENDS ModuleDriver, TLAPS

-----------------------------------------------------------------------------
(* The inductive invariant.                                                *)

\* The facts learnt since the handshake began.
Known(s) == {p \in Facts : s.prop \in Loop \/ Before(p, s.prop)}

\* What the left half has read since it is connected is of module m, though m
\* may have been pulled out in the meantime.  A stranded poller does not learn of
\* the module that is plugged in next.
ReadFrom(s, a, m) ==
    /\ a \in {m, None}
    /\ s.rx.good => s.rx.from = m /\ s.rx.keys \subseteq Keys(m)
    /\ \A p \in Known(s) : s.facts[p] = m \/ (p = "Checksum" /\ m \in Old)

\* Until it is connected the driver is at the beginning; keys are known only of
\* a module that went through the handshake.
PhaseOf(s) ==
    /\ s.prop \in Settings => s.step = "request"
    /\ ~s.connected /\ s.bus # "idle" => s.prop = "Sync"
    /\ ~s.connected \/ s.prop \notin Loop => s.keys = {}
    /\ s.keys \subseteq Keys(s.facts["KeyCount"])

OneModule ==
    /\ PhaseOf(slave)
    /\ slave.connected /\ "poller" \notin stuck => \E m \in Modules : ReadFrom(slave, attached, m)

\* The time of the last contact is kept while the loop reads.
RecentAt(s, a) ==
    s.connected /\ (s.prop \in Settings \/ (s.prop = "Keys" /\ s.step # "request")) => a <= 1

Recent == "poller" \in stuck \/ RecentAt(slave, age)

\* A stranded poller was about to send the keys of a module that it had read: no
\* transfer is under way, so that none ends.
Stranded ==
    "poller" \in stuck => slave.connected /\ slave.prop = "Keys" /\ slave.bus = "idle"

\* Nothing that is sent between i and j changes the number of keys so that k is
\* not among them.
Counted(f, k, i, j) ==
    \A l \in DOMAIN f : i < l /\ l < j /\ f[l].type = "ModuleState" => k \in Keys(f[l].count)

Releases(f, k, j) == f[j].type = "Keys" /\ k \notin f[j].keys

\* A key that is pressed after i messages is pressed for the left half, or one
\* of the messages that follow releases it.
Settled(f, keys, k, i) ==
    \/ k \in keys /\ Counted(f, k, i, Len(f) + 1)
    \/ \E j \in DOMAIN f : i < j /\ Releases(f, k, j) /\ Counted(f, k, i, j)

AllSettled(f, r, keys) ==
    /\ r.keys \subseteq Keys(r.count)
    /\ \A k \in r.keys : Settled(f, keys, k, 0)
    /\ \A i \in DOMAIN f : f[i].type = "Keys" => \A k \in f[i].keys : Settled(f, keys, k, i)

Released ==
    /\ ~linked => fly = <<>> /\ right.keys = {}
    /\ ~cut => AllSettled(fly, right, slave.keys)

Inv == TypeOK /\ OneModule /\ Recent /\ Stranded /\ Released

-----------------------------------------------------------------------------
(* The handshake.                                                          *)

\* The properties are asked for in one order, from Sync to Checksum.
LEMMA Order ==
    /\ \A p, q : Before(p, q) => p # q /\ ~Before(q, p)
    /\ \A p : ~Before(p, "Sync") /\ ~Before("Checksum", p)
    /\ Before("Protocol", "PointerCount") /\ Before("KeyCount", "PointerCount")
    /\ \A p \in ToSet(FullHandshake) :
          /\ p = "Checksum" \/ Before(p, "Checksum")
          /\ Before(p, "PointerCount") \/ p \in {"PointerCount", "GitTag", "GitRepo", "Checksum"}
<1>1. DOMAIN FullHandshake = 1..9
    BY DEF FullHandshake
<1>2. \A i, j \in 1..9 : FullHandshake[i] = FullHandshake[j] => i = j
    BY DEF FullHandshake
<1>3. /\ FullHandshake[1] = "Sync" /\ FullHandshake[2] = "Protocol" /\ FullHandshake[5] = "KeyCount"
      /\ FullHandshake[6] = "PointerCount" /\ FullHandshake[9] = "Checksum"
    BY DEF FullHandshake
<1>4. \A p, q : Before(p, q) => p # q /\ ~Before(q, p)
    BY <1>1, <1>2 DEF Before
<1>5. \A p : ~Before(p, "Sync") /\ ~Before("Checksum", p)
    BY <1>1, <1>2, <1>3 DEF Before
<1>6. Before("Protocol", "PointerCount") /\ Before("KeyCount", "PointerCount")
    BY <1>1, <1>3 DEF Before
<1>7. ASSUME NEW i \in 1..9
      PROVE  /\ FullHandshake[i] = "Checksum" \/ Before(FullHandshake[i], "Checksum")
             /\ \/ Before(FullHandshake[i], "PointerCount")
                \/ FullHandshake[i] \in {"PointerCount", "GitTag", "GitRepo", "Checksum"}
  <2>1. i = 9 \/ i < 9
      BY <1>7
  <2>2. i < 6 \/ i \in {6, 7, 8, 9}
      BY <1>7
  <2>3. FullHandshake[7] = "GitTag" /\ FullHandshake[8] = "GitRepo"
      BY DEF FullHandshake
  <2>4. i < 6 => Before(FullHandshake[i], "PointerCount")
      BY <1>1, <1>3 DEF Before
  <2>5. i < 9 => Before(FullHandshake[i], "Checksum")
      BY <1>1, <1>3 DEF Before
  <2> QED BY <1>3, <2>1, <2>2, <2>3, <2>4, <2>5
<1> QED BY <1>1, <1>4, <1>5, <1>6, <1>7 DEF ToSet

\* The handshake and the loop have no property in common.
LEMMA Phases ==
    /\ Decisive \subseteq ToSet(Handshake)
    /\ ToSet(Handshake) \cap Loop = {}
    /\ Settings \subseteq Loop /\ "Keys" \in Loop /\ "Keys" \notin Settings
    /\ Facts \subseteq ToSet(Handshake) /\ Facts \subseteq ToSet(FullHandshake)
    /\ {"Protocol", "Id", "KeyCount", "PointerCount", "Checksum"} \subseteq Facts
<1>1. Handshake \in Seq(ToSet(FullHandshake)) /\ Decisive \subseteq ToSet(Handshake)
    BY ModuleAssumption
<1>2. ToSet(FullHandshake) = {"Sync", "Protocol", "Firmware", "Id", "KeyCount", "PointerCount",
                              "GitTag", "GitRepo", "Checksum"}
  <2>1. DOMAIN FullHandshake = 1..9
      BY DEF FullHandshake
  <2> QED BY <2>1 DEF FullHandshake, ToSet
<1>3. ToSet(Handshake) \subseteq ToSet(FullHandshake)
    BY <1>1 DEF ToSet
<1> QED BY <1>1, <1>2, <1>3 DEF Loop, Settings, Facts, Decisive

\* After a property that is not the last, the next one follows: all before it
\* have been asked for then.
LEMMA Advances ==
    ASSUME NEW q \in ToSet(Handshake), q # "Checksum",
           NEW i, i = CHOOSE j \in DOMAIN Handshake : Handshake[j] = q
    PROVE  /\ Handshake[i + 1] \in ToSet(Handshake)
           /\ \A p \in ToSet(Handshake) : Before(p, Handshake[i + 1]) => p = q \/ Before(p, q)
<1>1. Handshake \in Seq(ToSet(FullHandshake))
    BY ModuleAssumption
<1>2. \A k, j \in DOMAIN Handshake : k < j => Before(Handshake[k], Handshake[j])
    BY ModuleAssumption
<1>3. DOMAIN Handshake = 1..Len(Handshake) /\ Len(Handshake) \in Nat
    BY <1>1
<1>4. i \in DOMAIN Handshake /\ Handshake[i] = q
    BY DEF ToSet
<1>5. PICK c \in DOMAIN Handshake : Handshake[c] = "Checksum"
    BY Phases DEF Decisive, ToSet
<1>6. i < c
    BY <1>2, <1>3, <1>4, <1>5, Order
<1>7. i + 1 \in DOMAIN Handshake
    BY <1>3, <1>4, <1>5, <1>6
<1>8. ASSUME NEW p \in ToSet(Handshake), Before(p, Handshake[i + 1])
      PROVE  p = q \/ Before(p, q)
  <2>1. PICK j \in DOMAIN Handshake : Handshake[j] = p
      BY DEF ToSet
  <2>2. ~(i + 1 < j) /\ j # i + 1
      BY <1>2, <1>7, <1>8, <2>1, Order
  <2>3. j = i \/ j < i
      BY <1>3, <1>4, <2>1, <2>2
  <2> QED BY <1>2, <1>4, <2>1, <2>3
<1> QED BY <1>7, <1>8 DEF ToSet

-----------------------------------------------------------------------------
(* The phases of the driver.                                               *)

Driver == [connected : BOOLEAN, prop : ToSet(Handshake) \cup Loop,
           step : {"request", "receive", "process"}, bus : {"idle", "write", "read"},
           rx : Answers, unset : SUBSET Settings, facts : [Facts -> Attachable],
           id : Attachable, conn : Attachable, keys : SUBSET AllKeys, still : BOOLEAN]

\* An answer is of a module.
LEMMA GoodAnswers ==
    /\ \A a \in Answers : a.good => a.from \in Modules /\ a.keys \subseteq AllKeys
    /\ NoAnswer \in Answers /\ ~NoAnswer.good
<1>1. ASSUME NEW a \in [good : {TRUE}, from : Modules, keys : SUBSET AllKeys, moves : BOOLEAN]
      PROVE  a.from \in Modules /\ a.keys \subseteq AllKeys
    OBVIOUS
<1>2. ~NoAnswer.good
    BY DEF NoAnswer
<1> QED BY <1>1, <1>2 DEF Answers

\* The driver s has its turn.
Ready(s) ==
    /\ s \in Driver /\ PhaseOf(s) /\ s.bus = "idle"
    /\ ~s.connected => s.prop = "Sync" /\ s.step = "request"
    /\ s.connected => \E m \in Modules : ReadFrom(s, attached, m)

\* What the turn of s leaves: t is of the module that s is of.
After(s, t) ==
    /\ t \in Driver /\ PhaseOf(t)
    /\ t.connected = s.connected
    /\ \A m \in Modules : s.connected /\ ReadFrom(s, attached, m) => ReadFrom(t, attached, m)

\* A driver that is not connected begins anew.
LEMMA BeginsAnew ==
    ASSUME slave \in Driver, OneModule, slave.bus = "idle", "poller" \notin stuck
    PROVE  LET s == IF slave.connected THEN slave ELSE Restarted(slave)
           IN Ready(s) /\ s.keys = slave.keys /\ s.connected = slave.connected
<1>1. CASE slave.connected
    BY <1>1 DEF OneModule, Ready
<1>2. CASE ~slave.connected
  <2> DEFINE s == Restarted(slave)
  <2>1. s = [slave EXCEPT !.unset = Settings, !.prop = "Sync", !.step = "request"]
      BY DEF Restarted, At, Driver
  <2>2. s \in Driver /\ s.keys = slave.keys /\ ~s.connected /\ s.bus = "idle" /\ s.facts = slave.facts
      BY <1>2, <2>1, Phases DEF Driver, Decisive
  <2>3. "Sync" \notin Settings
      BY DEF Settings
  <2>4. PhaseOf(s)
      BY <1>2, <2>1, <2>2, <2>3 DEF OneModule, PhaseOf, Driver
  <2> QED BY <1>2, <2>1, <2>2, <2>4 DEF Ready, Driver
<1> QED BY <1>1, <1>2

\* A request.
LEMMA RequestKeeps ==
    ASSUME NEW s, Ready(s), age \in 0..Timeout, Request(s)
    PROVE  After(s, slave') /\ slave'.keys = s.keys /\ RecentAt(slave', age') /\ age' \in 0..Timeout
<1>1. slave' = [s EXCEPT !.step = "receive", !.bus = "write"]
    BY DEF Request, At, Ready, Driver
<1>2. slave' \in Driver /\ slave'.keys = s.keys
    BY <1>1 DEF Ready, Driver
<1>3. PhaseOf(slave')
    BY <1>1, <1>2 DEF Ready, PhaseOf, Driver, Request
<1>4. After(s, slave')
    BY <1>1, <1>2, <1>3 DEF After, ReadFrom, Known, Ready, Driver
<1>5. Timeout \in Nat
    BY ModuleAssumption
<1>6. slave'.prop = s.prop /\ s.prop \notin Settings
    BY <1>1 DEF Request, Ready, Driver
<1>7. age' = IF s.prop = "Keys" THEN 0 ELSE age
    BY DEF Request
<1>8. RecentAt(slave', age') /\ age' \in 0..Timeout
    BY <1>5, <1>6, <1>7 DEF RecentAt
<1> QED BY <1>2, <1>4, <1>8

\* The driver reads the answer.
LEMMA ReceiveKeeps ==
    ASSUME NEW s, Ready(s), RecentAt(s, age), Receive(s)
    PROVE  After(s, slave') /\ slave'.keys = s.keys /\ RecentAt(slave', age')
<1>1. slave' = [s EXCEPT !.step = "process", !.bus = "read"]
    BY DEF Receive, At, Ready, Driver
<1>2. slave' \in Driver /\ slave'.keys = s.keys /\ s.connected
    BY <1>1 DEF Ready, Driver, Receive
<1>3. PhaseOf(slave')
    BY <1>1, <1>2 DEF Ready, PhaseOf, Driver, Receive
<1>4. After(s, slave')
    BY <1>1, <1>2, <1>3 DEF After, ReadFrom, Known, Ready, Driver
<1>5. RecentAt(slave', age')
    BY <1>1 DEF RecentAt, Receive, Ready, Driver
<1> QED BY <1>2, <1>4, <1>5

\* A setting is sent.
LEMMA SetKeeps ==
    ASSUME NEW s, Ready(s), RecentAt(s, age), Set(s)
    PROVE  After(s, slave') /\ slave'.keys = s.keys /\ RecentAt(slave', age')
<1> DEFINE next == IF s.prop = "TestLed" THEN "Brightness" ELSE "Keys"
           bus == IF s.prop \in s.unset THEN "write" ELSE "idle"
<1>1. slave' = [s EXCEPT !.prop = next, !.step = "request", !.bus = bus, !.unset = @ \ {s.prop}]
    BY DEF Set, At, Ready, Driver
<1>2. next \in Loop /\ s.prop \in Loop /\ s.connected
    BY Phases DEF Ready, Set, Loop, Settings
<1>3. slave' \in Driver /\ slave'.keys = s.keys
    BY <1>1, <1>2 DEF Ready, Driver
<1>4. PhaseOf(slave')
    BY <1>1, <1>2, <1>3 DEF Ready, PhaseOf, Driver, Set
<1>5. After(s, slave')
    BY <1>1, <1>2, <1>3, <1>4 DEF After, ReadFrom, Known, Ready, Driver
<1>6. RecentAt(slave', age')
    BY <1>1 DEF RecentAt, Set, Ready, Driver
<1> QED BY <1>3, <1>5, <1>6

\* An answer of module m is learnt, and the handshake goes on.
LEMMA LearnKeeps ==
    ASSUME NEW s, Ready(s), s.connected, s.rx.good, s.prop \in ToSet(Handshake)
    PROVE  LET t == At(Learn(s), Following(s), "request")
           IN /\ t \in Driver /\ t.keys = s.keys /\ t.connected /\ t.bus = s.bus
              /\ t.step = "request" /\ t.conn \in Attachable
              /\ t.prop \in ToSet(Handshake) \cup {"Keys"}
              /\ \A m \in Modules : ReadFrom(s, attached, m) => ReadFrom(t, attached, m)
<1> DEFINE m == s.rx.from
           old == s.prop = "PointerCount" /\ s.facts["Protocol"] \in Old
           learnt == {p \in Facts : p = s.prop \/ (p \in {"GitTag", "GitRepo"} /\ old)}
           facts == [p \in Facts |-> IF p \in learnt THEN m ELSE s.facts[p]]
           t == At(Learn(s), Following(s), "request")
           ids == s.prop = "Id"
<1>1. s \in Driver /\ m \in Modules /\ m \in Attachable
  <2>1. s \in Driver /\ s.rx \in Answers
      BY DEF Ready, Driver
  <2> QED BY <2>1, GoodAnswers DEF Attachable
<1>2. Learn(s) = [s EXCEPT !.facts = facts, !.id = IF ids THEN m ELSE s.id, !.conn = IF ids THEN m ELSE s.conn]
  <2>1. [s EXCEPT !.facts = [p \in Facts |->
                     IF p = s.prop \/ (p \in {"GitTag", "GitRepo"} /\ s.prop = "PointerCount"
                                       /\ s.facts["Protocol"] \in Old)
                       THEN m ELSE @[p]]] = [s EXCEPT !.facts = facts]
      BY <1>1 DEF Driver
  <2> QED BY <1>1, <2>1 DEF Learn, Driver
<1>3. t = [s EXCEPT !.facts = facts, !.id = IF ids THEN m ELSE s.id, !.conn = IF ids THEN m ELSE s.conn,
                    !.prop = Following(s), !.step = "request"]
    BY <1>1, <1>2 DEF At, Driver
<1>4. /\ Following(s) \in ToSet(Handshake) \cup {"Keys"}
      /\ \A p \in Facts : p \in learnt \/ p = "Checksum" \/ p \in Known(s)
            \/ (Following(s) # "Keys" /\ ~Before(p, Following(s)))
      /\ Following(s) = "Keys" => s.prop = "Checksum" \/ old
  <2>1. CASE old
    <3>1. Following(s) = "Keys"
        BY <2>1 DEF Following
    <3>2. \A p \in Facts : p \in learnt \/ p = "Checksum" \/ p \in Known(s)
        BY <2>1, Phases, Order DEF Known
    <3> QED BY <2>1, <3>1, <3>2
  <2>2. CASE ~old /\ s.prop = "Checksum"
    <3>1. Following(s) = "Keys"
        BY <2>2 DEF Following
    <3>2. \A p \in Facts : p = "Checksum" \/ p \in Known(s)
        BY <2>2, Phases, Order DEF Known
    <3> QED BY <2>2, <3>1, <3>2
  <2>3. CASE ~old /\ s.prop # "Checksum"
    <3> DEFINE i == CHOOSE j \in DOMAIN Handshake : Handshake[j] = s.prop
    <3>1. Following(s) = Handshake[i + 1]
        BY <2>3 DEF Following
    <3>2. /\ Handshake[i + 1] \in ToSet(Handshake)
          /\ \A p \in ToSet(Handshake) : Before(p, Handshake[i + 1]) => p = s.prop \/ Before(p, s.prop)
        BY <2>3, Advances
    <3>3. Following(s) # "Keys"
        BY <3>1, <3>2, Phases
    <3>4. \A p \in Facts : p = s.prop => p \in learnt
        OBVIOUS
    <3> QED BY <3>1, <3>2, <3>3, <3>4, Phases DEF Known
  <2> QED BY <2>1, <2>2, <2>3
<1>5. /\ t \in Driver /\ t.keys = s.keys /\ t.connected /\ t.bus = s.bus
      /\ t.step = "request" /\ t.conn \in Attachable /\ t.rx = s.rx
      /\ t.facts = facts /\ t.prop = Following(s)
  <2>1. facts \in [Facts -> Attachable]
      BY <1>1 DEF Driver
  <2>2. Following(s) \in ToSet(Handshake) \cup Loop
      BY <1>4, Phases
  <2> HIDE DEF t, facts
  <2> QED BY <1>1, <1>3, <2>1, <2>2 DEF Driver
<1>6. ASSUME NEW n \in Modules, ReadFrom(s, attached, n)
      PROVE  ReadFrom(t, attached, n)
  <2>1. m = n /\ \A p \in Known(s) : s.facts[p] = n \/ (p = "Checksum" /\ n \in Old)
      BY <1>6 DEF ReadFrom
  <2>2. "Keys" \in Loop
      BY Phases
  <2>3. old => n \in Old
    <3>1. "Protocol" \in Known(s) \/ s.prop # "PointerCount"
        BY Order, Phases DEF Known
    <3> QED BY <2>1, <3>1
  <2>4. ASSUME NEW p \in Known(t)
        PROVE  facts[p] = n \/ (p = "Checksum" /\ n \in Old)
    <3>1. p \in Facts /\ (Following(s) = "Keys" \/ Before(p, Following(s)))
        BY <1>4, <1>5, <2>4, Phases DEF Known
    <3>2. p \in learnt \/ p = "Checksum" \/ p \in Known(s)
        BY <1>4, <3>1
    <3>3. CASE p \in learnt
        BY <2>1, <3>1, <3>3
    <3>4. CASE p \notin learnt /\ p \in Known(s)
        BY <2>1, <3>1, <3>4
    <3>5. CASE p \notin learnt /\ p = "Checksum"
      <4>1. Following(s) = "Keys"
          BY <3>1, <3>5, Order
      <4>2. s.prop # "Checksum"
          BY <3>1, <3>5
      <4> QED BY <1>4, <2>3, <3>5, <4>1, <4>2
    <3> QED BY <3>2, <3>3, <3>4, <3>5
  <2> HIDE DEF t, facts
  <2> QED BY <1>5, <1>6, <2>4 DEF ReadFrom
<1> QED BY <1>4, <1>5, <1>6

\* The answer of the handshake is used up.
LEMMA ProcessFactKeeps ==
    ASSUME NEW s, Ready(s), RecentAt(s, age), ProcessFact(s)
    PROVE  After(s, slave') /\ slave'.keys = s.keys /\ RecentAt(slave', age')
<1>1. s \in Driver /\ PhaseOf(s) /\ s.bus = "idle" /\ s.connected
    BY DEF Ready, ProcessFact
<1>2. s.prop \in ToSet(Handshake) /\ s.keys = {}
    BY <1>1 DEF PhaseOf, ProcessFact, Driver, Loop
<1>3. age' = age
    BY DEF ProcessFact
<1>4. CASE s.rx.good
  <2> DEFINE t == At(Learn(s), Following(s), "request")
  <2>1. /\ t \in Driver /\ t.keys = s.keys /\ t.connected /\ t.bus = s.bus
        /\ t.step = "request" /\ t.prop \in ToSet(Handshake) \cup {"Keys"}
        /\ \A m \in Modules : ReadFrom(s, attached, m) => ReadFrom(t, attached, m)
      BY <1>1, <1>2, <1>4, LearnKeeps
  <2>2. slave' = [t EXCEPT !.rx = NoAnswer]
      BY <1>4 DEF ProcessFact
  <2> HIDE DEF t
  <2>3. /\ slave' \in Driver /\ slave'.keys = {} /\ slave'.connected /\ slave'.bus = "idle"
        /\ slave'.step = "request" /\ slave'.prop = t.prop /\ slave'.facts = t.facts
        /\ ~slave'.rx.good
      BY <1>1, <1>2, <2>1, <2>2, GoodAnswers DEF Driver
  <2>4. PhaseOf(slave')
      BY <2>3 DEF PhaseOf
  <2>5. \A m \in Modules : ReadFrom(s, attached, m) => ReadFrom(slave', attached, m)
      BY <2>1, <2>3 DEF ReadFrom, Known
  <2>6. RecentAt(slave', age')
      BY <2>1, <2>3, Phases DEF RecentAt
  <2> QED BY <1>1, <1>2, <2>3, <2>4, <2>5, <2>6 DEF After
<1>5. CASE ~s.rx.good
  <2>1. slave' = [s EXCEPT !.step = "request", !.rx = NoAnswer]
      BY <1>1, <1>5 DEF ProcessFact, At, Driver
  <2>2. /\ slave' \in Driver /\ slave'.keys = {} /\ slave'.connected /\ slave'.bus = "idle"
        /\ slave'.step = "request" /\ slave'.prop = s.prop /\ slave'.facts = s.facts
        /\ ~slave'.rx.good
      BY <1>1, <1>2, <2>1, GoodAnswers DEF Driver
  <2>3. PhaseOf(slave')
      BY <2>2 DEF PhaseOf
  <2>4. \A m \in Modules : ReadFrom(s, attached, m) => ReadFrom(slave', attached, m)
      BY <2>2 DEF ReadFrom, Known
  <2>5. RecentAt(slave', age')
      BY <1>2, <2>2, Phases DEF RecentAt
  <2> QED BY <1>1, <1>2, <2>2, <2>3, <2>4, <2>5 DEF After
<1> QED BY <1>4, <1>5

\* The keys that were read become the keys of the module; when they are others
\* than before, they are sent.
LEMMA ProcessKeystatesKeeps ==
    ASSUME NEW s, Ready(s), RecentAt(s, age), ProcessKeystates(s)
    PROVE  /\ After(s, slave') /\ RecentAt(slave', age')
           /\ \/ slave'.keys = s.keys /\ fly' = fly
              \/ /\ slave'.keys = s.rx.keys /\ s.rx.keys \subseteq AllKeys
                 /\ s.rx.keys \subseteq Keys(slave'.facts["KeyCount"])
                 /\ CanSend /\ SendNow([type |-> "Keys", keys |-> s.rx.keys])
<1> DEFINE K == Keys(s.facts["KeyCount"])
<1>1. s \in Driver /\ PhaseOf(s) /\ s.bus = "idle" /\ s.connected /\ s.prop = "Keys"
    BY DEF Ready, ProcessKeystates
<1>2. s.keys \subseteq K
    BY <1>1 DEF PhaseOf
<1>3. s.rx.good => s.rx.keys \subseteq K /\ s.rx.keys \subseteq AllKeys
  <2>1. PICK m \in Modules : ReadFrom(s, attached, m)
      BY <1>1 DEF Ready
  <2>2. s.facts["KeyCount"] = m
      BY <1>1, <2>1, Phases DEF ReadFrom, Known
  <2>3. s.rx \in Answers
      BY <1>1 DEF Driver
  <2> QED BY <2>1, <2>2, <2>3, GoodAnswers DEF ReadFrom
<1>4. PICK keys, still : /\ keys = IF s.rx.good THEN s.rx.keys ELSE s.keys
                         /\ still \in BOOLEAN
                         /\ slave' = [s EXCEPT !.keys = keys, !.still = still, !.prop = "TestLed",
                                               !.step = "request", !.rx = NoAnswer]
  <2>1. CASE s.rx.good
    <3>1. (s.keys \ K) \cup (s.rx.keys \cap K) = s.rx.keys
        BY <1>2, <1>3, <2>1
    <3>2. s.rx.moves \in BOOLEAN
      <4>1. s.rx \in Answers
          BY <1>1 DEF Driver
      <4> QED BY <2>1, <4>1, GoodAnswers DEF Answers
    <3>3. \E still \in BOOLEAN : Scanned(s) = [s EXCEPT !.keys = s.rx.keys, !.still = still]
      <4>1. (IF forwards(s) THEN ~s.rx.moves ELSE s.still) \in BOOLEAN
          BY <1>1, <3>2 DEF Driver
      <4>2. Scanned(s) = [s EXCEPT !.keys = (s.keys \ K) \cup (s.rx.keys \cap K),
                                   !.still = IF forwards(s) THEN ~s.rx.moves ELSE s.still]
          BY <1>1 DEF Scanned, Driver
      <4> QED BY <3>1, <4>1, <4>2
    <3>4. slave' = [At(Scanned(s), "TestLed", "request") EXCEPT !.rx = NoAnswer]
        BY <2>1 DEF ProcessKeystates
    <3>5. PICK still \in BOOLEAN : Scanned(s) = [s EXCEPT !.keys = s.rx.keys, !.still = still]
        BY <3>3
    <3>6. slave' = [s EXCEPT !.keys = s.rx.keys, !.still = still, !.prop = "TestLed",
                             !.step = "request", !.rx = NoAnswer]
        BY <1>1, <3>4, <3>5 DEF At, Driver
    <3> QED BY <2>1, <3>6
  <2>2. CASE ~s.rx.good
    <3>1. slave' = [At(s, "TestLed", "request") EXCEPT !.rx = NoAnswer]
        BY <2>2 DEF ProcessKeystates
    <3>2. slave' = [s EXCEPT !.keys = s.keys, !.still = s.still, !.prop = "TestLed",
                             !.step = "request", !.rx = NoAnswer]
        BY <1>1, <3>1 DEF At, Driver
    <3> QED BY <1>1, <2>2, <3>2 DEF Driver
  <2> QED BY <2>1, <2>2
<1>5. "TestLed" \in Loop /\ "TestLed" \in Settings
    BY DEF Loop, Settings
<1>6. keys \subseteq AllKeys /\ keys \subseteq K
    BY <1>1, <1>2, <1>3, <1>4 DEF Driver
<1>7. /\ slave' \in Driver /\ slave'.keys = keys /\ slave'.connected /\ slave'.bus = "idle"
      /\ slave'.step = "request" /\ slave'.prop = "TestLed" /\ slave'.facts = s.facts
      /\ ~slave'.rx.good
    BY <1>1, <1>4, <1>5, <1>6, GoodAnswers DEF Driver
<1>8. PhaseOf(slave')
    BY <1>5, <1>6, <1>7 DEF PhaseOf
<1>9. \A m \in Modules : ReadFrom(s, attached, m) => ReadFrom(slave', attached, m)
    BY <1>1, <1>5, <1>7, Phases DEF ReadFrom, Known
<1>10. RecentAt(slave', age')
    BY <1>1, Phases DEF RecentAt, ProcessKeystates
<1>11. \/ slave'.keys = s.keys /\ fly' = fly
       \/ /\ slave'.keys = s.rx.keys /\ s.rx.keys \subseteq AllKeys
          /\ s.rx.keys \subseteq Keys(slave'.facts["KeyCount"])
          /\ CanSend /\ SendNow([type |-> "Keys", keys |-> s.rx.keys])
  <2>1. CASE ~s.rx.good
      BY <1>4, <1>7, <2>1 DEF ProcessKeystates
  <2>2. CASE s.rx.good /\ forwards(s)
      BY <1>3, <1>4, <1>7, <2>2 DEF ProcessKeystates, forwardKeystates
  <2>3. CASE s.rx.good /\ ~forwards(s)
    <3>1. s.keys \cap K = s.rx.keys \cap K
        BY <2>3 DEF forwards
    <3>2. s.keys = s.rx.keys
        BY <1>2, <1>3, <2>3, <3>1
    <3> QED BY <1>4, <1>7, <2>3, <3>2 DEF ProcessKeystates, forwardKeystates
  <2> QED BY <2>1, <2>2, <2>3
<1> QED BY <1>1, <1>7, <1>8, <1>9, <1>10, <1>11 DEF After

-----------------------------------------------------------------------------
(* The messages.                                                           *)

KeysMessages == [type : {"Keys"}, keys : SUBSET AllKeys]
StateMessages == [type : {"ModuleState"}, id : Attachable, count : Attachable]

\* Every message has a type, and the fields that come with it.
LEMMA MessageTypes ==
    ASSUME NEW x \in Messages
    PROVE  /\ x.type \in {"Keys", "ModuleState", "Gone"}
           /\ x.type = "Keys" => x \in KeysMessages
           /\ x.type = "ModuleState" => x \in StateMessages
<1> DEFINE G == [type : {"Gone"}]
<1>1. x \in KeysMessages \/ x \in StateMessages \/ x \in G
    BY DEF Messages, KeysMessages, StateMessages
<1>2. x \in KeysMessages => x.type = "Keys"
    BY DEF KeysMessages
<1>3. x \in StateMessages => x.type = "ModuleState"
    BY DEF StateMessages
<1>4. x \in G => x.type = "Gone"
    OBVIOUS
<1> QED BY <1>1, <1>2, <1>3, <1>4

\* Nothing changes for what is settled when a message other than one of keys
\* follows, if it does not change the keys that count away from what is held.
LEMMA AppendKeepsSettled ==
    ASSUME NEW f \in Seq(Messages), NEW x \in Messages, NEW keys, NEW k, NEW i \in 0..Len(f),
           Settled(f, keys, k, i),
           x.type = "ModuleState" /\ k \in keys => k \in Keys(x.count)
    PROVE  Settled(Append(f, x), keys, k, i)
<1> DEFINE g == Append(f, x)
<1>1. Len(g) = Len(f) + 1 /\ DOMAIN g = 1..Len(g) /\ DOMAIN f = 1..Len(f) /\ Len(f) \in Nat
    OBVIOUS
<1>2. \A l \in DOMAIN f : l \in DOMAIN g /\ g[l] = f[l]
    BY <1>1
<1>3. g[Len(f) + 1] = x
    OBVIOUS
<1> SUFFICES Settled(g, keys, k, i)
    OBVIOUS
<1> HIDE DEF g
<1>4. CASE k \in keys /\ Counted(f, k, i, Len(f) + 1)
  <2>1. ASSUME NEW l \in DOMAIN g, i < l, g[l].type = "ModuleState"
        PROVE  k \in Keys(g[l].count)
    <3>1. CASE l \in DOMAIN f
        BY <1>1, <1>2, <1>4, <2>1, <3>1 DEF Counted
    <3>2. CASE l = Len(f) + 1
        BY <1>3, <1>4, <2>1, <3>2
    <3> QED BY <1>1, <3>1, <3>2
  <2> QED BY <1>4, <2>1 DEF Settled, Counted
<1>5. CASE \E j \in DOMAIN f : i < j /\ Releases(f, k, j) /\ Counted(f, k, i, j)
  <2>1. PICK j \in DOMAIN f : i < j /\ Releases(f, k, j) /\ Counted(f, k, i, j)
      BY <1>5
  <2>2. j \in DOMAIN g /\ Releases(g, k, j)
      BY <1>2, <2>1 DEF Releases
  <2>3. Counted(g, k, i, j)
      BY <1>1, <1>2, <2>1 DEF Counted
  <2> QED BY <2>1, <2>2, <2>3 DEF Settled
<1> QED BY <1>4, <1>5 DEF Settled

\* A message of the keys that are held from now on settles every key.
LEMMA KeysKeepSettled ==
    ASSUME NEW f \in Seq(Messages), NEW x \in KeysMessages, NEW keys, NEW k, NEW i \in 0..Len(f),
           Settled(f, keys, k, i)
    PROVE  Settled(Append(f, x), x.keys, k, i)
<1> DEFINE g == Append(f, x)
<1>1. Len(g) = Len(f) + 1 /\ DOMAIN g = 1..Len(g) /\ DOMAIN f = 1..Len(f) /\ Len(f) \in Nat
    OBVIOUS
<1>2. \A l \in DOMAIN f : l \in DOMAIN g /\ g[l] = f[l]
    BY <1>1
<1>3. g[Len(f) + 1] = x /\ x.type = "Keys"
    BY DEF KeysMessages
<1> SUFFICES Settled(g, x.keys, k, i)
    OBVIOUS
<1> HIDE DEF g
<1>4. CASE k \in keys /\ Counted(f, k, i, Len(f) + 1)
  <2>1. Counted(g, k, i, Len(f) + 1) /\ Counted(g, k, i, Len(g) + 1)
      BY <1>1, <1>2, <1>3, <1>4 DEF Counted
  <2>2. CASE k \in x.keys
      BY <2>1, <2>2 DEF Settled
  <2>3. CASE k \notin x.keys
    <3>1. Len(f) + 1 \in DOMAIN g /\ i < Len(f) + 1 /\ Releases(g, k, Len(f) + 1)
        BY <1>1, <1>3, <2>3 DEF Releases
    <3> QED BY <2>1, <3>1 DEF Settled
  <2> QED BY <2>2, <2>3
<1>5. CASE \E j \in DOMAIN f : i < j /\ Releases(f, k, j) /\ Counted(f, k, i, j)
  <2>1. PICK j \in DOMAIN f : i < j /\ Releases(f, k, j) /\ Counted(f, k, i, j)
      BY <1>5
  <2>2. j \in DOMAIN g /\ Releases(g, k, j)
      BY <1>2, <2>1 DEF Releases
  <2>3. Counted(g, k, i, j)
      BY <1>1, <1>2, <2>1 DEF Counted
  <2> QED BY <2>1, <2>2, <2>3 DEF Settled
<1> QED BY <1>4, <1>5 DEF Settled

\* When the first message arrives, the others move up.
LEMMA ArrivalKeepsSettled ==
    ASSUME NEW f \in Seq(Messages), f # <<>>, NEW keys, NEW k, NEW i \in 0..Len(f),
           Settled(f, keys, k, i), i > 0 \/ f[1].type # "Keys" \/ k \in f[1].keys
    PROVE  Settled(Tail(f), keys, k, IF i = 0 THEN 0 ELSE i - 1)
<1> DEFINE g == Tail(f)
           h == IF i = 0 THEN 0 ELSE i - 1
<1>1. Len(g) = Len(f) - 1 /\ DOMAIN g = 1..Len(g) /\ DOMAIN f = 1..Len(f) /\ Len(f) \in Nat \ {0}
    OBVIOUS
<1>2. \A l \in DOMAIN g : l + 1 \in DOMAIN f /\ g[l] = f[l + 1]
    BY <1>1
<1> SUFFICES Settled(g, keys, k, h)
    OBVIOUS
<1> HIDE DEF g
<1>3. ASSUME NEW j \in 1..Len(f) + 1, i < j, Counted(f, k, i, j)
      PROVE  Counted(g, k, h, j - 1)
    BY <1>1, <1>2, <1>3 DEF Counted
<1>4. CASE k \in keys /\ Counted(f, k, i, Len(f) + 1)
    BY <1>1, <1>3, <1>4 DEF Settled
<1>5. CASE \E j \in DOMAIN f : i < j /\ Releases(f, k, j) /\ Counted(f, k, i, j)
  <2>1. PICK j \in DOMAIN f : i < j /\ Releases(f, k, j) /\ Counted(f, k, i, j)
      BY <1>5
  <2>2. j # 1
      BY <2>1 DEF Releases
  <2>3. j - 1 \in DOMAIN g /\ h < j - 1 /\ Releases(g, k, j - 1)
      BY <1>1, <1>2, <2>1, <2>2 DEF Releases
  <2>4. Counted(g, k, h, j - 1)
      BY <1>1, <1>3, <2>1
  <2> QED BY <2>3, <2>4 DEF Settled
<1> QED BY <1>4, <1>5 DEF Settled

\* A message that is not of keys leaves every key settled, if it counts the
\* keys that are held.
LEMMA StateSent ==
    ASSUME NEW f \in Seq(Messages), NEW x \in Messages, NEW r, NEW keys,
           AllSettled(f, r, keys), x.type # "Keys",
           x.type = "ModuleState" => keys \subseteq Keys(x.count)
    PROVE  AllSettled(Append(f, x), r, keys)
<1> DEFINE g == Append(f, x)
<1>1. \A k, i : i \in 0..Len(f) /\ Settled(f, keys, k, i) => Settled(g, keys, k, i)
    BY AppendKeepsSettled
<1>2. DOMAIN f = 1..Len(f) /\ Len(f) \in Nat /\ DOMAIN g = 1..(Len(f) + 1)
    OBVIOUS
<1>3. \A i \in DOMAIN g : g[i].type = "Keys" => i \in DOMAIN f /\ g[i] = f[i] /\ i \in 0..Len(f)
    BY <1>2
<1> SUFFICES AllSettled(g, r, keys)
    OBVIOUS
<1> HIDE DEF g
<1>4. \A k \in r.keys : Settled(g, keys, k, 0)
    BY <1>1, <1>2 DEF AllSettled
<1>5. \A i \in DOMAIN g : g[i].type = "Keys" => \A k \in g[i].keys : Settled(g, keys, k, i)
    BY <1>1, <1>3 DEF AllSettled
<1> QED BY <1>4, <1>5 DEF AllSettled

\* A message of keys leaves every key settled.
LEMMA KeysSent ==
    ASSUME NEW f \in Seq(Messages), NEW x \in KeysMessages, NEW r, NEW keys, AllSettled(f, r, keys)
    PROVE  AllSettled(Append(f, x), r, x.keys)
<1> DEFINE g == Append(f, x)
<1>1. \A k, i : i \in 0..Len(f) /\ Settled(f, keys, k, i) => Settled(g, x.keys, k, i)
    BY KeysKeepSettled
<1>2. DOMAIN f = 1..Len(f) /\ Len(f) \in Nat /\ DOMAIN g = 1..(Len(f) + 1) /\ Len(g) = Len(f) + 1
    OBVIOUS
<1>3. \A i \in DOMAIN f : g[i] = f[i] /\ i \in 0..Len(f)
    BY <1>2
<1>4. g[Len(f) + 1] = x
    OBVIOUS
<1> SUFFICES AllSettled(g, r, x.keys)
    OBVIOUS
<1> HIDE DEF g
<1>5. \A k \in r.keys : Settled(g, x.keys, k, 0)
    BY <1>1, <1>2 DEF AllSettled
<1>6. \A i \in DOMAIN f : f[i].type = "Keys" => \A k \in f[i].keys : Settled(g, x.keys, k, i)
    BY <1>1, <1>3 DEF AllSettled
<1>7. \A k \in x.keys : Settled(g, x.keys, k, Len(f) + 1)
    BY <1>2 DEF Settled, Counted
<1>8. \A i \in DOMAIN g : g[i].type = "Keys" => \A k \in g[i].keys : Settled(g, x.keys, k, i)
    BY <1>2, <1>3, <1>4, <1>6, <1>7
<1> QED BY <1>5, <1>8 DEF AllSettled

RightHalf == [id : Attachable, count : Attachable, conn : Attachable, keys : SUBSET AllKeys]

\* A message that arrives leaves every key settled.
LEMMA Arrived ==
    ASSUME fly \in Seq(Messages), fly # <<>>, right \in RightHalf
    PROVE  /\ received(Head(fly)) \in RightHalf
           /\ \A keys : AllSettled(fly, right, keys) => AllSettled(Tail(fly), received(Head(fly)), keys)
<1> DEFINE x == fly[1]
           r == received(x)
           g == Tail(fly)
           Moved(keys) == \A k \in r.keys : /\ k \in Keys(r.count)
                                            /\ Settled(fly, keys, k, 0) \/ Settled(fly, keys, k, 1)
                                            /\ x.type # "Keys" \/ k \in x.keys \/ Settled(fly, keys, k, 1)
<1>1. x \in Messages /\ Head(fly) = x /\ 1 \in DOMAIN fly
    OBVIOUS
<1>2. r \in RightHalf /\ \A keys : AllSettled(fly, right, keys) => Moved(keys)
  <2>1. CASE x.type = "Keys"
    <3>1. r = [right EXCEPT !.keys = (right.keys \ Keys(right.count)) \cup (x.keys \cap Keys(right.count))]
        BY <2>1 DEF received, RightHalf
    <3>2. x.keys \subseteq AllKeys
        BY <1>1, <2>1, MessageTypes DEF KeysMessages
    <3> HIDE DEF r
    <3>3. /\ r \in RightHalf /\ r.count = right.count
          /\ r.keys = (right.keys \ Keys(right.count)) \cup (x.keys \cap Keys(right.count))
      <4> HIDE DEF x
      <4> QED BY <3>1, <3>2 DEF RightHalf
    <3> QED BY <1>1, <2>1, <3>3 DEF AllSettled
  <2>2. CASE x.type = "ModuleState"
    <3>1. r = [right EXCEPT !.id = x.id, !.conn = x.id, !.count = x.count]
        BY <2>2 DEF received, RightHalf
    <3>2. x.id \in Attachable /\ x.count \in Attachable
        BY <1>1, <2>2, MessageTypes DEF StateMessages
    <3> HIDE DEF r
    <3>3. r \in RightHalf /\ r.count = x.count /\ r.keys = right.keys
      <4> HIDE DEF x
      <4> QED BY <3>1, <3>2 DEF RightHalf
    <3>4. \A keys, k : Settled(fly, keys, k, 0) => k \in Keys(x.count)
      <4>1. ASSUME NEW keys, NEW k, Settled(fly, keys, k, 0)
            PROVE  k \in Keys(x.count)
        <5>1. \A j \in DOMAIN fly : 0 < j /\ Releases(fly, k, j) => 1 < j
          <6>1. ~Releases(fly, k, 1)
              BY <2>2 DEF Releases
          <6>2. DOMAIN fly \subseteq Nat
              OBVIOUS
          <6> QED BY <6>1, <6>2
        <5>2. 1 < Len(fly) + 1
            BY <1>1
        <5> QED BY <1>1, <2>2, <4>1, <5>1, <5>2 DEF Settled, Counted
      <4> QED BY <4>1
    <3> QED BY <2>2, <3>3, <3>4 DEF AllSettled
  <2>3. CASE x.type = "Gone"
    <3>1. r = [right EXCEPT !.conn = None]
        BY <2>3 DEF received, RightHalf
    <3> HIDE DEF r
    <3>2. r \in RightHalf /\ r.count = right.count /\ r.keys = right.keys
        BY <3>1 DEF RightHalf, Attachable
    <3> QED BY <2>3, <3>2 DEF AllSettled
  <2> QED BY <1>1, <2>1, <2>2, <2>3, MessageTypes
<1>3. /\ Len(g) = Len(fly) - 1 /\ DOMAIN g = 1..Len(g) /\ Len(fly) \in Nat \ {0}
      /\ DOMAIN fly = 1..Len(fly) /\ \A i \in DOMAIN g : g[i] = fly[i + 1] /\ i + 1 \in DOMAIN fly
    OBVIOUS
<1>4. ASSUME NEW keys, NEW k, NEW i \in 0..Len(fly), Settled(fly, keys, k, i),
             i > 0 \/ x.type # "Keys" \/ k \in x.keys
      PROVE  Settled(g, keys, k, IF i = 0 THEN 0 ELSE i - 1)
    BY <1>4, ArrivalKeepsSettled
<1> HIDE DEF r, x, g
<1>5. ASSUME NEW keys, AllSettled(fly, right, keys)
      PROVE  AllSettled(g, r, keys)
  <2>1. Moved(keys)
      BY <1>2, <1>5
  <2>2. \A k \in r.keys : Settled(g, keys, k, 0)
    <3>1. ASSUME NEW k \in r.keys
          PROVE  Settled(g, keys, k, 0)
      <4>1. Settled(fly, keys, k, 1) => Settled(g, keys, k, 0)
          BY <1>3, <1>4
      <4>2. Settled(fly, keys, k, 0) /\ (x.type # "Keys" \/ k \in x.keys) => Settled(g, keys, k, 0)
          BY <1>3, <1>4
      <4> QED BY <2>1, <4>1, <4>2
    <3> QED BY <3>1
  <2>3. ASSUME NEW i \in DOMAIN g, g[i].type = "Keys", NEW k \in g[i].keys
        PROVE  Settled(g, keys, k, i)
    <3>1. Settled(fly, keys, k, i + 1)
        BY <1>3, <1>5, <2>3 DEF AllSettled
    <3>2. i + 1 \in 0..Len(fly) /\ i + 1 > 0 /\ i = (IF i + 1 = 0 THEN 0 ELSE (i + 1) - 1)
        BY <1>3
    <3> QED BY <1>4, <3>1, <3>2
  <2> QED BY <2>1, <2>2, <2>3 DEF AllSettled
<1> QED BY <1>1, <1>2, <1>5 DEF r, g

-----------------------------------------------------------------------------
(* Each action keeps the invariant.                                        *)

\* The types of the driver, of the right half, and of the rest.
RestOK ==
    /\ attached \in Attachable /\ held \subseteq Keys(attached)
    /\ age \in 0..Timeout /\ alarm \in 0..Never
    /\ dirty \subseteq {"ModuleState", "Gone"}
    /\ linked \in BOOLEAN
    /\ changes \in 0..MaxChanges /\ cut \in BOOLEAN /\ bounced \in BOOLEAN
    /\ stuck \subseteq {"poller", "sync"}

FlyOK == fly \in Seq(Messages) /\ Len(fly) <= MaxInFlight

LEMMA Typed == TypeOK <=> slave \in Driver /\ right \in RightHalf /\ FlyOK /\ RestOK
    BY DEF TypeOK, Driver, RightHalf, FlyOK, RestOK

\* The constants have their types.
LEMMA Constants ==
    /\ Timeout \in Nat \ {0, 1} /\ MaxInFlight \in Nat \ {0} /\ MaxChanges \in Nat
    /\ None \notin Modules /\ Old \subseteq Modules /\ Never = Timeout + 1
    /\ \A m \in Modules : Keys(m) \subseteq AllKeys
    /\ Keys(None) = {}
    BY ModuleAssumption DEF Never, AllKeys, Keys

\* The module has its turn.
LEMMA PollKeeps ==
    ASSUME Inv, Poll
    PROVE  Inv'
<1> DEFINE s == IF slave.connected THEN slave ELSE Restarted(slave)
<1>1. Ready(s) /\ s.keys = slave.keys /\ s.connected = slave.connected
    BY Typed, BeginsAnew DEF Inv, Poll
<1>2. RecentAt(s, age)
    BY <1>1 DEF Inv, Recent, RecentAt, Poll
<1>3. /\ Request(s) \/ Receive(s) \/ ProcessFact(s) \/ ProcessKeystates(s) \/ Set(s)
      /\ UNCHANGED <<attached, held, linked, changes, alarm, right, cut, bounced, stuck>>
      /\ "poller" \notin stuck
    BY DEF Poll, world
<1> HIDE DEF s
<1>4. slave \in Driver /\ right \in RightHalf /\ FlyOK /\ RestOK /\ Released
    BY Typed DEF Inv
<1>5. /\ After(s, slave') /\ RecentAt(slave', age') /\ age' \in 0..Timeout
      /\ dirty' \subseteq {"ModuleState", "Gone"}
      /\ \/ slave'.keys = slave.keys /\ fly' = fly
         \/ \E x \in KeysMessages : slave'.keys = x.keys /\ CanSend /\ SendNow(x)
  <2>1. CASE Request(s)
    <3>1. After(s, slave') /\ slave'.keys = s.keys /\ RecentAt(slave', age') /\ age' \in 0..Timeout
        BY <1>1, <1>4, <2>1, RequestKeeps DEF RestOK
    <3> QED BY <1>1, <1>4, <2>1, <3>1 DEF Request, RestOK
  <2>2. CASE Receive(s)
      BY <1>1, <1>2, <1>4, <2>2, ReceiveKeeps DEF Receive, RestOK
  <2>3. CASE ProcessFact(s)
      BY <1>1, <1>2, <1>4, <2>3, ProcessFactKeeps DEF ProcessFact, RestOK
  <2>4. CASE ProcessKeystates(s)
    <3>1. /\ After(s, slave') /\ RecentAt(slave', age')
          /\ \/ slave'.keys = s.keys /\ fly' = fly
             \/ /\ slave'.keys = s.rx.keys /\ s.rx.keys \subseteq AllKeys
                /\ CanSend /\ SendNow([type |-> "Keys", keys |-> s.rx.keys])
        BY <1>1, <1>2, <2>4, ProcessKeystatesKeeps
    <3>2. age' = age /\ dirty' = dirty
        BY <2>4 DEF ProcessKeystates
    <3>3. CASE slave'.keys = s.keys /\ fly' = fly
        BY <1>1, <1>4, <3>1, <3>2, <3>3 DEF RestOK
    <3>4. CASE /\ slave'.keys = s.rx.keys /\ s.rx.keys \subseteq AllKeys
               /\ CanSend /\ SendNow([type |-> "Keys", keys |-> s.rx.keys])
      <4>1. [type |-> "Keys", keys |-> s.rx.keys] \in KeysMessages
          BY <3>4 DEF KeysMessages
      <4> QED BY <1>4, <3>1, <3>2, <3>4, <4>1 DEF RestOK
    <3> QED BY <3>1, <3>3, <3>4
  <2>5. CASE Set(s)
      BY <1>1, <1>2, <1>4, <2>5, SetKeeps DEF Set, RestOK
  <2> QED BY <1>3, <2>1, <2>2, <2>3, <2>4, <2>5
<1>6. OneModule' /\ slave' \in Driver
  <2>1. slave' \in Driver /\ PhaseOf(slave') /\ slave'.connected = s.connected
      BY <1>5 DEF After
  <2>2. slave'.connected => \E m \in Modules : ReadFrom(slave', attached, m)
      BY <1>1, <1>5, <2>1 DEF After, Ready
  <2> QED BY <1>3, <2>1, <2>2 DEF OneModule
<1>7. FlyOK' /\ Released'
  <2>1. CASE slave'.keys = slave.keys /\ fly' = fly
      BY <1>3, <1>4, <2>1 DEF Released, FlyOK
  <2>2. CASE \E x \in KeysMessages : slave'.keys = x.keys /\ CanSend /\ SendNow(x)
    <3>1. PICK x \in KeysMessages : slave'.keys = x.keys /\ CanSend /\ SendNow(x)
        BY <2>2
    <3>2. x \in Messages
        BY DEF Messages, KeysMessages
    <3>3. CASE ~linked
      <4>1. fly' = fly /\ fly = <<>> /\ right.keys = {}
          BY <1>4, <3>1, <3>3 DEF SendNow, Released
      <4> QED BY <1>3, <1>4, <4>1 DEF Released, FlyOK, AllSettled
    <3>4. CASE linked
      <4>1. fly' = Append(fly, x) /\ Len(fly) < MaxInFlight
          BY <3>1, <3>4 DEF SendNow, CanSend
      <4>2. FlyOK'
          BY <1>4, <3>2, <4>1, Constants DEF FlyOK
      <4>3. ~cut => AllSettled(fly', right, slave'.keys)
          BY <1>4, <3>1, <4>1, KeysSent DEF Released, FlyOK
      <4> QED BY <1>3, <3>4, <4>2, <4>3 DEF Released
    <3> QED BY <1>4, <3>3, <3>4 DEF RestOK
  <2> QED BY <1>5, <2>1, <2>2
<1>8. RestOK'
    BY <1>3, <1>4, <1>5 DEF RestOK
<1>9. (right \in RightHalf)'
    BY <1>3, <1>4
<1>10. TypeOK'
    BY <1>6, <1>7, <1>8, <1>9 DEF TypeOK, Driver, RightHalf, FlyOK, RestOK
<1> QED BY <1>3, <1>5, <1>6, <1>7, <1>10 DEF Inv, Recent, Stranded

\* The minimum of two numbers.
LEMMA MinOfTwo ==
    ASSUME NEW a \in Nat, NEW b \in Nat
    PROVE  Min({a, b}) = IF a <= b THEN a ELSE b
<1> DEFINE m == IF a <= b THEN a ELSE b
<1>1. m \in {a, b} /\ \A y \in {a, b} : m <= y
    OBVIOUS
<1>2. \A x \in {a, b} : (\A y \in {a, b} : x <= y) => x = m
    OBVIOUS
<1>3. Min({a, b}) = CHOOSE x \in {a, b} : \A y \in {a, b} : x <= y
    BY DEF Min
<1> HIDE DEF m
<1>4. Min({a, b}) \in {a, b} /\ \A y \in {a, b} : Min({a, b}) <= y
    BY <1>1, <1>3
<1> QED BY <1>2, <1>4 DEF m

\* A transfer ends, with or without contact to the module.
LEMMA EndedKeeps ==
    ASSUME Inv, NEW rx \in Answers, NEW contact \in BOOLEAN, slave.bus # "idle",
           contact => /\ attached # None
                      /\ rx.good => rx.from = attached /\ rx.keys \subseteq Keys(attached),
           Ended([slave EXCEPT !.bus = "idle", !.connected = contact, !.rx = rx]),
           changes' \in 0..MaxChanges,
           UNCHANGED <<attached, held, linked, age, dirty, fly, right, stuck>>
    PROVE  Inv'
<1> DEFINE done == [slave EXCEPT !.bus = "idle", !.connected = contact, !.rx = rx]
           lost == slave.connected /\ ~contact
<1>1. slave \in Driver /\ right \in RightHalf /\ FlyOK /\ RestOK /\ Released /\ OneModule /\ Recent
    BY Typed DEF Inv
<1>2. "poller" \notin stuck /\ RecentAt(slave, age)
    BY <1>1 DEF Inv, Stranded, Recent
<1>3. /\ done \in Driver /\ done.bus = "idle" /\ done.connected = contact /\ done.rx = rx
      /\ done.prop = slave.prop /\ done.step = slave.step /\ done.facts = slave.facts
      /\ done.keys = slave.keys
    BY <1>1 DEF Driver
<1> HIDE DEF done
<1>4. lost => slave' = [done EXCEPT !.id = None, !.keys = {}] /\ cut' = (cut \/ slave.keys # {})
              /\ alarm' = Min({alarm, Timeout}) /\ bounced' = (bounced \/ alarm < Timeout)
    BY <1>3 DEF Ended, Disconnect, done
<1>5. ~lost => slave' = done /\ UNCHANGED <<alarm, cut, bounced>>
    BY <1>3 DEF Ended, done
<1>6. /\ slave' \in Driver /\ slave'.bus = "idle" /\ slave'.connected = contact /\ slave'.rx = rx
      /\ slave'.prop = slave.prop /\ slave'.step = slave.step /\ slave'.facts = slave.facts
      /\ slave'.keys = IF lost THEN {} ELSE slave.keys
  <2>1. CASE lost
      BY <1>3, <1>4, <2>1 DEF Driver, Attachable
  <2>2. CASE ~lost
      BY <1>3, <1>5, <2>2
  <2> QED BY <2>1, <2>2
<1>7. ~slave.connected => slave.prop = "Sync" /\ slave.keys = {}
    BY <1>1 DEF OneModule, PhaseOf
<1>8. "Sync" \notin Loop
    BY Phases DEF Decisive
<1>9. OneModule'
  <2>1. PhaseOf(slave')
      BY <1>1, <1>6, <1>7, <1>8 DEF OneModule, PhaseOf
  <2>2. ASSUME contact, slave.connected
        PROVE  \E m \in Modules : ReadFrom(slave', attached, m)
    <3>1. PICK m \in Modules : ReadFrom(slave, attached, m)
        BY <1>1, <1>2, <2>2 DEF OneModule
    <3>2. m = attached
        BY <2>2, <3>1 DEF ReadFrom
    <3>3. ReadFrom(slave', attached, m)
        BY <1>6, <2>2, <3>1, <3>2 DEF ReadFrom, Known
    <3> QED BY <3>3
  <2>3. ASSUME contact, ~slave.connected
        PROVE  \E m \in Modules : ReadFrom(slave', attached, m)
    <3>1. attached \in Modules
        BY <1>1, <2>3 DEF RestOK, Attachable
    <3>2. Known(slave') = {}
        BY <1>6, <1>7, <1>8, <2>3, Order DEF Known
    <3>3. ReadFrom(slave', attached, attached)
        BY <1>6, <2>3, <3>2 DEF ReadFrom
    <3> QED BY <3>1, <3>3
  <2> QED BY <1>6, <2>1, <2>2, <2>3 DEF OneModule
<1>10. Recent' /\ Stranded'
    BY <1>2, <1>6, <1>7, <1>8, Phases DEF Recent, RecentAt, Stranded
<1>11. Released'
  <2>1. ~cut' => ~cut /\ slave'.keys = slave.keys
      BY <1>4, <1>5, <1>6
  <2> QED BY <1>1, <2>1 DEF Released
<1>12. RestOK'
  <2>1. alarm \in Nat /\ Timeout \in Nat
      BY <1>1, Constants DEF RestOK
  <2>2. Min({alarm, Timeout}) \in 0..Never
      BY <1>1, <2>1, MinOfTwo, Constants DEF RestOK
  <2> QED BY <1>1, <1>4, <1>5, <2>2 DEF RestOK
<1>13. TypeOK'
    BY <1>1, <1>6, <1>12 DEF TypeOK, Driver, RightHalf, FlyOK, RestOK
<1> QED BY <1>9, <1>10, <1>11, <1>13 DEF Inv

\* The bus has done a transfer, or found nothing to transfer to.
LEMMA TransferKeeps ==
    ASSUME Inv, NEW good \in BOOLEAN, NEW moves \in BOOLEAN, Transfer(good, moves)
    PROVE  Inv'
<1> DEFINE a == Answered(good, moves)
           rx == IF attached = None THEN slave.rx ELSE a
<1>1. slave \in Driver /\ RestOK
    BY Typed DEF Inv
<1>2. attached # None =>
        a \in Answers /\ (a.good => a.from = attached /\ a.keys \subseteq Keys(attached))
  <2> SUFFICES ASSUME attached # None, slave.bus = "read" /\ good
               PROVE  a \in Answers /\ a.from = attached /\ a.keys \subseteq Keys(attached)
      BY GoodAnswers DEF Answered
  <2>1. a = [good |-> TRUE, from |-> attached, moves |-> moves,
             keys |-> IF slave.prop = "Keys" THEN held ELSE {}]
      BY DEF Answered
  <2>2. attached \in Modules /\ held \subseteq Keys(attached) /\ Keys(attached) \subseteq AllKeys
      BY <1>1, Constants DEF RestOK, Attachable
  <2> HIDE DEF a
  <2> QED BY <2>1, <2>2 DEF Answers
<1>3. rx \in Answers
    BY <1>1, <1>2 DEF Driver
<1>4. /\ slave.bus # "idle"
      /\ Ended([slave EXCEPT !.bus = "idle", !.connected = attached # None, !.rx = rx])
      /\ UNCHANGED <<attached, held, linked, changes, age, dirty, fly, right, stuck>>
    BY <1>1 DEF Transfer, world, Driver
<1>5. attached # None => (rx.good => rx.from = attached /\ rx.keys \subseteq Keys(attached))
    BY <1>2
<1> HIDE DEF rx
<1> QED BY <1>1, <1>3, <1>4, <1>5, EndedKeeps DEF RestOK

\* A transfer has failed.
LEMMA TransferFailsKeeps ==
    ASSUME Inv, TransferFails
    PROVE  Inv'
<1>1. slave \in Driver /\ RestOK
    BY Typed DEF Inv
<1>2. slave.rx \in Answers
    BY <1>1 DEF Driver
<1>3. [slave EXCEPT !.bus = "idle", !.connected = FALSE]
        = [slave EXCEPT !.bus = "idle", !.connected = FALSE, !.rx = slave.rx]
    BY <1>1 DEF Driver
<1>4. /\ slave.bus # "idle" /\ changes' \in 0..MaxChanges
      /\ UNCHANGED <<attached, held, linked, age, dirty, fly, right, stuck>>
      /\ Ended([slave EXCEPT !.bus = "idle", !.connected = FALSE, !.rx = slave.rx])
    BY <1>1, <1>3, Constants DEF TransferFails, RestOK
<1> QED BY <1>2, <1>4, EndedKeeps

\* The alarm rings, and the state is sent.
LEMMA LeftHalfKeeps ==
    ASSUME Inv, UpdateConnectionStatus \/ SendState \/ SendGone
    PROVE  Inv'
<1>1. slave \in Driver /\ right \in RightHalf /\ FlyOK /\ RestOK /\ Released /\ OneModule /\ Recent
      /\ Stranded
    BY Typed DEF Inv
<1>2. CASE UpdateConnectionStatus
  <2>1. UNCHANGED <<attached, held, linked, changes, age, fly, right, cut, stuck>>
      BY <1>2 DEF UpdateConnectionStatus, world
  <2>2. slave' = slave \/ slave' = [slave EXCEPT !.conn = None]
      BY <1>2 DEF UpdateConnectionStatus
  <2>3. /\ slave' \in Driver /\ slave'.connected = slave.connected /\ slave'.bus = slave.bus /\ slave'.rx = slave.rx
        /\ slave'.prop = slave.prop /\ slave'.step = slave.step /\ slave'.facts = slave.facts
        /\ slave'.keys = slave.keys
      BY <1>1, <2>2 DEF Driver, Attachable
  <2>4. OneModule' /\ Recent' /\ Stranded' /\ Released'
      BY <1>1, <2>1, <2>3 DEF OneModule, PhaseOf, ReadFrom, Known, Recent, RecentAt, Stranded, Released
  <2>5. RestOK'
    <3>1. alarm' = Never /\ dirty' \subseteq dirty \cup {"Gone"} /\ bounced' \in BOOLEAN
        BY <1>2 DEF UpdateConnectionStatus
    <3> QED BY <1>1, <2>1, <3>1, Constants DEF RestOK
  <2>6. TypeOK'
      BY <1>1, <2>1, <2>3, <2>5 DEF TypeOK, Driver, RightHalf, FlyOK, RestOK
  <2> QED BY <2>4, <2>6 DEF Inv
<1>3. CASE SendState \/ SendGone
  <2>1. UNCHANGED <<attached, held, linked, changes, slave, age, alarm, right, cut, bounced, stuck>> /\ linked
        /\ dirty' \subseteq dirty
      BY <1>3 DEF SendState, SendGone, world
  <2>2. PICK x \in Messages : /\ x.type # "Keys" /\ (x.type = "ModuleState" => slave.keys \subseteq Keys(x.count))
                              /\ fly' = Append(fly, x) /\ Len(fly) < MaxInFlight
    <3>1. CASE SendState
      <4> DEFINE x == [type |-> "ModuleState", id |-> slave.id, count |-> slave.facts["KeyCount"]]
      <4>1. slave.facts["KeyCount"] \in Attachable /\ slave.id \in Attachable
          BY <1>1, Phases DEF Driver
      <4>2. x \in Messages
          BY <4>1 DEF Messages
      <4>3. slave.keys \subseteq Keys(x.count)
          BY <1>1 DEF OneModule, PhaseOf
      <4>4. fly' = Append(fly, x) /\ Len(fly) < MaxInFlight
          BY <3>1 DEF SendState, SendNow, CanSend
      <4> QED BY <4>2, <4>3, <4>4
    <3>2. CASE SendGone
      <4>1. [type |-> "Gone"] \in Messages
          BY DEF Messages
      <4>2. fly' = Append(fly, [type |-> "Gone"]) /\ Len(fly) < MaxInFlight
          BY <3>2 DEF SendGone, SendNow, CanSend
      <4> QED BY <4>1, <4>2
    <3> QED BY <1>3, <3>1, <3>2
  <2>3. FlyOK'
      BY <1>1, <2>2, Constants DEF FlyOK
  <2>4. Released'
      BY <1>1, <2>1, <2>2, StateSent DEF Released, FlyOK
  <2>5. RestOK'
      BY <1>1, <2>1 DEF RestOK
  <2>6. OneModule' /\ Recent' /\ Stranded'
      BY <1>1, <2>1 DEF OneModule, Recent, Stranded
  <2>7. TypeOK'
      BY <1>1, <2>1, <2>3, <2>5 DEF TypeOK, Driver, RightHalf, FlyOK, RestOK
  <2> QED BY <2>4, <2>6, <2>7 DEF Inv
<1> QED BY <1>2, <1>3

\* A message arrives.
LEMMA DeliverKeeps ==
    ASSUME Inv, Deliver
    PROVE  Inv'
<1>1. slave \in Driver /\ right \in RightHalf /\ FlyOK /\ RestOK /\ Released /\ OneModule /\ Recent
      /\ Stranded
    BY Typed DEF Inv
<1>2. /\ fly # <<>> /\ right' = received(Head(fly)) /\ fly' = Tail(fly)
      /\ UNCHANGED <<attached, held, linked, changes, slave, age, alarm, dirty, cut, bounced, stuck>>
    BY DEF Deliver, world
<1>3. /\ right' \in RightHalf
      /\ AllSettled(fly, right, slave.keys) => AllSettled(fly', right', slave.keys)
    BY <1>1, <1>2, Arrived DEF FlyOK
<1>4. FlyOK'
    BY <1>1, <1>2, Constants DEF FlyOK
<1>5. Released'
    BY <1>1, <1>2, <1>3 DEF Released
<1>6. RestOK' /\ OneModule' /\ Recent' /\ Stranded'
    BY <1>1, <1>2 DEF RestOK, OneModule, Recent, Stranded
<1>7. TypeOK'
    BY <1>1, <1>2, <1>3, <1>4, <1>6 DEF TypeOK, Driver, RightHalf, FlyOK, RestOK
<1> QED BY <1>5, <1>6, <1>7 DEF Inv

\* Modules, keys and the link change, and time passes.
LEMMA WorldKeeps ==
    ASSUME Inv, World \/ Tick
    PROVE  Inv'
<1>1. slave \in Driver /\ right \in RightHalf /\ FlyOK /\ RestOK /\ Released /\ OneModule /\ Recent
      /\ Stranded
    BY Typed DEF Inv
<1>2. CASE World
  <2>1. UNCHANGED <<slave, age, alarm, bounced>> /\ changes' \in 0..MaxChanges
      BY <1>1, <1>2, Constants DEF World, RestOK
  <2>2. CASE \E m \in Modules : Attach(m)
    <3>1. PICK m \in Modules : Attach(m)
        BY <2>2
    <3>2. /\ attached = None /\ (slave.connected => "poller" \in stuck) /\ attached' = m
          /\ UNCHANGED <<held, linked, fly, dirty, right, cut, stuck>>
        BY <3>1 DEF Attach
    <3>3. OneModule' /\ Recent' /\ Stranded' /\ Released' /\ FlyOK'
        BY <1>1, <2>1, <3>2 DEF OneModule, Recent, Stranded, Released, FlyOK
    <3>4. RestOK'
        BY <1>1, <2>1, <3>2, Constants DEF RestOK, Attachable
    <3>5. TypeOK'
        BY <1>1, <2>1, <3>2, <3>3, <3>4 DEF TypeOK, Driver, RightHalf, FlyOK, RestOK
    <3> QED BY <3>3, <3>5 DEF Inv
  <2>3. CASE Detach
    <3>1. attached' = None /\ held' = {} /\ UNCHANGED <<linked, fly, dirty, right, cut, stuck>>
        BY <2>3 DEF Detach
    <3>2. \A m \in Modules : ReadFrom(slave, attached, m) => ReadFrom(slave', attached', m)
        BY <2>1, <3>1 DEF ReadFrom
    <3>3. OneModule' /\ Recent' /\ Stranded' /\ Released' /\ FlyOK'
        BY <1>1, <2>1, <3>1, <3>2 DEF OneModule, Recent, Stranded, Released, FlyOK
    <3>4. RestOK'
        BY <1>1, <2>1, <3>1 DEF RestOK, Attachable
    <3>5. TypeOK'
        BY <1>1, <2>1, <3>1, <3>3, <3>4 DEF TypeOK, Driver, RightHalf, FlyOK, RestOK
    <3> QED BY <3>3, <3>5 DEF Inv
  <2>4. CASE \E k \in Keys(attached) : PressOrRelease(k)
    <3>1. PICK k \in Keys(attached) : PressOrRelease(k)
        BY <2>4
    <3>2. UNCHANGED <<attached, linked, fly, dirty, right, cut, stuck>> /\ held' \subseteq Keys(attached)
        BY <1>1, <3>1 DEF PressOrRelease, RestOK
    <3>3. OneModule' /\ Recent' /\ Stranded' /\ Released' /\ FlyOK'
        BY <1>1, <2>1, <3>2 DEF OneModule, Recent, Stranded, Released, FlyOK
    <3>4. RestOK'
        BY <1>1, <2>1, <3>2 DEF RestOK
    <3>5. TypeOK'
        BY <1>1, <2>1, <3>2, <3>3, <3>4 DEF TypeOK, Driver, RightHalf, FlyOK, RestOK
    <3> QED BY <3>3, <3>5 DEF Inv
  <2>5. CASE LinkLost
    <3>1. /\ linked' = FALSE /\ fly' = <<>> /\ right' = [right EXCEPT !.conn = None, !.keys = {}] /\ cut' = FALSE
          /\ UNCHANGED <<attached, held, dirty>>
        BY <2>5 DEF LinkLost
    <3>2. PICK dropped \in SUBSET Waiting : stuck' = stuck \cup dropped
        BY <2>5 DEF LinkLost
    <3>3. /\ stuck \subseteq stuck' /\ stuck' \subseteq {"poller", "sync"}
          /\ "poller" \in stuck' =>
               "poller" \in stuck \/ (slave.connected /\ slave.prop = "Keys" /\ slave.bus = "idle")
        BY <1>1, <3>2 DEF Waiting, RestOK
    <3>4. right' \in RightHalf /\ right'.keys = {}
        BY <1>1, <3>1 DEF RightHalf, Attachable
    <3>5. AllSettled(fly', right', slave'.keys)
        BY <3>1, <3>4 DEF AllSettled
    <3>6. OneModule' /\ Recent' /\ Stranded' /\ Released' /\ FlyOK'
        BY <1>1, <2>1, <3>1, <3>4, <3>5, <3>3, Constants DEF OneModule, Recent, Stranded, Released, FlyOK
    <3>7. RestOK'
        BY <1>1, <2>1, <3>1, <3>3 DEF RestOK
    <3>8. TypeOK'
        BY <1>1, <2>1, <3>4, <3>6, <3>7 DEF TypeOK, Driver, RightHalf, FlyOK, RestOK
    <3> QED BY <3>6, <3>8 DEF Inv
  <2>6. CASE LinkFound
    <3>1. linked' = TRUE /\ dirty' = dirty \cup {"ModuleState"} /\ UNCHANGED <<attached, held, fly, right, cut, stuck>>
        BY <2>6 DEF LinkFound
    <3>2. OneModule' /\ Recent' /\ Stranded' /\ Released' /\ FlyOK'
        BY <1>1, <2>1, <3>1 DEF OneModule, Recent, Stranded, Released, FlyOK
    <3>3. RestOK'
        BY <1>1, <2>1, <3>1 DEF RestOK
    <3>4. TypeOK'
        BY <1>1, <2>1, <3>1, <3>2, <3>3 DEF TypeOK, Driver, RightHalf, FlyOK, RestOK
    <3> QED BY <3>2, <3>4 DEF Inv
  <2> QED BY <1>2, <2>2, <2>3, <2>4, <2>5, <2>6 DEF World
<1>3. CASE Tick
  <2>1. /\ UNCHANGED <<attached, held, linked, changes, slave, dirty, fly, right, cut, bounced, stuck>>
        /\ Polled /\ age' = Min({age + 1, Timeout})
        /\ alarm # 0 /\ alarm' = IF alarm = Never THEN Never ELSE alarm - 1
      BY <1>3 DEF Tick, world
  <2>2. age' = (IF age + 1 <= Timeout THEN age + 1 ELSE Timeout) /\ age' \in 0..Timeout
      BY <1>1, <2>1, MinOfTwo, Constants DEF RestOK
  <2>3. Recent'
    <3>1. slave.connected /\ slave.prop \in Loop /\ "poller" \notin stuck => age' <= 1
        BY <2>1, <2>2, Constants DEF Polled
    <3> QED BY <2>1, <3>1, Phases DEF Recent, RecentAt
  <2>4. alarm' \in 0..Never
      BY <1>1, <2>1, Constants DEF RestOK
  <2>5. OneModule' /\ Stranded' /\ Released' /\ FlyOK'
      BY <1>1, <2>1 DEF OneModule, Stranded, Released, FlyOK
  <2>6. RestOK'
      BY <1>1, <2>1, <2>2, <2>4 DEF RestOK
  <2>7. TypeOK'
      BY <1>1, <2>1, <2>5, <2>6 DEF TypeOK, Driver, RightHalf, FlyOK, RestOK
  <2> QED BY <2>3, <2>5, <2>7 DEF Inv
<1> QED BY <1>2, <1>3

\* Nothing is attached at the beginning, and nothing is known.
LEMMA InitIsGood == Init => Inv
<1> SUFFICES ASSUME Init PROVE Inv
    OBVIOUS
<1>1. slave = [connected |-> FALSE, prop |-> "Sync", step |-> "request", bus |-> "idle",
               rx |-> NoAnswer, unset |-> {}, facts |-> [p \in Facts |-> None],
               id |-> None, conn |-> None, keys |-> {}, still |-> TRUE]
    BY DEF Init
<1>2. slave \in Driver
    BY <1>1, Phases, GoodAnswers DEF Driver, Decisive, Attachable
<1>3. "Sync" \notin Loop
    BY Phases DEF Decisive
<1>4. OneModule /\ Recent /\ Stranded
    BY <1>1, <1>3, Phases DEF Init, OneModule, PhaseOf, Recent, RecentAt, Stranded
<1>5. Released
    BY <1>1 DEF Init, Released, AllSettled
<1>6. right \in RightHalf
    BY DEF Init, RightHalf, Attachable
<1>7. FlyOK
    BY Constants DEF Init, FlyOK
<1>8. RestOK
  <2>1. /\ attached = None /\ held = {} /\ age = Timeout /\ alarm = Never /\ dirty = {} /\ linked = TRUE
        /\ changes = 0 /\ cut = FALSE /\ bounced = FALSE /\ stuck = {}
      BY DEF Init
  <2>2. Timeout \in 0..Timeout /\ Never \in 0..Never /\ 0 \in 0..MaxChanges
      BY Constants
  <2> QED BY <2>1, <2>2 DEF RestOK, Attachable
<1> QED BY <1>2, <1>4, <1>5, <1>6, <1>7, <1>8, Typed DEF Inv

\* Every step of the left half, of the right half and of the world keeps it.
THEOREM ModuleInvariance == Spec => []Inv
<1>1. Inv /\ [Next]_vars => Inv'
  <2> SUFFICES ASSUME Inv, [Next]_vars PROVE Inv'
      OBVIOUS
  <2>1. CASE UNCHANGED vars
    <3> UNCHANGED <<attached, held, slave, age, alarm, dirty, linked, fly, right, changes, cut, bounced,
                    stuck>>
        BY <2>1 DEF vars
    <3> QED BY DEF Inv, TypeOK, OneModule, Recent, Stranded, Released
  <2>2. CASE Next
      BY <2>2, PollKeeps, TransferKeeps, TransferFailsKeeps, LeftHalfKeeps, DeliverKeeps, WorldKeeps DEF Next
  <2> QED BY <2>1, <2>2
<1> QED BY <1>1, InitIsGood, PTL DEF Spec

-----------------------------------------------------------------------------
(* The properties.                                                         *)

\* Every variable keeps its type, and no more messages are in flight than the
\* semaphores of the transmitters allow.
THEOREM ModuleTypes == Spec => []TypeOK
<1>1. Inv => TypeOK
    BY DEF Inv
<1> QED BY <1>1, ModuleInvariance, PTL

\* Once the loop reads keys, what the left half has learnt is of the module
\* that is attached: no phase of the handshake is resumed after another module
\* came.
THEOREM KnownModuleIsAttached == Spec => []KeysOfKnownModule
<1>1. Inv => KeysOfKnownModule
  <2> SUFFICES ASSUME Inv, slave.connected, slave.prop \in Loop, attached # None,
                      "poller" \notin stuck, NEW p \in Facts
               PROVE  slave.facts[p] = attached \/ (p = "Checksum" /\ attached \in Old)
      BY DEF KeysOfKnownModule
  <2>1. PICK m \in Modules : ReadFrom(slave, attached, m)
      BY DEF Inv, OneModule
  <2>2. m = attached /\ p \in Known(slave)
      BY <2>1 DEF ReadFrom, Known
  <2> QED BY <2>1, <2>2 DEF ReadFrom
<1> QED BY <1>1, ModuleInvariance, PTL

\* A key that the right half sees pressed is pressed for the left half too, or
\* its release is on its way.
THEOREM NoKeyIsAGhost == Spec => []NoGhostKeys
<1>1. Inv => NoGhostKeys
  <2> SUFFICES ASSUME Inv, ~cut, NEW k \in right.keys
               PROVE  k \in slave.keys \/ ReleaseOnItsWay(k)
      BY DEF NoGhostKeys
  <2>1. Settled(fly, slave.keys, k, 0)
      BY DEF Inv, Released, AllSettled
  <2> QED BY <2>1 DEF Settled, Releases, ReleaseOnItsWay
<1> QED BY <1>1, ModuleInvariance, PTL

\* While the module is read, the alarm that rings finds that it was in contact
\* a moment ago, and keeps its connection.
THEOREM ReadModuleStaysListed == Spec => StaysListed
<1> DEFINE Stays == slave.connected /\ slave.prop \in Settings /\ slave.conn # None
                      => slave'.conn = slave.conn
<1>1. Inv /\ [Next]_vars => Stays \/ UNCHANGED vars
  <2> SUFFICES ASSUME Inv, Next, slave.connected, slave.prop \in Settings, slave.conn # None
               PROVE  slave'.conn = slave.conn
      OBVIOUS
  <2>1. slave \in Driver /\ slave.step = "request" /\ age <= 1 /\ slave.prop # "Keys"
      BY Typed, Phases DEF Inv, OneModule, PhaseOf, Recent, RecentAt, Stranded
  <2>2. CASE Poll
    <3>1. Set(slave)
        BY <2>1, <2>2 DEF Poll, Request, Receive, ProcessFact, ProcessKeystates
    <3> QED BY <2>1, <3>1 DEF Set, At, Driver
  <2>3. ASSUME NEW good \in BOOLEAN, NEW moves \in BOOLEAN, Transfer(good, moves)
        PROVE  slave'.conn = slave.conn
    <3> DEFINE done == [slave EXCEPT !.bus = "idle", !.connected = attached # None,
                                     !.rx = IF attached = None THEN @ ELSE Answered(good, moves)]
    <3>1. slave' = done \/ slave' = [done EXCEPT !.id = None, !.keys = {}]
        BY <2>3 DEF Transfer, Ended, Disconnect
    <3> QED BY <2>1, <3>1 DEF Driver
  <2>4. CASE TransferFails
    <3> DEFINE done == [slave EXCEPT !.bus = "idle", !.connected = FALSE]
    <3>1. slave' = done \/ slave' = [done EXCEPT !.id = None, !.keys = {}]
        BY <2>4 DEF TransferFails, Ended, Disconnect
    <3> QED BY <2>1, <3>1 DEF Driver
  <2>5. CASE UpdateConnectionStatus
    <3>1. ~(age >= Timeout)
      <4>1. age \in Nat
          BY Typed, Constants DEF Inv, RestOK
      <4> QED BY <2>1, <4>1, Constants
    <3> QED BY <2>5, <3>1 DEF UpdateConnectionStatus
  <2>6. CASE World \/ Tick \/ SendState \/ SendGone \/ Deliver
      BY <2>6 DEF World, Tick, SendState, SendGone, Deliver
  <2> QED BY <2>2, <2>3, <2>4, <2>5, <2>6 DEF Next
<1>2. Inv /\ [Next]_vars => [Stays]_vars
    BY <1>1
<1> HIDE DEF Stays
<1>3. Spec => [][Stays]_vars
    BY <1>2, ModuleInvariance, PTL DEF Spec
<1> QED BY <1>3 DEF StaysListed, Stays
=============================================================================
