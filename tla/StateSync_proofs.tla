--------------------------- MODULE StateSync_proofs ---------------------------
(***************************************************************************)
(* Proofs about StateSync, for any media that work, any set of synced      *)
(* properties and any number of changes: every variable keeps its type, a  *)
(* sync thread that sleeps has nothing to send, and no change is           *)
(* forgotten on its way to the other half.                                 *)
(***************************************************************************)
EXTENDS StateSync, SequenceTheorems, TLAPS

-----------------------------------------------------------------------------
(* The inductive invariant.                                                *)

\* A link of half d, the free slots of which are within its semaphores.
Link == [open : SUBSET Media, via : Routes, free : [Media -> Nat]]
LinkOf(d) == {l \in Link : \A m \in Media : l.free[m] <= Slots(d, m)}

Thread == [pc : Steps, prop : Synced, part : 1..2, packet : Packets \cup {NoPacket}]

ThreadIn == [Devices -> Thread]
Waits(t) == \A d \in Devices : t[d].pc \in {"wait", "stuck"} => t[d].packet \in Packets

LinksOK == link \in [Devices -> Link] /\ \A d \in Devices : link[d] \in LinkOf(d)
DirtyOK == dirty \in [Devices -> SUBSET Synced] /\ \A d \in Devices : dirty[d] \subseteq ToSet(Sends(d))
ThreadsOK == thread \in ThreadIn /\ Waits(thread)
FlyOK == fly \in [Devices -> [Media -> Seq(Packets)]]
DataOK ==
    /\ mine \in [Data -> 0..1]
    /\ copy = [p \in Data |-> copy[p]]
    /\ \A p \in Data : copy[p] \in [Parts(p) -> 0..1]
RestOK ==
    /\ up \in SUBSET Available
    /\ listed \in 0..1
    /\ missed \in [Devices -> BOOLEAN]
    /\ changes \in 0..MaxChanges
    /\ tangled \in SUBSET {"media", "module", "refused"}

TypeInv == LinksOK /\ DirtyOK /\ ThreadsOK /\ FlyOK /\ DataOK /\ RestOK

\* SleepsWhenDone from the last look on: once it has looked and found nothing,
\* the thread of half d has nothing to send, or its link is lost, or it has
\* been told in the meantime.
QuietAt(d) ==
    thread[d].pc \in {"drowsy", "asleep"} /\ link[d].via # "none" /\ ~missed[d] => Sendable(d) = {}

Quiet == \A d \in Devices : QuietAt(d)

-----------------------------------------------------------------------------
(* The constants.                                                          *)

\* Which half sends what.
LEMMA WhoSends ==
    /\ ToSet(Sends("Right")) = {"Reset", "Config", "PowerMode", "FunctionalColors", "Layer",
                                "ActiveKeymap", "ActiveLayer", "Backlight"}
    /\ ToSet(Sends("Left")) = {"Reset", "HalfState", "ModuleState", "ModuleGone", "MergeSensor", "Battery"}
<1>1. /\ Sends("Right") = <<"Reset", "Config", "PowerMode", "FunctionalColors", "Layer",
                            "ActiveKeymap", "ActiveLayer", "Backlight">>
      /\ Sends("Left") = <<"Reset", "HalfState", "ModuleState", "ModuleGone", "MergeSensor", "Battery">>
    BY DEF Sends
<1>2. DOMAIN Sends("Right") = 1..8 /\ DOMAIN Sends("Left") = 1..6
    BY <1>1
<1> QED BY <1>1, <1>2 DEF ToSet

\* A reset marks only what the half sends, and data is marked at its source.
LEMMA MarksOwn ==
    /\ \A d \in Devices, b \in BOOLEAN : ResetRightLeftLink(d, b) \subseteq ToSet(Sends(d))
    /\ \A p \in Data : SourceOf(p) \in Devices /\ p \in ToSet(Sends(SourceOf(p)))
<1>1. \A p \in Data : p \in ToSet(Sends("Left")) \cup ToSet(Sends("Right"))
    BY SyncAssumption DEF Data, Properties
<1> QED BY <1>1, WhoSends DEF ResetRightLeftLink, ResetBy, SourceOf, Devices

\* The thread finds the first of the properties it can send.
LEMMA FirstSendable ==
    ASSUME NEW d \in Devices, DirtyOK, Sendable(d) # {}
    PROVE  First(d) \in Sendable(d) /\ First(d) \in Synced
<1> DEFINE s == Sends(d)
           S == Sendable(d)
           Found(i) == s[i] \in S /\ \A j \in 1..(i - 1) : s[j] \notin S
<1>1. S \subseteq ToSet(s) /\ S \subseteq Synced
    BY DEF DirtyOK, Sendable
<1>2. \E i \in DOMAIN s : s[i] \in S
    BY <1>1 DEF ToSet
<1>3. DOMAIN s = 1..8 \/ DOMAIN s = 1..6
    BY DEF Sends, Devices
<1>4. \E i \in DOMAIN s : Found(i)
    <2> SUFFICES ASSUME \A i \in DOMAIN s : ~Found(i)
                 PROVE  FALSE
        OBVIOUS
    <2> HIDE DEF s, S
    <2>1. s[1] \notin S
        BY <1>3
    <2>2. s[2] \notin S
        BY <1>3, <2>1
    <2>3. s[3] \notin S
        BY <1>3, <2>1, <2>2
    <2>4. s[4] \notin S
        BY <1>3, <2>1, <2>2, <2>3
    <2>5. s[5] \notin S
        BY <1>3, <2>1, <2>2, <2>3, <2>4
    <2>6. s[6] \notin S
        BY <1>3, <2>1, <2>2, <2>3, <2>4, <2>5
    <2>7. CASE DOMAIN s = 1..8
        <3>1. s[7] \notin S
            BY <2>1, <2>2, <2>3, <2>4, <2>5, <2>6, <2>7
        <3>2. s[8] \notin S
            BY <2>1, <2>2, <2>3, <2>4, <2>5, <2>6, <2>7, <3>1
        <3> QED BY <1>2, <2>1, <2>2, <2>3, <2>4, <2>5, <2>6, <2>7, <3>1, <3>2
    <2> QED BY <1>2, <1>3, <2>1, <2>2, <2>3, <2>4, <2>5, <2>6, <2>7
<1>5. First(d) \in S
    BY <1>4 DEF First
<1> QED BY <1>1, <1>5

-----------------------------------------------------------------------------
(* The operators the actions are made of.                                  *)

\* What happens to a link leaves it a link; only opening and closing a medium
\* change the route.
LEMMA LinkOperators ==
    ASSUME NEW d \in Devices, NEW l \in LinkOf(d), NEW m \in Media
    PROVE  /\ SetConnected(l, m) \in LinkOf(d)
           /\ SetDisconnected(l, d, m) \in LinkOf(d)
           /\ Give(l, d, m) \in LinkOf(d) /\ Give(l, d, m).via = l.via
           /\ l.free[m] > 0 => Take(l, m) \in LinkOf(d) /\ Take(l, m).via = l.via
           /\ [l EXCEPT !.free[m] = Slots(d, m)] \in LinkOf(d)
<1>1. \A open \in SUBSET Media : determineChannel(open) \in Routes
    <2> SUFFICES ASSUME NEW open \in SUBSET Media PROVE determineChannel(open) \in Routes
        OBVIOUS
    <2>1. "uart" \in open \/ open = {"bt"} \/ open = {}
        BY DEF Media
    <2> QED BY <2>1 DEF determineChannel, Routes, Media
<1>2. Slots(d, m) \in Nat
    BY DEF Slots
<1>3. /\ l.open \in SUBSET Media /\ l.via \in Routes /\ l.free \in [Media -> Nat]
      /\ \A n \in Media : l.free[n] <= Slots(d, n)
    BY DEF LinkOf, Link
<1>4. SetConnected(l, m) \in LinkOf(d)
    BY <1>1, <1>3 DEF SetConnected, TriggerUpdate, LinkOf, Link
<1>5. \A x \in LinkOf(d) : [x EXCEPT !.free[m] = Slots(d, m)] \in LinkOf(d)
    BY <1>2 DEF LinkOf, Link
<1>6. SetDisconnected(l, d, m) \in LinkOf(d)
    <2> DEFINE j == [l EXCEPT !.open = @ \ {m}]
               k == [j EXCEPT !.free[m] = Slots(d, m)]
    <2>1. j \in LinkOf(d)
        BY <1>3 DEF LinkOf, Link
    <2>2. k \in LinkOf(d)
        <3> HIDE DEF j
        <3> QED BY <2>1, <1>5
    <2>3. SetDisconnected(l, d, m) = [k EXCEPT !.via = determineChannel(k.open)]
        BY DEF SetDisconnected, TriggerUpdate
    <2> HIDE DEF k
    <2> QED BY <1>1, <2>2, <2>3 DEF LinkOf, Link
<1>7. Give(l, d, m) \in LinkOf(d) /\ Give(l, d, m).via = l.via
    BY <1>2, <1>3 DEF Give, LinkOf, Link
<1>8. l.free[m] > 0 => Take(l, m) \in LinkOf(d) /\ Take(l, m).via = l.via
    <2> SUFFICES ASSUME l.free[m] > 0
                 PROVE  Take(l, m) \in LinkOf(d) /\ Take(l, m).via = l.via
        OBVIOUS
    <2> DEFINE f == [l.free EXCEPT ![m] = @ - 1]
    <2>1. f \in [Media -> Nat] /\ \A n \in Media : f[n] <= l.free[n]
        BY <1>3
    <2>2. \A n \in Media : f[n] <= Slots(d, n)
        BY <1>3, <2>1 DEF Slots
    <2>3. Take(l, m) = [l EXCEPT !.free = f]
        BY DEF Take
    <2> QED BY <1>3, <2>1, <2>2, <2>3 DEF LinkOf, Link
<1> QED BY <1>4, <1>5, <1>6, <1>7, <1>8

\* The left half sends nothing that depends on the lights.
LEMMA LeftUngated ==
    ASSUME DirtyOK
    PROVE  Sendable("Left") = dirty["Left"]
<1>1. dirty["Left"] \subseteq ToSet(Sends("Left"))
    BY DEF DirtyOK, Devices
<1> QED BY <1>1, WhoSends DEF Sendable, Gated

\* A half that marks something dirty does not rest, or knows that it missed
\* the wake-up; the other half is left alone.
LEMMA Invalidates ==
    ASSUME DirtyOK, missed \in [Devices -> BOOLEAN],
           NEW d \in Devices, NEW props \in SUBSET ToSet(Sends(d)),
           NEW t \in ThreadIn, Waits(t), invalidate(d, props, t)
    PROVE  /\ DirtyOK' /\ ThreadsOK' /\ missed' \in [Devices -> BOOLEAN]
           /\ QuietAt(d)'
           /\ \A e \in Devices \ {d} :
                dirty'[e] = dirty[e] /\ thread'[e] = t[e] /\ missed'[e] = missed[e]
<1>1. DirtyOK'
    BY DEF DirtyOK, invalidate
<1>2. wake(d, t) \in ThreadIn /\ Waits(wake(d, t))
    BY DEF wake, ThreadIn, Thread, Steps, Waits
<1>3. ThreadsOK'
    BY <1>2 DEF ThreadsOK, invalidate, ThreadIn, Waits
<1>4. missed' \in [Devices -> BOOLEAN]
    BY DEF invalidate
<1>5. QuietAt(d)'
    <2>1. wake(d, t)[d].pc # "asleep"
        BY DEF wake, ThreadIn, Thread
    <2>2. wake(d, t)[d].pc = "drowsy" => t[d].pc = "drowsy"
        BY DEF wake, ThreadIn, Thread
    <2>3. t[d].pc = "drowsy" => missed'[d]
        BY DEF invalidate
    <2>4. thread' = wake(d, t)
        BY DEF invalidate
    <2> QED BY <2>1, <2>2, <2>3, <2>4 DEF QuietAt
<1>6. \A e \in Devices \ {d} :
          dirty'[e] = dirty[e] /\ thread'[e] = t[e] /\ missed'[e] = missed[e]
    BY DEF invalidate, wake, DirtyOK, ThreadIn
<1> QED BY <1>1, <1>3, <1>4, <1>5, <1>6

\* Half e stays quiet if nothing is marked, its thread does not come to rest,
\* its link does not come up and the lights do not matter or do not change.
LEMMA StaysQuiet ==
    ASSUME NEW e \in Devices, DirtyOK, DirtyOK', QuietAt(e),
           dirty'[e] = dirty[e], missed'[e] = missed[e],
           thread'[e].pc \in {"drowsy", "asleep"} => thread[e].pc \in {"drowsy", "asleep"},
           link'[e].via # "none" => link[e].via # "none",
           e = "Left" \/ Dark' = Dark
    PROVE  QuietAt(e)'
<1>1. Sendable(e)' = Sendable(e)
    <2>1. CASE e = "Left"
        <3>1. dirty'["Left"] \subseteq ToSet(Sends("Left"))
            BY DEF DirtyOK, Devices
        <3>2. Sendable("Left")' = dirty'["Left"]
            BY <3>1, WhoSends DEF Sendable, Gated
        <3> QED BY <2>1, <3>2, LeftUngated
    <2>2. CASE Dark' = Dark
        BY <2>2 DEF Sendable
    <2> QED BY <2>1, <2>2
<1> QED BY <1>1 DEF QuietAt

\* After a packet the thread prepares the next one or looks again.
LEMMA NextPacketTyped ==
    ASSUME ThreadsOK, NEW d \in Devices
    PROVE  /\ nextPacket(d) \in ThreadIn /\ Waits(nextPacket(d))
           /\ nextPacket(d)[d].pc \in {"send", "look"}
           /\ \A e \in Devices \ {d} : nextPacket(d)[e] = thread[e]
<1>1. Looking \in Thread
    BY SyncAssumption DEF Looking, Thread, Steps
<1>2. thread \in ThreadIn /\ Waits(thread)
    BY DEF ThreadsOK
<1>3. CASE thread[d].part + 1 \in Parts(thread[d].prop)
    <2> DEFINE t == [thread[d] EXCEPT !.pc = "send", !.part = @ + 1, !.packet = NoPacket]
    <2>1. thread[d] \in Thread
        BY <1>2 DEF ThreadIn
    <2>2. thread[d].part + 1 \in 1..2
        BY <1>3 DEF Parts
    <2>3. t \in Thread /\ t.pc = "send"
        BY <2>1, <2>2 DEF Thread, Steps
    <2>4. nextPacket(d) = [thread EXCEPT ![d] = t]
        BY <1>2, <1>3 DEF nextPacket, ThreadIn
    <2> HIDE DEF t
    <2> QED BY <1>2, <2>3, <2>4 DEF ThreadIn, Waits
<1>4. CASE thread[d].part + 1 \notin Parts(thread[d].prop)
    <2>1. nextPacket(d) = [thread EXCEPT ![d] = Looking]
        BY <1>4 DEF nextPacket
    <2>2. Looking.pc = "look"
        BY DEF Looking
    <2> HIDE DEF Looking
    <2> QED BY <1>1, <1>2, <2>1, <2>2 DEF ThreadIn, Waits
<1> QED BY <1>3, <1>4

\* What is transmitted takes a free slot; no link goes up or down by it.
LEMMA Transmits ==
    ASSUME TypeInv, NEW d \in Devices, NEW packet \in Packets,
           link[d].free[packet.via] > 0, transmit(d, packet)
    PROVE  /\ LinksOK' /\ FlyOK' /\ ThreadsOK'
           /\ \A e \in Devices : link'[e].via = link[e].via
           /\ thread'[d].pc \in {"send", "look"}
           /\ \A e \in Devices \ {d} : thread'[e] = thread[e]
           /\ changes' \in 0..MaxChanges /\ tangled' \in SUBSET {"media", "module", "refused"}
<1>1. packet.via \in Media
    BY DEF Packets
<1>2. link[d] \in LinkOf(d) /\ link \in [Devices -> Link]
    BY DEF TypeInv, LinksOK
<1>3. Take(link[d], packet.via) \in LinkOf(d) /\ Take(link[d], packet.via).via = link[d].via
    BY <1>1, <1>2, LinkOperators
<1>4. link' = link \/ link' = [link EXCEPT ![d] = Take(@, packet.via)]
    BY DEF transmit, accept, refuse
<1>5. LinksOK' /\ \A e \in Devices : link'[e].via = link[e].via
    <2>1. \A e \in Devices : link[e] \in LinkOf(e)
        BY DEF TypeInv, LinksOK
    <2>2. LinkOf(d) \subseteq Link
        BY DEF LinkOf
    <2> QED BY <1>2, <1>3, <1>4, <2>1, <2>2 DEF LinksOK
<1>6. FlyOK'
    <2> DEFINE S == Seq(Packets)
               row == [fly[d] EXCEPT ![packet.via] = Append(@, packet)]
    <2>1. fly' = fly \/ fly' = [fly EXCEPT ![d] = row]
        BY DEF transmit, accept, refuse
    <2>2. fly[d][packet.via] \in Seq(Packets)
        BY <1>1 DEF TypeInv, FlyOK
    <2>3. Append(fly[d][packet.via], packet) \in Seq(Packets)
        BY <2>2
    <2>4. fly \in [Devices -> [Media -> S]]
        BY DEF TypeInv, FlyOK
    <2>5. row \in [Media -> S]
        BY <1>1, <2>3, <2>4
    <2>6. fly' \in [Devices -> [Media -> S]]
        <3> HIDE DEF row, S
        <3> QED BY <2>1, <2>4, <2>5
    <2> QED BY <2>6 DEF FlyOK
<1>7. thread' = nextPacket(d)
    BY DEF transmit
<1>8. changes' \in 0..MaxChanges /\ tangled' \in SUBSET {"media", "module", "refused"}
    BY SyncAssumption DEF transmit, accept, refuse, TypeInv, RestOK
<1> QED BY <1>5, <1>6, <1>7, <1>8, NextPacketTyped DEF TypeInv, ThreadsOK

\* The packet that is prepared is one if there is a medium.
LEMMA PacketTyped ==
    ASSUME TypeInv, NEW d \in Devices, Packet(d).via # "none"
    PROVE  Packet(d) \in Packets
<1>1. thread[d].prop \in Synced /\ thread[d].part \in 1..2
    BY DEF TypeInv, ThreadsOK, ThreadIn, Thread
<1>2. determineChannel(link[d].open) \in Routes
    <2>1. link[d].open \in SUBSET Media
        BY DEF TypeInv, LinksOK, Link
    <2>2. "uart" \in link[d].open \/ link[d].open = {"bt"} \/ link[d].open = {}
        BY <2>1 DEF Media
    <2> QED BY <2>2 DEF determineChannel, Routes, Media
<1>3. \A p \in Data : mine[p] \in 0..1
    BY DEF TypeInv, DataOK
<1> QED BY <1>1, <1>2, <1>3 DEF Packet, Packets, Routes

-----------------------------------------------------------------------------
(* Every action keeps the types and the quiet.                             *)

\* What changes on either half marks the property at its source.
LEMMA UpdateKeeps ==
    ASSUME TypeInv, Quiet, NEW p \in Data, Update(p), changes' \in 0..MaxChanges
    PROVE  TypeInv' /\ Quiet'
<1> DEFINE d == SourceOf(p)
<1>1. d \in Devices /\ {p} \in SUBSET ToSet(Sends(d))
    BY MarksOwn
<1>2. invalidate(d, {p}, thread)
    BY DEF Update
<1>3. /\ DirtyOK' /\ ThreadsOK' /\ missed' \in [Devices -> BOOLEAN] /\ QuietAt(d)'
      /\ \A e \in Devices \ {d} :
           dirty'[e] = dirty[e] /\ thread'[e] = thread[e] /\ missed'[e] = missed[e]
    BY <1>1, <1>2, Invalidates DEF TypeInv, ThreadsOK, RestOK
<1>4. TypeInv'
    <2>1. mine' \in [Data -> 0..1]
        BY DEF TypeInv, DataOK, Update
    <2>2. LinksOK' /\ FlyOK' /\ DataOK'
        BY <2>1 DEF TypeInv, LinksOK, FlyOK, DataOK, Update
    <2>3. RestOK'
        BY <1>3 DEF TypeInv, RestOK, Update
    <2> QED BY <1>3, <2>2, <2>3 DEF TypeInv
<1>5. ASSUME NEW e \in Devices \ {d}
      PROVE  QuietAt(e)'
    <2>1. e = "Left" \/ Dark' = Dark
        <3>1. CASE p = "Backlight"
            <4>1. d = "Right"
                BY <3>1, WhoSends DEF SourceOf
            <4> QED BY <4>1 DEF Devices
        <3>2. CASE p # "Backlight"
            BY <3>2 DEF Dark, Update, TypeInv, DataOK
        <3> QED BY <3>1, <3>2
    <2>2. link' = link
        BY DEF Update
    <2> QED BY <1>3, <2>1, <2>2, StaysQuiet DEF TypeInv, Quiet
<1> HIDE DEF d
<1> QED BY <1>3, <1>4, <1>5 DEF Quiet

\* A new configuration marks all of the right half.
LEMMA ApplyConfigKeeps ==
    ASSUME TypeInv, Quiet, NEW b \in BOOLEAN, ApplyConfig(b), changes' \in 0..MaxChanges
    PROVE  TypeInv' /\ Quiet'
<1>1. "Right" \in Devices /\ ResetRightLeftLink("Right", b) \in SUBSET ToSet(Sends("Right"))
    BY MarksOwn DEF Devices
<1>2. invalidate("Right", ResetRightLeftLink("Right", b), thread)
    BY DEF ApplyConfig
<1>3. /\ DirtyOK' /\ ThreadsOK' /\ missed' \in [Devices -> BOOLEAN] /\ QuietAt("Right")'
      /\ \A e \in Devices \ {"Right"} :
           dirty'[e] = dirty[e] /\ thread'[e] = thread[e] /\ missed'[e] = missed[e]
    BY <1>1, <1>2, Invalidates DEF TypeInv, ThreadsOK, RestOK
<1>4. TypeInv'
    <2>1. mine' \in [Data -> 0..1]
        BY DEF TypeInv, DataOK, ApplyConfig
    <2>2. LinksOK' /\ FlyOK' /\ DataOK'
        BY <2>1 DEF TypeInv, LinksOK, FlyOK, DataOK, ApplyConfig
    <2>3. RestOK'
        BY <1>3 DEF TypeInv, RestOK, ApplyConfig
    <2> QED BY <1>3, <2>2, <2>3 DEF TypeInv
<1>5. QuietAt("Left")'
    <2>1. link' = link
        BY DEF ApplyConfig
    <2>2. "Left" \in Devices \ {"Right"}
        BY DEF Devices
    <2> QED BY <1>3, <2>1, <2>2, StaysQuiet DEF TypeInv, Quiet
<1> QED BY <1>3, <1>4, <1>5 DEF Quiet, Devices

\* A module that is attached is announced.
LEMMA ModuleAttachedKeeps ==
    ASSUME TypeInv, Quiet, ModuleAttached, changes' \in 0..MaxChanges
    PROVE  TypeInv' /\ Quiet'
<1>1. "Left" \in Devices /\ {"ModuleState"} \in SUBSET ToSet(Sends("Left"))
    BY WhoSends DEF Devices
<1>2. invalidate("Left", {"ModuleState"}, thread)
    BY DEF ModuleAttached
<1>3. /\ DirtyOK' /\ ThreadsOK' /\ missed' \in [Devices -> BOOLEAN] /\ QuietAt("Left")'
      /\ \A e \in Devices \ {"Left"} :
           dirty'[e] = dirty[e] /\ thread'[e] = thread[e] /\ missed'[e] = missed[e]
    BY <1>1, <1>2, Invalidates DEF TypeInv, ThreadsOK, RestOK
<1>4. TypeInv'
    <2>1. mine' \in [Data -> 0..1]
        BY DEF TypeInv, DataOK, ModuleAttached
    <2>2. LinksOK' /\ FlyOK' /\ DataOK'
        BY <2>1 DEF TypeInv, LinksOK, FlyOK, DataOK, ModuleAttached
    <2>3. tangled' \subseteq tangled \cup {"module"}
        BY Zenon DEF ModuleAttached
    <2>4. listed' \in 0..1 /\ up' = up
        BY DEF ModuleAttached
    <2>5. tangled' \in SUBSET {"media", "module", "refused"}
        BY <2>3 DEF TypeInv, RestOK
    <2>6. RestOK'
        BY <1>3, <2>4, <2>5 DEF TypeInv, RestOK
    <2> QED BY <1>3, <2>2, <2>6 DEF TypeInv
<1>5. QuietAt("Right")'
    <2>1. link' = link /\ Dark' = Dark
        BY DEF ModuleAttached, Dark, TypeInv, DataOK
    <2>2. "Right" \in Devices \ {"Left"}
        BY DEF Devices
    <2> QED BY <1>3, <2>1, <2>2, StaysQuiet DEF TypeInv, Quiet
<1> QED BY <1>3, <1>4, <1>5 DEF Quiet, Devices

\* A module that is gone is marked when it is struck off the list.
LEMMA ModuleUnlistedKeeps ==
    ASSUME TypeInv, Quiet, ModuleUnlisted
    PROVE  TypeInv' /\ Quiet'
<1>1. "Left" \in Devices /\ {"ModuleGone"} \in SUBSET ToSet(Sends("Left"))
    BY WhoSends DEF Devices
<1>2. invalidate("Left", {"ModuleGone"}, thread)
    BY DEF ModuleUnlisted
<1>3. /\ DirtyOK' /\ ThreadsOK' /\ missed' \in [Devices -> BOOLEAN] /\ QuietAt("Left")'
      /\ \A e \in Devices \ {"Left"} :
           dirty'[e] = dirty[e] /\ thread'[e] = thread[e] /\ missed'[e] = missed[e]
    BY <1>1, <1>2, Invalidates DEF TypeInv, ThreadsOK, RestOK
<1>4. TypeInv'
    <2>1. LinksOK' /\ FlyOK' /\ DataOK'
        BY DEF TypeInv, LinksOK, FlyOK, DataOK, ModuleUnlisted
    <2>2. RestOK'
        BY <1>3 DEF TypeInv, RestOK, ModuleUnlisted
    <2> QED BY <1>3, <2>1, <2>2 DEF TypeInv
<1>5. QuietAt("Right")'
    <2>1. link' = link /\ Dark' = Dark
        BY DEF ModuleUnlisted, Dark
    <2>2. "Right" \in Devices \ {"Left"}
        BY DEF Devices
    <2> QED BY <1>3, <2>1, <2>2, StaysQuiet DEF TypeInv, Quiet
<1> QED BY <1>3, <1>4, <1>5 DEF Quiet, Devices

\* What leaves the marks, the threads and the routes alone keeps the quiet.
LEMMA Untouched ==
    ASSUME TypeInv, Quiet, UNCHANGED <<dirty, thread, missed>>, Dark' = Dark,
           \A e \in Devices : link'[e].via = link[e].via
    PROVE  Quiet'
<1>1. DirtyOK'
    BY DEF TypeInv, DirtyOK
<1> QED BY <1>1, StaysQuiet DEF TypeInv, Quiet

\* Nobody is told of a module that is pulled.
LEMMA ModuleDetachedKeeps ==
    ASSUME TypeInv, Quiet, ModuleDetached, changes' \in 0..MaxChanges
    PROVE  TypeInv' /\ Quiet'
<1>1. mine' \in [Data -> 0..1] /\ Dark' = Dark
    BY DEF TypeInv, DataOK, ModuleDetached, Dark
<1>2. TypeInv'
    BY <1>1 DEF TypeInv, LinksOK, DirtyOK, ThreadsOK, FlyOK, DataOK, RestOK, ModuleDetached
<1>3. UNCHANGED <<dirty, thread, missed, link>>
    BY DEF ModuleDetached
<1> QED BY <1>1, <1>2, <1>3, Untouched

\* A medium that breaks takes the packets with it and frees what UART holds.
LEMMA BreakKeeps ==
    ASSUME TypeInv, Quiet, NEW m \in Media, Break(m), changes' \in 0..MaxChanges
    PROVE  TypeInv' /\ Quiet'
<1>1. FlyOK'
    <2>1. <<>> \in Seq(Packets)
        OBVIOUS
    <2> HIDE DEF Packets
    <2> QED BY <2>1 DEF TypeInv, FlyOK, Break
<1>2. LinksOK' /\ \A e \in Devices : link'[e].via = link[e].via
    <2>1. CASE m = "bt"
        BY <2>1 DEF Break, TypeInv, LinksOK
    <2>2. CASE m # "bt"
        <3>1. link' = [d \in Devices |-> [link[d] EXCEPT !.free[m] = Slots(d, m)]]
            BY <2>2 DEF Break
        <3>2. \A d \in Devices : [link[d] EXCEPT !.free[m] = Slots(d, m)] \in LinkOf(d)
            BY LinkOperators DEF TypeInv, LinksOK
        <3>3. \A d \in Devices : LinkOf(d) \subseteq Link
            BY DEF LinkOf
        <3>4. \A d \in Devices : [link[d] EXCEPT !.free[m] = Slots(d, m)].via = link[d].via
            BY DEF TypeInv, LinksOK, Link
        <3> QED BY <3>1, <3>2, <3>3, <3>4 DEF LinksOK
    <2> QED BY <2>1, <2>2
<1>3. TypeInv'
    BY <1>1, <1>2 DEF TypeInv, DirtyOK, ThreadsOK, DataOK, RestOK, Break
<1>4. UNCHANGED <<dirty, thread, missed>> /\ Dark' = Dark
    BY DEF Break, Dark
<1> QED BY <1>2, <1>3, <1>4, Untouched

\* A medium that works again changes nothing yet.
LEMMA RestoreKeeps ==
    ASSUME TypeInv, Quiet, NEW m \in Media, Restore(m), changes' \in 0..MaxChanges
    PROVE  TypeInv' /\ Quiet'
<1>1. TypeInv'
    BY DEF TypeInv, LinksOK, DirtyOK, ThreadsOK, FlyOK, DataOK, RestOK, Restore
<1>2. UNCHANGED <<dirty, thread, missed, link>> /\ Dark' = Dark
    BY DEF Restore, Dark
<1> QED BY <1>1, <1>2, Untouched

\* A new connection resets the link, any other change of the media leaves the
\* marks alone: half d of which the link becomes new, with threads t.
LEMMA TransitionKeeps ==
    ASSUME TypeInv, Quiet, NEW d \in Devices, NEW new \in LinkOf(d),
           NEW t \in ThreadIn, Waits(t),
           \A e \in Devices : t[e] = thread[e] \/ t[e].pc = "stuck",
           link' = [link EXCEPT ![d] = new], handleStateTransition(d, new, t),
           mine' = mine
    PROVE  LinksOK' /\ DirtyOK' /\ ThreadsOK' /\ DataOK' /\ missed' \in [Devices -> BOOLEAN]
           /\ Quiet'
<1>1. LinksOK'
    BY DEF TypeInv, LinksOK, LinkOf
<1>2. DataOK'
    <2>1. copy' = copy \/ ("ModuleState" \in Data /\ copy' = [copy EXCEPT !["ModuleState"] = [i \in {1} |-> 0]])
        BY DEF handleStateTransition
    <2>2. Parts("ModuleState") = {1}
        BY DEF Parts
    <2> QED BY <2>1, <2>2 DEF TypeInv, DataOK
<1>3. Dark' = Dark
    BY DEF Dark
<1>4. \A e \in Devices \ {d} : link'[e] = link[e]
    BY DEF TypeInv, LinksOK
<1>5. CASE Connects(link[d], new)
    <2>1. invalidate(d, ResetRightLeftLink(d, TRUE), t)
        BY <1>5 DEF handleStateTransition
    <2>2. /\ DirtyOK' /\ ThreadsOK' /\ missed' \in [Devices -> BOOLEAN] /\ QuietAt(d)'
          /\ \A e \in Devices \ {d} :
               dirty'[e] = dirty[e] /\ thread'[e] = t[e] /\ missed'[e] = missed[e]
        BY <2>1, MarksOwn, Invalidates DEF TypeInv, ThreadsOK, RestOK
    <2>3. ASSUME NEW e \in Devices \ {d}
          PROVE  QuietAt(e)'
        BY <1>3, <1>4, <2>2, StaysQuiet DEF TypeInv, Quiet
    <2> QED BY <1>1, <1>2, <2>2, <2>3 DEF Quiet
<1>6. CASE ~Connects(link[d], new)
    <2>1. thread' = t /\ UNCHANGED <<dirty, missed>>
        BY <1>6 DEF handleStateTransition
    <2>2. DirtyOK' /\ ThreadsOK' /\ missed' \in [Devices -> BOOLEAN]
        BY <2>1 DEF TypeInv, DirtyOK, ThreadsOK, RestOK, Waits
    <2>3. link'[d].via # "none" => link[d].via # "none"
        BY <1>6 DEF Connects, TypeInv, LinksOK
    <2>4. ASSUME NEW e \in Devices
          PROVE  QuietAt(e)'
        BY <1>3, <1>4, <2>1, <2>2, <2>3, StaysQuiet DEF TypeInv, Quiet
    <2> QED BY <1>1, <1>2, <2>2, <2>4 DEF Quiet
<1> QED BY <1>5, <1>6

\* A medium comes up.
LEMMA ConnectKeeps ==
    ASSUME TypeInv, Quiet, NEW d \in Devices, NEW m \in Media, Connect(d, m)
    PROVE  TypeInv' /\ Quiet'
<1> DEFINE new == SetConnected(link[d], m)
<1>1. new \in LinkOf(d)
    BY LinkOperators DEF TypeInv, LinksOK
<1>2. link' = [link EXCEPT ![d] = new] /\ handleStateTransition(d, new, thread) /\ mine' = mine
    BY DEF Connect
<1>3. LinksOK' /\ DirtyOK' /\ ThreadsOK' /\ DataOK' /\ missed' \in [Devices -> BOOLEAN] /\ Quiet'
    <2> HIDE DEF new
    <2> QED BY <1>1, <1>2, TransitionKeeps DEF TypeInv, ThreadsOK
<1> QED BY <1>3 DEF TypeInv, FlyOK, RestOK, Connect

\* A medium is noticed to be down; a thread that waits for it may be stuck.
LEMMA NoticeKeeps ==
    ASSUME TypeInv, Quiet, NEW d \in Devices, NEW m \in Media,
           NEW handedBack \in BOOLEAN, Notice(d, m, handedBack)
    PROVE  TypeInv' /\ Quiet'
<1> DEFINE new == SetDisconnected(link[d], d, m)
           t == IF handedBack THEN thread ELSE stranded(d, m)
<1>1. new \in LinkOf(d)
    BY LinkOperators DEF TypeInv, LinksOK
<1>2. link' = [link EXCEPT ![d] = new] /\ handleStateTransition(d, new, t) /\ mine' = mine
    BY DEF Notice
<1>3. t \in ThreadIn /\ Waits(t) /\ \A e \in Devices : t[e] = thread[e] \/ t[e].pc = "stuck"
    BY DEF stranded, TypeInv, ThreadsOK, ThreadIn, Thread, Steps, Waits
<1>4. LinksOK' /\ DirtyOK' /\ ThreadsOK' /\ DataOK' /\ missed' \in [Devices -> BOOLEAN] /\ Quiet'
    <2> HIDE DEF new, t
    <2> QED BY <1>1, <1>2, <1>3, TransitionKeeps
<1> QED BY <1>4 DEF TypeInv, FlyOK, RestOK, Notice

\* A packet arrives and may reset the link of the other half.
LEMMA DeliverKeeps ==
    ASSUME TypeInv, Quiet, NEW d \in Devices, NEW m \in Media, Deliver(d, m)
    PROVE  TypeInv' /\ Quiet'
<1> DEFINE e == Other(d)
           packet == Head(fly[d][m])
           heard == IF m = "bt" /\ e = "Left" THEN SetConnected(link[e], m) ELSE link[e]
           given == Give(link[d], d, m)
<1>1. e \in Devices /\ d # e /\ Devices = {d, e}
    BY DEF Other, Devices
<1>2. packet \in Packets /\ Tail(fly[d][m]) \in Seq(Packets)
    <2>1. fly[d][m] \in Seq(Packets) /\ fly[d][m] # <<>>
        BY DEF TypeInv, FlyOK, Deliver
    <2> QED BY <2>1
<1>3. heard \in LinkOf(e) /\ given \in LinkOf(d) /\ given.via = link[d].via
    BY <1>1, LinkOperators DEF TypeInv, LinksOK
<1>4. link' = [link EXCEPT ![e] = heard, ![d] = given]
    BY <1>1 DEF Deliver, TypeInv, LinksOK
<1>5. LinksOK'
    <2> HIDE DEF e, heard, given
    <2> QED BY <1>1, <1>3, <1>4 DEF TypeInv, LinksOK, LinkOf
<1>6. FlyOK'
    <2> DEFINE S == Seq(Packets)
               row == [fly[d] EXCEPT ![m] = Tail(@)]
    <2>1. fly' = [fly EXCEPT ![d] = row]
        BY DEF Deliver
    <2>2. fly \in [Devices -> [Media -> S]] /\ row \in [Media -> S]
        BY <1>2 DEF TypeInv, FlyOK
    <2> HIDE DEF row, S
    <2>3. fly' \in [Devices -> [Media -> S]]
        BY <2>1, <2>2
    <2> QED BY <2>3 DEF FlyOK, S
<1>7. DataOK'
    <2>1. copy' = received(packet) /\ mine' = mine
        BY DEF Deliver
    <2>2. packet.prop \in Synced /\ packet.val \in 0..1
        BY <1>2 DEF Packets
    <2> HIDE DEF packet
    <2>3. CASE packet.prop \in Data
        <3>1. copy' = [copy EXCEPT ![packet.prop] = [copy[packet.prop] EXCEPT ![packet.part] = packet.val]]
            <4>1. packet.prop # "ModuleGone"
                BY <2>3 DEF Data, Events
            <4> QED BY <2>1, <2>3, <4>1 DEF received
        <3>2. [copy[packet.prop] EXCEPT ![packet.part] = packet.val] \in [Parts(packet.prop) -> 0..1]
            BY <2>2, <2>3 DEF TypeInv, DataOK
        <3> QED BY <2>1, <2>3, <3>1, <3>2 DEF TypeInv, DataOK
    <2>4. CASE packet.prop \notin Data /\ packet.prop = "ModuleGone"
        <3>1. copy' = [copy EXCEPT !["ModuleState"] = [i \in {1} |-> 0]]
            BY <2>1, <2>4 DEF received
        <3>2. Parts("ModuleState") = {1}
            BY DEF Parts
        <3> QED BY <2>1, <3>1, <3>2 DEF TypeInv, DataOK
    <2>5. CASE packet.prop \notin Data /\ packet.prop # "ModuleGone"
        BY <2>1, <2>5 DEF received, TypeInv, DataOK
    <2> QED BY <2>3, <2>4, <2>5
<1>8. Dark' = Dark
    BY DEF Deliver, Dark
<1>9. /\ DirtyOK' /\ ThreadsOK' /\ missed' \in [Devices -> BOOLEAN] /\ QuietAt(e)'
      /\ dirty'[d] = dirty[d] /\ thread'[d] = thread[d] /\ missed'[d] = missed[d]
    <2> DEFINE b == Connects(link[e], heard)
    <2>1. CASE b \/ packet.prop = "Reset"
        <3>1. invalidate(e, ResetRightLeftLink(e, b), thread)
            BY <2>1 DEF Deliver
        <3>2. b \in BOOLEAN
            BY DEF Connects
        <3> HIDE DEF b, e
        <3> QED BY <1>1, <3>1, <3>2, MarksOwn, Invalidates DEF TypeInv, ThreadsOK, RestOK
    <2>2. CASE ~(b \/ packet.prop = "Reset")
        <3>1. UNCHANGED <<dirty, thread, missed>>
            BY <2>2 DEF Deliver, KeepDirty
        <3>2. DirtyOK' /\ ThreadsOK' /\ missed' \in [Devices -> BOOLEAN]
            BY <3>1 DEF TypeInv, DirtyOK, ThreadsOK, RestOK, Waits
        <3>3. link'[e].via # "none" => link[e].via # "none"
            <4>1. link'[e] = heard
                <5> HIDE DEF e, heard, given
                <5> QED BY <1>1, <1>4 DEF TypeInv, LinksOK
            <4> QED BY <2>2, <4>1 DEF Connects
        <3> HIDE DEF e, heard
        <3> QED BY <1>1, <1>8, <3>1, <3>2, <3>3, StaysQuiet DEF TypeInv, Quiet
    <2> QED BY <2>1, <2>2
<1>10. QuietAt(d)'
    <2>1. link'[d].via = link[d].via
        <3> HIDE DEF e, heard, given
        <3> QED BY <1>1, <1>3, <1>4 DEF TypeInv, LinksOK
    <2> QED BY <1>8, <1>9, <2>1, StaysQuiet DEF TypeInv, Quiet
<1>11. RestOK'
    <2>1. tangled' \subseteq tangled \cup {"media"}
        BY Zenon DEF Deliver
    <2> QED BY <1>9, <2>1 DEF TypeInv, RestOK, Deliver
<1> HIDE DEF e
<1> QED BY <1>1, <1>5, <1>6, <1>7, <1>9, <1>10, <1>11 DEF TypeInv, Quiet

\* The thread rests only if it finds nothing to send.
LEMMA LookKeeps ==
    ASSUME TypeInv, Quiet, NEW d \in Devices, Look(d)
    PROVE  TypeInv' /\ Quiet'
<1>1. thread \in ThreadIn /\ thread[d].pc = "look"
    BY DEF TypeInv, ThreadsOK, Look
<1>2. Dark' = Dark /\ link' = link /\ missed' = missed
    BY DEF Look, Dark
<1>3. CASE link[d].via = "none" \/ Sendable(d) = {}
    <2>1. thread' = [thread EXCEPT ![d].pc = "drowsy"] /\ dirty' = dirty
        BY <1>3 DEF Look
    <2>2. ThreadsOK' /\ DirtyOK'
        BY <1>1, <2>1 DEF TypeInv, DirtyOK, ThreadsOK, ThreadIn, Thread, Steps, Waits
    <2>3. \A e \in Devices \ {d} : thread'[e] = thread[e]
        BY <1>1, <2>1 DEF ThreadIn
    <2>4. QuietAt(d)'
        BY <1>2, <1>3, <2>1 DEF QuietAt, Sendable
    <2>5. ASSUME NEW e \in Devices \ {d}
          PROVE  QuietAt(e)'
        BY <1>2, <2>1, <2>2, <2>3, StaysQuiet DEF TypeInv, Quiet
    <2> QED BY <2>2, <2>4, <2>5 DEF Look, TypeInv, LinksOK, FlyOK, DataOK, RestOK, Quiet
<1>4. CASE ~(link[d].via = "none" \/ Sendable(d) = {})
    <2> DEFINE p == First(d)
    <2>1. p \in Synced
        BY <1>4, FirstSendable DEF TypeInv
    <2>2. /\ thread' = [thread EXCEPT ![d].pc = "send", ![d].prop = p]
          /\ dirty' = [dirty EXCEPT ![d] = @ \ {p}]
        BY <1>4 DEF Look
    <2> HIDE DEF p
    <2>3. ThreadsOK' /\ DirtyOK'
        BY <1>1, <2>1, <2>2 DEF TypeInv, DirtyOK, ThreadsOK, ThreadIn, Thread, Steps, Waits
    <2>4. \A e \in Devices \ {d} : thread'[e] = thread[e] /\ dirty'[e] = dirty[e]
        BY <1>1, <2>2 DEF ThreadIn, TypeInv, DirtyOK
    <2>5. thread'[d].pc = "send"
        BY <1>1, <2>2 DEF ThreadIn, Thread
    <2>6. QuietAt(d)'
        BY <2>5 DEF QuietAt
    <2>7. ASSUME NEW e \in Devices \ {d}
          PROVE  QuietAt(e)'
        BY <1>2, <2>3, <2>4, StaysQuiet DEF TypeInv, Quiet
    <2> QED BY <2>3, <2>6, <2>7 DEF Look, TypeInv, LinksOK, FlyOK, DataOK, RestOK, Quiet
<1> QED BY <1>3, <1>4

\* A thread that goes on, and nothing else that matters, keeps the quiet.
LEMMA ThreadMoves ==
    ASSUME TypeInv, Quiet, NEW d \in Devices, UNCHANGED <<dirty, missed, mine>>,
           \A e \in Devices : link'[e].via = link[e].via,
           thread'[d].pc \notin {"drowsy", "asleep"},
           \A e \in Devices \ {d} : thread'[e] = thread[e]
    PROVE  Quiet'
<1>1. DirtyOK' /\ Dark' = Dark
    BY DEF TypeInv, DirtyOK, Dark
<1> QED BY <1>1, StaysQuiet DEF TypeInv, Quiet

\* A packet is dropped, transmitted, or waited with.
LEMMA SendKeeps ==
    ASSUME TypeInv, Quiet, NEW d \in Devices, Send(d)
    PROVE  TypeInv' /\ Quiet'
<1> DEFINE packet == Packet(d)
<1>1. thread \in ThreadIn /\ Waits(thread)
    BY DEF TypeInv, ThreadsOK
<1>2. UNCHANGED <<dirty, missed, mine>>
    BY DEF Send
<1>3. CASE packet.via = "none"
    <2>1. thread' = nextPacket(d) /\ UNCHANGED <<link, fly, changes, tangled>>
        BY <1>3 DEF Send
    <2>2. /\ ThreadsOK' /\ thread'[d].pc \in {"send", "look"}
          /\ \A e \in Devices \ {d} : thread'[e] = thread[e]
        BY <2>1, NextPacketTyped DEF TypeInv, ThreadsOK
    <2>3. Quiet'
        BY <1>2, <2>1, <2>2, ThreadMoves
    <2> QED BY <2>1, <2>2, <2>3 DEF Send, TypeInv, LinksOK, DirtyOK, FlyOK, DataOK, RestOK
<1>4. CASE packet.via # "none"
    <2>1. packet \in Packets
        BY <1>4, PacketTyped
    <2>2. CASE link[d].free[packet.via] > 0
        <3>1. transmit(d, packet)
            BY <1>4, <2>2 DEF Send
        <3> HIDE DEF packet
        <3>2. /\ LinksOK' /\ FlyOK' /\ ThreadsOK'
              /\ \A e \in Devices : link'[e].via = link[e].via
              /\ thread'[d].pc \in {"send", "look"}
              /\ \A e \in Devices \ {d} : thread'[e] = thread[e]
              /\ changes' \in 0..MaxChanges /\ tangled' \in SUBSET {"media", "module", "refused"}
            BY <2>1, <2>2, <3>1, Transmits
        <3>3. Quiet'
            BY <1>2, <3>2, ThreadMoves
        <3> QED BY <3>2, <3>3 DEF Send, TypeInv, DirtyOK, DataOK, RestOK
    <2>3. CASE ~(link[d].free[packet.via] > 0)
        <3>1. thread' = [thread EXCEPT ![d].pc = "wait", ![d].packet = packet]
              /\ UNCHANGED <<link, fly, changes, tangled>>
            BY <1>4, <2>3 DEF Send
        <3> HIDE DEF packet
        <3>2. /\ ThreadsOK' /\ thread'[d].pc = "wait"
              /\ \A e \in Devices \ {d} : thread'[e] = thread[e]
            BY <1>1, <2>1, <3>1 DEF ThreadsOK, ThreadIn, Thread, Steps, Waits
        <3>3. Quiet'
            BY <1>2, <3>1, <3>2, ThreadMoves
        <3> QED BY <3>1, <3>2, <3>3 DEF Send, TypeInv, LinksOK, DirtyOK, FlyOK, DataOK, RestOK
    <2> QED BY <2>2, <2>3
<1> QED BY <1>3, <1>4

\* A thread that waited for a slot transmits.
LEMMA ResumeKeeps ==
    ASSUME TypeInv, Quiet, NEW d \in Devices, Resume(d)
    PROVE  TypeInv' /\ Quiet'
<1> DEFINE packet == thread[d].packet
<1>1. packet \in Packets /\ link[d].free[packet.via] > 0 /\ transmit(d, packet)
    BY DEF Resume, TypeInv, ThreadsOK, Waits
<1>2. UNCHANGED <<dirty, missed, mine>>
    BY DEF Resume
<1> HIDE DEF packet
<1>3. /\ LinksOK' /\ FlyOK' /\ ThreadsOK'
      /\ \A e \in Devices : link'[e].via = link[e].via
      /\ thread'[d].pc \in {"send", "look"}
      /\ \A e \in Devices \ {d} : thread'[e] = thread[e]
      /\ changes' \in 0..MaxChanges /\ tangled' \in SUBSET {"media", "module", "refused"}
    BY <1>1, Transmits
<1>4. Quiet'
    BY <1>2, <1>3, ThreadMoves
<1> QED BY <1>3, <1>4 DEF Resume, TypeInv, DirtyOK, DataOK, RestOK

\* A drowsy thread falls asleep.
LEMMA SleepKeeps ==
    ASSUME TypeInv, Quiet, NEW d \in Devices, Sleep(d)
    PROVE  TypeInv' /\ Quiet'
<1>1. /\ ThreadsOK' /\ UNCHANGED <<link, dirty, missed, mine>>
      /\ \A e \in Devices : thread'[e].pc \in {"drowsy", "asleep"} => thread[e].pc \in {"drowsy", "asleep"}
    BY DEF Sleep, TypeInv, ThreadsOK, ThreadIn, Thread, Steps, Waits
<1>2. DirtyOK' /\ Dark' = Dark
    BY <1>1 DEF TypeInv, DirtyOK, Dark
<1>3. Quiet'
    BY <1>1, <1>2, StaysQuiet DEF TypeInv, Quiet
<1> QED BY <1>1, <1>2, <1>3 DEF Sleep, TypeInv, LinksOK, FlyOK, DataOK, RestOK

-----------------------------------------------------------------------------
(* The theorems.                                                           *)

\* Before anything has happened both halves have typed, clean states.
LEMMA InitHolds == Init => TypeInv /\ Quiet
<1> SUFFICES ASSUME Init PROVE TypeInv /\ Quiet
    OBVIOUS
<1>1. LinksOK
    BY DEF Init, LinksOK, LinkOf, Link, Unlinked, AllFree, Slots, Routes
<1>2. DirtyOK
    BY DEF Init, DirtyOK
<1>3. ThreadsOK /\ \A d \in Devices : thread[d].pc = "look"
    BY SyncAssumption DEF Init, ThreadsOK, ThreadIn, Thread, Waits, Looking, Steps
<1>4. FlyOK
    <2>1. <<>> \in Seq(Packets)
        OBVIOUS
    <2> HIDE DEF Packets
    <2> QED BY <2>1 DEF Init, FlyOK
<1>5. DataOK
    BY DEF Init, DataOK, Parts
<1>6. RestOK
    BY SyncAssumption DEF Init, RestOK
<1>7. Quiet
    BY <1>3 DEF Quiet, QuietAt
<1> QED BY <1>1, <1>2, <1>3, <1>4, <1>5, <1>6, <1>7 DEF TypeInv

\* No step of the world, of a callback or of a thread breaks the invariant.
LEMMA NextKeeps == TypeInv /\ Quiet /\ [Next]_vars => TypeInv' /\ Quiet'
<1> SUFFICES ASSUME TypeInv, Quiet, [Next]_vars
             PROVE  TypeInv' /\ Quiet'
    OBVIOUS
<1>1. CASE World
    <2>1. changes' \in 0..MaxChanges
        BY <1>1, SyncAssumption DEF World, TypeInv, RestOK
    <2>2. CASE \E p \in Data : Update(p)
        BY <2>1, <2>2, UpdateKeeps
    <2>3. CASE \E b \in BOOLEAN : ApplyConfig(b)
        BY <2>1, <2>3, ApplyConfigKeeps
    <2>4. CASE ModuleAttached
        BY <2>1, <2>4, ModuleAttachedKeeps
    <2>5. CASE ModuleDetached
        BY <2>1, <2>5, ModuleDetachedKeeps
    <2>6. CASE \E m \in Media : Break(m) \/ Restore(m)
        BY <2>1, <2>6, BreakKeeps, RestoreKeeps
    <2> QED BY <1>1, <2>2, <2>3, <2>4, <2>5, <2>6 DEF World
<1>2. CASE Callbacks
    <2>1. CASE ModuleUnlisted
        BY <2>1, ModuleUnlistedKeeps
    <2>2. ASSUME NEW d \in Devices, NEW m \in Media, Connect(d, m)
          PROVE  TypeInv' /\ Quiet'
        BY <2>2, ConnectKeeps
    <2>3. ASSUME NEW d \in Devices, NEW m \in Media, NEW handedBack \in HandsBack(d, m),
                 Notice(d, m, handedBack)
          PROVE  TypeInv' /\ Quiet'
        BY <2>3, NoticeKeeps DEF HandsBack
    <2>4. ASSUME NEW d \in Devices, NEW m \in Media, Deliver(d, m)
          PROVE  TypeInv' /\ Quiet'
        BY <2>4, DeliverKeeps
    <2> QED BY <1>2, <2>1, <2>2, <2>3, <2>4 DEF Callbacks
<1>3. CASE \E d \in Devices : SyncThread(d)
    BY <1>3, LookKeeps, SendKeeps, ResumeKeeps, SleepKeeps DEF SyncThread
<1>4. CASE UNCHANGED vars
    <2>1. TypeInv'
        BY <1>4 DEF vars, TypeInv, LinksOK, DirtyOK, ThreadsOK, FlyOK, DataOK, RestOK, Waits
    <2>2. UNCHANGED <<dirty, thread, missed, link>> /\ Dark' = Dark
        BY <1>4 DEF vars, Dark
    <2> QED BY <2>1, <2>2, Untouched
<1> QED BY <1>1, <1>2, <1>3, <1>4 DEF Next, System

\* Both invariants hold in every behaviour.
LEMMA Invariant == Spec => [](TypeInv /\ Quiet)
BY InitHolds, NextKeeps, PTL DEF Spec

\* Every variable of the halves, the threads and the media keeps its type,
\* and no semaphore counts above its limit (state_sync.c, device_state.c,
\* nus_server.c, nus_client.c, uart.c).
THEOREM TypeCorrect == Spec => []TypeOK
<1>1. TypeInv => TypeOK
    BY DEF TypeInv, LinksOK, LinkOf, Link, DirtyOK, ThreadsOK, ThreadIn, Thread, FlyOK, DataOK,
           RestOK, TypeOK, Slots
<1> QED BY <1>1, Invariant, PTL

\* A sync thread that sleeps has nothing it could send, unless a wake-up came
\* between its last look and its k_sleep (syncThreadLoop, state_sync.c:588).
THEOREM SleepingMeansDone == Spec => []SleepsWhenDone
<1>1. Quiet => SleepsWhenDone
    BY DEF Quiet, QuietAt, SleepsWhenDone
<1> QED BY <1>1, Invariant, PTL

-----------------------------------------------------------------------------
(* What is on its way to the other half.                                   *)

\* The data of half d.
Own(d) == {p \in Data : SourceOf(p) = d}

\* Packet k carries part i of p; that a module is gone is its state as well.
Hits(k, p, i) ==
    \/ k.prop = p /\ k.part = i
    \/ k.prop = "ModuleGone" /\ p = "ModuleState"
Says(k) == IF k.prop \in Data THEN k.val ELSE 0

\* A queue of packets tells something about part i of p; after it, a copy that
\* was c is x.
Told(q, p, i) == \E k \in DOMAIN q : Hits(q[k], p, i)
LeadsTo(q, c, x, p, i) ==
    \/ \E k \in DOMAIN q : /\ Hits(q[k], p, i) /\ Says(q[k]) = x
                           /\ \A j \in DOMAIN q : Hits(q[j], p, i) => j <= k
    \/ c = x /\ ~Told(q, p, i)

\* The packets of half d on the medium it uses, with the one its thread waits
\* to send there.
Pipe(d) ==
    LET v == link[d].via IN
    IF v = "none" THEN <<>>
    ELSE IF thread[d].pc = "wait" /\ thread[d].packet.via = v
           THEN Append(fly[d][v], thread[d].packet)
           ELSE fly[d][v]

\* The thread of half d still has to read part i of p, or will read it again.
AboutTo(d, p, i) ==
    \/ thread[d].pc = "send" /\ thread[d].prop = p /\ thread[d].part <= i
    \/ thread[d].pc = "wait" /\ thread[d].prop = p /\ thread[d].part < i
    \/ thread[d].pc = "send" /\ thread[d].prop = "ModuleGone" /\ p = "ModuleState"
ToCome(d, p, i) ==
    \/ p \in dirty[d] \/ AboutTo(d, p, i)
    \/ p = "ModuleState" /\ "ModuleGone" \in dirty[d]

\* The right half has asked the left half for everything, or will ask.
Asked ==
    \/ "Reset" \in dirty["Right"]
    \/ thread["Right"].pc = "send" /\ thread["Right"].prop = "Reset"
    \/ \E k \in DOMAIN Pipe("Right") : Pipe("Right")[k].prop = "Reset"
    \/ WillReset("Right")

\* The other half will have part i of p right: it is still to be read, or what is
\* on its way leads to it; what is left on the other medium will be corrected.
Kept(d, p, i) ==
    tangled = {} /\ link[d].via \in up =>
       /\ \/ ToCome(d, p, i)
          \/ LeadsTo(Pipe(d), copy[p][i], mine[p], p, i)
          \/ p = "ModuleState" /\ (listed # mine[p] \/ Asked)
       /\ \A m \in Media \ {link[d].via} :
            Told(fly[d][m], p, i) => ToCome(d, p, i) \/ Told(Pipe(d), p, i)
AllKept == \A d \in Devices : \A p \in Own(d) : \A i \in Parts(p) : Kept(d, p, i)

\* A thread that waits for a medium that is not used any more, or forever, has
\* everything to send again.
Behind(d) ==
    /\ link[d].via # "none"
    /\ thread[d].pc = "stuck" \/ (thread[d].pc = "wait" /\ thread[d].packet.via # link[d].via)
    => Own(d) \cup {"Reset"} \subseteq dirty[d]

\* Route, thread and packets of half d belong together.
Routed(l) == l.via = determineChannel(l.open)
InStep(d, t) ==
    /\ t.pc \in {"look", "drowsy", "asleep"} => t.part = 1
    /\ t.pc \in {"wait", "stuck"} => t.packet.prop = t.prop /\ t.packet.part = t.part
    /\ t.prop \in ToSet(Sends(d))
OwnOnly(d, q) == \A k \in DOMAIN q : q[k].prop \in ToSet(Sends(d))
Steady(d) ==
    Routed(link[d]) /\ InStep(d, thread[d]) /\ \A m \in Media : OwnOnly(d, fly[d][m])

\* A module that is there is listed; that one is gone is marked, or about to be
\* sent, only while it is, or its state is sent after it.
Listed ==
    "ModuleState" \in Data =>
       /\ mine["ModuleState"] = 1 => listed = 1
       /\ tangled = {} =>
            /\ "ModuleGone" \in dirty["Left"] => mine["ModuleState"] = 0
            /\ thread["Left"].pc = "send" /\ thread["Left"].prop = "ModuleGone" =>
                 mine["ModuleState"] = 0 \/ "ModuleState" \in dirty["Left"]

Trusted == AllKept /\ Listed /\ \A d \in Devices : Behind(d) /\ Steady(d)

\* A packet at the end of a queue has the last word.
LEMMA ToldByAppend ==
    ASSUME NEW q \in Seq(Packets), NEW k \in Packets, NEW c, NEW x, NEW p, NEW i
    PROVE  /\ Append(q, k) \in Seq(Packets)
           /\ Told(Append(q, k), p, i) <=> Hits(k, p, i) \/ Told(q, p, i)
           /\ LeadsTo(Append(q, k), c, x, p, i) <=>
                IF Hits(k, p, i) THEN Says(k) = x ELSE LeadsTo(q, c, x, p, i)
<1> DEFINE r == Append(q, k)
           n == Len(q)
<1>1. /\ n \in Nat /\ DOMAIN q = 1..n /\ r \in Seq(Packets) /\ DOMAIN r = 1..(n + 1)
      /\ r[n + 1] = k /\ \A j \in 1..n : r[j] = q[j]
    BY AppendProperties, LenProperties
<1> HIDE DEF r, n
<1>2. Told(r, p, i) <=> Hits(k, p, i) \/ Told(q, p, i)
    BY <1>1 DEF Told
<1>3. CASE Hits(k, p, i)
    <2>1. LeadsTo(r, c, x, p, i) => Says(k) = x
        <3>1. Told(r, p, i)
            BY <1>2, <1>3
        <3>2. ASSUME NEW j \in DOMAIN r, \A h \in DOMAIN r : Hits(r[h], p, i) => h <= j
              PROVE  j = n + 1
            BY <1>1, <1>3, <3>2
        <3> QED BY <1>1, <3>1, <3>2 DEF LeadsTo
    <2>2. Says(k) = x => LeadsTo(r, c, x, p, i)
        BY <1>1, <1>3 DEF LeadsTo
    <2> QED BY <1>1, <1>2, <1>3, <2>1, <2>2 DEF r
<1>4. CASE ~Hits(k, p, i)
    <2>1. LeadsTo(r, c, x, p, i) => LeadsTo(q, c, x, p, i)
        BY <1>1, <1>2, <1>4 DEF LeadsTo
    <2>2. LeadsTo(q, c, x, p, i) => LeadsTo(r, c, x, p, i)
        BY <1>1, <1>2, <1>4 DEF LeadsTo
    <2> QED BY <1>1, <1>2, <1>4, <2>1, <2>2 DEF r
<1> QED BY <1>3, <1>4

\* The oldest packet of a queue arrives.
LEMMA ToldByTail ==
    ASSUME NEW q \in Seq(Packets), q # <<>>, NEW c, NEW x, NEW p, NEW i
    PROVE  /\ Told(q, p, i) <=> Hits(Head(q), p, i) \/ Told(Tail(q), p, i)
           /\ LeadsTo(q, c, x, p, i) =>
                LeadsTo(Tail(q), IF Hits(Head(q), p, i) THEN Says(Head(q)) ELSE c, x, p, i)
<1> DEFINE r == Tail(q)
           n == Len(q)
           b == IF Hits(Head(q), p, i) THEN Says(Head(q)) ELSE c
<1>1. /\ n \in Nat \ {0} /\ DOMAIN q = 1..n /\ r \in Seq(Packets) /\ DOMAIN r = 1..(n - 1)
      /\ Head(q) = q[1] /\ \A j \in 1..(n - 1) : r[j] = q[j + 1]
    BY HeadTailProperties, LenProperties
<1>2. \A j \in 1..n : j = 1 \/ (j - 1 \in 1..(n - 1) /\ r[j - 1] = q[j])
    BY <1>1
<1> HIDE DEF r, n
<1>3. Told(q, p, i) <=> Hits(q[1], p, i) \/ Told(r, p, i)
    <2>1. Told(q, p, i) => Hits(q[1], p, i) \/ Told(r, p, i)
        BY <1>1, <1>2 DEF Told
    <2>2. Told(r, p, i) => Told(q, p, i)
        <3>1. \A j \in 1..(n - 1) : j + 1 \in 1..n
            BY <1>1
        <3> QED BY <1>1, <3>1 DEF Told
    <2>3. Hits(q[1], p, i) => Told(q, p, i)
        BY <1>1 DEF Told
    <2> QED BY <2>1, <2>2, <2>3
<1>4. LeadsTo(q, c, x, p, i) => LeadsTo(r, b, x, p, i)
    <2>1. CASE Told(r, p, i)
        <3> SUFFICES ASSUME LeadsTo(q, c, x, p, i) PROVE LeadsTo(r, b, x, p, i)
            OBVIOUS
        <3>1. PICK k \in 1..n : /\ Hits(q[k], p, i) /\ Says(q[k]) = x
                                /\ \A j \in 1..n : Hits(q[j], p, i) => j <= k
            BY <1>1, <1>3, <2>1 DEF LeadsTo
        <3>2. PICK j \in 1..(n - 1) : Hits(r[j], p, i)
            BY <1>1, <2>1 DEF Told
        <3>3. j + 1 \in 1..n /\ Hits(q[j + 1], p, i) /\ k # 1
            BY <1>1, <3>1, <3>2
        <3>4. k - 1 \in 1..(n - 1) /\ r[k - 1] = q[k]
            BY <1>2, <3>3
        <3>5. \A h \in 1..(n - 1) : Hits(r[h], p, i) => h <= k - 1
            BY <1>1, <3>1
        <3> QED BY <1>1, <3>1, <3>4, <3>5 DEF LeadsTo
    <2>2. CASE ~Told(r, p, i)
        <3>1. \A j \in 1..n : Hits(q[j], p, i) => j = 1
            BY <1>1, <1>2, <2>2 DEF Told
        <3> QED BY <1>1, <1>3, <2>2, <3>1 DEF LeadsTo
    <2> QED BY <2>1, <2>2
<1> QED BY <1>1, <1>3, <1>4 DEF r

-----------------------------------------------------------------------------
(* A half that is not disturbed, or marks everything.                      *)

\* A thread is left alone, but for being woken or falling asleep.
SameThread(a, b) ==
    /\ a.prop = b.prop /\ a.part = b.part /\ a.packet = b.packet
    /\ a.pc = b.pc \/ {a.pc, b.pc} \subseteq {"look", "drowsy", "asleep"}

\* A step leaves half d alone, but for marks and for media it does not use.
Aside(d) ==
    /\ link'[d].via = link[d].via
    /\ dirty[d] \subseteq dirty'[d]
    /\ SameThread(thread[d], thread'[d])
    /\ tangled \subseteq tangled'
    /\ link[d].via \in up' => link[d].via \in up /\ fly'[d][link[d].via] = fly[d][link[d].via]
    /\ \A m \in Media : fly'[d][m] \in {fly[d][m], <<>>}

\* A reset marks all the data of a half.
LEMMA OwnIsReset ==
    ASSUME NEW d \in Devices
    PROVE  /\ \A b \in BOOLEAN : Own(d) \subseteq ResetRightLeftLink(d, b) \cap Synced
           /\ "Reset" \in ResetRightLeftLink(d, TRUE) \cap Synced
<1>1. \A p \in Data : p \in Synced /\ p \in ToSet(Sends("Left")) \cup ToSet(Sends("Right"))
                      /\ p \notin {"Reset", "ModuleGone", "ActiveKeymap"}
    BY SyncAssumption DEF Data, Properties, Events
<1>2. Own(d) \subseteq ResetBy(d)
    <2>1. CASE d = "Right"
        BY <1>1, <2>1, WhoSends DEF Own, SourceOf, ResetBy
    <2>2. CASE d = "Left"
        BY <1>1, <2>2, WhoSends DEF Own, SourceOf, ResetBy
    <2> QED BY <2>1, <2>2 DEF Devices
<1>3. "Reset" \in Synced
    BY SyncAssumption
<1> QED BY <1>1, <1>2, <1>3 DEF ResetRightLeftLink, Own

\* The module belongs to the left half.
LEMMA ModuleIsLeft ==
    /\ \A d \in Devices : "ModuleState" \in Own(d) => d = "Left"
    /\ "ModuleState" \in Data => "ModuleState" \in Own("Left") /\ "ModuleGone" \in Synced
<1>1. SourceOf("ModuleState") = "Left"
    BY WhoSends DEF SourceOf
<1> QED BY <1>1, SyncAssumption DEF Own, Data

\* What a half knows of its types.
LEMMA HalfTypes ==
    ASSUME TypeInv, NEW d \in Devices
    PROVE  /\ up \subseteq Media /\ link[d] \in LinkOf(d) /\ link[d].via \in Routes
           /\ dirty[d] \subseteq Synced /\ thread[d] \in Thread
           /\ thread[d].pc \in {"wait", "stuck"} => thread[d].packet \in Packets
           /\ \A m \in Media : fly[d][m] \in Seq(Packets)
    BY SyncAssumption DEF TypeInv, LinksOK, LinkOf, Link, DirtyOK, ThreadsOK, ThreadIn, Waits, FlyOK, RestOK

\* The pipe of a half is a queue of packets.
LEMMA PipeTyped ==
    ASSUME TypeInv, NEW d \in Devices
    PROVE  Pipe(d) \in Seq(Packets)
<1>1. <<>> \in Seq(Packets)
    OBVIOUS
<1>2. CASE link[d].via = "none"
    BY <1>1, <1>2 DEF Pipe
<1>3. CASE link[d].via # "none"
    <2>1. link[d].via \in Media
        BY <1>3, HalfTypes DEF Routes
    <2>2. fly[d][link[d].via] \in Seq(Packets)
        BY <2>1, HalfTypes
    <2>3. thread[d].pc = "wait" => Append(fly[d][link[d].via], thread[d].packet) \in Seq(Packets)
        BY <2>2, HalfTypes, AppendProperties
    <2> QED BY <1>3, <2>2, <2>3 DEF Pipe
<1> QED BY <1>2, <1>3

\* What a step marks: half d has props to send, the other half goes on.
LEMMA Marks ==
    ASSUME NEW d \in Devices, NEW props, NEW t \in ThreadIn, DirtyOK,
           invalidate(d, props, t)
    PROVE  /\ dirty'[d] = dirty[d] \cup (props \cap Synced)
           /\ \A e \in Devices \ {d} : dirty'[e] = dirty[e]
           /\ \A e \in Devices : SameThread(t[e], thread'[e])
           /\ \A e \in Devices : InStep(e, t[e]) => InStep(e, thread'[e])
<1>1. dirty' = [dirty EXCEPT ![d] = @ \cup (props \cap Synced)] /\ thread' = wake(d, t)
    BY DEF invalidate
<1>2. \A e \in Devices : wake(d, t)[e] = t[e]
                         \/ (t[e].pc = "asleep" /\ wake(d, t)[e] = [t[e] EXCEPT !.pc = "look"])
    BY DEF wake, ThreadIn
<1>3. ASSUME NEW e \in Devices
      PROVE  SameThread(t[e], thread'[e]) /\ (InStep(e, t[e]) => InStep(e, thread'[e]))
    <2>1. t[e] \in Thread
        BY DEF ThreadIn
    <2>2. CASE thread'[e] = t[e]
        BY <2>2 DEF SameThread
    <2>3. CASE t[e].pc = "asleep" /\ thread'[e] = [t[e] EXCEPT !.pc = "look"]
        <3>1. /\ thread'[e].pc = "look" /\ thread'[e].prop = t[e].prop
              /\ thread'[e].part = t[e].part /\ thread'[e].packet = t[e].packet
            BY <2>1, <2>3 DEF Thread
        <3> QED BY <2>3, <3>1 DEF SameThread, InStep
    <2> QED BY <1>1, <1>2, <2>2, <2>3
<1> QED BY <1>1, <1>3 DEF DirtyOK

\* The half that is aside still sends what it would have sent.
LEMMA AsideSends ==
    ASSUME TypeInv, TypeInv', NEW d \in Devices, Aside(d)
    PROVE  /\ link[d].via \in up' => Pipe(d)' = Pipe(d)
           /\ Behind(d) => Behind(d)'
           /\ \A p \in Own(d), i \in Nat : ToCome(d, p, i) => ToCome(d, p, i)'
<1>1. link[d].via \in up' => Pipe(d)' = Pipe(d)
    BY DEF Aside, SameThread, Pipe
<1>2. Behind(d) => Behind(d)'
    BY DEF Aside, SameThread, Behind, Own, SourceOf
<1>3. ASSUME NEW p \in Own(d), NEW i \in Nat, ToCome(d, p, i) PROVE ToCome(d, p, i)'
    BY <1>3 DEF Aside, SameThread, ToCome, AboutTo
<1> QED BY <1>1, <1>2, <1>3

\* A request of the right half stays one.
LEMMA AsideAsks ==
    ASSUME TypeInv, TypeInv', Aside("Right"), Asked
    PROVE  Asked'
<1>1. "Right" \in Devices /\ link["Right"].via \in Routes
    BY HalfTypes DEF Devices
<1>2. CASE link["Right"].via \in up'
    <2>1. Pipe("Right")' = Pipe("Right") /\ link["Right"].via \in up
        BY <1>1, <1>2, AsideSends DEF Aside
    <2>2. CASE WillReset("Right")
        BY <2>1, <2>2, <1>2 DEF WillReset, Aside, Asked
    <2>3. CASE ~WillReset("Right")
        BY <2>1, <2>3 DEF Asked, Aside, SameThread
    <2> QED BY <2>2, <2>3
<1>3. CASE link["Right"].via \notin up'
    BY <1>1, <1>3 DEF Asked, WillReset, Aside, Routes
<1> QED BY <1>2, <1>3

\* What half d has to tell is kept by a step that leaves it aside, if neither its
\* data nor their copy change.
LEMMA AsideKeeps ==
    ASSUME TypeInv, TypeInv', NEW d \in Devices, NEW p \in Own(d), NEW i \in Parts(p),
           Kept(d, p, i), Aside(d), mine'[p] = mine[p],
           copy'[p][i] = copy[p][i] \/ (p = "ModuleState" /\ Asked'),
           p = "ModuleState" /\ (listed # mine[p] \/ Asked)
             => ToCome(d, p, i)' \/ listed' # mine[p] \/ Asked'
    PROVE  Kept(d, p, i)'
<1>1. i \in Nat
    BY DEF Parts
<1>2. SUFFICES ASSUME tangled' = {}, link'[d].via \in up'
               PROVE  /\ \/ ToCome(d, p, i)'
                         \/ LeadsTo(Pipe(d)', copy'[p][i], mine'[p], p, i)
                         \/ p = "ModuleState" /\ (listed' # mine'[p] \/ Asked')
                      /\ \A m \in Media \ {link'[d].via} :
                           Told(fly'[d][m], p, i) => ToCome(d, p, i)' \/ Told(Pipe(d)', p, i)
    BY DEF Kept
<1>3. tangled = {} /\ link[d].via \in up /\ link'[d].via = link[d].via /\ Pipe(d)' = Pipe(d)
    BY <1>2, AsideSends DEF Aside
<1>4. ToCome(d, p, i) => ToCome(d, p, i)'
    BY <1>1, AsideSends
<1>5. \A m \in Media : Told(fly'[d][m], p, i) => Told(fly[d][m], p, i)
    BY DEF Aside, Told
<1>6. /\ \/ ToCome(d, p, i) \/ LeadsTo(Pipe(d), copy[p][i], mine[p], p, i)
         \/ p = "ModuleState" /\ (listed # mine[p] \/ Asked)
      /\ \A m \in Media \ {link[d].via} :
            Told(fly[d][m], p, i) => ToCome(d, p, i) \/ Told(Pipe(d), p, i)
    BY <1>3 DEF Kept
<1> QED BY <1>3, <1>4, <1>5, <1>6

\* A half that has marked everything tells everything.
LEMMA MarkedKeeps ==
    ASSUME NEW d \in Devices, NEW p \in Own(d), NEW i, p \in dirty'[d]
    PROVE  Kept(d, p, i)'
    BY DEF Kept, ToCome

\* All that a half has to tell is kept when it is aside.
LEMMA HalfAside ==
    ASSUME TypeInv, TypeInv', Trusted, NEW d \in Devices, Aside(d),
           \A p \in Own(d) : mine'[p] = mine[p] /\ (copy'[p] = copy[p] \/ (p = "ModuleState" /\ Asked')),
           d = "Left" => listed' = listed,
           d = "Left" /\ Asked => Asked' \/ Own("Left") \subseteq dirty'["Left"]
    PROVE  \A p \in Own(d) : \A i \in Parts(p) : Kept(d, p, i)'
<1> SUFFICES ASSUME NEW p \in Own(d), NEW i \in Parts(p) PROVE Kept(d, p, i)'
    OBVIOUS
<1>1. Kept(d, p, i)
    BY DEF Trusted, AllKept
<1>2. CASE p \in dirty'[d]
    BY <1>2, MarkedKeeps
<1>3. CASE p \notin dirty'[d]
    <2>1. p = "ModuleState" /\ (listed # mine[p] \/ Asked) => listed' # mine[p] \/ Asked'
        BY <1>3, ModuleIsLeft
    <2> QED BY <1>1, <2>1, AsideKeeps
<1> QED BY <1>2, <1>3

\* What makes up Trusted, half by half.
LEMMA TrustedByHalf ==
    ASSUME Listed', \A d \in Devices : Behind(d)' /\ Steady(d)',
           \A d \in Devices : \A p \in Own(d) : \A i \in Parts(p) : Kept(d, p, i)'
    PROVE  Trusted'
    BY DEF Trusted, AllKept, Own, SourceOf

-----------------------------------------------------------------------------
(* Every action can be trusted.                                            *)

\* A change of the data, one half of which is marked.
LEMMA UpdateIsTrusted ==
    ASSUME TypeInv, TypeInv', Trusted, NEW q \in Data, Update(q)
    PROVE  Trusted'
<1> DEFINE d == SourceOf(q)
<1>1. d \in Devices /\ q \in Own(d) /\ q # "ModuleState" /\ q \in Synced
    BY MarksOwn DEF Own, Update, Data
<1>2. /\ invalidate(d, {q}, thread) /\ mine' = [mine EXCEPT ![q] = 1 - @]
      /\ UNCHANGED <<up, link, fly, copy, listed, tangled>>
    BY DEF Update
<1>3. thread \in ThreadIn /\ DirtyOK
    BY DEF TypeInv, ThreadsOK
<1> HIDE DEF d
<1>4. /\ dirty'[d] = dirty[d] \cup ({q} \cap Synced)
      /\ \A e \in Devices \ {d} : dirty'[e] = dirty[e]
      /\ \A e \in Devices : SameThread(thread[e], thread'[e])
      /\ \A e \in Devices : InStep(e, thread[e]) => InStep(e, thread'[e])
    BY <1>1, <1>2, <1>3, Marks
<1>5. \A e \in Devices : Aside(e)
    BY <1>2, <1>4 DEF Aside
<1>6. \A e \in Devices : Behind(e)' /\ Steady(e)'
    BY <1>2, <1>4, <1>5, AsideSends DEF Trusted, Steady
<1>7. Asked => Asked'
    BY <1>5, AsideAsks DEF Devices
<1>8. ASSUME NEW e \in Devices, NEW p \in Own(e), NEW i \in Parts(p)
      PROVE  Kept(e, p, i)'
    <2>1. CASE p = q
        <3>1. e = d
            BY <1>1, <2>1 DEF Own
        <3> QED BY <1>1, <1>4, <2>1, <3>1, MarkedKeeps
    <2>2. CASE p # q
        <3>1. mine'[p] = mine[p] /\ copy' = copy /\ listed' = listed
            BY <1>2, <2>2 DEF TypeInv, DataOK, Own
        <3>2. Kept(e, p, i)
            BY DEF Trusted, AllKept
        <3> QED BY <1>5, <1>7, <3>1, <3>2, AsideKeeps
    <2> QED BY <2>1, <2>2
<1>9. Listed'
    <2>1. "ModuleState" \in Data => mine'["ModuleState"] = mine["ModuleState"]
        BY <1>1, <1>2 DEF TypeInv, DataOK
    <2>2. "ModuleGone" \in dirty'["Left"] => "ModuleGone" \in dirty["Left"]
        BY <1>1, <1>4 DEF Devices, Data, Events
    <2>3. "Left" \in Devices
        BY DEF Devices
    <2> QED BY <1>2, <1>4, <1>5, <2>1, <2>2, <2>3 DEF Trusted, Listed, SameThread, Aside
<1> QED BY <1>6, <1>8, <1>9, TrustedByHalf

\* A new configuration: all of the right half is marked.
LEMMA ApplyConfigIsTrusted ==
    ASSUME TypeInv, TypeInv', Trusted, NEW b \in BOOLEAN, ApplyConfig(b)
    PROVE  Trusted'
<1>1. /\ invalidate("Right", ResetRightLeftLink("Right", b), thread)
      /\ UNCHANGED <<up, link, fly, copy, listed, tangled>>
    BY DEF ApplyConfig
<1>2. thread \in ThreadIn /\ DirtyOK /\ "Right" \in Devices /\ "Left" \in Devices
    BY DEF TypeInv, ThreadsOK, Devices
<1>3. /\ dirty'["Right"] = dirty["Right"] \cup (ResetRightLeftLink("Right", b) \cap Synced)
      /\ \A e \in Devices \ {"Right"} : dirty'[e] = dirty[e]
      /\ \A e \in Devices : SameThread(thread[e], thread'[e])
      /\ \A e \in Devices : InStep(e, thread[e]) => InStep(e, thread'[e])
    BY <1>1, <1>2, Marks
<1>4. \A e \in Devices : Aside(e)
    BY <1>1, <1>3 DEF Aside
<1>5. \A e \in Devices : Behind(e)' /\ Steady(e)'
    BY <1>1, <1>3, <1>4, AsideSends DEF Trusted, Steady
<1>6. Asked => Asked'
    BY <1>2, <1>4, AsideAsks
<1>7. \A p \in Own("Left") : mine'[p] = mine[p]
    BY DEF ApplyConfig, Own, SourceOf, TypeInv, DataOK
<1>8. \A p \in Own("Left") : \A i \in Parts(p) : Kept("Left", p, i)'
    BY <1>1, <1>2, <1>4, <1>6, <1>7, HalfAside
<1>9. \A p \in Own("Right") : p \in dirty'["Right"]
    BY <1>2, <1>3, OwnIsReset
<1>10. Listed'
    <2>1. "ModuleState" \in Data => mine'["ModuleState"] = mine["ModuleState"]
        BY <1>7, ModuleIsLeft
    <2> QED BY <1>1, <1>2, <1>3, <2>1 DEF Trusted, Listed, SameThread
<1> QED BY <1>2, <1>5, <1>8, <1>9, <1>10, MarkedKeeps, TrustedByHalf DEF Devices

\* A module that comes or goes is marked, or does not match the list yet.
LEMMA ModuleAttachedIsTrusted ==
    ASSUME TypeInv, TypeInv', Trusted, ModuleAttached
    PROVE  Trusted'
<1>1. /\ invalidate("Left", {"ModuleState"}, thread) /\ "ModuleState" \in Data
      /\ mine' = [mine EXCEPT !["ModuleState"] = 1] /\ listed' = 1
      /\ UNCHANGED <<up, link, fly, copy>>
    BY DEF ModuleAttached
<1>2. thread \in ThreadIn /\ DirtyOK /\ "Right" \in Devices /\ "Left" \in Devices
    BY DEF TypeInv, ThreadsOK, Devices
<1>3. /\ dirty'["Left"] = dirty["Left"] \cup ({"ModuleState"} \cap Synced)
      /\ \A e \in Devices \ {"Left"} : dirty'[e] = dirty[e]
      /\ \A e \in Devices : SameThread(thread[e], thread'[e])
      /\ \A e \in Devices : InStep(e, thread[e]) => InStep(e, thread'[e])
    BY <1>1, <1>2, Marks
<1>4. tangled \subseteq tangled' /\ ("ModuleGone" \in dirty["Left"] => tangled' # {})
    BY Zenon DEF ModuleAttached
<1>5. \A e \in Devices : Aside(e)
    BY <1>1, <1>3, <1>4 DEF Aside
<1>6. \A e \in Devices : Behind(e)' /\ Steady(e)'
    BY <1>1, <1>3, <1>5, AsideSends DEF Trusted, Steady
<1>7. Asked => Asked'
    BY <1>2, <1>5, AsideAsks
<1>8. "ModuleState" \in dirty'["Left"]
    BY <1>1, <1>3 DEF Data
<1>9. ASSUME NEW e \in Devices, NEW p \in Own(e), NEW i \in Parts(p)
      PROVE  Kept(e, p, i)'
    <2>1. CASE p = "ModuleState"
        BY <1>8, <2>1, ModuleIsLeft, MarkedKeeps
    <2>2. CASE p # "ModuleState"
        <3>1. mine'[p] = mine[p] /\ copy' = copy
            BY <1>1, <2>2 DEF TypeInv, DataOK, Own
        <3>2. Kept(e, p, i)
            BY DEF Trusted, AllKept
        <3> QED BY <1>5, <2>2, <3>1, <3>2, AsideKeeps
    <2> QED BY <2>1, <2>2
<1>10. Listed'
    <2>1. mine'["ModuleState"] = 1
        BY <1>1 DEF TypeInv, DataOK
    <2>2. "ModuleGone" \in dirty'["Left"] => tangled' # {}
        BY <1>3, <1>4
    <2> QED BY <1>1, <1>8, <2>1, <2>2 DEF Listed
<1> QED BY <1>6, <1>9, <1>10, TrustedByHalf

\* A module that is pulled is still listed.
LEMMA ModuleDetachedIsTrusted ==
    ASSUME TypeInv, TypeInv', Trusted, ModuleDetached
    PROVE  Trusted'
<1>1. /\ "ModuleState" \in Data /\ mine["ModuleState"] = 1
      /\ mine' = [mine EXCEPT !["ModuleState"] = 0]
      /\ UNCHANGED <<up, link, dirty, thread, fly, copy, listed, missed, tangled>>
    BY DEF ModuleDetached
<1>2. listed = 1 /\ "Right" \in Devices
    BY <1>1 DEF Trusted, Listed, Devices
<1>3. \A e \in Devices : Aside(e)
    BY <1>1 DEF Aside, SameThread
<1>4. \A e \in Devices : Behind(e)' /\ Steady(e)'
    BY <1>1, <1>3, AsideSends DEF Trusted, Steady
<1>5. Asked => Asked'
    BY <1>2, <1>3, AsideAsks
<1>6. mine'["ModuleState"] = 0 /\ listed' = 1
    BY <1>1, <1>2 DEF TypeInv, DataOK
<1>7. ASSUME NEW e \in Devices, NEW p \in Own(e), NEW i \in Parts(p)
      PROVE  Kept(e, p, i)'
    <2>1. Kept(e, p, i)
        BY DEF Trusted, AllKept
    <2>2. CASE p = "ModuleState"
        <3>1. \A m \in Media \ {link[e].via} : tangled = {} /\ link[e].via \in up /\ Told(fly[e][m], p, i)
                => ToCome(e, p, i) \/ Told(Pipe(e), p, i)
            BY <2>1 DEF Kept
        <3>2. Pipe(e)' = Pipe(e) /\ (ToCome(e, p, i) => ToCome(e, p, i)')
            BY <1>1 DEF Pipe, ToCome, AboutTo
        <3> QED BY <1>1, <1>6, <2>2, <3>1, <3>2 DEF Kept
    <2>3. CASE p # "ModuleState"
        <3>1. mine'[p] = mine[p] /\ copy' = copy
            BY <1>1, <2>3 DEF TypeInv, DataOK, Own
        <3> QED BY <1>3, <2>1, <2>3, <3>1, AsideKeeps
    <2> QED BY <2>2, <2>3
<1>8. Listed'
    BY <1>6 DEF Listed
<1> QED BY <1>4, <1>7, <1>8, TrustedByHalf

\* A module that is struck off the list is marked as gone.
LEMMA ModuleUnlistedIsTrusted ==
    ASSUME TypeInv, TypeInv', Trusted, ModuleUnlisted
    PROVE  Trusted'
<1>1. /\ invalidate("Left", {"ModuleGone"}, thread) /\ mine["ModuleState"] = 0
      /\ UNCHANGED <<up, link, fly, mine, copy, tangled>>
    BY DEF ModuleUnlisted
<1>2. thread \in ThreadIn /\ DirtyOK /\ "Right" \in Devices /\ "Left" \in Devices
    BY DEF TypeInv, ThreadsOK, Devices
<1>3. /\ dirty'["Left"] = dirty["Left"] \cup ({"ModuleGone"} \cap Synced)
      /\ \A e \in Devices \ {"Left"} : dirty'[e] = dirty[e]
      /\ \A e \in Devices : SameThread(thread[e], thread'[e])
      /\ \A e \in Devices : InStep(e, thread[e]) => InStep(e, thread'[e])
    BY <1>1, <1>2, Marks
<1>4. \A e \in Devices : Aside(e)
    BY <1>1, <1>3 DEF Aside
<1>5. \A e \in Devices : Behind(e)' /\ Steady(e)'
    BY <1>1, <1>3, <1>4, AsideSends DEF Trusted, Steady
<1>6. ASSUME NEW e \in Devices, NEW p \in Own(e), NEW i \in Parts(p)
      PROVE  Kept(e, p, i)'
    <2>1. p = "ModuleState" => ToCome(e, p, i)'
        BY <1>3, ModuleIsLeft DEF ToCome, Own
    <2>2. Kept(e, p, i) /\ mine' = mine /\ copy' = copy
        BY <1>1 DEF Trusted, AllKept
    <2> QED BY <1>4, <2>1, <2>2, AsideKeeps
<1>7. Listed'
    BY <1>1, <1>2, <1>3 DEF Trusted, Listed, SameThread
<1> QED BY <1>5, <1>6, <1>7, TrustedByHalf

\* The route stored for a link is the one determineChannel finds.
LEMMA RoutesKept ==
    ASSUME NEW d \in Devices, NEW l \in LinkOf(d), NEW m \in Media
    PROVE  /\ Routed(SetConnected(l, m)) /\ SetConnected(l, m).via # "none"
           /\ Routed(SetDisconnected(l, d, m)) /\ SetDisconnected(l, d, m).via # m
           /\ Routed(l) /\ l.via # "none" => l.via \in l.open
           /\ Routed(l) => Routed(Give(l, d, m)) /\ Routed(Take(l, m))
                           /\ Routed([l EXCEPT !.free[m] = Slots(d, m)])
<1>1. l.open \in SUBSET Media /\ l = [open |-> l.open, via |-> l.via, free |-> l.free]
    BY DEF LinkOf, Link
<1>2. \A r \in Link : LET u == TriggerUpdate(r) IN u.open = r.open /\ u.via = determineChannel(r.open)
    BY DEF TriggerUpdate, Link
<1>3. [l EXCEPT !.open = @ \cup {m}] \in Link /\ [l EXCEPT !.open = @ \cup {m}].open = l.open \cup {m}
    BY DEF LinkOf, Link
<1>4. /\ [l EXCEPT !.open = @ \ {m}, !.free[m] = Slots(d, m)] \in Link
      /\ [l EXCEPT !.open = @ \ {m}, !.free[m] = Slots(d, m)].open = l.open \ {m}
    BY DEF LinkOf, Link, Slots
<1>5. Routed(SetConnected(l, m)) /\ SetConnected(l, m).via = determineChannel(l.open \cup {m})
    BY <1>2, <1>3 DEF Routed, SetConnected
<1>6. Routed(SetDisconnected(l, d, m)) /\ SetDisconnected(l, d, m).via = determineChannel(l.open \ {m})
    BY <1>2, <1>4 DEF Routed, SetDisconnected
<1>7. \A open \in SUBSET Media : determineChannel(open) # "none" => determineChannel(open) \in open
    <2> SUFFICES ASSUME NEW open \in SUBSET Media
                 PROVE  determineChannel(open) # "none" => determineChannel(open) \in open
        OBVIOUS
    <2>1. "uart" \in open \/ open = {"bt"} \/ open = {}
        BY DEF Media
    <2> QED BY <2>1 DEF determineChannel
<1>8. determineChannel(l.open \cup {m}) # "none"
    <2>1. "uart" \in l.open \cup {m} \/ l.open \cup {m} = {"bt"}
        BY <1>1 DEF Media
    <2> QED BY <2>1 DEF determineChannel
<1>9. determineChannel(l.open \ {m}) # m
    <2>1. l.open \ {m} \in SUBSET Media /\ m \notin l.open \ {m} /\ m # "none"
        BY <1>1 DEF Media
    <2> QED BY <1>7, <2>1
<1>10. Routed(l) /\ l.via # "none" => l.via \in l.open
    BY <1>1, <1>7 DEF Routed
<1>11. Routed(l) => Routed(Give(l, d, m)) /\ Routed(Take(l, m))
                    /\ Routed([l EXCEPT !.free[m] = Slots(d, m)])
    BY DEF Routed, Give, Take, LinkOf, Link
<1> QED BY <1>5, <1>6, <1>8, <1>9, <1>10, <1>11

\* What breaks is lost, and who used it will learn of it.
LEMMA BreakIsTrusted ==
    ASSUME TypeInv, TypeInv', Trusted, NEW m \in Media, Break(m)
    PROVE  Trusted'
<1>1. /\ up' = up \ {m} /\ fly' = [d \in Devices |-> [fly[d] EXCEPT ![m] = <<>>]]
      /\ UNCHANGED <<dirty, thread, mine, copy, listed, missed, tangled>>
    BY DEF Break
<1>2. \A e \in Devices : link'[e].via = link[e].via /\ Routed(link'[e])
    <2>1. CASE m = "bt"
        BY <2>1 DEF Break, Trusted, Steady
    <2>2. CASE m # "bt"
        <3>1. link' = [d \in Devices |-> [link[d] EXCEPT !.free[m] = Slots(d, m)]]
            BY <2>2 DEF Break
        <3>2. ASSUME NEW e \in Devices
              PROVE  [link[e] EXCEPT !.free[m] = Slots(e, m)].via = link[e].via
                     /\ Routed([link[e] EXCEPT !.free[m] = Slots(e, m)])
            BY HalfTypes, RoutesKept DEF Trusted, Steady, LinkOf, Link
        <3> QED BY <3>1, <3>2
    <2> QED BY <2>1, <2>2
<1>3. \A e \in Devices, n \in Media : fly'[e][n] = IF n = m THEN <<>> ELSE fly[e][n]
    BY <1>1 DEF TypeInv, FlyOK
<1>4. \A e \in Devices : Aside(e)
    BY <1>1, <1>2, <1>3, HalfTypes DEF Aside, SameThread, Routes
<1>5. \A e \in Devices : Behind(e)' /\ Steady(e)'
    BY <1>1, <1>2, <1>3, <1>4, AsideSends DEF Trusted, Steady, OwnOnly
<1>6. Asked => Asked'
    BY <1>4, AsideAsks DEF Devices
<1>7. \A e \in Devices : \A p \in Own(e) : \A i \in Parts(p) : Kept(e, p, i)'
    BY <1>1, <1>4, <1>6, HalfAside
<1>8. Listed'
    BY <1>1 DEF Trusted, Listed
<1> QED BY <1>5, <1>7, <1>8, TrustedByHalf

\* What comes back is not in use.
LEMMA RestoreIsTrusted ==
    ASSUME TypeInv, TypeInv', Trusted, NEW m \in Media, Restore(m)
    PROVE  Trusted'
<1>1. /\ up' = up \cup {m} /\ \A d \in Devices : m \notin link[d].open
      /\ UNCHANGED <<link, dirty, thread, fly, mine, copy, listed, missed, tangled>>
    BY DEF Restore
<1>2. \A e \in Devices : link[e].via # m
    <2>1. m # "none"
        BY DEF Media
    <2>2. \A e \in Devices : Routed(link[e]) /\ link[e] \in LinkOf(e)
        BY HalfTypes DEF Trusted, Steady
    <2> QED BY <1>1, <2>1, <2>2, RoutesKept
<1>3. \A e \in Devices : Aside(e)
    BY <1>1, <1>2 DEF Aside, SameThread
<1>4. \A e \in Devices : Behind(e)' /\ Steady(e)'
    BY <1>1, <1>3, AsideSends DEF Trusted, Steady
<1>5. Asked => Asked'
    BY <1>3, AsideAsks DEF Devices
<1>6. \A e \in Devices : \A p \in Own(e) : \A i \in Parts(p) : Kept(e, p, i)'
    BY <1>1, <1>3, <1>5, HalfAside
<1>7. Listed'
    BY <1>1 DEF Trusted, Listed
<1> QED BY <1>4, <1>6, <1>7, TrustedByHalf

\* handleStateTransition: half d has the link new afterwards, its thread may be
\* stranded on a medium that it does not use any more.
LEMMA TransitionIsTrusted ==
    ASSUME TypeInv, TypeInv', Trusted, NEW d \in Devices, NEW new \in LinkOf(d), Routed(new),
           NEW t, t = thread \/ (/\ thread[d].pc = "wait" /\ thread[d].packet.via # new.via
                                 /\ t = [thread EXCEPT ![d].pc = "stuck"]),
           link' = [link EXCEPT ![d] = new], handleStateTransition(d, new, t),
           UNCHANGED <<up, fly, mine, listed, tangled>>
    PROVE  Trusted'
<1>1. thread \in ThreadIn /\ DirtyOK /\ link \in [Devices -> Link] /\ link'[d] = new
    BY DEF TypeInv, ThreadsOK, LinksOK
<1>2. t \in ThreadIn /\ \A e \in Devices \ {d} : t[e] = thread[e] /\ link'[e] = link[e]
    BY <1>1 DEF ThreadIn, Thread, Steps
<1>3. \A e \in Devices : InStep(e, t[e])
    <2>1. \A e \in Devices : InStep(e, thread[e])
        BY DEF Trusted, Steady
    <2>2. t[d] = thread[d] \/ (thread[d].pc = "wait" /\ t[d] = [thread[d] EXCEPT !.pc = "stuck"])
        BY <1>1 DEF ThreadIn
    <2>3. thread[d] \in Thread
        BY HalfTypes
    <2> QED BY <1>2, <2>1, <2>2, <2>3 DEF InStep, Thread
<1>4. \A e \in Devices : Routed(link'[e]) /\ \A m \in Media : OwnOnly(e, fly'[e][m])
    BY <1>1, <1>2 DEF Trusted, Steady
<1>5. up \subseteq Media /\ "none" \notin Media /\ Devices = {"Left", "Right"}
    BY HalfTypes DEF Media, Devices
<1>6. t[d].pc = "send" => thread[d].pc = "send" /\ t[d] = thread[d]
    BY <1>1 DEF ThreadIn, Thread
<1>7. CASE Connects(link[d], new)
    <2>1. invalidate(d, ResetRightLeftLink(d, TRUE), t) /\ copy' = copy
        BY <1>7 DEF handleStateTransition, Connects, Disconnects
    <2>2. /\ dirty'[d] = dirty[d] \cup (ResetRightLeftLink(d, TRUE) \cap Synced)
          /\ \A e \in Devices \ {d} : dirty'[e] = dirty[e]
          /\ \A e \in Devices : SameThread(t[e], thread'[e])
          /\ \A e \in Devices : InStep(e, t[e]) => InStep(e, thread'[e])
        BY <1>1, <1>2, <2>1, Marks
    <2>3. Own(d) \cup {"Reset"} \subseteq dirty'[d]
        BY <2>2, OwnIsReset
    <2>4. ASSUME NEW e \in Devices \ {d}
          PROVE  Aside(e)
        BY <1>2, <2>2, <2>4 DEF Aside
    <2>5. d = "Right" => Asked'
        BY <2>3 DEF Asked
    <2>6. d # "Right" /\ Asked => Asked'
        BY <1>5, <2>4, AsideAsks
    <2>7. ASSUME NEW e \in Devices, NEW p \in Own(e), NEW i \in Parts(p)
          PROVE  Kept(e, p, i)'
        <3>1. CASE e = d
            BY <2>3, <3>1, MarkedKeeps
        <3>2. CASE e # d
            BY <2>1, <2>4, <2>5, <2>6, <3>2, HalfAside
        <3> QED BY <3>1, <3>2
    <2>8. ASSUME NEW e \in Devices
          PROVE  Behind(e)' /\ Steady(e)'
        <3>1. Steady(e)'
            BY <1>3, <1>4, <2>2 DEF Steady
        <3>2. CASE e = d
            BY <2>3, <3>1, <3>2 DEF Behind, Own, SourceOf
        <3>3. CASE e # d
            BY <2>4, <3>1, <3>3, AsideSends DEF Trusted
        <3> QED BY <3>2, <3>3
    <2>9. Listed'
        <3>1. "ModuleGone" \notin ResetRightLeftLink(d, TRUE)
            BY DEF ResetRightLeftLink, ResetBy
        <3>2. /\ "ModuleGone" \in dirty'["Left"] => "ModuleGone" \in dirty["Left"]
              /\ "ModuleState" \in dirty["Left"] => "ModuleState" \in dirty'["Left"]
              /\ thread'["Left"].pc = "send" =>
                    thread["Left"].pc = "send" /\ thread'["Left"].prop = thread["Left"].prop
            BY <1>2, <1>5, <1>6, <2>2, <3>1 DEF SameThread
        <3> QED BY <3>2 DEF Trusted, Listed
    <2> QED BY <2>7, <2>8, <2>9, TrustedByHalf
<1>8. CASE ~Connects(link[d], new)
    <2>1. thread' = t /\ UNCHANGED <<dirty, missed>>
        BY <1>8 DEF handleStateTransition
    <2>2. new.via = link[d].via \/ new.via = "none"
        BY <1>8 DEF Connects
    <2>3. ASSUME NEW e \in Devices \ {d}
          PROVE  Aside(e)
        BY <1>2, <2>1, <2>3 DEF Aside, SameThread
    <2>4. Listed'
        <3>1. thread'["Left"].pc = "send" =>
                  thread["Left"].pc = "send" /\ thread'["Left"].prop = thread["Left"].prop
            BY <1>2, <1>5, <1>6, <2>1
        <3> QED BY <2>1, <3>1 DEF Trusted, Listed
    <2>5. \A e \in Devices : Steady(e)'
        BY <1>3, <1>4, <2>1 DEF Steady
    <2>6. CASE new.via = "none"
        <3>1. \A p \in Own(d) : \A i \in Parts(p) : Kept(d, p, i)'
            BY <1>1, <1>5, <2>6 DEF Kept
        <3>2. Behind(d)'
            BY <1>1, <2>6 DEF Behind
        <3>3. d = "Right" => Asked'
            BY <1>1, <2>6 DEF Asked, WillReset
        <3>4. d # "Right" /\ Asked => Asked'
            BY <1>5, <2>3, AsideAsks
        <3>5. ASSUME NEW e \in Devices \ {d}
              PROVE  \A p \in Own(e) : \A i \in Parts(p) : Kept(e, p, i)'
            <4>1. \A p \in Own(e) : copy'[p] = copy[p] \/ (p = "ModuleState" /\ d = "Right")
                BY DEF handleStateTransition, TypeInv, DataOK, Own
            <4> QED BY <2>3, <3>3, <3>4, <4>1, HalfAside
        <3> QED BY <2>3, <2>4, <2>5, <3>1, <3>2, <3>5, AsideSends, TrustedByHalf DEF Trusted
    <2>7. CASE new.via = link[d].via /\ new.via # "none"
        <3>1. copy' = copy
            BY <2>7 DEF handleStateTransition, Disconnects
        <3>2. CASE t = thread
            <4>1. \A e \in Devices : Aside(e)
                BY <1>1, <2>1, <2>3, <2>7, <3>2 DEF Aside, SameThread
            <4>2. Asked => Asked'
                BY <1>5, <4>1, AsideAsks
            <4>3. \A e \in Devices : \A p \in Own(e) : \A i \in Parts(p) : Kept(e, p, i)'
                BY <3>1, <4>1, <4>2, HalfAside
            <4> QED BY <2>4, <2>5, <4>1, <4>3, AsideSends, TrustedByHalf DEF Trusted
        <3>3. CASE t # thread
            <4>1. Own(d) \cup {"Reset"} \subseteq dirty[d]
                BY <2>7, <3>3 DEF Trusted, Behind
            <4>2. \A p \in Own(d) : \A i \in Parts(p) : Kept(d, p, i)'
                BY <2>1, <4>1, MarkedKeeps
            <4>3. Behind(d)'
                BY <2>1, <4>1 DEF Behind, Own, SourceOf
            <4>4. d = "Right" => Asked'
                BY <2>1, <4>1 DEF Asked
            <4>5. d # "Right" /\ Asked => Asked'
                BY <1>5, <2>3, AsideAsks
            <4>6. \A e \in Devices \ {d} : \A p \in Own(e) : \A i \in Parts(p) : Kept(e, p, i)'
                BY <2>3, <3>1, <4>4, <4>5, HalfAside
            <4> QED BY <2>3, <2>4, <2>5, <4>2, <4>3, <4>6, AsideSends, TrustedByHalf DEF Trusted
        <3> QED BY <3>2, <3>3
    <2> QED BY <2>2, <2>6, <2>7
<1> QED BY <1>7, <1>8

\* A medium is found to be there.
LEMMA ConnectIsTrusted ==
    ASSUME TypeInv, TypeInv', Trusted, NEW d \in Devices, NEW m \in Media, Connect(d, m)
    PROVE  Trusted'
<1> DEFINE new == SetConnected(link[d], m)
<1>1. new \in LinkOf(d) /\ Routed(new)
    BY HalfTypes, LinkOperators, RoutesKept
<1>2. /\ link' = [link EXCEPT ![d] = new] /\ handleStateTransition(d, new, thread)
      /\ UNCHANGED <<up, fly, mine, listed, tangled>>
    BY DEF Connect
<1> HIDE DEF new
<1> QED BY <1>1, <1>2, TransitionIsTrusted

\* A medium is found to be gone.
LEMMA NoticeIsTrusted ==
    ASSUME TypeInv, TypeInv', Trusted, NEW d \in Devices, NEW m \in Media,
           NEW handedBack \in BOOLEAN, Notice(d, m, handedBack)
    PROVE  Trusted'
<1> DEFINE new == SetDisconnected(link[d], d, m)
           t == IF handedBack THEN thread ELSE stranded(d, m)
<1>1. new \in LinkOf(d) /\ Routed(new) /\ new.via # m
    BY HalfTypes, LinkOperators, RoutesKept
<1>2. /\ link' = [link EXCEPT ![d] = new] /\ handleStateTransition(d, new, t)
      /\ UNCHANGED <<up, fly, mine, listed, tangled>>
    BY DEF Notice
<1>3. t = thread \/ (/\ thread[d].pc = "wait" /\ thread[d].packet.via # new.via
                     /\ t = [thread EXCEPT ![d].pc = "stuck"])
    BY <1>1 DEF stranded
<1> HIDE DEF new, t
<1> QED BY <1>1, <1>2, <1>3, TransitionIsTrusted

\* A packet changes the copy of what it carries, and nothing else.
LEMMA Received ==
    ASSUME TypeInv, NEW d \in Devices, NEW k \in Packets, k.prop \in ToSet(Sends(d)),
           copy' = received(k), NEW e \in Devices, NEW p \in Own(e)
    PROVE  /\ e # d => copy'[p] = copy[p]
           /\ \A i \in Parts(p) : copy'[p][i] = IF Hits(k, p, i) THEN Says(k) ELSE copy[p][i]
<1>1. p \in Data /\ p \in ToSet(Sends(e)) /\ p \notin {"Reset", "ModuleGone"}
    BY MarksOwn DEF Own, Data, Events
<1>2. e # d => k.prop # p /\ ~(k.prop = "ModuleGone" /\ p = "ModuleState")
    BY <1>1, WhoSends DEF Devices
<1>3. /\ copy = [q \in Data |-> copy[q]] /\ copy[p] \in [Parts(p) -> 0..1]
      /\ "ModuleGone" \notin Data
    BY <1>1 DEF TypeInv, DataOK, Data, Events
<1>4. CASE k.prop \in Data
    <2>1. copy' = [copy EXCEPT ![k.prop] = [copy[k.prop] EXCEPT ![k.part] = k.val]]
        BY <1>3, <1>4 DEF received
    <2>2. copy'[p] = IF k.prop = p THEN [copy[p] EXCEPT ![k.part] = k.val] ELSE copy[p]
        BY <1>1, <1>3, <1>4, <2>1
    <2>3. k.prop # "ModuleGone" /\ Says(k) = k.val
        BY <1>3, <1>4 DEF Says
    <2> QED BY <1>2, <1>3, <2>2, <2>3 DEF Hits
<1>5. CASE k.prop \notin Data /\ k.prop = "ModuleGone"
    <2>1. copy' = [copy EXCEPT !["ModuleState"] = [i \in {1} |-> 0]] /\ Says(k) = 0
        BY <1>5 DEF received, Says
    <2>2. copy'[p] = IF p = "ModuleState" THEN [i \in {1} |-> 0] ELSE copy[p]
        BY <1>1, <1>3, <2>1
    <2>3. Parts("ModuleState") = {1}
        BY DEF Parts
    <2> QED BY <1>1, <1>2, <1>5, <2>1, <2>2, <2>3 DEF Hits
<1>6. CASE k.prop \notin Data /\ k.prop # "ModuleGone"
    <2>1. copy' = copy
        BY <1>6 DEF received
    <2> QED BY <1>1, <1>6, <2>1 DEF Hits
<1> QED BY <1>4, <1>5, <1>6

\* A packet arrives: what is on its way leads where it led before.
LEMMA DeliverIsTrusted ==
    ASSUME TypeInv, TypeInv', Trusted, NEW d \in Devices, NEW m \in Media, Deliver(d, m)
    PROVE  Trusted'
<1> DEFINE e == Other(d)
           packet == Head(fly[d][m])
           heard == IF m = "bt" /\ e = "Left" THEN SetConnected(link[e], m) ELSE link[e]
           given == Give(link[d], d, m)
           b == Connects(link[e], heard)
           w == link[d].via
<1>1. e \in Devices /\ d # e /\ Devices = {d, e} /\ Devices = {"Left", "Right"}
    BY DEF Other, Devices
<1>2. /\ fly[d][m] # <<>> /\ fly' = [fly EXCEPT ![d][m] = Tail(@)]
      /\ link' = [link EXCEPT ![e] = heard, ![d] = given]
      /\ IF b \/ packet.prop = "Reset"
           THEN invalidate(e, ResetRightLeftLink(e, b), thread)
           ELSE UNCHANGED <<dirty, thread, missed>>
      /\ copy' = received(packet)
      /\ UNCHANGED <<up, mine, listed>>
    BY <1>1 DEF Deliver, KeepDirty
<1>3. tangled \subseteq tangled' /\ (tangled' = {} => \A n \in Media \ {m} : fly[d][n] = <<>>)
    BY Zenon DEF Deliver
<1>4. fly[d][m] \in Seq(Packets) /\ packet \in Packets /\ packet.prop \in ToSet(Sends(d))
    <2>1. fly[d][m] \in Seq(Packets) /\ OwnOnly(d, fly[d][m])
        BY HalfTypes DEF Trusted, Steady
    <2>2. packet = fly[d][m][1] /\ 1 \in DOMAIN fly[d][m] /\ packet \in Packets
        BY <1>2, <2>1, HeadTailProperties, LenProperties
    <2> QED BY <2>1, <2>2 DEF OwnOnly
<1>5. link'[e] = heard /\ link'[d] = given /\ given.via = link[d].via
    <2>1. given.via = link[d].via
        BY HalfTypes, LinkOperators
    <2> HIDE DEF e, heard, given
    <2> QED BY <1>1, <1>2, <2>1 DEF TypeInv, LinksOK
<1>6. \A n \in Media : fly'[e][n] = fly[e][n]
                       /\ fly'[d][n] = IF n = m THEN Tail(fly[d][m]) ELSE fly[d][n]
    BY <1>1, <1>2 DEF TypeInv, FlyOK
<1>7. Routed(heard) /\ Routed(given)
    BY <1>1, HalfTypes, RoutesKept DEF Trusted, Steady
<1>8. thread \in ThreadIn /\ DirtyOK
    BY DEF TypeInv, ThreadsOK
<1>9. b \in BOOLEAN /\ (b => heard.via # link[e].via) /\ (~b => heard.via = link[e].via)
    <2>1. m = "bt" /\ e = "Left" => heard.via # "none"
        BY <1>1, HalfTypes, RoutesKept
    <2> QED BY <2>1 DEF Connects
<1> HIDE DEF e, packet, heard, given, b
<1>10. /\ dirty'[d] = dirty[d] /\ dirty[e] \subseteq dirty'[e]
       /\ b \/ packet.prop = "Reset" => Own(e) \subseteq dirty'[e]
       /\ b => "Reset" \in dirty'[e]
       /\ \A h \in Devices : SameThread(thread[h], thread'[h]) /\ InStep(h, thread'[h])
       /\ "ModuleGone" \in dirty'["Left"] => "ModuleGone" \in dirty["Left"]
    <2>1. \A h \in Devices : InStep(h, thread[h])
        BY DEF Trusted, Steady
    <2>2. CASE b \/ packet.prop = "Reset"
        <3>1. /\ dirty'[e] = dirty[e] \cup (ResetRightLeftLink(e, b) \cap Synced)
              /\ \A h \in Devices \ {e} : dirty'[h] = dirty[h]
              /\ \A h \in Devices : SameThread(thread[h], thread'[h])
              /\ \A h \in Devices : InStep(h, thread[h]) => InStep(h, thread'[h])
            BY <1>1, <1>2, <1>8, <2>2, Marks
        <3>2. Own(e) \subseteq ResetRightLeftLink(e, b) \cap Synced
              /\ (b => "Reset" \in ResetRightLeftLink(e, b) \cap Synced)
            BY <1>1, <1>9, OwnIsReset
        <3>3. "ModuleGone" \notin ResetRightLeftLink(e, b)
            BY DEF ResetRightLeftLink, ResetBy
        <3> QED BY <1>1, <2>1, <3>1, <3>2, <3>3
    <2>3. CASE ~(b \/ packet.prop = "Reset")
        BY <1>2, <2>1, <2>3 DEF SameThread
    <2> QED BY <2>2, <2>3
<1>11. \A h \in Devices : Steady(h)'
    <2>1. \A h \in Devices, n \in Media : OwnOnly(h, fly[h][n])
        BY DEF Trusted, Steady
    <2>2. OwnOnly(d, Tail(fly[d][m]))
        <3>1. /\ DOMAIN fly[d][m] = 1..Len(fly[d][m]) /\ Len(fly[d][m]) \in Nat \ {0}
              /\ DOMAIN Tail(fly[d][m]) = 1..(Len(fly[d][m]) - 1)
              /\ \A j \in 1..(Len(fly[d][m]) - 1) : Tail(fly[d][m])[j] = fly[d][m][j + 1]
            BY <1>2, <1>4, HeadTailProperties, LenProperties
        <3>2. \A j \in 1..(Len(fly[d][m]) - 1) : j + 1 \in 1..Len(fly[d][m])
            BY <3>1
        <3> QED BY <2>1, <3>1, <3>2 DEF OwnOnly
    <2>3. \A h \in Devices, n \in Media : OwnOnly(h, fly'[h][n])
        BY <1>1, <1>6, <2>1, <2>2
    <2> QED BY <1>1, <1>5, <1>7, <1>10, <2>3 DEF Steady
<1>12. Behind(d)'
    BY <1>5, <1>10 DEF Trusted, Behind, SameThread, Own, SourceOf
<1>13. ~b => Aside(e)
    BY <1>1, <1>2, <1>3, <1>5, <1>6, <1>9, <1>10 DEF Aside
<1>14. Behind(e)'
    <2>1. CASE b
        BY <1>10, <2>1 DEF Behind, Own, SourceOf
    <2>2. CASE ~b
        BY <1>1, <1>13, <2>2, AsideSends DEF Trusted
    <2> QED BY <2>1, <2>2
<1>15. w # m => Pipe(d)' = Pipe(d)
    BY <1>5, <1>6, <1>10, HalfTypes DEF Pipe, SameThread, Routes
<1>16. w = m => Pipe(d) \in Seq(Packets) /\ Pipe(d) # <<>> /\ Head(Pipe(d)) = packet /\ Pipe(d)' = Tail(Pipe(d))
    <2> SUFFICES ASSUME w = m
                 PROVE  Pipe(d) \in Seq(Packets) /\ Pipe(d) # <<>> /\ Head(Pipe(d)) = packet
                        /\ Pipe(d)' = Tail(Pipe(d))
        OBVIOUS
    <2>1. w # "none" /\ link'[d].via = w
        BY <1>5 DEF Media
    <2>2. CASE thread[d].pc = "wait" /\ thread[d].packet.via = w
        <3>1. Pipe(d) = Append(fly[d][m], thread[d].packet)
              /\ Pipe(d)' = Append(Tail(fly[d][m]), thread[d].packet)
            BY <1>6, <1>10, <2>1, <2>2 DEF Pipe, SameThread
        <3>2. thread[d].packet \in Packets
            BY <2>2, HalfTypes
        <3> QED BY <1>2, <1>4, <3>1, <3>2, HeadTailAppend, AppendProperties DEF packet
    <2>3. CASE ~(thread[d].pc = "wait" /\ thread[d].packet.via = w)
        <3>1. Pipe(d) = fly[d][m] /\ Pipe(d)' = Tail(fly[d][m])
            BY <1>6, <1>10, <2>1, <2>3 DEF Pipe, SameThread
        <3> QED BY <1>2, <1>4, <3>1 DEF packet
    <2> QED BY <2>2, <2>3
<1>17. Asked => Asked' \/ Own("Left") \subseteq dirty'["Left"]
    <2>1. CASE e = "Right" /\ b
        BY <1>10, <2>1 DEF Asked
    <2>2. CASE e = "Right" /\ ~b
        BY <1>13, <2>2, AsideAsks
    <2>3. CASE d = "Right" /\ packet.prop = "Reset"
        BY <1>1, <1>10, <2>3
    <2>4. CASE d = "Right" /\ packet.prop # "Reset"
        <3>1. WillReset("Right") => WillReset("Right")'
            BY <1>2, <1>5, <2>4 DEF WillReset
        <3>2. ASSUME NEW j \in DOMAIN Pipe("Right"), Pipe("Right")[j].prop = "Reset"
              PROVE  \E k \in DOMAIN Pipe("Right")' : Pipe("Right")'[k].prop = "Reset"
            <4>1. CASE w = m
                <5> DEFINE q == Pipe(d)
                <5>1. q \in Seq(Packets) /\ q # <<>> /\ Head(q) = packet /\ Pipe(d)' = Tail(q)
                    BY <1>16, <4>1
                <5> HIDE DEF q
                <5>2. /\ DOMAIN q = 1..Len(q) /\ Len(q) \in Nat \ {0} /\ packet = q[1]
                      /\ DOMAIN Tail(q) = 1..(Len(q) - 1)
                      /\ \A h \in 1..(Len(q) - 1) : Tail(q)[h] = q[h + 1]
                    BY <5>1, HeadTailProperties, LenProperties
                <5>3. j \in 1..Len(q) /\ q[j].prop = "Reset"
                    BY <2>4, <3>2, <5>2 DEF q
                <5>4. j - 1 \in 1..(Len(q) - 1) /\ Tail(q)[j - 1] = q[j]
                    <6>1. j # 1
                        BY <2>4, <5>2, <5>3
                    <6>2. j - 1 \in 1..(Len(q) - 1) /\ (j - 1) + 1 = j
                        BY <5>2, <5>3, <6>1
                    <6> QED BY <5>2, <6>2
                <5>5. \E k \in DOMAIN Tail(q) : Tail(q)[k].prop = "Reset"
                    BY <5>2, <5>3, <5>4
                <5> QED BY <2>4, <5>1, <5>5
            <4>2. CASE w # m
                BY <1>15, <2>4, <3>2, <4>2
            <4> QED BY <4>1, <4>2
        <3> QED BY <1>10, <2>4, <3>1, <3>2 DEF Asked, SameThread
    <2> QED BY <1>1, <2>1, <2>2, <2>3, <2>4
<1>18. ASSUME NEW p \in Own(e), NEW i \in Parts(p)
       PROVE  Kept(e, p, i)'
    <2>1. CASE b
        BY <1>1, <1>10, <2>1, MarkedKeeps
    <2>2. CASE ~b
        <3>1. \A q \in Own(e) : copy'[q] = copy[q]
            BY <1>1, <1>2, <1>4, Received
        <3> QED BY <1>1, <1>2, <1>13, <1>17, <2>2, <3>1, HalfAside
    <2> QED BY <2>1, <2>2
<1>19. ASSUME NEW p \in Own(d), NEW i \in Parts(p)
       PROVE  Kept(d, p, i)'
    <2>1. copy'[p][i] = IF Hits(packet, p, i) THEN Says(packet) ELSE copy[p][i]
        BY <1>2, <1>4, Received
    <2>2. ToCome(d, p, i) => ToCome(d, p, i)'
        BY <1>10 DEF ToCome, AboutTo, SameThread
    <2> SUFFICES ASSUME p \notin dirty'[d] PROVE Kept(d, p, i)'
        BY MarkedKeeps
    <2>3. SUFFICES ASSUME tangled' = {}, w \in up
                   PROVE  /\ \/ ToCome(d, p, i)'
                             \/ LeadsTo(Pipe(d)', copy'[p][i], mine'[p], p, i)
                             \/ p = "ModuleState" /\ (listed' # mine'[p] \/ Asked')
                          /\ \A n \in Media \ {w} :
                               Told(fly'[d][n], p, i) => ToCome(d, p, i)' \/ Told(Pipe(d)', p, i)
        BY <1>2, <1>5 DEF Kept
    <2>4. /\ \/ ToCome(d, p, i) \/ LeadsTo(Pipe(d), copy[p][i], mine[p], p, i)
             \/ p = "ModuleState" /\ (listed # mine[p] \/ Asked)
          /\ \A n \in Media \ {w} :
                Told(fly[d][n], p, i) => ToCome(d, p, i) \/ Told(Pipe(d), p, i)
        <3>1. Kept(d, p, i) /\ tangled = {}
            BY <1>3, <2>3 DEF Trusted, AllKept
        <3> QED BY <2>3, <3>1 DEF Kept
    <2>5. p = "ModuleState" /\ Asked => Asked'
        BY <1>17, <2>3, ModuleIsLeft
    <2>6. CASE w = m
        <3>1. LeadsTo(Pipe(d), copy[p][i], mine[p], p, i) => LeadsTo(Pipe(d)', copy'[p][i], mine'[p], p, i)
            BY <1>2, <1>16, <2>1, <2>6, ToldByTail
        <3>2. \A n \in Media \ {w} : fly'[d][n] = <<>>
            BY <1>3, <1>6, <2>3, <2>6
        <3>3. \A n \in Media \ {w} : ~Told(fly'[d][n], p, i)
            BY <3>2 DEF Told
        <3> QED BY <1>2, <2>2, <2>4, <2>5, <3>1, <3>3
    <2>7. CASE w # m
        <3>1. /\ Told(fly[d][m], p, i) <=> Hits(packet, p, i) \/ Told(Tail(fly[d][m]), p, i)
            BY <1>2, <1>4, ToldByTail DEF packet
        <3>2. \A n \in Media \ {w} : Told(fly'[d][n], p, i) => Told(fly[d][n], p, i)
            BY <1>6, <3>1
        <3>3. Hits(packet, p, i) => ToCome(d, p, i) \/ Told(Pipe(d), p, i)
            BY <2>4, <2>7, <3>1
        <3>4. Told(Pipe(d), p, i) /\ LeadsTo(Pipe(d), copy[p][i], mine[p], p, i)
                => LeadsTo(Pipe(d), copy'[p][i], mine[p], p, i)
            BY DEF LeadsTo
        <3>5. ToCome(d, p, i) \/ (LeadsTo(Pipe(d), copy[p][i], mine[p], p, i)
                                  => LeadsTo(Pipe(d), copy'[p][i], mine[p], p, i))
            BY <2>1, <3>3, <3>4
        <3> QED BY <1>2, <1>15, <2>2, <2>4, <2>5, <2>7, <3>2, <3>5
    <2> QED BY <2>6, <2>7
<1>20. Listed'
    <2>1. thread'["Left"].pc = "send" => thread["Left"].pc = "send" /\ thread'["Left"].prop = thread["Left"].prop
        BY <1>1, <1>10 DEF SameThread
    <2>2. dirty["Left"] \subseteq dirty'["Left"]
        BY <1>1, <1>10
    <2> QED BY <1>2, <1>3, <1>10, <2>1, <2>2 DEF Trusted, Listed
<1> QED BY <1>1, <1>11, <1>12, <1>14, <1>18, <1>19, <1>20, TrustedByHalf

\* The thread reads the first property it can send: it is about to send it then.
LEMMA LookIsTrusted ==
    ASSUME TypeInv, TypeInv', Trusted, NEW d \in Devices, Look(d)
    PROVE  Trusted'
<1> DEFINE q == First(d)
<1>1. /\ thread[d].pc = "look" /\ thread[d].part = 1 /\ thread[d] \in Thread /\ thread \in ThreadIn
      /\ dirty \in [Devices -> SUBSET Synced] /\ Devices = {"Left", "Right"}
    BY HalfTypes DEF Look, Trusted, Steady, InStep, TypeInv, ThreadsOK, DirtyOK, Devices
<1>2. UNCHANGED <<up, link, fly, mine, copy, listed, tangled>>
    BY DEF Look
<1>3. CASE link[d].via = "none" \/ Sendable(d) = {}
    <2>1. thread' = [thread EXCEPT ![d].pc = "drowsy"] /\ dirty' = dirty
        BY <1>3 DEF Look
    <2>2. \A e \in Devices : SameThread(thread[e], thread'[e]) /\ (InStep(e, thread[e]) => InStep(e, thread'[e]))
        BY <1>1, <2>1 DEF SameThread, InStep, ThreadIn, Thread
    <2>3. \A e \in Devices : Aside(e)
        BY <1>2, <2>1, <2>2 DEF Aside
    <2>4. Asked => Asked'
        BY <1>1, <2>3, AsideAsks
    <2>5. \A e \in Devices : \A p \in Own(e) : \A i \in Parts(p) : Kept(e, p, i)'
        BY <1>2, <2>3, <2>4, HalfAside
    <2>6. \A e \in Devices : Behind(e)' /\ Steady(e)'
        BY <1>2, <2>2, <2>3, AsideSends DEF Trusted, Steady
    <2>7. Listed'
        BY <1>1, <1>2, <2>1, <2>2 DEF Trusted, Listed, SameThread
    <2> QED BY <2>5, <2>6, <2>7, TrustedByHalf
<1>4. CASE ~(link[d].via = "none" \/ Sendable(d) = {})
    <2>1. q \in dirty[d] /\ q \in ToSet(Sends(d)) /\ link[d].via # "none"
        BY <1>4, FirstSendable DEF TypeInv, DirtyOK, Sendable
    <2>2. /\ thread' = [thread EXCEPT ![d].pc = "send", ![d].prop = q]
          /\ dirty' = [dirty EXCEPT ![d] = @ \ {q}]
        BY <1>4 DEF Look
    <2> HIDE DEF q
    <2>3. /\ thread'[d].pc = "send" /\ thread'[d].prop = q /\ thread'[d].part = 1
          /\ thread'[d].packet = thread[d].packet /\ dirty'[d] = dirty[d] \ {q}
          /\ \A e \in Devices \ {d} : thread'[e] = thread[e] /\ dirty'[e] = dirty[e]
        BY <1>1, <2>2 DEF ThreadIn, Thread
    <2>4. \A e \in Devices \ {d} : Aside(e)
        BY <1>2, <2>3 DEF Aside, SameThread
    <2>5. Pipe(d)' = Pipe(d)
        BY <1>1, <1>2, <2>3 DEF Pipe
    <2>6. \A p \in Own(d) : \A i \in Parts(p) : ToCome(d, p, i) => ToCome(d, p, i)'
        <3>1. \A p \in Own(d) : \A i \in Parts(p) : 1 <= i
            BY DEF Parts
        <3> QED BY <1>1, <2>3, <3>1 DEF ToCome, AboutTo
    <2>7. Asked => Asked'
        <3>1. CASE d = "Right"
            BY <1>2, <2>3, <2>5, <3>1, <1>1 DEF Asked, WillReset
        <3>2. CASE d # "Right"
            BY <1>1, <2>4, <3>2, AsideAsks
        <3> QED BY <3>1, <3>2
    <2>8. ASSUME NEW e \in Devices, NEW p \in Own(e), NEW i \in Parts(p)
          PROVE  Kept(e, p, i)'
        <3>1. Kept(e, p, i)
            BY DEF Trusted, AllKept
        <3>2. CASE e = d
            BY <1>2, <2>5, <2>6, <2>7, <3>1, <3>2 DEF Kept
        <3>3. CASE e # d
            BY <1>2, <2>4, <2>7, <3>3, HalfAside
        <3> QED BY <3>2, <3>3
    <2>9. ASSUME NEW e \in Devices
          PROVE  Behind(e)' /\ Steady(e)'
        <3>1. CASE e = d
            BY <1>2, <2>1, <2>3, <3>1 DEF Trusted, Behind, Steady, InStep
        <3>2. CASE e # d
            BY <1>2, <2>3, <2>4, <3>2, AsideSends DEF Trusted, Steady
        <3> QED BY <3>1, <3>2
    <2>10. Listed'
        <3>1. "ModuleGone" \in dirty'["Left"] => "ModuleGone" \in dirty["Left"]
            BY <1>1, <2>3
        <3>2. CASE d = "Left"
            BY <1>2, <2>1, <2>3, <3>1, <3>2 DEF Trusted, Listed
        <3>3. CASE d # "Left"
            BY <1>1, <1>2, <2>3, <3>1, <3>3 DEF Trusted, Listed
        <3> QED BY <3>2, <3>3
    <2> QED BY <2>8, <2>9, <2>10, TrustedByHalf
<1> QED BY <1>3, <1>4

\* A thread falls asleep.
LEMMA SleepIsTrusted ==
    ASSUME TypeInv, TypeInv', Trusted, NEW d \in Devices, Sleep(d)
    PROVE  Trusted'
<1>1. /\ thread[d].pc = "drowsy" /\ thread \in ThreadIn /\ thread' = [thread EXCEPT ![d].pc = "asleep"]
      /\ UNCHANGED <<up, link, dirty, fly, mine, copy, listed, tangled>>
    BY DEF Sleep, TypeInv, ThreadsOK
<1>2. \A e \in Devices : SameThread(thread[e], thread'[e]) /\ (InStep(e, thread[e]) => InStep(e, thread'[e]))
    BY <1>1 DEF SameThread, InStep, ThreadIn, Thread
<1>3. \A e \in Devices : Aside(e)
    BY <1>1, <1>2 DEF Aside
<1>4. Asked => Asked'
    BY <1>3, AsideAsks DEF Devices
<1>5. \A e \in Devices : \A p \in Own(e) : \A i \in Parts(p) : Kept(e, p, i)'
    BY <1>1, <1>3, <1>4, HalfAside
<1>6. \A e \in Devices : Behind(e)' /\ Steady(e)'
    BY <1>1, <1>2, <1>3, AsideSends DEF Trusted, Steady
<1>7. Listed'
    BY <1>1, <1>2 DEF Trusted, Listed, SameThread, Devices
<1> QED BY <1>5, <1>6, <1>7, TrustedByHalf

\* Where the thread goes after a packet.
LEMMA NextPacketGoesOn ==
    ASSUME TypeInv, NEW d \in Devices, InStep(d, thread[d])
    PROVE  LET t == nextPacket(d)
           IN  /\ InStep(d, t[d]) /\ t[d].pc \in {"send", "look"}
               /\ t[d].pc = "send" => t[d].prop = thread[d].prop
               /\ \A i \in Parts(thread[d].prop) : thread[d].part < i =>
                    t[d].pc = "send" /\ t[d].prop = thread[d].prop /\ t[d].part <= i
               /\ \A e \in Devices \ {d} : t[e] = thread[e]
<1>1. thread \in ThreadIn /\ thread[d] \in Thread
    BY HalfTypes DEF TypeInv, ThreadsOK
<1>2. CASE thread[d].part + 1 \in Parts(thread[d].prop)
    <2>1. /\ nextPacket(d)[d].pc = "send" /\ nextPacket(d)[d].prop = thread[d].prop
          /\ nextPacket(d)[d].part = thread[d].part + 1
          /\ \A e \in Devices \ {d} : nextPacket(d)[e] = thread[e]
        BY <1>1, <1>2 DEF nextPacket, ThreadIn, Thread
    <2>2. thread[d].part \in 1..2 /\ \A i \in Parts(thread[d].prop) : i \in Nat
        BY <1>1 DEF Thread, Parts
    <2> QED BY <2>1, <2>2 DEF InStep
<1>3. CASE thread[d].part + 1 \notin Parts(thread[d].prop)
    <2>1. nextPacket(d)[d] = Looking /\ \A e \in Devices \ {d} : nextPacket(d)[e] = thread[e]
        BY <1>1, <1>3 DEF nextPacket, ThreadIn
    <2>2. Looking.pc = "look" /\ Looking.part = 1 /\ Looking.prop = "Reset"
        BY DEF Looking
    <2>3. "Reset" \in ToSet(Sends(d))
        BY WhoSends DEF Devices
    <2>4. \A i \in Parts(thread[d].prop) : ~(thread[d].part < i)
        <3>1. thread[d].part \in 1..2
            BY <1>1 DEF Thread
        <3> QED BY <1>3, <3>1 DEF Parts
    <2> QED BY <2>1, <2>2, <2>3, <2>4 DEF InStep
<1> QED BY <1>2, <1>3

\* A packet that is accepted on the medium in use is on its way, if that works.
LEMMA TransmitsInTurn ==
    ASSUME TypeInv, Trusted, NEW d \in Devices, NEW k \in Packets, k.prop \in ToSet(Sends(d)),
           link[d].free[k.via] > 0, accept(d, k), thread' = nextPacket(d)
    PROVE  /\ \A e \in Devices : link'[e].via = link[e].via /\ Routed(link'[e])
           /\ \A e \in Devices \ {d} : fly'[e] = fly[e]
           /\ \A m \in Media : OwnOnly(d, fly'[d][m]) /\ (m # k.via => fly'[d][m] = fly[d][m])
           /\ k.via = link[d].via /\ k.via \in up => fly'[d][k.via] = Append(fly[d][k.via], k)
<1>1. k.via \in Media /\ link[d] \in LinkOf(d) /\ k.via # "none"
    BY HalfTypes DEF Packets, Media
<1>2. \A e \in Devices : link'[e].via = link[e].via
    BY Transmits DEF transmit
<1>3. \A e \in Devices : Routed(link'[e])
    <2>1. Routed(Take(link[d], k.via)) /\ \A e \in Devices : Routed(link[e])
        BY <1>1, RoutesKept DEF Trusted, Steady
    <2>2. link' = link \/ link' = [link EXCEPT ![d] = Take(@, k.via)]
        BY DEF accept
    <2> QED BY <2>1, <2>2 DEF TypeInv, LinksOK
<1>4. fly' = fly \/ fly' = [fly EXCEPT ![d][k.via] = Append(@, k)]
    BY DEF accept
<1>5. /\ \A e \in Devices \ {d} : fly'[e] = fly[e]
      /\ \A m \in Media : m # k.via => fly'[d][m] = fly[d][m]
      /\ fly'[d][k.via] \in {fly[d][k.via], Append(fly[d][k.via], k)}
    BY <1>1, <1>4 DEF TypeInv, FlyOK
<1>6. \A m \in Media : OwnOnly(d, fly'[d][m])
    <2>1. \A m \in Media : OwnOnly(d, fly[d][m])
        BY DEF Trusted, Steady
    <2>2. OwnOnly(d, Append(fly[d][k.via], k))
        <3> DEFINE q == fly[d][k.via]
        <3>1. q \in Seq(Packets) /\ OwnOnly(d, q)
            BY <1>1, <2>1, HalfTypes
        <3> HIDE DEF q
        <3>2. /\ Len(q) \in Nat /\ DOMAIN q = 1..Len(q) /\ DOMAIN Append(q, k) = 1..(Len(q) + 1)
              /\ Append(q, k)[Len(q) + 1] = k /\ \A j \in 1..Len(q) : Append(q, k)[j] = q[j]
            BY <3>1, AppendProperties, LenProperties
        <3>3. \A j \in 1..(Len(q) + 1) : j \in 1..Len(q) \/ j = Len(q) + 1
            BY <3>2
        <3>4. OwnOnly(d, Append(q, k))
            BY <3>1, <3>2, <3>3 DEF OwnOnly
        <3> QED BY <3>4 DEF q
    <2> QED BY <1>1, <1>5, <2>1, <2>2
<1>7. k.via = link[d].via /\ k.via \in up => fly'[d][k.via] = Append(fly[d][k.via], k)
    <2> SUFFICES ASSUME k.via = link[d].via, k.via \in up
                 PROVE  fly'[d][k.via] = Append(fly[d][k.via], k)
        OBVIOUS
    <2>1. k.via \in link[d].open
        BY <1>1, RoutesKept DEF Trusted, Steady
    <2>2. fly' = [fly EXCEPT ![d][k.via] = Append(@, k)]
        BY <2>1 DEF accept
    <2> QED BY <1>1, <2>2 DEF TypeInv, FlyOK
<1> QED BY <1>2, <1>3, <1>5, <1>6, <1>7

\* After a refusal only that threads wait for what they use, and that routes and
\* packets belong to their half, has to hold.
LEMMA RefusedIsTrusted ==
    ASSUME TypeInv, TypeInv', Trusted, NEW d \in Devices, NEW k, refuse(d, k),
           thread[d].pc \in {"send", "wait"}, thread' = nextPacket(d),
           UNCHANGED <<up, dirty, mine, copy, listed>>
    PROVE  Trusted'
<1>1. tangled' # {} /\ link' = link /\ fly' = fly
    BY DEF refuse
<1>2. thread \in ThreadIn /\ thread[d] \in Thread /\ InStep(d, thread[d])
    BY HalfTypes DEF Trusted, Steady, TypeInv, ThreadsOK
<1>3. /\ InStep(d, thread'[d]) /\ thread'[d].pc \in {"send", "look"}
      /\ \A e \in Devices \ {d} : thread'[e] = thread[e]
    BY <1>2, NextPacketGoesOn
<1>4. AllKept'
    BY <1>1 DEF AllKept, Kept
<1>5. Listed'
    BY <1>1 DEF Trusted, Listed
<1>6. ASSUME NEW e \in Devices
      PROVE  Behind(e)' /\ Steady(e)'
    <2>1. CASE e = d
        BY <1>1, <1>3, <2>1 DEF Trusted, Behind, Steady
    <2>2. CASE e # d
        BY <1>1, <1>3, <2>2 DEF Trusted, Behind, Steady
    <2> QED BY <2>1, <2>2
<1> QED BY <1>4, <1>5, <1>6 DEF Trusted

\* Only half d and its thread have moved.
LEMMA ThreadIsTrusted ==
    ASSUME TypeInv, TypeInv', Trusted, NEW d \in Devices,
           UNCHANGED <<up, dirty, mine, copy, listed, tangled>>,
           \A e \in Devices : link'[e].via = link[e].via /\ Routed(link'[e]),
           \A e \in Devices \ {d} : thread'[e] = thread[e] /\ fly'[e] = fly[e],
           InStep(d, thread'[d]), \A m \in Media : OwnOnly(d, fly'[d][m]),
           thread'[d].pc = "send" => thread[d].pc = "wait" \/ thread[d].pc = "send",
           thread'[d].pc = "send" => thread'[d].prop = thread[d].prop,
           thread[d].pc = "wait" /\ thread[d].prop = "ModuleGone" => thread'[d].pc # "send",
           Behind(d)', d = "Right" /\ Asked => Asked',
           \A p \in Own(d) : \A i \in Parts(p) : (p = "ModuleState" /\ Asked => Asked') => Kept(d, p, i)'
    PROVE  Trusted'
<1>1. \A e \in Devices \ {d} : Aside(e)
    BY DEF Aside, SameThread
<1>2. Asked => Asked'
    BY <1>1, AsideAsks DEF Devices
<1>3. ASSUME NEW e \in Devices, NEW p \in Own(e), NEW i \in Parts(p)
      PROVE  Kept(e, p, i)'
    <2>1. CASE e = d
        BY <1>2, <2>1
    <2>2. CASE e # d
        BY <1>1, <1>2, <2>2, HalfAside
    <2> QED BY <2>1, <2>2
<1>4. ASSUME NEW e \in Devices
      PROVE  Behind(e)' /\ Steady(e)'
    <2>1. CASE e = d
        BY <2>1 DEF Steady
    <2>2. CASE e # d
        BY <1>1, <2>2, AsideSends DEF Trusted, Steady
    <2> QED BY <2>1, <2>2
<1>5. Listed'
    <2>1. thread'["Left"].pc = "send" /\ thread'["Left"].prop = "ModuleGone" =>
            thread["Left"].pc = "send" /\ thread["Left"].prop = "ModuleGone"
        BY DEF Devices
    <2> QED BY <2>1 DEF Trusted, Listed
<1> QED BY <1>3, <1>4, <1>5, TrustedByHalf

\* One more packet k on the way of half d, with what the half knows.
LEMMA AppendIsKept ==
    ASSUME TypeInv, TypeInv', Trusted, NEW d \in Devices, NEW k \in Packets,
           NEW p \in Own(d), NEW i \in Parts(p),
           UNCHANGED <<up, dirty, mine, copy, listed, tangled>>, link'[d].via = link[d].via,
           link[d].via \in up => Pipe(d)' = Append(Pipe(d), k),
           \A m \in Media \ {link[d].via} : fly'[d][m] = fly[d][m],
           ToCome(d, p, i) => ToCome(d, p, i)' \/ Hits(k, p, i),
           tangled = {} /\ Hits(k, p, i) => Says(k) = mine[p] \/ p \in dirty[d],
           p = "ModuleState" /\ Asked => Asked'
    PROVE  Kept(d, p, i)'
<1>1. SUFFICES ASSUME tangled' = {}, link'[d].via \in up'
               PROVE  /\ \/ ToCome(d, p, i)'
                         \/ LeadsTo(Pipe(d)', copy'[p][i], mine'[p], p, i)
                         \/ p = "ModuleState" /\ (listed' # mine'[p] \/ Asked')
                      /\ \A m \in Media \ {link'[d].via} :
                           Told(fly'[d][m], p, i) => ToCome(d, p, i)' \/ Told(Pipe(d)', p, i)
    BY DEF Kept
<1>2. tangled = {} /\ link[d].via \in up
    BY <1>1
<1>3. /\ \/ ToCome(d, p, i) \/ LeadsTo(Pipe(d), copy[p][i], mine[p], p, i)
         \/ p = "ModuleState" /\ (listed # mine[p] \/ Asked)
      /\ \A m \in Media \ {link[d].via} :
            Told(fly[d][m], p, i) => ToCome(d, p, i) \/ Told(Pipe(d), p, i)
    BY <1>2 DEF Trusted, AllKept, Kept
<1>4. /\ Told(Pipe(d)', p, i) <=> Hits(k, p, i) \/ Told(Pipe(d), p, i)
      /\ LeadsTo(Pipe(d)', copy[p][i], mine[p], p, i) <=>
           IF Hits(k, p, i) THEN Says(k) = mine[p]
           ELSE LeadsTo(Pipe(d), copy[p][i], mine[p], p, i)
    <2> DEFINE q == Pipe(d)
    <2>1. q \in Seq(Packets) /\ Pipe(d)' = Append(q, k)
        BY <1>2, PipeTyped
    <2> HIDE DEF q
    <2>2. /\ Told(Append(q, k), p, i) <=> Hits(k, p, i) \/ Told(q, p, i)
          /\ LeadsTo(Append(q, k), copy[p][i], mine[p], p, i) <=>
               IF Hits(k, p, i) THEN Says(k) = mine[p]
               ELSE LeadsTo(q, copy[p][i], mine[p], p, i)
        BY <2>1, ToldByAppend
    <2>3. /\ Told(Pipe(d)', p, i) <=> Hits(k, p, i) \/ Told(q, p, i)
          /\ LeadsTo(Pipe(d)', copy[p][i], mine[p], p, i) <=>
               IF Hits(k, p, i) THEN Says(k) = mine[p]
               ELSE LeadsTo(q, copy[p][i], mine[p], p, i)
        BY <2>1, <2>2
    <2> QED BY <2>3 DEF q
<1>5. CASE Hits(k, p, i)
    <2>1. Says(k) = mine[p] \/ ToCome(d, p, i)'
        BY <1>2, <1>5 DEF ToCome
    <2> QED BY <1>4, <1>5, <2>1
<1>6. CASE ~Hits(k, p, i)
    BY <1>3, <1>4, <1>6
<1> QED BY <1>5, <1>6

\* The right half goes on asking when it sends.
LEMMA AppendAsks ==
    ASSUME TypeInv, NEW k \in Packets, UNCHANGED <<up, dirty>>, Asked,
           link'["Right"].via = link["Right"].via,
           link["Right"].via \in up => Pipe("Right")' = Append(Pipe("Right"), k),
           thread["Right"].pc = "send" => k.prop = thread["Right"].prop
    PROVE  Asked'
<1>1. "Right" \in Devices /\ link["Right"].via \in Routes
    BY HalfTypes DEF Devices
<1>2. CASE link["Right"].via \in up
    <2> DEFINE q == Pipe("Right")
    <2>1. q \in Seq(Packets) /\ Pipe("Right")' = Append(q, k)
        BY <1>1, <1>2, PipeTyped
    <2>2. CASE \E j \in DOMAIN q : q[j].prop = "Reset"
        <3> HIDE DEF q
        <3>1. PICK j \in DOMAIN q : q[j].prop = "Reset"
            BY <2>2
        <3>2. j \in DOMAIN Append(q, k) /\ Append(q, k)[j] = q[j]
            BY <2>1, AppendProperties, LenProperties
        <3> QED BY <2>1, <3>1, <3>2 DEF Asked
    <2>3. CASE thread["Right"].pc = "send" /\ thread["Right"].prop = "Reset"
        <3> HIDE DEF q
        <3>1. Len(q) + 1 \in DOMAIN Append(q, k) /\ Append(q, k)[Len(q) + 1] = k
            BY <2>1, AppendProperties, LenProperties
        <3> QED BY <2>1, <2>3, <3>1 DEF Asked
    <2>4. CASE "Reset" \in dirty["Right"] \/ WillReset("Right")
        BY <2>4 DEF Asked, WillReset
    <2> QED BY <2>2, <2>3, <2>4 DEF Asked
<1>3. CASE link["Right"].via \notin up
    BY <1>1, <1>3 DEF Asked, WillReset, Routes
<1> QED BY <1>2, <1>3

\* A packet is dropped, transmitted, or waited with.
LEMMA SendIsTrusted ==
    ASSUME TypeInv, TypeInv', Trusted, NEW d \in Devices, Send(d)
    PROVE  Trusted'
<1> DEFINE k == Packet(d)
           v == link[d].via
<1>1. /\ thread[d].pc = "send" /\ thread \in ThreadIn /\ thread[d] \in Thread
      /\ InStep(d, thread[d]) /\ Routed(link[d])
      /\ UNCHANGED <<up, dirty, mine, copy, listed>>
    BY HalfTypes DEF Send, Trusted, Steady, TypeInv, ThreadsOK
<1>2. /\ k.via = v /\ k.prop = thread[d].prop /\ k.part = thread[d].part
      /\ k.prop \in Data => k.val = mine[k.prop]
    BY <1>1 DEF Packet, Routed
<1>3. k.prop \in ToSet(Sends(d))
    BY <1>1, <1>2 DEF InStep
<1>4. \/ v = "none" /\ thread' = nextPacket(d) /\ UNCHANGED <<link, fly, tangled>>
      \/ v # "none" /\ link[d].free[k.via] > 0 /\ accept(d, k) /\ thread' = nextPacket(d)
      \/ refuse(d, k) /\ thread' = nextPacket(d)
      \/ v # "none" /\ thread' = [thread EXCEPT ![d].pc = "wait", ![d].packet = k]
                    /\ UNCHANGED <<link, fly, tangled>>
    BY <1>2 DEF Send, transmit
<1>5. v # "none" => k \in Packets
    BY <1>2, PacketTyped
<1> HIDE DEF k
<1>6. CASE v = "none" /\ thread' = nextPacket(d) /\ UNCHANGED <<link, fly, tangled>>
    <2>1. /\ InStep(d, thread'[d]) /\ thread'[d].pc \in {"send", "look"}
          /\ thread'[d].pc = "send" => thread'[d].prop = thread[d].prop
          /\ \A e \in Devices \ {d} : thread'[e] = thread[e]
        BY <1>1, <1>6, NextPacketGoesOn
    <2>2. Behind(d)' /\ (d = "Right" => Asked')
        BY <1>6 DEF Behind, Asked, WillReset
    <2>3. \A p \in Own(d) : \A i \in Parts(p) : Kept(d, p, i)'
        <3>1. "none" \notin up'
            BY <1>1, HalfTypes DEF Media
        <3> QED BY <1>6, <3>1 DEF Kept
    <2>4. \A e \in Devices : link'[e].via = link[e].via /\ Routed(link'[e])
        BY <1>6 DEF Trusted, Steady
    <2>5. \A m \in Media : OwnOnly(d, fly'[d][m])
        BY <1>6 DEF Trusted, Steady
    <2> QED BY <1>1, <1>6, <2>1, <2>2, <2>3, <2>4, <2>5, ThreadIsTrusted
<1>7. CASE /\ v # "none"
           /\ \/ link[d].free[k.via] > 0 /\ accept(d, k) /\ thread' = nextPacket(d)
              \/ /\ thread' = [thread EXCEPT ![d].pc = "wait", ![d].packet = k]
                 /\ UNCHANGED <<link, fly, tangled>>
    <2>1. k \in Packets /\ v \in Media /\ up \subseteq Media /\ tangled' = tangled
        BY <1>5, <1>7, HalfTypes DEF Routes, accept
    <2>2. /\ \A e \in Devices : link'[e].via = link[e].via /\ Routed(link'[e])
          /\ \A e \in Devices \ {d} : thread'[e] = thread[e] /\ fly'[e] = fly[e]
          /\ InStep(d, thread'[d]) /\ \A m \in Media : OwnOnly(d, fly'[d][m])
          /\ thread'[d].pc = "send" => thread'[d].prop = thread[d].prop
          /\ Behind(d)'
          /\ v \in up => Pipe(d)' = Append(Pipe(d), k)
          /\ \A m \in Media \ {v} : fly'[d][m] = fly[d][m]
          /\ \A p \in Own(d) : \A i \in Parts(p) :
               thread[d].prop = p /\ thread[d].part < i =>
                 /\ thread'[d].prop = p
                 /\ \/ thread'[d].pc = "send" /\ thread'[d].part <= i
                    \/ thread'[d].pc = "wait" /\ thread'[d].part < i
        <3>1. CASE link[d].free[k.via] > 0 /\ accept(d, k) /\ thread' = nextPacket(d)
            <4>1. /\ \A e \in Devices : link'[e].via = link[e].via /\ Routed(link'[e])
                  /\ \A e \in Devices \ {d} : fly'[e] = fly[e]
                  /\ \A m \in Media : OwnOnly(d, fly'[d][m]) /\ (m # k.via => fly'[d][m] = fly[d][m])
                  /\ k.via = link[d].via /\ k.via \in up => fly'[d][k.via] = Append(fly[d][k.via], k)
                BY <1>3, <2>1, <3>1, TransmitsInTurn
            <4>2. /\ InStep(d, thread'[d]) /\ thread'[d].pc \in {"send", "look"}
                  /\ thread'[d].pc = "send" => thread'[d].prop = thread[d].prop
                  /\ \A i \in Parts(thread[d].prop) : thread[d].part < i =>
                       thread'[d].pc = "send" /\ thread'[d].prop = thread[d].prop /\ thread'[d].part <= i
                  /\ \A e \in Devices \ {d} : thread'[e] = thread[e]
                BY <1>1, <3>1, NextPacketGoesOn
            <4>3. Behind(d)'
                BY <4>2 DEF Behind
            <4>4. v \in up => Pipe(d)' = Append(Pipe(d), k)
                BY <1>1, <1>2, <1>7, <4>1, <4>2 DEF Pipe
            <4> QED BY <1>2, <4>1, <4>2, <4>3, <4>4
        <3>2. CASE thread' = [thread EXCEPT ![d].pc = "wait", ![d].packet = k]
                   /\ UNCHANGED <<link, fly>>
            <4>1. /\ thread'[d].pc = "wait" /\ thread'[d].packet = k /\ thread'[d].prop = thread[d].prop
                  /\ thread'[d].part = thread[d].part
                  /\ \A e \in Devices \ {d} : thread'[e] = thread[e]
                BY <1>1, <3>2 DEF ThreadIn, Thread
            <4>2. InStep(d, thread'[d])
                BY <1>1, <1>2, <4>1 DEF InStep
            <4>3. Behind(d)' /\ Pipe(d)' = Append(Pipe(d), k)
                BY <1>1, <1>2, <1>7, <3>2, <4>1 DEF Behind, Pipe
            <4> QED BY <3>2, <4>1, <4>2, <4>3 DEF Trusted, Steady
        <3> QED BY <1>7, <3>1, <3>2
    <2>3. d = "Right" /\ Asked => Asked'
        BY <1>1, <1>2, <2>1, <2>2, AppendAsks
    <2>4. ASSUME NEW p \in Own(d), NEW i \in Parts(p), p = "ModuleState" /\ Asked => Asked'
          PROVE  Kept(d, p, i)'
        <3>1. ToCome(d, p, i) => ToCome(d, p, i)' \/ Hits(k, p, i)
            <4>1. thread[d].part \in Nat /\ i \in Nat
                BY <1>1 DEF Thread, Parts
            <4>2. CASE thread[d].prop = p /\ thread[d].part < i
                BY <2>2, <4>2 DEF ToCome, AboutTo
            <4>3. CASE ~(thread[d].prop = p /\ thread[d].part < i)
                BY <1>1, <1>2, <4>1, <4>3 DEF ToCome, AboutTo, Hits
            <4> QED BY <4>2, <4>3
        <3>2. tangled = {} /\ Hits(k, p, i) => Says(k) = mine[p] \/ p \in dirty[d]
            <4>1. p \in Data /\ (p = "ModuleState" => d = "Left")
                BY ModuleIsLeft DEF Own
            <4>2. CASE k.prop = p
                BY <1>2, <4>1, <4>2 DEF Says
            <4>3. CASE k.prop # p /\ tangled = {} /\ Hits(k, p, i)
                <5>1. k.prop = "ModuleGone" /\ p = "ModuleState" /\ d = "Left"
                    BY <4>1, <4>3 DEF Hits
                <5>2. mine[p] = 0 \/ p \in dirty[d]
                    BY <1>1, <1>2, <4>1, <4>3, <5>1 DEF Trusted, Listed
                <5>3. "ModuleGone" \notin Data
                    BY DEF Data, Events
                <5> QED BY <5>1, <5>2, <5>3 DEF Says
            <4> QED BY <4>2, <4>3
        <3> QED BY <1>1, <2>1, <2>2, <2>4, <3>1, <3>2, AppendIsKept
    <2> QED BY <1>1, <2>1, <2>2, <2>3, <2>4, ThreadIsTrusted
<1>8. CASE refuse(d, k) /\ thread' = nextPacket(d)
    BY <1>1, <1>8, RefusedIsTrusted
<1> QED BY <1>4, <1>6, <1>7, <1>8

\* What a thread waited to send is accepted.
LEMMA AcceptedIsTrusted ==
    ASSUME TypeInv, TypeInv', Trusted, NEW d \in Devices, Resume(d),
           accept(d, thread[d].packet), thread' = nextPacket(d)
    PROVE  Trusted'
<1> DEFINE k == thread[d].packet
           v == link[d].via
<1>1. /\ thread[d].pc = "wait" /\ thread[d] \in Thread /\ InStep(d, thread[d]) /\ k \in Packets
      /\ link[d].free[k.via] > 0 /\ accept(d, k)
      /\ UNCHANGED <<up, dirty, mine, copy, listed, tangled>>
    BY HalfTypes DEF Resume, accept, Trusted, Steady
<1>2. k.prop = thread[d].prop /\ k.part = thread[d].part /\ k.prop \in ToSet(Sends(d))
    BY <1>1 DEF InStep
<1>3. k.via \in Media
    BY <1>1 DEF Packets
<1> HIDE DEF k
<1>4. /\ \A e \in Devices : link'[e].via = link[e].via /\ Routed(link'[e])
      /\ \A e \in Devices \ {d} : fly'[e] = fly[e]
      /\ \A m \in Media : OwnOnly(d, fly'[d][m]) /\ (m # k.via => fly'[d][m] = fly[d][m])
      /\ k.via = link[d].via /\ k.via \in up => fly'[d][k.via] = Append(fly[d][k.via], k)
      /\ thread' = nextPacket(d)
    BY <1>1, <1>2, TransmitsInTurn
<1>5. /\ InStep(d, thread'[d]) /\ thread'[d].pc \in {"send", "look"}
      /\ thread'[d].pc = "send" => thread'[d].prop = thread[d].prop
      /\ \A i \in Parts(thread[d].prop) : thread[d].part < i =>
           thread'[d].pc = "send" /\ thread'[d].prop = thread[d].prop /\ thread'[d].part <= i
      /\ \A e \in Devices \ {d} : thread'[e] = thread[e]
    BY <1>1, <1>4, NextPacketGoesOn
<1>6. thread[d].prop = "ModuleGone" => thread'[d].pc # "send"
    <2>1. thread[d].prop = "ModuleGone" => thread[d].part + 1 \notin Parts(thread[d].prop)
        BY <1>1 DEF Thread, Parts
    <2>2. thread[d].prop = "ModuleGone" => thread' = [thread EXCEPT ![d] = Looking]
        BY <1>4, <2>1 DEF nextPacket
    <2> QED BY <2>2 DEF TypeInv, ThreadsOK, ThreadIn, Looking
<1>7. Behind(d)'
    BY <1>5 DEF Behind
<1>8. ASSUME NEW p \in Own(d), NEW i \in Parts(p)
      PROVE  ToCome(d, p, i) => ToCome(d, p, i)'
    BY <1>1, <1>5 DEF ToCome, AboutTo
<1>9. CASE k.via = v
    <2>1. v \in Media
        BY <1>3, <1>9
    <2>2. v \in up => Pipe(d)' = Pipe(d)
        <3>1. SUFFICES ASSUME v \in up PROVE Pipe(d)' = Pipe(d)
            OBVIOUS
        <3>2. v # "none" /\ link'[d].via = v /\ thread'[d].pc # "wait"
            BY <1>4, <1>5, <2>1 DEF Media
        <3>3. Pipe(d)' = fly'[d][v]
            BY <3>2 DEF Pipe
        <3>4. Pipe(d) = Append(fly[d][v], k)
            BY <1>1, <1>9, <3>2 DEF Pipe, k
        <3> QED BY <1>4, <1>9, <3>1, <3>3, <3>4
    <2>3. d = "Right" /\ Asked => Asked'
        <3>1. CASE v \in up
            BY <1>1, <1>4, <2>2, <3>1 DEF Asked, WillReset
        <3>2. CASE v \notin up
            BY <1>1, <1>4, <2>1, <3>2 DEF Asked, WillReset
        <3> QED BY <3>1, <3>2
    <2>4. ASSUME NEW p \in Own(d), NEW i \in Parts(p), p = "ModuleState" /\ Asked => Asked'
          PROVE  Kept(d, p, i)'
        <3>1. CASE v \in up
            <4>1. /\ link'[d].via = v /\ Pipe(d)' = Pipe(d)
                  /\ \A m \in Media \ {v} : fly'[d][m] = fly[d][m]
                BY <1>4, <1>9, <2>2, <3>1
            <4>2. Kept(d, p, i)
                BY DEF Trusted, AllKept
            <4> QED BY <1>1, <1>8, <2>4, <4>1, <4>2 DEF Kept
        <3>2. CASE v \notin up
            BY <1>1, <1>4, <3>2 DEF Kept
        <3> QED BY <3>1, <3>2
    <2> QED BY <1>1, <1>4, <1>5, <1>6, <1>7, <2>3, <2>4, ThreadIsTrusted
<1>10. CASE k.via # v
    <2>1. v = "none" \/ Own(d) \cup {"Reset"} \subseteq dirty'[d]
        BY <1>1, <1>10 DEF Trusted, Behind, k
    <2>2. d = "Right" => Asked'
        BY <1>4, <2>1 DEF Asked, WillReset
    <2>3. ASSUME NEW p \in Own(d), NEW i \in Parts(p)
          PROVE  Kept(d, p, i)'
        <3>1. CASE v = "none"
            BY <1>1, <1>4, <3>1, HalfTypes DEF Kept, Media
        <3>2. CASE v # "none"
            BY <2>1, <3>2, MarkedKeeps
        <3> QED BY <3>1, <3>2
    <2> QED BY <1>1, <1>4, <1>5, <1>6, <1>7, <2>2, <2>3, ThreadIsTrusted
<1> QED BY <1>9, <1>10

\* A thread that waited for a slot transmits.
LEMMA ResumeIsTrusted ==
    ASSUME TypeInv, TypeInv', Trusted, NEW d \in Devices, Resume(d)
    PROVE  Trusted'
<1>1. CASE accept(d, thread[d].packet) /\ thread' = nextPacket(d)
    BY <1>1, AcceptedIsTrusted
<1>2. CASE refuse(d, thread[d].packet) /\ thread' = nextPacket(d)
    BY <1>2, RefusedIsTrusted DEF Resume
<1> QED BY <1>1, <1>2 DEF Resume, transmit

-----------------------------------------------------------------------------
(* Nothing is forgotten.                                                   *)

\* At the start no half has a link, so nothing can have been told.
LEMMA InitIsTrusted == Init => Trusted
<1> SUFFICES ASSUME Init PROVE Trusted
    OBVIOUS
<1>1. \A d \in Devices :
        /\ link[d].via = "none" /\ link[d].open = {} /\ dirty[d] = {} /\ thread[d] = Looking
        /\ \A m \in Media : fly[d][m] = <<>>
    BY DEF Init, Unlinked
<1>2. up \subseteq Media /\ "none" \notin Media
    BY SyncAssumption DEF Init, Media
<1>3. AllKept
    BY <1>1, <1>2 DEF AllKept, Kept
<1>4. Listed
    <2>1. "ModuleState" \in Data => mine["ModuleState"] = 0
        BY DEF Init
    <2> QED BY <1>1, <2>1 DEF Listed, Devices, Looking
<1>5. ASSUME NEW d \in Devices
      PROVE  Behind(d) /\ Steady(d)
    <2>1. Behind(d) /\ Routed(link[d])
        BY <1>1 DEF Behind, Routed, determineChannel
    <2>2. InStep(d, thread[d])
        BY <1>1, WhoSends DEF InStep, Looking, Devices
    <2>3. \A m \in Media : OwnOnly(d, fly[d][m])
        BY <1>1 DEF OwnOnly
    <2> QED BY <2>1, <2>2, <2>3 DEF Steady
<1> QED BY <1>3, <1>4, <1>5 DEF Trusted

\* No step of the world, of a callback or of a thread loses the other half's trust.
LEMMA NextIsTrusted == TypeInv /\ Quiet /\ Trusted /\ [Next]_vars => Trusted'
<1> SUFFICES ASSUME TypeInv, Quiet, Trusted, [Next]_vars
             PROVE  Trusted'
    OBVIOUS
<1>1. TypeInv'
    BY NextKeeps
<1>2. CASE World
    <2>1. CASE \E p \in Data : Update(p)
        BY <1>1, <2>1, UpdateIsTrusted
    <2>2. CASE \E b \in BOOLEAN : ApplyConfig(b)
        BY <1>1, <2>2, ApplyConfigIsTrusted
    <2>3. CASE ModuleAttached
        BY <1>1, <2>3, ModuleAttachedIsTrusted
    <2>4. CASE ModuleDetached
        BY <1>1, <2>4, ModuleDetachedIsTrusted
    <2>5. CASE \E m \in Media : Break(m) \/ Restore(m)
        BY <1>1, <2>5, BreakIsTrusted, RestoreIsTrusted
    <2> QED BY <1>2, <2>1, <2>2, <2>3, <2>4, <2>5 DEF World
<1>3. CASE Callbacks
    <2>1. CASE ModuleUnlisted
        BY <1>1, <2>1, ModuleUnlistedIsTrusted
    <2>2. ASSUME NEW d \in Devices, NEW m \in Media, Connect(d, m)
          PROVE  Trusted'
        BY <1>1, <2>2, ConnectIsTrusted
    <2>3. ASSUME NEW d \in Devices, NEW m \in Media, NEW handedBack \in HandsBack(d, m),
                 Notice(d, m, handedBack)
          PROVE  Trusted'
        BY <1>1, <2>3, NoticeIsTrusted DEF HandsBack
    <2>4. ASSUME NEW d \in Devices, NEW m \in Media, Deliver(d, m)
          PROVE  Trusted'
        BY <1>1, <2>4, DeliverIsTrusted
    <2> QED BY <1>3, <2>1, <2>2, <2>3, <2>4 DEF Callbacks
<1>4. CASE \E d \in Devices : SyncThread(d)
    BY <1>1, <1>4, LookIsTrusted, SendIsTrusted, ResumeIsTrusted, SleepIsTrusted DEF SyncThread
<1>5. CASE UNCHANGED vars
    <2>1. UNCHANGED <<up, link, dirty, thread, fly, mine, copy, listed, tangled>>
        BY <1>5 DEF vars
    <2>2. \A d \in Devices : Aside(d)
        BY <2>1 DEF Aside, SameThread
    <2>3. Asked => Asked'
        BY <1>1, <2>2, AsideAsks DEF Devices
    <2>4. \A d \in Devices : \A p \in Own(d) : \A i \in Parts(p) : Kept(d, p, i)'
        BY <1>1, <2>1, <2>2, <2>3, HalfAside
    <2>5. \A d \in Devices : Behind(d)' /\ Steady(d)'
        BY <2>1 DEF Trusted, Behind, Steady
    <2>6. Listed'
        BY <2>1 DEF Trusted, Listed
    <2> QED BY <2>4, <2>5, <2>6, TrustedByHalf
<1> QED BY <1>2, <1>3, <1>4, <1>5 DEF Next, System

LEMMA TrustInvariant == Spec => [](TypeInv /\ Quiet /\ Trusted)
<1>1. Init => TypeInv /\ Quiet /\ Trusted
    BY InitHolds, InitIsTrusted
<1>2. TypeInv /\ Quiet /\ Trusted /\ [Next]_vars => TypeInv' /\ Quiet' /\ Trusted'
    BY NextKeeps, NextIsTrusted
<1> QED BY <1>1, <1>2, PTL DEF Spec

\* What is told in the pipe of a half is in flight, or its thread waits with it.
LEMMA PipeSends ==
    ASSUME TypeInv, Trusted, NEW d \in Devices, link[d].via # "none",
           NEW j \in DOMAIN Pipe(d), NEW q, Pipe(d)[j].prop = q
    PROVE  Sending(d, q)
<1>1. link[d].via \in Media /\ fly[d][link[d].via] \in Seq(Packets)
    BY HalfTypes DEF Routes
<1>2. CASE thread[d].pc = "wait" /\ thread[d].packet.via = link[d].via
    <2> DEFINE f == fly[d][link[d].via]
               k == thread[d].packet
    <2>1. Pipe(d) = Append(f, k) /\ f \in Seq(Packets)
        BY <1>1, <1>2 DEF Pipe
    <2>2. k.prop = thread[d].prop /\ k \in Packets
        BY <1>2, HalfTypes DEF Trusted, Steady, InStep
    <2> HIDE DEF f, k
    <2>3. \/ j \in DOMAIN f /\ Append(f, k)[j] = f[j]
          \/ Append(f, k)[j] = k
        <3>1. /\ Len(f) \in Nat /\ DOMAIN f = 1..Len(f) /\ DOMAIN Append(f, k) = 1..(Len(f) + 1)
              /\ Append(f, k)[Len(f) + 1] = k /\ \A h \in 1..Len(f) : Append(f, k)[h] = f[h]
            BY <2>1, <2>2, AppendProperties, LenProperties
        <3> QED BY <2>1, <3>1
    <2>4. CASE j \in DOMAIN f /\ f[j].prop = q
        BY <1>1, <2>4 DEF Sending, f
    <2>5. CASE k.prop = q
        BY <1>2, <2>2, <2>5 DEF Sending
    <2> QED BY <2>1, <2>3, <2>4, <2>5
<1>3. CASE ~(thread[d].pc = "wait" /\ thread[d].packet.via = link[d].via)
    <2>1. Pipe(d) = fly[d][link[d].via]
        BY <1>3 DEF Pipe
    <2> QED BY <1>1, <2>1 DEF Sending
<1> QED BY <1>2, <1>3

\* The trust of the other half is why nothing is forgotten.
LEMMA TrustedForgetsNothing == TypeInv /\ Trusted => NothingForgotten
<1> SUFFICES ASSUME TypeInv, Trusted, tangled = {}, NEW p \in Data,
                    link[SourceOf(p)].via \in up, ~CopyOK(p),
                    p = "ModuleState" => listed = mine[p]
             PROVE  \/ Sending(SourceOf(p), p) \/ Sending(Other(SourceOf(p)), "Reset")
                    \/ p = "ModuleState" /\ Sending(SourceOf(p), "ModuleGone")
                    \/ WillReset(Other(SourceOf(p)))
    BY DEF NothingForgotten
<1> DEFINE d == SourceOf(p)
<1>1. d \in Devices /\ p \in Own(d) /\ link[d].via # "none"
    BY HalfTypes DEF SourceOf, Devices, Own, Media
<1>2. PICK i \in Parts(p) : copy[p][i] # mine[p]
    BY DEF CopyOK
<1>3. \/ ToCome(d, p, i) \/ LeadsTo(Pipe(d), copy[p][i], mine[p], p, i)
      \/ p = "ModuleState" /\ Asked
    BY <1>1 DEF Trusted, AllKept, Kept
<1> HIDE DEF d
<1>4. CASE ToCome(d, p, i)
    BY <1>4 DEF ToCome, AboutTo, Sending, d
<1>5. CASE LeadsTo(Pipe(d), copy[p][i], mine[p], p, i)
    <2>1. PICK j \in DOMAIN Pipe(d) : Hits(Pipe(d)[j], p, i)
        BY <1>2, <1>5 DEF LeadsTo
    <2>2. Sending(d, Pipe(d)[j].prop)
        BY <1>1, PipeSends
    <2> QED BY <2>1, <2>2 DEF Hits, d
<1>6. CASE p = "ModuleState" /\ Asked
    <2>1. d = "Left" /\ Other(d) = "Right" /\ "Right" \in Devices
        BY <1>1, <1>6, ModuleIsLeft DEF Other, Devices
    <2>2. CASE \E j \in DOMAIN Pipe("Right") : Pipe("Right")[j].prop = "Reset"
        <3>1. link["Right"].via # "none"
            BY <2>2 DEF Pipe
        <3> QED BY <2>1, <2>2, <3>1, PipeSends DEF d
    <2>3. CASE ~\E j \in DOMAIN Pipe("Right") : Pipe("Right")[j].prop = "Reset"
        BY <1>6, <2>1, <2>3 DEF Asked, Sending, d
    <2> QED BY <2>2, <2>3
<1> QED BY <1>3, <1>4, <1>5, <1>6

\* Whatever the other half shows wrongly is still to be sent, on its way, or
\* asked for by a reset: a change is never lost for good by a break of the
\* link, by a thread that waits for a slot, or by the two halves noticing a
\* break at different times (state_sync.c, device_state.c).
THEOREM NothingIsForgotten == Spec => []NothingForgotten
BY TrustInvariant, TrustedForgetsNothing, PTL
=============================================================================
