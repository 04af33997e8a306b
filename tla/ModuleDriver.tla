----------------------------- MODULE ModuleDriver -----------------------------
(***************************************************************************)
(* The add-on module of the left half of the UHK 80, from its I2C          *)
(* connector to what the right half believes about it.  The I2C thread of  *)
(* the left half polls the module: a handshake asks for one property after *)
(* another, then a loop reads the keys.  The left half forwards changes of *)
(* the keys at once, and the facts about the module through StateSync.     *)
(* Messages arrive in the order they are sent here; what a change of the   *)
(* medium does to them is the subject of StateSync.  A thread that waits    *)
(* for a slot of the transmitter may be stranded when the link is lost.    *)
(***************************************************************************)
EXTENDS Naturals, Sequences, SequencesExt, FiniteSetsExt

CONSTANTS
    Modules,        \* the modules somebody plugs in
    Old,            \* those with a module protocol before 4.2.0
    KeyCount,       \* the number of keys of each
    Handshake,      \* the properties that are asked for, of those below
    Timeout,        \* MODULE_CONNECTION_TIMEOUT in ticks of the clock
    MaxInFlight,    \* messages the transmit semaphores let through
    MaxChanges      \* how often modules, keys and the link change or a transfer fails

None == "none"

\* The first phases of uhk_module_phase_t, in the order of the handshake.
FullHandshake == <<"Sync", "Protocol", "Firmware", "Id", "KeyCount", "PointerCount",
                   "GitTag", "GitRepo", "Checksum">>

Decisive == {"Sync", "Protocol", "Id", "KeyCount", "PointerCount", "Checksum"}

Before(p, q) ==
    \E i, j \in DOMAIN FullHandshake : i < j /\ FullHandshake[i] = p /\ FullHandshake[j] = q

ASSUME ModuleAssumption ==
    /\ Handshake \in Seq(ToSet(FullHandshake)) /\ Decisive \subseteq ToSet(Handshake)
    /\ \A i, j \in DOMAIN Handshake : i < j => Before(Handshake[i], Handshake[j])
    /\ None \notin Modules /\ Old \subseteq Modules
    /\ KeyCount \in [Modules -> Nat]
    /\ Timeout \in Nat \ {0, 1} /\ MaxInFlight \in Nat \ {0} /\ MaxChanges \in Nat

Facts == ToSet(Handshake) \ {"Sync"}
Settings == {"TestLed", "Brightness"}
Loop == {"Keys"} \cup Settings

Never == Timeout + 1
Attachable == Modules \cup {None}
Keys(m) == IF m = None THEN {} ELSE 1..KeyCount[m]
AllKeys == UNION {Keys(m) : m \in Modules}

VARIABLES
    attached,   \* the module in the connector
    held,       \* the keys held on it
    slave,      \* Slaves[LeftModule], UhkModuleStates, ModuleConnectionStates
                \* and KeyStates of the left half, see TypeOK
    age,        \* the time since lastTimeConnected
    alarm,      \* the time until ModuleConnectionStatusUpdate, or Never
    dirty,      \* ModuleStateLeftModule, LeftModuleDisconnected: to be sent
    linked,     \* the halves are connected
    fly,        \* the messages on their way to the right half
    right,      \* what the right half knows: the id, the module the key
                \* count is of, the connection and the keys
    changes,    \* how often the world has changed
    cut,        \* a module was disconnected while a key was held
    bounced,    \* a module came and went too fast for the alarm, see GoneIsReported
    stuck       \* the threads that wait for a semaphore that was made anew

vars == <<attached, held, slave, age, alarm, dirty, linked, fly, right, changes, cut, bounced,
          stuck>>
world == <<attached, held, linked, changes>>

NoAnswer == [good |-> FALSE, from |-> None, keys |-> {}, moves |-> FALSE]

Answers ==
    [good : {TRUE}, from : Modules, keys : SUBSET AllKeys, moves : BOOLEAN]
        \cup {NoAnswer}

Messages ==
    [type : {"Keys"}, keys : SUBSET AllKeys]
        \cup [type : {"ModuleState"}, id : Attachable, count : Attachable]
        \cup [type : {"Gone"}]

TypeOK ==
    /\ attached \in Attachable
    /\ held \subseteq Keys(attached)
    /\ slave \in [connected : BOOLEAN,                  \* isConnected
                  prop : ToSet(Handshake) \cup Loop,    \* phase
                  step : {"request", "receive", "process"},
                  bus : {"idle", "write", "read"},      \* transfer under way
                  rx : Answers,                         \* rxMessage
                  unset : SUBSET Settings,              \* sourceVars # targetVars
                  facts : [Facts -> Attachable],        \* the module each is of
                  id : Attachable,                      \* moduleId
                  conn : Attachable,                    \* its connection's moduleId
                  keys : SUBSET AllKeys,                \* hardwareSwitchState
                  still : BOOLEAN]                      \* lastDeltasWereZero
    /\ age \in 0..Timeout
    /\ alarm \in 0..Never
    /\ dirty \subseteq {"ModuleState", "Gone"}
    /\ linked \in BOOLEAN
    /\ fly \in Seq(Messages) /\ Len(fly) <= MaxInFlight
    /\ right \in [id : Attachable, count : Attachable, conn : Attachable, keys : SUBSET AllKeys]
    /\ changes \in 0..MaxChanges
    /\ cut \in BOOLEAN /\ bounced \in BOOLEAN
    /\ stuck \subseteq {"poller", "sync"}

\* Nothing is attached, the halves are connected.
Init ==
    /\ attached = None /\ held = {}
    /\ slave = [connected |-> FALSE, prop |-> "Sync", step |-> "request", bus |-> "idle",
                rx |-> NoAnswer, unset |-> {}, facts |-> [p \in Facts |-> None],
                id |-> None, conn |-> None, keys |-> {}, still |-> TRUE]
    /\ age = Timeout /\ alarm = Never
    /\ dirty = {} /\ linked = TRUE /\ fly = <<>>
    /\ right = [id |-> None, count |-> None, conn |-> None, keys |-> {}]
    /\ changes = 0 /\ cut = FALSE /\ bounced = FALSE /\ stuck = {}

-----------------------------------------------------------------------------
(* UhkModuleSlaveDriver_Update: one phase each.                            *)

At(s, prop, step) == [s EXCEPT !.prop = prop, !.step = step]

\* UhkModuleSlaveDriver_Init, before every update while not connected.
\* Mutant: the handshake goes on where it was.
Restarted_Resumes(s) == [s EXCEPT !.unset = Settings]

Restarted(s) == At([s EXCEPT !.unset = Settings], "Sync", "request")

\* A module before protocol 4.2.0 has no git tag, repository and checksum.
Following(s) ==
    CASE s.prop = "PointerCount" /\ s.facts["Protocol"] \in Old -> "Keys"
      [] s.prop = "Checksum" -> "Keys"
      [] OTHER -> LET i == CHOOSE j \in DOMAIN Handshake : Handshake[j] = s.prop
                  IN Handshake[i + 1]

\* What a valid answer of the handshake changes.
Learn(s) ==
    LET m == s.rx.from
        learnt == [s EXCEPT !.facts = [p \in Facts |->
                     IF p = s.prop \/ (p \in {"GitTag", "GitRepo"} /\ s.prop = "PointerCount"
                                       /\ s.facts["Protocol"] \in Old)
                       THEN m ELSE @[p]]]
    IN IF s.prop = "Id" THEN [learnt EXCEPT !.id = m, !.conn = m] ELSE learnt

\* Messenger_Send2 drops the message without a connection and waits for a
\* free slot with one.
CanSend == linked => Len(fly) < MaxInFlight
SendNow(message) == fly' = IF linked THEN Append(fly, message) ELSE fly

\* Messages of keys are sent when one changes, and while the pointer moves.
forwards(s) ==
    \/ s.keys \cap Keys(s.facts["KeyCount"]) # s.rx.keys \cap Keys(s.facts["KeyCount"])
    \/ ~s.still \/ s.rx.moves

Scanned(s) ==
    LET scanned == Keys(s.facts["KeyCount"]) IN
    [s EXCEPT !.keys = (@ \ scanned) \cup (s.rx.keys \cap scanned),
              !.still = IF forwards(s) THEN ~s.rx.moves ELSE @]

\* Mutant: only pressed keys are worth a message.
forwardKeystates_Presses(s) ==
    IF forwards(s) /\ s.rx.keys # {}
      THEN CanSend /\ SendNow([type |-> "Keys", keys |-> s.rx.keys])
      ELSE UNCHANGED fly

forwardKeystates(s) ==
    IF forwards(s)
      THEN CanSend /\ SendNow([type |-> "Keys", keys |-> s.rx.keys])
      ELSE UNCHANGED fly

\* Mutant: the time of the last contact is not kept.
Request_KeepsTime(s) ==
    /\ s.step = "request" /\ s.prop \notin Settings
    /\ slave' = [At(s, s.prop, "receive") EXCEPT !.bus = "write"]
    /\ UNCHANGED <<age, dirty, fly>>

Request(s) ==
    /\ s.step = "request" /\ s.prop \notin Settings
    /\ slave' = [At(s, s.prop, "receive") EXCEPT !.bus = "write"]
    /\ age' = IF s.prop = "Keys" THEN 0 ELSE age
    /\ UNCHANGED <<dirty, fly>>

Receive(s) ==
    /\ s.step = "receive"
    /\ slave' = [At(s, s.prop, "process") EXCEPT !.bus = "read"]
    /\ UNCHANGED <<age, dirty, fly>>

\* The answer is used up.  The state is to be sent whether the checksum came
\* or not.
ProcessFact(s) ==
    /\ s.step = "process" /\ s.prop # "Keys"
    /\ slave' = [(IF s.rx.good THEN At(Learn(s), Following(s), "request")
                  ELSE At(s, s.prop, "request")) EXCEPT !.rx = NoAnswer]
    /\ dirty' = dirty \cup {x \in {"ModuleState"} : s.prop = "Checksum"}
    /\ UNCHANGED <<age, fly>>

ProcessKeystates(s) ==
    /\ s.step = "process" /\ s.prop = "Keys"
    /\ IF s.rx.good THEN forwardKeystates(s) ELSE UNCHANGED fly
    /\ slave' = [At(IF s.rx.good THEN Scanned(s) ELSE s, "TestLed", "request")
                   EXCEPT !.rx = NoAnswer]
    /\ UNCHANGED <<age, dirty>>

\* A setting is sent only when it has changed; the answer is not read.
Set(s) ==
    /\ s.prop \in Settings
    /\ slave' = [At(s, IF s.prop = "TestLed" THEN "Brightness" ELSE "Keys", "request")
                   EXCEPT !.bus = IF s.prop \in s.unset THEN "write" ELSE "idle",
                          !.unset = @ \ {s.prop}]
    /\ UNCHANGED <<age, dirty, fly>>

\* The module has its turn in slaveSchedulerCallback.
Poll ==
    /\ "poller" \notin stuck
    /\ slave.bus = "idle"
    /\ LET s == IF slave.connected THEN slave ELSE Restarted(slave) IN
         Request(s) \/ Receive(s) \/ ProcessFact(s) \/ ProcessKeystates(s) \/ Set(s)
    /\ UNCHANGED <<world, alarm, right, cut, bounced, stuck>>

-----------------------------------------------------------------------------
(* The transfer ends; the next callback takes its status as the state of   *)
(* the connection.                                                         *)

\* Mutant: the alarm is not set.
Disconnect_Quiet(s) ==
    /\ slave' = [s EXCEPT !.id = None, !.keys = {}]
    /\ cut' = (cut \/ s.keys # {})
    /\ UNCHANGED <<alarm, bounced>>

\* UhkModuleSlaveDriver_Disconnect.  EventScheduler_Schedule keeps the earlier
\* of two times.
Disconnect(s) ==
    /\ slave' = [s EXCEPT !.id = None, !.keys = {}]
    /\ cut' = (cut \/ s.keys # {})
    /\ alarm' = Min({alarm, Timeout})
    /\ bounced' = (bounced \/ alarm < Timeout)

\* A read brings the answer or, told by its checksum, noise.
Answered(good, moves) ==
    IF slave.bus = "read" /\ good
      THEN [good |-> TRUE, from |-> attached, moves |-> moves,
            keys |-> IF slave.prop = "Keys" THEN held ELSE {}]
      ELSE NoAnswer

\* What slaveSchedulerCallback makes of the status.
Ended(done) ==
    IF slave.connected /\ ~done.connected
      THEN Disconnect(done)
      ELSE slave' = done /\ UNCHANGED <<alarm, cut, bounced>>

Transfer(good, moves) ==
    /\ slave.bus # "idle"
    /\ moves => good /\ slave.bus = "read" /\ slave.prop = "Keys"
    /\ ~good => slave.bus = "read"
    /\ Ended([slave EXCEPT !.bus = "idle", !.connected = attached # None,
                           !.rx = IF attached = None THEN @ ELSE Answered(good, moves)])
    /\ UNCHANGED <<world, age, dirty, fly, right, stuck>>

\* A transfer fails although the module is there.
TransferFails ==
    /\ changes < MaxChanges
    /\ changes' = changes + 1
    /\ slave.bus # "idle" /\ attached # None
    /\ Ended([slave EXCEPT !.bus = "idle", !.connected = FALSE])
    /\ UNCHANGED <<attached, held, linked, age, dirty, fly, right, stuck>>

-----------------------------------------------------------------------------
(* The main loop and the sync thread of the left half; the right half.     *)

\* updateModuleConnectionStatus, when its event is due.
UpdateConnectionStatus ==
    /\ alarm = 0
    /\ alarm' = Never
    /\ LET gone == slave.conn # None /\ age >= Timeout IN
         /\ slave' = IF gone THEN [slave EXCEPT !.conn = None] ELSE slave
         /\ dirty' = dirty \cup {x \in {"Gone"} : gone}
         /\ bounced' = (bounced \/ (gone /\ slave.connected))
    /\ UNCHANGED <<world, age, fly, right, cut, stuck>>

\* The sync thread sends in the order of stateSyncProps.
SendState ==
    /\ "sync" \notin stuck /\ linked /\ CanSend
    /\ "ModuleState" \in dirty
    /\ SendNow([type |-> "ModuleState", id |-> slave.id, count |-> slave.facts["KeyCount"]])
    /\ dirty' = dirty \ {"ModuleState"}
    /\ UNCHANGED <<world, slave, age, alarm, right, cut, bounced, stuck>>

SendGone ==
    /\ "sync" \notin stuck /\ linked /\ CanSend
    /\ dirty = {"Gone"}
    /\ SendNow([type |-> "Gone"])
    /\ dirty' = {}
    /\ UNCHANGED <<world, slave, age, alarm, right, cut, bounced, stuck>>

\* UhkModuleSlaveDriver_ProcessKeystates, receiveModuleStateData, and the
\* handler of LeftModuleDisconnected on the right half.
received(message) ==
    CASE message.type = "Keys" ->
           LET scanned == Keys(right.count) IN
           [right EXCEPT !.keys = (@ \ scanned) \cup (message.keys \cap scanned)]
      [] message.type = "ModuleState" ->
           [right EXCEPT !.id = message.id, !.conn = message.id, !.count = message.count]
      [] message.type = "Gone" -> [right EXCEPT !.conn = None]

Deliver ==
    /\ fly # <<>>
    /\ right' = received(Head(fly))
    /\ fly' = Tail(fly)
    /\ UNCHANGED <<world, slave, age, alarm, dirty, cut, bounced, stuck>>

-----------------------------------------------------------------------------
(* The world.                                                              *)

\* A plug takes longer to come back than a poll to fail.
Attach(m) ==
    /\ attached = None /\ (slave.connected => "poller" \in stuck)
    /\ attached' = m
    /\ UNCHANGED <<held, linked, fly, dirty, right, cut, stuck>>

Detach ==
    /\ attached # None
    /\ attached' = None /\ held' = {}
    /\ UNCHANGED <<linked, fly, dirty, right, cut, stuck>>

PressOrRelease(k) ==
    /\ held' = IF k \in held THEN held \ {k} ELSE held \cup {k}
    /\ UNCHANGED <<attached, linked, fly, dirty, right, cut, stuck>>

\* The threads that wait for a free slot, the poller in forwardKeystates and
\* the sync thread in submitPreparedData.  The poller has entered the keys it
\* waits to send into KeyStates by then; here they stay with its answer.
Waiting ==
    {t \in {"poller", "sync"} :
       /\ ~CanSend
       /\ t = "poller" => /\ slave.connected /\ slave.bus = "idle" /\ slave.rx.good
                          /\ slave.prop = "Keys" /\ slave.step = "process" /\ forwards(slave)
       /\ t = "sync" => dirty # {}}

\* handleStateTransition of the right half.  On the left half k_sem_init drops
\* the list of those who wait, unless the stack has just handed back their slot.
LinkLost ==
    /\ linked
    /\ \E dropped \in SUBSET Waiting : stuck' = stuck \cup dropped
    /\ linked' = FALSE /\ fly' = <<>>
    /\ right' = [right EXCEPT !.conn = None, !.keys = {}]
    /\ cut' = FALSE
    /\ UNCHANGED <<attached, held, dirty>>

\* Mutant: a new link resets nothing.
LinkFound_Silent ==
    /\ ~linked
    /\ linked' = TRUE
    /\ UNCHANGED <<attached, held, fly, dirty, right, cut, stuck>>

\* StateSync_ResetRightLeftLink of the left half.
LinkFound ==
    /\ ~linked
    /\ linked' = TRUE
    /\ dirty' = dirty \cup {"ModuleState"}
    /\ UNCHANGED <<attached, held, fly, right, cut, stuck>>

World ==
    /\ changes < MaxChanges
    /\ changes' = changes + 1
    /\ \/ \E m \in Modules : Attach(m)
       \/ Detach
       \/ \E k \in Keys(attached) : PressOrRelease(k)
       \/ LinkLost \/ LinkFound
    /\ UNCHANGED <<slave, age, alarm, bounced>>

\* The module is polled every few milliseconds, far more often than a tick.
Polled ==
    slave.connected /\ "poller" \notin stuck
      => attached # None /\ (slave.prop \in Loop => age = 0)

Tick ==
    /\ Polled
    /\ age < Timeout \/ alarm \in 1..Timeout
    /\ alarm # 0
    /\ age' = Min({age + 1, Timeout})
    /\ alarm' = IF alarm = Never THEN Never ELSE alarm - 1
    /\ UNCHANGED <<world, slave, dirty, fly, right, cut, bounced, stuck>>

-----------------------------------------------------------------------------
Next ==
    \/ World \/ Tick
    \/ Poll \/ TransferFails \/ \E good, moves \in BOOLEAN : Transfer(good, moves)
    \/ UpdateConnectionStatus
    \/ SendState \/ SendGone \/ Deliver

Spec == Init /\ [][Next]_vars

\* Threads and transfers go on, time passes, and answers are not always noise.
\* The sync thread gets a free slot now and then, though the module may send
\* all the time: the link is faster than the poller.
FairSpec ==
    /\ Spec
    /\ WF_vars(Tick) /\ WF_vars(Poll)
    /\ WF_vars(\E good, moves \in BOOLEAN : Transfer(good, moves))
    /\ SF_vars(\E moves \in BOOLEAN : slave.bus = "read" /\ Transfer(TRUE, moves))
    /\ WF_vars(UpdateConnectionStatus)
    /\ SF_vars(SendState) /\ SF_vars(SendGone) /\ WF_vars(Deliver)

-----------------------------------------------------------------------------
(* Properties.                                                             *)

\* Once the loop reads keys, everything the left half has learnt is of the
\* module that is attached, not of one that was there before, unless it has
\* just been pulled out; an old module leaves the checksum as it is.  A
\* stranded poller reads nothing any more.
KeysOfKnownModule ==
    slave.connected /\ slave.prop \in Loop /\ attached # None /\ "poller" \notin stuck
      => \A p \in Facts : slave.facts[p] = attached \/ (p = "Checksum" /\ attached \in Old)

\* k will be seen to be released by the messages on their way.
ReleaseOnItsWay(k) ==
    \E i \in DOMAIN fly : fly[i].type = "Keys" /\ k \notin fly[i].keys

\* A key that the right half sees pressed is pressed for the left half too, or
\* its release is on its way - unless a module was pulled out with a key held.
NoGhostKeys ==
    ~cut => \A k \in right.keys : k \in slave.keys \/ ReleaseOnItsWay(k)

\* A module that is being read is not reported as gone.
StaysListed ==
    [][slave.connected /\ slave.prop \in Settings /\ slave.conn # None
         => slave'.conn = slave.conn]_vars

\* No thread waits for a semaphore that was made anew.
NeverStranded == stuck = {}

\* A module that stays away is forgotten by both halves - unless a thread is
\* stranded, or one was pulled out while the alarm of an earlier time was set,
\* or the alarm rang between the handshake's answer with the id and its end.
GoneIsReported ==
    <>[](attached = None /\ linked /\ ~bounced /\ NeverStranded)
      => <>[](slave.conn = None /\ right.conn = None)

\* A module that stays attached becomes known to the right half, unless a thread
\* is stranded.
ModuleBecomesKnown ==
    \A m \in Modules \ Old :
      <>[](attached = m /\ linked /\ NeverStranded) => <>[](right.id = m /\ right.count = m)
=============================================================================
