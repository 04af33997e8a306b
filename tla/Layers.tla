------------------------------- MODULE Layers -------------------------------
(***************************************************************************)
(* Which layer is active: the layer stack (layer_stack.c), the layers held *)
(* by keys and by modifiers (layer_switcher.c), and who moves them - the   *)
(* macro commands toggleLayer, untoggleLayer, holdLayer, toggleKeymapLayer,*)
(* holdKeymapLayer and switchKeymap (commands.c), and the keys             *)
(* (usb_report_updater.c) - in the order of one update cycle: macros, then *)
(* handleLayerChanges, then the keys one after another.                    *)
(*                                                                         *)
(* The position of the keys of a keymap, and the time between two taps of  *)
(* a key, are free.  Slots outside of the window of the ring are Unused:   *)
(* the code writes them before it reads them.                              *)
(***************************************************************************)
EXTENDS Naturals, Sequences, SequencesExt, FiniteSets, FiniteSetsExt

CONSTANTS
    Layers,             \* layer_id_t, some of 0..11
    Keymaps,
    Keys,               \* 1..n, in the order of KeyStates
    Actions,            \* Actions[keymap][layer][key]
    Macros,             \* the macros that hold layers
    Targets,            \* the layers macros activate: pairs of layer and keymap
    LAYER_STACK_SIZE,
    MaxCommands         \* bound: commands that macros run

Base == 0
Shift == 8
LayerId_None == 255
IsModifierLayer(l) == Shift <= l /\ l <= 11

NoMacro == "none"
Stopped == "stopped"
NoKey == 0

MacrosTurn == 0
ReportsTurn == Cardinality(Keys) + 1

ActionTypes == {"none", "hold", "holdAndDoubleTapToggle", "toggle", "switchKeymap", "macro"}
KeyActions == [type : ActionTypes \ {"switchKeymap"}, to : Layers] \cup [type : {"switchKeymap"}, to : Keymaps]

ASSUME LayerAssumption ==
    /\ Layers \subseteq 0..11 /\ Base \in Layers /\ Keymaps # {}
    /\ IsFiniteSet(Keys) /\ Keys = 1..Cardinality(Keys)
    /\ Actions \in [Keymaps -> [Layers -> [Keys -> KeyActions]]]
    /\ {NoMacro, Stopped} \cap Macros = {}
    /\ Targets \subseteq Layers \X Keymaps
    /\ LAYER_STACK_SIZE \in Nat \ {0, 1, 2} /\ MaxCommands \in Nat

VARIABLES
    layers,     \* the layer stack and the layer switcher, see TypeOK
    keys,       \* the key states, the actions cached for them, and the key of a double tap
    modifiers,  \* the layers whose modifiers are held, by InputModifiersPrevious
    holder,     \* holdLayerData.layerStackIdx of the macros whose holdLayer is active
    fresh,      \* the macros whose holdLayer began in this cycle
    commands,   \* how many commands macros have run
    pc          \* MacrosTurn, the key that is next in updateActionStates, or ReportsTurn

vars == <<layers, keys, modifiers, holder, fresh, commands, pc>>

-----------------------------------------------------------------------------
(* layer_switcher.c.  uncomposed is an auxiliary variable: the stack chose *)
(* another layer and the switcher did not recompute ActiveLayer for it.    *)

updateActiveLayer(s) ==
    [s EXCEPT !.activeLayer = IF s.stackLayer # Base THEN s.stackLayer
                              ELSE IF s.heldLayer # LayerId_None THEN s.heldLayer ELSE Base,
              !.uncomposed = FALSE]

HoldLayer(s, l, forceSwap) ==
    LET held == [s EXCEPT !.heldLayers = @ \cup {l}]
    IN IF s.heldLayer = LayerId_None \/ forceSwap THEN updateActiveLayer([held EXCEPT !.heldLayer = l]) ELSE held

MeetsHoldConditions(s, l) ==
    (l = s.stackLayer /\ s.stackHeld) \/ l \in s.heldLayers \/ l \in modifiers

\* The held layer as long as it is held, then the first one that is; a layer
\* held by a key goes before one held by a modifier.
UpdateActiveLayer(s) ==
    LET relevant == {l \in Layers : MeetsHoldConditions(s, l)}
        regular == {l \in relevant : ~IsModifierLayer(l)}
        next == IF s.heldLayer \in relevant /\ (IsModifierLayer(s.heldLayer) => regular = {}) THEN s.heldLayer
                ELSE IF relevant = {} THEN LayerId_None ELSE Min(relevant)
        quiet == [s EXCEPT !.layerHolds = FALSE]
    IN IF next # s.heldLayer THEN updateActiveLayer([quiet EXCEPT !.heldLayer = next]) ELSE quiet

-----------------------------------------------------------------------------
(* layer_stack.c and keymap.c                                              *)

Unused == [layer |-> Base, keymap |-> CHOOSE k \in Keymaps : TRUE, held |-> FALSE, removed |-> TRUE, owner |-> NoMacro]

Pos(s, i) == (s.topIdx + LAYER_STACK_SIZE + i) % LAYER_STACK_SIZE
\* The i-th slot below the top.
Below(s, i) == (s.topIdx + LAYER_STACK_SIZE - i) % LAYER_STACK_SIZE
Window(s) == {Below(s, i) : i \in 0..(s.size - 1)}
Top(s) == s.stack[s.topIdx]

SwitchKeymapById(s, k) == [s EXCEPT !.keymap = k]

activateLayer(s) ==
    LET shown == [s EXCEPT !.keymap = Top(s).keymap, !.stackLayer = Top(s).layer, !.stackHeld = Top(s).held,
                           !.stack = [i \in DOMAIN s.stack |-> IF i \in Window(s) THEN s.stack[i] ELSE Unused]]
        recomputed == IF Top(s).held THEN HoldLayer(shown, Top(s).layer, TRUE)
                      ELSE UpdateActiveLayer([shown EXCEPT !.uncomposed = TRUE])
    IN [recomputed EXCEPT !.layerHolds = TRUE, !.nativeActions = TRUE]

Reset(s) ==
    LET base == [layer |-> Base, keymap |-> s.keymap, held |-> FALSE, removed |-> FALSE, owner |-> NoMacro]
    IN [s EXCEPT !.size = 1, !.stack = [i \in DOMAIN s.stack |-> IF i = s.topIdx THEN base ELSE Unused]]

Push(s, l, k, owner) ==
    LET entry == [layer |-> l, keymap |-> k, held |-> owner # NoMacro, removed |-> FALSE, owner |-> owner]
    IN activateLayer([s EXCEPT !.topIdx = Pos(s, 1),
                               !.stack[Pos(s, 1)] = entry,
                               !.size = IF @ < LAYER_STACK_SIZE - 1 THEN @ + 1 ELSE @])

\* removeStackTop(false) as long as the top is removed.
PopRemoved(s) ==
    LET live == {i \in 0..(s.size - 1) : ~s.stack[Below(s, i)].removed}
        count == IF live = {} THEN s.size ELSE Min(live)
        popped == [s EXCEPT !.topIdx = Below(s, count), !.size = @ - count]
    IN activateLayer(IF live = {} THEN Reset(popped) ELSE popped)

\* LayerStack_Pop(true, true): removeStackTop(true) marks the topmost record that is not held.
PopToggled(s) ==
    LET toggled == {i \in 0..(s.size - 1) : ~s.stack[Below(s, i)].held /\ ~s.stack[Below(s, i)].removed}
    IN PopRemoved(IF toggled = {} THEN s ELSE [s EXCEPT !.stack[Below(s, Min(toggled))].removed = TRUE])

LegacyPop(s, l) == IF ~Top(s).held /\ Top(s).layer = l THEN PopToggled(s) ELSE s
LegacyPush(s, l) == Push(s, l, s.keymap, NoMacro)

Withdrawn(record) == [record EXCEPT !.removed = TRUE, !.held = FALSE]

RemoveRecord_PopsTop(s, i) == PopRemoved([s EXCEPT !.stack[s.topIdx] = Withdrawn(@)])

\* LayerStack_RemoveRecord and LayerStack_Pop(false, false)
RemoveRecord(s, i) ==
    PopRemoved(IF i \in Window(s) THEN [s EXCEPT !.stack[i] = Withdrawn(@)] ELSE s)

\* The layer and the keymap of LayerStack_FindPreviousLayerRecordIdx.
Previous(s) ==
    LET earlier == {i \in 1..(s.size - 1) : ~s.stack[Below(s, i)].removed}
        record == s.stack[Below(s, IF earlier = {} THEN 0 ELSE Min(earlier))]
    IN <<record.layer, record.keymap>>

-----------------------------------------------------------------------------
(* The commands of macros.                                                 *)

NoSlot == LAYER_STACK_SIZE
ModifierLayers == {l \in Layers : IsModifierLayer(l)}
SwitchKeymap(s, k) == Reset(SwitchKeymapById(s, k))

Init ==
    /\ \E k \in Keymaps :
          LET zero == [stack |-> [i \in 0..(LAYER_STACK_SIZE - 1) |-> Unused], topIdx |-> 0, size |-> 0, keymap |-> k,
                       stackLayer |-> Base, stackHeld |-> FALSE, heldLayers |-> {}, heldLayer |-> LayerId_None,
                       activeLayer |-> Base, layerHolds |-> FALSE, nativeActions |-> FALSE, uncomposed |-> FALSE]
          IN layers = Reset(zero)
    /\ keys = [pressed |-> {}, cached |-> [key \in Keys |-> [type |-> "none", to |-> Base]], doubleTap |-> NoKey]
    /\ modifiers = {} /\ fresh = {} /\ commands = 0 /\ pc = MacrosTurn
    /\ holder = [m \in Macros |-> NoSlot]

ToggleLayer(s) ==
    /\ \E target \in Targets \cup {Previous(s)} : layers' = Push(s, target[1], target[2], NoMacro)
    /\ UNCHANGED <<holder, fresh>>

UnToggleLayer(s) == layers' = PopToggled(s) /\ UNCHANGED <<holder, fresh>>

\* The first run of holdLayer, which returns MacroResult_Waiting.
BeginHold(s) ==
    \E m \in Macros, target \in Targets :
        /\ holder[m] = NoSlot
        /\ layers' = Push(s, target[1], target[2], m)
        /\ holder' = [holder EXCEPT ![m] = layers'.topIdx]
        /\ fresh' = fresh \cup {m}

SwitchKeymapCommand(s) == (\E k \in Keymaps : layers' = SwitchKeymap(s, k)) /\ UNCHANGED <<holder, fresh>>

\* The macros that hold a layer end without another run of their command.
StopAllMacros(s) ==
    /\ layers' = [s EXCEPT !.stack = [i \in DOMAIN s.stack |->
                     [s.stack[i] EXCEPT !.owner = IF @ \in Macros THEN Stopped ELSE @]]]
    /\ holder' = [m \in Macros |-> NoSlot]
    /\ fresh' = {}

Command(s) ==
    /\ commands < MaxCommands /\ commands' = commands + 1
    /\ ToggleLayer(s) \/ UnToggleLayer(s) \/ BeginHold(s) \/ SwitchKeymapCommand(s) \/ StopAllMacros(s)

RunCommand == pc = MacrosTurn /\ Command(layers) /\ UNCHANGED <<keys, modifiers, pc>>

\* The key of the macro was released, or its time is over.
EndHold(m) ==
    /\ pc = MacrosTurn /\ holder[m] # NoSlot /\ m \notin fresh
    /\ layers' = RemoveRecord(layers, holder[m])
    /\ holder' = [holder EXCEPT ![m] = NoSlot]
    /\ UNCHANGED <<keys, modifiers, fresh, commands, pc>>

-----------------------------------------------------------------------------
(* The keys.                                                               *)

\* Without an action in a layer of a modifier, a key has that of the base layer.
ActionOf(s, key) ==
    LET action == Actions[s.keymap][s.activeLayer][key]
    IN IF IsModifierLayer(s.activeLayer) /\ action.type = "none" THEN Actions[s.keymap][Base][key] ELSE action

applyLayerHolds_OnlyPresses(s, key, active, changed) ==
    LET action == Actions[s.keymap][Base][key]
        held == IF active THEN HoldLayer(s, action.to, FALSE) ELSE s
    IN IF action.type \notin {"hold", "holdAndDoubleTapToggle"} THEN s
       ELSE [held EXCEPT !.layerHolds = @ \/ (changed /\ active)]

applyLayerHolds(s, key, active, changed) ==
    LET action == Actions[s.keymap][Base][key]
        held == IF active THEN HoldLayer(s, action.to, FALSE) ELSE s
    IN IF action.type \notin {"hold", "holdAndDoubleTapToggle"} THEN s
       ELSE [held EXCEPT !.layerHolds = @ \/ changed]

\* doubleTapped: the timer has not run out.
DoubleTapToggle(s, key, l, activated, doubleTapped) ==
    IF activated
    THEN IF keys.doubleTap = key /\ doubleTapped THEN LegacyPush(LegacyPop(s, l), l) ELSE LegacyPop(s, l)
    ELSE IF keys.doubleTap = key /\ ~doubleTapped THEN LegacyPop(s, l) ELSE s

ToggleOrPop(s, l) == IF ~Top(s).held /\ Top(s).layer = l THEN LegacyPop(s, l) ELSE LegacyPush(s, l)

\* applyToggleLayerAction and the other actions of ApplyKeyAction.
ApplyKeyAction(s, key, action, activated, doubleTapped) ==
    CASE action.type = "holdAndDoubleTapToggle" -> DoubleTapToggle(s, key, action.to, activated, doubleTapped)
      [] action.type = "toggle" /\ activated -> ToggleOrPop(s, action.to)
      [] action.type = "hold" /\ activated -> LegacyPop(s, action.to)
      [] action.type = "switchKeymap" /\ activated -> SwitchKeymap(s, action.to)
      [] OTHER -> s

\* A key that is pressed now takes its action from the active layer and keeps
\* it; its macro, if it starts one, runs its first command at once.
UpdateKey(key) ==
    \E active, doubleTapped \in BOOLEAN :
        LET changed == active # (key \in keys.pressed)
            activated == changed /\ active
            action == IF activated THEN ActionOf(layers, key) ELSE keys.cached[key]
            doubleTap == IF ~activated THEN keys.doubleTap
                         ELSE IF action.type = "holdAndDoubleTapToggle" THEN key
                         ELSE IF layers.size = 1 /\ keys.doubleTap # key THEN NoKey ELSE keys.doubleTap
            s == applyLayerHolds(layers, key, active, changed)
        IN /\ pc = key
           /\ pc' = key + 1
           /\ keys' = [pressed |-> IF active THEN keys.pressed \cup {key} ELSE keys.pressed \ {key},
                       cached |-> [keys.cached EXCEPT ![key] = IF active THEN action ELSE [type |-> "none", to |-> Base]],
                       doubleTap |-> doubleTap]
           /\ IF activated /\ action.type = "macro" THEN Command(s)
              ELSE /\ layers' = IF changed THEN ApplyKeyAction(s, key, action, activated, doubleTapped) ELSE s
                   /\ UNCHANGED <<holder, fresh, commands>>
           /\ UNCHANGED modifiers

-----------------------------------------------------------------------------
(* One cycle of updateActiveUsbReports.                                    *)

handleLayerChanges(s) == IF s.layerHolds THEN UpdateActiveLayer(s) ELSE s

\* LayerSwitcher_ResetHolds, at the beginning of updateActionStates.
ResetHolds(s) == [s EXCEPT !.heldLayers = {}, !.nativeActions = FALSE]

\* The macros are done.  The keys are looked at when NativeActions is set or
\* when one of them has moved.
UpdateLayers ==
    /\ pc = MacrosTurn
    /\ \/ layers' = ResetHolds(handleLayerChanges(layers)) /\ pc' = 1
       \/ ~layers.nativeActions /\ layers' = handleLayerChanges(layers) /\ pc' = ReportsTurn
    /\ UNCHANGED <<keys, modifiers, holder, fresh, commands>>

\* mergeReports, which may find other modifiers than before.
MergeReports ==
    /\ pc = ReportsTurn /\ pc' = MacrosTurn
    /\ modifiers' \in SUBSET ModifierLayers
    /\ layers' = [layers EXCEPT !.layerHolds = @ \/ modifiers' # modifiers]
    /\ fresh' = {}
    /\ UNCHANGED <<keys, holder, commands>>

Next ==
    \/ RunCommand
    \/ \E m \in Macros : EndHold(m)
    \/ UpdateLayers
    \/ \E key \in Keys : UpdateKey(key)
    \/ MergeReports

Spec == Init /\ [][Next]_vars

-----------------------------------------------------------------------------
(* Properties.                                                             *)

Record == [layer : Layers, keymap : Keymaps, held : BOOLEAN, removed : BOOLEAN, owner : Macros \cup {NoMacro, Stopped}]

\* Every variable has its type, and there is always a layer on the stack.
TypeOK ==
    /\ layers \in [stack : [0..(LAYER_STACK_SIZE - 1) -> Record], topIdx : 0..(LAYER_STACK_SIZE - 1),
                   size : 1..(LAYER_STACK_SIZE - 1), keymap : Keymaps, stackLayer : Layers, stackHeld : BOOLEAN,
                   heldLayers : SUBSET Layers, heldLayer : Layers \cup {LayerId_None}, activeLayer : Layers,
                   layerHolds : BOOLEAN, nativeActions : BOOLEAN, uncomposed : BOOLEAN]
    /\ keys \in [pressed : SUBSET Keys, cached : [Keys -> KeyActions], doubleTap : Keys \cup {NoKey}]
    /\ modifiers \subseteq ModifierLayers /\ fresh \subseteq Macros
    /\ holder \in [Macros -> 0..NoSlot]
    /\ pc \in MacrosTurn..ReportsTurn

\* The ring of records with its lazy removal is the order of activated layers
\* that LayerOrder describes: a hold that ends takes out its own layer and no
\* other, wherever it is, untoggle the last one that is toggled, and the layer
\* and the keymap are those of the top.
Records(s) == [i \in 1..s.size |-> s.stack[Below(s, s.size - i)]]
Kept(records) ==
    LET entry(r) == [layer |-> r.layer, keymap |-> r.keymap, owner |-> r.owner]
        kept[i \in 0..Len(records)] ==
            IF i = 0 THEN <<>>
            ELSE IF records[i].removed THEN kept[i - 1]
            ELSE Append(kept[i - 1], entry(records[i]))
    IN kept[Len(records)]
Live(s) == Kept(Records(s))

Order == INSTANCE LayerOrder WITH
    order <- Live(layers), keymap <- layers.keymap, shown <- layers.stackLayer,
    holding <- {m \in Macros : holder[m] # NoSlot}

StackKept == Order!Spec

\* Nothing is left to be done before a key, a macro or a modifier moves.
AtRest == pc = MacrosTurn /\ ~layers.layerHolds /\ ~layers.nativeActions

HeldByKeys ==
    {Actions[layers.keymap][Base][key].to : key \in
        {k \in keys.pressed : Actions[layers.keymap][Base][k].type \in {"hold", "holdAndDoubleTapToggle"}}}

\* The layer that was activated last, else a layer some pressed key holds, else
\* one some modifier holds, else base.
Wanted ==
    IF layers.stackLayer # Base \/ layers.stackHeld THEN {layers.stackLayer}
    ELSE IF {l \in HeldByKeys : ~IsModifierLayer(l)} # {} THEN {l \in HeldByKeys : ~IsModifierLayer(l)}
    ELSE IF HeldByKeys \cup modifiers # {} THEN HeldByKeys \cup modifiers
    ELSE {Base}

\* No layer sticks and none is missed: at rest the active layer is one that the
\* stack, the keys and the modifiers ask for, after all that happened before -
\* unless the last activation left ActiveLayer as it was.
NoStuckLayer == AtRest /\ ~layers.uncomposed => layers.activeLayer \in Wanted
=============================================================================
