----------------------------- MODULE Layers_proofs -----------------------------
(***************************************************************************)
(* Proofs about Layers, for any layers, keymaps, keys, macros and any size *)
(* of the layer stack: every variable keeps its type, no layer sticks, and *)
(* the ring of records implements the order of layers of LayerOrder.       *)
(***************************************************************************)
EXTENDS Layers, FiniteSetTheorems, SequenceTheorems, WellFoundedInduction, TLAPS

Slots == 0..(LAYER_STACK_SIZE - 1)
Switchers ==
    [stack : [Slots -> Record], topIdx : Slots, size : 1..(LAYER_STACK_SIZE - 1), keymap : Keymaps,
     stackLayer : Layers, stackHeld : BOOLEAN, heldLayers : SUBSET Layers,
     heldLayer : Layers \cup {LayerId_None}, activeLayer : Layers,
     layerHolds : BOOLEAN, nativeActions : BOOLEAN, uncomposed : BOOLEAN]

LEMMA Sizes == LAYER_STACK_SIZE \in Nat /\ LAYER_STACK_SIZE > 2
BY LayerAssumption

LEMMA BelowIs ==
    ASSUME NEW s, s.topIdx \in Slots, NEW i \in 0..(LAYER_STACK_SIZE - 1)
    PROVE  Below(s, i) = IF i <= s.topIdx THEN s.topIdx - i ELSE s.topIdx + LAYER_STACK_SIZE - i
BY Sizes, SMT DEF Below, Slots

LEMMA PosIs ==
    ASSUME NEW s, s.topIdx \in Slots
    PROVE  Pos(s, 1) = IF s.topIdx + 1 < LAYER_STACK_SIZE THEN s.topIdx + 1 ELSE 0
BY Sizes, SMT DEF Pos, Slots

LEMMA LayersAre == Layers \subseteq 0..11 /\ Base \in Layers /\ LayerId_None \notin Layers
BY LayerAssumption DEF LayerId_None

LEMMA LeastNumber ==
    ASSUME NEW T, T \subseteq Nat, T # {}
    PROVE  Min(T) \in T /\ \A y \in T : Min(T) <= y
<1>1. PICK R: IsWellFoundedOn(R, Nat) /\ \A x, y \in Nat: x < y => <<x, y>> \in R
  <2> DEFINE R == OpToRel(<, Nat)
  <2>1. IsWellFoundedOn(R, Nat)
      BY NatLessThanWellFounded
  <2>2. \A x, y \in Nat: x < y => <<x, y>> \in R
      BY DEF OpToRel
  <2> QED BY <2>1, <2>2
<1>2. \A x, y \in Nat: x < y => <<x, y>> \in R
    BY <1>1
<1>3. IsWellFoundedOn(R, Nat)
    BY <1>1
<1>4. PICK x \in T: \A y \in T: ~(<<y, x>> \in R)
    BY <1>3, WFMin, Zenon
<1>5. x \in T /\ \A y \in T : x <= y
  <2> SUFFICES ASSUME NEW y \in T PROVE x <= y
      OBVIOUS
  <2>1. x \in Nat /\ y \in Nat
      OBVIOUS
  <2>2. ~(y < x)
      BY <1>2, <1>4, <2>1
  <2> QED BY <2>1, <2>2
<1>6. Min(T) = CHOOSE m \in T : \A y \in T : m <= y
    BY DEF Min
<1> QED BY <1>5, <1>6, Zenon

-----------------------------------------------------------------------------
(* The layer switcher.                                                     *)

Shown(s) == IF s.stackLayer # Base THEN s.stackLayer
            ELSE IF s.heldLayer # LayerId_None THEN s.heldLayer ELSE Base
Relevant(s) == {l \in Layers : MeetsHoldConditions(s, l)}
NextHeld(s) ==
    IF s.heldLayer \in Relevant(s) /\ (IsModifierLayer(s.heldLayer) => {l \in Relevant(s) : ~IsModifierLayer(l)} = {})
    THEN s.heldLayer
    ELSE IF Relevant(s) = {} THEN LayerId_None ELSE Min(Relevant(s))

\* What the switcher does not touch.
SameStack(s, t) ==
    /\ t.stack = s.stack /\ t.topIdx = s.topIdx /\ t.size = s.size /\ t.keymap = s.keymap
    /\ t.stackLayer = s.stackLayer /\ t.stackHeld = s.stackHeld

LEMMA ComposedIs ==
    ASSUME NEW s \in Switchers
    PROVE  /\ updateActiveLayer(s) = [s EXCEPT !.activeLayer = Shown(s), !.uncomposed = FALSE]
           /\ Shown(s) \in Layers
           /\ updateActiveLayer(s) \in Switchers
<1>1. updateActiveLayer(s) = [s EXCEPT !.activeLayer = Shown(s), !.uncomposed = FALSE]
    BY DEF updateActiveLayer, Shown
<1>2. Shown(s) \in Layers
    BY LayersAre DEF Shown, Switchers
<1>3. [s EXCEPT !.activeLayer = Shown(s), !.uncomposed = FALSE] \in Switchers
    BY <1>2 DEF Switchers
<1> QED BY <1>1, <1>2, <1>3

\* The layer that is held next is one that should be, and regular if one is.
LEMMA NextHeldIs ==
    ASSUME NEW s \in Switchers
    PROVE  /\ NextHeld(s) \in Layers \cup {LayerId_None}
           /\ NextHeld(s) = LayerId_None => Relevant(s) = {}
           /\ NextHeld(s) # LayerId_None =>
                 /\ NextHeld(s) \in Relevant(s)
                 /\ IsModifierLayer(NextHeld(s)) => \A l \in Relevant(s) : IsModifierLayer(l)
           /\ s.heldLayer \in Relevant(s) /\ ~IsModifierLayer(s.heldLayer) => NextHeld(s) = s.heldLayer
<1>1. Relevant(s) \subseteq Layers
    BY DEF Relevant
<1>2. LayerId_None \notin Relevant(s)
    BY <1>1, LayersAre
<1>3. CASE s.heldLayer \in Relevant(s) /\ (IsModifierLayer(s.heldLayer) => {l \in Relevant(s) : ~IsModifierLayer(l)} = {})
  <2>1. NextHeld(s) = s.heldLayer
      BY <1>3 DEF NextHeld
  <2> QED BY <1>1, <1>2, <1>3, <2>1
<1>4. CASE ~(s.heldLayer \in Relevant(s) /\ (IsModifierLayer(s.heldLayer) => {l \in Relevant(s) : ~IsModifierLayer(l)} = {})) /\ Relevant(s) # {}
  <2>1. NextHeld(s) = Min(Relevant(s))
      BY <1>4 DEF NextHeld
  <2>2. Relevant(s) \subseteq Nat /\ \A l \in Relevant(s) : l <= 11
    <3> SUFFICES ASSUME NEW l \in Relevant(s) PROVE l \in Nat /\ l <= 11
        OBVIOUS
    <3>1. l \in 0..11
        BY <1>1, LayersAre
    <3> QED BY <3>1
  <2>3. Min(Relevant(s)) \in Relevant(s) /\ \A y \in Relevant(s) : Min(Relevant(s)) <= y
      BY <1>4, <2>2, LeastNumber
  <2>4. IsModifierLayer(NextHeld(s)) => \A l \in Relevant(s) : IsModifierLayer(l)
      BY <2>1, <2>2, <2>3 DEF IsModifierLayer, Shift
  <2> QED BY <1>1, <1>2, <1>4, <2>1, <2>3, <2>4
<1>5. CASE ~(s.heldLayer \in Relevant(s)) /\ Relevant(s) = {}
  <2>1. NextHeld(s) = LayerId_None
      BY <1>5 DEF NextHeld
  <2> QED BY <1>5, <2>1
<1> QED BY <1>3, <1>4, <1>5

LEMMA UpdateActiveLayerIs ==
    ASSUME NEW s \in Switchers, NEW t, t = UpdateActiveLayer(s)
    PROVE  /\ t \in Switchers /\ SameStack(s, t)
           /\ t.heldLayers = s.heldLayers /\ t.nativeActions = s.nativeActions
           /\ t.layerHolds = FALSE /\ t.heldLayer = NextHeld(s)
           /\ NextHeld(s) = s.heldLayer => t.activeLayer = s.activeLayer /\ t.uncomposed = s.uncomposed
           /\ NextHeld(s) # s.heldLayer => t.activeLayer = Shown(t) /\ ~t.uncomposed
<1> DEFINE quiet == [s EXCEPT !.layerHolds = FALSE]
           held == [quiet EXCEPT !.heldLayer = NextHeld(s)]
<1>1. t = IF NextHeld(s) # s.heldLayer THEN updateActiveLayer(held) ELSE quiet
    BY DEF UpdateActiveLayer, NextHeld, Relevant
<1>2. quiet \in Switchers /\ held \in Switchers
    BY NextHeldIs DEF Switchers
<1>3. CASE NextHeld(s) # s.heldLayer
  <2>1. t = [held EXCEPT !.activeLayer = Shown(held), !.uncomposed = FALSE] /\ t \in Switchers
      BY <1>1, <1>2, <1>3, ComposedIs
  <2>2. Shown(t) = Shown(held)
      BY <2>1, <1>2 DEF Shown, Switchers
  <2> QED BY <1>3, <2>1, <2>2 DEF Switchers, SameStack
<1>4. CASE NextHeld(s) = s.heldLayer
    BY <1>1, <1>2, <1>4 DEF Switchers, SameStack
<1> QED BY <1>3, <1>4

\* t is s after the layer l was put in front.
Forced(t, s, l) ==
    /\ t \in Switchers /\ SameStack(s, t) /\ t.heldLayers = s.heldLayers \cup {l}
    /\ t.heldLayer = l /\ t.activeLayer = Shown(t) /\ ~t.uncomposed
    /\ t.nativeActions = s.nativeActions /\ t.layerHolds = s.layerHolds

LEMMA Swapped ==
    ASSUME NEW s \in Switchers, NEW l \in Layers
    PROVE  Forced(updateActiveLayer([[s EXCEPT !.heldLayers = @ \cup {l}] EXCEPT !.heldLayer = l]), s, l)
<1> DEFINE swapped == [[s EXCEPT !.heldLayers = @ \cup {l}] EXCEPT !.heldLayer = l]
           t == updateActiveLayer(swapped)
<1>1. swapped \in Switchers
    BY DEF Switchers
<1>2. t = [swapped EXCEPT !.activeLayer = Shown(swapped), !.uncomposed = FALSE] /\ t \in Switchers
    BY <1>1, ComposedIs
<1>3. Shown(t) = Shown(swapped)
    BY <1>1, <1>2 DEF Shown, Switchers
<1> QED BY <1>2, <1>3 DEF Switchers, SameStack, Forced

LEMMA ForcedHold ==
    ASSUME NEW s \in Switchers, NEW l \in Layers
    PROVE  Forced(HoldLayer(s, l, TRUE), s, l)
BY Swapped DEF HoldLayer

LEMMA KeyHold ==
    ASSUME NEW s \in Switchers, NEW l \in Layers, NEW t, t = HoldLayer(s, l, FALSE)
    PROVE  /\ s.heldLayer = LayerId_None => Forced(t, s, l)
           /\ s.heldLayer # LayerId_None => t \in Switchers /\ t = [s EXCEPT !.heldLayers = @ \cup {l}]
<1>1. CASE s.heldLayer = LayerId_None
    BY <1>1, Swapped DEF HoldLayer
<1>2. CASE s.heldLayer # LayerId_None
    BY <1>2 DEF HoldLayer, Switchers
<1> QED BY <1>1, <1>2

\* The slots that are in use.
LEMMA WindowIs ==
    ASSUME NEW s \in Switchers
    PROVE  /\ Window(s) \subseteq Slots /\ s.topIdx \in Window(s) /\ Top(s) \in Record
           /\ \A i \in 0..(s.size - 1) : Below(s, i) \in Window(s)
<1>1. s.topIdx \in Slots /\ s.size \in 1..(LAYER_STACK_SIZE - 1) /\ s.stack \in [Slots -> Record]
    BY DEF Switchers
<1>2. \A i \in 0..(s.size - 1) : Below(s, i) \in Slots
  <2> SUFFICES ASSUME NEW i \in 0..(s.size - 1) PROVE Below(s, i) \in Slots
      OBVIOUS
  <2>1. i \in 0..(LAYER_STACK_SIZE - 1)
      BY <1>1, Sizes
  <2>2. Below(s, i) = IF i <= s.topIdx THEN s.topIdx - i ELSE s.topIdx + LAYER_STACK_SIZE - i
      BY <1>1, <2>1, BelowIs
  <2> QED BY <1>1, <2>1, <2>2, Sizes DEF Slots
<1>3. Below(s, 0) = s.topIdx /\ 0 \in 0..(s.size - 1)
  <2>1. 0 \in 0..(LAYER_STACK_SIZE - 1) /\ 0 <= s.topIdx /\ s.topIdx - 0 = s.topIdx
      BY <1>1, Sizes DEF Slots
  <2>2. Below(s, 0) = IF 0 <= s.topIdx THEN s.topIdx - 0 ELSE s.topIdx + LAYER_STACK_SIZE - 0
      BY <1>1, <2>1, BelowIs
  <2> QED BY <1>1, <2>1, <2>2
<1> QED BY <1>1, <1>2, <1>3 DEF Window, Top

LEMMA UnusedIsRecord == Unused \in Record /\ ~Unused.held
BY LayersAre, LayerAssumption DEF Unused, Record

Filtered(s) == [i \in Slots |-> IF i \in Window(s) THEN s.stack[i] ELSE Unused]

LEMMA ActivateIs ==
    ASSUME NEW s \in Switchers, NEW t, t = activateLayer(s)
    PROVE  /\ t \in Switchers /\ t.stack = Filtered(s) /\ t.topIdx = s.topIdx /\ t.size = s.size
           /\ t.keymap = Top(s).keymap /\ t.stackLayer = Top(s).layer /\ t.stackHeld = Top(s).held
           /\ t.layerHolds /\ t.nativeActions
           /\ t.stackHeld => /\ t.heldLayers = s.heldLayers \cup {t.stackLayer} /\ t.heldLayer = t.stackLayer
                             /\ t.activeLayer = Shown(t) /\ ~t.uncomposed
           /\ ~t.stackHeld => /\ t.heldLayers = s.heldLayers
                              /\ t.uncomposed \/ t.activeLayer = Shown(t)
                              /\ s.heldLayer \in s.heldLayers /\ ~IsModifierLayer(s.heldLayer) =>
                                    t.heldLayer = s.heldLayer /\ t.uncomposed
<1> DEFINE top == Top(s)
           shown == [s EXCEPT !.keymap = top.keymap, !.stackLayer = top.layer, !.stackHeld = top.held,
                              !.stack = [i \in DOMAIN s.stack |-> IF i \in Window(s) THEN s.stack[i] ELSE Unused]]
           toggled == [shown EXCEPT !.uncomposed = TRUE]
           recomputed == IF top.held THEN HoldLayer(shown, top.layer, TRUE) ELSE UpdateActiveLayer(toggled)
<1>1. t = [recomputed EXCEPT !.layerHolds = TRUE, !.nativeActions = TRUE]
    BY DEF activateLayer
<1>2. top \in Record /\ Window(s) \subseteq Slots
    BY WindowIs
<1>3. top.keymap \in Keymaps /\ top.layer \in Layers /\ top.held \in BOOLEAN
    BY <1>2 DEF Record
<1>4. Filtered(s) \in [Slots -> Record] /\ Filtered(s) = [i \in DOMAIN s.stack |-> IF i \in Window(s) THEN s.stack[i] ELSE Unused]
    BY UnusedIsRecord DEF Filtered, Switchers
<1> HIDE DEF top
<1>5. shown = [s EXCEPT !.keymap = top.keymap, !.stackLayer = top.layer, !.stackHeld = top.held, !.stack = Filtered(s)]
    BY <1>4
<1> HIDE DEF shown
<1>6. /\ shown \in Switchers /\ shown.stack = Filtered(s) /\ shown.topIdx = s.topIdx /\ shown.size = s.size
      /\ shown.keymap = top.keymap /\ shown.stackLayer = top.layer /\ shown.stackHeld = top.held
      /\ shown.heldLayers = s.heldLayers /\ shown.heldLayer = s.heldLayer
    BY <1>3, <1>4, <1>5 DEF Switchers
<1>7. CASE top.held
  <2> DEFINE r == HoldLayer(shown, top.layer, TRUE)
  <2>1. /\ r \in Switchers /\ SameStack(shown, r) /\ r.heldLayers = shown.heldLayers \cup {top.layer}
        /\ r.heldLayer = top.layer /\ r.activeLayer = Shown(r) /\ ~r.uncomposed
      BY <1>3, <1>6, ForcedHold DEF Forced
  <2> HIDE DEF r
  <2>2. t = [r EXCEPT !.layerHolds = TRUE, !.nativeActions = TRUE]
      BY <1>1, <1>7 DEF r
  <2>3. Shown(t) = Shown(r)
      BY <2>1, <2>2 DEF Shown, Switchers
  <2>4. /\ t \in Switchers /\ SameStack(shown, t) /\ t.layerHolds /\ t.nativeActions
        /\ t.heldLayers = shown.heldLayers \cup {top.layer}
        /\ t.heldLayer = top.layer /\ t.activeLayer = Shown(t) /\ ~t.uncomposed
      BY <2>1, <2>2, <2>3 DEF Switchers, SameStack
  <2> QED BY <1>6, <1>7, <2>4 DEF SameStack, top
<1>8. CASE ~top.held
  <2> DEFINE r == UpdateActiveLayer(toggled)
  <2>1. /\ toggled \in Switchers /\ SameStack(shown, toggled) /\ toggled.heldLayers = s.heldLayers
        /\ toggled.heldLayer = s.heldLayer /\ toggled.uncomposed
      BY <1>6 DEF Switchers, SameStack
  <2> HIDE DEF toggled
  <2>2. /\ r \in Switchers /\ SameStack(toggled, r) /\ r.heldLayers = toggled.heldLayers
        /\ r.heldLayer = NextHeld(toggled)
        /\ NextHeld(toggled) = toggled.heldLayer => r.uncomposed = toggled.uncomposed
        /\ NextHeld(toggled) # toggled.heldLayer => r.activeLayer = Shown(r) /\ ~r.uncomposed
      BY <2>1, UpdateActiveLayerIs
  <2>3. s.heldLayer \in s.heldLayers /\ ~IsModifierLayer(s.heldLayer) => NextHeld(toggled) = s.heldLayer
    <3>1. s.heldLayer \in s.heldLayers => s.heldLayer \in Relevant(toggled)
        BY <2>1 DEF Relevant, MeetsHoldConditions, Switchers
    <3> QED BY <2>1, <3>1, NextHeldIs
  <2> HIDE DEF r
  <2>4. t = [r EXCEPT !.layerHolds = TRUE, !.nativeActions = TRUE]
      BY <1>1, <1>8 DEF r
  <2>5. Shown(t) = Shown(r)
      BY <2>2, <2>4 DEF Shown, Switchers
  <2>6. /\ t \in Switchers /\ SameStack(r, t) /\ t.layerHolds /\ t.nativeActions
        /\ t.heldLayers = r.heldLayers /\ t.heldLayer = r.heldLayer /\ t.activeLayer = r.activeLayer
        /\ t.uncomposed = r.uncomposed
      BY <2>2, <2>4 DEF Switchers, SameStack
  <2>7. SameStack(shown, t)
      BY <2>1, <2>2, <2>6 DEF SameStack
  <2>8. t.heldLayers = s.heldLayers
      BY <2>1, <2>2, <2>6
  <2>9. t.uncomposed \/ t.activeLayer = Shown(t)
      BY <2>1, <2>2, <2>5, <2>6
  <2>10. s.heldLayer \in s.heldLayers /\ ~IsModifierLayer(s.heldLayer) => t.heldLayer = s.heldLayer /\ t.uncomposed
      BY <2>1, <2>2, <2>3, <2>6
  <2> QED BY <1>6, <1>8, <2>6, <2>7, <2>8, <2>9, <2>10 DEF SameStack, top
<1> QED BY <1>3, <1>7, <1>8

-----------------------------------------------------------------------------
(* The layer stack.                                                        *)

\* The stack was changed from s to u, and holds no layers that it did not hold before but those of L.
Restacked(s, u, L) ==
    /\ u \in Switchers
    /\ u.stackLayer = s.stackLayer /\ u.stackHeld = s.stackHeld /\ u.heldLayers = s.heldLayers
    /\ u.heldLayer = s.heldLayer /\ u.activeLayer = s.activeLayer /\ u.layerHolds = s.layerHolds
    /\ u.nativeActions = s.nativeActions /\ u.uncomposed = s.uncomposed
    /\ \A i \in Slots : u.stack[i].held =>
          u.stack[i].layer \in L \/ \E j \in Slots : s.stack[j].held /\ s.stack[j].layer = u.stack[i].layer

BaseRecord(k) == [layer |-> Base, keymap |-> k, held |-> FALSE, removed |-> FALSE, owner |-> NoMacro]
Emptied(s, i) ==
    [s EXCEPT !.topIdx = i, !.size = 1, !.stack = [j \in Slots |-> IF j = i THEN BaseRecord(s.keymap) ELSE Unused]]
LiveDepths(s) == {i \in 0..(s.size - 1) : ~s.stack[Below(s, i)].removed}
Uncovered(s) == [s EXCEPT !.topIdx = Below(s, Min(LiveDepths(s))), !.size = @ - Min(LiveDepths(s))]
ToggledDepths(s) == {i \in 0..(s.size - 1) : ~s.stack[Below(s, i)].held /\ ~s.stack[Below(s, i)].removed}
Marked(s, i) == [s EXCEPT !.stack[i].removed = TRUE]
Ended(s, i) == [s EXCEPT !.stack[i] = Withdrawn(@)]
Entry(l, k, owner) == [layer |-> l, keymap |-> k, held |-> owner # NoMacro, removed |-> FALSE, owner |-> owner]
Pushed(s, entry) ==
    [s EXCEPT !.topIdx = Pos(s, 1), !.stack[Pos(s, 1)] = entry,
              !.size = IF @ < LAYER_STACK_SIZE - 1 THEN @ + 1 ELSE @]

LEMMA EmptiedIs ==
    ASSUME NEW s \in Switchers, NEW i \in Slots
    PROVE  Restacked(s, Emptied(s, i), {})
<1>1. BaseRecord(s.keymap) \in Record /\ ~BaseRecord(s.keymap).held
    BY LayersAre DEF BaseRecord, Record, Switchers
<1>2. 1 \in 1..(LAYER_STACK_SIZE - 1)
    BY Sizes
<1> QED BY <1>1, <1>2, UnusedIsRecord DEF Emptied, Switchers, Restacked

LEMMA ResetIs ==
    ASSUME NEW s \in Switchers
    PROVE  Reset(s) = Emptied(s, s.topIdx) /\ Restacked(s, Reset(s), {})
<1>1. Reset(s) = Emptied(s, s.topIdx)
    BY DEF Reset, Emptied, BaseRecord, Switchers
<1> QED BY <1>1, EmptiedIs DEF Switchers

LEMMA LiveDepthsAre ==
    ASSUME NEW s \in Switchers, LiveDepths(s) # {}
    PROVE  /\ Min(LiveDepths(s)) \in 0..(s.size - 1) /\ ~s.stack[Below(s, Min(LiveDepths(s)))].removed
           /\ \A i \in 0..(s.size - 1) : i < Min(LiveDepths(s)) => s.stack[Below(s, i)].removed
<1>1. LiveDepths(s) \subseteq Nat /\ s.size \in Nat
    BY DEF LiveDepths, Switchers
<1>2. Min(LiveDepths(s)) \in LiveDepths(s) /\ \A y \in LiveDepths(s) : Min(LiveDepths(s)) <= y
    BY <1>1, LeastNumber
<1>3. Min(LiveDepths(s)) \in Nat
    BY <1>1, <1>2
<1>4. \A i \in 0..(s.size - 1) : i < Min(LiveDepths(s)) => i \notin LiveDepths(s)
    BY <1>1, <1>2, <1>3
<1> QED BY <1>2, <1>4 DEF LiveDepths

LEMMA UncoveredIs ==
    ASSUME NEW s \in Switchers, LiveDepths(s) # {}
    PROVE  Restacked(s, Uncovered(s), {})
<1> DEFINE m == Min(LiveDepths(s))
<1>1. m \in 0..(s.size - 1) /\ s.size \in 1..(LAYER_STACK_SIZE - 1)
    BY LiveDepthsAre DEF Switchers
<1>2. Below(s, m) \in Slots
    BY <1>1, WindowIs
<1>3. s.size - m \in 1..(LAYER_STACK_SIZE - 1)
    BY <1>1, Sizes
<1>4. Uncovered(s) = [s EXCEPT !.topIdx = Below(s, m), !.size = s.size - m]
    BY DEF Uncovered, Switchers
<1> HIDE DEF m
<1> QED BY <1>2, <1>3, <1>4 DEF Switchers, Restacked

LEMMA PopRemovedIs ==
    ASSUME NEW s \in Switchers
    PROVE  \E u \in Switchers :
              /\ PopRemoved(s) = activateLayer(u) /\ Restacked(s, u, {})
              /\ LiveDepths(s) # {} => u = Uncovered(s)
              /\ LiveDepths(s) = {} => \E i \in Slots : u = Emptied(s, i)
<1>1. CASE LiveDepths(s) # {}
  <2>1. PopRemoved(s) = activateLayer(Uncovered(s))
      BY <1>1 DEF PopRemoved, LiveDepths, Uncovered
  <2> QED BY <1>1, <2>1, UncoveredIs DEF Restacked
<1>2. CASE LiveDepths(s) = {}
  <2> DEFINE i == Below(s, s.size)
             popped == [s EXCEPT !.topIdx = i, !.size = @ - s.size]
  <2>1. PopRemoved(s) = activateLayer(Reset(popped))
      BY <1>2 DEF PopRemoved, LiveDepths
  <2>2. i \in Slots
    <3>1. s.topIdx \in Slots /\ s.size \in 0..(LAYER_STACK_SIZE - 1) /\ s.size > 0
        BY Sizes DEF Switchers
    <3>2. i = IF s.size <= s.topIdx THEN s.topIdx - s.size ELSE s.topIdx + LAYER_STACK_SIZE - s.size
        BY <3>1, BelowIs
    <3> QED BY <3>1, <3>2, Sizes DEF Slots
  <2> HIDE DEF i
  <2>3. Reset(popped) = Emptied(s, i)
      BY <2>2 DEF Reset, Emptied, BaseRecord, Switchers
  <2> HIDE DEF popped
  <2>4. Restacked(s, Emptied(s, i), {}) /\ Emptied(s, i) \in Switchers
      BY <2>2, EmptiedIs DEF Restacked
  <2> QED BY <1>2, <2>1, <2>2, <2>3, <2>4
<1> QED BY <1>1, <1>2

LEMMA MarkedIs ==
    ASSUME NEW s \in Switchers, NEW i \in Slots
    PROVE  /\ Restacked(s, Marked(s, i), {})
           /\ Marked(s, i) = [s EXCEPT !.stack = [s.stack EXCEPT ![i] = [s.stack[i] EXCEPT !.removed = TRUE]]]
           /\ Restacked(s, Ended(s, i), {})
           /\ Ended(s, i) = [s EXCEPT !.stack = [s.stack EXCEPT ![i] = Withdrawn(s.stack[i])]]
<1>1. s.stack \in [Slots -> Record] /\ s.stack[i] \in Record
    BY DEF Switchers
<1> DEFINE r == [s.stack[i] EXCEPT !.removed = TRUE]
           q == Withdrawn(s.stack[i])
<1>2. r \in Record /\ r.held = s.stack[i].held /\ r.layer = s.stack[i].layer /\ q \in Record /\ ~q.held
    BY <1>1 DEF Record, Withdrawn
<1>3. Marked(s, i) = [s EXCEPT !.stack = [s.stack EXCEPT ![i] = r]]
    BY <1>1 DEF Marked
<1>4. Ended(s, i) = [s EXCEPT !.stack = [s.stack EXCEPT ![i] = q]]
    BY <1>1 DEF Ended
<1> HIDE DEF r, q
<1>5. Restacked(s, Marked(s, i), {})
    BY <1>1, <1>2, <1>3 DEF Switchers, Restacked
<1>6. Restacked(s, Ended(s, i), {})
    BY <1>1, <1>2, <1>4 DEF Switchers, Restacked
<1> QED BY <1>3, <1>4, <1>5, <1>6 DEF r, q

LEMMA PushIs ==
    ASSUME NEW s \in Switchers, NEW l \in Layers, NEW k \in Keymaps, NEW owner \in Macros \cup {NoMacro}
    PROVE  /\ Push(s, l, k, owner) = activateLayer(Pushed(s, Entry(l, k, owner)))
           /\ Restacked(s, Pushed(s, Entry(l, k, owner)), IF owner = NoMacro THEN {} ELSE {l})
           /\ Pos(s, 1) \in Slots /\ Entry(l, k, owner) \in Record
<1> DEFINE entry == Entry(l, k, owner)
<1>1. Push(s, l, k, owner) = activateLayer(Pushed(s, entry))
    BY DEF Push, Pushed, Entry
<1>2. entry \in Record /\ (entry.held <=> owner # NoMacro) /\ entry.layer = l
    BY DEF Entry, Record
<1>3. Pos(s, 1) \in Slots
  <2>1. s.topIdx \in Slots
      BY DEF Switchers
  <2>2. Pos(s, 1) = IF s.topIdx + 1 < LAYER_STACK_SIZE THEN s.topIdx + 1 ELSE 0
      BY <2>1, PosIs
  <2> QED BY <2>1, <2>2, Sizes DEF Slots
<1> DEFINE size == IF s.size < LAYER_STACK_SIZE - 1 THEN s.size + 1 ELSE s.size
<1>4. size \in 1..(LAYER_STACK_SIZE - 1)
    BY Sizes DEF Switchers
<1>5. Pushed(s, entry) = [s EXCEPT !.topIdx = Pos(s, 1), !.stack = [s.stack EXCEPT ![Pos(s, 1)] = entry], !.size = size]
    BY DEF Pushed, Switchers
<1> HIDE DEF entry, size
<1>6. Restacked(s, Pushed(s, entry), {l}) /\ (owner = NoMacro => Restacked(s, Pushed(s, entry), {}))
  <2> DEFINE u == Pushed(s, entry)
             stack == [s.stack EXCEPT ![Pos(s, 1)] = entry]
  <2>6. stack \in [Slots -> Record]
      BY <1>2, <1>3 DEF Switchers
  <2>7. u = [s EXCEPT !.topIdx = Pos(s, 1), !.stack = stack, !.size = size]
      BY <1>5
  <2> HIDE DEF stack, u
  <2>1. /\ u \in Switchers /\ u.stack = stack
        /\ u.stackLayer = s.stackLayer /\ u.stackHeld = s.stackHeld /\ u.heldLayers = s.heldLayers
        /\ u.heldLayer = s.heldLayer /\ u.activeLayer = s.activeLayer /\ u.layerHolds = s.layerHolds
        /\ u.nativeActions = s.nativeActions /\ u.uncomposed = s.uncomposed
      BY <1>3, <1>4, <2>6, <2>7 DEF Switchers
  <2>2. s.stack \in [Slots -> Record]
      BY DEF Switchers
  <2>3. \A i \in Slots : u.stack[i] = IF i = Pos(s, 1) THEN entry ELSE s.stack[i]
      BY <1>3, <2>1, <2>2 DEF stack
  <2>4. Restacked(s, u, {l})
      BY <1>2, <2>1, <2>3 DEF Restacked
  <2>5. owner = NoMacro => Restacked(s, u, {})
      BY <1>2, <2>1, <2>3 DEF Restacked
  <2> QED BY <2>4, <2>5 DEF u
<1> QED BY <1>1, <1>2, <1>3, <1>6 DEF entry

-----------------------------------------------------------------------------
(* What the layer switcher and the layer stack keep.  H is the set of      *)
(* layers that keys hold.                                                  *)

Regular == {l \in Layers : ~IsModifierLayer(l)}

\* ActiveLayer is the one that updateActiveLayer would choose.
Composed(s) == ~s.uncomposed => s.activeLayer = Shown(s)
\* Macros hold no layers of modifiers.
RegularHolds(s) ==
    /\ \A i \in Slots : s.stack[i].held => s.stack[i].layer \in Regular
    /\ s.stackHeld => s.stackLayer \in Regular
\* A held base layer is the held layer.
BaseIsHeld(s) == s.stackHeld /\ s.stackLayer = Base => s.heldLayer = Base
Sound(s) == Composed(s) /\ RegularHolds(s) /\ BaseIsHeld(s)

\* The held layer is that of a hold which may be over; nothing replaces it before
\* the next pass over the keys.
Left(s) ==
    /\ s.heldLayer \in Regular \cap s.heldLayers
    /\ s.uncomposed \/ (s.stackHeld /\ s.stackLayer = s.heldLayer)
\* The layers that were held, after the keys that hold those of H were looked at.
Collected(s, H) == H \subseteq s.heldLayers /\ (s.heldLayers = H \/ Left(s))

\* The held layer is one that should be held, and regular if there is such a one.
Justified(s, H) == {l \in Layers : (l = s.stackLayer /\ s.stackHeld) \/ l \in H \/ l \in modifiers}
Fits(s, H) ==
    /\ s.heldLayer = LayerId_None => Justified(s, H) = {}
    /\ s.heldLayer # LayerId_None =>
          /\ s.heldLayer \in Justified(s, H)
          /\ IsModifierLayer(s.heldLayer) => \A l \in Justified(s, H) : IsModifierLayer(l)
Settled(s, H) == ~s.layerHolds => Fits(s, H) \/ (s.uncomposed /\ s.heldLayer \in Regular)

Preserves(s, t, L) ==
    /\ t \in Switchers
    /\ L \subseteq Regular /\ Sound(s) =>
          /\ Sound(t)
          /\ \A H \in SUBSET Layers : (Collected(s, H) => Collected(t, H)) /\ (Settled(s, H) => Settled(t, H))

LEMMA PreservesIsTransitive ==
    ASSUME NEW s, NEW t, NEW u, NEW L, Preserves(s, t, {}), Preserves(t, u, L)
    PROVE  Preserves(s, u, L)
BY DEF Preserves

LEMMA PreservesIsReflexive ==
    ASSUME NEW s \in Switchers, NEW L
    PROVE  Preserves(s, s, L)
BY DEF Preserves

LEMMA RestackingPreserves ==
    ASSUME NEW s \in Switchers, NEW u, Restacked(s, u, {})
    PROVE  Preserves(s, u, {})
<1>1. u \in Switchers
    BY DEF Restacked
<1>2. Sound(s) => Sound(u)
  <2>1. Shown(u) = Shown(s)
      BY DEF Restacked, Shown
  <2>2. RegularHolds(s) => RegularHolds(u)
      BY DEF Restacked, RegularHolds
  <2> QED BY <2>1, <2>2 DEF Restacked, Sound, Composed, BaseIsHeld
<1>3. \A H \in SUBSET Layers : Collected(s, H) => Collected(u, H)
    BY DEF Restacked, Collected, Left
<1>4. \A H \in SUBSET Layers : Settled(s, H) => Settled(u, H)
  <2> SUFFICES ASSUME NEW H \in SUBSET Layers PROVE Settled(s, H) => Settled(u, H)
      OBVIOUS
  <2>1. Justified(u, H) = Justified(s, H)
      BY DEF Restacked, Justified
  <2> QED BY <2>1 DEF Restacked, Settled, Fits
<1> QED BY <1>1, <1>2, <1>3, <1>4 DEF Preserves

LEMMA ActivationPreserves ==
    ASSUME NEW s \in Switchers, NEW u, NEW L, Restacked(s, u, L), NEW t, t = activateLayer(u)
    PROVE  Preserves(s, t, L)
<1>1. u \in Switchers
    BY DEF Restacked
<1>2. /\ t \in Switchers /\ t.stack = Filtered(u) /\ t.topIdx = u.topIdx
      /\ t.stackLayer = Top(u).layer /\ t.stackHeld = Top(u).held
      /\ t.layerHolds /\ t.nativeActions
      /\ t.stackHeld => /\ t.heldLayers = u.heldLayers \cup {t.stackLayer} /\ t.heldLayer = t.stackLayer
                        /\ t.activeLayer = Shown(t) /\ ~t.uncomposed
      /\ ~t.stackHeld => /\ t.heldLayers = u.heldLayers
                         /\ t.uncomposed \/ t.activeLayer = Shown(t)
                         /\ u.heldLayer \in u.heldLayers /\ ~IsModifierLayer(u.heldLayer) =>
                               t.heldLayer = u.heldLayer /\ t.uncomposed
    BY <1>1, ActivateIs
<1> SUFFICES ASSUME L \subseteq Regular, Sound(s)
             PROVE  Sound(t) /\ \A H \in SUBSET Layers : (Collected(s, H) => Collected(t, H)) /\ (Settled(s, H) => Settled(t, H))
    BY <1>2 DEF Preserves
<1>3. \A i \in Slots : u.stack[i].held => u.stack[i].layer \in Regular
    BY DEF Restacked, Sound, RegularHolds
<1>4. t.stackHeld => t.stackLayer \in Regular
  <2>1. u.topIdx \in Slots
      BY <1>1 DEF Switchers
  <2> QED BY <1>2, <1>3, <2>1 DEF Top
<1>5. \A i \in Slots : t.stack[i].held => t.stack[i].layer \in Regular
    BY <1>2, <1>3, UnusedIsRecord DEF Filtered
<1>6. Sound(t)
    BY <1>2, <1>4, <1>5 DEF Sound, Composed, RegularHolds, BaseIsHeld
<1>7. ASSUME NEW H \in SUBSET Layers, Collected(s, H) PROVE Collected(t, H)
  <2>1. u.heldLayers = s.heldLayers /\ u.heldLayer = s.heldLayer
      BY DEF Restacked
  <2>2. CASE t.stackHeld
      BY <1>2, <1>4, <1>7, <2>1, <2>2 DEF Collected, Left
  <2>3. CASE ~t.stackHeld
      BY <1>2, <1>7, <2>1, <2>3 DEF Collected, Left, Regular
  <2> QED BY <2>2, <2>3
<1> QED BY <1>2, <1>6, <1>7 DEF Settled

LEMMA ResetPreserves ==
    ASSUME NEW s \in Switchers
    PROVE  Preserves(s, Reset(s), {})
BY ResetIs, RestackingPreserves

LEMMA SwitchKeymapPreserves ==
    ASSUME NEW s \in Switchers, NEW k \in Keymaps
    PROVE  Preserves(s, SwitchKeymap(s, k), {})
<1> DEFINE u == SwitchKeymapById(s, k)
<1>1. u \in Switchers /\ Restacked(s, u, {})
    BY DEF SwitchKeymapById, Switchers, Restacked
<1>2. Preserves(s, u, {}) /\ Preserves(u, Reset(u), {})
    BY <1>1, RestackingPreserves, ResetPreserves
<1> QED BY <1>2, PreservesIsTransitive DEF SwitchKeymap

LEMMA PopRemovedPreserves ==
    ASSUME NEW s \in Switchers
    PROVE  Preserves(s, PopRemoved(s), {})
BY PopRemovedIs, ActivationPreserves

LEMMA PushPreserves ==
    ASSUME NEW s \in Switchers, NEW l \in Layers, NEW k \in Keymaps
    PROVE  /\ Preserves(s, Push(s, l, k, NoMacro), {})
           /\ \A m \in Macros : Preserves(s, Push(s, l, k, m), {l})
<1>1. Preserves(s, Push(s, l, k, NoMacro), {})
    BY PushIs, ActivationPreserves
<1>2. ASSUME NEW m \in Macros PROVE Preserves(s, Push(s, l, k, m), {l})
  <2>1. m # NoMacro
      BY LayerAssumption
  <2>2. Push(s, l, k, m) = activateLayer(Pushed(s, Entry(l, k, m))) /\ Restacked(s, Pushed(s, Entry(l, k, m)), {l})
      BY <2>1, PushIs
  <2> QED BY <2>2, ActivationPreserves
<1> QED BY <1>1, <1>2

LEMMA ToggledDepthsAre ==
    ASSUME NEW s \in Switchers, ToggledDepths(s) # {}
    PROVE  /\ Min(ToggledDepths(s)) \in 0..(s.size - 1)
           /\ ~s.stack[Below(s, Min(ToggledDepths(s)))].held /\ ~s.stack[Below(s, Min(ToggledDepths(s)))].removed
           /\ \A i \in 0..(s.size - 1) : i < Min(ToggledDepths(s)) =>
                 s.stack[Below(s, i)].held \/ s.stack[Below(s, i)].removed
<1>1. ToggledDepths(s) \subseteq Nat /\ s.size \in Nat
    BY DEF ToggledDepths, Switchers
<1>2. Min(ToggledDepths(s)) \in ToggledDepths(s) /\ \A y \in ToggledDepths(s) : Min(ToggledDepths(s)) <= y
    BY <1>1, LeastNumber
<1>3. Min(ToggledDepths(s)) \in Nat
    BY <1>1, <1>2
<1>4. \A i \in 0..(s.size - 1) : i < Min(ToggledDepths(s)) => i \notin ToggledDepths(s)
    BY <1>1, <1>2, <1>3
<1> QED BY <1>2, <1>4 DEF ToggledDepths

LEMMA PopToggledIs ==
    ASSUME NEW s \in Switchers
    PROVE  /\ ToggledDepths(s) = {} => PopToggled(s) = PopRemoved(s)
           /\ ToggledDepths(s) # {} =>
                 /\ PopToggled(s) = PopRemoved(Marked(s, Below(s, Min(ToggledDepths(s)))))
                 /\ Below(s, Min(ToggledDepths(s))) \in Slots
<1>1. ToggledDepths(s) = {} => PopToggled(s) = PopRemoved(s)
    BY DEF PopToggled, ToggledDepths
<1>2. ToggledDepths(s) # {} => PopToggled(s) = PopRemoved(Marked(s, Below(s, Min(ToggledDepths(s)))))
    BY DEF PopToggled, ToggledDepths, Marked
<1>3. ToggledDepths(s) # {} => Below(s, Min(ToggledDepths(s))) \in Slots
    BY ToggledDepthsAre, WindowIs
<1> QED BY <1>1, <1>2, <1>3

LEMMA PopToggledPreserves ==
    ASSUME NEW s \in Switchers
    PROVE  Preserves(s, PopToggled(s), {})
<1>1. CASE ToggledDepths(s) = {}
    BY <1>1, PopToggledIs, PopRemovedPreserves
<1>2. CASE ToggledDepths(s) # {}
  <2> DEFINE u == Marked(s, Below(s, Min(ToggledDepths(s))))
  <2>1. PopToggled(s) = PopRemoved(u) /\ Restacked(s, u, {})
      BY <1>2, PopToggledIs, MarkedIs
  <2>2. Preserves(s, u, {}) /\ u \in Switchers
      BY <2>1, RestackingPreserves DEF Restacked
  <2> HIDE DEF u
  <2> QED BY <2>1, <2>2, PopRemovedPreserves, PreservesIsTransitive
<1> QED BY <1>1, <1>2

LEMMA RemoveRecordIs ==
    ASSUME NEW s \in Switchers, NEW i
    PROVE  /\ i \in Window(s) => i \in Slots /\ RemoveRecord(s, i) = PopRemoved(Ended(s, i))
           /\ i \notin Window(s) => RemoveRecord(s, i) = PopRemoved(s)
BY WindowIs DEF RemoveRecord, Ended

LEMMA RemoveRecordPreserves ==
    ASSUME NEW s \in Switchers, NEW i
    PROVE  Preserves(s, RemoveRecord(s, i), {})
<1>1. CASE i \notin Window(s)
    BY <1>1, RemoveRecordIs, PopRemovedPreserves
<1>2. CASE i \in Window(s)
  <2>1. RemoveRecord(s, i) = PopRemoved(Ended(s, i)) /\ Restacked(s, Ended(s, i), {})
      BY <1>2, RemoveRecordIs, MarkedIs
  <2>2. Preserves(s, Ended(s, i), {}) /\ Ended(s, i) \in Switchers
      BY <2>1, RestackingPreserves DEF Restacked
  <2> QED BY <2>1, <2>2, PopRemovedPreserves, PreservesIsTransitive
<1> QED BY <1>1, <1>2


-----------------------------------------------------------------------------
(* The commands and the keys.                                              *)

\* Macros do not hold the layers of modifiers.
MacrosHoldRegularLayers == \A target \in Targets : ~IsModifierLayer(target[1])

IsHold(action) == action.type \in {"hold", "holdAndDoubleTapToggle"}
HeldFor(k, S) == {Actions[k][Base][key].to : key \in {q \in S : IsHold(Actions[k][Base][q])}}

\* A key that holds a layer holds it in every keymap.
LayerKeysStay ==
    \A key \in Keys, k, q \in Keymaps :
        /\ IsHold(Actions[k][Base][key]) <=> IsHold(Actions[q][Base][key])
        /\ IsHold(Actions[k][Base][key]) => Actions[k][Base][key].to = Actions[q][Base][key].to

LEMMA KeysAre ==
    /\ Cardinality(Keys) \in Nat /\ Keys = 1..Cardinality(Keys)
    /\ MacrosTurn = 0 /\ ReportsTurn = Cardinality(Keys) + 1
    /\ NoKey = 0
BY LayerAssumption, FS_CardinalityType DEF MacrosTurn, ReportsTurn, NoKey

LEMMA ActionsAre ==
    /\ \A k \in Keymaps, l \in Layers, key \in Keys : Actions[k][l][key] \in KeyActions
    /\ [type |-> "none", to |-> Base] \in KeyActions
    /\ \A a \in KeyActions : IF a.type = "switchKeymap" THEN a.to \in Keymaps ELSE a.to \in Layers
BY LayerAssumption, LayersAre DEF KeyActions, ActionTypes

LEMMA HeldForIs ==
    ASSUME NEW k \in Keymaps, NEW S \in SUBSET Keys
    PROVE  /\ HeldFor(k, S) \in SUBSET Layers
           /\ LayerKeysStay => \A q \in Keymaps : HeldFor(q, S) = HeldFor(k, S)
<1>1. \A key \in Keys : Actions[k][Base][key] \in KeyActions
    BY ActionsAre, LayersAre
<1>2. \A key \in Keys : IsHold(Actions[k][Base][key]) => Actions[k][Base][key].to \in Layers
    BY <1>1, ActionsAre DEF IsHold
<1>3. HeldFor(k, S) \in SUBSET Layers
    BY <1>2 DEF HeldFor
<1>4. ASSUME LayerKeysStay, NEW q \in Keymaps PROVE HeldFor(q, S) = HeldFor(k, S)
    BY <1>4 DEF LayerKeysStay, HeldFor
<1> QED BY <1>3, <1>4

\* One more key was looked at.
LEMMA HeldForGrows ==
    ASSUME NEW k \in Keymaps, NEW S \in SUBSET Keys, NEW key \in Keys
    PROVE  HeldFor(k, S \cup {key}) =
              HeldFor(k, S) \cup (IF IsHold(Actions[k][Base][key]) THEN {Actions[k][Base][key].to} ELSE {})
BY DEF HeldFor

LEMMA PreviousIs ==
    ASSUME NEW s \in Switchers
    PROVE  Previous(s) \in Layers \X Keymaps
<1> DEFINE earlier == {i \in 1..(s.size - 1) : ~s.stack[Below(s, i)].removed}
           depth == IF earlier = {} THEN 0 ELSE Min(earlier)
           record == s.stack[Below(s, depth)]
<1>1. s.size \in Nat /\ s.size > 0 /\ s.stack \in [Slots -> Record]
    BY Sizes DEF Switchers
<1>2. depth \in 0..(s.size - 1)
  <2>1. earlier # {} => Min(earlier) \in earlier
      BY LeastNumber
  <2> QED BY <1>1, <2>1
<1> HIDE DEF depth
<1>3. record \in Record
    BY <1>1, <1>2, WindowIs
<1>4. Previous(s) = <<record.layer, record.keymap>>
    BY DEF Previous, depth
<1> HIDE DEF record
<1> QED BY <1>3, <1>4 DEF Record

MacrosTyped == holder \in [Macros -> 0..NoSlot] /\ fresh \subseteq Macros

LEMMA CommandPreserves ==
    ASSUME NEW s \in Switchers, Command(s), MacrosTyped
    PROVE  /\ MacrosTyped'
           /\ \E L : Preserves(s, layers', L) /\ (MacrosHoldRegularLayers => L \subseteq Regular)
<1>1. CASE ToggleLayer(s)
  <2>1. PICK target \in Targets \cup {Previous(s)} : layers' = Push(s, target[1], target[2], NoMacro)
      BY <1>1 DEF ToggleLayer
  <2>2. target \in Layers \X Keymaps
      BY PreviousIs, LayerAssumption
  <2>3. Preserves(s, layers', {})
      BY <2>1, <2>2, PushPreserves
  <2> QED BY <1>1, <2>3 DEF ToggleLayer, MacrosTyped
<1>2. CASE UnToggleLayer(s)
    BY <1>2, PopToggledPreserves DEF UnToggleLayer, MacrosTyped
<1>3. CASE BeginHold(s)
  <2>1. PICK m \in Macros, target \in Targets :
            /\ layers' = Push(s, target[1], target[2], m)
            /\ holder' = [holder EXCEPT ![m] = layers'.topIdx]
            /\ fresh' = fresh \cup {m}
      BY <1>3 DEF BeginHold
  <2>2. target \in Layers \X Keymaps
      BY LayerAssumption
  <2>3. Preserves(s, layers', {target[1]})
      BY <2>1, <2>2, PushPreserves
  <2>4. layers'.topIdx \in 0..NoSlot
      BY <2>3, Sizes DEF Preserves, Switchers, Slots, NoSlot
  <2>5. MacrosHoldRegularLayers => {target[1]} \subseteq Regular
      BY <2>2 DEF MacrosHoldRegularLayers, Regular
  <2> QED BY <2>1, <2>3, <2>4, <2>5 DEF MacrosTyped
<1>4. CASE SwitchKeymapCommand(s)
    BY <1>4, SwitchKeymapPreserves DEF SwitchKeymapCommand, MacrosTyped
<1>5. CASE StopAllMacros(s)
  <2> DEFINE stack == [i \in DOMAIN s.stack |-> [s.stack[i] EXCEPT !.owner = IF @ \in Macros THEN Stopped ELSE @]]
  <2>1. layers' = [s EXCEPT !.stack = stack]
      BY <1>5 DEF StopAllMacros
  <2>2. s.stack \in [Slots -> Record]
      BY DEF Switchers
  <2>3. \A i \in Slots : stack[i] \in Record /\ stack[i].held = s.stack[i].held /\ stack[i].layer = s.stack[i].layer
      BY <2>2 DEF Record
  <2>4. stack \in [Slots -> Record]
      BY <2>2, <2>3
  <2> HIDE DEF stack
  <2>5. Restacked(s, layers', {})
      BY <2>1, <2>3, <2>4 DEF Switchers, Restacked
  <2>6. Preserves(s, layers', {})
      BY <2>5, RestackingPreserves
  <2>7. MacrosTyped'
      BY <1>5, Sizes DEF StopAllMacros, MacrosTyped, NoSlot
  <2> QED BY <2>6, <2>7
<1> QED BY <1>1, <1>2, <1>3, <1>4, <1>5 DEF Command

LEMMA LegacyPreserves ==
    ASSUME NEW s \in Switchers, NEW l \in Layers
    PROVE  /\ Preserves(s, LegacyPop(s, l), {}) /\ Preserves(s, LegacyPush(s, l), {})
           /\ Preserves(s, LegacyPush(LegacyPop(s, l), l), {}) /\ Preserves(s, ToggleOrPop(s, l), {})
<1>1. \A r \in Switchers : Preserves(r, LegacyPush(r, l), {})
    BY PushPreserves DEF LegacyPush, Switchers
<1>2. Preserves(s, LegacyPop(s, l), {})
    BY PopToggledPreserves, PreservesIsReflexive DEF LegacyPop
<1>3. LegacyPop(s, l) \in Switchers
    BY <1>2 DEF Preserves
<1>4. Preserves(s, LegacyPush(LegacyPop(s, l), l), {})
    BY <1>1, <1>2, <1>3, PreservesIsTransitive
<1> QED BY <1>1, <1>2, <1>4 DEF ToggleOrPop

LEMMA KeyActionPreserves ==
    ASSUME NEW s \in Switchers, NEW key \in Keys, NEW action \in KeyActions,
           NEW activated \in BOOLEAN, NEW doubleTapped \in BOOLEAN,
           NEW t, t = ApplyKeyAction(s, key, action, activated, doubleTapped)
    PROVE  Preserves(s, t, {})
<1>1. IF action.type = "switchKeymap" THEN action.to \in Keymaps ELSE action.to \in Layers
    BY ActionsAre
<1>2. Preserves(s, s, {})
    BY PreservesIsReflexive
<1>3. CASE action.type = "holdAndDoubleTapToggle"
  <2>1. t = DoubleTapToggle(s, key, action.to, activated, doubleTapped)
      BY <1>3 DEF ApplyKeyAction
  <2>2. t \in {s, LegacyPop(s, action.to), LegacyPush(LegacyPop(s, action.to), action.to)}
      BY <2>1 DEF DoubleTapToggle
  <2> QED BY <1>1, <1>2, <1>3, <2>2, LegacyPreserves
<1>4. CASE action.type = "toggle" /\ activated
  <2>1. t = ToggleOrPop(s, action.to)
      BY <1>4 DEF ApplyKeyAction
  <2> QED BY <1>1, <1>4, <2>1, LegacyPreserves
<1>5. CASE action.type = "hold" /\ activated
  <2>1. t = LegacyPop(s, action.to)
      BY <1>5 DEF ApplyKeyAction
  <2> QED BY <1>1, <1>5, <2>1, LegacyPreserves
<1>6. CASE action.type = "switchKeymap" /\ activated
  <2>1. t = SwitchKeymap(s, action.to)
      BY <1>6 DEF ApplyKeyAction
  <2> QED BY <1>1, <1>6, <2>1, SwitchKeymapPreserves
<1>7. CASE ~(action.type = "holdAndDoubleTapToggle") /\ ~(action.type \in {"toggle", "hold", "switchKeymap"} /\ activated)
  <2>1. t = s
      BY <1>7 DEF ApplyKeyAction
  <2> QED BY <1>2, <2>1
<1> QED BY <1>3, <1>4, <1>5, <1>6, <1>7


\* A key that holds the layer l was looked at.
HeldByKey(s, t, l, active, changed) ==
    /\ t \in Switchers
    /\ Sound(s) => Sound(t)
    /\ \A H \in SUBSET Layers :
          /\ Collected(s, H) => Collected(t, IF active THEN H \cup {l} ELSE H)
          /\ ~changed /\ (active => l \in H) /\ Settled(s, H) => Settled(t, H)
    /\ changed => t.layerHolds

LEMMA KeyHoldKeeps ==
    ASSUME NEW s \in Switchers, NEW l \in Layers
    PROVE  HeldByKey(s, HoldLayer(s, l, FALSE), l, TRUE, FALSE)
<1> DEFINE t == HoldLayer(s, l, FALSE)
<1>1. CASE s.heldLayer = LayerId_None
  <2>1. /\ t \in Switchers /\ SameStack(s, t) /\ t.heldLayers = s.heldLayers \cup {l}
        /\ t.heldLayer = l /\ t.activeLayer = Shown(t) /\ ~t.uncomposed
        /\ t.nativeActions = s.nativeActions /\ t.layerHolds = s.layerHolds
      BY <1>1, KeyHold DEF Forced
  <2> HIDE DEF t
  <2>2. Sound(s) => Sound(t)
    <3>1. BaseIsHeld(s) => ~(s.stackHeld /\ s.stackLayer = Base)
        BY <1>1, LayersAre DEF BaseIsHeld
    <3> QED BY <2>1, <3>1 DEF Sound, Composed, RegularHolds, BaseIsHeld, SameStack
  <2>3. ASSUME NEW H \in SUBSET Layers, Collected(s, H) PROVE Collected(t, H \cup {l})
      BY <1>1, <2>1, <2>3, LayersAre DEF Collected, Left, Regular
  <2>4. ASSUME NEW H \in SUBSET Layers, l \in H, Settled(s, H) PROVE Settled(t, H)
    <3>1. l \in Justified(s, H)
        BY <2>4 DEF Justified
    <3>2. ~Fits(s, H) /\ s.heldLayer \notin Regular
        BY <1>1, <3>1, LayersAre DEF Fits, Regular
    <3> QED BY <2>1, <2>4, <3>2 DEF Settled
  <2> QED BY <2>1, <2>2, <2>3, <2>4 DEF HeldByKey, t
<1>2. CASE s.heldLayer # LayerId_None
  <2>1. t \in Switchers /\ t = [s EXCEPT !.heldLayers = @ \cup {l}]
      BY <1>2, KeyHold
  <2> HIDE DEF t
  <2>2. /\ SameStack(s, t) /\ t.heldLayers = s.heldLayers \cup {l} /\ t.heldLayer = s.heldLayer
        /\ t.activeLayer = s.activeLayer /\ t.uncomposed = s.uncomposed /\ t.layerHolds = s.layerHolds
      BY <2>1 DEF SameStack, Switchers
  <2>3. Shown(t) = Shown(s)
      BY <2>2 DEF Shown, SameStack
  <2>4. Sound(s) => Sound(t)
      BY <2>2, <2>3 DEF Sound, Composed, RegularHolds, BaseIsHeld, SameStack
  <2>5. ASSUME NEW H \in SUBSET Layers, Collected(s, H) PROVE Collected(t, H \cup {l})
      BY <2>2, <2>5 DEF Collected, Left, SameStack
  <2>6. ASSUME NEW H \in SUBSET Layers, Settled(s, H) PROVE Settled(t, H)
    <3>1. Justified(t, H) = Justified(s, H)
        BY <2>2 DEF Justified, SameStack
    <3> QED BY <2>2, <2>6, <3>1 DEF Settled, Fits
  <2> QED BY <2>1, <2>4, <2>5, <2>6 DEF HeldByKey, t
<1> QED BY <1>1, <1>2

\* Only layerHolds was set.
LEMMA HoldsSet ==
    ASSUME NEW s \in Switchers, NEW b \in BOOLEAN, NEW t, t = [s EXCEPT !.layerHolds = @ \/ b]
    PROVE  /\ t \in Switchers /\ (Sound(s) => Sound(t)) /\ (b => t.layerHolds)
           /\ \A H \in SUBSET Layers : (Collected(s, H) => Collected(t, H)) /\ (Settled(s, H) => Settled(t, H))
<1>1. /\ t \in Switchers /\ SameStack(s, t) /\ t.heldLayers = s.heldLayers /\ t.heldLayer = s.heldLayer
      /\ t.activeLayer = s.activeLayer /\ t.uncomposed = s.uncomposed /\ (t.layerHolds <=> s.layerHolds \/ b)
    BY DEF SameStack, Switchers
<1>2. Shown(t) = Shown(s) /\ \A H : Justified(t, H) = Justified(s, H)
    BY <1>1 DEF Shown, SameStack, Justified
<1>3. Sound(s) => Sound(t)
    BY <1>1, <1>2 DEF Sound, Composed, RegularHolds, BaseIsHeld, SameStack
<1>4. \A H \in SUBSET Layers : Collected(s, H) => Collected(t, H)
    BY <1>1 DEF Collected, Left, SameStack
<1>5. \A H \in SUBSET Layers : Settled(s, H) => Settled(t, H)
    BY <1>1, <1>2 DEF Settled, Fits
<1> QED BY <1>1, <1>3, <1>4, <1>5

LEMMA LayerHoldsKeep ==
    ASSUME NEW s \in Switchers, NEW key \in Keys, NEW active \in BOOLEAN, NEW changed \in BOOLEAN
    PROVE  IF IsHold(Actions[s.keymap][Base][key])
           THEN HeldByKey(s, applyLayerHolds(s, key, active, changed), Actions[s.keymap][Base][key].to, active, changed)
           ELSE applyLayerHolds(s, key, active, changed) = s
<1> SUFFICES ASSUME NEW t, t = applyLayerHolds(s, key, active, changed)
             PROVE  IF IsHold(Actions[s.keymap][Base][key])
                    THEN HeldByKey(s, t, Actions[s.keymap][Base][key].to, active, changed) ELSE t = s
    BY Zenon
<1> DEFINE action == Actions[s.keymap][Base][key]
<1>1. CASE ~IsHold(action)
    BY <1>1 DEF applyLayerHolds, IsHold
<1>2. CASE IsHold(action) /\ active
  <2> DEFINE r == HoldLayer(s, action.to, FALSE)
  <2>1. action.to \in Layers
      BY <1>2, ActionsAre, LayersAre DEF IsHold, Switchers
  <2>2. HeldByKey(s, r, action.to, TRUE, FALSE)
      BY <2>1, KeyHoldKeeps
  <2>3. t = [r EXCEPT !.layerHolds = @ \/ changed]
      BY <1>2 DEF applyLayerHolds, IsHold
  <2> HIDE DEF r, action
  <2>4. /\ r \in Switchers /\ (Sound(s) => Sound(r))
        /\ \A H \in SUBSET Layers :
              /\ Collected(s, H) => Collected(r, H \cup {action.to})
              /\ action.to \in H /\ Settled(s, H) => Settled(r, H)
      BY <2>2 DEF HeldByKey
  <2>5. /\ t \in Switchers /\ (Sound(r) => Sound(t)) /\ (changed => t.layerHolds)
        /\ \A H \in SUBSET Layers : (Collected(r, H) => Collected(t, H)) /\ (Settled(r, H) => Settled(t, H))
      BY <2>3, <2>4, HoldsSet
  <2>6. \A H \in SUBSET Layers : H \cup {action.to} \in SUBSET Layers
      BY <2>1
  <2> QED BY <1>2, <2>4, <2>5, <2>6 DEF HeldByKey, action
<1>3. CASE IsHold(action) /\ ~active
  <2>1. t = [s EXCEPT !.layerHolds = @ \/ changed]
      BY <1>3 DEF applyLayerHolds, IsHold
  <2> QED BY <1>3, <2>1, HoldsSet DEF HeldByKey
<1> QED BY <1>1, <1>2, <1>3


-----------------------------------------------------------------------------
(* The invariant.                                                          *)

\* The keys that this pass has looked at, or that the last one has.
Done == IF pc = MacrosTurn THEN keys.pressed ELSE {k \in keys.pressed : k < pc}

NothingSticks ==
    /\ Sound(layers)
    /\ Collected(layers, HeldFor(layers.keymap, Done))
    /\ Settled(layers, HeldFor(layers.keymap, keys.pressed))

LEMMA PassIs ==
    /\ MacrosTurn # 1 /\ ReportsTurn # MacrosTurn /\ \A key \in Keys : key # MacrosTurn
    /\ \A S \in SUBSET Keys : {k \in S : k < 1} = {} /\ {k \in S : k < ReportsTurn} = S
<1>1. \A k \in Keys : k \in Nat /\ k # 0 /\ ~(k < 1) /\ k < ReportsTurn
    BY KeysAre
<1>2. ReportsTurn # 0 /\ MacrosTurn = 0
    BY KeysAre
<1> QED BY <1>1, <1>2

LEMMA TypeOKIs ==
    TypeOK <=> /\ layers \in Switchers /\ MacrosTyped
               /\ keys \in [pressed : SUBSET Keys, cached : [Keys -> KeyActions], doubleTap : Keys \cup {NoKey}]
               /\ modifiers \subseteq ModifierLayers /\ pc \in MacrosTurn..ReportsTurn
BY DEF TypeOK, Switchers, Slots, MacrosTyped

LEMMA PressedAreKeys == TypeOK => keys.pressed \in SUBSET Keys /\ Done \in SUBSET Keys /\ layers.keymap \in Keymaps
BY TypeOKIs DEF Done, Switchers

\* NothingSticks after a step, in terms of the state after it.
LEMMA NothingSticksNext ==
    ASSUME modifiers' = modifiers, Sound(layers'), NEW done, done = Done',
           Collected(layers', HeldFor(layers'.keymap, done)),
           Settled(layers', HeldFor(layers'.keymap, keys'.pressed))
    PROVE  NothingSticks'
<1>1. Collected(layers, HeldFor(layers.keymap, Done))'
    BY DEF Collected, Left, HeldFor
<1>2. Settled(layers, HeldFor(layers.keymap, keys.pressed))'
    BY DEF Settled, Fits, Justified, HeldFor
<1>3. Sound(layers)'
    BY DEF Sound, Composed, RegularHolds, BaseIsHeld, Shown
<1> QED BY <1>1, <1>2, <1>3 DEF NothingSticks

\* A step that only changes the stack.
LEMMA StackStep ==
    ASSUME TypeOK, NEW L, Preserves(layers, layers', L), L \subseteq Regular, LayerKeysStay, NothingSticks,
           UNCHANGED <<keys, modifiers, pc>>
    PROVE  NothingSticks'
<1>1. layers' \in Switchers /\ layers'.keymap \in Keymaps /\ Done' = Done
    BY DEF Preserves, Switchers, Done
<1>2. HeldFor(layers'.keymap, Done) = HeldFor(layers.keymap, Done) /\ HeldFor(layers.keymap, Done) \in SUBSET Layers
    BY <1>1, HeldForIs, PressedAreKeys
<1>3. /\ HeldFor(layers'.keymap, keys.pressed) = HeldFor(layers.keymap, keys.pressed)
      /\ HeldFor(layers.keymap, keys.pressed) \in SUBSET Layers
    BY <1>1, HeldForIs, PressedAreKeys
<1>4. /\ Sound(layers')
      /\ Collected(layers', HeldFor(layers.keymap, Done))
      /\ Settled(layers', HeldFor(layers.keymap, keys.pressed))
    BY <1>2, <1>3 DEF Preserves, NothingSticks
<1> QED BY <1>1, <1>2, <1>3, <1>4, NothingSticksNext

LEMMA RunCommandKeeps ==
    ASSUME TypeOK, RunCommand
    PROVE  TypeOK' /\ (MacrosHoldRegularLayers /\ LayerKeysStay /\ NothingSticks => NothingSticks')
<1>1. Command(layers) /\ UNCHANGED <<keys, modifiers, pc>> /\ layers \in Switchers /\ MacrosTyped
    BY TypeOKIs DEF RunCommand
<1>2. MacrosTyped'
    BY <1>1, CommandPreserves
<1>3. PICK L : Preserves(layers, layers', L) /\ (MacrosHoldRegularLayers => L \subseteq Regular)
    BY <1>1, CommandPreserves
<1>4. TypeOK'
    BY <1>1, <1>2, <1>3, TypeOKIs DEF TypeOK, Switchers, Slots, MacrosTyped, Preserves
<1> QED BY <1>1, <1>3, <1>4, StackStep

LEMMA EndHoldKeeps ==
    ASSUME TypeOK, NEW m \in Macros, EndHold(m)
    PROVE  TypeOK' /\ (MacrosHoldRegularLayers /\ LayerKeysStay /\ NothingSticks => NothingSticks')
<1>1. Preserves(layers, layers', {})
    BY TypeOKIs, RemoveRecordPreserves DEF EndHold
<1>2. TypeOK'
    BY <1>1, TypeOKIs, Sizes DEF EndHold, TypeOK, Switchers, Slots, Preserves, NoSlot
<1>3. {} \subseteq Regular /\ UNCHANGED <<keys, modifiers, pc>>
    BY DEF EndHold
<1> QED BY <1>1, <1>2, <1>3, StackStep

\* The held layer is recomputed; afterwards it fits.
LEMMA Recomputed ==
    ASSUME NEW s \in Switchers, NEW t, t = UpdateActiveLayer(s)
    PROVE  /\ Sound(s) => Sound(t)
           /\ \A H \in SUBSET Layers : Collected(s, H) => Collected(t, H) /\ Settled(t, H)
<1>1. /\ t \in Switchers /\ SameStack(s, t)
      /\ t.heldLayers = s.heldLayers /\ t.nativeActions = s.nativeActions
      /\ t.layerHolds = FALSE /\ t.heldLayer = NextHeld(s)
      /\ NextHeld(s) = s.heldLayer => t.activeLayer = s.activeLayer /\ t.uncomposed = s.uncomposed
      /\ NextHeld(s) # s.heldLayer => t.activeLayer = Shown(t) /\ ~t.uncomposed
    BY UpdateActiveLayerIs
<1>2. /\ NextHeld(s) = LayerId_None => Relevant(s) = {}
      /\ NextHeld(s) # LayerId_None =>
            /\ NextHeld(s) \in Relevant(s)
            /\ IsModifierLayer(NextHeld(s)) => \A l \in Relevant(s) : IsModifierLayer(l)
      /\ s.heldLayer \in Relevant(s) /\ ~IsModifierLayer(s.heldLayer) => NextHeld(s) = s.heldLayer
    BY NextHeldIs
<1>3. Sound(s) => Sound(t)
  <2> SUFFICES ASSUME Sound(s) PROVE Sound(t)
      OBVIOUS
  <2>1. Composed(t)
    <3>1. CASE NextHeld(s) = s.heldLayer
      <4>1. Shown(t) = Shown(s)
          BY <1>1, <3>1 DEF Shown, SameStack
      <4> QED BY <1>1, <3>1, <4>1 DEF Sound, Composed
    <3>2. CASE NextHeld(s) # s.heldLayer
        BY <1>1, <3>2 DEF Composed
    <3> QED BY <3>1, <3>2
  <2>2. RegularHolds(t)
      BY <1>1 DEF Sound, RegularHolds, SameStack
  <2>3. BaseIsHeld(t)
    <3> SUFFICES ASSUME s.stackHeld, s.stackLayer = Base PROVE t.heldLayer = Base
        BY <1>1 DEF BaseIsHeld, SameStack
    <3>1. s.heldLayer = Base /\ Base \in Relevant(s) /\ ~IsModifierLayer(Base)
        BY LayersAre DEF Sound, BaseIsHeld, Relevant, MeetsHoldConditions, Base, IsModifierLayer, Shift
    <3> QED BY <1>1, <1>2, <3>1
  <2> QED BY <2>1, <2>2, <2>3 DEF Sound
<1>4. ASSUME NEW H \in SUBSET Layers, Collected(s, H) PROVE Collected(t, H) /\ Settled(t, H)
  <2>1. CASE Left(s)
    <3>1. s.heldLayer \in Relevant(s) /\ ~IsModifierLayer(s.heldLayer)
        BY <2>1 DEF Left, Relevant, MeetsHoldConditions, Regular
    <3>2. t.heldLayer = s.heldLayer /\ t.uncomposed = s.uncomposed
        BY <1>1, <1>2, <3>1
    <3>3. Left(t)
        BY <1>1, <2>1, <3>2 DEF Left, SameStack
    <3>4. Collected(t, H)
        BY <1>1, <1>4, <3>3 DEF Collected
    <3>5. t.heldLayer \in Regular /\ t.heldLayer # LayerId_None /\ ~IsModifierLayer(t.heldLayer)
        BY <3>3, LayersAre DEF Left, Regular
    <3>6. t.uncomposed \/ Fits(t, H)
        BY <3>3, <3>5 DEF Left, Fits, Justified, Regular
    <3> QED BY <3>4, <3>5, <3>6 DEF Settled
  <2>2. CASE s.heldLayers = H
    <3>1. Justified(t, H) = Relevant(s)
        BY <1>1, <2>2 DEF Justified, Relevant, MeetsHoldConditions, SameStack
    <3>2. Fits(t, H)
        BY <1>1, <1>2, <3>1 DEF Fits
    <3>3. Collected(t, H)
        BY <1>1, <2>2 DEF Collected
    <3> QED BY <3>2, <3>3 DEF Settled
  <2> QED BY <1>4, <2>1, <2>2 DEF Collected
<1> QED BY <1>3, <1>4

LEMMA handleLayerChangesKeeps ==
    ASSUME NEW s \in Switchers, NEW t, t = handleLayerChanges(s)
    PROVE  /\ t \in Switchers /\ (Sound(s) => Sound(t)) /\ t.keymap = s.keymap
           /\ \A H \in SUBSET Layers : Collected(s, H) /\ Settled(s, H) => Collected(t, H) /\ Settled(t, H)
<1>1. CASE s.layerHolds
    BY <1>1, Recomputed, UpdateActiveLayerIs DEF handleLayerChanges, SameStack
<1>2. CASE ~s.layerHolds
    BY <1>2 DEF handleLayerChanges
<1> QED BY <1>1, <1>2

LEMMA ResetHoldsKeeps ==
    ASSUME NEW s \in Switchers, NEW t, t = ResetHolds(s)
    PROVE  /\ t \in Switchers /\ (Sound(s) => Sound(t)) /\ t.keymap = s.keymap
           /\ Collected(t, {}) /\ \A H \in SUBSET Layers : Settled(s, H) => Settled(t, H)
<1>1. /\ t \in Switchers /\ SameStack(s, t) /\ t.heldLayers = {} /\ t.heldLayer = s.heldLayer
      /\ t.activeLayer = s.activeLayer /\ t.uncomposed = s.uncomposed /\ t.layerHolds = s.layerHolds
    BY DEF ResetHolds, SameStack, Switchers
<1>2. Shown(t) = Shown(s) /\ \A H : Justified(t, H) = Justified(s, H)
    BY <1>1 DEF Shown, SameStack, Justified
<1>3. Sound(s) => Sound(t)
    BY <1>1, <1>2 DEF Sound, Composed, RegularHolds, BaseIsHeld, SameStack
<1>4. \A H \in SUBSET Layers : Settled(s, H) => Settled(t, H)
    BY <1>1, <1>2 DEF Settled, Fits
<1> QED BY <1>1, <1>3, <1>4 DEF Collected, SameStack


LEMMA UpdateLayersKeeps ==
    ASSUME TypeOK, UpdateLayers
    PROVE  TypeOK' /\ (LayerKeysStay /\ NothingSticks => NothingSticks')
<1> DEFINE s == handleLayerChanges(layers)
           H == HeldFor(layers.keymap, keys.pressed)
<1>1. layers \in Switchers /\ pc = MacrosTurn /\ UNCHANGED <<keys, modifiers, holder, fresh, commands>>
    BY TypeOKIs DEF UpdateLayers
<1>2. /\ s \in Switchers /\ (Sound(layers) => Sound(s)) /\ s.keymap = layers.keymap
      /\ \A G \in SUBSET Layers : Collected(layers, G) /\ Settled(layers, G) => Collected(s, G) /\ Settled(s, G)
    BY <1>1, handleLayerChangesKeeps
<1>3. H \in SUBSET Layers /\ Done = keys.pressed
    BY <1>1, PressedAreKeys, HeldForIs DEF Done
<1> HIDE DEF s, H
<1>4. NothingSticks => Sound(s) /\ Collected(s, H) /\ Settled(s, H)
    BY <1>2, <1>3 DEF NothingSticks, H
<1>5. CASE layers' = ResetHolds(s) /\ pc' = 1
  <2>1. /\ layers' \in Switchers /\ (Sound(s) => Sound(layers')) /\ layers'.keymap = s.keymap
        /\ Collected(layers', {}) /\ \A G \in SUBSET Layers : Settled(s, G) => Settled(layers', G)
      BY <1>2, <1>5, ResetHoldsKeeps
  <2>2. TypeOK'
      BY <1>1, <1>5, <2>1, TypeOKIs, KeysAre DEF TypeOK, Switchers, Slots
  <2>3. Done' = {}
      BY <1>1, <1>5, PassIs, PressedAreKeys DEF Done
  <2>4. HeldFor(layers'.keymap, {}) = {} /\ HeldFor(layers'.keymap, keys'.pressed) = H
      BY <1>1, <1>2, <2>1 DEF HeldFor, H
  <2>5. NothingSticks => Sound(layers') /\ Collected(layers', HeldFor(layers'.keymap, {})) /\ Settled(layers', H)
      BY <1>3, <1>4, <2>1, <2>4
  <2>6. NothingSticks => NothingSticks'
      BY <1>1, <2>3, <2>4, <2>5, NothingSticksNext
  <2> QED BY <2>2, <2>6
<1>6. CASE layers' = s /\ pc' = ReportsTurn
  <2>1. TypeOK'
      BY <1>1, <1>2, <1>6, TypeOKIs, KeysAre DEF TypeOK, Switchers, Slots
  <2>2. Done' = keys.pressed
      BY <1>1, <1>6, PassIs, PressedAreKeys DEF Done
  <2>3. HeldFor(layers'.keymap, keys'.pressed) = H /\ HeldFor(layers'.keymap, Done') = H
      BY <1>1, <1>2, <1>6, <2>2 DEF H
  <2>4. NothingSticks => Sound(layers') /\ Collected(layers', H) /\ Settled(layers', H)
      BY <1>4, <1>6
  <2>5. NothingSticks => NothingSticks'
      BY <1>1, <2>3, <2>4, NothingSticksNext
  <2> QED BY <2>1, <2>5
<1> QED BY <1>5, <1>6 DEF UpdateLayers, s

LEMMA MergeReportsKeeps ==
    ASSUME TypeOK, MergeReports
    PROVE  TypeOK' /\ (NothingSticks => NothingSticks')
<1>1. /\ layers \in Switchers /\ pc = ReportsTurn /\ pc' = MacrosTurn /\ keys' = keys
      /\ modifiers' \in SUBSET ModifierLayers
      /\ layers' = [layers EXCEPT !.layerHolds = @ \/ modifiers' # modifiers]
    BY TypeOKIs DEF MergeReports
<1>2. /\ layers' \in Switchers /\ SameStack(layers, layers') /\ layers'.heldLayers = layers.heldLayers
      /\ layers'.heldLayer = layers.heldLayer /\ layers'.activeLayer = layers.activeLayer
      /\ layers'.uncomposed = layers.uncomposed
      /\ layers'.layerHolds <=> layers.layerHolds \/ modifiers' # modifiers
    BY <1>1 DEF SameStack, Switchers
<1>3. TypeOK'
  <2>1. MacrosTyped' /\ pc' \in MacrosTurn..ReportsTurn
      BY <1>1, TypeOKIs, KeysAre DEF MergeReports, MacrosTyped
  <2> QED BY <1>1, <1>2, <2>1, TypeOKIs DEF TypeOK, Switchers, Slots, MacrosTyped
<1>4. Done = keys.pressed /\ Done' = keys.pressed
    BY <1>1, PassIs, PressedAreKeys DEF Done
<1>5. ASSUME NothingSticks PROVE NothingSticks'
  <2>1. Sound(layers)'
      BY <1>2, <1>5 DEF NothingSticks, Sound, Composed, RegularHolds, BaseIsHeld, SameStack, Shown
  <2>2. Collected(layers, HeldFor(layers.keymap, Done))'
      BY <1>1, <1>2, <1>4, <1>5 DEF NothingSticks, Collected, Left, SameStack, HeldFor
  <2>3. Settled(layers, HeldFor(layers.keymap, keys.pressed))'
    <3>1. CASE layers'.layerHolds
        BY <3>1 DEF Settled
    <3>2. CASE ~layers'.layerHolds
        BY <1>1, <1>2, <1>5, <3>2 DEF NothingSticks, Settled, Fits, Justified, SameStack, HeldFor
    <3> QED BY <3>1, <3>2
  <2> QED BY <2>1, <2>2, <2>3 DEF NothingSticks
<1> QED BY <1>3, <1>5

LEMMA UpdateKeyKeeps ==
    ASSUME TypeOK, NEW key \in Keys, UpdateKey(key)
    PROVE  TypeOK' /\ (MacrosHoldRegularLayers /\ LayerKeysStay /\ NothingSticks => NothingSticks')
<1>1. PICK active \in BOOLEAN, doubleTapped \in BOOLEAN :
        LET changed == active # (key \in keys.pressed)
            activated == changed /\ active
            action == IF activated THEN ActionOf(layers, key) ELSE keys.cached[key]
            doubleTap == IF ~activated THEN keys.doubleTap
                         ELSE IF action.type = "holdAndDoubleTapToggle" THEN key
                         ELSE IF layers.size = 1 /\ keys.doubleTap # key THEN NoKey ELSE keys.doubleTap
            s == applyLayerHolds(layers, key, active, changed)
        IN /\ pc = key
           /\ pc' = key + 1
           /\ keys' = [pressed |-> IF active THEN keys.pressed \cup {key} ELSE keys.pressed \ {key},
                       cached |-> [keys.cached EXCEPT ![key] = IF active THEN action ELSE [type |-> "none", to |-> Base]],
                       doubleTap |-> doubleTap]
           /\ IF activated /\ action.type = "macro" THEN Command(s)
              ELSE /\ layers' = IF changed THEN ApplyKeyAction(s, key, action, activated, doubleTapped) ELSE s
                   /\ UNCHANGED <<holder, fresh, commands>>
           /\ UNCHANGED modifiers
    BY DEF UpdateKey
<1> DEFINE changed == active # (key \in keys.pressed)
           activated == changed /\ active
           action == IF activated THEN ActionOf(layers, key) ELSE keys.cached[key]
           doubleTap == IF ~activated THEN keys.doubleTap
                        ELSE IF action.type = "holdAndDoubleTapToggle" THEN key
                        ELSE IF layers.size = 1 /\ keys.doubleTap # key THEN NoKey ELSE keys.doubleTap
           s == applyLayerHolds(layers, key, active, changed)
           pressed == IF active THEN keys.pressed \cup {key} ELSE keys.pressed \ {key}
           hold == Actions[layers.keymap][Base][key]
           H == HeldFor(layers.keymap, Done)
           G == HeldFor(layers.keymap, keys.pressed)
           taken == IF active /\ IsHold(hold) THEN {hold.to} ELSE {}
<1>2. /\ layers \in Switchers /\ MacrosTyped /\ pc = key /\ pc' = key + 1 /\ modifiers' = modifiers
      /\ keys' = [pressed |-> pressed,
                  cached |-> [keys.cached EXCEPT ![key] = IF active THEN action ELSE [type |-> "none", to |-> Base]],
                  doubleTap |-> doubleTap]
    BY <1>1, TypeOKIs, Zenon
<1>3. IF activated /\ action.type = "macro" THEN Command(s)
      ELSE /\ layers' = IF changed THEN ApplyKeyAction(s, key, action, activated, doubleTapped) ELSE s
           /\ UNCHANGED <<holder, fresh, commands>>
    BY <1>1, Zenon
<1>4. changed \in BOOLEAN /\ activated \in BOOLEAN
    OBVIOUS
<1>5. keys.pressed \in SUBSET Keys /\ keys.cached \in [Keys -> KeyActions] /\ keys.doubleTap \in Keys \cup {NoKey}
      /\ layers.keymap \in Keymaps /\ layers.activeLayer \in Layers
    BY TypeOKIs DEF Switchers
<1>6. action \in KeyActions
    BY <1>5, ActionsAre, LayersAre DEF ActionOf
<1>7. IF IsHold(hold) THEN HeldByKey(layers, s, hold.to, active, changed) ELSE s = layers
  <2>1. ASSUME NEW c \in BOOLEAN
        PROVE  IF IsHold(hold) THEN HeldByKey(layers, applyLayerHolds(layers, key, active, c), hold.to, active, c)
               ELSE applyLayerHolds(layers, key, active, c) = layers
      BY <1>2, LayerHoldsKeep, Zenon
  <2> HIDE DEF changed
  <2> QED BY <1>4, <2>1, Zenon DEF s
<1>8. H \in SUBSET Layers /\ G \in SUBSET Layers
    BY PressedAreKeys, HeldForIs
<1>9. pressed \in SUBSET Keys /\ doubleTap \in Keys \cup {NoKey}
    BY <1>5
<1>10. keys' \in [pressed : SUBSET Keys, cached : [Keys -> KeyActions], doubleTap : Keys \cup {NoKey}]
       /\ keys'.pressed = pressed
    BY <1>2, <1>5, <1>6, <1>9, ActionsAre
<1> HIDE DEF changed, s, action, doubleTap, pressed
\* The key is looked at.
<1>11. /\ s \in Switchers /\ (Sound(layers) => Sound(s))
       /\ Collected(layers, H) => Collected(s, H \cup taken)
  <2>1. CASE IsHold(hold)
      BY <1>7, <1>8, <2>1 DEF HeldByKey
  <2>2. CASE ~IsHold(hold)
      BY <1>2, <1>7, <2>2
  <2> QED BY <2>1, <2>2
<1>12. H \cup taken \in SUBSET Layers
    BY <1>5, <1>8, ActionsAre, LayersAre DEF IsHold
<1>13. Done' \in SUBSET Keys /\ HeldFor(layers.keymap, Done') = H \cup taken
  <2>1. key \in Nat /\ key # 0 /\ \A k \in Keys : k \in Nat /\ (k < key + 1 <=> k < key \/ k = key) /\ ~(key < key)
      BY KeysAre
  <2>2. Done = {k \in keys.pressed : k < key}
      BY <1>2, <2>1, KeysAre DEF Done
  <2>3. Done' = {k \in pressed : k < key + 1}
      BY <1>2, <1>10, <2>1, KeysAre DEF Done
  <2>4. Done' = IF active THEN Done \cup {key} ELSE Done
      BY <1>5, <2>1, <2>2, <2>3 DEF pressed
  <2>5. Done \in SUBSET Keys
      BY PressedAreKeys
  <2>6. HeldFor(layers.keymap, Done \cup {key}) = H \cup (IF IsHold(hold) THEN {hold.to} ELSE {})
      BY <1>5, <2>5, HeldForGrows
  <2> QED BY <2>4, <2>5, <2>6
<1>14. Settled(layers, G) => Settled(s, HeldFor(layers.keymap, pressed))
  <2>1. CASE ~IsHold(hold)
    <3>1. HeldFor(layers.keymap, pressed) = G
      <4>1. \A k \in Keys : IsHold(Actions[layers.keymap][Base][k]) => (k \in pressed <=> k \in keys.pressed)
          BY <2>1 DEF pressed
      <4>2. {k \in pressed : IsHold(Actions[layers.keymap][Base][k])} = {k \in keys.pressed : IsHold(Actions[layers.keymap][Base][k])}
          BY <1>5, <1>9, <4>1
      <4> QED BY <4>2 DEF HeldFor
    <3> QED BY <1>7, <2>1, <3>1
  <2>2. CASE IsHold(hold) /\ changed
      BY <1>7, <2>2 DEF HeldByKey, Settled
  <2>3. CASE IsHold(hold) /\ ~changed
    <3>1. pressed = keys.pressed /\ (active <=> key \in keys.pressed)
        BY <2>3 DEF pressed, changed
    <3>2. active => hold.to \in G
        BY <2>3, <3>1 DEF HeldFor
    <3> QED BY <1>7, <1>8, <2>3, <3>1, <3>2 DEF HeldByKey
  <2> QED BY <2>1, <2>2, <2>3
\* Its action is applied.
<1>15. MacrosTyped' /\ \E L : Preserves(s, layers', L) /\ (MacrosHoldRegularLayers => L \subseteq Regular)
  <2>1. CASE activated /\ action.type = "macro"
      BY <1>2, <1>3, <1>11, <2>1, CommandPreserves
  <2>2. CASE ~(activated /\ action.type = "macro")
    <3>1. UNCHANGED <<holder, fresh>>
        BY <1>3, <2>2
    <3>2. CASE changed
      <4>1. layers' = ApplyKeyAction(s, key, action, activated, doubleTapped)
          BY <1>3, <2>2, <3>2
      <4>2. Preserves(s, layers', {})
          BY <1>4, <1>6, <1>11, <4>1, KeyActionPreserves, Zenon
      <4> QED BY <1>2, <3>1, <4>2 DEF MacrosTyped
    <3>3. CASE ~changed
      <4>1. layers' = s
          BY <1>3, <2>2, <3>3
      <4> QED BY <1>2, <1>11, <3>1, <4>1, PreservesIsReflexive DEF MacrosTyped
    <3> QED BY <3>2, <3>3
  <2> QED BY <2>1, <2>2
<1>16. PICK L : Preserves(s, layers', L) /\ (MacrosHoldRegularLayers => L \subseteq Regular)
    BY <1>15
<1>17. TypeOK'
  <2>1. layers' \in Switchers
      BY <1>16 DEF Preserves
  <2>2. pc' \in MacrosTurn..ReportsTurn
      BY <1>2, KeysAre
  <2> QED BY <1>2, <1>10, <1>15, <2>1, <2>2, TypeOKIs DEF TypeOK, Switchers, Slots, MacrosTyped
<1>18. ASSUME MacrosHoldRegularLayers, LayerKeysStay, NothingSticks PROVE NothingSticks'
  <2>1. layers'.keymap \in Keymaps
      BY <1>16 DEF Preserves, Switchers
  <2>2. /\ HeldFor(layers'.keymap, Done') = H \cup taken
        /\ HeldFor(layers'.keymap, pressed) = HeldFor(layers.keymap, pressed)
        /\ HeldFor(layers.keymap, pressed) \in SUBSET Layers
      BY <1>5, <1>9, <1>13, <1>18, <2>1, HeldForIs
  <2>3. Sound(s) /\ Collected(s, H \cup taken) /\ Settled(s, HeldFor(layers.keymap, pressed))
      BY <1>11, <1>14, <1>18 DEF NothingSticks
  <2>4. Sound(layers') /\ Collected(layers', H \cup taken) /\ Settled(layers', HeldFor(layers.keymap, pressed))
      BY <1>12, <1>16, <1>18, <2>2, <2>3 DEF Preserves
  <2> QED BY <1>2, <1>10, <2>2, <2>4, NothingSticksNext
<1> QED BY <1>17, <1>18

LEMMA InitKeeps ==
    ASSUME Init
    PROVE  TypeOK /\ NothingSticks
<1>1. PICK k \in Keymaps :
         LET zero == [stack |-> [i \in 0..(LAYER_STACK_SIZE - 1) |-> Unused], topIdx |-> 0, size |-> 0, keymap |-> k,
                      stackLayer |-> Base, stackHeld |-> FALSE, heldLayers |-> {}, heldLayer |-> LayerId_None,
                      activeLayer |-> Base, layerHolds |-> FALSE, nativeActions |-> FALSE, uncomposed |-> FALSE]
         IN layers = Reset(zero)
    BY DEF Init
<1> DEFINE stack == [j \in Slots |-> IF j = 0 THEN BaseRecord(k) ELSE Unused]
<1>2. layers = [stack |-> stack, topIdx |-> 0, size |-> 1, keymap |-> k,
                stackLayer |-> Base, stackHeld |-> FALSE, heldLayers |-> {}, heldLayer |-> LayerId_None,
                activeLayer |-> Base, layerHolds |-> FALSE, nativeActions |-> FALSE, uncomposed |-> FALSE]
    BY <1>1 DEF Reset, BaseRecord, Slots
<1>3. stack \in [Slots -> Record] /\ \A i \in Slots : ~stack[i].held
    BY UnusedIsRecord, LayersAre DEF BaseRecord, Record
<1>4. 0 \in Slots /\ 1 \in 1..(LAYER_STACK_SIZE - 1) /\ NoSlot \in 0..NoSlot
    BY Sizes DEF Slots, NoSlot
<1> HIDE DEF stack
<1>5. layers \in Switchers
    BY <1>2, <1>3, <1>4, LayersAre DEF Switchers
<1>6. /\ keys = [pressed |-> {}, cached |-> [key \in Keys |-> [type |-> "none", to |-> Base]], doubleTap |-> NoKey]
      /\ modifiers = {} /\ fresh = {} /\ pc = MacrosTurn
      /\ holder = [m \in Macros |-> NoSlot]
    BY DEF Init
<1>7. keys \in [pressed : SUBSET Keys, cached : [Keys -> KeyActions], doubleTap : Keys \cup {NoKey}]
    BY <1>6, ActionsAre
<1>8. TypeOK
    BY <1>4, <1>5, <1>6, <1>7, KeysAre, TypeOKIs DEF MacrosTyped
<1>9. HeldFor(layers.keymap, keys.pressed) = {} /\ Done = keys.pressed
    BY <1>6 DEF HeldFor, Done
<1>10. NothingSticks
    BY <1>2, <1>3, <1>6, <1>9 DEF NothingSticks, Sound, Composed, RegularHolds, BaseIsHeld, Shown, Collected, Settled, Fits, Justified
<1> QED BY <1>8, <1>10

LEMMA NextKeeps ==
    ASSUME TypeOK, [Next]_vars
    PROVE  TypeOK' /\ (MacrosHoldRegularLayers /\ LayerKeysStay /\ NothingSticks => NothingSticks')
<1>1. CASE RunCommand
    BY <1>1, RunCommandKeeps
<1>2. ASSUME NEW m \in Macros, EndHold(m)
      PROVE  TypeOK' /\ (MacrosHoldRegularLayers /\ LayerKeysStay /\ NothingSticks => NothingSticks')
    BY <1>2, EndHoldKeeps
<1>3. CASE UpdateLayers
    BY <1>3, UpdateLayersKeeps
<1>4. ASSUME NEW key \in Keys, UpdateKey(key)
      PROVE  TypeOK' /\ (MacrosHoldRegularLayers /\ LayerKeysStay /\ NothingSticks => NothingSticks')
    BY <1>4, UpdateKeyKeeps
<1>5. CASE MergeReports
    BY <1>5, MergeReportsKeeps
<1>6. CASE UNCHANGED vars
    BY <1>6 DEF vars, TypeOK, NothingSticks, Sound, Composed, RegularHolds, BaseIsHeld, Shown, Collected, Left,
                Settled, Fits, Justified, HeldFor, Done
<1> QED BY <1>1, <1>2, <1>3, <1>4, <1>5, <1>6 DEF Next

\* The layer stack, the layer switcher, the cached actions of the keys and the
\* slots that macros remember are well-formed (layer_stack.c, layer_switcher.c).
THEOREM TypeCorrect == Spec => []TypeOK
<1>1. Init => TypeOK
    BY InitKeeps
<1>2. TypeOK /\ [Next]_vars => TypeOK'
    BY NextKeeps
<1> QED BY <1>1, <1>2, PTL DEF Spec

\* At rest the active layer is wanted.
LEMMA RestIsWanted ==
    ASSUME TypeOK, NothingSticks
    PROVE  NoStuckLayer
<1> SUFFICES ASSUME AtRest, ~layers.uncomposed PROVE layers.activeLayer \in Wanted
    BY DEF NoStuckLayer
<1> DEFINE H == HeldFor(layers.keymap, keys.pressed)
<1>1. H = HeldByKeys
    BY DEF HeldFor, HeldByKeys, IsHold
<1> HIDE DEF H
<1>2. Sound(layers) /\ Settled(layers, H) /\ ~layers.layerHolds
    BY DEF NothingSticks, H, AtRest
<1>3. layers.activeLayer = Shown(layers) /\ Fits(layers, H)
    BY <1>2 DEF Sound, Composed, Settled
<1>4. CASE layers.stackLayer # Base \/ layers.stackHeld
  <2>1. Shown(layers) = layers.stackLayer
    <3>1. CASE layers.stackLayer # Base
        BY <3>1 DEF Shown
    <3>2. CASE layers.stackLayer = Base /\ layers.stackHeld
        BY <1>2, <3>2, LayersAre DEF Shown, Sound, BaseIsHeld
    <3> QED BY <1>4, <3>1, <3>2
  <2> QED BY <1>3, <1>4, <2>1 DEF Wanted
<1>5. CASE layers.stackLayer = Base /\ ~layers.stackHeld
  <2>1. H \in SUBSET Layers /\ modifiers \subseteq Layers /\ \A l \in modifiers : IsModifierLayer(l)
      BY PressedAreKeys, HeldForIs, TypeOKIs DEF H, ModifierLayers
  <2>2. Justified(layers, H) = H \cup modifiers
      BY <1>5, <2>1 DEF Justified
  <2>3. Shown(layers) = IF layers.heldLayer # LayerId_None THEN layers.heldLayer ELSE Base
      BY <1>5 DEF Shown
  <2>4. Wanted = IF {l \in H : ~IsModifierLayer(l)} # {} THEN {l \in H : ~IsModifierLayer(l)}
                 ELSE IF H \cup modifiers # {} THEN H \cup modifiers ELSE {Base}
      BY <1>1, <1>5 DEF Wanted
  <2> QED BY <1>3, <2>1, <2>2, <2>3, <2>4 DEF Fits
<1> QED BY <1>4, <1>5

\* NoStuckLayer for every keymap in which the keys that hold layers have the same
\* places and the macros hold no layers of modifiers.  The held layer fits what
\* is held, or comes from a hold that may be over, until the next recomputation
\* (LayerSwitcher_UpdateActiveLayer, LayerSwitcher_HoldLayer, activateLayer).
THEOREM NoLayerSticks ==
    ASSUME MacrosHoldRegularLayers, LayerKeysStay
    PROVE  Spec => []NoStuckLayer
<1> DEFINE IInv == TypeOK /\ NothingSticks
<1>1. Init => IInv
    BY InitKeeps
<1>2. IInv /\ [Next]_vars => IInv'
    BY NextKeeps
<1>3. IInv => NoStuckLayer
    BY RestIsWanted
<1> QED BY <1>1, <1>2, <1>3, PTL DEF Spec

-----------------------------------------------------------------------------
(* The layers that a sequence of records keeps.                            *)

Entries == [layer : Layers, keymap : Keymaps, owner : Macros \cup {Stopped, NoMacro}]
EntryOf(r) == [layer |-> r.layer, keymap |-> r.keymap, owner |-> r.owner]

LEMMA EntryOfIs == \A r \in Record : EntryOf(r) \in Entries
BY DEF EntryOf, Entries, Record

LEMMA InductionOverSet ==
    ASSUME NEW S, 0 \in S, \A i \in Nat : i \in S => i + 1 \in S
    PROVE  Nat \subseteq S
<1> SUFFICES ASSUME Nat \ S # {} PROVE FALSE
    OBVIOUS
<1>1. Min(Nat \ S) \in Nat \ S /\ \A y \in Nat \ S : Min(Nat \ S) <= y
    BY LeastNumber
<1> DEFINE x == Min(Nat \ S)
<1> HIDE DEF x
<1>2. x \in Nat \ S /\ \A y \in Nat \ S : x <= y
    BY <1>1 DEF x
<1>3. x # 0
    BY <1>2
<1>4. x - 1 \in Nat /\ ~(x <= x - 1) /\ (x - 1) + 1 = x
    BY <1>2, <1>3
<1> QED BY <1>2, <1>4

LEMMA PrefixIs ==
    ASSUME NEW T, NEW q \in Seq(T), NEW m \in Nat, m <= Len(q)
    PROVE  SubSeq(q, 1, m) \in Seq(T) /\ Len(SubSeq(q, 1, m)) = m /\ \A i \in 1..m : SubSeq(q, 1, m)[i] = q[i]
OBVIOUS

\* The last element of a sequence, and what is before it.
LEMMA LastSplit ==
    ASSUME NEW T, NEW q \in Seq(T), q # <<>>
    PROVE  /\ SubSeq(q, 1, Len(q) - 1) \in Seq(T) /\ q[Len(q)] \in T
           /\ Len(SubSeq(q, 1, Len(q) - 1)) = Len(q) - 1 /\ Len(q) \in Nat \ {0}
           /\ q = Append(SubSeq(q, 1, Len(q) - 1), q[Len(q)])
<1>1. Len(q) \in Nat \ {0} /\ \A i \in 1..Len(q) : q[i] \in T
    BY EmptySeq, LenProperties
<1> DEFINE c == SubSeq(q, 1, Len(q) - 1)
<1>2. c \in Seq(T) /\ Len(c) = Len(q) - 1 /\ \A i \in 1..(Len(q) - 1) : c[i] = q[i]
  <2>1. Len(q) - 1 \in Nat /\ Len(q) - 1 <= Len(q)
      BY <1>1
  <2> QED BY <2>1, PrefixIs, Zenon
<1> HIDE DEF c
<1>3. /\ Append(c, q[Len(q)]) \in Seq(T) /\ Len(Append(c, q[Len(q)])) = Len(q)
      /\ \A i \in 1..Len(q) : Append(c, q[Len(q)])[i] = q[i]
    BY <1>1, <1>2
<1>4. q = Append(c, q[Len(q)])
    BY <1>3, SeqEqual
<1> QED BY <1>1, <1>2, <1>4 DEF c

LEMMA SeqInduction ==
    ASSUME NEW T, NEW S, <<>> \in S, \A q \in Seq(T), r \in T : q \in S => Append(q, r) \in S
    PROVE  Seq(T) \subseteq S
<1> DEFINE N == {n \in Nat : \A q \in Seq(T) : Len(q) = n => q \in S}
<1>1. 0 \in N
    BY EmptySeq
<1>2. ASSUME NEW n \in Nat, n \in N PROVE n + 1 \in N
  <2> SUFFICES ASSUME NEW q \in Seq(T), Len(q) = n + 1 PROVE q \in S
      OBVIOUS
  <2>1. q # <<>>
      BY EmptySeq
  <2>2. /\ SubSeq(q, 1, Len(q) - 1) \in Seq(T) /\ q[Len(q)] \in T /\ Len(SubSeq(q, 1, Len(q) - 1)) = n
        /\ q = Append(SubSeq(q, 1, Len(q) - 1), q[Len(q)])
      BY <2>1, LastSplit
  <2>3. SubSeq(q, 1, Len(q) - 1) \in S
      BY <1>2, <2>2
  <2> QED BY <2>2, <2>3
<1> HIDE DEF N
<1>3. Nat \subseteq N
    BY <1>1, <1>2, InductionOverSet
<1> QED BY <1>3, LenProperties DEF N

Step(q, w, i) ==
    IF i = 0 THEN <<>>
    ELSE IF q[i].removed THEN w[i - 1]
    ELSE Append(w[i - 1], EntryOf(q[i]))
WalksTo(q, n, w) == w = [i \in 0..n |-> Step(q, w, i)]
Walks(q, w) == WalksTo(q, Len(q), w)

LEMMA WalkExists ==
    ASSUME NEW q, Len(q) \in Nat
    PROVE  \E w : Walks(q, w)
<1> DEFINE S == {n \in Nat : \E f : WalksTo(q, n, f)}
<1>1. 0 \in S
  <2> DEFINE f == [i \in 0..0 |-> <<>>]
  <2>1. WalksTo(q, 0, f)
      BY DEF WalksTo, Step
  <2> QED BY <2>1, Zenon
<1>2. ASSUME NEW n \in Nat, n \in S PROVE n + 1 \in S
  <2>1. PICK f : WalksTo(q, n, f)
      BY <1>2
  <2> DEFINE g == [i \in 0..(n + 1) |-> Step(q, f, i)]
  <2>2. \A i \in 0..n : g[i] = f[i]
    <3>1. \A i \in 0..n : f[i] = Step(q, f, i)
        BY <2>1 DEF WalksTo
    <3> QED BY <3>1
  <2>3. \A i \in 0..(n + 1) : Step(q, f, i) = Step(q, g, i)
    <3> SUFFICES ASSUME NEW i \in 0..(n + 1) PROVE Step(q, f, i) = Step(q, g, i)
        OBVIOUS
    <3>1. i # 0 => g[i - 1] = f[i - 1]
      <4>1. i # 0 => i - 1 \in 0..n
          OBVIOUS
      <4> HIDE DEF g
      <4> QED BY <2>2, <4>1
    <3> HIDE DEF g
    <3> QED BY <3>1 DEF Step
  <2>4. WalksTo(q, n + 1, g)
    <3>1. g = [i \in 0..(n + 1) |-> Step(q, f, i)]
        OBVIOUS
    <3> HIDE DEF g
    <3> QED BY <2>3, <3>1 DEF WalksTo
  <2> HIDE DEF g
  <2> QED BY <2>4
<1> HIDE DEF S
<1>3. Len(q) \in S
    BY <1>1, <1>2, InductionOverSet
<1> QED BY <1>3 DEF S, Walks

LEMMA KeptWalks ==
    ASSUME NEW q, Len(q) \in Nat
    PROVE  \E w : Walks(q, w) /\ Kept(q) = w[Len(q)]
<1> DEFINE w == CHOOSE v : Walks(q, v)
<1>1. Walks(q, w)
    BY WalkExists, Zenon
<1>2. Kept(q) = w[Len(q)]
    BY DEF Kept, Walks, WalksTo, Step, EntryOf
<1> HIDE DEF w
<1> QED BY <1>1, <1>2

LEMMA WalksAgree ==
    ASSUME NEW p, NEW q, NEW v, NEW w, Walks(p, v), Walks(q, w),
           Len(p) \in Nat, Len(q) \in Nat, NEW n \in Nat, n <= Len(p), n <= Len(q),
           \A i \in 1..n : p[i] = q[i]
    PROVE  v[n] = w[n]
<1> DEFINE S == {i \in Nat : i <= n => v[i] = w[i]}
<1>0. /\ \A i \in 0..Len(p) : v[i] = IF i = 0 THEN <<>> ELSE IF p[i].removed THEN v[i - 1] ELSE Append(v[i - 1], EntryOf(p[i]))
      /\ \A i \in 0..Len(q) : w[i] = IF i = 0 THEN <<>> ELSE IF q[i].removed THEN w[i - 1] ELSE Append(w[i - 1], EntryOf(q[i]))
    BY DEF Walks, WalksTo, Step
<1>1. 0 \in S
    BY <1>0
<1>2. ASSUME NEW i \in Nat, i \in S PROVE i + 1 \in S
  <2> SUFFICES ASSUME i + 1 <= n PROVE v[i + 1] = w[i + 1]
      OBVIOUS
  <2>1. v[i] = w[i] /\ i + 1 \in 1..n /\ i + 1 \in 0..Len(p) /\ i + 1 \in 0..Len(q) /\ (i + 1) - 1 = i /\ i + 1 # 0
      BY <1>2
  <2>2. p[i + 1] = q[i + 1]
      BY <2>1
  <2>3. /\ v[i + 1] = IF p[i + 1].removed THEN v[i] ELSE Append(v[i], EntryOf(p[i + 1]))
        /\ w[i + 1] = IF q[i + 1].removed THEN w[i] ELSE Append(w[i], EntryOf(q[i + 1]))
      BY <1>0, <2>1
  <2> QED BY <2>1, <2>2, <2>3
<1> HIDE DEF S
<1>3. n \in S
    BY <1>1, <1>2, InductionOverSet
<1> QED BY <1>3 DEF S

\* One record after the other.
LEMMA KeptIs ==
    /\ Kept(<<>>) = <<>>
    /\ \A q \in Seq(Record), r \in Record :
          Kept(Append(q, r)) = IF r.removed THEN Kept(q) ELSE Append(Kept(q), EntryOf(r))
<1>1. Kept(<<>>) = <<>>
  <2>1. PICK w : Walks(<<>>, w) /\ Kept(<<>>) = w[Len(<<>>)]
      BY KeptWalks
  <2> QED BY <2>1 DEF Walks, WalksTo, Step
<1>2. ASSUME NEW q \in Seq(Record), NEW r \in Record
      PROVE  Kept(Append(q, r)) = IF r.removed THEN Kept(q) ELSE Append(Kept(q), EntryOf(r))
  <2> DEFINE p == Append(q, r)
             n == Len(q)
  <2>1. n \in Nat /\ Len(p) = n + 1 /\ p[n + 1] = r /\ \A i \in 1..n : p[i] = q[i]
      BY LenProperties
  <2> HIDE DEF p
  <2>2. PICK v : Walks(p, v) /\ Kept(p) = v[n + 1]
      BY <2>1, KeptWalks
  <2>3. PICK w : Walks(q, w) /\ Kept(q) = w[n]
      BY <2>1, KeptWalks
  <2>4. v[n] = w[n]
      BY <2>1, <2>2, <2>3, WalksAgree
  <2>5. v[n + 1] = IF p[n + 1].removed THEN v[n] ELSE Append(v[n], EntryOf(p[n + 1]))
    <3>1. n + 1 \in 0..Len(p) /\ (n + 1) - 1 = n /\ n + 1 # 0
        BY <2>1
    <3>2. \A i \in 0..Len(p) : v[i] = IF i = 0 THEN <<>> ELSE IF p[i].removed THEN v[i - 1] ELSE Append(v[i - 1], EntryOf(p[i]))
        BY <2>2 DEF Walks, WalksTo, Step
    <3> QED BY <3>1, <3>2
  <2> QED BY <2>1, <2>2, <2>3, <2>4, <2>5 DEF p
<1> QED BY <1>1, <1>2

LEMMA KeptType == \A q \in Seq(Record) : Kept(q) \in Seq(Entries)
<1> DEFINE S == {q \in Seq(Record) : Kept(q) \in Seq(Entries)}
<1>1. <<>> \in S
  <2>1. Kept(<<>>) = <<>>
      BY KeptIs
  <2> QED BY <2>1, EmptySeq
<1>2. ASSUME NEW q \in Seq(Record), NEW r \in Record, q \in S PROVE Append(q, r) \in S
    BY <1>2, KeptIs, EntryOfIs
<1> HIDE DEF S
<1>3. Seq(Record) \subseteq S
    BY <1>1, <1>2, SeqInduction
<1> QED BY <1>3 DEF S

LEMMA AppendConcat ==
    ASSUME NEW T, NEW a \in Seq(T), NEW b \in Seq(T), NEW e \in T
    PROVE  a \o Append(b, e) = Append(a \o b, e)
OBVIOUS

LEMMA KeptConcat ==
    ASSUME NEW a \in Seq(Record), NEW b \in Seq(Record)
    PROVE  Kept(a \o b) = Kept(a) \o Kept(b)
<1> DEFINE S == {q \in Seq(Record) : Kept(a \o q) = Kept(a) \o Kept(q)}
<1>1. <<>> \in S
    BY KeptIs, KeptType, ConcatEmptySeq
<1>2. ASSUME NEW q \in Seq(Record), NEW r \in Record, q \in S PROVE Append(q, r) \in S
  <2>1. Append(q, r) \in Seq(Record) /\ a \o q \in Seq(Record) /\ Kept(a) \in Seq(Entries) /\ Kept(q) \in Seq(Entries)
      BY KeptType, ConcatProperties
  <2>2. a \o Append(q, r) = Append(a \o q, r)
      BY AppendConcat
  <2>3. Kept(a \o Append(q, r)) = IF r.removed THEN Kept(a \o q) ELSE Append(Kept(a \o q), EntryOf(r))
      BY <2>1, <2>2, KeptIs
  <2>4. Kept(Append(q, r)) = IF r.removed THEN Kept(q) ELSE Append(Kept(q), EntryOf(r))
      BY KeptIs
  <2>5. Kept(a \o q) = Kept(a) \o Kept(q)
      BY <1>2
  <2>6. Kept(a) \o Append(Kept(q), EntryOf(r)) = Append(Kept(a) \o Kept(q), EntryOf(r))
      BY <2>1, EntryOfIs, AppendConcat
  <2>7. Kept(a \o Append(q, r)) = Kept(a) \o Kept(Append(q, r))
      BY <2>3, <2>4, <2>5, <2>6
  <2> QED BY <2>1, <2>7
<1> HIDE DEF S
<1>3. Seq(Record) \subseteq S
    BY <1>1, <1>2, SeqInduction
<1> QED BY <1>3 DEF S

\* Where the kept layers come from.
LEMMA KeptFrom ==
    \A q \in Seq(Record) : \A j \in 1..Len(Kept(q)) :
        \E i \in 1..Len(q) : ~q[i].removed /\ Kept(q)[j] = EntryOf(q[i])
<1> DEFINE From(q) == \A j \in 1..Len(Kept(q)) : \E i \in 1..Len(q) : ~q[i].removed /\ Kept(q)[j] = EntryOf(q[i])
           S == {q \in Seq(Record) : From(q)}
<1>1. <<>> \in S
    BY KeptIs
<1>2. ASSUME NEW q \in Seq(Record), NEW r \in Record, q \in S PROVE Append(q, r) \in S
  <2> DEFINE p == Append(q, r)
             n == Len(q)
             o == Kept(q)
  <2>1. n \in Nat /\ p \in Seq(Record) /\ Len(p) = n + 1 /\ p[n + 1] = r /\ \A i \in 1..n : p[i] = q[i]
      BY LenProperties
  <2>2. o \in Seq(Entries) /\ Len(o) \in Nat /\ EntryOf(r) \in Entries
      BY KeptType, LenProperties, EntryOfIs
  <2>3. Kept(p) = IF r.removed THEN o ELSE Append(o, EntryOf(r))
      BY KeptIs
  <2>4. \A j \in 1..Len(o) : \E i \in 1..n : ~q[i].removed /\ o[j] = EntryOf(q[i])
      BY <1>2
  <2> HIDE DEF p, n, o
  <2>5. ASSUME NEW j \in 1..Len(Kept(p)) PROVE \E i \in 1..Len(p) : ~p[i].removed /\ Kept(p)[j] = EntryOf(p[i])
    <3>1. CASE j \in 1..Len(o)
      <4>1. Kept(p)[j] = o[j]
          BY <2>2, <2>3, <3>1
      <4>2. PICK i \in 1..n : ~q[i].removed /\ o[j] = EntryOf(q[i])
          BY <2>4, <3>1
      <4> QED BY <2>1, <4>1, <4>2
    <3>2. CASE j \notin 1..Len(o)
      <4>1. ~r.removed /\ Kept(p)[j] = EntryOf(r)
          BY <2>2, <2>3, <3>2
      <4> QED BY <2>1, <4>1
    <3> QED BY <3>1, <3>2
  <2> QED BY <2>1, <2>5 DEF p
<1>4. \A q \in Seq(Record) : q \in S => From(q)
    OBVIOUS
<1> HIDE DEF S
<1>3. Seq(Record) \subseteq S
    BY <1>1, <1>2, SeqInduction
<1> QED BY <1>3, <1>4

LEMMA NothingKept ==
    ASSUME NEW q \in Seq(Record), \A i \in 1..Len(q) : q[i].removed
    PROVE  Kept(q) = <<>>
<1>1. Kept(q) \in Seq(Entries)
    BY KeptType
<1>2. \A j \in 1..Len(Kept(q)) : FALSE
    BY KeptFrom
<1> QED BY <1>1, <1>2, EmptySeq

\* One record is taken apart from those before and after it.
Apart(T, q, i, a, b) ==
    /\ Len(a) = i - 1 /\ Len(b) = Len(q) - i
    /\ \A j \in 1..Len(b) : b[j] = q[i + j]
    /\ \A r \in T : [q EXCEPT ![i] = r] = Append(a, r) \o b

LEMMA SplitAt ==
    ASSUME NEW T, NEW q \in Seq(T), NEW i \in 1..Len(q)
    PROVE  \E a, b \in Seq(T) : Apart(T, q, i, a, b)
<1>1. Len(q) \in Nat /\ i \in Nat /\ i >= 1 /\ i <= Len(q) /\ \A j \in 1..Len(q) : q[j] \in T
    BY LenProperties
<1> DEFINE a == SubSeq(q, 1, i - 1)
           b == [j \in 1..(Len(q) - i) |-> q[i + j]]
<1>2. a \in Seq(T) /\ Len(a) = i - 1 /\ \A j \in 1..(i - 1) : a[j] = q[j]
  <2>1. i - 1 \in Nat /\ i - 1 <= Len(q)
      BY <1>1
  <2> QED BY <2>1, PrefixIs, Zenon
<1>3. b \in Seq(T) /\ Len(b) = Len(q) - i /\ \A j \in 1..(Len(q) - i) : b[j] = q[i + j]
  <2>1. Len(q) - i \in Nat /\ \A j \in 1..(Len(q) - i) : i + j \in 1..Len(q)
      BY <1>1
  <2>2. b \in [1..(Len(q) - i) -> T]
      BY <1>1, <2>1
  <2> QED BY <2>1, <2>2, SeqDef
<1> HIDE DEF a, b
<1>4. ASSUME NEW r \in T PROVE [q EXCEPT ![i] = r] = Append(a, r) \o b
  <2> DEFINE p == [q EXCEPT ![i] = r]
             c == Append(a, r)
  <2>1. p \in Seq(T) /\ Len(p) = Len(q) /\ \A j \in 1..Len(q) : p[j] = IF j = i THEN r ELSE q[j]
      BY ExceptSeq
  <2>2. c \in Seq(T) /\ Len(c) = i /\ \A j \in 1..i : c[j] = IF j = i THEN r ELSE q[j]
      BY <1>1, <1>2
  <2> HIDE DEF p, c
  <2>3. /\ c \o b \in Seq(T) /\ Len(c \o b) = Len(q)
        /\ \A j \in 1..Len(q) : (c \o b)[j] = IF j <= i THEN c[j] ELSE b[j - i]
    <3>1. /\ c \o b \in Seq(T) /\ Len(c \o b) = Len(c) + Len(b)
          /\ \A j \in 1..(Len(c) + Len(b)) : (c \o b)[j] = IF j <= Len(c) THEN c[j] ELSE b[j - Len(c)]
        BY <1>3, <2>2, ConcatProperties
    <3>2. Len(c) + Len(b) = Len(q) /\ Len(c) = i
        BY <1>1, <1>3, <2>2
    <3> QED BY <3>1, <3>2
  <2>4. \A j \in 1..Len(q) : (c \o b)[j] = p[j]
    <3> SUFFICES ASSUME NEW j \in 1..Len(q) PROVE (c \o b)[j] = p[j]
        OBVIOUS
    <3>1. CASE j <= i
        BY <1>1, <2>1, <2>2, <2>3, <3>1
    <3>2. CASE ~(j <= i)
      <4>1. j - i \in 1..(Len(q) - i) /\ i + (j - i) = j
          BY <1>1, <3>2
      <4> QED BY <1>1, <1>3, <2>1, <2>3, <3>2, <4>1
    <3> QED BY <3>1, <3>2
  <2>5. p = c \o b
      BY <2>1, <2>3, <2>4, SeqEqual
  <2> QED BY <2>5 DEF p, c
<1> QED BY <1>2, <1>3, <1>4 DEF Apart

LEMMA RemoveAtIs ==
    ASSUME NEW T, NEW x \in Seq(T), NEW e \in T, NEW y \in Seq(T)
    PROVE  RemoveAt(Append(x, e) \o y, Len(x) + 1) = x \o y
<1> DEFINE o == Append(x, e) \o y
           n == Len(x)
<1>1. n \in Nat /\ Len(y) \in Nat
    BY LenProperties
<1>2. /\ o \in Seq(T) /\ Len(o) = n + 1 + Len(y)
      /\ \A i \in 1..(n + 1 + Len(y)) : o[i] = IF i <= n THEN x[i] ELSE IF i = n + 1 THEN e ELSE y[i - n - 1]
    OBVIOUS
<1>3. RemoveAt(o, n + 1) = SubSeq(o, 1, n) \o SubSeq(o, n + 2, Len(o))
  <2>1. (n + 1) - 1 = n /\ (n + 1) + 1 = n + 2
      BY <1>1
  <2> HIDE DEF o, n
  <2> QED BY <2>1 DEF RemoveAt
<1> HIDE DEF o
<1>4. SubSeq(o, 1, n) = x
  <2>1. SubSeq(o, 1, n) \in Seq(T) /\ Len(SubSeq(o, 1, n)) = n /\ \A i \in 1..n : SubSeq(o, 1, n)[i] = o[i]
      BY <1>1, <1>2, PrefixIs
  <2>2. \A i \in 1..n : o[i] = x[i]
      BY <1>1, <1>2
  <2> QED BY <2>1, <2>2, SeqEqual
<1>5. SubSeq(o, n + 2, Len(o)) = y
  <2> DEFINE z == SubSeq(o, n + 2, Len(o))
  <2>1. n + 2 \in Int /\ Len(o) \in Int /\ \A i \in (n + 2)..Len(o) : o[i] \in T
      BY <1>1, <1>2
  <2>2. /\ z \in Seq(T) /\ Len(z) = IF n + 2 <= Len(o) THEN Len(o) - (n + 2) + 1 ELSE 0
        /\ \A i \in 1..(Len(o) - (n + 2) + 1) : z[i] = o[n + 2 + i - 1]
      BY <2>1, SubSeqProperties
  <2> HIDE DEF z
  <2>3. Len(z) = Len(y)
      BY <1>1, <1>2, <2>2
  <2>4. \A i \in 1..Len(y) : z[i] = y[i]
    <3> SUFFICES ASSUME NEW i \in 1..Len(y) PROVE z[i] = y[i]
        OBVIOUS
    <3>1. i \in 1..(Len(o) - (n + 2) + 1) /\ n + 2 + i - 1 = n + 1 + i
        BY <1>1, <1>2
    <3>2. z[i] = o[n + 1 + i]
        BY <2>2, <3>1
    <3>3. n + 1 + i \in 1..(n + 1 + Len(y)) /\ ~(n + 1 + i <= n) /\ n + 1 + i # n + 1 /\ (n + 1 + i) - n - 1 = i
        BY <1>1
    <3> QED BY <1>2, <3>2, <3>3
  <2>5. z = y
      BY <2>2, <2>3, <2>4, SeqEqual
  <2> QED BY <2>5 DEF z
<1>6. RemoveAt(o, n + 1) = x \o y
    BY <1>3, <1>4, <1>5
<1> QED BY <1>6 DEF o

\* The record i of q takes its layer out of the middle, and o is left.
TakenOut(q, i, o) ==
    \E j \in 1..Len(Kept(q)) :
       /\ Kept(q)[j] = EntryOf(q[i])
       /\ o = RemoveAt(Kept(q), j)
       /\ \A n \in 1..Len(Kept(q)) : n > j =>
             \E k \in 1..Len(q) : k > i /\ ~q[k].removed /\ Kept(q)[n] = EntryOf(q[k])

LEMMA KeptRemoves ==
    ASSUME NEW q \in Seq(Record), NEW i \in 1..Len(q), NEW r \in Record, r.removed
    PROVE  /\ q[i].removed => Kept([q EXCEPT ![i] = r]) = Kept(q)
           /\ ~q[i].removed => TakenOut(q, i, Kept([q EXCEPT ![i] = r]))
<1> DEFINE p == [q EXCEPT ![i] = r]
<1>0. PICK a \in Seq(Record), b \in Seq(Record) : Apart(Record, q, i, a, b)
    BY SplitAt, Zenon
<1>1. /\ Len(a) = i - 1 /\ Len(b) = Len(q) - i
      /\ \A j \in 1..Len(b) : b[j] = q[i + j]
      /\ \A t \in Record : [q EXCEPT ![i] = t] = Append(a, t) \o b
    BY <1>0 DEF Apart
<1>2. q[i] \in Record /\ Len(q) \in Nat /\ i \in Nat
    BY LenProperties
<1>3. q = Append(a, q[i]) \o b /\ p = Append(a, r) \o b
  <2>1. [q EXCEPT ![i] = q[i]] = q
      BY LenProperties
  <2> QED BY <1>1, <1>2, <2>1
<1>4. /\ Append(a, q[i]) \in Seq(Record) /\ Append(a, r) \in Seq(Record)
      /\ Kept(a) \in Seq(Entries) /\ Kept(b) \in Seq(Entries) /\ EntryOf(q[i]) \in Entries
    BY <1>2, KeptType, EntryOfIs
<1> HIDE DEF p
<1>5. Kept(p) = Kept(a) \o Kept(b)
  <2>1. Kept(Append(a, r)) = Kept(a)
      BY KeptIs
  <2> QED BY <1>3, <1>4, <2>1, KeptConcat
<1>6. Kept(q) = Kept(Append(a, q[i])) \o Kept(b)
    BY <1>3, <1>4, KeptConcat
<1>7. CASE q[i].removed
  <2>1. Kept(q) = Kept(a) \o Kept(b)
      BY <1>2, <1>6, <1>7, KeptIs
  <2> QED BY <1>5, <1>7, <2>1 DEF p
<1>8. CASE ~q[i].removed
  <2> DEFINE x == Kept(a)
             y == Kept(b)
             e == EntryOf(q[i])
             j == Len(x) + 1
  <2>1. Kept(q) = Append(x, e) \o y
      BY <1>2, <1>6, <1>8, KeptIs
  <2>2. x \in Seq(Entries) /\ y \in Seq(Entries) /\ e \in Entries /\ Len(x) \in Nat /\ Len(y) \in Nat
      BY <1>4, LenProperties
  <2>3. \A n \in 1..Len(y) : \E k \in 1..Len(b) : ~b[k].removed /\ y[n] = EntryOf(b[k])
      BY KeptFrom
  <2>4. Kept(p) = x \o y
      BY <1>5
  <2> HIDE DEF x, y, e
  <2>5. RemoveAt(Kept(q), j) = Kept(p)
    <3>1. RemoveAt(Append(x, e) \o y, Len(x) + 1) = x \o y
        BY <2>2, RemoveAtIs, Zenon
    <3> QED BY <2>1, <2>4, <3>1
  <2>6. Len(Kept(q)) = j + Len(y) /\ Kept(q)[j] = e /\ j \in 1..Len(Kept(q)) /\ \A n \in 1..Len(y) : Kept(q)[j + n] = y[n]
      BY <2>1, <2>2
  <2>7. ASSUME NEW n \in 1..Len(Kept(q)), n > j
        PROVE  \E k \in 1..Len(q) : k > i /\ ~q[k].removed /\ Kept(q)[n] = EntryOf(q[k])
    <3>1. n - j \in 1..Len(y) /\ j + (n - j) = n
        BY <2>2, <2>6, <2>7
    <3>2. PICK k \in 1..Len(b) : ~b[k].removed /\ y[n - j] = EntryOf(b[k])
        BY <2>3, <3>1
    <3>3. i + k \in 1..Len(q) /\ i + k > i /\ b[k] = q[i + k]
        BY <1>1, <1>2
    <3>4. Kept(q)[n] = y[n - j]
        BY <2>6, <3>1
    <3> QED BY <3>2, <3>3, <3>4
  <2> QED BY <1>8, <2>5, <2>6, <2>7 DEF p, e, TakenOut
<1> QED BY <1>7, <1>8

\* The oldest record is overwritten.
LEMMA KeptTail ==
    ASSUME NEW q \in Seq(Record), q # <<>>
    PROVE  Kept(Tail(q)) = IF q[1].removed THEN Kept(q) ELSE Tail(Kept(q))
<1> DEFINE h == q[1]
           t == Tail(q)
<1>1. h \in Record /\ t \in Seq(Record) /\ Len(q) = Len(t) + 1 /\ Len(t) \in Nat /\ \A i \in 1..Len(t) : t[i] = q[i + 1]
    BY EmptySeq, LenProperties, HeadTailProperties
<1> HIDE DEF h, t
<1>2. q = Append(<<>>, h) \o t
  <2> DEFINE p == Append(<<>>, h) \o t
  <2>1. p \in Seq(Record) /\ Len(p) = Len(q) /\ \A i \in 1..Len(q) : p[i] = IF i = 1 THEN h ELSE t[i - 1]
      BY <1>1
  <2>2. \A i \in 1..Len(q) : p[i] = q[i]
    <3> SUFFICES ASSUME NEW i \in 1..Len(q) PROVE p[i] = q[i]
        OBVIOUS
    <3>1. CASE i = 1
        BY <2>1, <3>1 DEF h
    <3>2. CASE i # 1
      <4>1. i - 1 \in 1..Len(t) /\ (i - 1) + 1 = i
          BY <1>1, <3>2
      <4> HIDE DEF p
      <4> QED BY <1>1, <2>1, <3>2, <4>1
    <3> QED BY <3>1, <3>2
  <2> HIDE DEF p
  <2>3. p = q
      BY <2>1, <2>2, SeqEqual
  <2> QED BY <2>3 DEF p
<1>3. Append(<<>>, h) \in Seq(Record) /\ <<>> \in Seq(Record)
    BY <1>1
<1>4. Kept(q) = Kept(Append(<<>>, h)) \o Kept(t)
    BY <1>1, <1>2, <1>3, KeptConcat
<1>5. Kept(Append(<<>>, h)) = IF h.removed THEN <<>> ELSE Append(<<>>, EntryOf(h))
    BY <1>1, <1>3, KeptIs
<1>6. Kept(t) \in Seq(Entries) /\ EntryOf(h) \in Entries
    BY <1>1, KeptType, EntryOfIs
<1>7. Tail(Append(<<>>, EntryOf(h)) \o Kept(t)) = Kept(t)
  <2> DEFINE y == Kept(t)
             e == EntryOf(h)
             x == Append(<<>>, e) \o y
  <2>1. y \in Seq(Entries) /\ e \in Entries /\ Len(y) \in Nat
      BY <1>6, LenProperties
  <2> HIDE DEF y, e
  <2>2. x \in Seq(Entries) /\ Len(x) = Len(y) + 1 /\ x # <<>> /\ \A i \in 1..Len(y) : x[i + 1] = y[i]
      BY <2>1
  <2> HIDE DEF x
  <2>3. Tail(x) \in Seq(Entries) /\ Len(Tail(x)) = Len(y) /\ \A i \in 1..Len(y) : Tail(x)[i] = x[i + 1]
      BY <2>1, <2>2, HeadTailProperties
  <2>4. Tail(x) = y
      BY <2>1, <2>2, <2>3, SeqEqual
  <2> QED BY <2>4 DEF x, y, e
<1>8. CASE h.removed
    BY <1>4, <1>5, <1>6, <1>8, ConcatEmptySeq DEF h, t
<1>9. CASE ~h.removed
    BY <1>4, <1>5, <1>7, <1>9 DEF h, t
<1> QED BY <1>8, <1>9

\* The records on top that are removed keep nothing.
LEMMA KeptPrefix ==
    ASSUME NEW q \in Seq(Record), NEW n \in 0..Len(q), \A i \in 1..Len(q) : i > n => q[i].removed
    PROVE  Kept(SubSeq(q, 1, n)) = Kept(q)
<1> DEFINE a == SubSeq(q, 1, n)
           b == SubSeq(q, n + 1, Len(q))
<1>1. Len(q) \in Nat /\ n \in Nat /\ n <= Len(q) /\ \A i \in 1..Len(q) : q[i] \in Record
    BY LenProperties
<1>2. a \in Seq(Record)
    BY <1>1, PrefixIs
<1>3. b \in Seq(Record) /\ Len(b) = Len(q) - n /\ \A i \in 1..(Len(q) - n) : b[i] = q[n + i]
  <2> DEFINE m == n + 1
  <2>1. m \in Int /\ Len(q) \in Int /\ \A i \in m..Len(q) : q[i] \in Record
      BY <1>1
  <2> HIDE DEF m
  <2>2. /\ SubSeq(q, m, Len(q)) \in Seq(Record)
        /\ Len(SubSeq(q, m, Len(q))) = IF m <= Len(q) THEN Len(q) - m + 1 ELSE 0
        /\ \A i \in 1..(Len(q) - m + 1) : SubSeq(q, m, Len(q))[i] = q[m + i - 1]
      BY <2>1, SubSeqProperties
  <2>3. Len(q) - m + 1 = Len(q) - n /\ (~(m <= Len(q)) => Len(q) - n = 0) /\ \A i \in 1..(Len(q) - n) : m + i - 1 = n + i
      BY <1>1 DEF m
  <2> HIDE DEF b
  <2> QED BY <2>2, <2>3 DEF b, m
<1>4. a \o b = q
  <2>1. 1 \in 1..(Len(q) + 1) /\ n \in (1 - 1)..Len(q) /\ Len(q) \in n..Len(q)
      BY <1>1
  <2>2. a \o b = SubSeq(q, 1, Len(q))
      BY <2>1, ConcatAdjacentSubSeq, Zenon
  <2> QED BY <2>2, SubSeqFull
<1> HIDE DEF a, b
<1>5. \A i \in 1..Len(b) : b[i].removed
  <2>1. \A i \in 1..(Len(q) - n) : n + i \in 1..Len(q) /\ n + i > n
      BY <1>1
  <2> QED BY <1>3, <2>1
<1>6. Kept(b) = <<>>
    BY <1>3, <1>5, NothingKept
<1>7. Kept(q) = Kept(a) \o Kept(b)
    BY <1>2, <1>3, <1>4, KeptConcat
<1>8. Kept(a) \in Seq(Entries)
    BY <1>2, KeptType
<1> QED BY <1>6, <1>7, <1>8, ConcatEmptySeq DEF a

\* What a stopped macro holds stays where it is.
Orphan(r) == [r EXCEPT !.owner = IF @ \in Macros THEN Stopped ELSE @]
Orphans(q) == [i \in DOMAIN q |-> Orphan(q[i])]

LEMMA OrphansAppend ==
    ASSUME NEW T, \A t \in T : Orphan(t) \in T, NEW q \in Seq(T), NEW r \in T
    PROVE  Orphans(q) \in Seq(T) /\ Orphans(Append(q, r)) = Append(Orphans(q), Orphan(r))
<1>1. Len(q) \in Nat /\ DOMAIN q = 1..Len(q) /\ \A i \in 1..Len(q) : q[i] \in T
    BY LenProperties
<1>2. /\ Orphans(q) \in Seq(T) /\ Len(Orphans(q)) = Len(q) /\ \A i \in 1..Len(q) : Orphans(q)[i] = Orphan(q[i])
  <2>1. Orphans(q) \in [1..Len(q) -> T]
      BY <1>1 DEF Orphans
  <2>2. Orphans(q) \in Seq(T)
      BY <1>1, <2>1, SeqDef
  <2> QED BY <1>1, <2>1, <2>2 DEF Orphans
<1> DEFINE p == Append(q, r)
<1>3. p \in Seq(T) /\ Len(p) = Len(q) + 1 /\ DOMAIN p = 1..(Len(q) + 1) /\ p[Len(q) + 1] = r /\ \A i \in 1..Len(q) : p[i] = q[i]
    BY <1>1
<1> HIDE DEF p
<1>4. \A i \in 1..(Len(q) + 1) : p[i] \in T
    BY <1>1, <1>3
<1>5. /\ Orphans(p) \in Seq(T) /\ Len(Orphans(p)) = Len(q) + 1
      /\ \A i \in 1..(Len(q) + 1) : Orphans(p)[i] = Orphan(p[i])
  <2>1. Orphans(p) \in [1..(Len(q) + 1) -> T]
      BY <1>3, <1>4 DEF Orphans
  <2>2. Orphans(p) \in Seq(T) /\ Len(q) + 1 \in Nat
      BY <1>1, <2>1, SeqDef
  <2> QED BY <1>3, <2>1, <2>2 DEF Orphans
<1> DEFINE c == Append(Orphans(q), Orphan(r))
<1>6. /\ c \in Seq(T) /\ Len(c) = Len(q) + 1
      /\ \A i \in 1..(Len(q) + 1) : c[i] = IF i <= Len(q) THEN Orphan(q[i]) ELSE Orphan(r)
    BY <1>1, <1>2
<1> HIDE DEF c
<1>7. \A i \in 1..(Len(q) + 1) : Orphans(p)[i] = c[i]
    BY <1>1, <1>3, <1>5, <1>6
<1>8. Orphans(p) = c
    BY <1>5, <1>6, <1>7, SeqEqual
<1> QED BY <1>2, <1>8 DEF p, c

LEMMA OrphanIs ==
    /\ \A r \in Record : Orphan(r) \in Record /\ EntryOf(Orphan(r)) = Orphan(EntryOf(r)) /\ Orphan(r).removed = r.removed
    /\ \A e \in Entries : Orphan(e) \in Entries
BY DEF Orphan, Record, Entries, EntryOf

LEMMA KeptOrphans == \A q \in Seq(Record) : Kept(Orphans(q)) = Orphans(Kept(q))
<1> DEFINE S == {q \in Seq(Record) : Kept(Orphans(q)) = Orphans(Kept(q))}
<1>1. <<>> \in S
  <2>1. Orphans(<<>>) = <<>>
      BY DEF Orphans
  <2> QED BY <2>1, EmptySeq, KeptIs
<1>2. ASSUME NEW q \in Seq(Record), NEW r \in Record, q \in S PROVE Append(q, r) \in S
  <2>1. Orphans(Append(q, r)) = Append(Orphans(q), Orphan(r)) /\ Orphans(q) \in Seq(Record)
      BY OrphanIs, OrphansAppend
  <2>2. Kept(Orphans(Append(q, r))) = IF r.removed THEN Kept(Orphans(q)) ELSE Append(Kept(Orphans(q)), EntryOf(Orphan(r)))
      BY <2>1, OrphanIs, KeptIs
  <2>3. Kept(Append(q, r)) = IF r.removed THEN Kept(q) ELSE Append(Kept(q), EntryOf(r))
      BY KeptIs
  <2>4. Kept(q) \in Seq(Entries) /\ EntryOf(r) \in Entries
      BY KeptType, EntryOfIs
  <2>5. Orphans(Append(Kept(q), EntryOf(r))) = Append(Orphans(Kept(q)), Orphan(EntryOf(r)))
      BY <2>4, OrphanIs, OrphansAppend
  <2>6. Kept(Orphans(q)) = Orphans(Kept(q)) /\ EntryOf(Orphan(r)) = Orphan(EntryOf(r))
      BY <1>2, OrphanIs
  <2>7. Kept(Orphans(Append(q, r))) = Orphans(Kept(Append(q, r)))
      BY <2>2, <2>3, <2>5, <2>6
  <2>8. Append(q, r) \in Seq(Record)
      OBVIOUS
  <2> QED BY <2>7, <2>8
<1> HIDE DEF S
<1>3. Seq(Record) \subseteq S
    BY <1>1, <1>2, SeqInduction
<1> QED BY <1>3 DEF S

-----------------------------------------------------------------------------
(* The sequence of records that the ring stands for.                       *)

LEMMA RingIs ==
    ASSUME NEW s \in Switchers
    PROVE  /\ s.topIdx \in Slots /\ s.stack \in [Slots -> Record] /\ s.size \in Nat
           /\ 1 <= s.size /\ s.size <= LAYER_STACK_SIZE - 1
           /\ \A d \in 0..(LAYER_STACK_SIZE - 1) : Below(s, d) \in Slots
           /\ Below(s, 0) = s.topIdx
           /\ \A d, e \in 0..(LAYER_STACK_SIZE - 1) : Below(s, d) = Below(s, e) => d = e
<1>1. /\ s.topIdx \in Slots /\ s.stack \in [Slots -> Record] /\ s.size \in Nat
      /\ 1 <= s.size /\ s.size <= LAYER_STACK_SIZE - 1
    BY Sizes DEF Switchers
<1>2. \A d \in 0..(LAYER_STACK_SIZE - 1) : Below(s, d) = IF d <= s.topIdx THEN s.topIdx - d ELSE s.topIdx + LAYER_STACK_SIZE - d
    BY <1>1, BelowIs
<1> QED BY <1>1, <1>2, Sizes DEF Slots

LEMMA RecordsAre ==
    ASSUME NEW s \in Switchers
    PROVE  /\ Records(s) \in Seq(Record) /\ Len(Records(s)) = s.size
           /\ \A i \in 1..s.size : Records(s)[i] = s.stack[Below(s, s.size - i)]
           /\ \A d \in 0..(s.size - 1) : s.size - d \in 1..s.size /\ Records(s)[s.size - d] = s.stack[Below(s, d)]
           /\ Records(s)[s.size] = Top(s) /\ Records(s) # <<>>
<1>1. s.size \in Nat /\ 1 <= s.size /\ s.size <= LAYER_STACK_SIZE - 1 /\ s.stack \in [Slots -> Record]
    BY RingIs
<1>2. \A i \in 1..s.size : s.size - i \in 0..(LAYER_STACK_SIZE - 1)
    BY <1>1, Sizes
<1>3. \A i \in 1..s.size : Below(s, s.size - i) \in Slots
    BY <1>2, RingIs
<1>4. Records(s) \in [1..s.size -> Record] /\ \A i \in 1..s.size : Records(s)[i] = s.stack[Below(s, s.size - i)]
    BY <1>1, <1>3 DEF Records
<1>5. Records(s) \in Seq(Record) /\ Len(Records(s)) = s.size
    BY <1>1, <1>4, SeqDef
<1>6. \A d \in 0..(s.size - 1) : s.size - d \in 1..s.size /\ s.size - (s.size - d) = d
    BY <1>1
<1>7. \A d \in 0..(s.size - 1) : s.size - d \in 1..s.size /\ Records(s)[s.size - d] = s.stack[Below(s, d)]
    BY <1>4, <1>6
<1>8. s.size \in 1..s.size /\ s.size - s.size = 0
    BY <1>1
<1>9. Records(s)[s.size] = Top(s)
    BY <1>4, <1>8, RingIs DEF Top
<1> QED BY <1>1, <1>4, <1>5, <1>7, <1>9

\* The slots of the window do not change with the rest of the state.
LEMMA SameWindow ==
    ASSUME NEW s, NEW t, t.topIdx = s.topIdx, t.size = s.size
    PROVE  Window(t) = Window(s) /\ \A d : Below(t, d) = Below(s, d)
BY DEF Window, Below

LEMMA SameRecords ==
    ASSUME NEW s \in Switchers, NEW t \in Switchers, t.topIdx = s.topIdx, t.size = s.size,
           \A i \in Window(s) : t.stack[i] = s.stack[i]
    PROVE  Records(t) = Records(s) /\ Top(t) = Top(s)
<1>1. \A d \in 0..(s.size - 1) : Below(s, d) \in Window(s) /\ Below(t, d) = Below(s, d)
    BY WindowIs, SameWindow
<1>2. s.size \in Nat /\ \A i \in 1..s.size : s.size - i \in 0..(s.size - 1)
    BY RingIs
<1>3. \A i \in 1..s.size : t.stack[Below(t, s.size - i)] = s.stack[Below(s, s.size - i)]
    BY <1>1, <1>2
<1>4. Records(t) = Records(s)
    BY <1>3 DEF Records
<1> QED BY <1>4, WindowIs DEF Top

LEMMA ActivatedRecords ==
    ASSUME NEW s \in Switchers
    PROVE  /\ Records(activateLayer(s)) = Records(s) /\ Top(activateLayer(s)) = Top(s)
           /\ Window(activateLayer(s)) = Window(s) /\ activateLayer(s) \in Switchers
           /\ \A i \in Window(s) : activateLayer(s).stack[i] = s.stack[i]
<1> DEFINE t == activateLayer(s)
<1>1. t \in Switchers /\ t.stack = Filtered(s) /\ t.topIdx = s.topIdx /\ t.size = s.size
    BY ActivateIs
<1> HIDE DEF t
<1>2. \A i \in Window(s) : t.stack[i] = s.stack[i]
    BY <1>1, WindowIs DEF Filtered
<1>3. Records(t) = Records(s) /\ Top(t) = Top(s) /\ Window(t) = Window(s)
    BY <1>1, <1>2, SameRecords, SameWindow
<1> QED BY <1>1, <1>2, <1>3 DEF t

\* One record changes where it is.
LEMMA ReplacedRecords ==
    ASSUME NEW s \in Switchers, NEW d \in 0..(s.size - 1), NEW r \in Record,
           NEW u \in Switchers, u.topIdx = s.topIdx, u.size = s.size,
           u.stack = [s.stack EXCEPT ![Below(s, d)] = r]
    PROVE  Records(u) = [Records(s) EXCEPT ![s.size - d] = r]
<1> DEFINE q == [Records(s) EXCEPT ![s.size - d] = r]
<1>1. s.size \in Nat /\ 1 <= s.size /\ s.size <= LAYER_STACK_SIZE - 1 /\ s.stack \in [Slots -> Record]
    BY RingIs
<1>2. s.size - d \in 1..Len(Records(s)) /\ Records(s) \in Seq(Record) /\ Len(Records(s)) = s.size
    BY RecordsAre
<1>3. q \in Seq(Record) /\ Len(q) = s.size /\ \A i \in 1..s.size : q[i] = IF i = s.size - d THEN r ELSE Records(s)[i]
    BY <1>2, ExceptSeq
<1>4. Records(u) \in Seq(Record) /\ Len(Records(u)) = s.size /\ \A i \in 1..s.size : Records(u)[i] = u.stack[Below(u, s.size - i)]
    BY <1>1, RecordsAre
<1> HIDE DEF q
<1>5. ASSUME NEW i \in 1..s.size PROVE Records(u)[i] = q[i]
  <2>1. /\ Records(u)[i] = u.stack[Below(s, s.size - i)] /\ Records(s)[i] = s.stack[Below(s, s.size - i)]
    <3>1. Below(u, s.size - i) = Below(s, s.size - i)
        BY SameWindow
    <3> QED BY <1>4, <3>1, RecordsAre
  <2>2. s.size - i \in 0..(LAYER_STACK_SIZE - 1) /\ d \in 0..(LAYER_STACK_SIZE - 1) /\ (s.size - i = d <=> i = s.size - d)
      BY <1>1, Sizes
  <2>3. Below(s, s.size - i) \in Slots /\ (Below(s, s.size - i) = Below(s, d) <=> i = s.size - d)
      BY <2>2, RingIs
  <2> QED BY <1>1, <1>3, <2>1, <2>3
<1>6. Records(u) = q
    BY <1>3, <1>4, <1>5, SeqEqual
<1> QED BY <1>6 DEF q

\* Records are dropped from the top.
LEMMA DroppedRecords ==
    ASSUME NEW s \in Switchers, NEW m \in 0..(s.size - 1),
           NEW u \in Switchers, u.stack = s.stack, u.topIdx = Below(s, m), u.size = s.size - m
    PROVE  /\ Records(u) = SubSeq(Records(s), 1, s.size - m)
           /\ \A d \in 0..(u.size - 1) : Below(u, d) = Below(s, m + d) /\ m + d \in 0..(s.size - 1)
<1>1. /\ s.size \in Nat /\ 1 <= s.size /\ s.size <= LAYER_STACK_SIZE - 1 /\ s.topIdx \in Slots
      /\ u.topIdx \in Slots /\ m \in Nat /\ m <= s.size - 1
    BY RingIs
<1>2. ASSUME NEW d \in 0..(u.size - 1) PROVE Below(u, d) = Below(s, m + d) /\ m + d \in 0..(s.size - 1)
  <2>1. d \in 0..(LAYER_STACK_SIZE - 1) /\ m \in 0..(LAYER_STACK_SIZE - 1) /\ m + d \in 0..(s.size - 1) /\ m + d \in 0..(LAYER_STACK_SIZE - 1)
      BY <1>1, Sizes
  <2>2. Below(u, d) = IF d <= u.topIdx THEN u.topIdx - d ELSE u.topIdx + LAYER_STACK_SIZE - d
      BY <1>1, <2>1, BelowIs
  <2>3. Below(s, m + d) = IF m + d <= s.topIdx THEN s.topIdx - (m + d) ELSE s.topIdx + LAYER_STACK_SIZE - (m + d)
      BY <1>1, <2>1, BelowIs
  <2>4. u.topIdx = IF m <= s.topIdx THEN s.topIdx - m ELSE s.topIdx + LAYER_STACK_SIZE - m
      BY <1>1, <2>1, BelowIs
  <2> QED BY <1>1, <2>1, <2>2, <2>3, <2>4, Sizes DEF Slots
<1> DEFINE n == s.size - m
           q == SubSeq(Records(s), 1, n)
<1>3. n \in Nat /\ n <= s.size
    BY <1>1
<1>4. q \in Seq(Record) /\ Len(q) = n /\ \A i \in 1..n : q[i] = Records(s)[i]
    BY <1>3, RecordsAre, PrefixIs
<1>5. Records(u) \in Seq(Record) /\ Len(Records(u)) = n /\ \A i \in 1..n : Records(u)[i] = s.stack[Below(u, n - i)]
    BY RecordsAre
<1> HIDE DEF q
<1>6. ASSUME NEW i \in 1..n PROVE Records(u)[i] = q[i]
  <2>1. n - i \in 0..(u.size - 1) /\ m + (n - i) = s.size - i /\ i \in 1..s.size
      BY <1>1, <1>3
  <2>2. Below(u, n - i) = Below(s, s.size - i)
      BY <1>2, <2>1
  <2> QED BY <1>4, <1>5, <2>1, <2>2, RecordsAre
<1>7. Records(u) = q
    BY <1>4, <1>5, <1>6, SeqEqual
<1> QED BY <1>2, <1>7 DEF q

LEMMA RingStep ==
    ASSUME NEW n \in Nat, NEW a \in Nat, a < n, NEW d \in Nat, d <= n - 2, NEW p, p = IF a + 1 < n THEN a + 1 ELSE 0
    PROVE  /\ (IF d + 1 <= p THEN p - (d + 1) ELSE p + n - (d + 1)) = (IF d <= a THEN a - d ELSE a + n - d)
           /\ (IF d <= a THEN a - d ELSE a + n - d) # p
           /\ (IF d <= a THEN a - d ELSE a + n - d) \in 0..(n - 1)
OBVIOUS

\* A new record goes on top, in the place of the oldest one if the ring is full.
LEMMA PushedRecords ==
    ASSUME NEW s \in Switchers, NEW entry \in Record,
           NEW u \in Switchers, u = Pushed(s, entry)
    PROVE  /\ Records(u) = IF s.size < LAYER_STACK_SIZE - 1 THEN Append(Records(s), entry)
                           ELSE Append(Tail(Records(s)), entry)
           /\ u.topIdx = Pos(s, 1) /\ Top(u) = entry /\ Pos(s, 1) \notin Window(s)
           /\ \A i \in Window(u) : IF i = Pos(s, 1) THEN u.stack[i] = entry
                                   ELSE i \in Window(s) /\ u.stack[i] = s.stack[i]
<1> DEFINE p == Pos(s, 1)
           grows == s.size < LAYER_STACK_SIZE - 1
           n == s.size
<1>1. /\ n \in Nat /\ 1 <= n /\ n <= LAYER_STACK_SIZE - 1 /\ s.stack \in [Slots -> Record] /\ s.topIdx \in Slots
      /\ u.topIdx = p /\ u.stack = [s.stack EXCEPT ![p] = entry] /\ u.size = IF grows THEN n + 1 ELSE n
    BY RingIs DEF Switchers, Pushed
<1>2. p = IF s.topIdx + 1 < LAYER_STACK_SIZE THEN s.topIdx + 1 ELSE 0
    BY <1>1, PosIs
<1>3. p \in Slots
    BY <1>1, <1>2, Sizes DEF Slots
<1> HIDE DEF p
<1>4. ASSUME NEW d \in 0..(LAYER_STACK_SIZE - 2) PROVE Below(u, d + 1) = Below(s, d) /\ Below(s, d) # p /\ Below(s, d) \in Slots
  <2>1. d \in 0..(LAYER_STACK_SIZE - 1) /\ d + 1 \in 0..(LAYER_STACK_SIZE - 1)
      BY Sizes
  <2>2. Below(u, d + 1) = IF d + 1 <= u.topIdx THEN u.topIdx - (d + 1) ELSE u.topIdx + LAYER_STACK_SIZE - (d + 1)
      BY <1>1, <1>3, <2>1, BelowIs
  <2>3. Below(s, d) = IF d <= s.topIdx THEN s.topIdx - d ELSE s.topIdx + LAYER_STACK_SIZE - d
      BY <1>1, <2>1, BelowIs
  <2>4. s.topIdx \in Nat /\ s.topIdx < LAYER_STACK_SIZE /\ d \in Nat /\ d <= LAYER_STACK_SIZE - 2
      BY <1>1, Sizes DEF Slots
  <2> DEFINE a == s.topIdx
             w == LAYER_STACK_SIZE
  <2>5. a \in Nat /\ w \in Nat /\ p = IF a + 1 < w THEN a + 1 ELSE 0
      BY <1>2, <2>4, Sizes
  <2>6. /\ (IF d + 1 <= p THEN p - (d + 1) ELSE p + w - (d + 1)) = (IF d <= a THEN a - d ELSE a + w - d)
        /\ (IF d <= a THEN a - d ELSE a + w - d) # p
        /\ (IF d <= a THEN a - d ELSE a + w - d) \in 0..(w - 1)
    <3> HIDE DEF a, w
    <3>1. a < w /\ d <= w - 2 /\ d \in Nat
        BY <2>4 DEF a, w
    <3> QED BY <2>5, <3>1, RingStep
  <2>7. u.topIdx = p
      BY <1>1
  <2> QED BY <2>2, <2>3, <2>6, <2>7 DEF Slots
<1>5. Below(u, 0) = p
    BY <1>1, RingIs
<1>6. Top(u) = entry
    BY <1>1, <1>3 DEF Top
<1>7. p \notin Window(s)
  <2>1. \A d \in 0..(n - 1) : d \in 0..(LAYER_STACK_SIZE - 2)
      BY <1>1, Sizes
  <2> QED BY <1>4, <2>1 DEF Window
<1>8. ASSUME NEW i \in Window(u)
      PROVE  IF i = p THEN u.stack[i] = entry ELSE i \in Window(s) /\ u.stack[i] = s.stack[i]
  <2>1. PICK d \in 0..(u.size - 1) : i = Below(u, d)
      BY DEF Window
  <2>2. CASE i = p
      BY <1>1, <1>3, <2>2
  <2>3. CASE i # p
    <3>1. d # 0
        BY <1>5, <2>1, <2>3
    <3>2. d - 1 \in 0..(LAYER_STACK_SIZE - 2) /\ d - 1 \in 0..(n - 1) /\ (d - 1) + 1 = d
        BY <1>1, <3>1, Sizes
    <3>3. i = Below(s, d - 1) /\ i \in Slots
        BY <1>4, <2>1, <3>2
    <3> QED BY <1>1, <2>3, <3>2, <3>3 DEF Window
  <2> QED BY <2>2, <2>3
<1>9. ASSUME NEW i \in 1..u.size
      PROVE  /\ i = u.size => Records(u)[i] = entry
             /\ i < u.size /\ grows => i \in 1..n /\ Records(u)[i] = Records(s)[i]
             /\ i < u.size /\ ~grows => i + 1 \in 1..n /\ Records(u)[i] = Records(s)[i + 1]
  <2>1. Records(u)[i] = u.stack[Below(u, u.size - i)]
      BY RecordsAre
  <2>2. i = u.size => Records(u)[i] = entry
      BY <1>6, RecordsAre
  <2>3. ASSUME i < u.size, NEW k \in 1..n, k = IF grows THEN i ELSE i + 1 PROVE Records(u)[i] = Records(s)[k]
    <3>1. n - k \in 0..(LAYER_STACK_SIZE - 2) /\ (n - k) + 1 = u.size - i
        BY <1>1, <2>3, Sizes
    <3>2. Below(u, u.size - i) = Below(s, n - k) /\ Below(s, n - k) # p /\ Below(s, n - k) \in Slots
        BY <1>4, <3>1
    <3>3. Records(s)[k] = s.stack[Below(s, n - k)]
        BY RecordsAre
    <3> QED BY <1>1, <2>1, <3>2, <3>3
  <2>4. i < u.size => (IF grows THEN i ELSE i + 1) \in 1..n
      BY <1>1
  <2> QED BY <2>2, <2>3, <2>4
<1>10. Records(u) \in Seq(Record) /\ Len(Records(u)) = u.size /\ Records(s) \in Seq(Record) /\ Len(Records(s)) = n /\ Records(s) # <<>>
    BY RecordsAre
<1>11. CASE grows
  <2> DEFINE q == Append(Records(s), entry)
  <2>1. q \in Seq(Record) /\ Len(q) = n + 1 /\ \A i \in 1..(n + 1) : q[i] = IF i <= n THEN Records(s)[i] ELSE entry
      BY <1>1, <1>10
  <2> HIDE DEF q
  <2>2. \A i \in 1..(n + 1) : Records(u)[i] = q[i]
      BY <1>1, <1>9, <1>11, <2>1
  <2>3. Records(u) = q
      BY <1>1, <1>10, <1>11, <2>1, <2>2, SeqEqual
  <2> QED BY <1>1, <1>6, <1>7, <1>8, <1>11, <2>3 DEF q, p
<1>12. CASE ~grows
  <2> DEFINE t == Tail(Records(s))
             q == Append(t, entry)
  <2>1. t \in Seq(Record) /\ Len(t) = n - 1 /\ \A i \in 1..(n - 1) : t[i] = Records(s)[i + 1]
      BY <1>10, HeadTailProperties
  <2> HIDE DEF t
  <2>2. q \in Seq(Record) /\ Len(q) = n /\ \A i \in 1..n : q[i] = IF i <= n - 1 THEN Records(s)[i + 1] ELSE entry
      BY <1>1, <2>1
  <2> HIDE DEF q
  <2>3. \A i \in 1..n : Records(u)[i] = q[i]
      BY <1>1, <1>9, <1>12, <2>2
  <2>4. Records(u) = q
      BY <1>1, <1>10, <1>12, <2>2, <2>3, SeqEqual
  <2> QED BY <1>1, <1>6, <1>7, <1>8, <1>12, <2>4 DEF q, t, p
<1> QED BY <1>11, <1>12

LEMMA EmptiedRecords ==
    ASSUME NEW s \in Switchers, NEW i \in Slots
    PROVE  /\ Records(Emptied(s, i)) = <<BaseRecord(s.keymap)>> /\ Top(Emptied(s, i)) = BaseRecord(s.keymap)
           /\ Window(Emptied(s, i)) = {i} /\ Emptied(s, i).stack[i] = BaseRecord(s.keymap)
<1> DEFINE u == Emptied(s, i)
<1>1. u \in Switchers /\ u.topIdx = i /\ u.size = 1 /\ u.stack[i] = BaseRecord(s.keymap)
    BY EmptiedIs DEF Restacked, Emptied, Switchers
<1> HIDE DEF u
<1>2. Below(u, 0) = i
    BY <1>1, RingIs
<1>3. Window(u) = {i}
  <2>1. 0..(u.size - 1) = {0}
      BY <1>1
  <2> QED BY <1>2, <2>1 DEF Window
<1>4. Records(u) \in Seq(Record) /\ Len(Records(u)) = 1 /\ Records(u)[1] = BaseRecord(s.keymap)
    BY <1>1, RecordsAre DEF Top
<1>5. Records(u) = <<BaseRecord(s.keymap)>>
    BY <1>4
<1> QED BY <1>1, <1>3, <1>5 DEF u, Top

-----------------------------------------------------------------------------
(* The order of layers that the ring stands for.                           *)

\* A live record is held by its owner, who knows where it is.
Placed(r, i, h) ==
    ~r.removed => (r.held <=> r.owner # NoMacro) /\ (r.owner \in Macros => h[r.owner] = i)
Arranged(s, h) == \A i \in Window(s) : Placed(s.stack[i], i, h)
Orderly(s, h) == Arranged(s, h) /\ ~Top(s).removed

\* The layers o are activated; if there are none, the base layer of the keymap k.
BaseOf(k) == [layer |-> Base, keymap |-> k, owner |-> NoMacro]
Activation(k, o, t) ==
    /\ Live(t) = IF o = <<>> THEN <<BaseOf(k)>> ELSE o
    /\ t.keymap = Last(Live(t)).keymap
    /\ t.stackLayer = Last(Live(t)).layer

LEMMA LiveType ==
    ASSUME NEW s \in Switchers
    PROVE  Live(s) \in Seq(Entries) /\ Len(Live(s)) \in Nat
<1>1. Live(s) \in Seq(Entries)
    BY RecordsAre, KeptType DEF Live
<1> QED BY <1>1, LenProperties

LEMMA TopIsLast ==
    ASSUME NEW s \in Switchers, ~Top(s).removed
    PROVE  Live(s) # <<>> /\ Last(Live(s)) = EntryOf(Top(s))
<1> DEFINE q == Records(s)
           a == SubSeq(q, 1, Len(q) - 1)
<1>1. q \in Seq(Record) /\ q # <<>> /\ q[Len(q)] = Top(s)
    BY RecordsAre
<1>2. a \in Seq(Record) /\ Top(s) \in Record /\ q = Append(a, Top(s))
    BY <1>1, LastSplit
<1> HIDE DEF q, a
<1>3. Kept(q) = Append(Kept(a), EntryOf(Top(s)))
    BY <1>2, KeptIs
<1>4. Kept(a) \in Seq(Entries) /\ EntryOf(Top(s)) \in Entries
    BY <1>2, KeptType, EntryOfIs
<1>5. Kept(q) # <<>> /\ Last(Kept(q)) = EntryOf(Top(s))
    BY <1>3, <1>4 DEF Last
<1> QED BY <1>5 DEF q, Live

LEMMA ActivationIs ==
    ASSUME NEW u \in Switchers, ~Top(u).removed, NEW t, t = activateLayer(u)
    PROVE  /\ t \in Switchers /\ Live(t) = Live(u) /\ Live(u) # <<>>
           /\ \A k : Activation(k, Live(u), t)
           /\ \A h : Arranged(u, h) => Orderly(t, h)
<1>1. /\ Records(t) = Records(u) /\ Top(t) = Top(u) /\ Window(t) = Window(u) /\ t \in Switchers
      /\ \A i \in Window(u) : t.stack[i] = u.stack[i]
    BY ActivatedRecords
<1>2. Live(t) = Live(u) /\ Live(u) # <<>> /\ Last(Live(t)) = EntryOf(Top(u))
    BY <1>1, TopIsLast DEF Live
<1>3. t.keymap = Top(u).keymap /\ t.stackLayer = Top(u).layer
    BY ActivateIs
<1>4. \A k : Activation(k, Live(u), t)
    BY <1>2, <1>3 DEF Activation, EntryOf
<1>5. \A h : Arranged(u, h) => Orderly(t, h)
    BY <1>1 DEF Arranged, Orderly
<1> QED BY <1>1, <1>2, <1>4, <1>5

LEMMA BaseIsKept == \A k \in Keymaps : Kept(<<BaseRecord(k)>>) = <<BaseOf(k)>>
<1> SUFFICES ASSUME NEW k \in Keymaps PROVE Kept(<<BaseRecord(k)>>) = <<BaseOf(k)>>
    OBVIOUS
<1>1. BaseRecord(k) \in Record /\ ~BaseRecord(k).removed /\ EntryOf(BaseRecord(k)) = BaseOf(k)
    BY LayersAre DEF BaseRecord, Record, EntryOf, BaseOf
<1> HIDE DEF BaseRecord
<1>2. <<BaseRecord(k)>> = Append(<<>>, BaseRecord(k)) /\ <<BaseOf(k)>> = Append(<<>>, BaseOf(k))
    OBVIOUS
<1>3. <<>> \in Seq(Record)
    BY EmptySeq
<1> QED BY <1>1, <1>2, <1>3, KeptIs

LEMMA PopRemovedActivates ==
    ASSUME NEW s \in Switchers, NEW h, Arranged(s, h), NEW t, t = PopRemoved(s)
    PROVE  t \in Switchers /\ Orderly(t, h) /\ Activation(s.keymap, Live(s), t)
<1>1. PICK u \in Switchers :
         /\ t = activateLayer(u) /\ Restacked(s, u, {})
         /\ LiveDepths(s) # {} => u = Uncovered(s)
         /\ LiveDepths(s) = {} => \E i \in Slots : u = Emptied(s, i)
    BY PopRemovedIs
<1>2. Records(s) \in Seq(Record) /\ Len(Records(s)) = s.size /\ s.size \in Nat /\ s.size >= 1
    BY RecordsAre, RingIs
<1>3. CASE LiveDepths(s) # {}
  <2> DEFINE m == Min(LiveDepths(s))
  <2>1. /\ m \in 0..(s.size - 1) /\ ~s.stack[Below(s, m)].removed
        /\ \A i \in 0..(s.size - 1) : i < m => s.stack[Below(s, i)].removed
      BY <1>3, LiveDepthsAre
  <2>2. u.stack = s.stack /\ u.topIdx = Below(s, m) /\ u.size = s.size - m
      BY <1>1, <1>3 DEF Uncovered, Switchers
  <2> HIDE DEF m
  <2>3. /\ Records(u) = SubSeq(Records(s), 1, s.size - m)
        /\ \A d \in 0..(u.size - 1) : Below(u, d) = Below(s, m + d) /\ m + d \in 0..(s.size - 1)
      BY <2>1, <2>2, DroppedRecords
  <2>4. \A i \in 1..Len(Records(s)) : i > s.size - m => Records(s)[i].removed
    <3> SUFFICES ASSUME NEW i \in 1..s.size, i > s.size - m PROVE Records(s)[i].removed
        BY <1>2
    <3>1. s.size - i \in 0..(s.size - 1) /\ s.size - i < m
        BY <1>2, <2>1
    <3>2. Records(s)[i] = s.stack[Below(s, s.size - i)]
        BY RecordsAre
    <3> QED BY <2>1, <3>1, <3>2
  <2>5. s.size - m \in 0..Len(Records(s))
      BY <1>2, <2>1
  <2>6. Live(u) = Live(s)
    <3>1. Kept(SubSeq(Records(s), 1, s.size - m)) = Kept(Records(s))
        BY <1>2, <2>4, <2>5, KeptPrefix, Zenon
    <3> QED BY <2>3, <3>1 DEF Live
  <2>7. ~Top(u).removed
      BY <2>1, <2>2 DEF Top
  <2>8. Arranged(u, h)
    <3>1. \A i \in Window(u) : i \in Window(s)
        BY <2>3 DEF Window
    <3> QED BY <2>2, <3>1 DEF Arranged
  <2> QED BY <1>1, <2>6, <2>7, <2>8, ActivationIs
<1>4. CASE LiveDepths(s) = {}
  <2>1. PICK i \in Slots : u = Emptied(s, i)
      BY <1>1, <1>4
  <2>2. /\ Records(u) = <<BaseRecord(s.keymap)>> /\ Top(u) = BaseRecord(s.keymap)
        /\ Window(u) = {i} /\ u.stack[i] = BaseRecord(s.keymap)
      BY <2>1, EmptiedRecords
  <2>3. Live(u) = <<BaseOf(s.keymap)>>
    <3>1. s.keymap \in Keymaps
        BY DEF Switchers
    <3> QED BY <2>2, <3>1, BaseIsKept DEF Live
  <2>4. Live(s) = <<>>
    <3>1. \A k \in 1..s.size : Records(s)[k].removed
      <4> SUFFICES ASSUME NEW k \in 1..s.size PROVE Records(s)[k].removed
          OBVIOUS
      <4>1. s.size - k \in 0..(s.size - 1)
          BY <1>2
      <4>2. s.stack[Below(s, s.size - k)].removed
          BY <1>4, <4>1 DEF LiveDepths
      <4> QED BY <4>2, RecordsAre
    <3> QED BY <1>2, <3>1, NothingKept DEF Live
  <2>5. ~Top(u).removed /\ Arranged(u, h)
      BY <2>2, LayerAssumption DEF BaseRecord, Arranged, Placed
  <2>6. t \in Switchers /\ Orderly(t, h) /\ Activation(s.keymap, Live(u), t)
      BY <1>1, <2>5, ActivationIs
  <2> QED BY <2>3, <2>4, <2>6 DEF Activation
<1> QED BY <1>3, <1>4

LEMMA GreatestIs ==
    ASSUME NEW T, T \subseteq Nat, NEW j \in T, \A y \in T : j >= y
    PROVE  Max(T) = j
<1>1. Max(T) = CHOOSE x \in T : \A y \in T : x >= y
    BY DEF Max
<1> DEFINE m == CHOOSE x \in T : \A y \in T : x >= y
<1>2. m \in T /\ \A y \in T : m >= y
    BY Zenon
<1> HIDE DEF m
<1>3. m >= j /\ j >= m /\ m \in Nat /\ j \in Nat
    BY <1>2
<1>4. m = j
    BY <1>3
<1> QED BY <1>1, <1>4 DEF m

\* The last layer that nobody holds is taken out.
UntoggledOf(o) ==
    LET toggled == {i \in DOMAIN o : o[i].owner = NoMacro}
    IN IF toggled = {} THEN o ELSE RemoveAt(o, Max(toggled))

\* The record d below the top of s takes its layer out, and o is left.
RecordTaken(s, d, o) ==
    \E j \in 1..Len(Live(s)) :
       /\ Live(s)[j] = EntryOf(s.stack[Below(s, d)])
       /\ o = RemoveAt(Live(s), j)
       /\ \A n \in 1..Len(Live(s)) : n > j =>
             \E e \in 0..(s.size - 1) :
                e < d /\ ~s.stack[Below(s, e)].removed /\ Live(s)[n] = EntryOf(s.stack[Below(s, e)])

\* A record in the window, and what is kept once it is removed.
LEMMA RecordRemoved ==
    ASSUME NEW s \in Switchers, NEW h, Arranged(s, h), NEW d \in 0..(s.size - 1), NEW r \in Record, r.removed,
           NEW u \in Switchers, u.topIdx = s.topIdx, u.size = s.size,
           u.stack = [s.stack EXCEPT ![Below(s, d)] = r]
    PROVE  /\ Arranged(u, h)
           /\ s.stack[Below(s, d)].removed => Live(u) = Live(s)
           /\ ~s.stack[Below(s, d)].removed => RecordTaken(s, d, Live(u))
<1> DEFINE q == Records(s)
           i == s.size - d
<1>1. /\ q \in Seq(Record) /\ Len(q) = s.size /\ i \in 1..Len(q) /\ q[i] = s.stack[Below(s, d)]
      /\ \A k \in 1..s.size : q[k] = s.stack[Below(s, s.size - k)]
    BY RecordsAre
<1>2. Records(u) = [q EXCEPT ![i] = r]
    BY ReplacedRecords
<1>3. s.size \in Nat /\ s.stack \in [Slots -> Record] /\ i = s.size - d
    BY RingIs
<1> HIDE DEF q, i
<1>4. Arranged(u, h)
  <2>1. Window(u) = Window(s) /\ Window(s) \subseteq Slots
      BY SameWindow, WindowIs
  <2>2. \A k \in Window(s) : u.stack[k] = IF k = Below(s, d) THEN r ELSE s.stack[k]
      BY <1>3, <2>1
  <2> QED BY <2>1, <2>2 DEF Arranged, Placed
<1>5. CASE q[i].removed
  <2>1. Kept([q EXCEPT ![i] = r]) = Kept(q)
      BY <1>1, <1>5, KeptRemoves
  <2> QED BY <1>1, <1>2, <1>4, <1>5, <2>1 DEF q, Live
<1>6. CASE ~q[i].removed
  <2>0. TakenOut(q, i, Kept([q EXCEPT ![i] = r]))
      BY <1>1, <1>6, KeptRemoves
  <2>1. PICK j \in 1..Len(Kept(q)) :
           /\ Kept(q)[j] = EntryOf(q[i])
           /\ Kept([q EXCEPT ![i] = r]) = RemoveAt(Kept(q), j)
           /\ \A n \in 1..Len(Kept(q)) : n > j =>
                 \E k \in 1..Len(q) : k > i /\ ~q[k].removed /\ Kept(q)[n] = EntryOf(q[k])
      BY <2>0 DEF TakenOut
  <2>2. ASSUME NEW n \in 1..Len(Kept(q)), n > j
        PROVE  \E e \in 0..(s.size - 1) :
                  /\ e < d /\ ~s.stack[Below(s, e)].removed
                  /\ Kept(q)[n] = EntryOf(s.stack[Below(s, e)])
    <3>1. PICK k \in 1..s.size : k > i /\ ~q[k].removed /\ Kept(q)[n] = EntryOf(q[k])
        BY <1>1, <2>1, <2>2
    <3>2. s.size - k \in 0..(s.size - 1) /\ s.size - k < d
        BY <1>3, <3>1
    <3>3. q[k] = s.stack[Below(s, s.size - k)]
        BY <1>1
    <3> QED BY <3>1, <3>2, <3>3
  <2> QED BY <1>1, <1>2, <1>4, <1>6, <2>1, <2>2 DEF q, Live, RecordTaken
<1> QED BY <1>5, <1>6

LEMMA PopToggledActivates ==
    ASSUME NEW s \in Switchers, NEW h, Orderly(s, h), NEW t, t = PopToggled(s)
    PROVE  t \in Switchers /\ Orderly(t, h) /\ Activation(s.keymap, UntoggledOf(Live(s)), t)
<1> DEFINE o == Live(s)
           toggled == {i \in DOMAIN o : o[i].owner = NoMacro}
<1>1. o \in Seq(Entries) /\ Len(o) \in Nat /\ DOMAIN o = 1..Len(o)
    BY LiveType, LenProperties
<1>2. Arranged(s, h) /\ s.size \in Nat /\ \A d \in 0..(s.size - 1) : Below(s, d) \in Window(s)
    BY WindowIs, RingIs DEF Orderly
<1>3. \A d \in 0..(s.size - 1) : ~s.stack[Below(s, d)].removed =>
         (s.stack[Below(s, d)].held <=> EntryOf(s.stack[Below(s, d)]).owner # NoMacro)
    BY <1>2 DEF Arranged, Placed, EntryOf
<1>4. CASE ToggledDepths(s) = {}
  <2>1. t = PopRemoved(s)
      BY <1>4, PopToggledIs
  <2>2. toggled = {}
    <3> SUFFICES ASSUME NEW j \in 1..Len(o) PROVE o[j].owner # NoMacro
        BY <1>1
    <3>1. PICK i \in 1..s.size : ~Records(s)[i].removed /\ o[j] = EntryOf(Records(s)[i])
        BY KeptFrom, RecordsAre DEF Live
    <3>2. s.size - i \in 0..(s.size - 1) /\ Records(s)[i] = s.stack[Below(s, s.size - i)]
        BY <1>2, RecordsAre
    <3>3. s.stack[Below(s, s.size - i)].held
        BY <1>4, <3>1, <3>2 DEF ToggledDepths
    <3> QED BY <1>3, <3>1, <3>2, <3>3
  <2>3. UntoggledOf(o) = o
      BY <2>2 DEF UntoggledOf
  <2> QED BY <1>2, <2>1, <2>3, PopRemovedActivates
<1>5. CASE ToggledDepths(s) # {}
  <2> DEFINE d == Min(ToggledDepths(s))
             b == Below(s, d)
             u == Marked(s, b)
             r == [s.stack[b] EXCEPT !.removed = TRUE]
  <2>1. /\ d \in 0..(s.size - 1) /\ ~s.stack[b].held /\ ~s.stack[b].removed
        /\ \A i \in 0..(s.size - 1) : i < d => s.stack[Below(s, i)].held \/ s.stack[Below(s, i)].removed
      BY <1>5, ToggledDepthsAre
  <2>2. t = PopRemoved(u) /\ b \in Slots
      BY <1>5, PopToggledIs
  <2> HIDE DEF d
  <2>3. u \in Switchers /\ u = [s EXCEPT !.stack = [s.stack EXCEPT ![b] = r]]
      BY <2>2, MarkedIs DEF Restacked
  <2> HIDE DEF u
  <2>4. u.topIdx = s.topIdx /\ u.size = s.size /\ u.keymap = s.keymap /\ u.stack = [s.stack EXCEPT ![b] = r]
      BY <2>3 DEF Switchers
  <2>5. r \in Record /\ r.removed
    <3>1. s.stack[b] \in Record
        BY <2>2, RingIs
    <3> QED BY <3>1 DEF Record
  <2>6. Arranged(u, h)
      BY <1>2, <2>1, <2>3, <2>4, <2>5, RecordRemoved, Zenon
  <2>12. RecordTaken(s, d, Live(u))
      BY <1>2, <2>1, <2>3, <2>4, <2>5, RecordRemoved, Zenon
  <2>7. PICK j \in 1..Len(o) :
           /\ o[j] = EntryOf(s.stack[b])
           /\ Live(u) = RemoveAt(o, j)
           /\ \A n \in 1..Len(o) : n > j =>
                 \E e \in 0..(s.size - 1) :
                    e < d /\ ~s.stack[Below(s, e)].removed /\ o[n] = EntryOf(s.stack[Below(s, e)])
      BY <2>12 DEF RecordTaken
  <2>8. o[j].owner = NoMacro
      BY <1>3, <2>1, <2>7
  <2>9. \A n \in 1..Len(o) : n > j => o[n].owner # NoMacro
      BY <1>3, <2>1, <2>7
  <2>10. Max(toggled) = j
    <3>1. toggled \subseteq Nat /\ j \in toggled /\ \A y \in toggled : j >= y
        BY <1>1, <2>8, <2>9
    <3> QED BY <3>1, GreatestIs
  <2>11. UntoggledOf(o) = Live(u)
    <3>1. toggled # {}
        BY <1>1, <2>8
    <3> QED BY <2>7, <2>10, <3>1 DEF UntoggledOf
  <2> QED BY <2>2, <2>3, <2>4, <2>6, <2>11, PopRemovedActivates
<1> QED BY <1>4, <1>5

\* The live layer of a macro is where the macro knows it.
LEMMA OwnedIsPlaced ==
    ASSUME NEW s \in Switchers, NEW h, Arranged(s, h), NEW m \in Macros,
           NEW j \in DOMAIN Live(s), Live(s)[j].owner = m
    PROVE  h[m] \in Window(s) /\ ~s.stack[h[m]].removed /\ s.stack[h[m]].owner = m
<1>1. DOMAIN Live(s) = 1..Len(Live(s))
    BY LiveType, LenProperties
<1>2. PICK i \in 1..s.size : ~Records(s)[i].removed /\ Live(s)[j] = EntryOf(Records(s)[i])
    BY <1>1, KeptFrom, RecordsAre DEF Live
<1>3. s.size - i \in 0..(s.size - 1) /\ Records(s)[i] = s.stack[Below(s, s.size - i)]
    BY RecordsAre, RingIs
<1> DEFINE b == Below(s, s.size - i)
<1>4. b \in Window(s) /\ ~s.stack[b].removed /\ s.stack[b].owner = m
    BY <1>2, <1>3, WindowIs DEF EntryOf
<1> HIDE DEF b
<1>5. h[m] = b
    BY <1>4 DEF Arranged, Placed
<1> QED BY <1>4, <1>5

\* A macro without a live layer need not remember a slot.
LEMMA SlotForgotten ==
    ASSUME NEW u \in Switchers, NEW h \in [Macros -> 0..NoSlot], Arranged(u, h), NEW m \in Macros, NEW n \in 0..NoSlot,
           \A i \in Window(u) : u.stack[i].removed \/ u.stack[i].owner # m
    PROVE  Arranged(u, [h EXCEPT ![m] = n])
BY DEF Arranged, Placed

\* A macro lets its layer go: it is taken out, wherever it is.
LEMMA RemoveRecordActivates ==
    ASSUME NEW s \in Switchers, NEW h \in [Macros -> 0..NoSlot], Orderly(s, h), NEW m \in Macros,
           NEW t, t = RemoveRecord(s, h[m])
    PROVE  /\ t \in Switchers /\ Orderly(t, [h EXCEPT ![m] = NoSlot])
           /\ IF \E i \in DOMAIN Live(s) : Live(s)[i].owner = m
              THEN \E i \in DOMAIN Live(s) : Live(s)[i].owner = m /\ Activation(s.keymap, RemoveAt(Live(s), i), t)
              ELSE \/ Activation(s.keymap, Live(s), t)
                   \/ \E i \in DOMAIN Live(s) : Activation(s.keymap, RemoveAt(Live(s), i), t)
<1> DEFINE b == h[m]
           after == [h EXCEPT ![m] = NoSlot]
<1>1. Arranged(s, h) /\ Window(s) \subseteq Slots /\ DOMAIN Live(s) = 1..Len(Live(s)) /\ NoSlot \in 0..NoSlot
    BY WindowIs, LiveType, LenProperties, Sizes DEF Orderly, NoSlot
<1>2. \A i \in Window(s) : ~s.stack[i].removed /\ s.stack[i].owner = m => i = b
    BY <1>1 DEF Arranged, Placed
<1>3. CASE b \notin Window(s)
  <2>1. t = PopRemoved(s)
      BY <1>3, RemoveRecordIs
  <2>2. Arranged(s, after)
      BY <1>1, <1>2, <1>3, SlotForgotten, Zenon
  <2>3. ~\E i \in DOMAIN Live(s) : Live(s)[i].owner = m
      BY <1>1, <1>3, OwnedIsPlaced
  <2>4. t \in Switchers /\ Orderly(t, after) /\ Activation(s.keymap, Live(s), t)
      BY <2>1, <2>2, PopRemovedActivates
  <2> QED BY <2>3, <2>4
<1>4. CASE b \in Window(s)
  <2> DEFINE u == Ended(s, b)
             r == Withdrawn(s.stack[b])
  <2>1. PICK d \in 0..(s.size - 1) : b = Below(s, d)
      BY <1>4 DEF Window
  <2>2. b \in Slots /\ t = PopRemoved(u)
      BY <1>4, RemoveRecordIs
  <2>3. u \in Switchers /\ u = [s EXCEPT !.stack = [s.stack EXCEPT ![b] = r]]
      BY <2>2, MarkedIs DEF Restacked
  <2>4. r \in Record /\ r.removed
    <3>1. s.stack[b] \in Record
        BY <2>2, RingIs
    <3> QED BY <3>1 DEF Record, Withdrawn
  <2> HIDE DEF u, r, b
  <2>5. u.topIdx = s.topIdx /\ u.size = s.size /\ u.keymap = s.keymap /\ u.stack = [s.stack EXCEPT ![Below(s, d)] = r]
      BY <2>1, <2>3 DEF Switchers
  <2>6. /\ Arranged(u, h)
        /\ s.stack[Below(s, d)].removed => Live(u) = Live(s)
        /\ ~s.stack[Below(s, d)].removed => RecordTaken(s, d, Live(u))
    <3>1. Arranged(u, h)
        BY <1>1, <2>3, <2>4, <2>5, RecordRemoved, Zenon
    <3>2. s.stack[Below(s, d)].removed => Live(u) = Live(s)
      <4>1. Arranged(s, h) /\ u \in Switchers
          BY <1>1, <2>3
      <4>2. u.topIdx = s.topIdx /\ u.size = s.size /\ u.stack = [s.stack EXCEPT ![Below(s, d)] = r]
          BY <2>5
      <4> SUFFICES ASSUME s.stack[Below(s, d)].removed PROVE Live(u) = Live(s)
          OBVIOUS
      <4> QED BY <2>4, <4>1, <4>2, RecordRemoved, ZenonT(30)
    <3>3. ~s.stack[Below(s, d)].removed => RecordTaken(s, d, Live(u))
        BY <1>1, <2>3, <2>4, <2>5, RecordRemoved, Zenon
    <3> QED BY <3>1, <3>2, <3>3, Zenon
  <2>7. \A i \in Window(u) : u.stack[i].removed \/ u.stack[i].owner # m
    <3>1. Window(u) = Window(s) /\ s.stack \in [Slots -> Record]
        BY <2>5, SameWindow, RingIs
    <3> QED BY <1>1, <1>2, <2>1, <2>4, <2>5, <3>1
  <2>8. Arranged(u, after)
      BY <1>1, <2>3, <2>6, <2>7, SlotForgotten
  <2>9. t \in Switchers /\ Orderly(t, after) /\ Activation(s.keymap, Live(u), t)
      BY <2>2, <2>3, <2>5, <2>8, PopRemovedActivates
  <2>10. (\E i \in DOMAIN Live(s) : Live(s)[i].owner = m) => ~s.stack[b].removed /\ s.stack[b].owner = m
      BY <1>1, OwnedIsPlaced DEF b
  <2>11. CASE s.stack[b].removed
      BY <2>1, <2>6, <2>9, <2>10, <2>11
  <2>12. CASE ~s.stack[b].removed
    <3>1. RecordTaken(s, d, Live(u))
        BY <2>1, <2>6, <2>12
    <3>2. PICK j \in 1..Len(Live(s)) : Live(s)[j] = EntryOf(s.stack[b]) /\ Live(u) = RemoveAt(Live(s), j)
        BY <2>1, <3>1 DEF RecordTaken
    <3>3. Live(s)[j].owner = s.stack[b].owner
        BY <3>2 DEF EntryOf
    <3> HIDE DEF after
    <3>4. j \in DOMAIN Live(s) /\ Activation(s.keymap, RemoveAt(Live(s), j), t)
        BY <1>1, <2>9, <3>2
    <3> QED BY <2>9, <2>10, <3>3, <3>4, Zenon DEF after
  <2> QED BY <2>11, <2>12
<1> QED BY <1>3, <1>4

\* The layer e goes on top of the layers o; the first of them may be forgotten.
PutOn(o, e, t) ==
    /\ Live(t) = Append(o, e) \/ Live(t) = Append(Tail(o), e)
    /\ t.keymap = e.keymap /\ t.stackLayer = e.layer

LEMMA PutOnTop ==
    ASSUME NEW s \in Switchers, NEW r \in Record, ~r.removed,
           NEW u \in Switchers, u = Pushed(s, r)
    PROVE  Live(u) = Append(Live(s), EntryOf(r)) \/ Live(u) = Append(Tail(Live(s)), EntryOf(r))
<1> DEFINE q == Records(s)
<1>1. q \in Seq(Record) /\ q # <<>>
    BY RecordsAre
<1>2. Records(u) = Append(q, r) \/ Records(u) = Append(Tail(q), r)
    BY PushedRecords
<1> HIDE DEF q
<1>3. Tail(q) \in Seq(Record)
    BY <1>1
<1>4. Kept(Append(q, r)) = Append(Kept(q), EntryOf(r)) /\ Kept(Append(Tail(q), r)) = Append(Kept(Tail(q)), EntryOf(r))
    BY <1>1, <1>3, KeptIs
<1>5. Kept(Tail(q)) = Kept(q) \/ Kept(Tail(q)) = Tail(Kept(q))
    BY <1>1, KeptTail
<1> QED BY <1>2, <1>4, <1>5 DEF q, Live

LEMMA PushActivates ==
    ASSUME NEW s \in Switchers, NEW h \in [Macros -> 0..NoSlot], Orderly(s, h),
           NEW l \in Layers, NEW k \in Keymaps, NEW owner \in Macros \cup {NoMacro},
           NEW t, t = Push(s, l, k, owner)
    PROVE  /\ t \in Switchers /\ t.topIdx \in 0..NoSlot /\ t.topIdx # NoSlot
           /\ PutOn(Live(s), [layer |-> l, keymap |-> k, owner |-> owner], t)
           /\ owner = NoMacro => Orderly(t, h)
           /\ owner \in Macros /\ h[owner] = NoSlot => Orderly(t, [h EXCEPT ![owner] = t.topIdx])
<1> DEFINE r == Entry(l, k, owner)
           u == Pushed(s, r)
           p == Pos(s, 1)
           e == [layer |-> l, keymap |-> k, owner |-> owner]
<1>1. t = activateLayer(u) /\ u \in Switchers /\ p \in Slots /\ r \in Record
    BY PushIs DEF Restacked
<1>2. ~r.removed /\ (r.held <=> r.owner # NoMacro) /\ r.owner = owner /\ EntryOf(r) = e
    BY DEF Entry, EntryOf
<1> HIDE DEF r
<1>3. /\ u.topIdx = p /\ Top(u) = r /\ p \notin Window(s)
      /\ \A i \in Window(u) : IF i = p THEN u.stack[i] = r ELSE i \in Window(s) /\ u.stack[i] = s.stack[i]
    BY <1>1, PushedRecords
<1>4. Live(u) = Append(Live(s), e) \/ Live(u) = Append(Tail(Live(s)), e)
    BY <1>1, <1>2, PutOnTop DEF Orderly
<1> HIDE DEF u, p
<1>5. /\ t \in Switchers /\ Live(t) = Live(u) /\ \A g : Arranged(u, g) => Orderly(t, g)
      /\ t.topIdx = p /\ t.keymap = r.keymap /\ t.stackLayer = r.layer
    BY <1>1, <1>2, <1>3, ActivationIs, ActivateIs
<1>6. PutOn(Live(s), e, t)
    BY <1>2, <1>4, <1>5 DEF PutOn, EntryOf
<1>7. ASSUME NEW g, Arranged(s, g), owner \in Macros => g[owner] = p PROVE Orderly(t, g)
  <2>1. Placed(r, p, g)
      BY <1>2, <1>7 DEF Placed
  <2>2. Arranged(u, g)
      BY <1>3, <1>7, <2>1 DEF Arranged
  <2> QED BY <1>5, <2>2
<1>8. Arranged(s, h) /\ p \in 0..NoSlot /\ p # NoSlot /\ Window(s) \subseteq Slots /\ NoSlot \notin Slots
    BY <1>1, WindowIs, Sizes DEF Orderly, Slots, NoSlot
<1>9. ASSUME owner \in Macros, h[owner] = NoSlot PROVE Orderly(t, [h EXCEPT ![owner] = p])
  <2>1. \A i \in Window(s) : s.stack[i].removed \/ s.stack[i].owner # owner
      BY <1>8, <1>9 DEF Arranged, Placed
  <2>2. Arranged(s, [h EXCEPT ![owner] = p])
      BY <1>8, <1>9, <2>1, SlotForgotten
  <2> QED BY <1>7, <1>9, <2>2
<1>10. owner = NoMacro => Orderly(t, h)
    BY <1>7, <1>8, LayerAssumption
<1> QED BY <1>5, <1>6, <1>8, <1>9, <1>10

-----------------------------------------------------------------------------
(* What the commands and the keys do to the order.                         *)

LEMMA SameOrder ==
    ASSUME NEW s \in Switchers, NEW t \in Switchers, SameStack(s, t)
    PROVE  /\ Live(t) = Live(s) /\ t.keymap = s.keymap /\ t.stackLayer = s.stackLayer
           /\ \A h : Orderly(s, h) => Orderly(t, h)
<1>1. t.topIdx = s.topIdx /\ t.size = s.size /\ t.stack = s.stack
    BY DEF SameStack
<1>2. Window(t) = Window(s) /\ Records(t) = Records(s) /\ Top(t) = Top(s)
    BY <1>1, SameWindow, SameRecords
<1> QED BY <1>1, <1>2 DEF SameStack, Live, Orderly, Arranged

\* The stack is reset to the base layer of the keymap k.
LEMMA SwitchKeymapActivates ==
    ASSUME NEW s \in Switchers, NEW k \in Keymaps, NEW t, t = SwitchKeymap(s, k)
    PROVE  /\ t \in Switchers /\ Live(t) = <<BaseOf(k)>> /\ t.keymap = k /\ t.stackLayer = s.stackLayer
           /\ \A h : Orderly(t, h)
<1> DEFINE u == SwitchKeymapById(s, k)
<1>1. u \in Switchers /\ u.keymap = k /\ u.stackLayer = s.stackLayer /\ u.topIdx \in Slots
    BY DEF SwitchKeymapById, Switchers
<1>2. t = Emptied(u, u.topIdx) /\ t \in Switchers /\ t.stackLayer = s.stackLayer
    BY <1>1, ResetIs DEF SwitchKeymap, Restacked
<1> HIDE DEF u
<1>3. t.keymap = k
    BY <1>1, <1>2 DEF Emptied, Switchers
<1>4. /\ Records(t) = <<BaseRecord(k)>> /\ Top(t) = BaseRecord(k)
      /\ Window(t) = {u.topIdx} /\ t.stack[u.topIdx] = BaseRecord(k)
    BY <1>1, <1>2, EmptiedRecords
<1>5. Live(t) = <<BaseOf(k)>>
    BY <1>4, BaseIsKept DEF Live
<1>6. \A h : Orderly(t, h)
    BY <1>4, LayerAssumption DEF BaseRecord, Orderly, Arranged, Placed
<1> QED BY <1>2, <1>3, <1>5, <1>6

LEMMA StopActivates ==
    ASSUME NEW s \in Switchers, NEW h, Orderly(s, h),
           NEW t, t = [s EXCEPT !.stack = [i \in DOMAIN s.stack |-> Orphan(s.stack[i])]]
    PROVE  /\ t \in Switchers /\ Live(t) = Orphans(Live(s)) /\ t.keymap = s.keymap /\ t.stackLayer = s.stackLayer
           /\ Orderly(t, [m \in Macros |-> NoSlot])
<1> DEFINE stack == [i \in DOMAIN s.stack |-> Orphan(s.stack[i])]
<1>1. s.stack \in [Slots -> Record] /\ stack \in [Slots -> Record] /\ \A i \in Slots : stack[i] = Orphan(s.stack[i])
    BY RingIs, OrphanIs
<1> HIDE DEF stack
<1>2. t = [s EXCEPT !.stack = stack]
    BY DEF stack
<1>3. /\ t \in Switchers /\ t.stack = stack /\ t.topIdx = s.topIdx /\ t.size = s.size
      /\ t.keymap = s.keymap /\ t.stackLayer = s.stackLayer
    BY <1>1, <1>2 DEF Switchers
<1>4. Window(t) = Window(s) /\ Window(s) \subseteq Slots /\ s.topIdx \in Slots
    BY <1>3, SameWindow, WindowIs
<1>5. Records(t) = Orphans(Records(s))
  <2> DEFINE p == Records(s)
             q == Records(t)
  <2>1. /\ p \in Seq(Record) /\ Len(p) = s.size /\ DOMAIN p = 1..s.size
        /\ \A i \in 1..s.size : p[i] = s.stack[Below(s, s.size - i)]
      BY RecordsAre, LenProperties
  <2>2. /\ q \in Seq(Record) /\ Len(q) = s.size
        /\ \A i \in 1..s.size : q[i] = t.stack[Below(t, s.size - i)]
    <3>1. t \in Switchers /\ t.size = s.size
        BY <1>3
    <3>2. Records(t) \in Seq(Record) /\ Len(Records(t)) = t.size
        BY <3>1, RecordsAre
    <3>3. \A i \in 1..t.size : Records(t)[i] = t.stack[Below(t, t.size - i)]
        BY <3>1, RecordsAre
    <3> QED BY <3>1, <3>2, <3>3
  <2> HIDE DEF p, q
  <2>3. \A i \in 1..s.size : q[i] = Orphan(p[i])
    <3> SUFFICES ASSUME NEW i \in 1..s.size PROVE q[i] = Orphan(p[i])
        OBVIOUS
    <3>1. s.size - i \in 0..(s.size - 1)
        BY RingIs
    <3>2. Below(t, s.size - i) = Below(s, s.size - i) /\ Below(s, s.size - i) \in Slots
        BY <1>3, <1>4, <3>1, SameWindow, WindowIs
    <3> QED BY <1>1, <1>3, <2>1, <2>2, <3>2
  <2>4. Orphans(p) \in Seq(Record) /\ Len(Orphans(p)) = s.size /\ \A i \in 1..s.size : Orphans(p)[i] = Orphan(p[i])
    <3>1. Orphans(p) \in [1..s.size -> Record] /\ s.size \in Nat
      <4>1. \A i \in 1..s.size : p[i] \in Record
          BY <2>1
      <4> QED BY <2>1, <4>1, OrphanIs, RingIs DEF Orphans
    <3>2. Orphans(p) \in Seq(Record)
        BY <3>1, SeqDef
    <3> QED BY <2>1, <3>1, <3>2 DEF Orphans
  <2>5. q = Orphans(p)
      BY <2>2, <2>3, <2>4, SeqEqual
  <2> QED BY <2>5 DEF p, q
<1>6. Live(t) = Orphans(Live(s))
    BY <1>5, RecordsAre, KeptOrphans DEF Live
<1>7. \A i \in Window(t) : Placed(t.stack[i], i, [m \in Macros |-> NoSlot])
  <2> SUFFICES ASSUME NEW i \in Window(s) PROVE Placed(Orphan(s.stack[i]), i, [m \in Macros |-> NoSlot])
      BY <1>1, <1>3, <1>4
  <2>1. s.stack[i] \in Record /\ Placed(s.stack[i], i, h)
      BY <1>1, <1>4 DEF Orderly, Arranged
  <2>2. Stopped # NoMacro /\ Stopped \notin Macros /\ NoMacro \notin Macros
      BY LayerAssumption DEF Stopped, NoMacro
  <2> DEFINE r == s.stack[i]
             o == Orphan(r)
  <2>3. /\ o.removed = r.removed /\ o.held = r.held
        /\ o.owner = IF r.owner \in Macros THEN Stopped ELSE r.owner
      BY <2>1 DEF Orphan, Record
  <2> HIDE DEF o
  <2> QED BY <2>1, <2>2, <2>3 DEF Placed, o
<1>8. ~Top(t).removed
    BY <1>1, <1>3, <1>4, OrphanIs DEF Orderly, Top
<1> QED BY <1>3, <1>6, <1>7, <1>8 DEF Orderly, Arranged

\* The operators of LayerOrder are those of this module.
LEMMA OrderIs ==
    /\ \A o : Order!Last(o) = Last(o)
    /\ \A o, i : Order!RemoveAt(o, i) = RemoveAt(o, i)
    /\ \A T : Order!Max(T) = Max(T)
    /\ \A k : Order!BaseOf(k) = BaseOf(k)
    /\ Order!Entries = Entries
BY DEF Order!Last, Last, Order!RemoveAt, RemoveAt, Order!Max, Max, Order!BaseOf, BaseOf, Order!Entries, Entries

Holding == {m \in Macros : holder[m] # NoSlot}

\* One step of the order, and the stack keeps it.
OrderStep == Orderly(layers', holder') /\ (Order!Step \/ UNCHANGED Order!vars)

LEMMA Activated ==
    ASSUME NEW o, Activation(layers.keymap, o, layers')
    PROVE  Order!Activate(o)
BY OrderIs DEF Order!Activate, Activation

LEMMA PutOnActivated ==
    ASSUME NEW o \in Seq(Entries), o # <<>>, NEW e \in Entries, PutOn(o, e, layers')
    PROVE  Order!PushOn(o, e) /\ Order!Last(Live(layers')) = e
<1>1. Tail(o) \in Seq(Entries)
    OBVIOUS
<1>2. \A p \in Seq(Entries) : Append(p, e) # <<>> /\ Last(Append(p, e)) = e
    BY DEF Last
<1>3. CASE Live(layers') = Append(o, e)
    BY <1>2, <1>3, OrderIs DEF Order!Activate, Order!PushOn, PutOn
<1>4. CASE Live(layers') = Append(Tail(o), e)
    BY <1>1, <1>2, <1>4, OrderIs DEF Order!Activate, Order!PushOn, PutOn
<1> QED BY <1>3, <1>4 DEF PutOn

LEMMA OrderlyLive ==
    ASSUME NEW s \in Switchers, NEW h, Orderly(s, h)
    PROVE  Live(s) \in Seq(Entries) /\ Live(s) # <<>> /\ Last(Live(s)) = EntryOf(Top(s))
BY LiveType, TopIsLast DEF Orderly

LEMMA StutterStep ==
    ASSUME layers \in Switchers, layers' \in Switchers, Orderly(layers, holder), SameStack(layers, layers'), holder' = holder
    PROVE  OrderStep
<1>1. Live(layers') = Live(layers) /\ layers'.keymap = layers.keymap /\ layers'.stackLayer = layers.stackLayer
    BY SameOrder
<1>2. Orderly(layers', holder')
    BY SameOrder
<1> QED BY <1>1, <1>2 DEF OrderStep, Order!vars

\* A layer is toggled, or a macro begins to hold one.
LEMMA PushStep ==
    ASSUME layers \in Switchers, MacrosTyped, Orderly(layers, holder),
           NEW s \in Switchers, SameStack(layers, s),
           NEW l \in Layers, NEW k \in Keymaps, NEW owner \in Macros \cup {NoMacro},
           layers' = Push(s, l, k, owner),
           IF owner = NoMacro THEN holder' = holder
           ELSE holder[owner] = NoSlot /\ holder' = [holder EXCEPT ![owner] = layers'.topIdx]
    PROVE  OrderStep
<1> DEFINE e == [layer |-> l, keymap |-> k, owner |-> owner]
<1>1. holder \in [Macros -> 0..NoSlot] /\ NoMacro \notin Macros /\ Stopped \notin Macros /\ NoMacro # Stopped
    BY LayerAssumption DEF MacrosTyped, NoMacro, Stopped
<1>2. Orderly(s, holder) /\ Live(s) = Live(layers)
    BY SameOrder
<1>3. /\ layers' \in Switchers /\ layers'.topIdx \in 0..NoSlot /\ layers'.topIdx # NoSlot
      /\ PutOn(Live(s), e, layers')
      /\ owner = NoMacro => Orderly(layers', holder)
      /\ owner \in Macros /\ holder[owner] = NoSlot => Orderly(layers', [holder EXCEPT ![owner] = layers'.topIdx])
    BY <1>1, <1>2, PushActivates
<1>4. e \in Entries /\ e.owner = owner /\ Live(layers) \in Seq(Entries) /\ Live(layers) # <<>>
    BY OrderlyLive DEF Entries
<1> HIDE DEF e
<1>5. Order!PushOn(Live(layers), e) /\ Order!Last(Live(layers')) = e
    BY <1>2, <1>3, <1>4, PutOnActivated
<1>6. IF owner = NoMacro THEN Holding' = Holding ELSE owner \notin Holding /\ Holding' = Holding \cup {owner}
    BY <1>1, <1>3 DEF Holding
<1>7. Order!Push
    BY <1>1, <1>4, <1>5, <1>6, OrderIs DEF Order!Push, Holding
<1>8. Orderly(layers', holder')
    BY <1>1, <1>3
<1> QED BY <1>7, <1>8 DEF OrderStep, Order!Step

LEMMA UntoggleStep ==
    ASSUME layers \in Switchers, Orderly(layers, holder), NEW s \in Switchers, SameStack(layers, s),
           layers' = PopToggled(s), holder' = holder
    PROVE  OrderStep
<1>1. Orderly(s, holder) /\ Live(s) = Live(layers) /\ s.keymap = layers.keymap
    BY SameOrder
<1>2. Orderly(layers', holder) /\ Activation(layers.keymap, UntoggledOf(Live(layers)), layers')
    BY <1>1, PopToggledActivates
<1>3. Order!Untoggled = UntoggledOf(Live(layers))
    BY OrderIs DEF Order!Untoggled, UntoggledOf
<1>4. Order!Untoggle
    BY <1>2, <1>3, Activated DEF Order!Untoggle
<1> QED BY <1>2, <1>4 DEF OrderStep, Order!Step

\* The key that toggled the layer on top toggles it again (a double tap).
LEMMA RetoggleStep ==
    ASSUME layers \in Switchers, MacrosTyped, Orderly(layers, holder), NEW s \in Switchers, SameStack(layers, s),
           NEW l \in Layers, Top(s).layer = l, layers' = LegacyPush(PopToggled(s), l), holder' = holder
    PROVE  OrderStep
<1> DEFINE o == UntoggledOf(Live(layers))
           p == PopToggled(s)
           e == [layer |-> l, keymap |-> p.keymap, owner |-> NoMacro]
<1>1. Orderly(s, holder) /\ Live(s) = Live(layers) /\ s.keymap = layers.keymap
    BY SameOrder
<1>2. p \in Switchers /\ Orderly(p, holder) /\ Activation(layers.keymap, o, p)
    BY <1>1, PopToggledActivates
<1> HIDE DEF p
<1>3. p.keymap \in Keymaps /\ layers' = Push(p, l, p.keymap, NoMacro)
    BY <1>2 DEF Switchers, LegacyPush, p
<1>4. Orderly(layers', holder') /\ PutOn(Live(p), e, layers')
    BY <1>2, <1>3, PushActivates DEF MacrosTyped
<1>5. e \in Entries /\ Live(p) \in Seq(Entries) /\ Live(p) # <<>>
    BY <1>2, <1>3, OrderlyLive DEF Entries
<1>6. Order!PushOn(Live(p), e) /\ Order!Last(Live(layers')) = e
    BY <1>4, <1>5, PutOnActivated
<1>7. Live(p) = IF o = <<>> THEN <<BaseOf(layers.keymap)>> ELSE o
    BY <1>2 DEF Activation
<1>8. Order!Untoggled = o
    BY OrderIs DEF Order!Untoggled, UntoggledOf
<1>9. Order!Last(Live(layers)).layer = l
    BY <1>1, OrderlyLive, OrderIs DEF EntryOf
<1> HIDE DEF o
<1>10. Order!PushOn(IF Order!Untoggled = <<>> THEN <<Order!BaseOf(layers.keymap)>> ELSE Order!Untoggled, e)
    BY <1>6, <1>7, <1>8, OrderIs
<1>11. Order!Retoggle
    BY <1>3, <1>6, <1>9, <1>10 DEF Order!Retoggle
<1> QED BY <1>4, <1>11 DEF OrderStep, Order!Step

LEMMA SwitchStep ==
    ASSUME layers \in Switchers, NEW s \in Switchers, SameStack(layers, s),
           NEW k \in Keymaps, layers' = SwitchKeymap(s, k), holder' = holder
    PROVE  OrderStep
<1>1. s.stackLayer = layers.stackLayer
    BY DEF SameStack
<1>2. /\ Live(layers') = <<BaseOf(k)>> /\ layers'.keymap = k /\ layers'.stackLayer = layers.stackLayer
      /\ Orderly(layers', holder')
    BY <1>1, SwitchKeymapActivates
<1>3. Order!SwitchKeymap(k)
    BY <1>2, OrderIs DEF Order!SwitchKeymap
<1> QED BY <1>2, <1>3 DEF OrderStep, Order!Step

LEMMA AbandonStep ==
    ASSUME layers \in Switchers, Orderly(layers, holder), NEW s \in Switchers, SameStack(layers, s), StopAllMacros(s)
    PROVE  OrderStep
<1>1. Orderly(s, holder) /\ Live(s) = Live(layers) /\ s.keymap = layers.keymap /\ s.stackLayer = layers.stackLayer
    BY SameOrder
<1>2. layers' = [s EXCEPT !.stack = [i \in DOMAIN s.stack |-> Orphan(s.stack[i])]] /\ holder' = [m \in Macros |-> NoSlot]
    BY DEF StopAllMacros, Orphan
<1>3. /\ Live(layers') = Orphans(Live(layers)) /\ layers'.keymap = layers.keymap
      /\ layers'.stackLayer = layers.stackLayer /\ Orderly(layers', holder')
    BY <1>1, <1>2, StopActivates
<1>4. Holding' = {}
    BY <1>2 DEF Holding
<1>5. Order!Abandon
    BY <1>3, <1>4 DEF Order!Abandon, Orphans, Orphan, Holding
<1> QED BY <1>3, <1>5 DEF OrderStep, Order!Step

LEMMA ReleaseStep ==
    ASSUME layers \in Switchers, MacrosTyped, Orderly(layers, holder), NEW m \in Macros, holder[m] # NoSlot,
           layers' = RemoveRecord(layers, holder[m]), holder' = [holder EXCEPT ![m] = NoSlot]
    PROVE  OrderStep
<1> DEFINE o == Live(layers)
<1>1. holder \in [Macros -> 0..NoSlot]
    BY DEF MacrosTyped
<1>2. /\ Orderly(layers', holder')
      /\ IF \E i \in DOMAIN o : o[i].owner = m
         THEN \E i \in DOMAIN o : o[i].owner = m /\ Activation(layers.keymap, RemoveAt(o, i), layers')
         ELSE \/ Activation(layers.keymap, o, layers')
              \/ \E i \in DOMAIN o : Activation(layers.keymap, RemoveAt(o, i), layers')
    BY <1>1, RemoveRecordActivates
<1>3. Holding' = Holding \ {m} /\ m \in Holding
    BY <1>1 DEF Holding
<1>4. \A p : Activation(layers.keymap, p, layers') => Order!Activate(p)
    BY Activated
<1>5. IF \E i \in DOMAIN o : o[i].owner = m
      THEN \E i \in DOMAIN o : o[i].owner = m /\ Order!Activate(Order!RemoveAt(o, i))
      ELSE Order!Activate(o) \/ \E i \in DOMAIN o : Order!Activate(Order!RemoveAt(o, i))
    BY <1>2, <1>4, OrderIs
<1>6. Order!Release(m)
    BY <1>3, <1>5 DEF Order!Release, Holding
<1> QED BY <1>2, <1>6 DEF OrderStep, Order!Step

\* The commands of macros.
LEMMA CommandStep ==
    ASSUME layers \in Switchers, MacrosTyped, Orderly(layers, holder), NEW s \in Switchers, SameStack(layers, s), Command(s)
    PROVE  OrderStep
<1>1. CASE ToggleLayer(s)
  <2>1. PICK target \in Targets \cup {Previous(s)} : layers' = Push(s, target[1], target[2], NoMacro) /\ holder' = holder
      BY <1>1 DEF ToggleLayer
  <2>2. target[1] \in Layers /\ target[2] \in Keymaps
      BY PreviousIs, LayerAssumption
  <2> QED BY <2>1, <2>2, PushStep
<1>2. CASE UnToggleLayer(s)
    BY <1>2, UntoggleStep DEF UnToggleLayer
<1>3. CASE BeginHold(s)
  <2>1. PICK m \in Macros, target \in Targets :
            /\ holder[m] = NoSlot /\ layers' = Push(s, target[1], target[2], m)
            /\ holder' = [holder EXCEPT ![m] = layers'.topIdx]
      BY <1>3 DEF BeginHold
  <2>2. target[1] \in Layers /\ target[2] \in Keymaps /\ m # NoMacro
      BY LayerAssumption
  <2> QED BY <2>1, <2>2, PushStep
<1>4. CASE SwitchKeymapCommand(s)
    BY <1>4, SwitchStep DEF SwitchKeymapCommand
<1>5. CASE StopAllMacros(s)
    BY <1>5, AbandonStep
<1> QED BY <1>1, <1>2, <1>3, <1>4, <1>5 DEF Command

LEMMA LegacyPushStep ==
    ASSUME layers \in Switchers, MacrosTyped, Orderly(layers, holder), NEW s \in Switchers, SameStack(layers, s),
           NEW l \in Layers, layers' = LegacyPush(s, l), holder' = holder
    PROVE  OrderStep
<1>1. s.keymap \in Keymaps
    BY DEF Switchers
<1> QED BY <1>1, PushStep DEF LegacyPush

LEMMA LegacyPopStep ==
    ASSUME layers \in Switchers, Orderly(layers, holder), NEW s \in Switchers, SameStack(layers, s),
           NEW l \in Layers, layers' = LegacyPop(s, l), holder' = holder
    PROVE  OrderStep
<1>1. CASE ~Top(s).held /\ Top(s).layer = l
    BY <1>1, UntoggleStep DEF LegacyPop
<1>2. CASE ~(~Top(s).held /\ Top(s).layer = l)
    BY <1>2, StutterStep DEF LegacyPop
<1> QED BY <1>1, <1>2

\* The actions of keys.
LEMMA KeyActionStep ==
    ASSUME layers \in Switchers, MacrosTyped, Orderly(layers, holder), NEW s \in Switchers, SameStack(layers, s),
           NEW key \in Keys, NEW action \in KeyActions, NEW activated \in BOOLEAN, NEW doubleTapped \in BOOLEAN,
           layers' = ApplyKeyAction(s, key, action, activated, doubleTapped), holder' = holder
    PROVE  OrderStep
<1>1. IF action.type = "switchKeymap" THEN action.to \in Keymaps ELSE action.to \in Layers
    BY ActionsAre
<1> DEFINE l == action.to
<1>2. CASE layers' = s
    BY <1>2, StutterStep
<1>3. CASE l \in Layers /\ layers' = LegacyPop(s, l)
    BY <1>3, LegacyPopStep
<1>4. CASE l \in Layers /\ layers' = LegacyPush(LegacyPop(s, l), l)
  <2>1. CASE ~Top(s).held /\ Top(s).layer = l
    <3>1. LegacyPop(s, l) = PopToggled(s)
        BY <2>1 DEF LegacyPop
    <3> QED BY <1>4, <2>1, <3>1, RetoggleStep
  <2>2. CASE ~(~Top(s).held /\ Top(s).layer = l)
    <3>1. LegacyPop(s, l) = s
        BY <2>2 DEF LegacyPop
    <3> QED BY <1>4, <3>1, LegacyPushStep
  <2> QED BY <2>1, <2>2
<1>5. CASE l \in Layers /\ layers' = LegacyPush(s, l)
    BY <1>5, LegacyPushStep
<1>6. CASE l \in Keymaps /\ layers' = SwitchKeymap(s, l)
    BY <1>6, SwitchStep
<1> DEFINE t == layers'
<1>7. CASE action.type = "holdAndDoubleTapToggle"
  <2>1. t = DoubleTapToggle(s, key, l, activated, doubleTapped) /\ l \in Layers
      BY <1>1, <1>7 DEF ApplyKeyAction
  <2>2. t = s \/ t = LegacyPop(s, l) \/ t = LegacyPush(LegacyPop(s, l), l)
      BY <2>1 DEF DoubleTapToggle
  <2> QED BY <1>2, <1>3, <1>4, <2>1, <2>2
<1>8. CASE action.type = "toggle" /\ activated
  <2>1. t = ToggleOrPop(s, l) /\ l \in Layers
      BY <1>1, <1>8 DEF ApplyKeyAction
  <2> QED BY <1>3, <1>5, <2>1 DEF ToggleOrPop
<1>9. CASE action.type = "hold" /\ activated
  <2>1. t = LegacyPop(s, l) /\ l \in Layers
      BY <1>1, <1>9 DEF ApplyKeyAction
  <2> QED BY <1>3, <2>1
<1>10. CASE action.type = "switchKeymap" /\ activated
  <2>1. t = SwitchKeymap(s, l) /\ l \in Keymaps
      BY <1>1, <1>10 DEF ApplyKeyAction
  <2> QED BY <1>6, <2>1
<1>11. CASE ~(action.type = "holdAndDoubleTapToggle") /\ ~(action.type \in {"toggle", "hold", "switchKeymap"} /\ activated)
  <2>1. t = s
      BY <1>11 DEF ApplyKeyAction
  <2> QED BY <1>2, <2>1
<1> QED BY <1>7, <1>8, <1>9, <1>10, <1>11

LEMMA KeyHoldSameStack ==
    ASSUME NEW s \in Switchers, NEW key \in Keys, NEW active \in BOOLEAN, NEW changed \in BOOLEAN,
           NEW t, t = applyLayerHolds(s, key, active, changed)
    PROVE  t \in Switchers /\ SameStack(s, t)
<1> DEFINE action == Actions[s.keymap][Base][key]
           held == IF active THEN HoldLayer(s, action.to, FALSE) ELSE s
<1>1. CASE ~IsHold(action)
    BY <1>1 DEF applyLayerHolds, IsHold, SameStack
<1>2. CASE IsHold(action)
  <2>1. action.to \in Layers
      BY <1>2, ActionsAre, LayersAre DEF IsHold, Switchers
  <2> HIDE DEF action
  <2>2. held \in Switchers /\ SameStack(s, held)
    <3>1. CASE active
      <4> DEFINE r == HoldLayer(s, action.to, FALSE)
      <4>1. /\ s.heldLayer = LayerId_None => Forced(r, s, action.to)
            /\ s.heldLayer # LayerId_None => r \in Switchers /\ r = [s EXCEPT !.heldLayers = @ \cup {action.to}]
          BY <2>1, KeyHold
      <4> HIDE DEF r
      <4>2. r \in Switchers /\ SameStack(s, r)
          BY <4>1 DEF Forced, SameStack, Switchers
      <4> QED BY <3>1, <4>2 DEF r
    <3>2. CASE ~active
        BY <3>2 DEF SameStack
    <3> QED BY <3>1, <3>2
  <2>3. t = [held EXCEPT !.layerHolds = @ \/ changed]
      BY <1>2 DEF applyLayerHolds, IsHold, action
  <2> HIDE DEF held
  <2> QED BY <2>2, <2>3 DEF SameStack, Switchers
<1> QED BY <1>1, <1>2

LEMMA UpdateLayersStep ==
    ASSUME layers \in Switchers, Orderly(layers, holder), UpdateLayers
    PROVE  OrderStep
<1> DEFINE s == handleLayerChanges(layers)
<1>1. s \in Switchers /\ SameStack(layers, s)
    BY UpdateActiveLayerIs DEF handleLayerChanges, SameStack
<1> HIDE DEF s
<1>2. ResetHolds(s) \in Switchers /\ SameStack(layers, ResetHolds(s))
    BY <1>1 DEF ResetHolds, SameStack, Switchers
<1>3. layers' \in {s, ResetHolds(s)} /\ holder' = holder
    BY DEF UpdateLayers, s
<1> QED BY <1>1, <1>2, <1>3, StutterStep

LEMMA UpdateKeyStep ==
    ASSUME TypeOK, Orderly(layers, holder), NEW key \in Keys, UpdateKey(key)
    PROVE  OrderStep
<1>1. layers \in Switchers /\ MacrosTyped /\ keys.cached \in [Keys -> KeyActions]
      /\ layers.keymap \in Keymaps /\ layers.activeLayer \in Layers
    BY TypeOKIs DEF Switchers
<1>2. PICK active \in BOOLEAN, doubleTapped \in BOOLEAN :
        LET changed == active # (key \in keys.pressed)
            activated == changed /\ active
            action == IF activated THEN ActionOf(layers, key) ELSE keys.cached[key]
            s == applyLayerHolds(layers, key, active, changed)
        IN IF activated /\ action.type = "macro" THEN Command(s)
           ELSE /\ layers' = IF changed THEN ApplyKeyAction(s, key, action, activated, doubleTapped) ELSE s
                /\ UNCHANGED <<holder, fresh, commands>>
    BY Zenon DEF UpdateKey
<1> DEFINE changed == active # (key \in keys.pressed)
           activated == changed /\ active
           action == IF activated THEN ActionOf(layers, key) ELSE keys.cached[key]
           s == applyLayerHolds(layers, key, active, changed)
<1>3. IF activated /\ action.type = "macro" THEN Command(s)
      ELSE /\ layers' = IF changed THEN ApplyKeyAction(s, key, action, activated, doubleTapped) ELSE s
           /\ UNCHANGED <<holder, fresh, commands>>
    BY <1>2, Zenon
<1>4. changed \in BOOLEAN /\ activated \in BOOLEAN
    OBVIOUS
<1>5. action \in KeyActions
    BY <1>1, ActionsAre, LayersAre DEF ActionOf
<1>6. s \in Switchers /\ SameStack(layers, s)
  <2>1. \A c \in BOOLEAN : /\ applyLayerHolds(layers, key, active, c) \in Switchers
                           /\ SameStack(layers, applyLayerHolds(layers, key, active, c))
      BY <1>1, KeyHoldSameStack
  <2> HIDE DEF changed
  <2> QED BY <1>4, <2>1 DEF s
<1> HIDE DEF changed, action, s
<1>7. CASE activated /\ action.type = "macro"
    BY <1>1, <1>3, <1>6, <1>7, CommandStep
<1>8. CASE ~(activated /\ action.type = "macro") /\ changed
  <2>1. layers' = ApplyKeyAction(s, key, action, activated, doubleTapped) /\ holder' = holder
      BY <1>3, <1>8
  <2> QED BY <1>1, <1>4, <1>5, <1>6, <2>1, KeyActionStep, Zenon
<1>9. CASE ~(activated /\ action.type = "macro") /\ ~changed
    BY <1>1, <1>3, <1>6, <1>9, StutterStep
<1> QED BY <1>7, <1>8, <1>9

\* Every step of the program is one of the order, or leaves the order as it is.
LEMMA NextStep ==
    ASSUME TypeOK, Orderly(layers, holder), [Next]_vars
    PROVE  OrderStep
<1>1. layers \in Switchers /\ MacrosTyped
    BY TypeOKIs
<1>2. CASE RunCommand
  <2>1. SameStack(layers, layers)
      BY DEF SameStack
  <2> QED BY <1>1, <1>2, <2>1, CommandStep DEF RunCommand
<1>3. ASSUME NEW m \in Macros, EndHold(m) PROVE OrderStep
    BY <1>1, <1>3, ReleaseStep DEF EndHold
<1>4. CASE UpdateLayers
    BY <1>1, <1>4, UpdateLayersStep
<1>5. ASSUME NEW key \in Keys, UpdateKey(key) PROVE OrderStep
    BY <1>5, UpdateKeyStep
<1>6. CASE MergeReports
  <2>1. layers' \in Switchers /\ SameStack(layers, layers') /\ holder' = holder
      BY <1>1, <1>6 DEF MergeReports, SameStack, Switchers
  <2> QED BY <1>1, <2>1, StutterStep
<1>7. CASE UNCHANGED vars
  <2>1. SameStack(layers, layers') /\ layers' \in Switchers /\ holder' = holder
      BY <1>1, <1>7 DEF vars, SameStack
  <2> QED BY <1>1, <2>1, StutterStep
<1> QED BY <1>2, <1>3, <1>4, <1>5, <1>6, <1>7 DEF Next

LEMMA InitOrder ==
    ASSUME Init
    PROVE  Orderly(layers, holder) /\ Order!Init
<1>1. PICK k \in Keymaps :
         LET zero == [stack |-> [i \in 0..(LAYER_STACK_SIZE - 1) |-> Unused], topIdx |-> 0, size |-> 0, keymap |-> k,
                      stackLayer |-> Base, stackHeld |-> FALSE, heldLayers |-> {}, heldLayer |-> LayerId_None,
                      activeLayer |-> Base, layerHolds |-> FALSE, nativeActions |-> FALSE, uncomposed |-> FALSE]
         IN layers = Reset(zero)
    BY DEF Init
<1>2. /\ layers.stack = [i \in Slots |-> IF i = 0 THEN BaseRecord(k) ELSE Unused]
      /\ layers.topIdx = 0 /\ layers.size = 1 /\ layers.keymap = k /\ layers.stackLayer = Base
    BY <1>1 DEF Reset, BaseRecord, Slots
<1>3. layers \in Switchers /\ 0 \in Slots
    BY InitKeeps, TypeOKIs, Sizes DEF Slots
<1>4. layers = SwitchKeymap(layers, k)
  <2>1. SwitchKeymapById(layers, k) = layers
      BY <1>2, <1>3 DEF SwitchKeymapById, Switchers
  <2>2. Reset(layers) = Emptied(layers, 0)
      BY <1>2, <1>3, ResetIs
  <2>3. Emptied(layers, 0) = layers
      BY <1>2, <1>3 DEF Emptied, Switchers
  <2> QED BY <2>1, <2>2, <2>3 DEF SwitchKeymap
<1>5. Live(layers) = <<BaseOf(k)>> /\ \A h : Orderly(layers, h)
    BY <1>3, <1>4, SwitchKeymapActivates
<1>6. {m \in Macros : holder[m] # NoSlot} = {}
    BY DEF Init
<1> QED BY <1>2, <1>5, <1>6, OrderIs DEF Order!Init

\* StackKept: the ring of records, with its lazy removal, its reuse of slots and
\* the slots that macros remember, is the order of activated layers
\* (LayerStack_Push, LayerStack_Pop, LayerStack_RemoveRecord, LayerStack_Reset).
THEOREM StackIsAnOrder == Spec => StackKept
<1> DEFINE IInv == TypeOK /\ Orderly(layers, holder)
<1>1. Init => IInv /\ Order!Init
    BY InitKeeps, InitOrder
<1>2. IInv /\ [Next]_vars => IInv' /\ [Order!Next]_(Order!vars)
  <2> SUFFICES ASSUME IInv, [Next]_vars PROVE IInv' /\ [Order!Next]_(Order!vars)
      OBVIOUS
  <2>1. TypeOK' /\ OrderStep
      BY NextKeeps, NextStep
  <2>2. Orderly(layers, holder)'
      BY <2>1 DEF OrderStep, Orderly, Arranged, Placed, Top, Window, Below
  <2>3. [Order!Next]_(Order!vars)
      BY <2>1 DEF OrderStep, Order!Next
  <2> QED BY <2>1, <2>2, <2>3
<1> QED BY <1>1, <1>2, PTL DEF Spec, StackKept, Order!Spec
================================================================================
