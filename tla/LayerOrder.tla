----------------------------- MODULE LayerOrder -----------------------------
(***************************************************************************)
(* What the layer stack promises (reference-manual.md, Layer and keymap    *)
(* switching): the layers that were activated, in the order they were, the *)
(* last one on top.  The end of a hold takes out the hold's own layer,     *)
(* wherever it is; untoggle takes out the last layer that is not held; the *)
(* layer and the keymap are then those of the top.  There is no ring and   *)
(* no record that waits for its removal.  Layers is shown to implement it. *)
(***************************************************************************)
EXTENDS Naturals, Sequences, SequencesExt, FiniteSetsExt

CONSTANTS Layers, Keymaps,
          Macros,     \* those that hold layers
          Base, NoMacro, Stopped

\* Who keeps a layer: a macro that holds it, or one that was stopped while it
\* did; nobody, if the layer is toggled.
Entries == [layer : Layers, keymap : Keymaps, owner : Macros \cup {Stopped, NoMacro}]

VARIABLES order,    \* the activated layers, each with its keymap and its owner
          keymap,   \* the current keymap
          shown,    \* the layer that was activated last
          holding   \* the macros whose hold has not ended

vars == <<order, keymap, shown, holding>>

BaseOf(k) == [layer |-> Base, keymap |-> k, owner |-> NoMacro]

\* The top is activated; when nothing is left, the base layer of the keymap.
Activate(o) ==
    /\ order' = IF o = <<>> THEN <<BaseOf(keymap)>> ELSE o
    /\ keymap' = Last(order').keymap
    /\ shown' = Last(order').layer

\* The stack may be full; then the oldest layer is forgotten.
PushOn(o, entry) == Activate(Append(o, entry)) \/ Activate(Append(Tail(o), entry))

\* Any layer may become the top.
Push ==
    LET entry == Last(order')
    IN /\ entry \in Entries /\ entry.owner # Stopped /\ PushOn(order, entry)
       /\ IF entry.owner = NoMacro THEN UNCHANGED holding
          ELSE entry.owner \notin holding /\ holding' = holding \cup {entry.owner}

Untoggled ==
    LET toggled == {i \in DOMAIN order : order[i].owner = NoMacro}
    IN IF toggled = {} THEN order ELSE RemoveAt(order, Max(toggled))
Untoggle == Activate(Untoggled) /\ UNCHANGED holding

\* A key that toggles its layer anew.
Retoggle ==
    LET entry == Last(order')
    IN /\ entry.owner = NoMacro /\ entry.layer = Last(order).layer /\ entry.keymap \in Keymaps
       /\ PushOn(IF Untoggled = <<>> THEN <<BaseOf(keymap)>> ELSE Untoggled, entry)
       /\ UNCHANGED holding

\* A macro that outlived the layer it held - the stack was reset, or was full -
\* may take out one layer of somebody else.
Release(m) ==
    /\ m \in holding /\ holding' = holding \ {m}
    /\ IF \E i \in DOMAIN order : order[i].owner = m
       THEN \E i \in DOMAIN order : order[i].owner = m /\ Activate(RemoveAt(order, i))
       ELSE Activate(order) \/ \E i \in DOMAIN order : Activate(RemoveAt(order, i))

\* What a stopped macro holds stays where it is.
Abandon ==
    /\ order' = [i \in DOMAIN order |-> [order[i] EXCEPT !.owner = IF @ \in Macros THEN Stopped ELSE @]]
    /\ holding' = {}
    /\ UNCHANGED <<keymap, shown>>

\* The layer stays active until the next activation.
SwitchKeymap(k) == order' = <<BaseOf(k)>> /\ keymap' = k /\ UNCHANGED <<shown, holding>>

Init == order = <<BaseOf(keymap)>> /\ keymap \in Keymaps /\ shown = Base /\ holding = {}

Step ==
    \/ Push \/ Untoggle \/ Retoggle \/ Abandon
    \/ \E m \in Macros : Release(m)
    \/ \E k \in Keymaps : SwitchKeymap(k)

Next == vars' # vars /\ Step

Spec == Init /\ [][Next]_vars
=============================================================================
