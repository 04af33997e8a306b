------------------------------ MODULE MCLayers ------------------------------
EXTENDS Layers

Mod == 1
Fn == 2

Do(type, to) == [type |-> type, to |-> to]
Nothing == Do("none", Base)

\* Key 1 holds a layer and toggles it by a double tap, in both keymaps.  Key 2
\* toggles a layer; on that layer it switches the keymap.
MCActions ==
    [k \in Keymaps |-> [l \in Layers |-> [key \in Keys |->
        CASE key = 1 /\ l = Base -> Do("holdAndDoubleTapToggle", Mod)
          [] key = 2 /\ l = Base -> Do("toggle", Fn)
          [] key = 2 /\ l = Mod -> Do("switchKeymap", 3 - k)
          [] key = 2 /\ l = Fn -> Do("macro", Fn)
          [] OTHER -> Nothing]]]

MCTargets == {<<Mod, 1>>, <<Fn, 2>>}
=============================================================================
