---------------------------- MODULE MacroTexts ----------------------------
(***************************************************************************)
(* The text of a macro: a sequence of commands, each a sequence of words.  *)
(* The last word is the command proper ("act" for all that do not touch    *)
(* the flow of control, "{", "}", "break", "exit", "goTo", "repeatFor"),   *)
(* the words before it are its modifiers ("if" for all the conditions,     *)
(* "else", "while").  Jumps go to one label; it is found by name or given  *)
(* as a number, which core.c does in different ways.                       *)
(***************************************************************************)
EXTENDS Naturals, FiniteSets, SequencesExt

Addresses(p) == DOMAIN p.commands
Words(p, a) == p.commands[a]
Core(p, a) == Last(Words(p, a))
Loops(p, a) == Contains(Words(p, a), "while")
Jumps(p) == {a \in Addresses(p) : Core(p, a) \in {"goTo", "repeatFor"}}

(* The blocks. *)
Count(text, range, brace) == Cardinality({a \in range : Last(text[a]) = brace})
Depth(text, range) == Count(text, range, "{") - Count(text, range, "}")

Opens(p, a) == Core(p, a) = "{"
Closer(p, a) == CHOOSE b \in Addresses(p) : a < b /\ Depth(p.commands, a..b) = 0 /\ \A c \in a..(b - 1) : Depth(p.commands, a..c) > 0
Openers(p, a) == {o \in Addresses(p) : Opens(p, o) /\ o < a /\ a <= Closer(p, o)}
After(p, a) == IF Opens(p, a) THEN Closer(p, a) + 1 ELSE a + 1

\* The macros of at most n commands: every block is closed.
Macros(Commands, n) ==
    LET Beginnings[k \in 0..n] ==
            IF k = 0 THEN {<<>>}
            ELSE {t \in {Append(text, c) : text \in Beginnings[k - 1], c \in Commands} :
                     Count(t, 1..k, "}") <= Count(t, 1..k, "{") /\ Depth(t, 1..k) <= n - k}
        Texts == {t \in UNION {Beginnings[k] : k \in 1..n} : Depth(t, DOMAIN t) = 0}
    IN {p \in [commands : Texts, label : 1..n, numeric : BOOLEAN] :
           /\ p.label \in Addresses(p)
           /\ Jumps(p) = {} => p.label = 1 /\ ~p.numeric
           /\ p.numeric => p.label = 1}
=============================================================================
