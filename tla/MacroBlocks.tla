---------------------------- MODULE MacroBlocks ----------------------------
(***************************************************************************)
(* What the control flow of a macro promises its author: braces group      *)
(* commands as if they were one, else follows a failed condition, while    *)
(* repeats, break leaves the innermost loop.  There are no scopes and no   *)
(* flags here, only the text of the macro and a place in it.  The          *)
(* interpreter, MacroControl, is shown to implement this.                  *)
(***************************************************************************)
EXTENDS MacroTexts

CONSTANT MACRO_SCOPE_STATE_POOL_SIZE    \* a macro and the blocks it is in at one time

VARIABLES prog,    \* the text
          pc,      \* the address of the command to run; 0 when the macro is not running
          failed,  \* would an else at pc find that the condition before it failed?
          stage    \* "fresh", "looping" (between two turns of a while) or "running" (conditions passed)

vars == <<prog, pc, failed, stage>>

Has(word) == Contains(Words(prog, pc), word)
IfBeforeLoop == \E k \in DOMAIN Words(prog, pc) : Words(prog, pc)[k] = "if" /\ \A l \in 1..k : Words(prog, pc)[l] # "while"
IfInLoop == \E k \in DOMAIN Words(prog, pc) : Words(prog, pc)[k] = "if" /\ \E l \in 1..k : Words(prog, pc)[l] = "while"

Stop == pc' = 0 /\ failed' = FALSE /\ stage' = "fresh"

GoTo(a, f) ==
    IF a \notin Addresses(prog) THEN Stop
    ELSE pc' = a /\ failed' = (f /\ Contains(Words(prog, a), "else")) /\ stage' = "fresh"

Stay(s) == pc' = pc /\ failed' = FALSE /\ stage' = s

(* The modifiers. *)
Reached == stage = "fresh" /\ Has("else") => failed
SkipElse == ~Reached /\ GoTo(After(prog, pc), FALSE)
FailIf == Reached /\ stage = "fresh" /\ IfBeforeLoop /\ GoTo(After(prog, pc), TRUE)
EndLoop == Reached /\ stage # "running" /\ Has("while") /\ GoTo(After(prog, pc), FALSE)
FailIfInLoop == Reached /\ stage # "running" /\ IfInLoop /\ Stay("looping")

(* The commands. *)
Complete == IF Has("while") THEN Stay("looping") ELSE GoTo(pc + 1, FALSE)

Act == Core(prog, pc) = "act" /\ (Complete \/ Stay("running"))

Open ==
    /\ Opens(prog, pc)
    /\ IF Cardinality(Openers(prog, pc)) + 2 <= MACRO_SCOPE_STATE_POOL_SIZE THEN GoTo(pc + 1, FALSE) ELSE Stop

Close ==
    /\ Core(prog, pc) = "}"
    /\ LET opener == Max(Openers(prog, pc))
       IN IF Loops(prog, opener) THEN pc' = opener /\ failed' = FALSE /\ stage' = "looping" ELSE GoTo(pc + 1, FALSE)

Break ==
    /\ Core(prog, pc) = "break"
    /\ LET loops == {o \in Openers(prog, pc) \cup {pc} : Loops(prog, o)}
       IN IF loops = {} THEN Stop ELSE GoTo(After(prog, Max(loops)), FALSE)

Exit == Core(prog, pc) = "exit" /\ Stop
Jump == pc \in Jumps(prog) /\ GoTo(prog.label, FALSE)
CountDown == Core(prog, pc) = "repeatFor" /\ Complete

Start == pc = 0 /\ GoTo(1, TRUE)

Run ==
    /\ pc # 0
    /\ \/ SkipElse \/ FailIf \/ EndLoop \/ FailIfInLoop
       \/ Reached /\ (Act \/ Open \/ Close \/ Break \/ Exit \/ Jump \/ CountDown)

Init == pc = 0 /\ failed = FALSE /\ stage = "fresh"
Next == (Start \/ Run) /\ UNCHANGED prog
Spec == Init /\ [][Next]_vars
=============================================================================
