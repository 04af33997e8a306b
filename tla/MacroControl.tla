---------------------------- MODULE MacroControl ----------------------------
(***************************************************************************)
(* How the interpreter of the macro language finds its way through a       *)
(* macro: processCommand and the commands if, else, while, break, exit,    *)
(* goTo, repeatFor, { and } of commands.c, the scopes and the loading of   *)
(* commands of core.c.                                                     *)
(*                                                                         *)
(* There is no parse tree.  { pushes a scope; } pops it and has the        *)
(* command with the { run once more, so that its modifiers can repeat the  *)
(* block; only when none does is the block skipped, by a dry run that      *)
(* counts braces.  What a command remembers between its runs are flags of  *)
(* its scope, and the next command must not find them set.                 *)
(*                                                                         *)
(* Conditions and counters are read from a world that changes all the      *)
(* time: every reading is free.  A macro is one action, of text.           *)
(***************************************************************************)
EXTENDS MacroTexts

CONSTANTS Commands,                    \* the commands macros are written with
          MaxCommands,                 \* bound: commands in a macro
          MACRO_SCOPE_STATE_POOL_SIZE, \* scopes a macro and the blocks it is in can have
          Careful                      \* are macros written around the flags that outlive their command?

ASSUME ControlAssumption ==
    MaxCommands \in Nat /\ MACRO_SCOPE_STATE_POOL_SIZE \in Nat \ {0} /\ Careful \in BOOLEAN

VARIABLES prog,      \* the text of the macro
          playing,   \* S->ms.macroPlaying
          scopes     \* from the scope of the macro to S->ls, each the parent of the next

vars == <<prog, playing, scopes>>

-----------------------------------------------------------------------------
(* Flags of a command that the next one finds: jumpToMatchingBrace loads   *)
(* the command after a block as part of the dry run, which clears nothing, *)
(* and a jump to address 0 by number clears nothing either.  Careful       *)
(* macros have no block and no break at such places, and jump only within  *)
(* a block, as every jump out of one leaves its scope behind.              *)
Uncleared(p) ==
    LET afterLoops == {After(p, o) : o \in {a \in Addresses(p) : Loops(p, a) /\ Opens(p, a)}}
    IN afterLoops \cup {p.label : a \in {j \in Jumps(p) : p.numeric /\ p.label = 1 /\ (Loops(p, j) \/ j \in afterLoops)}}

CarefulMacro(p) ==
    /\ \A a \in Uncleared(p) \cap Addresses(p) : Core(p, a) \notin {"{", "break"}
    /\ \A a \in Jumps(p) : Openers(p, a) = Openers(p, p.label)

-----------------------------------------------------------------------------
(* The scopes.                                                             *)

RootScope == [commandAddress |-> 1, lastIfSucceeded |-> FALSE, braceExecuting |-> FALSE,
              isWhileScope |-> FALSE, whileExecuting |-> FALSE, currentConditionPassed |-> FALSE]

\* memset(&S->ls->as, 0, sizeof S->ls->as)
Cleared(s) == [RootScope EXCEPT !.commandAddress = s.commandAddress, !.lastIfSucceeded = s.lastIfSucceeded]

WithTop(ls, s) == Append(Front(ls), s)

\* What a command returns, and the scopes it leaves.
Result(ls, flags) == [scopes |-> ls, flags |-> flags]

AtEnd(ls) == Last(ls).commandAddress = Len(prog.commands)

loadNextCommand(ls) ==
    WithTop(ls, IF AtEnd(ls) THEN Cleared(Last(ls)) ELSE [Cleared(Last(ls)) EXCEPT !.commandAddress = @ + 1])

\* Macros_LoadNextCommand() || Macros_LoadNextAction() || (S->ms.macroBroken = true), outside of a dry run.
LoadNext(ls) == Result(loadNextCommand(ls), IF AtEnd(ls) THEN {"Done", "Broken"} ELSE {"Done"})

PopScopes_Leaks(ls, k) == WithTop(ls, [ls[k] EXCEPT !.whileExecuting = FALSE])

\* Macros_PopScope until ls[k] is the current scope.
PopScopes(ls, k) == IF k = Len(ls) THEN ls ELSE Append(SubSeq(ls, 1, k - 1), [ls[k] EXCEPT !.whileExecuting = FALSE])

\* The dry run resets currentConditionPassed and no other flag.
jumpToMatchingBrace(ls) ==
    LET s == [Last(ls) EXCEPT !.currentConditionPassed = FALSE]
        range(a) == (s.commandAddress + 1)..a
        ends == {a \in Addresses(prog) : a > s.commandAddress /\ 1 + Depth(prog.commands, range(a)) = 0}
    IN IF ends = {} \/ ends = {Len(prog.commands)}
       THEN Result(WithTop(ls, [s EXCEPT !.commandAddress = Len(prog.commands)]), {"Done", "Broken"})
       ELSE Result(WithTop(ls, [s EXCEPT !.commandAddress = Min(ends) + 1]), {"Done"})

-----------------------------------------------------------------------------
(* The commands, as sets of results: one for each reading of the world.    *)

processAct(ls) == {Result(ls, {"Finished"}), Result(ls, {"InProgress"})}

processExitCommand(ls) == {Result(ls, {"Finished", "Broken"})}

processBreakCommand(ls) ==
    LET whiles == {k \in DOMAIN ls : ls[k].isWhileScope}
    IN {IF Last(ls).isWhileScope THEN LoadNext(ls)
        ELSE IF whiles = {} THEN Result(PopScopes(ls, 1), {"Finished", "Broken"})
        ELSE jumpToMatchingBrace(PopScopes(ls, Max(whiles)))}

\* Only loading a command clears the flags of the last one.
goTo(ls) ==
    LET s == Last(ls)
        stays == prog.label = s.commandAddress \/ (prog.numeric /\ prog.label = 1)
    IN {Result(WithTop(ls, [(IF stays THEN s ELSE Cleared(s)) EXCEPT !.commandAddress = prog.label]), {"Done"})}

processRepeatForCommand(ls) == goTo(ls) \cup {Result(ls, {"Finished"})}

processOpeningBraceCommand(ls) ==
    LET s == Last(ls)
        parent == WithTop(ls, [s EXCEPT !.braceExecuting = TRUE])
        child == [s EXCEPT !.lastIfSucceeded = FALSE]
    IN {IF s.braceExecuting THEN Result(WithTop(ls, [s EXCEPT !.braceExecuting = FALSE]), {"Finished"})
        ELSE IF Len(ls) < MACRO_SCOPE_STATE_POOL_SIZE THEN LoadNext(Append(parent, child))
        ELSE Result(LoadNext(ls).scopes, {"Done", "Broken"})}

processClosingBraceCommand(ls) ==
    {IF Len(ls) = 1 THEN Result(ls, {"InProgress", "Broken"}) ELSE Result(PopScopes(ls, Len(ls) - 1), {"InProgress"})}

RECURSIVE processCommand(_, _)

processIfCommand(rest, ls) ==
    processCommand(rest, ls) \cup
    IF Last(ls).currentConditionPassed THEN {} ELSE {Result(ls, {"Finished", "ConditionFailed"})}

processElse(rest, ls) == IF Last(ls).lastIfSucceeded THEN {Result(ls, {"Finished"})} ELSE processCommand(rest, ls)

processWhileCommand_StaysExecuting(rest, ls) ==
    LET s == Last(ls)
        begun == WithTop(ls, [s EXCEPT !.isWhileScope = TRUE, !.whileExecuting = TRUE, !.currentConditionPassed = FALSE])
        turnEnds(r) == IF "Finished" \in r.flags THEN Result(r.scopes, (r.flags \ {"Finished"}) \cup {"InProgress"}) ELSE r
    IN IF s.whileExecuting THEN {turnEnds(r) : r \in processCommand(rest, ls)}
       ELSE {turnEnds(r) : r \in processCommand(rest, begun)} \cup {Result(ls, {"Finished"})}

processWhileCommand(rest, ls) ==
    LET s == Last(ls)
        begun == WithTop(ls, [s EXCEPT !.isWhileScope = TRUE, !.whileExecuting = TRUE, !.currentConditionPassed = FALSE])
        ended(r) == WithTop(r.scopes, [Last(r.scopes) EXCEPT !.whileExecuting = FALSE])
        turnEnds(r) ==
            CASE "Finished" \in r.flags -> Result(ended(r), (r.flags \ {"Finished"}) \cup {"InProgress"})
              [] "Done" \in r.flags -> Result(ended(r), r.flags)
              [] OTHER -> r
    IN IF s.whileExecuting THEN {turnEnds(r) : r \in processCommand(rest, ls)}
       ELSE {turnEnds(r) : r \in processCommand(rest, begun)} \cup {Result(ls, {"Finished"})}

processCommand(words, ls) ==
    LET word == Head(words)
        rest == Tail(words)
    IN CASE word = "if" -> processIfCommand(rest, ls)
         [] word = "else" -> processElse(rest, ls)
         [] word = "while" -> processWhileCommand(rest, ls)
         [] word = "act" -> processAct(ls)
         [] word = "break" -> processBreakCommand(ls)
         [] word = "exit" -> processExitCommand(ls)
         [] word = "goTo" -> goTo(ls)
         [] word = "repeatFor" -> processRepeatForCommand(ls)
         [] word = "{" -> processOpeningBraceCommand(ls)
         [] word = "}" -> processClosingBraceCommand(ls)

\* The epilogue of every command: the block of a command that has finished is skipped.
epilogue(words, r) ==
    LET s == Last(r.scopes)
        over == r.flags \cap {"Finished", "Done"} # {}
        ls == WithTop(r.scopes, [s EXCEPT !.currentConditionPassed = "InProgress" \in r.flags,
                                          !.lastIfSucceeded = IF over THEN "ConditionFailed" \notin r.flags ELSE @])
    IN IF "Finished" \in r.flags /\ Last(words) = "{" THEN jumpToMatchingBrace(ls) ELSE Result(ls, r.flags)

Macros_ProcessCommandAction ==
    LET words == Words(prog, Last(scopes).commandAddress)
    IN {epilogue(words, r) : r \in processCommand(words, scopes)}

-----------------------------------------------------------------------------
(* Running the macro.                                                      *)

Init ==
    /\ prog \in {p \in Macros(Commands, MaxCommands) : Careful => CarefulMacro(p)}
    /\ playing = FALSE
    /\ scopes = <<>>

StartMacro ==
    /\ ~playing
    /\ playing' = TRUE
    /\ scopes' = <<RootScope>>
    /\ UNCHANGED prog

\* continueMacro returns: the command is not over, or has loaded what comes next itself.
ContinueMacro ==
    /\ playing
    /\ \E r \in Macros_ProcessCommandAction :
        /\ r.flags \cap {"InProgress", "Done"} # {} /\ "Broken" \notin r.flags
        /\ scopes' = r.scopes
    /\ UNCHANGED <<prog, playing>>

AdvanceMacro ==
    /\ playing
    /\ \E r \in Macros_ProcessCommandAction :
        /\ r.flags \cap {"InProgress", "Done", "Broken"} = {} /\ ~AtEnd(r.scopes)
        /\ scopes' = loadNextCommand(r.scopes)
    /\ UNCHANGED <<prog, playing>>

endMacro ==
    /\ playing
    /\ \E r \in Macros_ProcessCommandAction :
        "Broken" \in r.flags \/ (r.flags \cap {"InProgress", "Done"} = {} /\ AtEnd(r.scopes))
    /\ playing' = FALSE
    /\ scopes' = <<>>
    /\ UNCHANGED prog

Next == StartMacro \/ ContinueMacro \/ AdvanceMacro \/ endMacro
Spec == Init /\ [][Next]_vars

-----------------------------------------------------------------------------
(* Where the interpreter is, in the terms of MacroBlocks.  A command whose *)
(* block has just been left is run again only to find out whether it       *)
(* repeats: if it is no loop, the macro still is at the closing brace.     *)

here == Last(scopes)
looping == playing /\ Loops(prog, here.commandAddress)
returning == playing /\ ~looping /\ here.braceExecuting /\ Opens(prog, here.commandAddress)

place == IF ~playing THEN 0 ELSE IF returning THEN Closer(prog, here.commandAddress) ELSE here.commandAddress

phase ==
    CASE playing /\ (IF looping THEN here.whileExecuting ELSE ~returning /\ here.currentConditionPassed) -> "running"
      [] looping /\ ~here.whileExecuting /\ here.currentConditionPassed -> "looping"
      [] OTHER -> "fresh"

elseRuns ==
    playing /\ ~returning /\ phase = "fresh" /\ ~here.lastIfSucceeded /\ Contains(Words(prog, here.commandAddress), "else")

Blocks == INSTANCE MacroBlocks WITH pc <- place, failed <- elseRuns, stage <- phase

(* The interpreter executes the commands of a careful macro in the order   *)
(* its blocks, loops and conditions say: no command is skipped or repeated *)
(* otherwise, and a condition is not read again while its command runs.    *)
(* It is processCommand, the scopes and the flags against the text.        *)
KeepsBlocks == Blocks!Spec

(* The scopes in use are those of the blocks around the current command,   *)
(* each at the command that opened its block: break pops as many as it     *)
(* leaves and nothing else leaks one.                                      *)
ScopesMatchBlocks ==
    playing =>
        /\ {scopes[k].commandAddress : k \in 1..(Len(scopes) - 1)} = Openers(prog, here.commandAddress)
        /\ Len(scopes) = Cardinality(Openers(prog, here.commandAddress)) + 1
=============================================================================
