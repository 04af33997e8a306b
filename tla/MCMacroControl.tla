--------------------------- MODULE MCMacroControl ---------------------------
EXTENDS MacroControl

ControlCommands ==
    {<<"if", "act">>, <<"if", "{">>, <<"while", "{">>, <<"}">>, <<"if", "break">>, <<"else", "exit">>, <<"while", "repeatFor">>}
=============================================================================
