------------------------------ MODULE MC_Start ------------------------------
(***************************************************************************)
(* Instances of the start of the plugin for TLC: sun_path has 2 octets,    *)
(* and the paths have up to 3; an argv of 6 holds 4 tokens.                *)
(***************************************************************************)
EXTENDS PluginStart, TLC

Words == {<<"a">>, <<"b", "b">>, <<"c", "c", "c">>}
MCTokens ==
  [kind : {"word"}, text : Words] \cup [kind : {"l", "r", "unknown"}, text : {<<"o">>}]
    \cup [kind : {"l="}, text : {<<>>}]
MCDefaultPath == <<"d">>
=============================================================================
