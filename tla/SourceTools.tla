---------------------------- MODULE SourceTools ----------------------------
(***************************************************************************)
(* What the tools say of a source without running it, for TLC: the sources *)
(* of MCFormatter, and scripts for ScopedRun in the trees the parser       *)
(* makes; and the servers through which other programs have sources        *)
(* looked at, or tools called.  A behaviour is about one of these.         *)
(***************************************************************************)
EXTENDS MCFormatter, ScopedRun, LanguageServer, McpServer

(* Statements over one capability, pay, and one name, f, that the script   *)
(* may or may not declare, as it may declare pay.                          *)
ScriptNames == {"pay", "f"}
CallOf(n) == <<"call", <<"name", n>>, << >>>>
Do(e) == <<"expression", <<e>>>>
Calls(n) == Do(CallOf(n))
Agent(n, body) == <<"agent", <<n, << >>, << >>, body>>>>
Lambda(body) == <<"agentexpr", << >>, << >>, body>>
Seed(n, e) == <<"seed", << <<"typed", n, << >>>>, e>>>>
Assign(n, e) == <<"assign", << <<"name", n>>, e>>>>
Void == <<"constant", "void">>
When(body) == <<"when", <<Void, body, <<"none">>>>>>

Steps == {Calls(n) : n \in ScriptNames}
    \cup {Agent(n, body) : n \in ScriptNames,
              body \in {<< >>, <<Calls("pay")>>, <<Calls("f")>>}}
    \cup {Seed("f", Lambda(<<Calls("pay")>>)), Seed("pay", Void), Assign("f", Lambda(<<Calls("f")>>))}

(* One thing after another.                                                *)
Straight == {<<a, b, c, d>> : a \in Steps, b \in Steps, c \in Steps, d \in Steps}

(* Agents in agents, agents that report agents, parameters.                *)
Nests == {<<Agent(n, << >>), Calls(m)>> : n \in ScriptNames, m \in ScriptNames}
    \cup {<<Calls(m), Agent(n, << >>)>> : n \in ScriptNames, m \in ScriptNames}
    \cup {<<Agent("g", <<Calls(m)>>), Agent(n, << >>), Calls("g")>> : n \in ScriptNames, m \in ScriptNames}
    \cup {<<Agent("g", <<Calls(m)>>), <<"report", << <<"name", "g">> >> >>, Agent(m, << >>)>> : m \in ScriptNames}
    \cup {<< <<"report", <<Lambda(<<Calls(n)>>)>> >> >> : n \in ScriptNames}
    \cup {<< <<"report", <<CallOf(n)>> >>, Calls("pay")>> : n \in ScriptNames}
Around1(body) == {
    <<Agent("h", body), Calls("h")>>,
    <<Agent("h", body), Seed("f", CallOf("h")), Calls("f")>>,
    <<Agent("h", body), Calls("h"), Calls("h")>>,
    <<Seed("h", Lambda(body)), Do(<<"pipe", Void, <<"name", "h">>>>)>>,
    <<Agent("h", body), Do(<<"call", Lambda(<<Calls("h")>>), << >>>>)>>}
Nested == {<<before>> \o mid \o <<after>> : before \in Steps, after \in Steps,
              mid \in UNION {Around1(body) : body \in Nests}}

Params == {<< <<"parameter", n, << >>, << >>>> >> : n \in ScriptNames}
    \cup {<< <<"parameter", "f", << >>, <<e>>>>, <<"rest", "x">> >> : e \in {CallOf("pay"), Lambda(<<Calls("f")>>)}}
    \cup {<< <<"parameter", "x", << >>, <<CallOf("f")>>>>, <<"parameter", n, << >>, <<Void>>>> >> : n \in ScriptNames}
Given1 == {<< >>, <<Lambda(<<Calls("pay")>>)>>, <<Void, Void>>}
HandedOver == {<<before, <<"agent", <<"h", params, << >>, <<Calls(n)>>>>>>,
                 Do(<<"call", <<"name", "h">>, args>>), after>> :
                   params \in Params, n \in ScriptNames, args \in Given1, before \in Steps, after \in Steps}
    \cup {<<before, <<"agent", <<"h", params, << >>, <<Calls(n)>>>>>>,
            Do(<<"pipe", left, right>>), after>> :
              params \in Params, n \in ScriptNames, before \in Steps,
              after \in {Agent("pay", << >>), Calls("f")},
              left \in {Void, <<"name", "f">>},
              right \in {<<"name", "h">>, <<"name", "pay">>, <<"name", "len">>,
                         <<"call", <<"name", "h">>, <<Void>>>>}}

(* Blocks.                                                                 *)
Local == Steps \ {Assign("f", Lambda(<<Calls("f")>>))}
Blocks == {<<a, b>> : a \in Local, b \in Local \cup {<<"fail", <<Void>>>>}}
BlockOf(body) == {
    When(body), <<"when", <<Void, body, <<"else", <<Calls("pay")>>>>>>>>,
    <<"reinforce", << <<"name", "f">>, FALSE, body>>>>, <<"for", <<"f", Void, body>>>>,
    <<"match", <<Lambda(<< >>), << << <<"bind", "f">>, body>>, << <<"plist", <<<<"bind", "pay">>>>>>, body>> >>>>>>,
    <<"attempt", <<body, "pay", <<Calls("pay")>>>>>>, <<"attempt", <<body, "f", body>>>>,
    <<"test", <<"'k'", body>>>>}
Blocked == {<<block, after>> : after \in Steps, block \in UNION {BlockOf(body) : body \in Blocks}}
    \cup {<<before, block>> : before \in Steps, block \in UNION {BlockOf(body) : body \in Blocks}}
    \cup {<<Agent("h", << <<"seed", << <<"plist", << <<"bind", n>> >> >>, Void>> >>, b>>), Calls("h"), a>> :
             n \in ScriptNames, b \in Steps, a \in Steps}
    \cup {<<Seed("c", Void), block, after, Calls("c")>> : after \in Steps,
            block \in UNION {BlockOf(<<Assign("c", Lambda(<<Calls(n)>>))>>) : n \in ScriptNames}}

AllScripts == <<Straight, Nested, HandedOver, Blocked>>

-----------------------------------------------------------------------------
(* Scripts are previewed and run beside the empty source.                  *)
Blank == {<< << >>, << >> >>}
ToolSources == Append(AllSources, Blank)

Unasked == text = << >> /\ stage = "source" /\ script = None
ToolsInit == Init /\ ScriptInit /\ SessionInit /\ McpInit
ToolsNext ==
    \/ /\ script = None /\ sent = << >> /\ lines = << >>
       /\ Next /\ UNCHANGED <<scriptVars, sessionVars, mcpVars>>
    \/ /\ text = << >> /\ stage = "source" /\ sent = << >> /\ lines = << >>
       /\ ScriptNext /\ UNCHANGED <<vars, sessionVars, mcpVars>>
    \/ Unasked /\ lines = << >> /\ SessionNext /\ UNCHANGED <<vars, scriptVars, mcpVars>>
    \/ Unasked /\ sent = << >> /\ McpNext /\ UNCHANGED <<vars, scriptVars, sessionVars>>
ToolsSpec == ToolsInit /\ [][ToolsNext]_<<vars, scriptVars, sessionVars, mcpVars>>
=============================================================================
