----------------------------- MODULE ScopedRun -----------------------------
(***************************************************************************)
(* How src/interpreter.js runs a script: scopes, closures, blocks, calls,  *)
(* and what leaves them early, a report or an error.  The script has been  *)
(* previewed (module Preview), and the run is compared with what that      *)
(* said.                                                                   *)
(*                                                                         *)
(* Values are data, all alike, or what can be called.  An expression is a  *)
(* simple one (a constant, a name, an agent) or a call of simple ones.     *)
(* Which branch a condition takes, how often a loop runs, whether a        *)
(* pattern matches and whether a builtin or a host capability answers is   *)
(* left open; none of them calls an agent back.  Fibers, memoization and   *)
(* the fence's ledger have modules of their own; types are left out.       *)
(***************************************************************************)
EXTENDS Preview

CONSTANTS
    Capability,   \* names of the host's capabilities
    Scripts,      \* families of scripts; none uses a capability as a value or decays
    MaxDepth,     \* calls within calls before "call stack went too deep"; 500 in the code
    MaxScopes     \* bound: scopes a run opens

ASSUME ScriptAssumption ==
    Capability \cap Core = {} /\ MaxDepth \in Nat /\ MaxScopes \in Nat \ {0}

VARIABLES
    script,     \* the tree of the script, or none
    previewed,  \* the names its preview reports
    scopes,     \* Environments in the order they were made:
                \* [vars, around, outside, due]
    stack,      \* what is under way, innermost first: [is, at, rest, target]
    signal,     \* what an expression or statement ended with, on its way out
    foreign,    \* calls by a name that was not the script's own: [name, settled]
    untried     \* agents made and never called, and parts of the script passed over

scriptVars == <<script, previewed, scopes, stack, signal, foreign, untried>>

-----------------------------------------------------------------------------
(* Values and scopes.  around: the scope and those around it, by parent    *)
(* and parent's parent; outside: those around the agent it is a part of;   *)
(* due: names the scope's own statements have yet to bind.                 *)

Data == <<"data">>
Missing == <<"missing">>
Closure(params, body, at) == <<"closure", params, body, at>>

Globals == [vars |-> [n \in Capability \cup Core |->
                         IF n \in Core THEN <<"core", n>> ELSE <<"capability", n>>],
            around |-> {1}, outside |-> {}, due |-> {}]
Scope(vars, around, outside, stmts) ==
    [vars |-> vars, around |-> around \cup {Len(scopes) + 1}, outside |-> outside,
     due |-> DeclaredIn(stmts) \ DOMAIN vars]

(* Environment.lookup: the nearest scope that binds the name is the one    *)
(* made last.                                                              *)
Holders(n, at) == {i \in scopes[at].around : n \in DOMAIN scopes[i].vars}
Holder(n, at) == IF Holders(n, at) = {} THEN 0 ELSE Max(Holders(n, at))
Names(names, v) == [n \in names |-> v]
Extended(vars, more) ==
    [n \in DOMAIN vars \cup DOMAIN more |-> IF n \in DOMAIN more THEN more[n] ELSE vars[n]]
Bind(s, at, more) == [s EXCEPT ![at].vars = Extended(@, more), ![at].due = @ \ DOMAIN more]

Value(e, at) ==
    CASE e[1] = "name" -> LET h == Holder(e[2], at)
                          IN  IF h = 0 THEN Missing ELSE scopes[h].vars[e[2]]
      [] e[1] = "agentexpr" -> Closure(e[2], e[4], at)
      [] OTHER -> Data
Made(e, at) == IF e[1] = "agentexpr" THEN {Value(e, at)} ELSE {}
PassedOver == {Data}

-----------------------------------------------------------------------------
(* Control.  A frame is the rest of a block, of an agent's body or of the  *)
(* defaults before it, a rescue in wait, or a statement waiting for the    *)
(* value of its expression.  target: what that statement binds or assigns, *)
(* the name the rescue binds, the body the defaults lead to.               *)

None == <<"none">>
Frame(is, at, rest, target) == [is |-> is, at |-> at, rest |-> rest, target |-> target]
Quiet == None
Failure == <<"error", Data>>
Valued(v) == IF v = Missing THEN Failure ELSE <<"value", v>>

Running == stack # << >> /\ signal = Quiet
Top == Head(stack)
Here(kinds) ==
    /\ Running /\ Top.is \in {"block", "arrival", "agent"} /\ Top.rest # << >>
    /\ Head(Top.rest)[1] \in kinds
This == Head(Top.rest)
CutOff == IF Top.rest # << >> \/ Top.is = "arrival" THEN PassedOver ELSE {}
Onward == <<[Top EXCEPT !.rest = Tail(@)]>> \o Tail(stack)

Open(vars, at, stmts, below) ==
    /\ Len(scopes) < MaxScopes
    /\ scopes' = Append(scopes, Scope(vars, scopes[at].around, scopes[at].outside, stmts))
    /\ stack' = <<Frame("block", Len(scopes) + 1, stmts, None)>> \o below

(* Whether the scopes around the agent that is running have made all their *)
(* declarations.                                                           *)
Settled == \A at \in scopes[Top.at].outside : scopes[at].due = {}

ScriptInit ==
    /\ script = None /\ previewed = {} /\ scopes = << >> /\ stack = << >>
    /\ signal = Quiet /\ foreign = {} /\ untried = {}

(* run: the script's own scope is that of the globals.                     *)
Load ==
    /\ scopes = << >> /\ \E i \in DOMAIN Scripts : script' \in Scripts[i]
    /\ previewed' = Referenced(script')
    /\ scopes' = <<[Globals EXCEPT !.due = DeclaredIn(script')]>>
    /\ stack' = <<Frame("block", 1, script', None)>>
    /\ UNCHANGED <<signal, foreign, untried>>

-----------------------------------------------------------------------------
(* Statements.                                                             *)

Declare ==
    /\ Here({"agent"})
    /\ LET c == This[2]
           v == Closure(c[2], c[4], Top.at)
       IN  /\ scopes' = Bind(scopes, Top.at, Names({c[1]}, v))
           /\ untried' = untried \cup {v}
    /\ stack' = Onward
    /\ UNCHANGED <<script, previewed, signal, foreign>>

Inert == Here({"test"}) /\ stack' = Onward /\ untried' = untried \cup PassedOver
         /\ UNCHANGED <<script, previewed, scopes, signal, foreign>>

(* Statements that do something with the value of an expression.           *)
Consuming == {"seed", "assign", "expression", "report", "fail"}
Expression(s) == IF s[1] \in {"seed", "assign"} THEN s[2][2] ELSE s[2][1]
TargetOf(s) == IF s[1] \in {"seed", "assign"} THEN s[2][1] ELSE None
Awaiting == <<Frame(This[1], Top.at, << >>, TargetOf(This))>> \o Onward

Evaluate ==
    /\ Here(Consuming) /\ Callee(Expression(This)) = None
    /\ LET v == Value(Expression(This), Top.at)
       IN  /\ signal' = Valued(v)
           /\ untried' = untried \cup Made(Expression(This), Top.at)
    /\ stack' = Awaiting
    /\ UNCHANGED <<script, previewed, scopes, foreign>>

(* The value arrives.                                                      *)
Deliver ==
    /\ stack # << >> /\ signal[1] = "value"
    /\ LET t == Top.target
           h == Holder(t[2], Top.at)
       IN  \/ /\ Top.is = "seed"
              /\ scopes' = Bind(scopes, Top.at, [n \in TargetBinds(t) |->
                                IF t[1] = "typed" THEN signal[2] ELSE Data])
              /\ signal' = Quiet
           \/ /\ Top.is = "seed" /\ t[1] # "typed"
              /\ signal' = Failure /\ UNCHANGED scopes
           \/ /\ Top.is = "assign"
              /\ IF h = 0 THEN signal' = Failure /\ UNCHANGED scopes
                 ELSE signal' = Quiet /\ scopes' = [scopes EXCEPT ![h].vars[t[2]] = signal[2]]
           \/ Top.is = "expression" /\ signal' = Quiet /\ UNCHANGED scopes
           \/ Top.is = "report" /\ signal' = <<"report", signal[2]>> /\ UNCHANGED scopes
           \/ Top.is = "fail" /\ signal' = Failure /\ UNCHANGED scopes
    /\ stack' = Tail(stack)
    /\ UNCHANGED <<script, previewed, foreign, untried>>

-----------------------------------------------------------------------------
(* Calls: evalCall, evalPipe and callValue.                                *)

Arguments(e) ==
    CASE e[1] = "call" -> e[3]
      [] e[1] = "pipe" -> <<e[2]>> \o (IF e[3][1] = "call" THEN e[3][3] ELSE << >>)
      [] OTHER -> << >>
Calling == Here(Consuming) /\ Callee(Expression(This)) # None
CalledValue == Value(Callee(Expression(This)), Top.at)
Passed == LET args == Arguments(Expression(This))
          IN  [i \in DOMAIN args |-> Value(args[i], Top.at)]
MadeByCall == UNION {Made(e, Top.at) :
    e \in ToSet(Arguments(Expression(This))) \cup {Callee(Expression(This))}}
Stray(names) == {[name |-> n, settled |-> Settled] : n \in names}

(* A parameter is bound to its argument, or, after those, to its default.  *)
Required(params) ==
    Cardinality({i \in DOMAIN params : params[i][1] = "parameter" /\ params[i][4] = << >>})
Variadic(params) == params # << >> /\ Last(params)[1] = "rest"
Accepts(params, n) == n >= Required(params) /\ (Variadic(params) \/ n <= Len(params))
Arrive(params, args) ==
    LET given == {i \in DOMAIN params : i <= Len(args)}
    IN  [n \in {params[i][2] : i \in given} |->
            LET i == CHOOSE j \in given : params[j][2] = n
            IN  IF params[i][1] = "rest" THEN Data ELSE args[i]]
Unneeded(params, n) ==
    IF \E i \in DOMAIN params : i <= n /\ params[i][1] = "parameter" /\ params[i][4] # << >>
    THEN PassedOver ELSE {}
Defaults(params, n) ==
    [i \in 1..(Len(params) - n) |->
        LET p == params[n + i]
        IN  <<"seed", << <<"typed", p[2], << >>>>,
                         IF p[1] = "parameter" /\ p[4] # << >> THEN p[4][1]
                         ELSE <<"constant", "void">> >> >>]

CallAgent ==
    /\ Calling /\ CalledValue[1] = "closure" /\ Missing \notin ToSet(Passed)
    /\ LET params == CalledValue[2]
           defaults == Defaults(params, Len(Passed))
       IN  /\ Accepts(params, Len(Passed)) /\ Len(scopes) < MaxScopes
           /\ scopes' = Append(scopes, Scope(Arrive(params, Passed), scopes[CalledValue[4]].around,
                                             scopes[CalledValue[4]].around,
                                             defaults \o CalledValue[3]))
           /\ stack' = <<Frame("arrival", Len(scopes) + 1, defaults, CalledValue[3])>> \o Awaiting
           /\ untried' = (untried \cup MadeByCall \cup Unneeded(params, Len(Passed)))
                            \ {CalledValue}
    /\ UNCHANGED <<script, previewed, signal, foreign>>

(* All parameters are bound.                                               *)
Agents == {i \in DOMAIN stack : stack[i].is = "agent"}
Begin ==
    /\ Running /\ Top.is = "arrival" /\ Top.rest = << >>
    /\ IF Cardinality(Agents) < MaxDepth
       THEN /\ stack' = <<Frame("agent", Top.at, Top.target, None)>> \o Tail(stack)
            /\ UNCHANGED <<signal, untried>>
       ELSE /\ stack' = Tail(stack) /\ signal' = Failure
            /\ untried' = untried \cup PassedOver
    /\ UNCHANGED <<script, previewed, scopes, foreign>>

(* A builtin or the host's function, which may fail or be refused.         *)
CallNative ==
    /\ Calling /\ CalledValue[1] \in {"capability", "core"} /\ Missing \notin ToSet(Passed)
    /\ signal' \in {Valued(Data), Failure}
    /\ foreign' = foreign \cup
         Stray(CalleeName(Expression(This)) \cap ({CalledValue[2]} \cap Capability))
    /\ untried' = untried \cup MadeByCall
    /\ stack' = Awaiting
    /\ UNCHANGED <<script, previewed, scopes>>

(* An unknown name, a value that is no agent, a wrong number of arguments. *)
(* What is piped in is evaluated before the name it is piped to.           *)
CallFails ==
    /\ Calling
    /\ \/ Missing \in {CalledValue} \cup ToSet(Passed)
       \/ CalledValue = Data
       \/ CalledValue[1] = "closure" /\ ~Accepts(CalledValue[2], Len(Passed))
    /\ signal' = Failure
    /\ LET e == Expression(This)
           looked == e[1] = "pipe" => Passed[1] # Missing
       IN  foreign' = IF CalledValue = Missing /\ looked
                      THEN foreign \cup Stray(CalleeName(e)) ELSE foreign
    /\ untried' = untried \cup MadeByCall
                        \cup (IF Missing \in ToSet(Passed) THEN PassedOver ELSE {})
    /\ stack' = Awaiting
    /\ UNCHANGED <<script, previewed, scopes>>

-----------------------------------------------------------------------------
(* Blocks run in a scope of their own, a loop's once for every round.      *)

Condition(s) == IF s[1] = "for" THEN s[2][2] ELSE s[2][1]
Branches(s, v) ==
    LET c == s[2]
    IN  CASE s[1] = "when" -> {<<Names({}, v), c[2]>>}
               \cup (IF c[3][1] = "else" THEN {<<Names({}, v), c[3][2]>>} ELSE {})
          [] s[1] = "reinforce" -> {<<Names({}, v), c[3]>>}
          [] s[1] = "for" -> {<<Names({c[1]}, Data), c[3]>>}
          [] s[1] = "match" -> {<<Names(PatternBinds(arm[1]),
                                        IF arm[1][1] = "bind" THEN v ELSE Data), arm[2]>> :
                                    arm \in ToSet(c[2])}

Branched == {"when", "reinforce", "for", "match"}
Branching == Here(Branched)
Enter ==
    /\ Branching
    /\ LET v == Value(Condition(This), Top.at)
       IN  \E b \in Branches(This, v), below \in {Onward, stack} :
             /\ v # Missing /\ (below = stack => This[1] \in {"reinforce", "for"})
             /\ Open(b[1], Top.at, b[2], below)
             /\ untried' = untried \cup Made(Condition(This), Top.at)
                                 \cup (IF Branches(This, v) # {b} THEN PassedOver ELSE {})
    /\ UNCHANGED <<script, previewed, signal, foreign>>

(* No branch is taken; or the condition names nothing, or what is walked   *)
(* cannot be, or the number of rounds is none.                             *)
Skip ==
    /\ Branching /\ (This[1] = "when" => This[2][3][1] = "none")
    /\ Value(Condition(This), Top.at) # Missing
    /\ stack' = Onward /\ untried' = untried \cup PassedOver
    /\ UNCHANGED <<script, previewed, scopes, signal, foreign>>
Stumble ==
    /\ Branching
    /\ \/ Value(Condition(This), Top.at) = Missing
       \/ This[1] = "for"
       \/ This[1] = "reinforce" /\ This[2][2]
    /\ signal' = Failure
    /\ UNCHANGED <<script, previewed, scopes, stack, foreign, untried>>

Attempt ==
    /\ Here({"attempt"})
    /\ Open(Names({}, Data), Top.at, This[2][1],
            <<Frame("attempt", Top.at, This[2][3], <<"typed", This[2][2], << >>>>)>> \o Onward)
    /\ UNCHANGED <<script, previewed, signal, foreign, untried>>

-----------------------------------------------------------------------------
(* The end of a block, of a body, of an attempt that came through.         *)
Finish ==
    /\ Running /\ ((Top.is \in {"block", "agent"} /\ Top.rest = << >>) \/ Top.is = "attempt")
    /\ stack' = Tail(stack)
    /\ signal' = IF Top.is = "agent" THEN Valued(Data) ELSE Quiet
    /\ untried' = untried \cup CutOff
    /\ UNCHANGED <<script, previewed, scopes, foreign>>

(* A report leaves everything up to the call, an error up to an attempt.   *)
Stops == \/ signal[1] = "report" /\ Top.is = "agent"
         \/ signal[1] = "error" /\ Top.is = "attempt"
Unwind ==
    /\ stack # << >> /\ signal[1] \in {"report", "error"} /\ ~Stops
    /\ stack' = Tail(stack) /\ untried' = untried \cup CutOff
    /\ UNCHANGED <<script, previewed, scopes, signal, foreign>>
Return ==
    /\ stack # << >> /\ signal[1] = "report" /\ Stops
    /\ stack' = Tail(stack) /\ signal' = Valued(signal[2])
    /\ untried' = untried \cup CutOff
    /\ UNCHANGED <<script, previewed, scopes, foreign>>
Rescue ==
    /\ stack # << >> /\ signal[1] = "error" /\ Stops
    /\ Open(Names({Top.target[2]}, Data), Top.at, Top.rest, Tail(stack))
    /\ signal' = Quiet
    /\ UNCHANGED <<script, previewed, foreign, untried>>

(* What is asked of a script.  Its tree is no deeper than MaxTree, with    *)
(* lists where the parser makes lists, and its expressions are those that  *)
(* are run here.  It takes no capability for a value: myxo plan looks at   *)
(* the names of calls alone.  And no default calls the parameter it is     *)
(* for, which the preview counts as bound there.                           *)
Simple(e) == e[1] \in {"name", "agentexpr"} \/ Inside(e) = {}
ValuesOf(e) == IF Callee(e) = None THEN {e} ELSE ToSet(Arguments(e))
ValuesIn(s) ==
    CASE s[1] \in Consuming -> ValuesOf(Expression(s))
      [] s[1] \in Branched -> {Condition(s)}
      [] OTHER -> {}
Harmless(es) == \A e \in es : Simple(e) /\ (e[1] = "name" => e[2] \notin Capability)
Listed(s) == s \in Seq(ToSet(s))
ParamsIn(v) ==
    CASE v[1] = "statement" /\ v[2][1] = "agent" -> v[2][2][2]
      [] v[1] = "expr" /\ v[2][1] = "agentexpr" -> v[2][2]
      [] OTHER -> << >>
SoberParams(params) ==
    /\ Listed(params)
    /\ \A p \in ToSet(params) :
          /\ p[1] = "parameter" => Listed(p[4]) /\ Len(p[4]) <= 1
          /\ \A d \in DefaultsOf(p) :
                Harmless(ValuesOf(d)) /\ Simple(Callee(d)) /\ p[2] \notin CalleeName(d)
Sober(v) ==
    /\ v[1] = "body" => Listed(v[2])
    /\ v[1] = "expr" => Listed(Arguments(v[2]))
    /\ v[1] = "statement" =>
         /\ Harmless(ValuesIn(v[2]))
         /\ v[2][1] \in Consuming => Simple(Callee(Expression(v[2])))
         /\ v[2][1] = "assign" => TargetOf(v[2])[1] = "name"
    /\ SoberParams(ParamsIn(v))
ASSUME ScriptsAssumption ==
    \A i \in DOMAIN Scripts : \A stmts \in Scripts[i] :
        LET walk == Walk(OfBody(stmts, Core))
        IN  walk.next = {} /\ \A v \in walk.done : Sober(v)

ScriptNext ==
    \/ Load \/ Declare \/ Inert \/ Evaluate \/ Deliver
    \/ CallAgent \/ Begin \/ CallNative \/ CallFails
    \/ Enter \/ Skip \/ Stumble \/ Attempt \/ Finish \/ Unwind \/ Return \/ Rescue
ScriptSpec == ScriptInit /\ [][ScriptNext]_scriptVars

-----------------------------------------------------------------------------
(* A call that finds no agent of the script's own was in its preview:      *)
(* always when the code around it runs in order, and in an agent's body    *)
(* once the scopes around that have made their declarations                *)
(* (myxo-plan.js:65-70).                                                   *)
PreviewSees == \A call \in foreign : call.settled => call.name \in previewed

(* Where the preview overlooks a name.  An agent made in a block may be    *)
(* called when what is around the block has gone on and declared more, and *)
(* one made in a default when the other parameters are bound: neither was  *)
(* previewed with those names (myxo-plan.js:85, 115-131).  An assignment   *)
(* may turn a capability's name into the script's own.                     *)
Makes(v) ==
    \/ v[1] = "statement" /\ v[2][1] = "agent"
    \/ v[1] = "expr" /\ v[2][1] = "agentexpr"
BodyIn(v) == IF v[1] = "statement" THEN v[2][2][4] ELSE v[2][4]
Alarms(v) == UNION {ReachedFor(u) : u \in Reach(v)}
LateAlarms(v) == UNION {Alarms(u) : u \in {w \in Reach(v) : Makes(w)}}
Overlooked(v) ==
    IF Makes(v) THEN {p[2] : p \in ToSet(ParamsIn(v))} \cup DeclaredIn(BodyIn(v))
    ELSE IF v[1] = "statement" THEN v[4] \ v[3] ELSE {}
InSight(stmts) ==
    \A v \in Visited(stmts) :
        /\ \A u \in Visits(v) : LateAlarms(u) \cap Overlooked(v) = {}
        /\ v[1] = "statement" /\ v[2][1] = "assign" => TargetOf(v[2])[2] \notin Capability

(* A script of which every part has run, every agent called, and in which  *)
(* every call found an agent of its own or a builtin, is previewed as      *)
(* reaching for nothing, but for what is overlooked: forward references    *)
(* and recursion are no alarm (plan.test.js:71-80).                        *)
NoFalseAlarm ==
        /\ script # None /\ stack = << >> /\ signal = Quiet /\ foreign = {} /\ untried = {}
        /\ InSight(script)
    => previewed = {}
=============================================================================
