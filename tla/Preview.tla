------------------------------ MODULE Preview ------------------------------
(***************************************************************************)
(* myxo plan (src/myxo-plan.js): which names a script calls that are not   *)
(* its own, read off its tree (module Parser) without running it.          *)
(*                                                                         *)
(* Code that runs in order sees what was declared before it (running); the *)
(* body of an agent runs later and sees all that its scope ever declares   *)
(* (full).  Lines, names in weaves and the report's layout are left out.   *)
(***************************************************************************)
EXTENDS Integers, SequencesExt

CONSTANTS
    Core,     \* the names every script starts with: builtins and std.myx
    MaxTree   \* bound: how deep a script's tree is walked

ASSUME PreviewAssumption == MaxTree \in Nat

(* Who a call or a pipe calls: calleeName, when that is a name.            *)
Callee(e) ==
    CASE e[1] = "call" -> e[2]
      [] e[1] = "pipe" -> IF e[3][1] = "call" THEN e[3][2] ELSE e[3]
      [] OTHER -> <<"none">>
CalleeName(e) == IF Callee(e)[1] = "name" THEN {Callee(e)[2]} ELSE {}

(* The expressions directly within one, and within a plain statement.      *)
Inside(e) ==
    CASE e[1] \in {"pipe", "index"} -> {e[2], e[3]}
      [] e[1] = "call" -> {e[2]} \cup ToSet(e[3])
      [] e[1] = "binary" -> {e[3], e[4]}
      [] e[1] = "unary" -> {e[3]}
      [] e[1] = "list" -> ToSet(e[2])
      [] e[1] = "mesh" -> UNION {ToSet(pair) : pair \in ToSet(e[2])}
      [] e[1] \in {"gather", "dispatch", "spawn"} -> {e[2]}
      [] OTHER -> {}
Uses(s) ==
    CASE s[1] \in {"seed", "take"} -> {s[2][2]}
      [] s[1] \in {"expression", "report", "fail", "weave", "decay"} -> {s[2][1]}
      [] s[1] \in {"assign", "give"} -> {s[2][1], s[2][2]}
      [] s[1] = "emit" -> ToSet(s[2][1])
      [] s[1] = "expect" ->
           {s[2][1]} \cup (IF s[2][2][1] \in {"is", "isnot", "failwith"} THEN {s[2][2][2]} ELSE {})
      [] OTHER -> {}

-----------------------------------------------------------------------------
(* Declarations.                                                           *)

Subpatterns(pattern) ==
    CASE pattern[1] = "plist" -> ToSet(pattern[2])
      [] pattern[1] = "pmesh" -> {entry[2] : entry \in ToSet(pattern[2])}
      [] OTHER -> {}
PatternBinds(pattern) ==
    LET within[n \in 0..MaxTree] ==
            IF n = 0 THEN {pattern} ELSE UNION {Subpatterns(p) : p \in within[n - 1]}
        parts == UNION {within[n] : n \in 0..MaxTree}
    IN  {p[2] : p \in {q \in parts : q[1] \in {"bind", "rest"}}}
TargetBinds(target) == IF target[1] = "typed" THEN {target[2]} ELSE PatternBinds(target)

(* scopeDecls, of one statement, and what analyzeBody adds after it.       *)
Declares(s) ==
    CASE s[1] = "agent" -> {s[2][1]}
      [] s[1] = "seed" -> TargetBinds(s[2][1])
      [] OTHER -> {}
Leaves(s) == IF s[1] = "take" THEN {s[2][1]} ELSE Declares(s)
DeclaredIn(stmts) == UNION {Declares(s) : s \in ToSet(stmts)}
LeftBefore(stmts, i) == UNION {Leaves(stmts[j]) : j \in 1..(i - 1)}

-----------------------------------------------------------------------------
(* Visits.                                                                 *)

OfBody(stmts, visible) == <<"body", stmts, visible>>
OfStatement(s, running, full) == <<"statement", s, running, full>>
OfExpr(e, visible, full) == <<"expr", e, visible, full>>

(* Bug: agents are hoisted, also for code that runs at once.               *)
InBody_Bug(stmts, visible) ==
    LET full == visible \cup DeclaredIn(stmts)
    IN  {OfStatement(s, full, full) : s \in ToSet(stmts)}

(* analyzeBody.                                                            *)
InBody(stmts, visible) ==
    {OfStatement(stmts[i], visible \cup LeftBefore(stmts, i), visible \cup DeclaredIn(stmts)) :
        i \in DOMAIN stmts}

(* An agent's parameters, one after another with their defaults, and body. *)
DefaultsOf(param) == IF param[1] = "parameter" THEN ToSet(param[4]) ELSE {}
Child(params, i, full) == full \cup {params[j][2] : j \in 1..i}

(* Bug: an agent's body sees its parameters only.                          *)
Deferred_Bug(params, body, full) == {OfBody(body, Child(params, Len(params), Core))}

Deferred(params, body, full) ==
    {OfBody(body, Child(params, Len(params), full))}
    \cup UNION {{OfExpr(d, Child(params, i, full), full) : d \in DefaultsOf(params[i])} :
                    i \in DOMAIN params}

(* analyzeExpr.                                                            *)
InExpr(e, visible, full) ==
    IF e[1] = "agentexpr" THEN Deferred(e[2], e[4], full)
    ELSE {OfExpr(x, visible, full) : x \in Inside(e)}

(* analyzeStmt: blocks run at once, with the names they bind.              *)
InStatement(s, running, full) ==
    LET c == s[2]
        expr(e) == OfExpr(e, running, full)
        block(stmts, names) == OfBody(stmts, running \cup names)
    IN  CASE s[1] = "agent" -> Deferred(c[2], c[4], full)
          [] s[1] = "when" -> {expr(c[1]), block(c[2], {})}
               \cup (IF c[3][1] = "else" THEN {block(c[3][2], {})} ELSE {})
          [] s[1] = "reinforce" -> {expr(c[1]), block(c[3], {})}
          [] s[1] = "for" -> {expr(c[2]), block(c[3], {c[1]})}
          [] s[1] = "match" -> {expr(c[1])}
               \cup {block(arm[2], PatternBinds(arm[1])) : arm \in ToSet(c[2])}
          [] s[1] = "attempt" -> {block(c[1], {}), block(c[3], {c[2]})}
          [] s[1] = "test" -> {block(c[2], {})}
          [] OTHER -> {expr(e) : e \in Uses(s)}

Visits(v) ==
    CASE v[1] = "body" -> InBody(v[2], v[3])
      [] v[1] = "statement" -> InStatement(v[2], v[3], v[4])
      [] v[1] = "expr" -> InExpr(v[2], v[3], v[4])
Onwards(w) == [done |-> w.done \cup w.next, next |-> UNION {Visits(v) : v \in w.next}]
Walk(v) ==
    LET walk[n \in 0..MaxTree] ==
            IF n = 0 THEN [done |-> {}, next |-> {v}] ELSE Onwards(walk[n - 1])
    IN  walk[MaxTree]
Reach(v) == Walk(v).done
WalkEnds(v) == Walk(v).next = {}

(* All that planScript visits.                                             *)
Visited(stmts) == Reach(OfBody(stmts, Core))

(* planScript: the names the script is said to reach for.                  *)
ReachedFor(v) == IF v[1] = "expr" THEN CalleeName(v[2]) \ v[3] ELSE {}
Referenced(stmts) == UNION {ReachedFor(v) : v \in Visited(stmts)}
=============================================================================
