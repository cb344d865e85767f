---------------------------- MODULE MCFormatter ----------------------------
(***************************************************************************)
(* Sources for Formatter: expressions written with all their parentheses,  *)
(* chains of operators written with none, and statements one after another *)
(* in a program, an agent and the two branches of a when.                  *)
(***************************************************************************)
EXTENDS Formatter

X == <<"name", "x">>

(* Expressions over a few operators of each level.                         *)
Ops == {"or", "==", "+", "-", "*"}
Over(L, R) ==
    LET calls == {<<"call", f, <<a>>>> : f \in L, a \in R}
    IN  {<<"binary", op, l, r>> : op \in Ops, l \in L, r \in R}
        \cup {<<"pipe", l, r>> : l \in L, r \in R}
        \cup calls \cup {<<"index", f, a>> : f \in L, a \in R}
        \cup {<<"unary", op, e>> : op \in {"not", "-"}, e \in L}
        \cup {<<"gather", e>> : e \in L}
        \cup {<<p, c>> : p \in {"dispatch", "spawn"}, c \in calls}
        \cup {<<"list", <<l, r>>>> : l \in L, r \in R}
        \cup {<<"mesh", << <<l, r>> >>>> : l \in L, r \in R}
        \cup {<<"agentexpr", << <<"parameter", "x", << >>, <<r>>>>, <<"rest", "x">> >>, <<"any">>,
                 << <<"report", <<l>>>> >>>> : l \in L, r \in R}
Small == {X} \cup Over({X}, {X})
Joined(L, R) ==
    {<<"binary", op, l, r>> : op \in Ops, l \in L, r \in R}
    \cup {<<"pipe", l, r>> : l \in L, r \in R}
    \cup {<<"unary", op, e>> : op \in {"not", "-"}, e \in L}
Pairs == {X} \cup Joined({X}, {X})
Triples == Joined(Pairs, Pairs)
Trees == Over(Small, Small) \cup Joined(Triples, {X}) \cup Joined({X}, Triples)

RECURSIVE Written(_)
Written(e) ==
    LET in(ts) == <<"(">> \o ts \o <<")">>
        w(x) == IF x[1] = "name" THEN <<x[2]>> ELSE in(Written(x))
    IN  CASE e[1] = "name" -> <<e[2]>>
          [] e[1] = "binary" -> w(e[3]) \o <<e[2]>> \o w(e[4])
          [] e[1] = "pipe" -> w(e[2]) \o <<"|">> \o w(e[3])
          [] e[1] = "call" -> w(e[2]) \o <<"(">> \o w(e[3][1]) \o <<")">>
          [] e[1] = "index" -> w(e[2]) \o <<"[">> \o w(e[3]) \o <<"]">>
          [] e[1] = "unary" -> <<e[2]>> \o w(e[3])
          [] e[1] = "gather" -> <<"gather">> \o w(e[2])
          [] e[1] \in {"dispatch", "spawn"} -> <<e[1]>> \o Written(e[2])
          [] e[1] = "list" -> <<"[">> \o w(e[2][1]) \o <<",">> \o w(e[2][2]) \o <<",", "]">>
          [] e[1] = "mesh" -> <<"{">> \o w(e[2][1][1]) \o <<":">> \o w(e[2][1][2]) \o <<"}">>
          [] e[1] = "agentexpr" ->
               <<"agent", "(", "x", "=">> \o w(e[2][1][4][1]) \o <<",", "...", "x", ")", ":", "any", "{", "report">>
               \o w(e[4][1][2][1]) \o <<"}">>

Emitted(e) == << <<"emit", << <<e>> >>>> >>
Explicit == {<< <<"emit">> \o Written(e), Emitted(e)>> : e \in Trees}

(* A gathered list indexed, a dispatched call called: the parentheses around *)
(* the prefix form decide what the bracket belongs to.                     *)
Call == <<"call", X, <<X>>>>
Called == {<< <<"emit">> \o Written(e), Emitted(e)>> :
              e \in {<<"index", head, arg>> : arg \in Small,
                        head \in {<<"gather", X>>, <<"dispatch", Call>>, <<"spawn", Call>>}}
                   \cup {<<"call", head, <<arg>>>> : arg \in Small,
                        head \in {<<"gather", X>>, <<"dispatch", Call>>, <<"spawn", Call>>}}}

(* Chains of three operators.  What one means, said without a parser: the  *)
(* last of the loosest operators is applied last.                          *)
Operand == {<< <<"x">>, X>>, << <<"-", "x">>, <<"unary", "-", X>>>>,
            << <<"gather", "x", "[", "x", "]">>, <<"gather", <<"index", X, X>>>>>>,
            << <<"not", "x", "(", ")">>, <<"unary", "not", <<"call", X, << >>>>>>>>}
Level(op) == IF op = "|" THEN 0 ELSE CHOOSE i \in DOMAIN PRECEDENCE : op \in PRECEDENCE[i]
RECURSIVE Meaning(_, _)
Meaning(operands, ops) ==
    IF ops = << >> THEN operands[1][2]
    ELSE LET last == CHOOSE i \in DOMAIN ops :
                 \A j \in DOMAIN ops : Level(ops[i]) < Level(ops[j])
                                       \/ (Level(ops[i]) = Level(ops[j]) /\ j <= i)
             l == Meaning(SubSeq(operands, 1, last), SubSeq(ops, 1, last - 1))
             r == Meaning(SubSeq(operands, last + 1, Len(operands)), SubSeq(ops, last + 1, Len(ops)))
         IN  IF ops[last] = "|" THEN <<"pipe", l, r>> ELSE <<"binary", ops[last], l, r>>

Chain(operands, ops) ==
    << <<"emit">> \o operands[1][1] \o <<ops[1]>> \o operands[2][1] \o <<ops[2]>>
         \o operands[3][1] \o <<ops[3]>> \o operands[4][1],
       Emitted(Meaning(operands, ops))>>
Plain == << <<"x">>, X>>
Chains == {Chain([k \in 1..4 |-> IF k = i THEN special ELSE Plain], ops) :
              i \in 1..4, special \in Operand,
              ops \in [1..3 -> {"|", "or", "and", "==", "<", "+", "-", "/"}]}

(* Statements.  Those in parentheses stand on their own after a block, a   *)
(* bare word or a matcher without a value.                                 *)
Snippets == {
    <<"seed", "x", ":", "any", "=", "x">>, <<"seed", "x", "=", "x">>,
    <<"needs", "x", ",", "to", "(", "total", "1", ",", "max", "1", ")">>, <<"seed", "[", "x", ",", "...", "to", "]", "=", "(", "x", ")">>,
    <<"seed", "{", "x", ",", "'k'", ":", "_", "}", "=", "x">>, <<"decay", "x", "[", "1", "]">>,
    <<"emit", "x", ",", "-", "x">>, <<"when", "x", "{", "}">>,
    <<"when", "x", "{", "}", "otherwise", "when", "x", "{", "}", "otherwise", "{", "x", "}">>,
    <<"when", "x", "{", "}", "otherwise", "{", "when", "x", "{", "}", "x", "}">>,
    <<"reinforce", "x", "{", "yield", "}">>, <<"reinforce", "(", "x", ")", "times", "{", "}">>,
    <<"for", "each", "x", "in", "(", "x", "|", "x", ")", "{", "}">>,
    <<"agent", "x", "(", "x", ":", "list", "=", "1", ")", ":", "void", "{", "report", "}">>,
    <<"agent", "(", ")", "{", "fail", "}", "(", ")">>, <<"report", "x">>, <<"fail", "x">>,
    <<"attempt", "{", "x", "}", "rescue", "x", "{", "}">>, <<"weave", "'k'", "as", "x">>,
    <<"weave", "x">>, <<"expose", "to">>, <<"test", "'k'", "{", "expect", "x", "}">>,
    <<"expect", "x">>, <<"expect", "is", "is", "is">>, <<"expect", "x", "is", "not", "x">>,
    <<"expect", "x", "is", "(", "not", "x", ")">>,
    <<"expect", "x", "is", "(", "not", "x", ")", "==", "x">>,
    <<"expect", "x", "to", "fail">>, <<"expect", "to", "to", "fail", "with", "'k'">>,
    <<"(", "with", ")">>, <<"(", "with", ")", "=", "x">>,
    <<"expect", "x", "is", "(", "gather", "x", ")", "[", "x", "]">>,
    <<"report", "void">>, <<"fail", "'failed'">>,
    <<"agent", "(", "x", "=", "(", "gather", "x", ")", "[", "1", "]", ")", "{", "}">>,
    <<"emit", "agent", "(", ")", "{", "expect", "x", "is", "(", "not", "x", ")", "}">>,
    <<"match", "x", "{", "_", "{", "report", "void", "x", "}", "}">>,
    <<"match", "x", "{", "[", "-", "1", ",", "_", "]", "{", "}", "x", "{", "x", "}", "}">>,
    <<"match", "x", "{", "}">>, <<"give", "x", "to", "to">>, <<"take", "x", "from", "x">>,
    <<"yield">>, <<"x">>, <<"is">>, <<"to">>, <<"is", "=", "x">>, <<"x", "=", "x">>,
    <<"(", "x", ")", "[", "x", "]", "=", "x">>, <<"-", "x">>, <<"{", "x", ":", "x", "}">>,
    <<"not", "x", "(", ")">>, <<"(", "x", "|", "x", ")">>}
Bodies == {s1 \o s2 : s1 \in Snippets, s2 \in Snippets}
Statemented == {<<body, Unsaid>> : body \in Bodies}
    \cup {<< <<"agent", "x", "(", ")", "{">> \o body \o <<"}">>, Unsaid>> : body \in Bodies}
    \cup {<< <<"when", "x", "{", "}", "otherwise", "{">> \o s \o <<"}">> \o r, Unsaid>> :
             s \in Snippets, r \in Snippets}

AllSources == <<Explicit, Chains, Statemented>>
Heads == <<Called>>
Words == {"x", "is", "to", "with", "from", "_"}
=============================================================================
