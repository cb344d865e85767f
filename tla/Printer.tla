------------------------------ MODULE Printer ------------------------------
(***************************************************************************)
(* The printer of src/format.js: from a tree back to tokens, with the      *)
(* parentheses that precedence asks for.  Trees are those of Parser.       *)
(* Spaces, lines and comments are left out.                                *)
(***************************************************************************)
EXTENDS Integers, SequencesExt

PREC == [op \in {"or"} |-> 1] @@ [op \in {"and"} |-> 2] @@ [op \in {"==", "!="} |-> 3]
     @@ [op \in {">", "<", ">=", "<="} |-> 4] @@ [op \in {"+", "-"} |-> 5]
     @@ [op \in {"*", "/", "%"} |-> 6]

Commas(texts) == FoldLeft(LAMBDA sofar, text : IF sofar = << >> THEN text ELSE sofar \o <<",">> \o text,
                          << >>, texts)
Par(text, need) == IF need THEN <<"(">> \o text \o <<")">> ELSE text

RECURSIVE Fmt(_, _, _), FmtStatement(_), FmtPattern(_)

FmtBlock(body) ==
    <<"{">> \o FlattenSeq([i \in DOMAIN body |-> FmtStatement(body[i])]) \o <<"}">>

FmtType(type) == IF type = << >> THEN << >> ELSE <<":">> \o type
FmtParam(p) ==
    IF p[1] = "rest" THEN <<"...", p[2]>>
    ELSE <<p[2]>> \o FmtType(p[3])
         \o (IF p[4] = << >> THEN << >> ELSE <<"=">> \o Fmt(p[4][1], 0, "none"))
FmtParams(params) == <<"(">> \o Commas([i \in DOMAIN params |-> FmtParam(params[i])]) \o <<")">>

(* Bug: a right operand of the same level goes without parentheses.        *)
FmtBinary_Bug(e, parent, side) ==
    LET mine == PREC[e[2]]
    IN  Par(Fmt(e[3], mine, "left") \o <<e[2]>> \o Fmt(e[4], mine, "right"), mine < parent)

FmtBinary(e, parent, side) ==
    LET mine == PREC[e[2]]
        right == IF e[2] \in {"-", "/", "%"} THEN mine + 1 ELSE mine
    IN  Par(Fmt(e[3], mine, "left") \o <<e[2]>> \o Fmt(e[4], right, "right"),
            mine < parent \/ (mine = parent /\ side = "right"))

(* The tokens of an expression under an operator of level parent.          *)
Fmt(e, parent, side) ==
    LET sub(x, level) == Fmt(x, level, "none")
        all(list) == Commas([i \in DOMAIN list |-> sub(list[i], 0)])
    IN  CASE e[1] \in {"name", "constant"} -> <<e[2]>>
          [] e[1] = "binary" -> FmtBinary(e, parent, side)
          [] e[1] = "unary" -> Par(<<e[2]>> \o sub(e[3], 7), 7 < parent)
          [] e[1] = "pipe" -> Par(sub(e[2], 0) \o <<"|">> \o sub(e[3], 1), parent > 0)
          [] e[1] = "call" -> sub(e[2], 9) \o <<"(">> \o all(e[3]) \o <<")">>
          [] e[1] = "index" -> sub(e[2], 9) \o <<"[">> \o sub(e[3], 0) \o <<"]">>
          [] e[1] = "list" -> <<"[">> \o all(e[2]) \o <<"]">>
          [] e[1] = "mesh" ->
               <<"{">> \o Commas([i \in DOMAIN e[2] |->
                                   sub(e[2][i][1], 0) \o <<":">> \o sub(e[2][i][2], 0)]) \o <<"}">>
          [] e[1] = "agentexpr" -> <<"agent">> \o FmtParams(e[2]) \o FmtType(e[3]) \o FmtBlock(e[4])
          [] e[1] = "gather" -> <<"gather">> \o sub(e[2], 8)
          [] e[1] \in {"dispatch", "spawn"} -> <<e[1]>> \o sub(e[2], 0)

FmtEntry(key, pattern) ==
    IF pattern = <<"bind", key>> THEN <<key>> ELSE <<key, ":">> \o FmtPattern(pattern)
FmtPattern(p) ==
    CASE p[1] = "wild" -> <<"_">>
      [] p[1] \in {"bind", "constant"} -> <<p[2]>>
      [] p[1] = "typed" -> <<p[2]>> \o FmtType(p[3])
      [] p[1] = "negative" -> <<"-", p[2]>>
      [] p[1] = "rest" -> <<"...", p[2]>>
      [] p[1] = "plist" -> <<"[">> \o Commas([i \in DOMAIN p[2] |-> FmtPattern(p[2][i])]) \o <<"]">>
      [] p[1] = "pmesh" ->
           <<"{">> \o Commas([i \in DOMAIN p[2] |-> FmtEntry(p[2][i][1], p[2][i][2])]) \o <<"}">>

-----------------------------------------------------------------------------
(* A statement's parts, in order, between the words that belong to it.     *)
Layout == [
    seed |-> <<"TARGET", "=", "EXPR">>, decay |-> <<"EXPR">>, emit |-> <<"EXPRS">>,
    when |-> <<"EXPR", "BLOCK", "OTHERWISE">>, reinforce |-> <<"EXPR", "TIMES", "BLOCK">>,
    for |-> <<"each", "NAME", "in", "EXPR", "BLOCK">>,
    agent |-> <<"NAME", "PARAMS", "TYPE", "BLOCK">>, needs |-> <<"NEEDS">>, report |-> <<"VALUE">>, fail |-> <<"REASON">>,
    attempt |-> <<"BLOCK", "rescue", "NAME", "BLOCK">>, weave |-> <<"EXPR", "ALIAS">>,
    expose |-> <<"NAME">>, test |-> <<"NAME", "BLOCK">>, expect |-> <<"EXPR", "MATCHER">>,
    match |-> <<"EXPR", "ARMS">>, give |-> <<"EXPR", "to", "EXPR">>,
    take |-> <<"NAME", "from", "EXPR">>, yield |-> << >>,
    expression |-> <<"EXPR">>, assign |-> <<"EXPR", "=", "EXPR">>]

FmtMatcher(m) ==
    CASE m[1] = "is" -> <<"is">> \o Fmt(m[2], 0, "none")
      [] m[1] = "isnot" -> <<"is", "not">> \o Fmt(m[2], 0, "none")
      [] m[1] = "fail" -> <<"to", "fail">>
      [] m[1] = "failwith" -> <<"to", "fail", "with">> \o Fmt(m[2], 0, "none")
      [] m[1] = "truthy" -> << >>

FmtNeed(need) ==
    LET given(i, word) == IF need[2][i] = << >> THEN << >> ELSE << <<word>> \o need[2][i] >>
    IN  IF need[2] = << >> THEN <<need[1]>>
        ELSE <<need[1], "(">> \o Commas(given(1, "max") \o given(2, "total")) \o <<")">>

(* A lone `when` under otherwise is chained, with or without its braces.   *)
FmtOtherwise(else) ==
    IF else[1] = "none" THEN << >>
    ELSE IF Len(else[2]) = 1 /\ else[2][1][1] = "when"
    THEN <<"otherwise">> \o FmtStatement(else[2][1])
    ELSE <<"otherwise">> \o FmtBlock(else[2])

FmtPart(kind, x) ==
    CASE kind = "TARGET" -> FmtPattern(x)
      [] kind = "EXPR" -> Fmt(x, 0, "none")
      [] kind = "EXPRS" -> Commas([i \in DOMAIN x |-> Fmt(x[i], 0, "none")])
      [] kind = "NAME" -> <<x>>
      [] kind = "PARAMS" -> FmtParams(x)
      [] kind = "TYPE" -> FmtType(x)
      [] kind = "NEEDS" -> Commas([i \in DOMAIN x |-> FmtNeed(x[i])])
      [] kind = "BLOCK" -> FmtBlock(x)
      [] kind = "OTHERWISE" -> FmtOtherwise(x)
      [] kind = "TIMES" -> IF x THEN <<"times">> ELSE << >>
      [] kind = "VALUE" -> IF x = <<"constant", "void">> THEN << >> ELSE Fmt(x, 0, "none")
      [] kind = "REASON" -> IF x = <<"constant", "'failed'">> THEN << >> ELSE Fmt(x, 0, "none")
      [] kind = "ALIAS" -> IF x = << >> THEN << >> ELSE <<"as">> \o x
      [] kind = "MATCHER" -> FmtMatcher(x)
      [] kind = "ARMS" ->
           <<"{">> \o FlattenSeq([i \in DOMAIN x |-> FmtPattern(x[i][1]) \o FmtBlock(x[i][2])]) \o <<"}">>

(* The i-th thing of a layout and what is left of the parts before it.     *)
Capital == {"TARGET", "EXPR", "EXPRS", "NAME", "PARAMS", "TYPE", "BLOCK", "OTHERWISE", "TIMES",
            "NEEDS", "VALUE", "REASON", "ALIAS", "MATCHER", "ARMS"}
FmtStatement(s) ==
    LET layout == Layout[s[1]]
        before(i) == Len(SelectSeq(SubSeq(layout, 1, i), LAMBDA x : x \in Capital))
        text(i) == IF layout[i] \in Capital THEN FmtPart(layout[i], s[2][before(i)]) ELSE <<layout[i]>>
    IN  (IF s[1] \in {"expression", "assign"} THEN << >> ELSE <<s[1]>>)
        \o FlattenSeq([i \in DOMAIN layout |-> text(i)])

FmtProgram(body) == FlattenSeq([i \in DOMAIN body |-> FmtStatement(body[i])])
=============================================================================
