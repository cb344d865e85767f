------------------------------- MODULE Parser -------------------------------
(***************************************************************************)
(* The recursive-descent parser of src/parser.js: from a sequence of       *)
(* tokens to a tree.                                                       *)
(*                                                                         *)
(* A token is the string of its text; the words the lexer calls IDENT are  *)
(* the set Word, its NUMBERs and STRINGs the sets of these names.  A tree  *)
(* is a tuple of a tag and its parts.  Reading a part gives a tree and the *)
(* position after it; position 0 is a MyxoError thrown, which every later  *)
(* step hands on.  Lines and interpolated strings are left out.            *)
(*                                                                         *)
(* What the parser's methods expect one after another is a form: a list of *)
(* tokens and, in capitals, of kinds of parts.  Part reads one part, Parts *)
(* a form.                                                                 *)
(***************************************************************************)
EXTENDS Integers, SequencesExt

CONSTANTS Word, Number, String

Read(tree, at) == [tree |-> tree, at |-> at]
Refused == Read(<<"error">>, 0)
Tagged(tag, r) == Read(<<tag>> \o r.tree, r.at)
Under(tag, r) == Read(<<tag, r.tree>>, r.at)
Applied(tag, left, r) == Read(<<tag, left.tree>> \o r.tree, r.at)

(* Operators from the loosest to the tightest, all of them left to right.  *)
PRECEDENCE == << {"or"}, {"and"}, {"==", "!="}, {">", "<", ">=", "<="},
                 {"+", "-"}, {"*", "/", "%"} >>
Constants == Number \cup String \cup {"live", "dead", "void"}
VALID_TYPES == {"number", "string", "bool", "list", "mesh", "agent", "void", "any"}

RECURSIVE Part(_, _, _), Parts(_, _, _, _), Items(_, _, _, _, _), CommaList(_, _, _, _),
          Repeated(_, _, _, _, _), Pipe(_, _), Binary(_, _, _), Infix(_, _, _), Postfix(_, _)

Form == [
    seed |-> <<"TARGET", "=", "EXPR">>, decay |-> <<"SLOT">>, emit |-> <<"EXPRS">>,
    when |-> <<"EXPR", "BLOCK", "OTHERWISE">>, reinforce |-> <<"EXPR", "TIMES", "BLOCK">>,
    for |-> <<"each", "NAME", "in", "EXPR", "BLOCK">>,
    agent |-> <<"NAME", "PARAMS", "TYPE", "BLOCK">>, needs |-> <<"NEEDS">>,
    report |-> <<"VALUE">>, fail |-> <<"REASON">>,
    attempt |-> <<"BLOCK", "rescue", "NAME", "BLOCK">>, weave |-> <<"EXPR", "ALIAS">>,
    expose |-> <<"NAME">>, test |-> <<"STRING", "BLOCK">>, expect |-> <<"EXPR", "MATCHER">>,
    match |-> <<"EXPR", "{", "ARMS">>, give |-> <<"EXPR", "to", "EXPR">>,
    take |-> <<"NAME", "from", "EXPR">>, yield |-> << >>]
Kinds == {"TARGET", "SLOT", "EXPR", "EXPRS", "NAME", "STRING", "NUMBER", "PARAMS", "TYPE",
          "DEFAULT", "BLOCK", "OTHERWISE", "TIMES", "NEEDS", "LIMITS", "LIMITLIST", "VALUE",
          "REASON", "ALIAS", "MATCHER", "ARMS", "LINEAR", "PATTERN", "ARGS"}

Parts(t, p, form, done) ==
    IF form = << >> \/ p = 0 THEN Read(done, p)
    ELSE IF Head(form) \in Kinds
         THEN LET part == Part(t, p, Head(form))
              IN  Parts(t, part.at, Tail(form), Append(done, part.tree))
         ELSE Parts(t, IF t[p] = Head(form) THEN p + 1 ELSE 0, Tail(form), done)
Reads(t, p, form) == Parts(t, p, form, << >>)

-----------------------------------------------------------------------------
(* Expressions.                                                            *)

Pipe(t, left) ==
    IF t[left.at] # "|" THEN left
    ELSE LET right == Binary(t, left.at + 1, 1)
         IN  Pipe(t, Read(<<"pipe", left.tree, right.tree>>, right.at))

(* Bug: the right operand takes in the operators of its own level.         *)
Infix_Bug(t, left, level) ==
    IF t[left.at] \notin PRECEDENCE[level] THEN left
    ELSE LET right == Binary(t, left.at + 1, level)
         IN  Read(<<"binary", t[left.at], left.tree, right.tree>>, right.at)

(* The loop of parseBinary: fold what stands to the left.                  *)
Infix(t, left, level) ==
    IF t[left.at] \notin PRECEDENCE[level] THEN left
    ELSE LET right == Binary(t, left.at + 1, level + 1)
         IN  Infix(t, Read(<<"binary", t[left.at], left.tree, right.tree>>, right.at), level)

Binary(t, p, level) ==
    IF level > Len(PRECEDENCE) THEN Part(t, p, "TERM")
    ELSE Infix(t, Binary(t, p, level + 1), level)

Primary(t, p) ==
    LET inner == Reads(t, p + 1, <<"EXPR", ")">>)
    IN  CASE t[p] \in Constants -> Read(<<"constant", t[p]>>, p + 1)
          [] t[p] \in Word -> Read(<<"name", t[p]>>, p + 1)
          [] t[p] = "agent" -> Tagged("agentexpr", Reads(t, p + 1, <<"PARAMS", "TYPE", "BLOCK">>))
          [] t[p] = "(" -> Read(inner.tree[1], inner.at)
          [] t[p] = "[" -> Under("list", Items(t, p + 1, "EXPR", "]", << >>))
          [] t[p] = "{" -> Under("mesh", Items(t, p + 1, "PAIR", "}", << >>))
          [] OTHER -> Refused

(* Calls and indexing chain left to right.                                 *)
Postfix(t, left) ==
    CASE t[left.at] = "(" -> Postfix(t, Applied("call", left, Reads(t, left.at + 1, <<"ARGS">>)))
      [] t[left.at] = "[" ->
           Postfix(t, Applied("index", left, Reads(t, left.at + 1, <<"EXPR", "]">>)))
      [] OTHER -> left

Unary(t, p) ==
    LET operand == Part(t, p + 1, "TERM")
        call == Part(t, p + 1, "POSTFIX")
    IN  CASE t[p] \in {"not", "-"} -> Read(<<"unary", t[p], operand.tree>>, operand.at)
          [] t[p] = "gather" -> Under("gather", operand)
          [] t[p] \in {"dispatch", "spawn"} ->
               IF call.tree[1] = "call" THEN Under(t[p], call) ELSE Refused
          [] OTHER -> Part(t, p, "POSTFIX")

(* Items up to the closing bracket.  All lists but those of arguments and  *)
(* parameters may end in a comma; nothing follows the rest of a pattern.   *)
Items(t, p, kind, close, done) ==
    LET item == Part(t, p, kind)
        all == Append(done, item.tree)
    IN  IF t[p] = close /\ (done = << >> \/ close # ")")
        THEN Read(done, p + 1)
        ELSE IF t[item.at] = "," /\ ~(kind = "ELEMENT" /\ item.tree[1] = "rest")
        THEN Items(t, item.at + 1, kind, close, all)
        ELSE Read(all, IF t[item.at] = close THEN item.at + 1 ELSE 0)

CommaList(t, p, kind, done) ==
    LET item == Part(t, p, kind)
        all == Append(done, item.tree)
    IN  IF t[item.at] = "," THEN CommaList(t, item.at + 1, kind, all) ELSE Read(all, item.at)

-----------------------------------------------------------------------------
(* Patterns.                                                               *)

Pattern(t, p) ==
    CASE t[p] = "_" -> Read(<<"wild">>, p + 1)
      [] t[p] \in Word \ {"_"} -> Read(<<"bind", t[p]>>, p + 1)
      [] t[p] \in Constants -> Read(<<"constant", t[p]>>, p + 1)
      [] t[p] = "-" -> Tagged("negative", Reads(t, p + 1, <<"NUMBER">>))
      [] t[p] = "[" -> Under("plist", Items(t, p + 1, "ELEMENT", "]", << >>))
      [] t[p] = "{" -> Under("pmesh", Items(t, p + 1, "ENTRY", "}", << >>))
      [] OTHER -> Refused

(* A mesh pattern's entry: a key and its pattern, or a name that is both.  *)
MeshEntry(t, p) ==
    IF t[p] \in Word THEN Read(<<t[p], <<"bind", t[p]>>>>, p + 1)
    ELSE Reads(t, p, <<"STRING", ":", "PATTERN">>)

(* assertLinear: a pattern binds no name twice.                            *)
RECURSIVE Bound(_)
Bound(pattern) ==
    CASE pattern[1] \in {"bind", "rest"} -> <<pattern[2]>>
      [] pattern[1] = "plist" -> FlattenSeq([i \in DOMAIN pattern[2] |-> Bound(pattern[2][i])])
      [] pattern[1] = "pmesh" -> FlattenSeq([i \in DOMAIN pattern[2] |-> Bound(pattern[2][i][2])])
      [] OTHER -> << >>
Linear(r) == IF IsInjective(Bound(r.tree)) THEN r ELSE Refused

-----------------------------------------------------------------------------
(* The parts of statements.                                                *)

OneOf(t, p, tokens) == IF t[p] \in tokens THEN Read(t[p], p + 1) ELSE Refused
OfSlot(r) == IF r.tree[1] \in {"name", "index"} THEN r ELSE Refused

Rest(t, p) == Tagged("rest", Reads(t, p + 1, <<"NAME">>))
Param(t, p) ==
    IF t[p] = "..." THEN Rest(t, p)
    ELSE Tagged("parameter", Reads(t, p, <<"NAME", "TYPE", "DEFAULT">>))
Target(t, p) ==
    IF t[p] \in {"[", "{"} THEN Part(t, p, "LINEAR")
    ELSE Tagged("typed", Reads(t, p, <<"NAME", "TYPE">>))

(* What a form may leave out, with the token that announces it.            *)
Perhaps(t, p, token, form) == IF t[p] = token THEN Reads(t, p + 1, form) ELSE Read(<< >>, p)
Type(t, p) ==
    IF t[p] # ":" THEN Read(<< >>, p)
    ELSE IF t[p + 1] \in VALID_TYPES THEN Read(<<t[p + 1]>>, p + 2) ELSE Refused
UnlessEnd(t, p, default) == IF t[p] \in {"}", "EOF"} THEN Read(default, p) ELSE Part(t, p, "EXPR")

(* The limits of a need come in any order; a later `max` replaces an       *)
(* earlier one.                                                            *)
Given(kind, limits) ==
    LET at == {i \in DOMAIN limits : limits[i][1] = kind}
    IN  IF at = {} THEN << >> ELSE <<limits[Max(at)][2]>>
Limits(t, p) ==
    LET r == Reads(t, p + 1, <<"LIMITLIST", ")">>)
    IN  IF t[p] # "(" THEN Read(<< >>, p)
        ELSE Read(<<Given("max", r.tree[1]), Given("total", r.tree[1])>>, r.at)
OneLimit(t, p) ==
    IF t[p] \in {"max", "total"} /\ t[p + 1] \in Number THEN Read(<<t[p], t[p + 1]>>, p + 2)
    ELSE Refused

(* `is` and `to` are ordinary names unless a matcher begins there.         *)
Matcher(t, p) ==
    CASE t[p] = "is" /\ t[p + 1] = "not" -> Tagged("isnot", Reads(t, p + 2, <<"EXPR">>))
      [] t[p] = "is" /\ t[p + 1] \notin {"=", "not"} -> Tagged("is", Reads(t, p + 1, <<"EXPR">>))
      [] t[p] = "to" /\ t[p + 1] = "fail" ->
           IF t[p + 2] = "with" THEN Tagged("failwith", Reads(t, p + 3, <<"EXPR">>))
           ELSE Read(<<"fail">>, p + 2)
      [] OTHER -> Read(<<"truthy">>, p)

(* `otherwise when ...` is a block of that one statement.                  *)
Otherwise(t, p) ==
    LET chained == Reads(t, p + 2, Form["when"])
    IN  CASE t[p] # "otherwise" -> Read(<<"none">>, p)
          [] t[p] = "otherwise" /\ t[p + 1] = "when" ->
               Read(<<"else", << <<"when", chained.tree>> >> >>, chained.at)
          [] OTHER -> Tagged("else", Reads(t, p + 1, <<"BLOCK">>))

-----------------------------------------------------------------------------
(* An expression, or an assignment to what it denotes.                     *)
ExpressionStatement(t, p) ==
    LET target == Part(t, p, "EXPR")
    IN  IF t[target.at] = "=" THEN Under("assign", Reads(t, p, <<"SLOT", "=", "EXPR">>))
        ELSE Read(<<"expression", <<target.tree>> >>, target.at)

(* `agent name` declares, `agent (` is an expression.                      *)
Statement(t, p) ==
    IF t[p] \in DOMAIN Form /\ (t[p] = "agent" => t[p + 1] \in Word)
    THEN Under(t[p], Reads(t, p + 1, Form[t[p]]))
    ELSE ExpressionStatement(t, p)

(* Statements or arms, up to the end.                                      *)
Repeated(t, p, kind, end, done) ==
    LET one == Part(t, p, kind)
    IN  IF t[p] = end THEN Read(done, p + 1)
        ELSE IF one.at = 0 THEN Refused
        ELSE Repeated(t, one.at, kind, end, Append(done, one.tree))

Part(t, p, kind) ==
    CASE kind = "EXPR" -> Pipe(t, Binary(t, p, 1))
      [] kind = "TERM" -> Unary(t, p)
      [] kind = "POSTFIX" -> Postfix(t, Primary(t, p))
      [] kind = "ARGS" -> Items(t, p, "EXPR", ")", << >>)
      [] kind = "PAIR" -> Reads(t, p, <<"EXPR", ":", "EXPR">>)
      [] kind = "EXPRS" -> CommaList(t, p, "EXPR", << >>)
      [] kind = "NAME" -> OneOf(t, p, Word)
      [] kind = "STRING" -> OneOf(t, p, String)
      [] kind = "NUMBER" -> OneOf(t, p, Number)
      [] kind = "PATTERN" -> Pattern(t, p)
      [] kind = "LINEAR" -> Linear(Pattern(t, p))
      [] kind = "ELEMENT" -> IF t[p] = "..." THEN Rest(t, p) ELSE Pattern(t, p)
      [] kind = "ENTRY" -> MeshEntry(t, p)
      [] kind = "PARAMS" -> IF t[p] = "(" THEN Items(t, p + 1, "PARAM", ")", << >>) ELSE Refused
      [] kind = "PARAM" -> Param(t, p)
      [] kind = "TYPE" -> Type(t, p)
      [] kind = "DEFAULT" -> Perhaps(t, p, "=", <<"EXPR">>)
      [] kind = "ALIAS" -> Perhaps(t, p, "as", <<"NAME">>)
      [] kind = "TARGET" -> Target(t, p)
      [] kind = "SLOT" -> OfSlot(Part(t, p, "EXPR"))
      [] kind = "TIMES" -> IF t[p] = "times" THEN Read(TRUE, p + 1) ELSE Read(FALSE, p)
      [] kind = "NEEDS" -> CommaList(t, p, "NEED", << >>)
      [] kind = "NEED" -> Reads(t, p, <<"NAME", "LIMITS">>)
      [] kind = "LIMITS" -> Limits(t, p)
      [] kind = "LIMITLIST" -> CommaList(t, p, "LIMIT", << >>)
      [] kind = "LIMIT" -> OneLimit(t, p)
      [] kind = "VALUE" -> UnlessEnd(t, p, <<"constant", "void">>)
      [] kind = "REASON" -> UnlessEnd(t, p, <<"constant", "'failed'">>)
      [] kind = "MATCHER" -> Matcher(t, p)
      [] kind = "OTHERWISE" -> Otherwise(t, p)
      [] kind = "ARMS" -> Repeated(t, p, "ARM", "}", << >>)
      [] kind = "ARM" -> Reads(t, p, <<"LINEAR", "BLOCK">>)
      [] kind = "BLOCK" ->
           IF t[p] = "{" THEN Repeated(t, p + 1, "STATEMENT", "}", << >>) ELSE Refused
      [] kind = "STATEMENT" -> Statement(t, p)

(* The text is read from position 1 to its end; at 0 there is nothing.     *)
Program(text) ==
    LET t == [p \in 0..(Len(text) + 1) |->
                CASE p = 0 -> "error" [] p = Len(text) + 1 -> "EOF" [] OTHER -> text[p]]
    IN  Repeated(t, 1, "STATEMENT", "EOF", << >>)
=============================================================================
