----------------------------- MODULE Formatter -----------------------------
(***************************************************************************)
(* myxo fmt (src/format.js, formatSource): a source is parsed, refused if  *)
(* it does not parse, and printed; what is printed is what anybody who     *)
(* runs the program afterwards will parse.                                 *)
(***************************************************************************)
EXTENDS Parser, Printer

CONSTANTS Sources   \* families of pairs <<text, meant>>: tokens, and what they stand for

Unsaid == <<"unsaid">>   \* meant, where the text alone decides

VARIABLES
    stage,   \* "source", then "refused", or "parsed", "printed", "read"
    text,    \* the tokens of the source, later of the formatted program
    meant,   \* what the source stands for, where that is known beforehand
    tree,    \* the program the source parses to
    again    \* the program the formatted text parses to

vars == <<stage, text, meant, tree, again>>

Init ==
    /\ stage = "source" /\ tree = Unsaid /\ again = Unsaid
    /\ \E i \in DOMAIN Sources :
         \E source \in Sources[i] : text = source[1] /\ meant = source[2]

Parse ==
    /\ stage = "source"
    /\ LET r == Program(text)
       IN  IF r.at = 0 THEN stage' = "refused" /\ UNCHANGED tree
           ELSE stage' = "parsed" /\ tree' = r.tree
    /\ UNCHANGED <<text, meant, again>>

Format ==
    /\ stage = "parsed" /\ stage' = "printed"
    /\ text' = FmtProgram(tree)
    /\ UNCHANGED <<meant, tree, again>>

Reread ==
    /\ stage = "printed" /\ stage' = "read"
    /\ again' = LET r == Program(text) IN IF r.at = 0 THEN <<r.tree>> ELSE r.tree
    /\ UNCHANGED <<text, meant, tree>>

Next == Parse \/ Format \/ Reread

Spec == Init /\ [][Next]_vars

-----------------------------------------------------------------------------
(* What the printer is known to get wrong, said of the tree it prints.     *)

RECURSIVE LostIn(_), LostAmong(_)

DefaultsIn(params) ==
    FlattenSeq([i \in DOMAIN params |-> IF params[i][1] = "rest" THEN << >> ELSE params[i][4]])

(* A prefix form that is called or indexed loses its parentheses           *)
(* (format.js:194-201), and what follows binds tighter.                    *)
Subtrees(e) ==
    CASE e[1] \in {"name", "constant"} -> << >>
      [] e[1] = "binary" -> <<e[3], e[4]>>
      [] e[1] = "unary" -> <<e[3]>>
      [] e[1] \in {"pipe", "index"} -> <<e[2], e[3]>>
      [] e[1] = "call" -> <<e[2]>> \o e[3]
      [] e[1] = "list" -> e[2]
      [] e[1] = "mesh" -> FlattenSeq(e[2])
      [] e[1] \in {"gather", "dispatch", "spawn"} -> <<e[2]>>
      [] e[1] = "agentexpr" -> DefaultsIn(e[2])
LostIn(e) ==
    \/ e[1] \in {"call", "index"} /\ e[2][1] \in {"gather", "dispatch", "spawn"}
    \/ \E x \in Range(Subtrees(e)) : LostIn(x)
    \/ e[1] = "agentexpr" /\ LostAmong(e[4])

(* `is` and what begins with `not` reads as `is not` (format.js:136).      *)
Opposed(m) == m[1] = "is" /\ Fmt(m[2], 0, "none")[1] = "not"

(* A bare `report` or `fail` takes the next statement for its value, a     *)
(* bare `to fail` a next statement that begins with the word `with`        *)
(* (format.js:107-111, 138).                                               *)
Bare(s) == s \in {<<"report", << <<"constant", "void">> >>>>,
                  <<"fail", << <<"constant", "'failed'">> >>>>}
Takes(s, next) ==
    Bare(s) \/ (s[1] = "expect" /\ s[2][2] = <<"fail">> /\ FmtStatement(next)[1] = "with")

LostInPart(kind, x) ==
    CASE kind \in {"EXPR", "VALUE", "REASON"} -> LostIn(x)
      [] kind = "EXPRS" -> \E e \in Range(x) : LostIn(e)
      [] kind = "PARAMS" -> \E e \in Range(DefaultsIn(x)) : LostIn(e)
      [] kind = "MATCHER" -> Len(x) = 2 /\ (Opposed(x) \/ LostIn(x[2]))
      [] kind = "BLOCK" -> LostAmong(x)
      [] kind = "OTHERWISE" -> Len(x) = 2 /\ LostAmong(x[2])
      [] kind = "ARMS" -> \E arm \in Range(x) : LostAmong(arm[2])
      [] OTHER -> FALSE
LostAmong(body) ==
    \/ \E i \in 1..(Len(body) - 1) : Takes(body[i], body[i + 1])
    \/ \E s \in Range(body) :
         LET kinds == SelectSeq(Layout[s[1]], LAMBDA x : x \in Capital)
         IN  \E i \in DOMAIN kinds : LostInPart(kinds[i], s[2][i])

(* What is printed is the program that was parsed: formatting a file keeps *)
(* its meaning, and `fmt --check` passes on what `fmt --write` wrote, but  *)
(* for exactly the programs in which one of these things is lost.          *)
MeaningKept == stage = "read" => (again = tree <=> ~LostAmong(tree))

(* Where the source's parentheses say what an index or a call applies to,  *)
(* the printed program still applies it to that (test/format.test.js:29).  *)
GroupingKept == stage = "read" /\ meant # Unsaid => again = meant

(* A source that says what it stands for, by parentheses or because its    *)
(* operators have only one reading, is not refused and is parsed as that   *)
(* (parser.js:8-18).                                                       *)
ParsedAsMeant == stage # "source" /\ meant # Unsaid => tree = meant
=============================================================================
