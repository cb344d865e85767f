------------------------------ MODULE McpServer ------------------------------
(***************************************************************************)
(* src/mcp-framing.js and src/mcp-server.js: lines arrive in chunks cut    *)
(* anywhere, and every message of a chunk is handled; handlers of the host *)
(* end in any order.  A line that is no JSON makes push throw; the         *)
(* transport, which is the host's, goes on with the next chunk.            *)
(***************************************************************************)
EXTENDS Naturals, Sequences, FiniteSets

CONSTANT MaxLines   \* bound: lines sent

ASSUME McpAssumption == MaxLines \in Nat

VARIABLES
    lines,      \* history: what each line is
    coming,     \* pieces of lines under way
    held,       \* MessageBuffer._buf
    handled,    \* requests whose handler has not ended
    responses,  \* written: [to, how]
    lost        \* history: lines parsed by a push that threw, or by one that throws: no JSON

mcpVars == <<lines, coming, held, handled, responses, lost>>

McpInit ==
    /\ lines = << >> /\ coming = << >> /\ held = << >>
    /\ handled = {} /\ responses = << >> /\ lost = {}

(* initialize, a method with a handler, one without, a notification, a     *)
(* blank line, no JSON.                                                    *)
LineKind == {"initialize", "call", "unknown", "notification", "blank", "no json"}
Asking == {"initialize", "call", "unknown"}
Part1(i) == [line |-> i, last |-> FALSE]
Newline(i) == [line |-> i, last |-> TRUE]

SendLine(what) ==
    /\ Len(lines) < MaxLines
    /\ lines' = Append(lines, what)
    /\ coming' = coming \o <<Part1(Len(lines) + 1), Newline(Len(lines) + 1)>>
    /\ UNCHANGED <<held, handled, responses, lost>>

(* The lines of a chunk that are taken: up to the first that is no JSON.   *)
Ended(text) == {text[p].line : p \in {q \in DOMAIN text : text[q].last}}
Bad(text) == {i \in Ended(text) : lines[i] = "no json"}
TakenOf(text) == {i \in Ended(text) : \A j \in Bad(text) : i <= j}

(* Bug: nothing is held for the next chunk.  (What a plausible mistake     *)
(* would make of the definition that follows; nothing uses it.)            *)
Kept_Bug(text) == << >>
Kept(text) ==
    LET front == {p \in DOMAIN text : text[p].line \in TakenOf(text)}
    IN SubSeq(text, Cardinality(front) + 1, Len(text))

(* Of these requests, those answered without a handler, in their order.    *)
AtOnce(S) == [k \in 1..Cardinality(S) |->
    LET i == CHOOSE j \in S : Cardinality({h \in S : h < j}) = k - 1
    IN [to |-> i, how |-> IF lines[i] = "initialize" THEN "result" ELSE "error"]]

(* push, and handleMessage for every message it returns.                   *)
PushChunk(n) ==
    LET text == held \o SubSeq(coming, 1, n)
        out == IF Bad(text) = {} THEN TakenOf(text) ELSE {}
    IN  /\ coming' = SubSeq(coming, n + 1, Len(coming))
        /\ held' = Kept(text)
        /\ lost' = lost \cup (TakenOf(text) \ out)
        /\ handled' = handled \cup {i \in out : lines[i] = "call"}
        /\ responses' = responses \o AtOnce({i \in out : lines[i] \in {"initialize", "unknown"}})
        /\ UNCHANGED lines

(* A handler ends; if it throws, that is its answer.                       *)
HandlerEnds(i, how) ==
    /\ i \in handled
    /\ handled' = handled \ {i}
    /\ responses' = Append(responses, [to |-> i, how |-> how])
    /\ UNCHANGED <<lines, coming, held, lost>>

McpNext ==
    \/ \E what \in LineKind : SendLine(what)
    \/ \E n \in DOMAIN coming : PushChunk(n)
    \/ \E i \in handled, how \in {"result", "error"} : HandlerEnds(i, how)

McpSpec == McpInit /\ [][McpNext]_mcpVars
-----------------------------------------------------------------------------
(* However lines are cut and handlers end: every request that has come is  *)
(* answered once, or its handler runs, or it waits for the next chunk      *)
(* behind a line that was no JSON, or it was lost before one; and nothing  *)
(* else is answered.                                                       *)
Answers(i) == Cardinality({p \in DOMAIN responses : responses[p].to = i})
Waits(text, i) == \E p \in DOMAIN text : text[p].line = i
EachAnsweredOnce == \A i \in DOMAIN lines :
    /\ Answers(i) = IF /\ lines[i] \in Asking /\ i \notin handled \cup lost
                       /\ ~Waits(coming, i) /\ ~Waits(held, i) THEN 1 ELSE 0
    /\ i \in lost => \E j \in i..Len(lines) : lines[j] = "no json" /\ j \in lost
    /\ Newline(i) \in {held[p] : p \in DOMAIN held} => \E j \in lost : j < i
=============================================================================
