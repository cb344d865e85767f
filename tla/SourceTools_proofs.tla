-------------------------- MODULE SourceTools_proofs --------------------------
(***************************************************************************)
(* What other programs are told of a source.  The two servers stay in step *)
(* with a stream cut anywhere, for sessions of any length: the language    *)
(* server has the texts the editor shows and answers what it is asked      *)
(* about them; every request of a client of tools is answered once, or     *)
(* lost in the one way EachAnsweredOnce tells.  And a script, however it   *)
(* runs, calls no foreign name that its preview did not list, nor does the *)
(* preview list one when all of the script has run and called none.        *)
(***************************************************************************)
EXTENDS ScopedRun, LanguageServer, McpServer, SequenceTheorems, FiniteSetTheorems,
        WellFoundedInduction, TLAPS

(* Lists, and the least of some numbers.                                   *)
IsList(s) == \E S : s \in Seq(S)

LEMMA ListKnown ==
    ASSUME NEW s, IsList(s)
    PROVE  /\ Len(s) \in Nat /\ DOMAIN s = 1..Len(s)
           /\ s = << >> <=> Len(s) = 0
<1>1. PICK S : s \in Seq(S)
  BY DEF IsList
<1> QED BY <1>1, LenProperties, EmptySeq

LEMMA ListGrows ==
    ASSUME NEW s, IsList(s), NEW e
    PROVE  /\ IsList(Append(s, e)) /\ Len(Append(s, e)) = Len(s) + 1
           /\ \A i \in 1..Len(s) : Append(s, e)[i] = s[i]
           /\ Append(s, e)[Len(s) + 1] = e
<1>1. PICK S : s \in Seq(S)
  BY DEF IsList
<1>2. s \in Seq(S \cup {e}) /\ e \in S \cup {e}
  BY <1>1, SeqMonotonic
<1>3. Append(s, e) \in Seq(S \cup {e})
  BY <1>2, AppendProperties
<1> QED BY <1>2, <1>3, AppendProperties DEF IsList

LEMMA LeastOf ==
    ASSUME NEW T \in SUBSET Nat, T # {}
    PROVE  \E m \in T : \A n \in T : m <= n
<1>1. PICK m \in T : \A n \in T : <<n, m>> \notin OpToRel(<, Nat)
  BY NatLessThanWellFounded, WFMin
<1>2. \A n \in T : ~(n < m)
  BY <1>1 DEF OpToRel
<1> QED BY <1>2

-----------------------------------------------------------------------------
(* The servers.                                                            *)

Joins(b, w) ==
    \A p \in 1..(Len(b) + Len(w)) : (b \o w)[p] = IF p <= Len(b) THEN b[p] ELSE w[p - Len(b)]
LEMMA Joined ==
    ASSUME NEW S, NEW b \in Seq(S), NEW w \in Seq(S)
    PROVE  Joins(b, w)
  BY ConcatProperties DEF Joins

(* What is left of a list, with more behind it, is the rest of the whole.  *)
Drops(b, w, cut, rest) == \A p \in 1..(Len(b) + Len(w) - cut) : (rest \o w)[p] = (b \o w)[p + cut]
LEMMA FrontDropped ==
    ASSUME NEW S, NEW b \in Seq(S), NEW w \in Seq(S), NEW cut \in 0..Len(b)
    PROVE  /\ SubSeq(b, cut + 1, Len(b)) \in Seq(S) /\ Len(SubSeq(b, cut + 1, Len(b))) = Len(b) - cut
           /\ Drops(b, w, cut, SubSeq(b, cut + 1, Len(b)))
<1> DEFINE n == Len(b)
           rest == SubSeq(b, cut + 1, n)
<1>1. n \in Nat /\ Len(w) \in Nat /\ \A i \in 1..n : b[i] \in S
  BY LenProperties, ElementOfSeq
<1>2. /\ rest \in Seq(S) /\ Len(rest) = IF cut + 1 <= n THEN n - (cut + 1) + 1 ELSE 0
      /\ \A i \in 1..(n - (cut + 1) + 1) : rest[i] = b[(cut + 1) + i - 1]
  <2>1. \A i \in (cut + 1)..n : b[i] \in S
    BY <1>1
  <2> QED BY <1>1, <2>1, SubSeqProperties
<1>3. Len(rest) = n - cut
  BY <1>1, <1>2
<1>4. \A i \in 1..(n - cut) : rest[i] = b[i + cut]
  <2>1. n - (cut + 1) + 1 = n - cut /\ \A i \in 1..(n - cut) : (cut + 1) + i - 1 = i + cut
    BY <1>1
  <2> QED BY <1>2, <2>1
<1> HIDE DEF rest, n
<1>5. \A p \in 1..(Len(rest) + Len(w)) : (rest \o w)[p] = IF p <= Len(rest) THEN rest[p] ELSE w[p - Len(rest)]
  BY <1>2, ConcatProperties
<1>6. \A p \in 1..(n + Len(w)) : (b \o w)[p] = IF p <= n THEN b[p] ELSE w[p - n]
  BY ConcatProperties DEF n
<1>7. ASSUME NEW p \in 1..(n + Len(w) - cut) PROVE (rest \o w)[p] = (b \o w)[p + cut]
  <2>0. cut \in 0..n
    BY DEF n
  <2>1. p \in 1..(Len(rest) + Len(w)) /\ p + cut \in 1..(n + Len(w))
    BY <1>1, <1>3, <2>0
  <2>2. CASE p <= n - cut
    <3>1. p \in 1..(n - cut) /\ p + cut <= n
      BY <1>1, <2>0, <2>2
    <3> QED BY <1>3, <1>4, <1>5, <1>6, <2>1, <2>2, <3>1
  <2>3. CASE ~(p <= n - cut)
    <3>1. ~(p + cut <= n) /\ (p + cut) - n = p - (n - cut)
      BY <1>1, <2>0, <2>3
    <3> QED BY <1>3, <1>5, <1>6, <2>1, <2>3, <3>1
  <2> QED BY <2>2, <2>3
<1>8. Drops(b, w, cut, rest)
  BY <1>7 DEF Drops, n
<1> QED BY <1>2, <1>3, <1>8 DEF rest, n

(* A chunk moves from the one list to the other.                           *)
Moves(S, b, w, k) ==
    /\ b \o SubSeq(w, 1, k) \in Seq(S) /\ SubSeq(w, k + 1, Len(w)) \in Seq(S)
    /\ Len(b \o SubSeq(w, 1, k)) = Len(b) + k /\ Len(SubSeq(w, k + 1, Len(w))) = Len(w) - k
    /\ (b \o SubSeq(w, 1, k)) \o SubSeq(w, k + 1, Len(w)) = b \o w
LEMMA ChunkMoves ==
    ASSUME NEW S, NEW b \in Seq(S), NEW w \in Seq(S), NEW k \in 1..Len(w)
    PROVE  Moves(S, b, w, k)
<1>1. Len(w) \in Nat /\ Len(b) \in Nat /\ \A i \in 1..Len(w) : w[i] \in S
  BY LenProperties, ElementOfSeq
<1>2. SubSeq(w, 1, k) \in Seq(S) /\ Len(SubSeq(w, 1, k)) = k
  <2>1. \A i \in 1..k : w[i] \in S
    BY <1>1
  <2> QED BY <1>1, <2>1, SubSeqProperties
<1>3. SubSeq(w, k + 1, Len(w)) \in Seq(S) /\ Len(SubSeq(w, k + 1, Len(w))) = Len(w) - k
  <2>1. \A i \in (k + 1)..Len(w) : w[i] \in S
    BY <1>1
  <2>2. Len(SubSeq(w, k + 1, Len(w))) = IF k + 1 <= Len(w) THEN Len(w) - (k + 1) + 1 ELSE 0
    BY <1>1, <2>1, SubSeqProperties
  <2>3. SubSeq(w, k + 1, Len(w)) \in Seq(S)
    BY <1>1, <2>1, SubSeqProperties
  <2> QED BY <1>1, <2>2, <2>3
<1>4. SubSeq(w, 1, k) \o SubSeq(w, k + 1, Len(w)) = SubSeq(w, 1, Len(w))
  <2>1. 1 \in 1..(Len(w) + 1) /\ k \in (1 - 1)..Len(w) /\ Len(w) \in k..Len(w)
    BY <1>1
  <2> QED BY <2>1, ConcatAdjacentSubSeq
<1>5. SubSeq(w, 1, Len(w)) = w
  BY SubSeqFull
<1>6. (b \o SubSeq(w, 1, k)) \o SubSeq(w, k + 1, Len(w)) = b \o (SubSeq(w, 1, k) \o SubSeq(w, k + 1, Len(w)))
  <2>1. \A s \in Seq(S), t \in Seq(S), u \in Seq(S) : (s \o t) \o u = s \o (t \o u)
    OBVIOUS
  <2>2. SubSeq(w, 1, k) \in Seq(S) /\ SubSeq(w, k + 1, Len(w)) \in Seq(S)
    BY <1>2, <1>3
  <2> QED BY <2>1, <2>2
<1>7. b \o SubSeq(w, 1, k) \in Seq(S) /\ Len(b \o SubSeq(w, 1, k)) = Len(b) + k
  BY <1>2, ConcatProperties
<1>8. (b \o SubSeq(w, 1, k)) \o SubSeq(w, k + 1, Len(w)) = b \o w
  BY <1>4, <1>5, <1>6
<1> QED BY <1>3, <1>7, <1>8 DEF Moves

-----------------------------------------------------------------------------
(* The language server.                                                    *)

(* What a message does to the documents, and what the editor sends.        *)
Applied(f, m) ==
    CASE m.method = "didOpen" -> With(f, m.uri, m.texts[1])
      [] m.method = "didChange" -> IF m.texts = << >> THEN f ELSE With(f, m.uri, m.texts[Len(m.texts)])
      [] m.method = "didClose" -> Without(f, m.uri)
      [] OTHER -> f
Sensible(f, m) ==
    /\ m.method = "didChange" => m.uri \in DOMAIN f
    /\ m.method = "ask" => m.texts[1] = TextOf(f, m.uri)

(* The documents after each message: h[0] before the first.                *)
IsDocuments(f) == f = [u \in DOMAIN f |-> f[u]]
History(h) ==
    /\ h[0] = Empty
    /\ \A i \in DOMAIN sent : h[i] = Applied(h[i - 1], sent[i]) /\ Sensible(h[i - 1], sent[i])
    /\ \A i \in 0..Len(sent) : IsDocuments(h[i])

(* The stream: four pieces a message.  The server is past some messages;   *)
(* if the last of them had no length, its body is still to be dropped.     *)
Header(m) == IF m.method = "headless" THEN "no length" ELSE "length"
PieceAt(i, r) ==
    Piece(IF r = 1 THEN Header(sent[i]) ELSE IF r = 2 THEN "blank line" ELSE "body", i)
Stream == buf \o wire
Offset(past, off) ==
    \/ off = 4 * past
    \/ past # 0 /\ off = 4 * past - 2 /\ sent[past].method = "headless"
Placed(b, off) ==
    /\ Len(b) + Len(wire) = 4 * Len(sent) - off
    /\ \A i \in 1..Len(sent), r \in 1..4 :
         4 * (i - 1) + r > off => (b \o wire)[4 * (i - 1) + r - off] = PieceAt(i, r)
InStep(off) == Placed(buf, off)

(* The answers to the requests it is past.                                 *)
AnsweredUpto(past) ==
    /\ \A p \in DOMAIN replied :
         LET to == replied[p].to IN to \in Owed /\ to <= past /\ replied[p].with = Owing(sent[to])
    /\ \A p, q \in DOMAIN replied : p < q => replied[p].to < replied[q].to
    /\ \A i \in Owed : i <= past => \E p \in DOMAIN replied : replied[p].to = i

SessionAt(past, off, h) ==
    /\ Offset(past, off) /\ InStep(off)
    /\ History(h) /\ docs = h[past] /\ editor = h[Len(sent)]
    /\ \A u \in DOMAIN docs : u \in DOMAIN shown /\ shown[u] = docs[u]
    /\ AnsweredUpto(past)

Pieces == [is : {"length", "no length", "blank line", "body"}, of : Nat]
SessionInv ==
    /\ IsList(sent) /\ IsList(replied) /\ buf \in Seq(Pieces) /\ wire \in Seq(Pieces)
    /\ \E past \in 0..Len(sent), off \in Nat : \E h : SessionAt(past, off, h)

LEMMA StreamKnown ==
    ASSUME buf \in Seq(Pieces), wire \in Seq(Pieces)
    PROVE  /\ Len(buf) \in Nat /\ Len(wire) \in Nat /\ DOMAIN buf = 1..Len(buf) /\ DOMAIN wire = 1..Len(wire)
           /\ Stream \in Seq(Pieces) /\ Len(Stream) = Len(buf) + Len(wire)
           /\ \A p \in 1..Len(buf) : p \in 1..(Len(buf) + Len(wire)) /\ Stream[p] = buf[p]
           /\ wire = << >> <=> Len(wire) = 0
<1>1. Len(buf) \in Nat /\ Len(wire) \in Nat /\ DOMAIN buf = 1..Len(buf) /\ DOMAIN wire = 1..Len(wire)
  BY LenProperties
<1>2. /\ Stream \in Seq(Pieces) /\ Len(Stream) = Len(buf) + Len(wire)
      /\ \A i \in 1..(Len(buf) + Len(wire)) : Stream[i] = IF i <= Len(buf) THEN buf[i] ELSE wire[i - Len(buf)]
  BY ConcatProperties DEF Stream
<1>3. \A p \in 1..Len(buf) : p \in 1..(Len(buf) + Len(wire)) /\ p <= Len(buf)
  BY <1>1
<1>4. wire = << >> <=> Len(wire) = 0
  BY EmptySeq
<1> QED BY <1>1, <1>2, <1>3, <1>4

(* What stands where the server is: what is left of a message without a    *)
(* length, and the header of the next one.                                 *)
LEMMA FrontKnown ==
    ASSUME SessionInv, NEW past \in 0..Len(sent), NEW off \in Nat, Offset(past, off), InStep(off)
    PROVE  /\ Len(sent) \in Nat /\ DOMAIN sent = 1..Len(sent)
           /\ past < Len(sent) => /\ Stream[4 * past + 1 - off] = PieceAt(past + 1, 1)
                                  /\ Stream[4 * past + 2 - off] = PieceAt(past + 1, 2)
                                  /\ 4 * past + 4 - off <= Len(buf) + Len(wire)
           /\ \A p \in 1..(4 * past - off) : Stream[p].is = "body"
           /\ 4 * past + 2 - off \in {2, 4}
<1>1. Len(sent) \in Nat /\ DOMAIN sent = 1..Len(sent)
  BY ListKnown DEF SessionInv
<1>2. Len(buf) + Len(wire) = 4 * Len(sent) - off
  BY DEF InStep, Placed, Stream
<1>3. \A i \in 1..Len(sent), r \in 1..4 :
          4 * (i - 1) + r > off => Stream[4 * (i - 1) + r - off] = PieceAt(i, r)
  BY DEF InStep, Placed, Stream
<1>4. off = 4 * past \/ (past # 0 /\ off = 4 * past - 2)
  BY DEF Offset
<1>5. ASSUME past < Len(sent)
      PROVE  /\ Stream[4 * past + 1 - off] = PieceAt(past + 1, 1)
             /\ Stream[4 * past + 2 - off] = PieceAt(past + 1, 2)
             /\ 4 * past + 4 - off <= Len(buf) + Len(wire)
  <2>1. /\ past + 1 \in 1..Len(sent) /\ 1 \in 1..4 /\ 2 \in 1..4 /\ 4 * ((past + 1) - 1) = 4 * past
        /\ 4 * past + 1 > off /\ 4 * past + 2 > off
    BY <1>1, <1>4, <1>5
  <2>2. Stream[4 * past + 1 - off] = PieceAt(past + 1, 1)
    BY <1>3, <2>1
  <2>3. Stream[4 * past + 2 - off] = PieceAt(past + 1, 2)
    BY <1>3, <2>1
  <2>4. 4 * past + 4 - off <= 4 * Len(sent) - off
    BY <1>1, <1>5
  <2> QED BY <1>2, <2>2, <2>3, <2>4
<1>6. ASSUME NEW p \in 1..(4 * past - off) PROVE Stream[p].is = "body"
  <2>1. past # 0 /\ off = 4 * past - 2 /\ (p = 1 \/ p = 2)
    BY <1>4
  <2>2. /\ past \in 1..Len(sent) /\ 3 \in 1..4 /\ 4 \in 1..4
        /\ 4 * (past - 1) + 3 > off /\ 4 * (past - 1) + 4 > off
        /\ 4 * (past - 1) + 3 - off = 1 /\ 4 * (past - 1) + 4 - off = 2
    BY <1>1, <2>1
  <2>3. Stream[1] = PieceAt(past, 3) /\ Stream[2] = PieceAt(past, 4)
    <3>1. Stream[4 * (past - 1) + 3 - off] = PieceAt(past, 3)
      BY <1>3, <2>2
    <3>2. Stream[4 * (past - 1) + 4 - off] = PieceAt(past, 4)
      BY <1>3, <2>2
    <3> QED BY <2>2, <3>1, <3>2
  <2> QED BY <2>1, <2>3 DEF PieceAt, Piece
<1>7. 4 * past + 2 - off \in {2, 4}
  BY <1>4
<1> QED BY <1>1, <1>5, <1>6, <1>7

LEMMA HeadKnown ==
    ASSUME SessionInv, NEW past \in 0..Len(sent), NEW off \in Nat, Offset(past, off), InStep(off), Ends # {}
    PROVE  /\ past + 1 \in 1..Len(sent) /\ past < Len(sent)
           /\ HeaderEnd \in 1..Len(buf) /\ HeaderEnd = 4 * past + 2 - off
           /\ buf[HeaderEnd].of = past + 1
           /\ HasLength <=> sent[past + 1].method # "headless"
<1> DEFINE e == 4 * past + 2 - off
<1>1. /\ Len(sent) \in Nat
      /\ past < Len(sent) => /\ Stream[4 * past + 1 - off] = PieceAt(past + 1, 1)
                             /\ Stream[e] = PieceAt(past + 1, 2)
                             /\ 4 * past + 4 - off <= Len(buf) + Len(wire)
      /\ \A p \in 1..(4 * past - off) : Stream[p].is = "body"
      /\ e \in {2, 4}
  BY FrontKnown
<1>2. /\ Len(buf) \in Nat /\ Len(wire) \in Nat /\ DOMAIN buf = 1..Len(buf)
      /\ \A p \in 1..Len(buf) : p \in 1..(Len(buf) + Len(wire)) /\ Stream[p] = buf[p]
  BY StreamKnown DEF SessionInv
<1>3. PICK p \in 1..Len(buf) : buf[p].is = "blank line"
  BY <1>2 DEF Ends
<1>4. past < Len(sent)
  <2> SUFFICES ASSUME ~(past < Len(sent)) PROVE FALSE
    OBVIOUS
  <2>1. Len(buf) + Len(wire) = 4 * Len(sent) - off
    BY DEF InStep, Placed, Stream
  <2>2. past = Len(sent)
    BY <1>1
  <2>3. p \in 1..(4 * past - off)
    BY <1>1, <1>2, <2>1, <2>2
  <2> QED BY <1>1, <1>2, <1>3, <2>3
<1>5. /\ \A q \in 1..Len(buf) : q < e => buf[q].is # "blank line"
      /\ \A q \in 1..Len(buf) : q < e => buf[q].is = "body" \/ q = 4 * past + 1 - off
  <2>0. SUFFICES ASSUME NEW q \in 1..Len(buf), q < e
               PROVE  buf[q].is # "blank line" /\ (buf[q].is = "body" \/ q = 4 * past + 1 - off)
    OBVIOUS
  <2>1. q \in 1..(4 * past - off) \/ q = 4 * past + 1 - off
    <3>1. q \in Nat /\ q >= 1 /\ past \in Nat
      BY <1>2
    <3> QED BY <2>0, <3>1
  <2>2. CASE q \in 1..(4 * past - off)
    <3>1. Stream[q].is = "body" /\ Stream[q] = buf[q]
      BY <1>1, <1>2, <2>2
    <3> QED BY <3>1
  <2>3. CASE q = 4 * past + 1 - off
    <3>1. Stream[q] = PieceAt(past + 1, 1) /\ Stream[q] = buf[q]
      BY <1>1, <1>2, <1>4, <2>3
    <3>2. buf[q].is = Header(sent[past + 1])
      BY <3>1 DEF PieceAt, Piece
    <3> QED BY <2>3, <3>2 DEF Header
  <2> QED BY <2>1, <2>2, <2>3
<1>6. e \in 1..Len(buf) /\ e - 1 \in 1..Len(buf) /\ e - 1 = 4 * past + 1 - off
  <2>1. ~(p < e)
    BY <1>3, <1>5
  <2> QED BY <1>1, <1>2, <2>1
<1>7. buf[e] = PieceAt(past + 1, 2) /\ buf[e - 1] = PieceAt(past + 1, 1)
  BY <1>1, <1>2, <1>4, <1>6
<1>8. buf[e].is = "blank line" /\ buf[e].of = past + 1 /\ buf[e - 1].is = Header(sent[past + 1])
  <2>1. /\ PieceAt(past + 1, 1) = [is |-> Header(sent[past + 1]), of |-> past + 1]
        /\ PieceAt(past + 1, 2) = [is |-> "blank line", of |-> past + 1]
    BY DEF PieceAt, Piece
  <2> HIDE DEF e
  <2>2. buf[e] = [is |-> "blank line", of |-> past + 1]
    BY <1>7, <2>1
  <2>3. buf[e - 1] = [is |-> Header(sent[past + 1]), of |-> past + 1]
    BY <1>7, <2>1
  <2>4. \A x, y, z : x = [is |-> y, of |-> z] => x.is = y /\ x.of = z
    OBVIOUS
  <2>5. buf[e].is = "blank line" /\ buf[e].of = past + 1
    BY <2>2, <2>4
  <2>6. buf[e - 1].is = Header(sent[past + 1])
    BY <2>3
  <2> QED BY <2>5, <2>6
<1> HIDE DEF e
<1>9. HeaderEnd = e
  <2>1. e \in Ends
    BY <1>2, <1>6, <1>8 DEF Ends
  <2>2. \A q \in Ends : q \in 1..Len(buf) /\ e <= q
    <3>1. \A q \in Ends : q \in 1..Len(buf) /\ ~(q < e)
      BY <1>2, <1>5 DEF Ends
    <3> QED BY <1>2, <1>6, <3>1
  <2>3. HeaderEnd \in Ends /\ \A q \in Ends : HeaderEnd <= q
    BY <2>1, <2>2 DEF HeaderEnd
  <2>4. HeaderEnd <= e /\ e <= HeaderEnd /\ HeaderEnd \in 1..Len(buf)
    BY <2>1, <2>2, <2>3
  <2> QED BY <1>2, <1>6, <2>4
<1>10. HasLength <=> Header(sent[past + 1]) = "length"
  <2>1. ASSUME Header(sent[past + 1]) = "length" PROVE HasLength
    <3>1. e - 1 \in 1..e
      BY <1>2, <1>6
    <3> QED BY <1>8, <1>9, <2>1, <3>1 DEF HasLength
  <2>2. ASSUME HasLength PROVE Header(sent[past + 1]) = "length"
    <3>1. PICK q \in 1..e : buf[q].is = "length"
      BY <1>9, <2>2 DEF HasLength
    <3>2. q = e \/ (q < e /\ q \in 1..Len(buf))
      BY <1>2, <1>6
    <3>3. q # e
      BY <1>8, <3>1
    <3>4. q = e - 1
      BY <1>5, <1>6, <3>1, <3>2, <3>3
    <3> QED BY <1>8, <3>1, <3>4
  <2> QED BY <2>1, <2>2
<1>11. past + 1 \in 1..Len(sent)
  BY <1>1, <1>4
<1> QED BY <1>4, <1>6, <1>8, <1>9, <1>10, <1>11 DEF e, Header

(* What the server is past is no longer before it.                         *)
LEMMA FrontLeft ==
    ASSUME SessionInv, NEW off \in Nat, InStep(off), NEW cut \in 0..Len(buf), NEW rest,
           rest = SubSeq(buf, cut + 1, Len(buf))
    PROVE  rest \in Seq(Pieces) /\ Placed(rest, off + cut)
<1>1. buf \in Seq(Pieces) /\ wire \in Seq(Pieces)
  BY DEF SessionInv
<1>2. /\ rest \in Seq(Pieces) /\ Len(rest) = Len(buf) - cut
      /\ \A p \in 1..(Len(buf) + Len(wire) - cut) : (rest \o wire)[p] = (buf \o wire)[p + cut]
  BY <1>1, FrontDropped DEF Drops
<1>3. Len(buf) + Len(wire) = 4 * Len(sent) - off
  BY DEF InStep, Placed
<1>4. Len(sent) \in Nat /\ Len(buf) \in Nat /\ Len(wire) \in Nat /\ cut \in Nat
  BY ListKnown, StreamKnown DEF SessionInv
<1>5. ASSUME NEW i \in 1..Len(sent), NEW r \in 1..4, 4 * (i - 1) + r > off + cut
      PROVE  (rest \o wire)[4 * (i - 1) + r - (off + cut)] = PieceAt(i, r)
  <2> DEFINE p == 4 * (i - 1) + r - (off + cut)
  <2>1. p \in 1..(Len(buf) + Len(wire) - cut) /\ p + cut = 4 * (i - 1) + r - off /\ 4 * (i - 1) + r > off
    BY <1>3, <1>4, <1>5
  <2>2. (buf \o wire)[4 * (i - 1) + r - off] = PieceAt(i, r)
    BY <2>1 DEF InStep, Placed
  <2> QED BY <1>2, <2>1, <2>2
<1>6. Len(rest) + Len(wire) = 4 * Len(sent) - (off + cut)
  <2>1. Len(rest) = Len(buf) - cut
    BY <1>2
  <2> QED BY <1>3, <1>4, <2>1
<1> QED BY <1>2, <1>5, <1>6 DEF Placed

LEMMA MovesOn ==
    ASSUME SessionInv, NEW off \in Nat, InStep(off), NEW cut \in 0..Len(buf),
           buf' = SubSeq(buf, cut + 1, Len(buf)), sent' = sent, wire' = wire
    PROVE  buf' \in Seq(Pieces) /\ InStep(off + cut)' /\ off + cut \in Nat
<1>1. PICK rest : rest = SubSeq(buf, cut + 1, Len(buf))
  OBVIOUS
<1>2. rest \in Seq(Pieces) /\ Placed(rest, off + cut)
  BY <1>1, FrontLeft
<1>3. buf' = rest /\ sent' = sent /\ wire' = wire
  BY <1>1
<1>4. off + cut \in Nat
  BY ListKnown, StreamKnown DEF SessionInv
<1> QED BY <1>2, <1>3, <1>4 DEF InStep, Placed, PieceAt, Header

LEMMA TwoAndTwo ==
    ASSUME NEW S, NEW a \in S, NEW b \in S, NEW c \in S, NEW d \in S
    PROVE  /\ <<a, b>> \o <<c, d>> = <<a, b, c, d>>
           /\ <<a, b, c, d>> \in Seq(S) /\ Len(<<a, b, c, d>>) = 4
<1>1. PICK x, y, z : x = <<a, b>> /\ y = <<c, d>> /\ z = <<a, b, c, d>>
  OBVIOUS
<1>2. x \in Seq(S) /\ Len(x) = 2 /\ x[1] = a /\ x[2] = b
  BY <1>1
<1>3. y \in Seq(S) /\ Len(y) = 2 /\ y[1] = c /\ y[2] = d
  BY <1>1
<1>4. z \in Seq(S) /\ Len(z) = 4 /\ z[1] = a /\ z[2] = b /\ z[3] = c /\ z[4] = d
  BY <1>1
<1>5. /\ x \o y \in Seq(S) /\ Len(x \o y) = 4
      /\ \A i \in 1..4 : (x \o y)[i] = IF i <= 2 THEN x[i] ELSE y[i - 2]
  <2>1. /\ x \o y \in Seq(S) /\ Len(x \o y) = Len(x) + Len(y)
        /\ \A i \in 1..(Len(x) + Len(y)) :
              (x \o y)[i] = IF i <= Len(x) THEN x[i] ELSE y[i - Len(x)]
    BY <1>2, <1>3, ConcatProperties
  <2>2. Len(x) + Len(y) = 4
    BY <1>2, <1>3
  <2> QED BY <1>2, <2>1, <2>2
<1>6. \A i \in 1..4 : (x \o y)[i] = z[i]
  <2>1. (x \o y)[1] = a /\ (x \o y)[2] = b /\ (x \o y)[3] = c /\ (x \o y)[4] = d
    BY <1>2, <1>3, <1>5
  <2>2. \A i \in 1..4 : i = 1 \/ i = 2 \/ i = 3 \/ i = 4
    OBVIOUS
  <2> QED BY <1>4, <2>1, <2>2
<1>7. x \o y = z
  BY <1>4, <1>5, <1>6, SeqEqual
<1> QED BY <1>1, <1>4, <1>7

LEMMA MessageKnown ==
    \A method, u, texts :
        /\ Message(method, u, texts).method = method
        /\ Message(method, u, texts).uri = u
        /\ Message(method, u, texts).texts = texts
  BY DEF Message

LEMMA WithKnown ==
    ASSUME NEW f, NEW u, NEW t
    PROVE  /\ IsDocuments(With(f, u, t)) /\ IsDocuments(Without(f, u))
           /\ DOMAIN With(f, u, t) = DOMAIN f \cup {u} /\ DOMAIN Without(f, u) = DOMAIN f \ {u}
           /\ With(f, u, t)[u] = t
           /\ \A v \in DOMAIN f : v # u => With(f, u, t)[v] = f[v] /\ Without(f, u)[v] = f[v]
  BY DEF IsDocuments, With, Without

(* A text put in the place of itself changes nothing.                      *)
LEMMA WithItself ==
    ASSUME NEW f, IsDocuments(f), NEW u \in DOMAIN f
    PROVE  With(f, u, TextOf(f, u)) = f
<1>1. TextOf(f, u) = f[u]
  BY DEF TextOf
<1>2. DOMAIN f \cup {u} = DOMAIN f
  OBVIOUS
<1>3. With(f, u, f[u]) = [v \in DOMAIN f |-> f[v]]
  BY <1>2 DEF With
<1> QED BY <1>1, <1>3 DEF IsDocuments

(* Whatever the client does is a message, of which the editor has done     *)
(* what the server is to do.                                               *)
LEMMA ClientSends ==
    ASSUME Client, IsDocuments(editor)
    PROVE  \E m : Sends(m, Header(m)) /\ editor' = Applied(editor, m) /\ Sensible(editor, m) /\ IsDocuments(editor')
<1>1. ASSUME NEW u, NEW t, Opens(u, t)
      PROVE  \E m : Sends(m, Header(m)) /\ editor' = Applied(editor, m) /\ Sensible(editor, m) /\ IsDocuments(editor')
  <2>1. PICK m : m = Message("didOpen", u, <<t>>)
    OBVIOUS
  <2>2. m.method = "didOpen" /\ m.uri = u /\ m.texts = <<t>>
    BY <2>1, MessageKnown
  <2>3. m.texts[1] = t
    BY <2>2
  <2>4. Sends(m, "length") /\ editor' = With(editor, u, t)
    BY <1>1, <2>1 DEF Opens
  <2>5. Header(m) = "length" /\ Applied(editor, m) = With(editor, u, t) /\ Sensible(editor, m)
    BY <2>2, <2>3 DEF Header, Applied, Sensible
  <2> QED BY <2>4, <2>5, WithKnown
<1>2. ASSUME NEW u, NEW ts, Changes(u, ts)
      PROVE  \E m : Sends(m, Header(m)) /\ editor' = Applied(editor, m) /\ Sensible(editor, m) /\ IsDocuments(editor')
  <2>1. PICK m : m = Message("didChange", u, ts)
    OBVIOUS
  <2>2. m.method = "didChange" /\ m.uri = u /\ m.texts = ts
    BY <2>1, MessageKnown
  <2>3. Sends(m, "length") /\ u \in DOMAIN editor
    BY <1>2, <2>1 DEF Changes
  <2>4. editor' = IF ts = << >> THEN editor ELSE With(editor, u, ts[Len(ts)])
    BY <1>2 DEF Changes
  <2>5. Header(m) = "length" /\ Applied(editor, m) = editor' /\ Sensible(editor, m)
    BY <2>2, <2>3, <2>4 DEF Header, Applied, Sensible
  <2>6. IsDocuments(editor')
    <3>1. CASE ts = << >>
      BY <2>4, <3>1
    <3>2. CASE ts # << >>
      BY <2>4, <3>2, WithKnown
    <3> QED BY <3>1, <3>2
  <2> QED BY <2>3, <2>5, <2>6
<1>3. ASSUME NEW u, Closes(u)
      PROVE  \E m : Sends(m, Header(m)) /\ editor' = Applied(editor, m) /\ Sensible(editor, m) /\ IsDocuments(editor')
  <2>1. PICK m : m = Message("didClose", u, << >>)
    OBVIOUS
  <2>2. m.method = "didClose" /\ m.uri = u
    BY <2>1, MessageKnown
  <2>3. Sends(m, "length") /\ editor' = Without(editor, u)
    BY <1>3, <2>1 DEF Closes
  <2>4. Header(m) = "length" /\ Applied(editor, m) = Without(editor, u) /\ Sensible(editor, m)
    BY <2>2 DEF Header, Applied, Sensible
  <2> QED BY <2>3, <2>4, WithKnown
<1>4. ASSUME NEW u, Asks(u)
      PROVE  \E m : Sends(m, Header(m)) /\ editor' = Applied(editor, m) /\ Sensible(editor, m) /\ IsDocuments(editor')
  <2>1. PICK m : m = Message("ask", u, <<TextOf(editor, u)>>)
    OBVIOUS
  <2>2. m.method = "ask" /\ m.uri = u /\ m.texts = <<TextOf(editor, u)>>
    BY <2>1, MessageKnown
  <2>3. m.texts[1] = TextOf(editor, u)
    BY <2>2
  <2>4. Sends(m, "length") /\ editor' = editor
    BY <1>4, <2>1 DEF Asks
  <2>5. Header(m) = "length" /\ Applied(editor, m) = editor /\ Sensible(editor, m)
    BY <2>2, <2>3 DEF Header, Applied, Sensible
  <2> QED BY <2>4, <2>5
<1>5. ASSUME NEW method \in Others, SendsOther(method)
      PROVE  \E m : Sends(m, Header(m)) /\ editor' = Applied(editor, m) /\ Sensible(editor, m) /\ IsDocuments(editor')
  <2>1. PICK m : m = Message(method, CHOOSE u \in Uri : TRUE, << >>)
    OBVIOUS
  <2>2. m.method \notin {"headless", "didOpen", "didChange", "didClose", "ask"}
    BY <2>1, MessageKnown DEF Others, Misshapen
  <2>3. Sends(m, "length") /\ editor' = editor
    BY <1>5, <2>1 DEF SendsOther
  <2>4. Header(m) = "length" /\ Applied(editor, m) = editor /\ Sensible(editor, m)
    BY <2>2 DEF Header, Applied, Sensible
  <2> QED BY <2>3, <2>4
<1>6. ASSUME SendsHeadless
      PROVE  \E m : Sends(m, Header(m)) /\ editor' = Applied(editor, m) /\ Sensible(editor, m) /\ IsDocuments(editor')
  <2>1. PICK m : m = Message("headless", CHOOSE u \in Uri : TRUE, << >>)
    OBVIOUS
  <2>2. m.method = "headless"
    BY <2>1, MessageKnown
  <2>3. Sends(m, "no length") /\ editor' = editor
    BY <1>6, <2>1 DEF SendsHeadless
  <2>4. Header(m) = "no length" /\ Applied(editor, m) = editor /\ Sensible(editor, m)
    BY <2>2 DEF Header, Applied, Sensible
  <2> QED BY <2>3, <2>4
<1> QED BY <1>1, <1>2, <1>3, <1>4, <1>5, <1>6 DEF Client

(* A message goes behind what is on its way.                               *)
LEMMA MessageFollows ==
    ASSUME SessionInv, NEW off \in Nat, InStep(off), off <= 4 * Len(sent), NEW m, Sends(m, Header(m))
    PROVE  wire' \in Seq(Pieces) /\ InStep(off)'
<1>0. PICK n, F : n = Len(sent) /\ F = Framed(n + 1, Header(m))
  OBVIOUS
<1>1. n \in Nat /\ \A i \in 1..n : sent'[i] = sent[i]
  BY <1>0, ListKnown, ListGrows DEF SessionInv, Sends
<1>2. sent' = Append(sent, m) /\ Len(sent') = n + 1 /\ sent'[n + 1] = m
  BY <1>0, ListGrows DEF SessionInv, Sends
<1>3. buf \in Seq(Pieces) /\ wire \in Seq(Pieces) /\ Len(buf) \in Nat /\ Len(wire) \in Nat
  BY StreamKnown DEF SessionInv
<1>4. /\ F = <<Piece(Header(m), n + 1), Piece("blank line", n + 1), Piece("body", n + 1), Piece("body", n + 1)>>
      /\ F \in Seq(Pieces) /\ Len(F) = 4
  <2>1. \A is \in {"length", "no length", "blank line", "body"} : Piece(is, n + 1) \in Pieces
    <3>1. n + 1 \in Nat
      BY <1>1
    <3> QED BY <3>1 DEF Piece, Pieces
  <2>2. Header(m) \in {"length", "no length"}
    BY DEF Header
  <2>3. /\ Piece(Header(m), n + 1) \in Pieces
        /\ Piece("blank line", n + 1) \in Pieces /\ Piece("body", n + 1) \in Pieces
    BY <2>1, <2>2
  <2>4. F = <<Piece(Header(m), n + 1), Piece("blank line", n + 1)>> \o <<Piece("body", n + 1), Piece("body", n + 1)>>
    BY <1>0 DEF Framed, Body
  <2>5. PICK a, b, c : a = Piece(Header(m), n + 1) /\ b = Piece("blank line", n + 1) /\ c = Piece("body", n + 1)
    OBVIOUS
  <2>6. a \in Pieces /\ b \in Pieces /\ c \in Pieces /\ F = <<a, b>> \o <<c, c>>
    BY <2>3, <2>4, <2>5
  <2>7. F = <<a, b, c, c>> /\ <<a, b, c, c>> \in Seq(Pieces) /\ Len(<<a, b, c, c>>) = 4
    BY <2>6, TwoAndTwo
  <2>8. F \in Seq(Pieces) /\ Len(F) = 4
    BY <2>7
  <2> QED BY <2>5, <2>7, <2>8
<1>5. wire' = wire \o F /\ buf' = buf
  BY <1>0 DEF Sends
<1>6. \A r \in 1..4 : F[r] = PieceAt(n + 1, r)'
  <2>1. PieceAt(n + 1, 1)' = Piece(Header(m), n + 1)
    BY <1>2 DEF PieceAt, Header
  <2>2. PieceAt(n + 1, 2)' = Piece("blank line", n + 1)
    BY DEF PieceAt
  <2>3. PieceAt(n + 1, 3)' = Piece("body", n + 1)
    BY DEF PieceAt
  <2>4. PieceAt(n + 1, 4)' = Piece("body", n + 1)
    BY DEF PieceAt
  <2>5. \A r \in 1..4 : r = 1 \/ r = 2 \/ r = 3 \/ r = 4
    OBVIOUS
  <2>6. /\ F[1] = Piece(Header(m), n + 1) /\ F[2] = Piece("blank line", n + 1)
        /\ F[3] = Piece("body", n + 1) /\ F[4] = Piece("body", n + 1)
    BY <1>4
  <2> QED BY <2>1, <2>2, <2>3, <2>4, <2>5, <2>6
<1>7. \A i \in 1..n, r \in 1..4 : PieceAt(i, r)' = PieceAt(i, r)
  <2>1. SUFFICES ASSUME NEW i \in 1..n, NEW r \in 1..4 PROVE PieceAt(i, r)' = PieceAt(i, r)
    OBVIOUS
  <2>2. sent'[i] = sent[i]
    BY <1>1, <2>1
  <2> QED BY <2>2 DEF PieceAt, Header
<1>8. /\ wire \o F \in Seq(Pieces) /\ Len(wire \o F) = Len(wire) + 4
      /\ buf \o (wire \o F) = (buf \o wire) \o F
      /\ buf \o wire \in Seq(Pieces) /\ Len(buf \o wire) = Len(buf) + Len(wire)
  <2>1. wire \o F \in Seq(Pieces) /\ Len(wire \o F) = Len(wire) + 4
    BY <1>3, <1>4, ConcatProperties
  <2>2. buf \o wire \in Seq(Pieces) /\ Len(buf \o wire) = Len(buf) + Len(wire)
    BY <1>3, ConcatProperties
  <2>3. \A s \in Seq(Pieces), t \in Seq(Pieces), u \in Seq(Pieces) : (s \o t) \o u = s \o (t \o u)
    OBVIOUS
  <2>4. buf \o (wire \o F) = (buf \o wire) \o F
    BY <1>3, <1>4, <2>3
  <2> QED BY <2>1, <2>2, <2>4
<1>9. \A q \in 1..(Len(buf) + Len(wire) + 4) : (buf \o (wire \o F))[q] =
          IF q <= Len(buf) + Len(wire) THEN (buf \o wire)[q] ELSE F[q - (Len(buf) + Len(wire))]
  <2>1. \A s \in Seq(Pieces) : \A q \in 1..(Len(s) + Len(F)) : (s \o F)[q] = IF q <= Len(s) THEN s[q] ELSE F[q - Len(s)]
    BY <1>4, ConcatProperties
  <2>2. PICK st : st = buf \o wire
    OBVIOUS
  <2>3. st \in Seq(Pieces) /\ Len(st) = Len(buf) + Len(wire) /\ buf \o (wire \o F) = st \o F
    BY <1>8, <2>2
  <2>4. \A q \in 1..(Len(st) + Len(F)) : (st \o F)[q] = IF q <= Len(st) THEN st[q] ELSE F[q - Len(st)]
    BY <2>1, <2>3
  <2>5. Len(F) = 4
    BY <1>4
  <2>6. \A q \in 1..(Len(buf) + Len(wire) + 4) : (st \o F)[q] =
            IF q <= Len(buf) + Len(wire) THEN st[q] ELSE F[q - (Len(buf) + Len(wire))]
    BY <2>3, <2>4, <2>5
  <2> QED BY <2>2, <2>3, <2>6
<1>10. /\ Len(buf) + Len(wire) = 4 * n - off
       /\ \A i \in 1..n, r \in 1..4 :
            4 * (i - 1) + r > off => (buf \o wire)[4 * (i - 1) + r - off] = PieceAt(i, r)
  BY <1>0 DEF InStep, Placed
<1>11. ASSUME NEW i \in 1..(n + 1), NEW r \in 1..4, 4 * (i - 1) + r > off
       PROVE  (buf \o (wire \o F))[4 * (i - 1) + r - off] = PieceAt(i, r)'
  <2>0. off <= 4 * n
    BY <1>0
  <2>1. PICK q \in Int : q = 4 * (i - 1) + r - off
    BY <1>1
  <2>2. ASSUME i \in 1..n PROVE (buf \o (wire \o F))[q] = PieceAt(i, r)'
    <3>1. q \in 1..(Len(buf) + Len(wire) + 4) /\ q <= Len(buf) + Len(wire)
      BY <1>1, <1>3, <1>10, <1>11, <2>1, <2>2
    <3>2. (buf \o (wire \o F))[q] = (buf \o wire)[q]
      BY <1>9, <3>1
    <3>3. (buf \o wire)[q] = PieceAt(i, r)
      BY <1>10, <1>11, <2>1, <2>2
    <3>4. PieceAt(i, r)' = PieceAt(i, r)
      BY <1>7, <2>2
    <3> QED BY <3>2, <3>3, <3>4
  <2>3. ASSUME i = n + 1 PROVE (buf \o (wire \o F))[q] = PieceAt(i, r)'
    <3>1. /\ q \in 1..(Len(buf) + Len(wire) + 4) /\ ~(q <= Len(buf) + Len(wire))
          /\ q - (Len(buf) + Len(wire)) = r
      BY <1>1, <1>3, <1>10, <1>11, <2>0, <2>1, <2>3
    <3>2. (buf \o (wire \o F))[q] = F[r]
      BY <1>9, <3>1
    <3>3. F[r] = PieceAt(i, r)'
      BY <1>6, <2>3
    <3> QED BY <3>2, <3>3
  <2>4. (buf \o (wire \o F))[q] = PieceAt(i, r)'
    <3>1. i \in 1..n \/ i = n + 1
      BY <1>1
    <3>2. CASE i \in 1..n
      BY <2>2, <3>2
    <3>3. CASE i = n + 1
      BY <2>3, <3>3
    <3> QED BY <3>1, <3>2, <3>3
  <2> QED BY <2>1, <2>4
<1>12. Len(buf) + Len(wire \o F) = 4 * (n + 1) - off
  BY <1>1, <1>3, <1>8, <1>10
<1>13. Placed(buf, off)'
  BY <1>2, <1>5, <1>11, <1>12 DEF Placed
<1> QED BY <1>5, <1>8, <1>13 DEF InStep

(* The editor goes on while the server is where it was.                    *)
LEMMA ClientStep ==
    ASSUME SessionInv, Client
    PROVE  SessionInv'
<1>1. PICK past \in 0..Len(sent), off \in Nat : \E h : SessionAt(past, off, h)
  BY DEF SessionInv
<1>2. PICK h : SessionAt(past, off, h)
  BY <1>1
<1>3. /\ Offset(past, off) /\ InStep(off) /\ History(h) /\ docs = h[past] /\ editor = h[Len(sent)]
      /\ \A u \in DOMAIN docs : u \in DOMAIN shown /\ shown[u] = docs[u]
      /\ AnsweredUpto(past)
  BY <1>2 DEF SessionAt
<1>4. Len(sent) \in Nat /\ DOMAIN sent = 1..Len(sent)
  BY ListKnown DEF SessionInv
<1>5. IsDocuments(editor)
  BY <1>3, <1>4 DEF History
<1>6. PICK m : Sends(m, Header(m)) /\ editor' = Applied(editor, m) /\ Sensible(editor, m) /\ IsDocuments(editor')
  BY <1>5, ClientSends
<1>7. sent' = Append(sent, m) /\ UNCHANGED <<buf, docs, shuttingDown, exited, replied, shown>>
  BY <1>6 DEF Sends
<1>8. /\ IsList(sent') /\ Len(sent') = Len(sent) + 1 /\ DOMAIN sent' = 1..(Len(sent) + 1)
      /\ \A i \in 1..Len(sent) : sent'[i] = sent[i]
      /\ sent'[Len(sent) + 1] = m
  <2>1. IsList(sent)
    BY DEF SessionInv
  <2>2. IsList(Append(sent, m)) /\ Len(Append(sent, m)) = Len(sent) + 1
    BY <2>1, ListGrows
  <2> QED BY <1>7, <2>1, <2>2, ListGrows, ListKnown
<1>9. Offset(past, off)' /\ off <= 4 * Len(sent)
  <2>1. past # 0 => past \in 1..Len(sent)
    BY <1>4
  <2>2. past # 0 => sent'[past] = sent[past]
    BY <1>8, <2>1
  <2> QED BY <1>3, <1>4, <2>2 DEF Offset
<1>10. wire' \in Seq(Pieces) /\ InStep(off)'
  BY <1>3, <1>6, <1>9, MessageFollows
<1>11. PICK g : g = [i \in 0..(Len(sent) + 1) |-> IF i = Len(sent) + 1 THEN editor' ELSE h[i]]
  OBVIOUS
<1>12. g[Len(sent) + 1] = editor' /\ \A i \in 0..Len(sent) : g[i] = h[i]
  BY <1>4, <1>11
<1>13. History(g)'
  <2>1. g[0] = Empty'
    BY <1>3, <1>4, <1>12 DEF History, Empty
  <2>2. ASSUME NEW i \in 1..(Len(sent) + 1)
        PROVE  g[i] = Applied(g[i - 1], sent'[i]) /\ Sensible(g[i - 1], sent'[i])
    <3>1. CASE i \in 1..Len(sent)
      <4>1. g[i] = h[i] /\ g[i - 1] = h[i - 1] /\ sent'[i] = sent[i]
        BY <1>4, <1>8, <1>12, <3>1
      <4>2. h[i] = Applied(h[i - 1], sent[i]) /\ Sensible(h[i - 1], sent[i])
        BY <1>3, <1>4, <3>1 DEF History
      <4> QED BY <4>1, <4>2
    <3>2. CASE i = Len(sent) + 1
      <4>1. g[i] = editor' /\ g[i - 1] = editor /\ sent'[i] = m
        <5>1. i - 1 = Len(sent) /\ i - 1 \in 0..Len(sent)
          BY <1>4, <3>2
        <5> QED BY <1>3, <1>8, <1>12, <3>2, <5>1
      <4> QED BY <1>6, <4>1
    <3> QED BY <1>4, <3>1, <3>2
  <2>3. ASSUME NEW i \in 0..(Len(sent) + 1) PROVE IsDocuments(g[i])
    <3>1. CASE i \in 0..Len(sent)
      BY <1>3, <1>12, <3>1 DEF History
    <3>2. CASE i = Len(sent) + 1
      BY <1>6, <1>12, <3>2
    <3> QED BY <1>4, <3>1, <3>2
  <2> QED BY <1>8, <2>1, <2>2, <2>3 DEF History, Applied, Sensible, IsDocuments, With, Without, TextOf
<1>14. docs' = g[past] /\ editor' = g[Len(sent')]
  BY <1>3, <1>7, <1>8, <1>12
<1>15. AnsweredUpto(past)'
  <2>1. \A i \in 1..Len(sent) : i \in Owed' <=> i \in Owed
    <3>1. SUFFICES ASSUME NEW i \in 1..Len(sent) PROVE i \in Owed' <=> i \in Owed
      OBVIOUS
    <3>2. sent'[i] = sent[i] /\ i \in DOMAIN sent /\ i \in DOMAIN sent'
      BY <1>4, <1>8, <3>1
    <3> QED BY <3>2 DEF Owed
  <2>2. \A i \in Owed : i \in 1..Len(sent)
    BY <1>4 DEF Owed
  <2>3. \A i \in Owed' : i <= past => i \in Owed
    <3>1. \A i \in Owed' : i \in 1..(Len(sent) + 1)
      BY <1>8 DEF Owed
    <3>2. \A i \in 1..(Len(sent) + 1) : i <= past => i \in 1..Len(sent)
      BY <1>4
    <3> QED BY <2>1, <3>1, <3>2
  <2>4. replied' = replied
    BY <1>7
  <2>5. ASSUME NEW p \in DOMAIN replied
        PROVE  /\ replied[p].to \in Owed' /\ replied[p].to <= past
               /\ replied[p].with = Owing(sent'[replied[p].to])
    <3>1. replied[p].to \in Owed /\ replied[p].to <= past /\ replied[p].with = Owing(sent[replied[p].to])
      BY <1>3 DEF AnsweredUpto
    <3> QED BY <1>8, <2>1, <2>2, <3>1
  <2> QED BY <1>3, <2>3, <2>4, <2>5 DEF AnsweredUpto, Owing
<1>16. SessionAt(past, off, g)'
  BY <1>3, <1>7, <1>9, <1>10, <1>13, <1>14, <1>15 DEF SessionAt
<1>17. past \in 0..Len(sent')
  BY <1>4, <1>8
<1> QED BY <1>7, <1>8, <1>10, <1>16, <1>17 DEF SessionInv

(* A chunk changes the place of pieces in nothing but buf and wire.        *)
LEMMA ArrivesStep ==
    ASSUME SessionInv, NEW k \in DOMAIN wire, Arrives(k)
    PROVE  SessionInv'
<1>1. PICK past \in 0..Len(sent), off \in Nat : \E h : SessionAt(past, off, h)
  BY DEF SessionInv
<1>2. PICK h : SessionAt(past, off, h)
  BY <1>1
<1>3. UNCHANGED <<editor, sent, docs, shuttingDown, exited, replied, shown>>
  BY DEF Arrives, clientVars
<1>4. PICK some, more : some = SubSeq(wire, 1, k) /\ more = SubSeq(wire, k + 1, Len(wire))
  OBVIOUS
<1>5. buf' = buf \o some /\ wire' = more
  BY <1>4 DEF Arrives
<1>6. /\ buf \o some \in Seq(Pieces) /\ more \in Seq(Pieces) /\ Len(buf) \in Nat /\ Len(wire) \in Nat /\ k \in 1..Len(wire)
      /\ Len(buf \o some) = Len(buf) + k /\ Len(more) = Len(wire) - k
      /\ (buf \o some) \o more = buf \o wire
  <2>1. buf \in Seq(Pieces) /\ wire \in Seq(Pieces) /\ k \in 1..Len(wire) /\ Len(buf) \in Nat /\ Len(wire) \in Nat
    BY StreamKnown DEF SessionInv
  <2>2. Moves(Pieces, buf, wire, k)
    BY <2>1, ChunkMoves
  <2> QED BY <1>4, <2>1, <2>2 DEF Moves
<1>7. Len(buf') + Len(wire') = Len(buf) + Len(wire) /\ buf' \o wire' = buf \o wire
  BY <1>5, <1>6
<1>8. InStep(off)'
  <2>1. Placed(buf, off)
    BY <1>2 DEF SessionAt, InStep
  <2>2. sent' = sent
    BY <1>3
  <2> QED BY <1>7, <2>1, <2>2 DEF InStep, Placed, PieceAt, Header
<1>9. Offset(past, off)' /\ History(h)' /\ docs' = h[past] /\ editor' = h[Len(sent')]
  <2>1. sent' = sent /\ docs' = docs /\ editor' = editor
    BY <1>3
  <2>2. Offset(past, off) /\ History(h) /\ docs = h[past] /\ editor = h[Len(sent)]
    BY <1>2 DEF SessionAt
  <2>3. Offset(past, off)'
    BY <2>1, <2>2 DEF Offset
  <2>4. History(h)'
    BY <2>1, <2>2 DEF History
  <2> QED BY <2>1, <2>2, <2>3, <2>4
<1>10. AnsweredUpto(past)'
  BY <1>2, <1>3 DEF SessionAt, AnsweredUpto, Owed, Owing
<1>11. \A u \in DOMAIN docs' : u \in DOMAIN shown' /\ shown'[u] = docs'[u]
  BY <1>2, <1>3 DEF SessionAt
<1>12. SessionAt(past, off, h)'
  BY <1>8, <1>9, <1>10, <1>11 DEF SessionAt
<1>13. IsList(sent') /\ IsList(replied') /\ past \in 0..Len(sent')
  BY <1>3 DEF SessionInv
<1> QED BY <1>5, <1>6, <1>12, <1>13 DEF SessionInv

(* A message without an answer, or with one.                               *)
LEMMA NoAnswer ==
    ASSUME SessionInv, NEW past \in 0..Len(sent), past < Len(sent), AnsweredUpto(past), past + 1 \notin Owed,
           sent' = sent, replied' = replied
    PROVE  AnsweredUpto(past + 1)'
<1>1. Owed' = Owed /\ \A m : Owing(m)' = Owing(m)
  BY DEF Owed, Owing
<1>2. Len(sent) \in Nat /\ DOMAIN sent = 1..Len(sent)
  BY ListKnown DEF SessionInv
<1>3. \A i \in Owed : i \in Nat /\ (i <= past + 1 => i <= past)
  <2>1. \A i \in Owed : i \in 1..Len(sent) /\ i # past + 1
    BY <1>2 DEF Owed
  <2>2. \A i \in 1..Len(sent) : i # past + 1 => i \in Nat /\ (i <= past + 1 => i <= past)
    BY <1>2
  <2> QED BY <2>1, <2>2
<1>4. \A i \in Owed : i <= past => i <= past + 1
  BY <1>2, <1>3
<1> QED BY <1>1, <1>3, <1>4 DEF AnsweredUpto

LEMMA AnswerGiven ==
    ASSUME SessionInv, NEW past \in 0..Len(sent), past < Len(sent), AnsweredUpto(past), past + 1 \in Owed,
           sent' = sent, replied' = Append(replied, [to |-> past + 1, with |-> Owing(sent[past + 1])])
    PROVE  AnsweredUpto(past + 1)' /\ IsList(replied')
<1>1. Owed' = Owed /\ \A m : Owing(m)' = Owing(m)
  BY DEF Owed, Owing
<1>2. Len(sent) \in Nat /\ \A i \in Owed : i \in 1..Len(sent)
  BY ListKnown DEF SessionInv, Owed
<1>3. PICK n, e : n = Len(replied) /\ e = [to |-> past + 1, with |-> Owing(sent[past + 1])]
  OBVIOUS
<1>4. e.to = past + 1 /\ e.with = Owing(sent[past + 1])
  BY <1>3
<1>5. /\ n \in Nat /\ DOMAIN replied = 1..n
      /\ IsList(replied') /\ DOMAIN replied' = 1..(n + 1)
      /\ \A p \in 1..n : replied'[p] = replied[p]
      /\ replied'[n + 1] = e
  <2>1. IsList(replied) /\ replied' = Append(replied, e)
    BY <1>3 DEF SessionInv
  <2>2. n \in Nat /\ DOMAIN replied = 1..n
    BY <1>3, <2>1, ListKnown
  <2>3. IsList(replied') /\ Len(replied') = n + 1
    BY <1>3, <2>1, ListGrows
  <2>4. DOMAIN replied' = 1..(n + 1)
    BY <2>3, ListKnown
  <2>5. (\A p \in 1..n : replied'[p] = replied[p]) /\ replied'[n + 1] = e
    BY <1>3, <2>1, ListGrows
  <2> QED BY <2>2, <2>3, <2>4, <2>5
<1>6. \A p \in 1..n : /\ replied[p].to \in Owed /\ replied[p].to <= past
                      /\ replied[p].with = Owing(sent[replied[p].to])
  BY <1>5 DEF AnsweredUpto
<1>7. ASSUME NEW p \in 1..(n + 1)
      PROVE  /\ replied'[p].to \in Owed /\ replied'[p].to <= past + 1
             /\ replied'[p].with = Owing(sent[replied'[p].to])
  <2>1. CASE p \in 1..n
    <3>1. replied[p].to \in 1..Len(sent) /\ replied[p].to <= past
      BY <1>2, <1>6, <2>1
    <3>2. replied[p].to <= past + 1
      BY <1>2, <3>1
    <3> QED BY <1>5, <1>6, <2>1, <3>2
  <2>2. CASE p = n + 1
    <3>1. replied'[p] = e
      BY <1>5, <2>2
    <3>2. past + 1 <= past + 1
      BY <1>2
    <3> QED BY <1>4, <3>1, <3>2
  <2> QED BY <1>5, <2>1, <2>2
<1>8. ASSUME NEW p \in 1..(n + 1), NEW q \in 1..(n + 1), p < q
      PROVE  replied'[p].to < replied'[q].to
  <2>0. p \in 1..n
    BY <1>5, <1>8
  <2>1. CASE q \in 1..n
    <3>1. replied[p].to < replied[q].to
      BY <1>5, <1>8, <2>0, <2>1 DEF AnsweredUpto
    <3> QED BY <1>5, <2>0, <2>1, <3>1
  <2>2. CASE q = n + 1
    <3>1. replied[p].to \in 1..Len(sent) /\ replied[p].to <= past
      BY <1>2, <1>6, <2>0
    <3>2. replied[p].to < past + 1
      BY <1>2, <3>1
    <3> QED BY <1>4, <1>5, <2>0, <2>2, <3>2
  <2> QED BY <1>5, <2>1, <2>2
<1>9. ASSUME NEW i \in Owed, i <= past + 1 PROVE \E p \in 1..(n + 1) : replied'[p].to = i
  <2>1. CASE i = past + 1
    <3>1. n + 1 \in 1..(n + 1) /\ replied'[n + 1].to = i
      BY <1>4, <1>5, <2>1
    <3> QED BY <3>1
  <2>2. CASE i <= past
    <3>1. PICK p \in 1..n : replied[p].to = i
      BY <1>5, <2>2 DEF AnsweredUpto
    <3>2. p \in 1..(n + 1) /\ replied'[p].to = i
      BY <1>5, <3>1
    <3> QED BY <3>2
  <2>3. i = past + 1 \/ i <= past
    BY <1>2, <1>9
  <2> QED BY <2>1, <2>2, <2>3
<1> QED BY <1>1, <1>5, <1>7, <1>8, <1>9 DEF AnsweredUpto

(* What the server is at, when it has the end of a header.                 *)
LEMMA NextKnown ==
    ASSUME SessionInv, NEW past \in 0..Len(sent), NEW off \in Nat, NEW h, SessionAt(past, off, h), Ends # {}
    PROVE  /\ past \in Nat /\ past + 1 \in 1..Len(sent) /\ past + 1 \in DOMAIN sent /\ past < Len(sent)
           /\ HeaderEnd \in 1..Len(buf) /\ HeaderEnd = 4 * past + 2 - off /\ buf[HeaderEnd].of = past + 1
           /\ HasLength <=> sent[past + 1].method # "headless"
           /\ h[past + 1] = Applied(docs, sent[past + 1]) /\ Sensible(docs, sent[past + 1])
           /\ IsDocuments(docs)
<1>1. Offset(past, off) /\ InStep(off) /\ History(h) /\ docs = h[past]
  BY DEF SessionAt
<1>2. /\ past + 1 \in 1..Len(sent) /\ past < Len(sent)
      /\ HeaderEnd \in 1..Len(buf) /\ HeaderEnd = 4 * past + 2 - off
      /\ buf[HeaderEnd].of = past + 1
      /\ HasLength <=> sent[past + 1].method # "headless"
  BY <1>1, HeadKnown
<1>3. Len(sent) \in Nat /\ DOMAIN sent = 1..Len(sent)
  BY ListKnown DEF SessionInv
<1>4. past \in Nat /\ (past + 1) - 1 = past /\ past \in 0..Len(sent)
  BY <1>3
<1>5. h[past + 1] = Applied(h[past], sent[past + 1]) /\ Sensible(h[past], sent[past + 1]) /\ IsDocuments(h[past])
  <2>1. \A i \in 1..Len(sent) : h[i] = Applied(h[i - 1], sent[i]) /\ Sensible(h[i - 1], sent[i])
    BY <1>1, <1>3 DEF History
  <2>2. h[past + 1] = Applied(h[(past + 1) - 1], sent[past + 1]) /\ Sensible(h[(past + 1) - 1], sent[past + 1])
    BY <1>2, <2>1
  <2>3. IsDocuments(h[past])
    BY <1>1, <1>4 DEF History
  <2> QED BY <1>4, <2>2, <2>3
<1> QED BY <1>1, <1>2, <1>3, <1>4, <1>5

LEMMA SkipStep ==
    ASSUME SessionInv, SkipHeader
    PROVE  SessionInv'
<1>1. PICK past \in 0..Len(sent), off \in Nat : \E h : SessionAt(past, off, h)
  BY DEF SessionInv
<1>2. PICK h : SessionAt(past, off, h)
  BY <1>1
<1>3. /\ sent' = sent /\ wire' = wire /\ docs' = docs /\ editor' = editor /\ shown' = shown /\ replied' = replied
      /\ Ends # {} /\ ~HasLength
  BY DEF SkipHeader, clientVars, CanSkip
<1>4. /\ past \in Nat /\ past + 1 \in 1..Len(sent) /\ past + 1 \in DOMAIN sent /\ past < Len(sent)
      /\ HeaderEnd \in 1..Len(buf) /\ HeaderEnd = 4 * past + 2 - off
      /\ sent[past + 1].method = "headless"
      /\ h[past + 1] = Applied(docs, sent[past + 1])
  BY <1>2, <1>3, NextKnown
<1>5. PICK cut \in 0..Len(buf) : cut = HeaderEnd
  BY <1>4
<1>6. PICK off2 \in Nat : off2 = off + cut /\ off2 = 4 * (past + 1) - 2
  BY <1>4, <1>5
<1>7. Offset(past + 1, off2)'
  <2>1. off2 = 4 * (past + 1) - 2 /\ past + 1 # 0
    BY <1>4, <1>6
  <2>2. sent'[past + 1].method = "headless"
    BY <1>3, <1>4
  <2> QED BY <2>1, <2>2 DEF Offset
<1>8. buf' \in Seq(Pieces) /\ InStep(off2)'
  <2>1. InStep(off) /\ buf' = SubSeq(buf, cut + 1, Len(buf))
    BY <1>2, <1>5 DEF SessionAt, SkipHeader
  <2>2. buf' \in Seq(Pieces) /\ InStep(off + cut)'
    BY <1>3, <2>1, MovesOn
  <2> QED BY <1>6, <2>2
<1>9. h[past + 1] = docs
  BY <1>4 DEF Applied
<1>10. History(h)' /\ editor' = h[Len(sent')]
  BY <1>2, <1>3 DEF SessionAt, History
<1>11. AnsweredUpto(past + 1)'
  <2>1. past + 1 \notin Owed
    BY <1>4 DEF Owed
  <2> QED BY <1>2, <1>3, <1>4, <2>1, NoAnswer DEF SessionAt
<1>12. \A u \in DOMAIN docs' : u \in DOMAIN shown' /\ shown'[u] = docs'[u]
  BY <1>2, <1>3 DEF SessionAt
<1>13. SessionAt(past + 1, off2, h)'
  BY <1>3, <1>7, <1>8, <1>9, <1>10, <1>11, <1>12 DEF SessionAt
<1>14. IsList(sent') /\ IsList(replied') /\ past + 1 \in 0..Len(sent') /\ wire' \in Seq(Pieces)
  BY <1>3, <1>4 DEF SessionInv
<1> QED BY <1>8, <1>13, <1>14 DEF SessionInv

(* A message is taken: where that leaves the server.                       *)
LEMMA TakenKnown ==
    ASSUME SessionInv, NEW past \in 0..Len(sent), NEW off \in Nat, NEW h, SessionAt(past, off, h),
           NEW methods, Taken(methods)
    PROVE  /\ past \in Nat /\ past + 1 \in DOMAIN sent /\ past + 1 \in 0..Len(sent') /\ past < Len(sent)
           /\ buf[HeaderEnd].of = past + 1 /\ Msg = sent[past + 1] /\ Msg.method \in methods
           /\ h[past + 1] = Applied(docs, Msg) /\ Sensible(docs, Msg) /\ IsDocuments(docs)
           /\ sent' = sent /\ wire' = wire
           /\ buf' \in Seq(Pieces) /\ 4 * (past + 1) \in Nat
           /\ Offset(past + 1, 4 * (past + 1))' /\ InStep(4 * (past + 1))'
           /\ History(h)' /\ editor' = h[Len(sent')]
<1>1. /\ sent' = sent /\ wire' = wire /\ editor' = editor
      /\ Ends # {} /\ Len(buf) >= After
      /\ buf' = SubSeq(buf, After + 1, Len(buf))
      /\ sent[buf[HeaderEnd].of].method \in methods
  BY DEF Taken, clientVars, CanTake
<1>2. /\ past \in Nat /\ past + 1 \in 1..Len(sent) /\ past + 1 \in DOMAIN sent /\ past < Len(sent)
      /\ HeaderEnd \in 1..Len(buf) /\ HeaderEnd = 4 * past + 2 - off /\ buf[HeaderEnd].of = past + 1
      /\ h[past + 1] = Applied(docs, sent[past + 1]) /\ Sensible(docs, sent[past + 1])
      /\ IsDocuments(docs)
  BY <1>1, NextKnown
<1>3. Msg = sent[past + 1] /\ Msg.method \in methods
  BY <1>1, <1>2 DEF Msg
<1>4. Len(buf) \in Nat
  BY StreamKnown DEF SessionInv
<1>5. PICK cut \in 0..Len(buf) : cut = After
  <2>1. After = HeaderEnd + 2
    BY DEF After
  <2> QED BY <1>1, <1>2, <1>4, <2>1
<1>6. buf' \in Seq(Pieces) /\ InStep(off + cut)'
  <2>1. InStep(off) /\ buf' = SubSeq(buf, cut + 1, Len(buf))
    BY <1>1, <1>5 DEF SessionAt
  <2> QED BY <1>1, <2>1, MovesOn
<1>7. off + cut = 4 * (past + 1) /\ 4 * (past + 1) \in Nat
  <2>1. cut = HeaderEnd + 2
    BY <1>5 DEF After
  <2>2. cut = (4 * past + 2 - off) + 2
    BY <1>2, <2>1
  <2>3. past \in Nat
    BY <1>2
  <2> QED BY <2>2, <2>3
<1>8. InStep(4 * (past + 1))'
  BY <1>6, <1>7
<1>9. Offset(past + 1, 4 * (past + 1))'
  BY DEF Offset
<1>10. History(h)' /\ editor' = h[Len(sent')]
  BY <1>1 DEF SessionAt, History
<1>11. past + 1 \in 0..Len(sent')
  BY <1>1, <1>2
<1> QED BY <1>1, <1>2, <1>3, <1>6, <1>7, <1>8, <1>9, <1>10, <1>11

(* Having done what the message asks, the server is in step again.         *)
LEMMA StepsPast ==
    ASSUME SessionInv, NEW past \in 0..Len(sent), NEW off \in Nat, NEW h, SessionAt(past, off, h),
           NEW methods, Taken(methods), docs' = Applied(docs, Msg),
           \A u \in DOMAIN docs' : u \in DOMAIN shown' /\ shown'[u] = docs'[u],
           IsList(replied'), AnsweredUpto(past + 1)'
    PROVE  SessionInv'
<1>1. /\ past + 1 \in 0..Len(sent') /\ h[past + 1] = Applied(docs, Msg) /\ sent' = sent /\ wire' = wire
      /\ buf' \in Seq(Pieces) /\ 4 * (past + 1) \in Nat
      /\ Offset(past + 1, 4 * (past + 1))' /\ InStep(4 * (past + 1))'
      /\ History(h)' /\ editor' = h[Len(sent')]
  BY TakenKnown
<1>2. PICK off2 \in Nat : off2 = 4 * (past + 1)
  BY <1>1
<1>3. Offset(past + 1, off2)' /\ InStep(off2)'
  BY <1>1, <1>2
<1>4. docs' = h[past + 1]
  BY <1>1
<1>5. SessionAt(past + 1, off2, h)'
  BY <1>1, <1>3, <1>4 DEF SessionAt
<1>6. IsList(sent') /\ wire' \in Seq(Pieces)
  BY <1>1 DEF SessionInv
<1> QED BY <1>1, <1>5, <1>6 DEF SessionInv

(* Every handler does to the documents what its message says, and answers  *)
(* what is owed.                                                           *)
LEMMA HandleStep ==
    ASSUME SessionInv, Handle
    PROVE  SessionInv'
<1>1. PICK past \in 0..Len(sent), off \in Nat : \E h : SessionAt(past, off, h)
  BY DEF SessionInv
<1>2. PICK h : SessionAt(past, off, h)
  BY <1>1
<1>3. /\ AnsweredUpto(past) /\ IsList(replied)
      /\ \A u \in DOMAIN docs : u \in DOMAIN shown /\ shown[u] = docs[u]
  BY <1>2 DEF SessionAt, SessionInv
<1>4. ASSUME NEW methods, Taken(methods)
      PROVE  /\ past + 1 \in DOMAIN sent /\ past < Len(sent) /\ buf[HeaderEnd].of = past + 1 /\ sent' = sent
             /\ Msg = sent[past + 1] /\ Msg.method \in methods /\ Sensible(docs, Msg) /\ IsDocuments(docs)
  BY <1>2, <1>4, TakenKnown
<1>5. ASSUME NEW methods, Taken(methods), docs' = Applied(docs, Msg),
             \A u \in DOMAIN docs' : u \in DOMAIN shown' /\ shown'[u] = docs'[u],
             IsList(replied'), AnsweredUpto(past + 1)'
      PROVE  SessionInv'
  BY <1>2, <1>5, StepsPast
<1>6. ASSUME NEW methods, Taken(methods), replied' = replied,
             methods \cap {"ask", "shutdown", "unknown", "bad request"} = {}
      PROVE  IsList(replied') /\ AnsweredUpto(past + 1)'
  <2>1. past + 1 \notin Owed
    BY <1>4, <1>6 DEF Owed
  <2> QED BY <1>3, <1>4, <1>6, <2>1, NoAnswer
<1>7. ASSUME NEW methods, Taken(methods), Replies(Owing(Msg)),
             methods \subseteq {"ask", "shutdown", "unknown", "bad request"}
      PROVE  IsList(replied') /\ AnsweredUpto(past + 1)'
  <2>1. past + 1 \in Owed
    BY <1>4, <1>7 DEF Owed
  <2>2. replied' = Append(replied, [to |-> past + 1, with |-> Owing(sent[past + 1])])
    BY <1>4, <1>7 DEF Replies
  <2>3. past < Len(sent) /\ sent' = sent
    BY <1>4, <1>7
  <2> QED BY <1>3, <2>1, <2>2, <2>3, AnswerGiven
<1>8. ASSUME NEW u, NEW t, Publish(u, t)
      PROVE  docs' = With(docs, u, t) /\ \A v \in DOMAIN docs' : v \in DOMAIN shown' /\ shown'[v] = docs'[v]
  <2>1. docs' = With(docs, u, t) /\ shown' = With(shown, u, t)
    BY <1>8 DEF Publish
  <2>2. /\ DOMAIN docs' = DOMAIN docs \cup {u} /\ DOMAIN shown' = DOMAIN shown \cup {u}
        /\ docs'[u] = t /\ shown'[u] = t
        /\ \A v \in DOMAIN docs : v # u => docs'[v] = docs[v]
        /\ \A v \in DOMAIN shown : v # u => shown'[v] = shown[v]
    <3>1. DOMAIN docs' = DOMAIN docs \cup {u} /\ docs'[u] = t /\ \A v \in DOMAIN docs : v # u => docs'[v] = docs[v]
      BY <2>1 DEF With
    <3>2. DOMAIN shown' = DOMAIN shown \cup {u} /\ shown'[u] = t /\ \A v \in DOMAIN shown : v # u => shown'[v] = shown[v]
      BY <2>1 DEF With
    <3> QED BY <3>1, <3>2
  <2>3. ASSUME NEW v \in DOMAIN docs' PROVE v \in DOMAIN shown' /\ shown'[v] = docs'[v]
    <3>1. CASE v = u
      BY <2>2, <3>1
    <3>2. CASE v # u
      BY <1>3, <2>2, <3>2
    <3> QED BY <3>1, <3>2
  <2> QED BY <2>1, <2>3
<1>9. ASSUME docs' = docs, shown' = shown
      PROVE  \A u \in DOMAIN docs' : u \in DOMAIN shown' /\ shown'[u] = docs'[u]
  BY <1>3, <1>9
<1>10. ASSUME DidOpen PROVE SessionInv'
  <2>1. Taken({"didOpen"}) /\ Publish(Msg.uri, Msg.texts[1]) /\ replied' = replied
    BY <1>10 DEF DidOpen
  <2>2. Msg.method = "didOpen"
    BY <1>4, <2>1
  <2>3. docs' = Applied(docs, Msg)
    BY <1>8, <2>1, <2>2 DEF Applied
  <2> QED BY <1>5, <1>6, <1>8, <2>1, <2>3
<1>11. ASSUME DidChange PROVE SessionInv'
  <2>1. /\ Taken({"didChange"}) /\ replied' = replied
        /\ Publish(Msg.uri, IF Msg.texts = << >> THEN TextOf(docs, Msg.uri) ELSE Msg.texts[Len(Msg.texts)])
    BY <1>11 DEF DidChange
  <2>2. Msg.method = "didChange" /\ Msg.uri \in DOMAIN docs /\ IsDocuments(docs)
    <3>1. Msg.method = "didChange" /\ Sensible(docs, Msg) /\ IsDocuments(docs)
      BY <1>4, <2>1
    <3> QED BY <3>1 DEF Sensible
  <2>3. docs' = Applied(docs, Msg)
    <3>1. CASE Msg.texts = << >>
      <4>1. docs' = With(docs, Msg.uri, TextOf(docs, Msg.uri))
        BY <1>8, <2>1, <3>1
      <4>2. With(docs, Msg.uri, TextOf(docs, Msg.uri)) = docs
        BY <2>2, WithItself
      <4> QED BY <2>2, <3>1, <4>1, <4>2 DEF Applied
    <3>2. CASE Msg.texts # << >>
      BY <1>8, <2>1, <2>2, <3>2 DEF Applied
    <3> QED BY <3>1, <3>2
  <2> QED BY <1>5, <1>6, <1>8, <2>1, <2>3
<1>12. ASSUME DidClose PROVE SessionInv'
  <2>1. Taken({"didClose"}) /\ docs' = Without(docs, Msg.uri) /\ replied' = replied /\ shown' = shown
    BY <1>12 DEF DidClose
  <2>2. Msg.method = "didClose"
    BY <1>4, <2>1
  <2>3. docs' = Applied(docs, Msg)
    BY <2>1, <2>2 DEF Applied
  <2>4. \A u \in DOMAIN docs' : u \in DOMAIN shown' /\ shown'[u] = docs'[u]
    <3>1. DOMAIN docs' = DOMAIN docs \ {Msg.uri} /\ \A u \in DOMAIN docs : u # Msg.uri => docs'[u] = docs[u]
      BY <2>1 DEF Without
    <3> QED BY <1>3, <2>1, <3>1
  <2> QED BY <1>5, <1>6, <2>1, <2>3, <2>4
<1>13. ASSUME Answer PROVE SessionInv'
  <2>1. Taken({"ask"}) /\ Replies(TextOf(docs, Msg.uri)) /\ docs' = docs /\ shown' = shown
    BY <1>13 DEF Answer
  <2>2. Msg.method = "ask" /\ Sensible(docs, Msg)
    BY <1>4, <2>1
  <2>3. docs' = Applied(docs, Msg) /\ Owing(Msg) = TextOf(docs, Msg.uri)
    BY <2>1, <2>2 DEF Applied, Owing, Sensible
  <2> QED BY <1>5, <1>7, <1>9, <2>1, <2>3
<1>14. ASSUME Shutdown PROVE SessionInv'
  <2>1. Taken({"shutdown"}) /\ Replies("null") /\ docs' = docs /\ shown' = shown
    BY <1>14 DEF Shutdown
  <2>2. Msg.method = "shutdown"
    BY <1>4, <2>1
  <2>3. docs' = Applied(docs, Msg) /\ Owing(Msg) = "null"
    BY <2>1, <2>2 DEF Applied, Owing
  <2> QED BY <1>5, <1>7, <1>9, <2>1, <2>3
<1>15. ASSUME Exit PROVE SessionInv'
  <2>1. Taken({"exit"}) /\ docs' = docs /\ shown' = shown /\ replied' = replied
    BY <1>15 DEF Exit
  <2>2. Msg.method = "exit"
    BY <1>4, <2>1
  <2>3. docs' = Applied(docs, Msg)
    BY <2>1, <2>2 DEF Applied
  <2> QED BY <1>5, <1>6, <1>9, <2>1, <2>3
<1>16. ASSUME Refuse PROVE SessionInv'
  <2>1. Taken({"unknown", "bad request"}) /\ Replies("error") /\ docs' = docs /\ shown' = shown
    BY <1>16 DEF Refuse
  <2>2. Msg.method \in {"unknown", "bad request"}
    BY <1>4, <2>1
  <2>3. docs' = Applied(docs, Msg) /\ Owing(Msg) = "error"
    BY <2>1, <2>2 DEF Applied, Owing
  <2> QED BY <1>5, <1>7, <1>9, <2>1, <2>3
<1>17. ASSUME Ignore PROVE SessionInv'
  <2>1. Taken({"no json", "ignored", "bad notification"}) /\ docs' = docs /\ shown' = shown /\ replied' = replied
    BY <1>17 DEF Ignore
  <2>2. Msg.method \in {"no json", "ignored", "bad notification"}
    BY <1>4, <2>1
  <2>3. docs' = Applied(docs, Msg)
    BY <2>1, <2>2 DEF Applied
  <2> QED BY <1>5, <1>6, <1>9, <2>1, <2>3
<1> QED BY <1>10, <1>11, <1>12, <1>13, <1>14, <1>15, <1>16, <1>17 DEF Handle

LEMMA SessionStarts ==
    ASSUME SessionInit
    PROVE  SessionInv
<1>1. PICK h : h = [i \in {0} |-> Empty]
  OBVIOUS
<1>2. /\ sent = << >> /\ wire = << >> /\ buf = << >> /\ replied = << >>
      /\ docs = Empty /\ editor = Empty /\ shown = Empty
  BY DEF SessionInit
<1>3. << >> \in Seq({}) /\ Len(<< >>) = 0 /\ DOMAIN << >> = {}
  OBVIOUS
<1>4. /\ IsList(sent) /\ IsList(replied) /\ buf \in Seq(Pieces) /\ wire \in Seq(Pieces)
      /\ Len(sent) = 0 /\ Len(buf) = 0 /\ Len(wire) = 0 /\ DOMAIN sent = {} /\ DOMAIN replied = {}
  BY <1>2, <1>3 DEF IsList
<1>5. h[0] = Empty /\ IsDocuments(Empty) /\ DOMAIN Empty = {}
  BY <1>1 DEF Empty, IsDocuments
<1>6. History(h) /\ docs = h[0] /\ editor = h[Len(sent)]
  <2>1. \A i \in 0..Len(sent) : i = 0
    BY <1>4
  <2> QED BY <1>2, <1>4, <1>5, <2>1 DEF History
<1>7. Offset(0, 0) /\ InStep(0)
  <2>1. \A i \in 1..Len(sent) : FALSE
    BY <1>4
  <2>2. Offset(0, 0)
    BY DEF Offset
  <2> QED BY <1>4, <2>1, <2>2 DEF InStep, Placed
<1>8. AnsweredUpto(0)
  <2>1. Owed = {}
    BY <1>4 DEF Owed
  <2> QED BY <1>4, <2>1 DEF AnsweredUpto
<1>9. \A u \in DOMAIN docs : u \in DOMAIN shown /\ shown[u] = docs[u]
  BY <1>2, <1>5
<1>10. SessionAt(0, 0, h)
  BY <1>6, <1>7, <1>8, <1>9 DEF SessionAt
<1>11. 0 \in 0..Len(sent) /\ 0 \in Nat
  BY <1>4
<1> QED BY <1>4, <1>10, <1>11 DEF SessionInv

LEMMA SessionKept ==
    ASSUME SessionInv, [SessionNext]_sessionVars
    PROVE  SessionInv'
<1>1. ASSUME UNCHANGED sessionVars PROVE SessionInv'
  <2>1. PICK past \in 0..Len(sent), off \in Nat : \E h : SessionAt(past, off, h)
    BY DEF SessionInv
  <2>2. PICK h : SessionAt(past, off, h)
    BY <2>1
  <2>3. /\ editor' = editor /\ sent' = sent /\ wire' = wire /\ buf' = buf /\ docs' = docs
        /\ replied' = replied /\ shown' = shown
    BY <1>1 DEF sessionVars, clientVars
  <2>4. InStep(off)' /\ Offset(past, off)'
    BY <2>2, <2>3 DEF SessionAt, InStep, Placed, PieceAt, Offset
  <2>5. History(h)' /\ docs' = h[past] /\ editor' = h[Len(sent')]
    BY <2>2, <2>3 DEF SessionAt, History
  <2>6. AnsweredUpto(past)'
    BY <2>2, <2>3 DEF SessionAt, AnsweredUpto, Owed
  <2>7. \A u \in DOMAIN docs' : u \in DOMAIN shown' /\ shown'[u] = docs'[u]
    BY <2>2, <2>3 DEF SessionAt
  <2>8. SessionAt(past, off, h)'
    BY <2>4, <2>5, <2>6, <2>7 DEF SessionAt
  <2>9. IsList(sent') /\ IsList(replied') /\ buf' \in Seq(Pieces) /\ wire' \in Seq(Pieces) /\ past \in 0..Len(sent')
    BY <2>3 DEF SessionInv
  <2> QED BY <2>8, <2>9 DEF SessionInv
<1> QED BY <1>1, ClientStep, ArrivesStep, SkipStep, HandleStep DEF SessionNext

(* A server that has taken what came has come to the end.                  *)
LEMMA IdleMeans ==
    ASSUME SessionInv, Idle, NEW past \in 0..Len(sent), NEW off \in Nat, NEW h, SessionAt(past, off, h)
    PROVE  past = Len(sent)
<1> SUFFICES ASSUME past # Len(sent) PROVE FALSE
  OBVIOUS
<1>1. Offset(past, off) /\ InStep(off)
  BY DEF SessionAt
<1>2. /\ Len(sent) \in Nat
      /\ past < Len(sent) => /\ Stream[4 * past + 2 - off] = PieceAt(past + 1, 2)
                             /\ 4 * past + 4 - off <= Len(buf) + Len(wire)
      /\ 4 * past + 2 - off \in {2, 4}
  BY <1>1, FrontKnown
<1>3. Len(buf) \in Nat /\ Len(wire) = 0 /\ DOMAIN buf = 1..Len(buf) /\ \A p \in 1..Len(buf) : Stream[p] = buf[p]
  BY StreamKnown DEF SessionInv, Idle
<1>4. past < Len(sent)
  BY <1>2
<1>5. PICK e \in 1..Len(buf) : e = 4 * past + 2 - off /\ e + 2 <= Len(buf)
  <2>1. 4 * past + 2 - off \in 1..Len(buf) /\ (4 * past + 2 - off) + 2 <= Len(buf)
    BY <1>2, <1>3, <1>4
  <2> QED BY <2>1
<1>6. buf[e] = PieceAt(past + 1, 2)
  BY <1>2, <1>3, <1>4, <1>5
<1>7. PieceAt(past + 1, 2).is = "blank line"
  BY DEF PieceAt, Piece
<1>8. e \in Ends
  BY <1>3, <1>6, <1>7 DEF Ends
<1>9. HeaderEnd = e
  BY <1>1, <1>5, <1>8, HeadKnown
<1>10. Len(buf) >= After
  BY <1>3, <1>5, <1>9 DEF After
<1> QED BY <1>8, <1>10 DEF Idle, CanSkip, CanTake

LEMMA SessionHolds == SessionSpec => []SessionInv
<1>1. SessionInit => SessionInv
  BY SessionStarts
<1>2. SessionInv /\ [SessionNext]_sessionVars => SessionInv'
  BY SessionKept
<1> QED BY <1>1, <1>2, PTL DEF SessionSpec

LEMMA MirrorsThen ==
    ASSUME SessionInv
    PROVE  EditorMirrored
<1> SUFFICES ASSUME Idle
             PROVE  docs = editor /\ \A u \in DOMAIN editor : u \in DOMAIN shown /\ shown[u] = editor[u]
  BY DEF EditorMirrored
<1>1. PICK past \in 0..Len(sent), off \in Nat : \E h : SessionAt(past, off, h)
  BY DEF SessionInv
<1>2. PICK h : SessionAt(past, off, h)
  BY <1>1
<1>3. past = Len(sent)
  BY <1>2, IdleMeans
<1>4. docs = h[past] /\ editor = h[Len(sent)] /\ \A u \in DOMAIN docs : u \in DOMAIN shown /\ shown[u] = docs[u]
  BY <1>2 DEF SessionAt
<1> QED BY <1>3, <1>4

LEMMA AnswersThen ==
    ASSUME SessionInv
    PROVE  AnsweredAsAsked
<1>1. PICK past \in 0..Len(sent), off \in Nat : \E h : SessionAt(past, off, h)
  BY DEF SessionInv
<1>2. PICK h : SessionAt(past, off, h)
  BY <1>1
<1>3. /\ \A p \in DOMAIN replied : /\ replied[p].to \in Owed /\ replied[p].to <= past
                                   /\ replied[p].with = Owing(sent[replied[p].to])
      /\ \A p, q \in DOMAIN replied : p < q => replied[p].to < replied[q].to
      /\ \A i \in Owed : i <= past => \E p \in DOMAIN replied : replied[p].to = i
  BY <1>2 DEF SessionAt, AnsweredUpto
<1>4. Len(sent) \in Nat /\ \A i \in Owed : i \in 1..Len(sent)
  BY ListKnown DEF SessionInv, Owed
<1>5. ASSUME NEW i \in Owed, Idle \/ (\E p \in DOMAIN replied : i < replied[p].to)
      PROVE  \E p \in DOMAIN replied : replied[p].to = i
  <2>1. ASSUME Idle PROVE i <= past
    <3>1. past = Len(sent) /\ i \in 1..Len(sent)
      BY <1>2, <1>4, <2>1, IdleMeans
    <3> QED BY <1>4, <3>1
  <2>2. ASSUME NEW p \in DOMAIN replied, i < replied[p].to PROVE i <= past
    <3>1. replied[p].to \in 1..Len(sent) /\ replied[p].to <= past /\ i \in 1..Len(sent)
      BY <1>3, <1>4
    <3> QED BY <1>4, <2>2, <3>1
  <2> QED BY <1>3, <1>5, <2>1, <2>2
<1> QED BY <1>3, <1>5 DEF AnsweredAsAsked

(* When all the editor sent has come, however it was cut and whatever came *)
(* that was no message, the server has the documents of the editor and has *)
(* published the diagnostics of the texts it shows (serve, handle).        *)
THEOREM ServerMirrorsEditor == SessionSpec => []EditorMirrored
BY SessionHolds, MirrorsThen, PTL

(* The answers are in the order of the requests, one each, about the text  *)
(* the editor had then, and none is passed over (serve, handle).           *)
THEOREM ServerAnswersInTurn == SessionSpec => []AnsweredAsAsked
BY SessionHolds, AnswersThen, PTL

-----------------------------------------------------------------------------
(* The server of tools.                                                    *)

(* The stream: two pieces a line.  The server is past some lines.          *)
Lined(b, past) ==
    /\ Len(b) + Len(coming) = 2 * (Len(lines) - past)
    /\ \A i \in 1..Len(lines) : i > past =>
         /\ (b \o coming)[2 * (i - past) - 1] = Part1(i)
         /\ (b \o coming)[2 * (i - past)] = Newline(i)

(* What has become of the lines it is past.                                *)
Fates(past) ==
    /\ lost \subseteq 1..past /\ handled \subseteq 1..past
    /\ \A i \in handled : lines[i] = "call" /\ i \notin lost
    /\ \A p \in DOMAIN responses : responses[p].to \in 1..past
    /\ \A p, q \in DOMAIN responses : responses[p].to = responses[q].to => p = q
    /\ \A i \in 1..past : (\E p \in DOMAIN responses : responses[p].to = i)
                              <=> (lines[i] \in Asking /\ i \notin handled \cup lost)
    /\ \A i \in lost : \E j \in i..past : lines[j] = "no json" /\ j \in lost
    /\ \A p \in DOMAIN held : held[p].last => \E j \in lost : j < held[p].line

LinePieces == [line : Nat, last : BOOLEAN]
McpAt(past) == Lined(held, past) /\ Fates(past)
McpInv ==
    /\ IsList(lines) /\ IsList(responses) /\ held \in Seq(LinePieces) /\ coming \in Seq(LinePieces)
    /\ \E past \in 0..Len(lines) : McpAt(past)

LEMMA Halves ==
    ASSUME NEW p \in Nat
    PROVE  \E h \in Nat : p = 2 * h \/ p = 2 * h + 1
<1>1. p \div 2 \in Nat /\ (p = 2 * (p \div 2) \/ p = 2 * (p \div 2) + 1)
  OBVIOUS
<1> QED BY <1>1

LEMMA PieceKnown ==
    \A i : /\ Part1(i).line = i /\ Part1(i).last = FALSE
           /\ Newline(i).line = i /\ Newline(i).last = TRUE
  BY DEF Part1, Newline

(* What is answered at once is answered once each.                         *)
LEMMA AtOnceAnswersEach ==
    ASSUME NEW S \in SUBSET Nat, IsFiniteSet(S)
    PROVE  /\ IsList(AtOnce(S)) /\ Len(AtOnce(S)) = Cardinality(S) /\ Cardinality(S) \in Nat
           /\ \A k \in 1..Cardinality(S) : AtOnce(S)[k].to \in S
           /\ \A k, l \in 1..Cardinality(S) : AtOnce(S)[k].to = AtOnce(S)[l].to => k = l
           /\ \A i \in S : \E k \in 1..Cardinality(S) : AtOnce(S)[k].to = i
<1> DEFINE before(i) == {h \in S : h < i}
           rank == [i \in S |-> Cardinality(before(i))]
           nth(k) == CHOOSE j \in S : Cardinality({h \in S : h < j}) = k - 1
<1>0. PICK n \in Nat : n = Cardinality(S)
  BY FS_CardinalityType
<1>1. \A i \in S : before(i) \subseteq S /\ i \notin before(i)
  OBVIOUS
<1>2. \A i, j \in S : i # j => i \in before(j) \/ j \in before(i)
  OBVIOUS
<1>3. \A i, j \in S : i \in before(j) => before(i) \subseteq before(j)
  <2> SUFFICES ASSUME NEW i \in S, NEW j \in S, NEW h \in S, i < j, h < i PROVE h < j
    OBVIOUS
  <2>1. i \in Nat /\ j \in Nat /\ h \in Nat
    OBVIOUS
  <2> QED BY <2>1
<1>4. rank \in [S -> 0..(n - 1)]
  <2> SUFFICES ASSUME NEW i \in S PROVE Cardinality(before(i)) \in 0..(n - 1)
    OBVIOUS
  <2>1. before(i) \in SUBSET (S \ {i})
    BY <1>1
  <2> HIDE DEF before
  <2>2. IsFiniteSet(S \ {i}) /\ Cardinality(S \ {i}) = n - 1
    BY <1>0, FS_RemoveElement
  <2>3. IsFiniteSet(before(i)) /\ Cardinality(before(i)) <= n - 1
    BY <2>1, <2>2, FS_Subset
  <2>4. Cardinality(before(i)) \in Nat
    BY <2>3, FS_CardinalityType
  <2> QED BY <2>3, <2>4
<1>5. \A i, j \in S : i \in before(j) => rank[i] # rank[j]
  <2> SUFFICES ASSUME NEW i \in S, NEW j \in S, i \in before(j) PROVE Cardinality(before(i)) # Cardinality(before(j))
    OBVIOUS
  <2>1. before(i) \in SUBSET before(j) /\ before(i) # before(j)
    BY <1>1, <1>3
  <2>2. before(j) \in SUBSET S
    BY <1>1
  <2> HIDE DEF before
  <2>3. IsFiniteSet(before(j))
    BY <2>2, FS_Subset
  <2> QED BY <2>1, <2>3, FS_Subset
<1>6. \A i, j \in S : rank[i] = rank[j] => i = j
  BY <1>2, <1>5
<1>7. \A k \in 0..(n - 1) : \E i \in S : rank[i] = k
  <2> HIDE DEF rank
  <2>1. rank \in Injection(S, 0..(n - 1))
    BY <1>4, <1>6 DEF Injection, IsInjective
  <2>2. IsFiniteSet(0..(n - 1)) /\ Cardinality(0..(n - 1)) = n
    BY FS_Interval
  <2>3. rank \in Surjection(S, 0..(n - 1))
    BY <1>0, <2>1, <2>2, FS_Injection
  <2> QED BY <2>3 DEF Surjection
<1>8. \A k \in 1..n : nth(k) \in S /\ rank[nth(k)] = k - 1
  <2> SUFFICES ASSUME NEW k \in 1..n PROVE nth(k) \in S /\ rank[nth(k)] = k - 1
    OBVIOUS
  <2>1. k - 1 \in 0..(n - 1)
    OBVIOUS
  <2>2. \E i \in S : Cardinality({h \in S : h < i}) = k - 1
    BY <1>7, <2>1
  <2> HIDE DEF before
  <2>3. nth(k) \in S /\ Cardinality({h \in S : h < nth(k)}) = k - 1
    BY <2>2
  <2> HIDE DEF nth
  <2> QED BY <2>3 DEF before
<1>9. AtOnce(S) = [k \in 1..n |-> [to |-> nth(k), how |-> IF lines[nth(k)] = "initialize" THEN "result" ELSE "error"]]
  BY <1>0 DEF AtOnce
<1> HIDE DEF rank, before, nth
<1>10. IsList(AtOnce(S)) /\ Len(AtOnce(S)) = n
  <2>1. PICK e : e = AtOnce(S)
    OBVIOUS
  <2>2. e = [k \in 1..n |-> e[k]]
    BY <1>9, <2>1
  <2>3. PICK T : T = {e[k] : k \in 1..n}
    OBVIOUS
  <2>4. [k \in 1..n |-> e[k]] \in Seq(T) /\ Len([k \in 1..n |-> e[k]]) = n
    BY <2>3
  <2> QED BY <2>1, <2>2, <2>4 DEF IsList
<1>11. \A k \in 1..n : AtOnce(S)[k].to = nth(k)
  BY <1>9
<1>12. \A k, l \in 1..n : nth(k) = nth(l) => k = l
  <2>1. \A k, l \in 1..n : k - 1 = l - 1 => k = l
    OBVIOUS
  <2> QED BY <1>8, <2>1
<1>13. ASSUME NEW i \in S PROVE \E k \in 1..n : nth(k) = i
  <2>1. rank[i] \in 0..(n - 1)
    BY <1>4
  <2>2. rank[i] + 1 \in 1..n /\ (rank[i] + 1) - 1 = rank[i]
    <3>1. \A m \in 0..(n - 1) : m + 1 \in 1..n /\ (m + 1) - 1 = m
      OBVIOUS
    <3> QED BY <2>1, <3>1
  <2>3. nth(rank[i] + 1) \in S /\ rank[nth(rank[i] + 1)] = rank[i]
    BY <1>8, <2>2
  <2> QED BY <1>6, <2>2, <2>3
<1> QED BY <1>0, <1>8, <1>10, <1>11, <1>12, <1>13

(* A stream of lines, and what a part of it that begins where it does has. *)
Streamed(s, past, n) ==
    /\ Len(s) = 2 * (n - past)
    /\ \A i \in 1..n : i > past => s[2 * (i - past) - 1] = Part1(i) /\ s[2 * (i - past)] = Newline(i)
Begins(text, s) == Len(text) <= Len(s) /\ \A p \in 1..Len(text) : text[p] = s[p]

LEMMA PlaceKnown ==
    ASSUME NEW s, NEW n \in Nat, NEW past \in 0..n, Streamed(s, past, n), NEW p \in 1..(2 * (n - past))
    PROVE  \E i \in (past + 1)..n : /\ s[p].line = i
                                    /\ \/ p = 2 * (i - past) - 1 /\ s[p].last = FALSE
                                       \/ p = 2 * (i - past) /\ s[p].last = TRUE
<1>0. p \in Nat
  OBVIOUS
<1>1. PICK h \in Nat : p = 2 * h \/ p = 2 * h + 1
  BY <1>0, Halves
<1>2. CASE p = 2 * h
  <2>1. PICK i \in (past + 1)..n : i = past + h /\ i \in 1..n /\ i > past /\ p = 2 * (i - past)
    <3>1. past + h \in (past + 1)..n /\ past + h \in 1..n /\ past + h > past /\ p = 2 * ((past + h) - past)
      BY <1>2
    <3> QED BY <3>1
  <2>2. s[2 * (i - past)] = Newline(i)
    BY <2>1 DEF Streamed
  <2>3. s[p] = Newline(i)
    BY <2>1, <2>2
  <2>4. s[p].line = i /\ s[p].last = TRUE
    BY <2>3, PieceKnown
  <2> QED BY <2>1, <2>4
<1>3. CASE p = 2 * h + 1
  <2>1. PICK i \in (past + 1)..n : i = past + h + 1 /\ i \in 1..n /\ i > past /\ p = 2 * (i - past) - 1
    <3>1. /\ past + h + 1 \in (past + 1)..n /\ past + h + 1 \in 1..n /\ past + h + 1 > past
          /\ p = 2 * ((past + h + 1) - past) - 1
      BY <1>3
    <3> QED BY <3>1
  <2>2. s[2 * (i - past) - 1] = Part1(i)
    BY <2>1 DEF Streamed
  <2>3. s[p] = Part1(i)
    BY <2>1, <2>2
  <2>4. s[p].line = i /\ s[p].last = FALSE
    BY <2>3, PieceKnown
  <2> QED BY <2>1, <2>4
<1> QED BY <1>1, <1>2, <1>3

Cuts(text, past, c) ==
    /\ 2 * (c - past) <= Len(text)
    /\ Ended(text) = (past + 1)..c
    /\ \A p \in 1..Len(text) : text[p].last => text[p].line \in (past + 1)..c
    /\ \A b \in past..c : {p \in DOMAIN text : text[p].line \in (past + 1)..b} = 1..(2 * (b - past))
Takes(text, past, c, b) ==
    /\ TakenOf(text) = (past + 1)..b
    /\ Bad(text) = {} => b = c
    /\ Bad(text) # {} => b \in (past + 1)..c /\ lines[b] = "no json"

(* The lines that have ended are the next ones, and the pieces of the      *)
(* first of them stand first.                                              *)
LEMMA TextKnown ==
    ASSUME NEW S, NEW text \in Seq(S), NEW s, NEW n \in Nat, NEW past \in 0..n,
           Streamed(s, past, n), Begins(text, s)
    PROVE  \E c \in past..n : Cuts(text, past, c)
<1>1. Len(text) \in Nat /\ DOMAIN text = 1..Len(text)
  BY LenProperties
<1>2. Len(text) <= 2 * (n - past) /\ \A p \in 1..Len(text) : text[p] = s[p]
  BY DEF Streamed, Begins
<1>3. PICK h \in Nat : Len(text) = 2 * h \/ Len(text) = 2 * h + 1
  BY <1>1, Halves
<1>4. PICK c \in past..n : c = past + h
  <2>1. past + h \in past..n
    BY <1>2, <1>3
  <2> QED BY <2>1
<1>5. 2 * (c - past) <= Len(text) /\ Len(text) <= 2 * (c - past) + 1
  <2>1. c - past = h /\ past \in Nat
    BY <1>4
  <2>2. 2 * h <= Len(text) /\ Len(text) <= 2 * h + 1
    <3>1. \A l \in Nat : l = 2 * h \/ l = 2 * h + 1 => 2 * h <= l /\ l <= 2 * h + 1
      OBVIOUS
    <3> QED BY <1>1, <1>3, <3>1
  <2> QED BY <2>1, <2>2
<1>6. \A p \in 1..Len(text) : \E i \in (past + 1)..n :
        /\ text[p].line = i
        /\ \/ p = 2 * (i - past) - 1 /\ text[p].last = FALSE
           \/ p = 2 * (i - past) /\ text[p].last = TRUE
  <2> SUFFICES ASSUME NEW p \in 1..Len(text)
               PROVE  \E i \in (past + 1)..n :
                        /\ text[p].line = i
                        /\ \/ p = 2 * (i - past) - 1 /\ text[p].last = FALSE
                           \/ p = 2 * (i - past) /\ text[p].last = TRUE
    OBVIOUS
  <2>1. p \in 1..(2 * (n - past))
    BY <1>1, <1>2
  <2>2. text[p] = s[p]
    BY <1>2
  <2>3. PICK i \in (past + 1)..n : /\ s[p].line = i
                                    /\ \/ p = 2 * (i - past) - 1 /\ s[p].last = FALSE
                                       \/ p = 2 * (i - past) /\ s[p].last = TRUE
    BY <2>1, PlaceKnown
  <2> QED BY <2>2, <2>3
<1>7. ASSUME NEW p \in 1..Len(text), text[p].last PROVE text[p].line \in (past + 1)..c
  <2>1. PICK i \in (past + 1)..n : /\ text[p].line = i
                                    /\ \/ p = 2 * (i - past) - 1 /\ text[p].last = FALSE
                                       \/ p = 2 * (i - past) /\ text[p].last = TRUE
    BY <1>6
  <2>2. p = 2 * (i - past)
    BY <1>7, <2>1
  <2>3. i \in (past + 1)..c
    BY <1>1, <1>5, <2>2
  <2> QED BY <2>1, <2>3
<1>8. Ended(text) = (past + 1)..c
  <2>1. \A i \in Ended(text) : i \in (past + 1)..c
    BY <1>1, <1>7 DEF Ended
  <2>2. ASSUME NEW i \in (past + 1)..c PROVE i \in Ended(text)
    <3>1. PICK p \in 1..Len(text) : p = 2 * (i - past)
      <4>1. 2 * (i - past) \in 1..Len(text)
        BY <1>1, <1>5
      <4> QED BY <4>1
    <3>2. s[2 * (i - past)] = Newline(i)
      <4>1. i \in 1..n /\ i > past
        OBVIOUS
      <4> QED BY <4>1 DEF Streamed
    <3>3. text[p] = Newline(i)
      BY <1>2, <3>1, <3>2
    <3>4. text[p].line = i /\ text[p].last = TRUE
      BY <3>3, PieceKnown
    <3> QED BY <1>1, <3>4 DEF Ended
  <2> QED BY <2>1, <2>2
<1>9. ASSUME NEW b \in past..c
      PROVE  {p \in DOMAIN text : text[p].line \in (past + 1)..b} = 1..(2 * (b - past))
  <2>1. ASSUME NEW p \in 1..Len(text) PROVE text[p].line \in (past + 1)..b <=> p \in 1..(2 * (b - past))
    <3>1. PICK i \in (past + 1)..n : text[p].line = i /\ (p = 2 * (i - past) - 1 \/ p = 2 * (i - past))
      BY <1>6
    <3>2. i \in (past + 1)..b <=> p \in 1..(2 * (b - past))
      BY <3>1
    <3> QED BY <3>1, <3>2
  <2>2. \A p \in 1..(2 * (b - past)) : p \in 1..Len(text)
    BY <1>1, <1>5
  <2> QED BY <1>1, <2>1, <2>2
<1> QED BY <1>5, <1>7, <1>8, <1>9 DEF Cuts

(* The lines taken are the next ones, up to the first that is no JSON.     *)
LEMMA TakenUpTo ==
    ASSUME NEW text, NEW past \in Nat, NEW c \in Nat, past <= c, Ended(text) = (past + 1)..c
    PROVE  \E b \in past..c : Takes(text, past, c, b)
<1>1. \A j \in Bad(text) : j \in (past + 1)..c /\ j \in past..c /\ j \in Nat /\ lines[j] = "no json"
  <2>1. \A j \in Bad(text) : j \in (past + 1)..c /\ lines[j] = "no json"
    BY DEF Bad
  <2>2. \A j \in (past + 1)..c : j \in past..c /\ j \in Nat
    OBVIOUS
  <2> QED BY <2>1, <2>2
<1>2. CASE Bad(text) = {}
  <2>1. TakenOf(text) = (past + 1)..c
    BY <1>2 DEF TakenOf
  <2> QED BY <1>2, <2>1 DEF Takes
<1>3. CASE Bad(text) # {}
  <2>1. PICK b \in Bad(text) : \A j \in Bad(text) : b <= j
    <3>1. Bad(text) \in SUBSET Nat
      BY <1>1
    <3> QED BY <1>3, <3>1, LeastOf
  <2>2. b \in (past + 1)..c /\ b \in past..c /\ b \in Nat
    BY <1>1, <2>1
  <2>3. \A i \in (past + 1)..c : (\A j \in Bad(text) : i <= j) <=> i <= b
    <3>1. \A j \in Bad(text) : j \in Nat /\ b <= j
      BY <1>1, <2>1
    <3>2. \A i \in (past + 1)..c, j \in Nat : i <= b /\ b <= j => i <= j
      BY <2>2
    <3> QED BY <2>1, <3>1, <3>2
  <2>4. TakenOf(text) = {i \in (past + 1)..c : i <= b}
    BY <2>3 DEF TakenOf
  <2>5. {i \in (past + 1)..c : i <= b} = (past + 1)..b
    BY <2>2
  <2> QED BY <1>1, <1>3, <2>1, <2>2, <2>4, <2>5 DEF Takes
<1> QED BY <1>2, <1>3

(* What push does: to the stream, the lines taken and what is kept.        *)
Pushed(past, b, out, S) ==
    /\ out \subseteq (past + 1)..b /\ S = {i \in out : lines[i] \in {"initialize", "unknown"}}
    /\ out = (past + 1)..b \/ (out = {} /\ b \in (past + 1)..Len(lines) /\ lines[b] = "no json")
    /\ lines' = lines
    /\ lost' = lost \cup (((past + 1)..b) \ out)
    /\ handled' = handled \cup {i \in out : lines[i] = "call"}
    /\ responses' = responses \o AtOnce(S)
    /\ held' \in Seq(LinePieces) /\ coming' \in Seq(LinePieces) /\ Lined(held, b)'
    /\ \A p \in DOMAIN held' : held'[p].last => out = {} /\ b \in (past + 1)..Len(lines) /\ b < held'[p].line

LEMMA PushKnown ==
    ASSUME McpInv, NEW past \in 0..Len(lines), McpAt(past), NEW k \in DOMAIN coming, PushChunk(k)
    PROVE  \E b \in past..Len(lines) : \E out, S : Pushed(past, b, out, S)
<1>1. PICK n \in Nat : n = Len(lines)
  BY ListKnown DEF McpInv
<1>2. held \in Seq(LinePieces) /\ coming \in Seq(LinePieces) /\ k \in 1..Len(coming)
  BY LenProperties DEF McpInv
<1>3. PICK text, rest, s : /\ text = held \o SubSeq(coming, 1, k)
                           /\ rest = SubSeq(coming, k + 1, Len(coming)) /\ s = held \o coming
  OBVIOUS
<1>4. /\ text \in Seq(LinePieces) /\ rest \in Seq(LinePieces) /\ text \o rest = s
      /\ Len(text) = Len(held) + k /\ Len(rest) = Len(coming) - k
  <2>1. Moves(LinePieces, held, coming, k)
    BY <1>2, ChunkMoves
  <2> QED BY <1>3, <2>1 DEF Moves
<1>5. PICK lt \in Nat, lr \in Nat : lt = Len(text) /\ lr = Len(rest)
  BY <1>4, LenProperties
<1>6. \A p \in 1..(lt + lr) : s[p] = IF p <= lt THEN text[p] ELSE rest[p - lt]
  BY <1>4, <1>5, ConcatProperties
<1>7. Len(s) = lt + lr
  BY <1>4, <1>5, ConcatProperties
<1>8. \A p \in 1..lt : text[p] = s[p]
  <2>1. \A p \in 1..lt : p \in 1..(lt + lr) /\ p <= lt
    OBVIOUS
  <2> QED BY <1>6, <2>1
<1>9. lt + lr = 2 * (n - past)
  <2>1. Len(held) + Len(coming) = 2 * (n - past)
    BY <1>1 DEF McpAt, Lined
  <2>2. Len(s) = Len(held) + Len(coming)
    BY <1>2, <1>3, ConcatProperties
  <2> QED BY <1>7, <2>1, <2>2
<1>10. \A i \in 1..n : i > past => s[2 * (i - past) - 1] = Part1(i) /\ s[2 * (i - past)] = Newline(i)
  BY <1>1, <1>3 DEF McpAt, Lined
<1>11. PICK c \in past..n : Cuts(text, past, c)
  <2>1. Streamed(s, past, n)
    BY <1>7, <1>9, <1>10 DEF Streamed
  <2>2. Begins(text, s)
    <3>1. lt <= lt + lr
      OBVIOUS
    <3> QED BY <1>5, <1>7, <1>8, <3>1 DEF Begins
  <2>3. past \in 0..n
    BY <1>1
  <2> QED BY <1>4, <2>1, <2>2, <2>3, TextKnown
<1>12. past \in Nat /\ past <= n
  BY <1>1
<1>13. c \in Nat /\ past <= c /\ c <= n
  BY <1>12
<1>14. PICK b \in past..c : Takes(text, past, c, b)
  <2>1. Ended(text) = (past + 1)..c
    BY <1>11 DEF Cuts
  <2> QED BY <1>12, <1>13, <2>1, TakenUpTo
<1>15. b \in Nat /\ past <= b /\ b <= c
  BY <1>12, <1>13
<1>16. PICK cut \in 0..Len(text) : cut \in Nat /\ cut = 2 * (b - past) /\ cut <= lt
  <2>1. 2 * (c - past) <= lt
    BY <1>5, <1>11 DEF Cuts
  <2>2. 2 * (b - past) \in 0..lt
    BY <1>12, <1>13, <1>15, <2>1
  <2> QED BY <1>5, <2>2
<1>17. Kept(text) = SubSeq(text, cut + 1, Len(text))
  <2>1. {p \in DOMAIN text : text[p].line \in TakenOf(text)} = 1..cut
    BY <1>11, <1>14, <1>16 DEF Cuts, Takes
  <2>2. Cardinality(1..cut) = cut
    <3>1. Cardinality(1..cut) = IF 1 > cut THEN 0 ELSE cut - 1 + 1
      BY <1>16, FS_Interval
    <3> QED BY <1>16, <3>1
  <2> QED BY <2>1, <2>2 DEF Kept
<1>18. PICK kept : kept = SubSeq(text, cut + 1, Len(text))
  OBVIOUS
<1>19. PICK out, S : /\ out = (IF Bad(text) = {} THEN TakenOf(text) ELSE {})
                     /\ S = {i \in out : lines[i] \in {"initialize", "unknown"}}
  OBVIOUS
<1>20. /\ coming' = rest /\ held' = kept /\ lines' = lines
       /\ lost' = lost \cup (((past + 1)..b) \ out)
       /\ handled' = handled \cup {i \in out : lines[i] = "call"}
       /\ responses' = responses \o AtOnce(S)
  <2>1. /\ coming' = rest /\ held' = Kept(text) /\ lines' = lines
        /\ lost' = lost \cup (TakenOf(text) \ out)
        /\ handled' = handled \cup {i \in out : lines[i] = "call"}
        /\ responses' = responses \o AtOnce(S)
    BY <1>3, <1>19 DEF PushChunk
  <2> QED BY <1>14, <1>17, <1>18, <2>1 DEF Takes
<1>21. PICK lk \in Nat : lk = Len(kept) /\ kept \in Seq(LinePieces) /\ lk = lt - cut
  <2>1. kept \in Seq(LinePieces) /\ Len(kept) = Len(text) - cut
    BY <1>4, <1>18, FrontDropped
  <2>2. lt - cut \in Nat
    BY <1>16
  <2> QED BY <1>5, <2>1, <2>2
<1>22. \A p \in 1..(lt + lr - cut) : (kept \o rest)[p] = s[p + cut]
  <2>1. \A p \in 1..(Len(text) + Len(rest) - cut) : (kept \o rest)[p] = (text \o rest)[p + cut]
    <3>1. Drops(text, rest, cut, kept)
      BY <1>4, <1>18, FrontDropped
    <3> QED BY <3>1 DEF Drops
  <2> QED BY <1>4, <1>5, <2>1
<1>23. Lined(held, b)'
  <2>1. Len(kept) + Len(rest) = 2 * (n - b)
    <3>1. lk + lr = 2 * (n - b)
      BY <1>9, <1>12, <1>15, <1>16, <1>21
    <3> QED BY <1>5, <1>21, <3>1
  <2>2. ASSUME NEW i \in 1..n, i > b
        PROVE  (kept \o rest)[2 * (i - b) - 1] = Part1(i) /\ (kept \o rest)[2 * (i - b)] = Newline(i)
    <3>1. PICK p \in Int, q \in Int : p = 2 * (i - b) - 1 /\ q = 2 * (i - b)
      BY <1>15
    <3>2. /\ p \in 1..(lt + lr - cut) /\ q \in 1..(lt + lr - cut)
          /\ p + cut = 2 * (i - past) - 1 /\ q + cut = 2 * (i - past) /\ i > past
      BY <1>9, <1>12, <1>15, <1>16, <2>2, <3>1
    <3>3. (kept \o rest)[p] = s[p + cut] /\ (kept \o rest)[q] = s[q + cut]
      BY <1>22, <3>2
    <3>4. s[2 * (i - past) - 1] = Part1(i) /\ s[2 * (i - past)] = Newline(i)
      BY <1>10, <3>2
    <3> QED BY <3>1, <3>2, <3>3, <3>4
  <2> QED BY <1>1, <1>20, <2>1, <2>2 DEF Lined
<1>24. ASSUME NEW p \in DOMAIN kept, kept[p].last
       PROVE  out = {} /\ b \in (past + 1)..n /\ b < kept[p].line
  <2>1. p \in 1..lk
    BY <1>21, LenProperties
  <2>2. PICK q \in 1..lt : q = p + cut
    <3>1. p + cut \in 1..lt
      BY <1>16, <1>21, <2>1
    <3> QED BY <3>1
  <2>3. kept[p] = text[q]
    <3>1. (kept \o rest)[p] = kept[p]
      <4>1. \A r \in 1..(lk + lr) : (kept \o rest)[r] = IF r <= lk THEN kept[r] ELSE rest[r - lk]
        <5>1. Joins(kept, rest)
          BY <1>4, <1>21, Joined
        <5> QED BY <1>5, <1>21, <5>1 DEF Joins
      <4>2. p \in 1..(lk + lr) /\ p <= lk
        BY <2>1
      <4> QED BY <4>1, <4>2
    <3>2. p \in 1..(lt + lr - cut)
      BY <1>16, <1>21, <2>1
    <3>3. (kept \o rest)[p] = s[q]
      BY <1>22, <2>2, <3>2
    <3> QED BY <1>8, <3>1, <3>3
  <2>4. PICK l : l = text[q].line
    OBVIOUS
  <2>5. l \in (past + 1)..c
    BY <1>5, <1>11, <1>24, <2>3, <2>4 DEF Cuts
  <2>6. l \notin (past + 1)..b
    <3>1. {r \in DOMAIN text : text[r].line \in (past + 1)..b} = 1..cut
      BY <1>11, <1>16 DEF Cuts
    <3>2. q \notin 1..cut
      BY <1>16, <2>1, <2>2
    <3>3. q \in DOMAIN text
      BY <1>4, <1>5, LenProperties
    <3> QED BY <2>4, <3>1, <3>2, <3>3
  <2>7. b < l /\ b # c
    BY <1>12, <1>13, <1>15, <2>5, <2>6
  <2>8. Bad(text) # {}
    BY <1>14, <2>7 DEF Takes
  <2>9. out = {} /\ b \in (past + 1)..c
    BY <1>14, <1>19, <2>8 DEF Takes
  <2>10. b \in (past + 1)..n
    BY <1>12, <1>13, <2>9
  <2> QED BY <2>3, <2>4, <2>7, <2>9, <2>10
<1>25. /\ out \subseteq (past + 1)..b
       /\ out = (past + 1)..b \/ (out = {} /\ b \in (past + 1)..n /\ lines[b] = "no json")
  <2>1. \A i \in (past + 1)..c : i \in (past + 1)..n
    BY <1>12, <1>13
  <2> QED BY <1>14, <1>19, <2>1 DEF Takes
<1>26. b \in past..n
  BY <1>12, <1>13, <1>15
<1>27. held' \in Seq(LinePieces) /\ coming' \in Seq(LinePieces)
  BY <1>4, <1>20, <1>21
<1>28. \A p \in DOMAIN held' : held'[p].last => out = {} /\ b \in (past + 1)..n /\ b < held'[p].line
  BY <1>20, <1>24
<1>29. Pushed(past, b, out, S)
  BY <1>1, <1>19, <1>20, <1>23, <1>25, <1>27, <1>28 DEF Pushed
<1> QED BY <1>1, <1>26, <1>29

LEMMA ListsJoin ==
    ASSUME NEW a, NEW b, IsList(a), IsList(b)
    PROVE  IsList(a \o b) /\ Len(a \o b) = Len(a) + Len(b) /\ Joins(a, b)
<1>1. PICK A : a \in Seq(A)
  BY DEF IsList
<1>2. PICK B : b \in Seq(B)
  BY DEF IsList
<1>3. PICK C : C = A \cup B
  OBVIOUS
<1>4. a \in Seq(C) /\ b \in Seq(C)
  <2>1. A \subseteq C /\ B \subseteq C
    BY <1>3
  <2> QED BY <1>1, <1>2, <2>1, SeqMonotonic
<1>5. a \o b \in Seq(C) /\ Len(a \o b) = Len(a) + Len(b)
  BY <1>4, ConcatProperties
<1> QED BY <1>4, <1>5, Joined DEF IsList

(* The answers written in a push, of which none were owed before.          *)
LEMMA PushAnswers ==
    ASSUME McpInv, NEW past \in Nat, NEW S \in SUBSET Nat, IsFiniteSet(S), \A i \in S : i > past,
           \A p \in DOMAIN responses : responses[p].to \in 1..past,
           \A p, q \in DOMAIN responses : responses[p].to = responses[q].to => p = q,
           responses' = responses \o AtOnce(S)
    PROVE  /\ IsList(responses')
           /\ \A p \in DOMAIN responses' : responses'[p].to \in (1..past) \cup S
           /\ \A p, q \in DOMAIN responses' : responses'[p].to = responses'[q].to => p = q
           /\ \A i \in S : \E p \in DOMAIN responses' : responses'[p].to = i
           /\ \A i \in 1..past : (\E p \in DOMAIN responses' : responses'[p].to = i)
                                   <=> (\E p \in DOMAIN responses : responses[p].to = i)
<1>0. PICK r : r = AtOnce(S)
  OBVIOUS
<1>1. PICK l \in Nat, m \in Nat : l = Len(responses) /\ m = Cardinality(S) /\ DOMAIN responses = 1..l
  <2>1. Len(responses) \in Nat /\ DOMAIN responses = 1..Len(responses)
    BY ListKnown DEF McpInv
  <2>2. Cardinality(S) \in Nat
    BY FS_CardinalityType
  <2> QED BY <2>1, <2>2
<1>2. /\ IsList(r) /\ Len(r) = m
      /\ \A k \in 1..m : r[k].to \in S
      /\ \A k, j \in 1..m : r[k].to = r[j].to => k = j
      /\ \A i \in S : \E k \in 1..m : r[k].to = i
  <2>1. /\ IsList(AtOnce(S)) /\ Len(AtOnce(S)) = Cardinality(S) /\ Cardinality(S) \in Nat
        /\ \A k \in 1..Cardinality(S) : AtOnce(S)[k].to \in S
        /\ \A k, j \in 1..Cardinality(S) : AtOnce(S)[k].to = AtOnce(S)[j].to => k = j
        /\ \A i \in S : \E k \in 1..Cardinality(S) : AtOnce(S)[k].to = i
    BY AtOnceAnswersEach
  <2> QED BY <1>0, <1>1, <2>1
<1>3. /\ IsList(responses') /\ DOMAIN responses' = 1..(l + m)
      /\ \A p \in 1..(l + m) : responses'[p] = IF p <= l THEN responses[p] ELSE r[p - l]
  <2>1. IsList(responses)
    BY DEF McpInv
  <2>2. IsList(responses \o r) /\ Len(responses \o r) = l + m /\ Joins(responses, r)
    BY <1>1, <1>2, <2>1, ListsJoin
  <2>3. responses' = responses \o r
    BY <1>0
  <2>4. IsList(responses') /\ Len(responses') = l + m
    BY <2>2, <2>3
  <2>5. DOMAIN responses' = 1..(l + m)
    BY <2>4, ListKnown
  <2>6. \A p \in 1..(l + m) : (responses \o r)[p] = IF p <= l THEN responses[p] ELSE r[p - l]
    BY <1>1, <1>2, <2>2 DEF Joins
  <2> QED BY <2>3, <2>4, <2>5, <2>6
<1>4. \A p \in 1..(l + m) : \/ p \in 1..l /\ responses'[p] = responses[p]
                            \/ p \notin 1..l /\ p - l \in 1..m /\ responses'[p] = r[p - l]
  <2>1. \A p \in 1..(l + m) : (p <= l /\ p \in 1..l) \/ (~(p <= l) /\ p \notin 1..l /\ p - l \in 1..m)
    OBVIOUS
  <2> QED BY <1>3, <2>1
<1>5. \A p \in 1..l : p \in 1..(l + m) /\ responses'[p] = responses[p]
  <2>1. \A p \in 1..l : p \in 1..(l + m) /\ p <= l
    OBVIOUS
  <2> QED BY <1>3, <2>1
<1>6. \A k \in 1..m : k + l \in 1..(l + m) /\ responses'[k + l] = r[k]
  <2>1. \A k \in 1..m : k + l \in 1..(l + m) /\ ~(k + l <= l) /\ (k + l) - l = k
    OBVIOUS
  <2> QED BY <1>3, <2>1
<1>7. \A i \in S : i \notin 1..past
  OBVIOUS
<1>8. \A p \in 1..l : responses[p].to \in 1..past
  BY <1>1
<1>9. \A p \in 1..(l + m) : responses'[p].to \in (1..past) \cup S
  <2> SUFFICES ASSUME NEW p \in 1..(l + m) PROVE responses'[p].to \in (1..past) \cup S
    OBVIOUS
  <2>1. CASE p \in 1..l /\ responses'[p] = responses[p]
    BY <1>8, <2>1
  <2>2. CASE p - l \in 1..m /\ responses'[p] = r[p - l]
    BY <1>2, <2>2
  <2> QED BY <1>4, <2>1, <2>2
<1>10. ASSUME NEW p \in 1..(l + m), NEW q \in 1..(l + m), responses'[p].to = responses'[q].to
       PROVE  p = q
  <2>1. CASE p \in 1..l /\ q \in 1..l
    BY <1>1, <1>5, <1>10, <2>1
  <2>2. CASE p \notin 1..l /\ q \notin 1..l
    <3>1. p - l \in 1..m /\ q - l \in 1..m /\ responses'[p] = r[p - l] /\ responses'[q] = r[q - l]
      BY <1>4, <2>2
    <3>2. p - l = q - l
      BY <1>2, <1>10, <3>1
    <3>3. \A x, y \in 1..(l + m) : x - l = y - l => x = y
      OBVIOUS
    <3> QED BY <3>2, <3>3
  <2>3. CASE p \in 1..l /\ q \notin 1..l
    <3>1. responses'[p].to \in 1..past /\ responses'[q].to \in S
      BY <1>2, <1>4, <1>5, <1>8, <2>3
    <3> QED BY <1>7, <1>10, <3>1
  <2>4. CASE p \notin 1..l /\ q \in 1..l
    <3>1. responses'[q].to \in 1..past /\ responses'[p].to \in S
      BY <1>2, <1>4, <1>5, <1>8, <2>4
    <3> QED BY <1>7, <1>10, <3>1
  <2>5. (p \in 1..l \/ p \notin 1..l) /\ (q \in 1..l \/ q \notin 1..l)
    OBVIOUS
  <2> QED BY <2>1, <2>2, <2>3, <2>4, <2>5
<1>11. ASSUME NEW i \in S PROVE \E p \in 1..(l + m) : responses'[p].to = i
  <2>1. PICK k \in 1..m : r[k].to = i
    BY <1>2
  <2> QED BY <1>6, <2>1
<1>12. ASSUME NEW i \in 1..past
       PROVE  (\E p \in 1..(l + m) : responses'[p].to = i) <=> (\E p \in 1..l : responses[p].to = i)
  <2>1. ASSUME NEW p \in 1..l, responses[p].to = i PROVE \E q \in 1..(l + m) : responses'[q].to = i
    BY <1>5, <2>1
  <2>2. ASSUME NEW p \in 1..(l + m), responses'[p].to = i PROVE \E q \in 1..l : responses[q].to = i
    <3>1. i \notin S
      BY <1>7
    <3>2. p \in 1..l /\ responses'[p] = responses[p]
      BY <1>2, <1>4, <2>2, <3>1
    <3> QED BY <2>2, <3>2
  <2> QED BY <2>1, <2>2
<1>13. PICK D, E : D = 1..l /\ E = 1..(l + m) /\ DOMAIN responses = D /\ DOMAIN responses' = E
  BY <1>1, <1>3
<1>14. /\ \A p \in E : responses'[p].to \in (1..past) \cup S
       /\ \A p, q \in E : responses'[p].to = responses'[q].to => p = q
       /\ \A i \in S : \E p \in E : responses'[p].to = i
       /\ \A i \in 1..past : (\E p \in E : responses'[p].to = i) <=> (\E p \in D : responses[p].to = i)
  <2>1. \A p \in E : responses'[p].to \in (1..past) \cup S
    BY <1>9, <1>13
  <2>2. \A p, q \in E : responses'[p].to = responses'[q].to => p = q
    BY <1>10, <1>13
  <2>3. \A i \in S : \E p \in E : responses'[p].to = i
    BY <1>11, <1>13
  <2>4. \A i \in 1..past : (\E p \in E : responses'[p].to = i) <=> (\E p \in D : responses[p].to = i)
    BY <1>12, <1>13
  <2> QED BY <2>1, <2>2, <2>3, <2>4
<1> QED BY <1>3, <1>13, <1>14

LEMMA PushStep ==
    ASSUME McpInv, NEW k \in DOMAIN coming, PushChunk(k)
    PROVE  McpInv'
<1>1. PICK past \in 0..Len(lines) : McpAt(past)
  BY DEF McpInv
<1>2. PICK n \in Nat : n = Len(lines)
  BY ListKnown DEF McpInv
<1>3. PICK b \in past..n : \E out, S : Pushed(past, b, out, S)
  BY <1>1, <1>2, PushKnown
<1>4. PICK out, S : Pushed(past, b, out, S)
  BY <1>3
<1>5. past \in Nat /\ b \in Nat /\ past <= b /\ b <= n
  BY <1>2
<1>6. /\ out \subseteq (past + 1)..b /\ S = {i \in out : lines[i] \in {"initialize", "unknown"}}
      /\ out = (past + 1)..b \/ (out = {} /\ b \in (past + 1)..n /\ lines[b] = "no json")
      /\ lines' = lines
      /\ lost' = lost \cup (((past + 1)..b) \ out)
      /\ handled' = handled \cup {i \in out : lines[i] = "call"}
      /\ responses' = responses \o AtOnce(S)
      /\ held' \in Seq(LinePieces) /\ coming' \in Seq(LinePieces) /\ Lined(held, b)'
      /\ \A p \in DOMAIN held' : held'[p].last => out = {} /\ b \in (past + 1)..n /\ b < held'[p].line
  BY <1>2, <1>4 DEF Pushed
<1>7. /\ lost \subseteq 1..past /\ handled \subseteq 1..past
      /\ \A i \in handled : lines[i] = "call" /\ i \notin lost
      /\ \A p \in DOMAIN responses : responses[p].to \in 1..past
      /\ \A p, q \in DOMAIN responses : responses[p].to = responses[q].to => p = q
      /\ \A i \in 1..past : (\E p \in DOMAIN responses : responses[p].to = i)
                              <=> (lines[i] \in Asking /\ i \notin handled \cup lost)
      /\ \A i \in lost : \E j \in i..past : lines[j] = "no json" /\ j \in lost
  BY <1>1 DEF McpAt, Fates
<1>8. /\ \A i \in (past + 1)..b : i \in Nat /\ i > past /\ i \in 1..b /\ i \notin 1..past
      /\ \A i \in 1..past : i \in 1..b /\ i \notin (past + 1)..b
      /\ \A i \in 1..b : i \in 1..past \/ i \in (past + 1)..b
  BY <1>5
<1>9. S \in SUBSET Nat /\ IsFiniteSet(S) /\ (\A i \in S : i > past) /\ \A i \in S : i \in (past + 1)..b
  <2>1. \A i \in S : i \in (past + 1)..b
    BY <1>6
  <2>2. IsFiniteSet((past + 1)..b) /\ S \in SUBSET ((past + 1)..b)
    <3>1. past + 1 \in Int /\ b \in Int
      BY <1>5
    <3> QED BY <2>1, <3>1, FS_Interval
  <2>3. IsFiniteSet(S)
    BY <2>2, FS_Subset
  <2> QED BY <1>8, <2>1, <2>3
<1>10. /\ IsList(responses')
       /\ \A p \in DOMAIN responses' : responses'[p].to \in (1..past) \cup S
       /\ \A p, q \in DOMAIN responses' : responses'[p].to = responses'[q].to => p = q
       /\ \A i \in S : \E p \in DOMAIN responses' : responses'[p].to = i
       /\ \A i \in 1..past : (\E p \in DOMAIN responses' : responses'[p].to = i)
                               <=> (\E p \in DOMAIN responses : responses[p].to = i)
  <2>1. past \in Nat /\ S \in SUBSET Nat /\ IsFiniteSet(S) /\ \A i \in S : i > past
    BY <1>5, <1>9
  <2>2. /\ \A p \in DOMAIN responses : responses[p].to \in 1..past
        /\ \A p, q \in DOMAIN responses : responses[p].to = responses[q].to => p = q
    BY <1>7
  <2>3. responses' = responses \o AtOnce(S)
    BY <1>6
  <2> QED BY <2>1, <2>2, <2>3, PushAnswers
<1>11. lost' \subseteq 1..b /\ handled' \subseteq 1..b
  BY <1>6, <1>7, <1>8
<1>12. \A i \in 1..past : (i \in lost' <=> i \in lost) /\ (i \in handled' <=> i \in handled)
  BY <1>6, <1>8
<1>13. \A i \in (past + 1)..b : (i \in lost' <=> i \notin out) /\ (i \in handled' <=> i \in out /\ lines[i] = "call")
  BY <1>6, <1>7, <1>8
<1>14. \A i \in handled' : lines[i] = "call" /\ i \notin lost'
  <2>1. ASSUME NEW i \in handled' PROVE lines[i] = "call" /\ i \notin lost'
    <3>1. CASE i \in 1..past
      BY <1>7, <1>12, <3>1
    <3>2. CASE i \in (past + 1)..b
      BY <1>13, <3>2
    <3> QED BY <1>8, <1>11, <3>1, <3>2
  <2> QED BY <2>1
<1>15. \A p \in DOMAIN responses' : responses'[p].to \in 1..b
  BY <1>8, <1>9, <1>10
<1>16. ASSUME NEW i \in 1..b
       PROVE  (\E p \in DOMAIN responses' : responses'[p].to = i) <=> (lines[i] \in Asking /\ i \notin handled' \cup lost')
  <2>1. CASE i \in 1..past
    BY <1>7, <1>10, <1>12, <2>1
  <2>2. CASE i \in (past + 1)..b
    <3>1. (\E p \in DOMAIN responses' : responses'[p].to = i) <=> i \in S
      BY <1>8, <1>10, <2>2
    <3>2. i \in S <=> (i \in out /\ lines[i] \in {"initialize", "unknown"})
      BY <1>6
    <3>3. (lines[i] \in Asking /\ i \notin handled' \cup lost') <=> (i \in out /\ lines[i] \in {"initialize", "unknown"})
      BY <1>13, <2>2 DEF Asking
    <3> QED BY <3>1, <3>2, <3>3
  <2> QED BY <1>8, <2>1, <2>2
<1>17. ASSUME NEW i \in lost' PROVE \E j \in i..b : lines[j] = "no json" /\ j \in lost'
  <2>1. CASE i \in 1..past
    <3>1. PICK j \in i..past : lines[j] = "no json" /\ j \in lost
      BY <1>7, <1>12, <2>1
    <3>2. j \in i..b
      BY <1>5, <2>1
    <3> QED BY <1>6, <3>1, <3>2
  <2>2. CASE i \in (past + 1)..b
    <3>1. out = {} /\ b \in (past + 1)..b /\ lines[b] = "no json"
      <4>1. out # (past + 1)..b
        BY <1>13, <2>2
      <4>2. b \in (past + 1)..b
        BY <1>5, <2>2
      <4> QED BY <1>6, <4>1, <4>2
    <3>2. b \in lost'
      BY <1>13, <3>1
    <3>3. b \in i..b
      BY <1>5, <2>2
    <3> QED BY <3>1, <3>2, <3>3
  <2> QED BY <1>8, <1>11, <2>1, <2>2
<1>18. ASSUME NEW p \in DOMAIN held', held'[p].last PROVE \E j \in lost' : j < held'[p].line
  <2>1. out = {} /\ b \in (past + 1)..n /\ b < held'[p].line
    BY <1>6, <1>18
  <2>2. b \in (past + 1)..b
    BY <1>5, <2>1
  <2> QED BY <1>13, <2>1, <2>2
<1>19. Fates(b)'
  BY <1>6, <1>10, <1>11, <1>14, <1>15, <1>16, <1>17, <1>18 DEF Fates
<1>20. McpAt(b)'
  BY <1>6, <1>19 DEF McpAt
<1>21. b \in 0..Len(lines') /\ IsList(lines')
  <2>1. IsList(lines)
    BY DEF McpInv
  <2>2. b \in 0..n
    BY <1>5
  <2> QED BY <1>2, <1>6, <2>1, <2>2
<1> QED BY <1>6, <1>10, <1>20, <1>21 DEF McpInv

(* What the server is past is not touched by a line that is sent.          *)
LEMMA FatesKept ==
    ASSUME NEW past \in Nat, Fates(past), \A i \in 1..past : lines'[i] = lines[i],
           held' = held, handled' = handled, responses' = responses, lost' = lost
    PROVE  Fates(past)'
<1>1. /\ lost \subseteq 1..past /\ handled \subseteq 1..past
      /\ \A i \in handled : lines[i] = "call" /\ i \notin lost
      /\ \A p \in DOMAIN responses : responses[p].to \in 1..past
      /\ \A p, q \in DOMAIN responses : responses[p].to = responses[q].to => p = q
      /\ \A i \in 1..past : (\E p \in DOMAIN responses : responses[p].to = i)
                              <=> (lines[i] \in Asking /\ i \notin handled \cup lost)
      /\ \A i \in lost : \E j \in i..past : lines[j] = "no json" /\ j \in lost
      /\ \A p \in DOMAIN held : held[p].last => \E j \in lost : j < held[p].line
  BY DEF Fates
<1>2. \A i \in handled : lines'[i] = "call" /\ i \notin lost
  BY <1>1
<1>3. \A i \in 1..past : (\E p \in DOMAIN responses : responses[p].to = i)
                              <=> (lines'[i] \in Asking /\ i \notin handled \cup lost)
  BY <1>1
<1>4. \A i \in lost : \E j \in i..past : lines'[j] = "no json" /\ j \in lost
  BY <1>1
<1> QED BY <1>1, <1>2, <1>3, <1>4 DEF Fates

LEMMA SendStep ==
    ASSUME McpInv, NEW what, SendLine(what)
    PROVE  McpInv'
<1>1. PICK past \in 0..Len(lines) : McpAt(past)
  BY DEF McpInv
<1>2. PICK n \in Nat : n = Len(lines)
  BY ListKnown DEF McpInv
<1>3. PICK F : F = <<Part1(n + 1), Newline(n + 1)>>
  OBVIOUS
<1>4. /\ F \in Seq(LinePieces) /\ Len(F) = 2 /\ F[1] = Part1(n + 1) /\ F[2] = Newline(n + 1)
  <2>1. Part1(n + 1) \in LinePieces /\ Newline(n + 1) \in LinePieces
    <3>1. n + 1 \in Nat
      OBVIOUS
    <3> QED BY <3>1 DEF Part1, Newline, LinePieces
  <2>2. \A x, y \in LinePieces : <<x, y>> \in Seq(LinePieces) /\ Len(<<x, y>>) = 2 /\ <<x, y>>[1] = x /\ <<x, y>>[2] = y
    OBVIOUS
  <2> QED BY <1>3, <2>1, <2>2
<1>5. /\ lines' = Append(lines, what) /\ coming' = coming \o F
      /\ held' = held /\ handled' = handled /\ responses' = responses /\ lost' = lost
  BY <1>2, <1>3 DEF SendLine
<1>6. IsList(lines') /\ Len(lines') = n + 1 /\ \A i \in 1..n : lines'[i] = lines[i]
  <2>1. IsList(lines)
    BY DEF McpInv
  <2> QED BY <1>2, <1>5, <2>1, ListGrows
<1>7. past \in Nat /\ past <= n
  BY <1>2
<1>8. Fates(past)'
  <2>1. Fates(past) /\ \A i \in 1..past : lines'[i] = lines[i]
    <3>1. \A i \in 1..past : i \in 1..n
      BY <1>7
    <3> QED BY <1>1, <1>6, <3>1 DEF McpAt
  <2> QED BY <1>5, <1>7, <2>1, FatesKept
<1>9. held \in Seq(LinePieces) /\ coming \in Seq(LinePieces)
  BY DEF McpInv
<1>10. PICK lh \in Nat, lc \in Nat : lh = Len(held) /\ lc = Len(coming)
  BY <1>9, LenProperties
<1>11. PICK s : s = held \o coming
  OBVIOUS
<1>12. /\ s \in Seq(LinePieces) /\ Len(s) = lh + lc
       /\ coming \o F \in Seq(LinePieces) /\ Len(coming \o F) = lc + 2
       /\ held \o (coming \o F) = s \o F
  <2>1. s \in Seq(LinePieces) /\ Len(s) = lh + lc
    BY <1>9, <1>10, <1>11, ConcatProperties
  <2>2. coming \o F \in Seq(LinePieces) /\ Len(coming \o F) = lc + 2
    <3>1. coming \o F \in Seq(LinePieces) /\ Len(coming \o F) = Len(coming) + Len(F)
      BY <1>4, <1>9, ConcatProperties
    <3>2. Len(F) = 2 /\ Len(coming) = lc
      BY <1>4, <1>10
    <3> QED BY <3>1, <3>2
  <2>3. \A x \in Seq(LinePieces), y \in Seq(LinePieces), z \in Seq(LinePieces) : (x \o y) \o z = x \o (y \o z)
    OBVIOUS
  <2>4. held \o (coming \o F) = (held \o coming) \o F
    BY <1>4, <1>9, <2>3
  <2> QED BY <1>11, <2>1, <2>2, <2>4
<1>13. lh + lc = 2 * (n - past) /\ Lined(held, past)
  BY <1>1, <1>2, <1>10 DEF McpAt, Lined
<1>14. \A i \in 1..n : i > past => s[2 * (i - past) - 1] = Part1(i) /\ s[2 * (i - past)] = Newline(i)
  BY <1>2, <1>11, <1>13 DEF Lined
<1>15. \A p \in 1..(lh + lc + 2) : (s \o F)[p] = IF p <= lh + lc THEN s[p] ELSE F[p - (lh + lc)]
  <2>1. Joins(s, F)
    BY <1>4, <1>12, Joined
  <2> QED BY <1>4, <1>12, <2>1 DEF Joins
<1>16. ASSUME NEW i \in 1..(n + 1), i > past
       PROVE  (s \o F)[2 * (i - past) - 1] = Part1(i) /\ (s \o F)[2 * (i - past)] = Newline(i)
  <2>1. PICK p \in Int, q \in Int : p = 2 * (i - past) - 1 /\ q = 2 * (i - past)
    BY <1>7
  <2>2. ASSUME i \in 1..n PROVE (s \o F)[p] = Part1(i) /\ (s \o F)[q] = Newline(i)
    <3>1. p \in 1..(lh + lc + 2) /\ q \in 1..(lh + lc + 2) /\ p <= lh + lc /\ q <= lh + lc
      BY <1>7, <1>13, <1>16, <2>1, <2>2
    <3>2. (s \o F)[p] = s[p] /\ (s \o F)[q] = s[q]
      BY <1>15, <3>1
    <3>3. s[p] = Part1(i) /\ s[q] = Newline(i)
      BY <1>14, <1>16, <2>1, <2>2
    <3> QED BY <3>2, <3>3
  <2>3. ASSUME i = n + 1 PROVE (s \o F)[p] = Part1(i) /\ (s \o F)[q] = Newline(i)
    <3>1. /\ p \in 1..(lh + lc + 2) /\ q \in 1..(lh + lc + 2) /\ ~(p <= lh + lc) /\ ~(q <= lh + lc)
          /\ p - (lh + lc) = 1 /\ q - (lh + lc) = 2
      BY <1>7, <1>13, <1>16, <2>1, <2>3
    <3>2. (s \o F)[p] = F[1] /\ (s \o F)[q] = F[2]
      BY <1>15, <3>1
    <3> QED BY <1>4, <2>3, <3>2
  <2>4. i \in 1..n \/ i = n + 1
    OBVIOUS
  <2>5. (s \o F)[p] = Part1(i) /\ (s \o F)[q] = Newline(i)
    BY <2>2, <2>3, <2>4
  <2> QED BY <2>1, <2>5
<1>17. Lined(held, past)'
  <2>1. Len(held') + Len(coming') = 2 * (Len(lines') - past)
    <3>1. lh + (lc + 2) = 2 * ((n + 1) - past)
      BY <1>7, <1>13
    <3> QED BY <1>5, <1>6, <1>10, <1>12, <3>1
  <2>2. held' \o coming' = s \o F
    BY <1>5, <1>12
  <2> QED BY <1>6, <1>16, <2>1, <2>2 DEF Lined
<1>18. McpAt(past)'
  BY <1>8, <1>17 DEF McpAt
<1>19. past \in 0..Len(lines') /\ coming' \in Seq(LinePieces) /\ IsList(responses')
  <2>1. past \in 0..(n + 1)
    BY <1>7
  <2> QED BY <1>5, <1>6, <1>12, <2>1 DEF McpInv
<1> QED BY <1>5, <1>6, <1>9, <1>18, <1>19 DEF McpInv

LEMMA EndsStep ==
    ASSUME McpInv, NEW i \in handled, NEW how, HandlerEnds(i, how)
    PROVE  McpInv'
<1>1. PICK past \in 0..Len(lines) : McpAt(past)
  BY DEF McpInv
<1>2. past \in Nat
  BY ListKnown DEF McpInv
<1>3. PICK e : e = [to |-> i, how |-> how]
  OBVIOUS
<1>4. e.to = i
  BY <1>3
<1>5. /\ handled' = handled \ {i} /\ responses' = Append(responses, e)
      /\ lines' = lines /\ coming' = coming /\ held' = held /\ lost' = lost
  BY <1>3 DEF HandlerEnds
<1>6. PICK l \in Nat : l = Len(responses) /\ DOMAIN responses = 1..l
  BY ListKnown DEF McpInv
<1>7. /\ IsList(responses') /\ DOMAIN responses' = 1..(l + 1)
      /\ \A p \in 1..l : responses'[p] = responses[p]
      /\ responses'[l + 1] = e
  <2>1. IsList(responses)
    BY DEF McpInv
  <2>2. IsList(responses') /\ Len(responses') = l + 1
    BY <1>5, <1>6, <2>1, ListGrows
  <2>3. DOMAIN responses' = 1..(l + 1)
    BY <2>2, ListKnown
  <2>4. (\A p \in 1..l : responses'[p] = responses[p]) /\ responses'[l + 1] = e
    BY <1>5, <1>6, <2>1, ListGrows
  <2> QED BY <2>2, <2>3, <2>4
<1>8. /\ lost \subseteq 1..past /\ handled \subseteq 1..past
      /\ \A j \in handled : lines[j] = "call" /\ j \notin lost
      /\ \A p \in 1..l : responses[p].to \in 1..past
      /\ \A p, q \in 1..l : responses[p].to = responses[q].to => p = q
      /\ \A j \in 1..past : (\E p \in 1..l : responses[p].to = j)
                              <=> (lines[j] \in Asking /\ j \notin handled \cup lost)
      /\ \A j \in lost : \E m \in j..past : lines[m] = "no json" /\ m \in lost
      /\ \A p \in DOMAIN held : held[p].last => \E j \in lost : j < held[p].line
  BY <1>1, <1>6 DEF McpAt, Fates
<1>9. \A p \in 1..l : responses[p].to # i
  BY <1>8
<1>10. \A p \in 1..(l + 1) : (p \in 1..l /\ responses'[p].to = responses[p].to) \/ (p = l + 1 /\ responses'[p].to = i)
  <2>1. \A p \in 1..(l + 1) : p \in 1..l \/ p = l + 1
    OBVIOUS
  <2> QED BY <1>4, <1>7, <2>1
<1>11. \A p \in 1..(l + 1) : responses'[p].to \in 1..past
  BY <1>8, <1>10
<1>12. ASSUME NEW p \in 1..(l + 1), NEW q \in 1..(l + 1), responses'[p].to = responses'[q].to
       PROVE  p = q
  <2>1. CASE p \in 1..l /\ q \in 1..l
    <3>1. responses[p].to = responses[q].to
      BY <1>7, <1>12, <2>1
    <3> QED BY <1>8, <2>1, <3>1
  <2>2. CASE p = l + 1 /\ q = l + 1
    BY <2>2
  <2>3. CASE p \in 1..l /\ q = l + 1
    BY <1>4, <1>7, <1>9, <1>12, <2>3
  <2>4. CASE p = l + 1 /\ q \in 1..l
    BY <1>4, <1>7, <1>9, <1>12, <2>4
  <2> QED BY <1>10, <2>1, <2>2, <2>3, <2>4
<1>13. ASSUME NEW j \in 1..past
       PROVE  (\E p \in 1..(l + 1) : responses'[p].to = j) <=> (lines[j] \in Asking /\ j \notin handled' \cup lost)
  <2>1. CASE j = i
    <3>1. l + 1 \in 1..(l + 1) /\ responses'[l + 1].to = i
      BY <1>4, <1>7
    <3>2. lines[i] \in Asking /\ i \notin handled' \cup lost
      BY <1>5, <1>8 DEF Asking
    <3> QED BY <2>1, <3>1, <3>2
  <2>2. CASE j # i
    <3>1. (\E p \in 1..(l + 1) : responses'[p].to = j) <=> (\E p \in 1..l : responses[p].to = j)
      <4>1. \A p \in 1..l : p \in 1..(l + 1)
        OBVIOUS
      <4> QED BY <1>7, <1>10, <2>2, <4>1
    <3>2. j \in handled' <=> j \in handled
      BY <1>5, <2>2
    <3> QED BY <1>8, <3>1, <3>2
  <2> QED BY <2>1, <2>2
<1>14. handled' \subseteq 1..past /\ \A j \in handled' : lines[j] = "call" /\ j \notin lost
  BY <1>5, <1>8
<1>15. PICK E : E = 1..(l + 1) /\ DOMAIN responses' = E
  BY <1>7
<1>16. /\ \A p \in E : responses'[p].to \in 1..past
       /\ \A p, q \in E : responses'[p].to = responses'[q].to => p = q
       /\ \A j \in 1..past : (\E p \in E : responses'[p].to = j) <=> (lines[j] \in Asking /\ j \notin handled' \cup lost)
  <2>1. \A p \in E : responses'[p].to \in 1..past
    BY <1>11, <1>15
  <2>2. \A p, q \in E : responses'[p].to = responses'[q].to => p = q
    BY <1>12, <1>15
  <2>3. \A j \in 1..past : (\E p \in E : responses'[p].to = j) <=> (lines[j] \in Asking /\ j \notin handled' \cup lost)
    BY <1>13, <1>15, Zenon
  <2> QED BY <2>1, <2>2, <2>3
<1>17. Fates(past)'
  BY <1>5, <1>8, <1>14, <1>15, <1>16 DEF Fates
<1>18. Lined(held, past)'
  BY <1>1, <1>5 DEF McpAt, Lined
<1>19. McpAt(past)'
  BY <1>17, <1>18 DEF McpAt
<1> QED BY <1>5, <1>7, <1>19 DEF McpInv

LEMMA McpStarts ==
    ASSUME McpInit
    PROVE  McpInv
<1>1. << >> \in Seq({}) /\ Len(<< >>) = 0 /\ DOMAIN << >> = {}
  OBVIOUS
<1>2. /\ IsList(lines) /\ IsList(responses) /\ held \in Seq(LinePieces) /\ coming \in Seq(LinePieces)
      /\ Len(lines) = 0 /\ Len(held) = 0 /\ Len(coming) = 0 /\ DOMAIN held = {} /\ DOMAIN responses = {}
      /\ handled = {} /\ lost = {}
  BY <1>1 DEF McpInit, IsList
<1>3. \A i \in 1..0 : FALSE
  OBVIOUS
<1>4. Lined(held, 0)
  BY <1>2, <1>3 DEF Lined
<1>5. Fates(0)
  BY <1>2, <1>3 DEF Fates
<1>6. 0 \in 0..Len(lines)
  BY <1>2
<1> QED BY <1>2, <1>4, <1>5, <1>6 DEF McpInv, McpAt

LEMMA McpKept ==
    ASSUME McpInv, [McpNext]_mcpVars
    PROVE  McpInv'
<1>1. ASSUME UNCHANGED mcpVars PROVE McpInv'
  <2>1. /\ lines' = lines /\ coming' = coming /\ held' = held
        /\ handled' = handled /\ responses' = responses /\ lost' = lost
    BY <1>1 DEF mcpVars
  <2>2. PICK past \in 0..Len(lines) : McpAt(past)
    BY DEF McpInv
  <2>3. past \in Nat
    BY ListKnown DEF McpInv
  <2>4. Fates(past)'
    BY <2>1, <2>2, <2>3, FatesKept DEF McpAt
  <2>5. Lined(held, past)'
    BY <2>1, <2>2 DEF McpAt, Lined
  <2>6. McpAt(past)'
    BY <2>4, <2>5 DEF McpAt
  <2> QED BY <2>1, <2>6 DEF McpInv
<1> QED BY <1>1, SendStep, PushStep, EndsStep DEF McpNext

LEMMA McpHolds == McpSpec => []McpInv
<1>1. McpInit => McpInv
  BY McpStarts
<1>2. McpInv /\ [McpNext]_mcpVars => McpInv'
  BY McpKept
<1> QED BY <1>1, <1>2, PTL DEF McpSpec

LEMMA OnceThen ==
    ASSUME McpInv
    PROVE  EachAnsweredOnce
<1>1. PICK past \in 0..Len(lines) : McpAt(past)
  BY DEF McpInv
<1>2. PICK n \in Nat : n = Len(lines) /\ DOMAIN lines = 1..n
  BY ListKnown DEF McpInv
<1>3. PICK l \in Nat : DOMAIN responses = 1..l
  BY ListKnown DEF McpInv
<1>4. held \in Seq(LinePieces) /\ coming \in Seq(LinePieces)
  BY DEF McpInv
<1>5. PICK lh \in Nat, lc \in Nat : lh = Len(held) /\ lc = Len(coming) /\ DOMAIN held = 1..lh /\ DOMAIN coming = 1..lc
  BY <1>4, LenProperties
<1>6. PICK s : s = held \o coming
  OBVIOUS
<1>7. past \in Nat /\ past <= n
  BY <1>2
<1>8. Streamed(s, past, n) /\ lh + lc = 2 * (n - past)
  <2>1. Lined(held, past) /\ Len(s) = lh + lc
    BY <1>1, <1>4, <1>5, <1>6, ConcatProperties DEF McpAt
  <2>2. lh + lc = 2 * (n - past)
    BY <1>2, <1>5, <2>1 DEF Lined
  <2>3. \A i \in 1..n : i > past => s[2 * (i - past) - 1] = Part1(i) /\ s[2 * (i - past)] = Newline(i)
    BY <1>2, <1>6, <2>1 DEF Lined
  <2> QED BY <2>1, <2>2, <2>3 DEF Streamed
<1>9. /\ \A p \in 1..lh : p \in 1..(lh + lc) /\ s[p] = held[p]
      /\ \A p \in 1..lc : p + lh \in 1..(lh + lc) /\ s[p + lh] = coming[p]
      /\ \A p \in 1..(lh + lc) : (s[p] = held[p] /\ p \in 1..lh) \/ (s[p] = coming[p - lh] /\ p - lh \in 1..lc)
  <2>1. \A p \in 1..(lh + lc) : s[p] = IF p <= lh THEN held[p] ELSE coming[p - lh]
    <3>1. Joins(held, coming)
      BY <1>4, Joined
    <3> QED BY <1>5, <1>6, <3>1 DEF Joins
  <2>2. \A p \in 1..lh : p \in 1..(lh + lc) /\ p <= lh
    OBVIOUS
  <2>3. \A p \in 1..lc : p + lh \in 1..(lh + lc) /\ ~(p + lh <= lh) /\ (p + lh) - lh = p
    OBVIOUS
  <2>4. \A p \in 1..(lh + lc) : (p <= lh /\ p \in 1..lh) \/ (~(p <= lh) /\ p - lh \in 1..lc)
    OBVIOUS
  <2>5. \A p \in 1..lc : s[p + lh] = coming[p]
    BY <2>1, <2>3
  <2>6. \A p \in 1..lh : s[p] = held[p]
    BY <2>1, <2>2
  <2>7. \A p \in 1..(lh + lc) : (s[p] = held[p] /\ p \in 1..lh) \/ (s[p] = coming[p - lh] /\ p - lh \in 1..lc)
    BY <2>1, <2>4
  <2> QED BY <2>2, <2>3, <2>5, <2>6, <2>7
<1>10. \A p \in 1..(lh + lc) : s[p].line \in (past + 1)..n
  <2>1. past \in 0..n
    BY <1>7
  <2>2. \A p \in 1..(2 * (n - past)) : s[p].line \in (past + 1)..n
    <3>1. SUFFICES ASSUME NEW p \in 1..(2 * (n - past)) PROVE s[p].line \in (past + 1)..n
      OBVIOUS
    <3>2. PICK i \in (past + 1)..n : /\ s[p].line = i
                                      /\ \/ p = 2 * (i - past) - 1 /\ s[p].last = FALSE
                                         \/ p = 2 * (i - past) /\ s[p].last = TRUE
      <4>1. Streamed(s, past, n)
        BY <1>8
      <4> QED BY <2>1, <3>1, <4>1, PlaceKnown
    <3> QED BY <3>2
  <2> QED BY <1>8, <2>2
<1>11. /\ lost \subseteq 1..past /\ handled \subseteq 1..past
       /\ \A p \in 1..l : responses[p].to \in 1..past
       /\ \A p, q \in 1..l : responses[p].to = responses[q].to => p = q
       /\ \A i \in 1..past : (\E p \in 1..l : responses[p].to = i)
                               <=> (lines[i] \in Asking /\ i \notin handled \cup lost)
       /\ \A i \in lost : \E j \in i..past : lines[j] = "no json" /\ j \in lost
       /\ \A p \in 1..lh : held[p].last => \E j \in lost : j < held[p].line
  BY <1>1, <1>3, <1>5 DEF McpAt, Fates
<1>12. ASSUME NEW i \in 1..n
       PROVE  Waits(coming, i) \/ Waits(held, i) <=> i > past
  <2>1. ASSUME NEW p \in 1..lh, held[p].line = i PROVE i > past
    <3>1. i \in (past + 1)..n
      BY <1>9, <1>10, <2>1
    <3> QED BY <1>7, <3>1
  <2>2. ASSUME NEW p \in 1..lc, coming[p].line = i PROVE i > past
    <3>1. i \in (past + 1)..n
      BY <1>9, <1>10, <2>2
    <3> QED BY <1>7, <3>1
  <2>3. ASSUME i > past PROVE Waits(coming, i) \/ Waits(held, i)
    <3>1. PICK p \in 1..(lh + lc) : p = 2 * (i - past)
      <4>1. 2 * (i - past) \in 1..(lh + lc)
        BY <1>7, <1>8, <2>3
      <4> QED BY <4>1
    <3>2. s[p] = Newline(i)
      BY <2>3, <1>8, <3>1 DEF Streamed
    <3>3. s[p].line = i
      BY <3>2, PieceKnown
    <3>4. (held[p].line = i /\ p \in 1..lh) \/ (coming[p - lh].line = i /\ p - lh \in 1..lc)
      BY <1>9, <3>3
    <3> QED BY <1>5, <3>4 DEF Waits
  <2>4. (Waits(coming, i) => \E p \in 1..lc : coming[p].line = i) /\ (Waits(held, i) => \E p \in 1..lh : held[p].line = i)
    BY <1>5 DEF Waits
  <2> QED BY <2>1, <2>2, <2>3, <2>4
<1>13. ASSUME NEW i \in 1..n
       PROVE  Answers(i) = IF /\ lines[i] \in Asking /\ i \notin handled \cup lost
                              /\ ~Waits(coming, i) /\ ~Waits(held, i) THEN 1 ELSE 0
  <2>1. PICK A : A = {p \in 1..l : responses[p].to = i}
    OBVIOUS
  <2>2. Answers(i) = Cardinality(A)
    BY <1>3, <2>1 DEF Answers
  <2>3. ASSUME NEW p \in 1..l, responses[p].to = i PROVE Cardinality(A) = 1
    <3>1. A = {p}
      BY <1>11, <2>1, <2>3
    <3> QED BY <3>1, FS_Singleton
  <2>4. ASSUME ~\E p \in 1..l : responses[p].to = i PROVE Cardinality(A) = 0
    <3>1. A = {}
      BY <2>1, <2>4
    <3> QED BY <3>1, FS_EmptySet
  <2>5. CASE i > past
    <3>1. i \notin 1..past
      BY <1>7, <2>5
    <3>2. ~\E p \in 1..l : responses[p].to = i
      BY <1>11, <3>1
    <3> QED BY <1>12, <2>2, <2>4, <2>5, <3>2
  <2>6. CASE ~(i > past)
    <3>1. i \in 1..past
      BY <1>7, <2>6
    <3>2. (\E p \in 1..l : responses[p].to = i) <=> (lines[i] \in Asking /\ i \notin handled \cup lost)
      BY <1>11, <3>1
    <3>3. ~Waits(coming, i) /\ ~Waits(held, i)
      BY <1>12, <2>6
    <3>4. CASE \E p \in 1..l : responses[p].to = i
      BY <2>2, <2>3, <3>2, <3>3, <3>4
    <3>5. CASE ~\E p \in 1..l : responses[p].to = i
      BY <2>2, <2>4, <3>2, <3>5
    <3> QED BY <3>4, <3>5
  <2> QED BY <2>5, <2>6
<1>14. ASSUME NEW i \in 1..n, i \in lost PROVE \E j \in i..n : lines[j] = "no json" /\ j \in lost
  <2>1. PICK j \in i..past : lines[j] = "no json" /\ j \in lost
    BY <1>11, <1>14
  <2>2. j \in i..n
    BY <1>7
  <2> QED BY <2>1, <2>2
<1>15. ASSUME NEW i \in 1..n, Newline(i) \in {held[p] : p \in DOMAIN held} PROVE \E j \in lost : j < i
  <2>1. PICK p \in 1..lh : held[p] = Newline(i)
    BY <1>5, <1>15
  <2>2. held[p].last = TRUE /\ held[p].line = i
    BY <2>1, PieceKnown
  <2> QED BY <1>11, <2>2
<1> QED BY <1>2, <1>13, <1>14, <1>15 DEF EachAnsweredOnce

(* However lines are cut and handlers end, a request is answered once, or  *)
(* waits, or is lost with a line that is no JSON behind it (push,          *)
(* handleMessage).                                                         *)
THEOREM EveryRequestOnce == McpSpec => []EachAnsweredOnce
BY McpHolds, OnceThen, PTL

-----------------------------------------------------------------------------
(* Running scripts.                                                        *)

(* The walk over a script's tree.  The first walk that could not be made   *)
(* would go one further than one that can.                                 *)
WalkTo(u, m, h) ==
    h = [n \in 0..m |-> IF n = 0 THEN [done |-> {}, next |-> {u}]
                        ELSE Onwards(h[n - 1])]

LEMMA WalksExist == ASSUME NEW u, NEW n \in Nat PROVE \E h : WalkTo(u, n, h)
<1> DEFINE first == [done |-> {}, next |-> {u}]
           T == {k \in Nat : ~\E h : WalkTo(u, k, h)}
<1> SUFFICES ASSUME T # {} PROVE FALSE
  OBVIOUS
<1>1. PICK m \in T : \A k \in T : m <= k
  BY LeastOf
<1>2. m # 0
  <2> DEFINE h == [i \in 0..0 |-> first]
  <2>1. h = [i \in 0..0 |-> IF i = 0 THEN first ELSE Onwards(h[i - 1])]
    OBVIOUS
  <2> QED BY <2>1 DEF WalkTo
<1>3. m - 1 \in Nat /\ m - 1 \notin T
  BY <1>1, <1>2
<1>4. PICK g : WalkTo(u, m - 1, g)
  BY <1>3
<1> DEFINE h == [i \in 0..m |-> IF i = m THEN Onwards(g[m - 1]) ELSE g[i]]
<1>5. \A i \in 0..m : i # 0 => h[i - 1] = g[i - 1]
  BY <1>3
<1>6. \A i \in 0..m : h[i] = IF i = 0 THEN first ELSE Onwards(h[i - 1])
  <2>1. \A i \in 0..(m - 1) : g[i] = IF i = 0 THEN first ELSE Onwards(g[i - 1])
    BY <1>3, <1>4 DEF WalkTo
  <2> SUFFICES ASSUME NEW i \in 0..m PROVE h[i] = IF i = 0 THEN first ELSE Onwards(h[i - 1])
    OBVIOUS
  <2>2. CASE i = m
    BY <1>2, <1>5, <2>2
  <2>3. CASE i # m
    <3>1. i \in 0..(m - 1)
      BY <1>3, <2>3
    <3> QED BY <1>5, <2>1, <2>3, <3>1
  <2> QED BY <2>2, <2>3
<1>7. WalkTo(u, m, h)
  BY <1>6 DEF WalkTo
<1> QED BY <1>7

(* What has been visited includes all that it visits, when nothing is left *)
(* to visit.                                                               *)
Closed(W) == \A v \in W : Visits(v) \subseteq W /\ Sober(v)

LEMMA WalkCloses ==
    ASSUME NEW u, WalkEnds(u)
    PROVE  /\ u \in Reach(u)
           /\ \A v \in Reach(u) : Visits(v) \subseteq Reach(u)
<1> DEFINE first == [done |-> {}, next |-> {u}]
<1>0. MaxTree \in Nat
  BY PreviewAssumption
<1>1. PICK h : WalkTo(u, MaxTree, h) /\ Walk(u) = h[MaxTree]
  <2>1. \E h : WalkTo(u, MaxTree, h)
    BY <1>0, WalksExist
  <2>2. WalkTo(u, MaxTree, CHOOSE h : WalkTo(u, MaxTree, h))
    BY <2>1
  <2> QED BY <2>2 DEF WalkTo, Walk
<1>2. h[0] = first /\ \A n \in 1..MaxTree : h[n] = Onwards(h[n - 1])
  <2>1. \A n \in 0..MaxTree : h[n] = IF n = 0 THEN first ELSE Onwards(h[n - 1])
    BY <1>1 DEF WalkTo
  <2>2. 0 \in 0..MaxTree /\ \A n \in 1..MaxTree : n \in 0..MaxTree /\ n # 0
    BY <1>0
  <2> HIDE DEF first
  <2> QED BY <2>1, <2>2
<1> DEFINE known(n) == h[n].done \cup h[n].next
           Walked(n) == /\ u \in known(n)
                      /\ \A v \in h[n].done : Visits(v) \subseteq known(n)
           T == {n \in 0..MaxTree : ~Walked(n)}
<1>3. T = {}
  <2> SUFFICES ASSUME T # {} PROVE FALSE
    OBVIOUS
  <2>1. PICK m \in T : \A k \in T : m <= k
    <3>1. T \in SUBSET Nat
      OBVIOUS
    <3> HIDE DEF T
    <3> QED BY <3>1, LeastOf
  <2>2. Walked(0)
    BY <1>2
  <2>3. m \in 1..MaxTree /\ m - 1 \in 0..MaxTree /\ m - 1 \notin T
    BY <1>0, <2>1, <2>2
  <2>4. Walked(m - 1)
    BY <2>3
  <2>5. h[m].done = known(m - 1) /\ h[m].next = UNION {Visits(v) : v \in h[m - 1].next}
    <3>1. h[m] = Onwards(h[m - 1])
      BY <1>2, <2>3
    <3>2. h[m] = [done |-> h[m - 1].done \cup h[m - 1].next, next |-> UNION {Visits(v) : v \in h[m - 1].next}]
      BY <3>1 DEF Onwards
    <3> QED BY <3>2
  <2>6. Walked(m)
    BY <2>4, <2>5
  <2> QED BY <2>1, <2>6
<1>4. Walked(MaxTree)
  BY <1>0, <1>3
<1> QED BY <1>1, <1>4 DEF Reach, WalkEnds

(* Names.  A name is the script's own where a scope around binds it to     *)
(* anything but a capability, and pending where one of these scopes has    *)
(* yet to declare it.                                                      *)
OwnAt(s, n) == n \in DOMAIN s.vars /\ s.vars[n][1] # "capability"
Own(sc, at, n) == \E j \in sc[at].around : OwnAt(sc[j], n)
Pending(sc, S, n) == \E j \in S : n \in sc[j].due
Covered(sc, V, at, S) == \A n \in V : Own(sc, at, n) \/ Pending(sc, S, n)

(* Values.  A closure's parts have been visited with the names that are    *)
(* its own, or pending, where it was made.                                 *)
MadeOf(W, sc, v) ==
    /\ v[4] \in 1..Len(sc) /\ SoberParams(v[2])
    /\ \E F : Deferred(v[2], v[3], F) \subseteq W /\ Covered(sc, F, v[4], sc[v[4]].around)
GoodValue(W, sc, v) ==
    /\ v # Missing /\ v[1] # "capability"
    /\ v[1] = "core" => v[2] \in Core
    /\ v[1] = "closure" => MadeOf(W, sc, v)
GoodBinding(W, sc, k, n, v) ==
    \/ k = 1 /\ n \in Capability /\ v = <<"capability", n>>
    \/ GoodValue(W, sc, v)
GoodScope(W, sc, k, s) ==
    /\ s = [vars |-> s.vars, around |-> s.around, outside |-> s.outside, due |-> s.due]
    /\ s.around \subseteq 1..k /\ k \in s.around /\ s.outside \subseteq s.around
    /\ \A n \in DOMAIN s.vars : GoodBinding(W, sc, k, n, s.vars[n])
GoodScopes(W, sc) == IsList(sc) /\ \A k \in 1..Len(sc) : GoodScope(W, sc, k, sc[k])

(* What scopes become as the script runs on: nothing is lost but what was  *)
(* pending and is now bound.                                               *)
LaterAt(s, t) ==
    /\ t.around = s.around /\ t.outside = s.outside
    /\ \A n : OwnAt(s, n) => OwnAt(t, n)
    /\ \A n \in s.due : n \in t.due \/ OwnAt(t, n)
Later(sc, sd) == Len(sd) \in Nat /\ Len(sc) <= Len(sd) /\ \A k \in 1..Len(sc) : LaterAt(sc[k], sd[k])

LEMMA CoveredLater ==
    ASSUME NEW W, NEW sc, NEW sd, GoodScopes(W, sc), Later(sc, sd),
           NEW at \in 1..Len(sc), NEW S, S \subseteq sc[at].around, NEW V, Covered(sc, V, at, S)
    PROVE  Covered(sd, V, at, S)
<1>0. Len(sc) \in Nat
  BY ListKnown DEF GoodScopes
<1>1. \A j \in sc[at].around : j \in 1..Len(sc) /\ LaterAt(sc[j], sd[j])
  <2>1. sc[at].around \subseteq 1..at
    BY DEF GoodScopes, GoodScope
  <2> QED BY <1>0, <2>1 DEF Later
<1>2. sd[at].around = sc[at].around
  BY DEF Later, LaterAt
<1> SUFFICES ASSUME NEW n \in V PROVE Own(sd, at, n) \/ Pending(sd, S, n)
  BY DEF Covered
<1>3. CASE Own(sc, at, n)
  BY <1>1, <1>2, <1>3 DEF Own, LaterAt
<1>4. CASE Pending(sc, S, n)
  <2>1. PICK j \in S : n \in sc[j].due
    BY <1>4 DEF Pending
  <2>2. n \in sd[j].due \/ OwnAt(sd[j], n)
    BY <1>1, <2>1 DEF LaterAt
  <2> QED BY <1>2, <2>1, <2>2 DEF Own, Pending
<1> QED BY <1>3, <1>4 DEF Covered

LEMMA MadeLater ==
    ASSUME NEW W, NEW sc, NEW sd, GoodScopes(W, sc), Later(sc, sd), NEW v, MadeOf(W, sc, v)
    PROVE  MadeOf(W, sd, v)
<1>1. PICK F : Deferred(v[2], v[3], F) \subseteq W /\ Covered(sc, F, v[4], sc[v[4]].around)
  BY DEF MadeOf
<1>2. v[4] \in 1..Len(sc) /\ v[4] \in 1..Len(sd) /\ sd[v[4]].around = sc[v[4]].around
  <2>1. Len(sc) \in Nat
    BY ListKnown DEF GoodScopes
  <2> QED BY <2>1 DEF MadeOf, Later, LaterAt
<1>3. Covered(sd, F, v[4], sc[v[4]].around)
  BY <1>1, <1>2, CoveredLater
<1> QED BY <1>1, <1>2, <1>3 DEF MadeOf

LEMMA GoodLater ==
    ASSUME NEW W, NEW sc, NEW sd, GoodScopes(W, sc), Later(sc, sd), NEW v, GoodValue(W, sc, v)
    PROVE  GoodValue(W, sd, v)
  BY MadeLater DEF GoodValue

LEMMA LaterItself ==
    ASSUME NEW W, NEW sc, GoodScopes(W, sc)
    PROVE  Later(sc, sc)
  BY ListKnown DEF Later, LaterAt, GoodScopes

(* A scope changes, or one is added.                                       *)
LEMMA ScopeChanges ==
    ASSUME NEW W, NEW sc, GoodScopes(W, sc), NEW at \in 1..Len(sc), NEW vars, NEW due,
           NEW sd, IsList(sd), Len(sd) = Len(sc), \A j \in 1..Len(sc) : j # at => sd[j] = sc[j],
           sd[at] = [vars |-> vars, around |-> sc[at].around, outside |-> sc[at].outside, due |-> due],
           \A n \in DOMAIN vars : GoodValue(W, sc, vars[n]) \/ (n \in DOMAIN sc[at].vars /\ vars[n] = sc[at].vars[n]),
           \A n \in DOMAIN sc[at].vars :
              n \in DOMAIN vars /\ (vars[n] = sc[at].vars[n] \/ GoodValue(W, sc, vars[n])),
           \A n \in sc[at].due : n \in due \/ (n \in DOMAIN vars /\ GoodValue(W, sc, vars[n]))
    PROVE  GoodScopes(W, sd) /\ Later(sc, sd)
<1>0. Len(sc) \in Nat
  BY ListKnown DEF GoodScopes
<1>1. LaterAt(sc[at], sd[at])
  <2>1. \A n : OwnAt(sc[at], n) => OwnAt(sd[at], n)
    BY DEF OwnAt, GoodValue
  <2>2. \A n \in sc[at].due : n \in sd[at].due \/ OwnAt(sd[at], n)
    BY DEF OwnAt, GoodValue
  <2> QED BY <2>1, <2>2 DEF LaterAt
<1>2. Later(sc, sd)
  <2>1. \A k \in 1..Len(sc) : LaterAt(sc[k], sc[k])
    BY DEF LaterAt
  <2> QED BY <1>0, <1>1, <2>1 DEF Later
<1>3. ASSUME NEW k \in 1..Len(sd) PROVE GoodScope(W, sd, k, sd[k])
  <2>1. GoodScope(W, sc, k, sc[k])
    BY <1>3 DEF GoodScopes
  <2>2. CASE k # at
    <3>1. \A n \in DOMAIN sc[k].vars : GoodBinding(W, sd, k, n, sc[k].vars[n])
      BY <1>2, <2>1, GoodLater DEF GoodScope, GoodBinding
    <3> QED BY <2>1, <2>2, <3>1 DEF GoodScope
  <2>3. CASE k = at
    <3>1. ASSUME NEW n \in DOMAIN vars PROVE GoodBinding(W, sd, k, n, vars[n])
      <4>1. CASE GoodValue(W, sc, vars[n])
        BY <1>2, <4>1, GoodLater DEF GoodBinding
      <4>2. CASE n \in DOMAIN sc[at].vars /\ vars[n] = sc[at].vars[n]
        BY <1>2, <2>1, <2>3, <4>2, GoodLater DEF GoodScope, GoodBinding
      <4> QED BY <3>1, <4>1, <4>2
    <3>2. sd[k].vars = vars /\ sd[k].around = sc[k].around /\ sd[k].outside = sc[k].outside /\ sd[k].due = due
      BY <2>3
    <3>3. sd[k] = [vars |-> sd[k].vars, around |-> sd[k].around, outside |-> sd[k].outside, due |-> sd[k].due]
      BY <2>3, <3>2
    <3> QED BY <2>1, <3>1, <3>2, <3>3 DEF GoodScope
  <2> QED BY <2>2, <2>3
<1> QED BY <1>2, <1>3 DEF GoodScopes

LEMMA ScopeBinds ==
    ASSUME NEW W, NEW sc, GoodScopes(W, sc), NEW at \in 1..Len(sc), NEW more,
           \A n \in DOMAIN more : GoodValue(W, sc, more[n])
    PROVE  /\ GoodScopes(W, Bind(sc, at, more)) /\ Later(sc, Bind(sc, at, more))
           /\ \A n \in DOMAIN more : OwnAt(Bind(sc, at, more)[at], n)
<1> DEFINE sd == Bind(sc, at, more)
           vars == Extended(sc[at].vars, more)
           due == sc[at].due \ DOMAIN more
<1>1. IsList(sc) /\ Len(sc) \in Nat /\ DOMAIN sc = 1..Len(sc)
  BY ListKnown DEF GoodScopes
<1>2. /\ sd = [sc EXCEPT ![at] = [[sc[at] EXCEPT !.vars = vars] EXCEPT !.due = due]]
      /\ sc[at] = [vars |-> sc[at].vars, around |-> sc[at].around, outside |-> sc[at].outside, due |-> sc[at].due]
  <2>1. GoodScope(W, sc, at, sc[at])
    BY DEF GoodScopes
  <2>2. sc[at] = [vars |-> sc[at].vars, around |-> sc[at].around, outside |-> sc[at].outside, due |-> sc[at].due]
    BY <2>1 DEF GoodScope
  <2>3. sd = [[sc EXCEPT ![at].vars = vars] EXCEPT ![at].due = due]
    BY <1>1, <2>2 DEF Bind
  <2> QED BY <1>1, <2>2, <2>3
<1>3. sd[at] = [vars |-> vars, around |-> sc[at].around, outside |-> sc[at].outside, due |-> due]
  BY <1>1, <1>2
<1>4. \A j \in 1..Len(sc) : j # at => sd[j] = sc[j]
  BY <1>1, <1>2
<1>5. IsList(sd) /\ Len(sd) = Len(sc)
  <2>1. PICK S : sc \in Seq(S)
    BY <1>1 DEF IsList
  <2>2. sd \in Seq(S \cup {sd[at]}) /\ Len(sd) = Len(sc)
    <3>1. sd = [i \in 1..Len(sc) |-> sd[i]]
      BY <1>1, <1>2
    <3>2. \A i \in 1..Len(sc) : sd[i] \in S \cup {sd[at]}
      BY <1>4, <2>1, ElementOfSeq
    <3> HIDE DEF sd
    <3> QED BY <1>1, <3>1, <3>2
  <2> QED BY <2>2 DEF IsList
<1>6. /\ DOMAIN vars = DOMAIN sc[at].vars \cup DOMAIN more
      /\ \A n \in DOMAIN vars : vars[n] = IF n \in DOMAIN more THEN more[n] ELSE sc[at].vars[n]
  BY DEF Extended
<1> HIDE DEF sd, vars, due
<1>7. \A n \in sc[at].due : n \in due \/ (n \in DOMAIN vars /\ GoodValue(W, sc, vars[n]))
  BY <1>6 DEF due
<1>8. GoodScopes(W, sd) /\ Later(sc, sd)
  BY <1>3, <1>4, <1>5, <1>6, <1>7, ScopeChanges
<1>9. \A n \in DOMAIN more : OwnAt(sd[at], n)
  BY <1>3, <1>6 DEF OwnAt, GoodValue
<1> QED BY <1>8, <1>9 DEF sd

LEMMA ScopeAssigns ==
    ASSUME NEW W, NEW sc, GoodScopes(W, sc), NEW at \in 1..Len(sc), NEW n \in DOMAIN sc[at].vars,
           NEW v, GoodValue(W, sc, v)
    PROVE  GoodScopes(W, [sc EXCEPT ![at].vars[n] = v]) /\ Later(sc, [sc EXCEPT ![at].vars[n] = v])
<1> DEFINE sd == [sc EXCEPT ![at].vars[n] = v]
           vars == [sc[at].vars EXCEPT ![n] = v]
<1>1. IsList(sc) /\ Len(sc) \in Nat /\ DOMAIN sc = 1..Len(sc)
  BY ListKnown DEF GoodScopes
<1>2. sc[at] = [vars |-> sc[at].vars, around |-> sc[at].around, outside |-> sc[at].outside, due |-> sc[at].due]
  BY DEF GoodScopes, GoodScope
<1>3. sd = [sc EXCEPT ![at] = [sc[at] EXCEPT !.vars = vars]]
  OBVIOUS
<1>4. sd[at] = [vars |-> vars, around |-> sc[at].around, outside |-> sc[at].outside, due |-> sc[at].due]
  BY <1>1, <1>2, <1>3
<1>5. \A j \in 1..Len(sc) : j # at => sd[j] = sc[j]
  BY <1>1, <1>3
<1>6. IsList(sd) /\ Len(sd) = Len(sc)
  <2>1. PICK S : sc \in Seq(S)
    BY <1>1 DEF IsList
  <2>2. sd = [i \in 1..Len(sc) |-> sd[i]]
    BY <1>1, <1>3
  <2>3. \A i \in 1..Len(sc) : sd[i] \in S \cup {sd[at]}
    BY <1>5, <2>1, ElementOfSeq
  <2> HIDE DEF sd
  <2>4. sd \in Seq(S \cup {sd[at]}) /\ Len(sd) = Len(sc)
    BY <1>1, <2>2, <2>3
  <2> QED BY <2>4 DEF IsList
<1>7. DOMAIN vars = DOMAIN sc[at].vars /\ \A m \in DOMAIN vars : vars[m] = IF m = n THEN v ELSE sc[at].vars[m]
  OBVIOUS
<1> HIDE DEF sd, vars
<1>8. \A m \in DOMAIN vars : GoodValue(W, sc, vars[m]) \/ (m \in DOMAIN sc[at].vars /\ vars[m] = sc[at].vars[m])
  BY <1>7
<1>9. \A m \in DOMAIN sc[at].vars :
        m \in DOMAIN vars /\ (vars[m] = sc[at].vars[m] \/ GoodValue(W, sc, vars[m]))
  BY <1>7
<1>10. GoodScopes(W, sd) /\ Later(sc, sd)
  BY <1>4, <1>5, <1>6, <1>8, <1>9, ScopeChanges
<1> QED BY <1>10 DEF sd

LEMMA ScopeAdded ==
    ASSUME NEW W, NEW sc, GoodScopes(W, sc), NEW s, GoodScope(W, sc, Len(sc) + 1, s)
    PROVE  /\ GoodScopes(W, Append(sc, s)) /\ Later(sc, Append(sc, s))
           /\ Len(Append(sc, s)) = Len(sc) + 1 /\ Append(sc, s)[Len(sc) + 1] = s
<1> DEFINE sd == Append(sc, s)
<1>1. IsList(sc) /\ Len(sc) \in Nat
  BY ListKnown DEF GoodScopes
<1>2. /\ IsList(sd) /\ Len(sd) = Len(sc) + 1 /\ sd[Len(sc) + 1] = s
      /\ \A k \in 1..Len(sc) : sd[k] = sc[k]
  BY <1>1, ListGrows
<1>3. Later(sc, sd)
  <2> HIDE DEF sd
  <2> QED BY <1>1, <1>2 DEF Later, LaterAt
<1>4. ASSUME NEW k \in 1..Len(sd) PROVE GoodScope(W, sd, k, sd[k])
  <2>1. GoodScope(W, sc, k, sd[k])
    BY <1>1, <1>2 DEF GoodScopes
  <2>2. \A n \in DOMAIN sd[k].vars : GoodBinding(W, sd, k, n, sd[k].vars[n])
    BY <1>3, <2>1, GoodLater DEF GoodScope, GoodBinding
  <2> QED BY <2>1, <2>2 DEF GoodScope
<1>5. GoodScopes(W, sd)
  BY <1>2, <1>4 DEF GoodScopes
<1> QED BY <1>2, <1>3, <1>5

(* The nearest scope that binds a name.                                    *)
LEMMA HolderKnown ==
    ASSUME NEW W, GoodScopes(W, scopes), NEW at \in 1..Len(scopes), NEW n
    PROVE  \/ Holder(n, at) = 0 /\ \A i \in scopes[at].around : n \notin DOMAIN scopes[i].vars
           \/ /\ Holder(n, at) \in 1..Len(scopes) /\ Holder(n, at) \in scopes[at].around
              /\ n \in DOMAIN scopes[Holder(n, at)].vars
              /\ \A i \in scopes[at].around : n \in DOMAIN scopes[i].vars => i <= Holder(n, at)
<1> DEFINE H == Holders(n, at)
<1>1. Len(scopes) \in Nat /\ scopes[at].around \subseteq 1..at
  BY ListKnown DEF GoodScopes, GoodScope
<1>2. \A i : i \in H <=> i \in scopes[at].around /\ n \in DOMAIN scopes[i].vars
  BY DEF Holders
<1>3. CASE H = {}
  BY <1>2, <1>3 DEF Holder
<1>4. CASE H # {}
  <2>1. H \subseteq 1..at
    BY <1>1, <1>2
  <2>2. \E h \in H : \A i \in H : h >= i
    <3> DEFINE T == {at - i : i \in H}
    <3>1. T \in SUBSET Nat /\ T # {}
      BY <1>1, <1>4, <2>1
    <3>2. PICK m \in T : \A k \in T : m <= k
      <4> HIDE DEF T
      <4> QED BY <3>1, LeastOf
    <3>3. PICK h \in H : m = at - h
      BY <3>2
    <3>4. ASSUME NEW i \in H PROVE h >= i
      <4>1. at - i \in T
        OBVIOUS
      <4>2. at - h <= at - i /\ h \in Int /\ i \in Int /\ at \in Int
        BY <1>1, <2>1, <3>2, <3>3, <4>1
      <4> QED BY <4>2
    <3> QED BY <3>4
  <2>3. Holder(n, at) = CHOOSE h \in H : \A i \in H : h >= i
    BY <1>4 DEF Holder, Max
  <2>4. Holder(n, at) \in H /\ \A i \in H : Holder(n, at) >= i
    BY <2>2, <2>3
  <2>5. Holder(n, at) \in 1..at /\ \A i \in H : i <= Holder(n, at)
    BY <2>1, <2>4
  <2>6. 1..at \subseteq 1..Len(scopes)
    BY <1>1
  <2> QED BY <1>2, <2>4, <2>5, <2>6
<1> QED BY <1>3, <1>4

(* What a name stands for: a capability or nothing only where the name is  *)
(* not the script's own.                                                   *)
LEMMA NameMeans ==
    ASSUME NEW W, GoodScopes(W, scopes), NEW at \in 1..Len(scopes), NEW n, NEW e,
           e[1] = "name", e[2] = n
    PROVE  \/ GoodValue(W, scopes, Value(e, at))
           \/ Value(e, at) = Missing /\ ~Own(scopes, at, n)
           \/ Value(e, at) = <<"capability", n>> /\ n \in Capability /\ ~Own(scopes, at, n)
<1> DEFINE h == Holder(n, at)
<1>1. Value(e, at) = IF h = 0 THEN Missing ELSE scopes[h].vars[n]
  BY DEF Value
<1>2. \/ h = 0 /\ \A i \in scopes[at].around : n \notin DOMAIN scopes[i].vars
      \/ /\ h \in 1..Len(scopes) /\ n \in DOMAIN scopes[h].vars
         /\ \A i \in scopes[at].around : n \in DOMAIN scopes[i].vars => i <= h
  BY HolderKnown
<1>3. Len(scopes) \in Nat /\ scopes[at].around \subseteq 1..at
  BY ListKnown DEF GoodScopes, GoodScope
<1> HIDE DEF h
<1>4. CASE h = 0 /\ \A i \in scopes[at].around : n \notin DOMAIN scopes[i].vars
  BY <1>1, <1>4 DEF Own, OwnAt
<1>5. CASE /\ h \in 1..Len(scopes) /\ n \in DOMAIN scopes[h].vars
           /\ \A i \in scopes[at].around : n \in DOMAIN scopes[i].vars => i <= h
  <2>1. h # 0
    BY <1>3, <1>5
  <2>2. GoodBinding(W, scopes, h, n, scopes[h].vars[n])
    BY <1>5 DEF GoodScopes, GoodScope
  <2>3. CASE GoodValue(W, scopes, scopes[h].vars[n])
    BY <1>1, <2>1, <2>3
  <2>4. CASE h = 1 /\ n \in Capability /\ scopes[h].vars[n] = <<"capability", n>>
    <3>1. \A i \in scopes[at].around : n \in DOMAIN scopes[i].vars => i = 1
      BY <1>3, <1>5, <2>4
    <3>2. ~Own(scopes, at, n)
      BY <2>4, <3>1 DEF Own, OwnAt
    <3> QED BY <1>1, <2>1, <2>4, <3>2
  <2> QED BY <2>2, <2>3, <2>4 DEF GoodBinding
<1> QED BY <1>2, <1>4, <1>5

(* Frames.  What has yet to run in one has been visited, as code that runs *)
(* in order sees it: with names that are the script's own by now, or that  *)
(* the scopes outside the agent have yet to declare, or that the value     *)
(* awaited is to be bound to (slack).                                      *)
Working == {"block", "agent", "arrival"}
Slack(f) == IF f.is = "seed" THEN TargetBinds(f.target) ELSE {}

Evaluable(W, e, V, F) ==
    \/ e = <<"constant", "void">>
    \/ \E U : /\ OfExpr(e, U, F) \in W /\ (U \ V) \cap CalleeName(e) = {}
              /\ Harmless(ValuesOf(e)) /\ Simple(Callee(e))
DefaultSeen(W, s, V, F) == s[1] = "seed" /\ s[2][1][1] = "typed" /\ Evaluable(W, s[2][2], V, F)
StepSeen(W, is, s, V, F) ==
    IF is = "arrival" THEN DefaultSeen(W, s, V, F) ELSE OfStatement(s, V, F) \in W
Arrived(W, s, body, V) ==
    /\ OfBody(body, V) \in W
    /\ \A n \in DeclaredIn(body) : OwnAt(s, n) \/ n \in s.due
WorksOn(W, sc, f, slack, V, F) ==
    /\ IsList(f.rest)
    /\ Covered(sc, V \ slack, f.at, sc[f.at].outside)
    /\ Covered(sc, F, f.at, sc[f.at].around)
    /\ \A i \in DOMAIN f.rest : StepSeen(W, f.is, f.rest[i], V \cup LeftBefore(f.rest, i), F)
    /\ f.is = "arrival" =>
         Arrived(W, sc[f.at], f.target, V \cup LeftBefore(f.rest, Len(f.rest) + 1))
Watches(W, sc, f, V) ==
    /\ Covered(sc, V, f.at, sc[f.at].outside)
    /\ OfBody(f.rest, V \cup {f.target[2]}) \in W
Anchored(W, sc, f) ==
    /\ f = Frame(f.is, f.at, f.rest, f.target) /\ f.at \in 1..Len(sc)
    /\ (f.is = "attempt" => \E V : Watches(W, sc, f, V))
Sound(W, sc, f, slack) ==
    Anchored(W, sc, f) /\ (f.is \in Working => \E V, F : WorksOn(W, sc, f, slack, V, F))

LEMMA StepEvaluable ==
    ASSUME NEW W, Closed(W), NEW is, NEW s, NEW V, NEW F, StepSeen(W, is, s, V, F), s[1] \in Consuming
    PROVE  Evaluable(W, Expression(s), V, F)
<1>1. CASE is = "arrival"
  BY <1>1 DEF StepSeen, DefaultSeen, Expression
<1>2. CASE is # "arrival"
  <2> DEFINE v == OfStatement(s, V, F)
  <2>1. v \in W /\ v[1] = "statement" /\ v[2] = s /\ v[3] = V /\ v[4] = F
    BY <1>2 DEF StepSeen, OfStatement
  <2>2. Visits(v) \subseteq W /\ Sober(v)
    BY <2>1 DEF Closed
  <2> HIDE DEF v
  <2>3. Visits(v) = InStatement(s, V, F)
    BY <2>1 DEF Visits
  <2>4. Expression(s) \in Uses(s)
    BY DEF Expression, Uses, Consuming
  <2>5. InStatement(s, V, F) = {OfExpr(e, V, F) : e \in Uses(s)}
    BY DEF InStatement, Consuming
  <2>6. OfExpr(Expression(s), V, F) \in W
    BY <2>2, <2>3, <2>4, <2>5
  <2>7. Harmless(ValuesOf(Expression(s)))
    <3>1. ValuesIn(s) = ValuesOf(Expression(s))
      BY DEF ValuesIn, Consuming, Branched
    <3>2. Harmless(ValuesIn(s))
      BY <2>1, <2>2 DEF Sober
    <3> QED BY <3>1, <3>2
  <2>8. Simple(Callee(Expression(s)))
    BY <2>1, <2>2 DEF Sober
  <2> QED BY <2>6, <2>7, <2>8 DEF Evaluable
<1> QED BY <1>1, <1>2

LEMMA VisitKnown ==
    ASSUME NEW W, Closed(W), NEW e, NEW U, NEW F, OfExpr(e, U, F) \in W
    PROVE  InExpr(e, U, F) \subseteq W /\ Listed(Arguments(e))
           /\ (e[1] = "agentexpr" => SoberParams(e[2]))
<1> DEFINE v == OfExpr(e, U, F)
<1>1. v[1] = "expr" /\ v[2] = e /\ v[3] = U /\ v[4] = F
  BY DEF OfExpr
<1>2. Visits(v) \subseteq W /\ Sober(v)
  BY DEF Closed
<1> HIDE DEF v
<1>3. Visits(v) = InExpr(e, U, F)
  BY <1>1 DEF Visits
<1>4. e[1] = "agentexpr" => ParamsIn(v) = e[2]
  BY <1>1 DEF ParamsIn
<1> QED BY <1>1, <1>2, <1>3, <1>4 DEF Sober

(* The values of an expression that is no call, and of a call's parts.     *)
LEMMA ValueGood ==
    ASSUME NEW W, Closed(W), GoodScopes(W, scopes), NEW at \in 1..Len(scopes), NEW F,
           Covered(scopes, F, at, scopes[at].around), NEW e,
           e[1] = "agentexpr" => \E U : OfExpr(e, U, F) \in W,
           e[1] = "name" => e[2] \notin Capability
    PROVE  Value(e, at) = Missing \/ GoodValue(W, scopes, Value(e, at))
<1>1. CASE e[1] = "name"
  BY <1>1, NameMeans
<1>2. CASE e[1] = "agentexpr"
  <2>1. PICK U : OfExpr(e, U, F) \in W
    BY <1>2
  <2>2. Deferred(e[2], e[4], F) \subseteq W /\ SoberParams(e[2])
    BY <1>2, <2>1, VisitKnown DEF InExpr
  <2>3. Value(e, at) = <<"closure", e[2], e[4], at>>
    BY <1>2 DEF Value, Closure
  <2>4. MadeOf(W, scopes, Value(e, at))
    BY <2>2, <2>3 DEF MadeOf
  <2>5. Value(e, at) # Missing /\ Value(e, at)[1] = "closure"
    BY <2>3 DEF Missing
  <2> QED BY <2>4, <2>5 DEF GoodValue
<1>3. CASE e[1] # "name" /\ e[1] # "agentexpr"
  <2>1. Value(e, at) = <<"data">>
    BY <1>3 DEF Value, Data
  <2> QED BY <2>1 DEF GoodValue, Missing
<1> QED BY <1>1, <1>2, <1>3

LEMMA PlainEvaluated ==
    ASSUME NEW W, Closed(W), GoodScopes(W, scopes), NEW at \in 1..Len(scopes), NEW F,
           Covered(scopes, F, at, scopes[at].around), NEW e, NEW V, Evaluable(W, e, V, F),
           Callee(e) = None
    PROVE  Value(e, at) = Missing \/ GoodValue(W, scopes, Value(e, at))
<1>1. CASE e = <<"constant", "void">>
  <2>1. e[1] # "agentexpr" /\ e[1] # "name"
    BY <1>1
  <2> QED BY <2>1, ValueGood
<1>2. CASE \E U : OfExpr(e, U, F) \in W /\ Harmless(ValuesOf(e))
  <2>1. ValuesOf(e) = {e}
    BY DEF ValuesOf
  <2> QED BY <1>2, <2>1, ValueGood DEF Harmless
<1> QED BY <1>1, <1>2 DEF Evaluable

LEMMA PartsVisited ==
    ASSUME NEW W, Closed(W), NEW e, NEW U, NEW F, OfExpr(e, U, F) \in W, Callee(e) # None
    PROVE  /\ OfExpr(Callee(e), U, F) \in W
           /\ \A x \in ToSet(Arguments(e)) : OfExpr(x, U, F) \in W
<1>1. e[1] \in {"call", "pipe"}
  BY DEF Callee, None
<1>2. \A x \in Inside(e) : OfExpr(x, U, F) \in W
  <2>1. InExpr(e, U, F) = {OfExpr(x, U, F) : x \in Inside(e)}
    BY <1>1 DEF InExpr
  <2> QED BY <2>1, VisitKnown
<1>3. CASE e[1] = "call"
  <2>1. Callee(e) = e[2] /\ Arguments(e) = e[3] /\ Inside(e) = {e[2]} \cup ToSet(e[3])
    BY <1>3 DEF Callee, Arguments, Inside
  <2> QED BY <1>2, <2>1
<1>4. CASE e[1] = "pipe"
  <2>1. Inside(e) = {e[2], e[3]}
    BY <1>4 DEF Inside
  <2>2. CASE e[3][1] = "call"
    <3>1. Callee(e) = e[3][2] /\ Arguments(e) = <<e[2]>> \o e[3][3]
      BY <1>4, <2>2 DEF Callee, Arguments
    <3>2. OfExpr(e[2], U, F) \in W /\ OfExpr(e[3], U, F) \in W
      BY <1>2, <2>1
    <3>3. InExpr(e[3], U, F) = {OfExpr(x, U, F) : x \in {e[3][2]} \cup ToSet(e[3][3])}
      BY <2>2 DEF InExpr, Inside
    <3>4. OfExpr(e[3][2], U, F) \in W /\ \A x \in ToSet(e[3][3]) : OfExpr(x, U, F) \in W
      BY <3>2, <3>3, VisitKnown
    <3>5. Listed(e[3][3])
      <4>1. Arguments(e[3]) = e[3][3]
        BY <2>2 DEF Arguments
      <4> QED BY <3>2, <4>1, VisitKnown
    <3>6. \A x \in ToSet(<<e[2]>> \o e[3][3]) : x = e[2] \/ x \in ToSet(e[3][3])
      <4> DEFINE S == {e[2]} \cup ToSet(e[3][3])
      <4>1. <<e[2]>> \in Seq(S) /\ e[3][3] \in Seq(S)
        <5>1. e[3][3] \in Seq(ToSet(e[3][3]))
          BY <3>5 DEF Listed
        <5>2. e[3][3] \in Seq(S)
          BY <5>1, SeqMonotonic
        <5> QED BY <5>2
      <4> HIDE DEF S
      <4>2. <<e[2]>> \o e[3][3] \in Seq(S)
        BY <4>1, ConcatProperties
      <4>3. \A i \in DOMAIN (<<e[2]>> \o e[3][3]) : (<<e[2]>> \o e[3][3])[i] \in S
        BY <4>2, LenProperties, ElementOfSeq
      <4> QED BY <4>3 DEF S, ToSet
    <3> QED BY <3>1, <3>2, <3>4, <3>6
  <2>3. CASE e[3][1] # "call"
    <3>1. Callee(e) = e[3] /\ Arguments(e) = <<e[2]>> \o << >>
      BY <1>4, <2>3 DEF Callee, Arguments
    <3>2. <<e[2]>> \o << >> = <<e[2]>>
      <4>1. <<e[2]>> \in Seq({e[2]})
        OBVIOUS
      <4> QED BY <4>1, ConcatEmptySeq
    <3>3. ToSet(<<e[2]>>) = {e[2]}
      BY DEF ToSet
    <3> QED BY <1>2, <2>1, <3>1, <3>2, <3>3
  <2> QED BY <2>2, <2>3
<1> QED BY <1>1, <1>3, <1>4

LEMMA ArgumentsEvaluated ==
    ASSUME NEW W, Closed(W), GoodScopes(W, scopes), NEW at \in 1..Len(scopes), NEW F,
           Covered(scopes, F, at, scopes[at].around), NEW e, NEW V, Evaluable(W, e, V, F),
           Callee(e) # None
    PROVE  /\ Listed(Arguments(e))
           /\ \A x \in ToSet(Arguments(e)) :
                Value(x, at) = Missing \/ GoodValue(W, scopes, Value(x, at))
<1>1. e # <<"constant", "void">>
  BY DEF Callee, None
<1>2. PICK U : OfExpr(e, U, F) \in W /\ Harmless(ValuesOf(e))
  BY <1>1 DEF Evaluable
<1>3. ValuesOf(e) = ToSet(Arguments(e))
  BY DEF ValuesOf
<1>4. \A x \in ToSet(Arguments(e)) : OfExpr(x, U, F) \in W
  BY <1>2, PartsVisited
<1>5. \A x \in ToSet(Arguments(e)) : Value(x, at) = Missing \/ GoodValue(W, scopes, Value(x, at))
  BY <1>2, <1>3, <1>4, ValueGood DEF Harmless
<1> QED BY <1>2, <1>5, VisitKnown

(* Who is called: an agent, a builtin or data; or the call is by a name    *)
(* that is not the script's own.                                           *)
LEMMA CalleeEvaluated ==
    ASSUME NEW W, Closed(W), GoodScopes(W, scopes), NEW at \in 1..Len(scopes), NEW F,
           Covered(scopes, F, at, scopes[at].around), NEW e, NEW V, Evaluable(W, e, V, F),
           Callee(e) # None
    PROVE  LET c == Callee(e)
           IN  \/ GoodValue(W, scopes, Value(c, at))
               \/ /\ Value(c, at) = Missing \/ Value(c, at) = <<"capability", c[2]>>
                  /\ CalleeName(e) = {c[2]} /\ ~Own(scopes, at, c[2])
<1> DEFINE c == Callee(e)
<1>1. e # <<"constant", "void">>
  BY DEF Callee, None
<1>2. PICK U : OfExpr(e, U, F) \in W
  BY <1>1 DEF Evaluable
<1>3. OfExpr(c, U, F) \in W
  BY <1>2, PartsVisited
<1>4. CASE c[1] = "name"
  <2>1. CalleeName(e) = {c[2]}
    BY <1>4 DEF CalleeName
  <2> HIDE DEF c
  <2>2. \/ GoodValue(W, scopes, Value(c, at))
        \/ (Value(c, at) = Missing \/ Value(c, at) = <<"capability", c[2]>>) /\ ~Own(scopes, at, c[2])
    BY <1>4, NameMeans
  <2> QED BY <2>1, <2>2 DEF c
<1>5. CASE c[1] # "name"
  <2> HIDE DEF c
  <2>1. Value(c, at) = Missing \/ GoodValue(W, scopes, Value(c, at))
    BY <1>3, <1>5, ValueGood
  <2>2. Value(c, at) # Missing
    BY <1>5 DEF Value, Closure, Data, Missing
  <2> QED BY <2>1, <2>2 DEF c
<1> QED BY <1>4, <1>5

(* A call by a name that was not visible where it stands was previewed.    *)
LEMMA CallPreviewed ==
    ASSUME NEW e, NEW V, NEW F, Evaluable(Visited(script), e, V, F),
           NEW n \in CalleeName(e), n \notin V
    PROVE  n \in Referenced(script)
<1>1. e # <<"constant", "void">>
  BY DEF CalleeName, Callee
<1>2. PICK U : OfExpr(e, U, F) \in Visited(script) /\ (U \ V) \cap CalleeName(e) = {}
  BY <1>1 DEF Evaluable
<1>3. n \in ReachedFor(OfExpr(e, U, F))
  BY <1>2 DEF ReachedFor, OfExpr
<1> QED BY <1>2, <1>3 DEF Referenced

(* Lists of statements and of frames: their first, and the rest.           *)
LEMMA ListSplits ==
    ASSUME NEW s, IsList(s), s # << >>
    PROVE  /\ IsList(Tail(s)) /\ Len(Tail(s)) = Len(s) - 1 /\ Len(s) \in Nat \ {0}
           /\ Head(s) = s[1] /\ \A i \in 1..(Len(s) - 1) : Tail(s)[i] = s[i + 1]
<1>1. PICK S : s \in Seq(S)
  BY DEF IsList
<1>2. Tail(s) \in Seq(S) /\ Len(Tail(s)) = Len(s) - 1
  BY <1>1, HeadTailProperties
<1>3. Len(s) \in Nat \ {0}
  BY <1>1, LenProperties, EmptySeq
<1>4. \A i \in 1..(Len(s) - 1) : Tail(s)[i] = s[i + 1]
  BY <1>1, HeadTailProperties
<1> QED BY <1>1, <1>2, <1>3, <1>4 DEF IsList

LEMMA ListPushed ==
    ASSUME NEW s, IsList(s), NEW f
    PROVE  /\ IsList(<<f>> \o s) /\ Len(<<f>> \o s) = Len(s) + 1
           /\ (<<f>> \o s)[1] = f /\ \A i \in 1..Len(s) : (<<f>> \o s)[i + 1] = s[i]
           /\ Head(<<f>> \o s) = f /\ Tail(<<f>> \o s) = s /\ <<f>> \o s # << >>
<1>1. PICK S : s \in Seq(S)
  BY DEF IsList
<1>2. Len(s) \in Nat
  BY <1>1, LenProperties
<1> DEFINE T == S \cup {f}
<1>3. s \in Seq(T) /\ <<f>> \in Seq(T) /\ Len(<<f>>) = 1 /\ <<f>>[1] = f
  BY <1>1, SeqMonotonic
<1> HIDE DEF T
<1>4. /\ <<f>> \o s \in Seq(T) /\ Len(<<f>> \o s) = Len(s) + 1
      /\ \A i \in 1..(Len(s) + 1) : (<<f>> \o s)[i] = IF i <= 1 THEN f ELSE s[i - 1]
  BY <1>2, <1>3, ConcatProperties
<1>5. (<<f>> \o s)[1] = f /\ \A i \in 1..Len(s) : (<<f>> \o s)[i + 1] = s[i]
  <2>1. \A i \in 1..Len(s) : i + 1 \in 1..(Len(s) + 1) /\ ~(i + 1 <= 1) /\ (i + 1) - 1 = i
    BY <1>2
  <2> QED BY <1>2, <1>4, <2>1
<1> DEFINE p == <<f>> \o s
<1>6. p \in Seq(T) /\ Len(p) = Len(s) + 1 /\ p[1] = f /\ \A i \in 1..Len(s) : p[i + 1] = s[i]
  BY <1>4, <1>5
<1> HIDE DEF p
<1>7. p # << >>
  BY <1>2, <1>6, EmptySeq
<1>8. /\ Head(p) = p[1] /\ Tail(p) \in Seq(T) /\ Len(Tail(p)) = Len(s)
      /\ \A i \in 1..Len(s) : Tail(p)[i] = p[i + 1]
  BY <1>2, <1>6, <1>7, HeadTailProperties
<1>9. Tail(p) = s
  BY <1>2, <1>3, <1>6, <1>8, SeqEqual
<1>10. Head(p) = f /\ Tail(p) = s /\ p # << >> /\ IsList(p)
  BY <1>6, <1>7, <1>8, <1>9 DEF IsList
<1> QED BY <1>4, <1>5, <1>10 DEF p

-----------------------------------------------------------------------------
(* Frames on one another: each below a statement that waits to bind names  *)
(* may count on them, and shares its scope.                                *)
Firm(W, sc, s, slack) ==
    /\ IsList(s)
    /\ \A i \in 1..Len(s) :
         /\ Sound(W, sc, s[i], IF i = 1 THEN slack ELSE Slack(s[i - 1]))
         /\ s[i].is = "seed" => i < Len(s) /\ s[i + 1].at = s[i].at

LEMMA SoundLater ==
    ASSUME NEW W, NEW sc, NEW sd, GoodScopes(W, sc), Later(sc, sd), NEW f, NEW slack,
           Sound(W, sc, f, slack)
    PROVE  Sound(W, sd, f, slack)
<1>1. f.at \in 1..Len(sc) /\ f.at \in 1..Len(sd) /\ LaterAt(sc[f.at], sd[f.at])
  BY ListKnown DEF Sound, Anchored, Later, GoodScopes
<1>2. sc[f.at].outside \subseteq sc[f.at].around
  BY <1>1 DEF GoodScopes, GoodScope
<1>3. sd[f.at].outside = sc[f.at].outside /\ sd[f.at].around = sc[f.at].around
  BY <1>1 DEF LaterAt
<1>4. \A V : Covered(sc, V, f.at, sc[f.at].outside) => Covered(sd, V, f.at, sd[f.at].outside)
  BY <1>1, <1>2, <1>3, CoveredLater
<1>5. \A V : Covered(sc, V, f.at, sc[f.at].around) => Covered(sd, V, f.at, sd[f.at].around)
  BY <1>1, <1>3, CoveredLater
<1>6. \A V : Arrived(W, sc[f.at], f.target, V) => Arrived(W, sd[f.at], f.target, V)
  BY <1>1 DEF Arrived, LaterAt
<1>7. Anchored(W, sd, f)
  BY <1>1, <1>4 DEF Sound, Anchored, Watches
<1>8. f.is \in Working => \E V, F : WorksOn(W, sd, f, slack, V, F)
  <2> SUFFICES ASSUME f.is \in Working PROVE \E V, F : WorksOn(W, sd, f, slack, V, F)
    OBVIOUS
  <2>1. PICK V, F : WorksOn(W, sc, f, slack, V, F)
    BY DEF Sound
  <2>2. WorksOn(W, sd, f, slack, V, F)
    BY <1>4, <1>5, <1>6, <2>1 DEF WorksOn
  <2> QED BY <2>2
<1> QED BY <1>7, <1>8 DEF Sound

LEMMA FirmLater ==
    ASSUME NEW W, NEW sc, NEW sd, GoodScopes(W, sc), Later(sc, sd), NEW s, NEW slack,
           Firm(W, sc, s, slack)
    PROVE  Firm(W, sd, s, slack)
  BY SoundLater DEF Firm

LEMMA FirmPush ==
    ASSUME NEW W, NEW sc, NEW s, NEW f, NEW slack, Firm(W, sc, s, Slack(f)), Sound(W, sc, f, slack),
           f.is = "seed" => s # << >> /\ s[1].at = f.at
    PROVE  Firm(W, sc, <<f>> \o s, slack)
<1> DEFINE p == <<f>> \o s
<1>1. IsList(s) /\ Len(s) \in Nat /\ (s # << >> => 1 <= Len(s))
  BY ListKnown DEF Firm
<1>2. IsList(p) /\ Len(p) = Len(s) + 1 /\ p[1] = f /\ \A i \in 1..Len(s) : p[i + 1] = s[i]
  BY <1>1, ListPushed
<1> HIDE DEF p
<1>3. ASSUME NEW i \in 1..Len(p)
      PROVE  /\ Sound(W, sc, p[i], IF i = 1 THEN slack ELSE Slack(p[i - 1]))
             /\ p[i].is = "seed" => i < Len(p) /\ p[i + 1].at = p[i].at
  <2>1. CASE i = 1
    <3>1. s # << >> => 1 < Len(p) /\ p[2] = s[1]
      <4>1. 1 \in 1..Len(s) => p[1 + 1] = s[1]
        BY <1>2
      <4> QED BY <1>1, <1>2, <4>1
    <3> QED BY <1>2, <2>1, <3>1
  <2>2. CASE i # 1
    <3>1. i - 1 \in 1..Len(s) /\ p[i] = s[i - 1]
      <4>1. i - 1 \in 1..Len(s) /\ (i - 1) + 1 = i
        BY <1>1, <1>2, <2>2
      <4> QED BY <1>2, <4>1
    <3>2. (IF i - 1 = 1 THEN Slack(f) ELSE Slack(s[(i - 1) - 1])) = Slack(p[i - 1])
      <4>1. CASE i - 1 = 1
        BY <1>2, <4>1
      <4>2. CASE i - 1 # 1
        <5>1. (i - 1) - 1 \in 1..Len(s) /\ ((i - 1) - 1) + 1 = i - 1
          BY <1>1, <3>1, <4>2
        <5> QED BY <1>2, <4>2, <5>1
      <4> QED BY <4>1, <4>2
    <3>3. /\ Sound(W, sc, s[i - 1], IF i - 1 = 1 THEN Slack(f) ELSE Slack(s[(i - 1) - 1]))
          /\ s[i - 1].is = "seed" => i - 1 < Len(s) /\ s[(i - 1) + 1].at = s[i - 1].at
      BY <3>1 DEF Firm
    <3>4. i - 1 < Len(s) => i < Len(p) /\ p[i + 1] = s[(i - 1) + 1]
      <4>1. i - 1 < Len(s) => i \in 1..Len(s) /\ (i - 1) + 1 = i /\ i < Len(p)
        BY <1>1, <1>2, <3>1
      <4> QED BY <1>2, <4>1
    <3> QED BY <2>2, <3>1, <3>2, <3>3, <3>4
  <2> QED BY <2>1, <2>2
<1>4. Firm(W, sc, p, slack)
  BY <1>2, <1>3 DEF Firm
<1> QED BY <1>4 DEF p

LEMMA FirmPop ==
    ASSUME NEW W, NEW sc, NEW s, NEW slack, Firm(W, sc, s, slack), s # << >>
    PROVE  /\ Sound(W, sc, Head(s), slack) /\ Firm(W, sc, Tail(s), Slack(Head(s)))
           /\ Head(s).is = "seed" => Tail(s) # << >> /\ Tail(s)[1].at = Head(s).at
<1> DEFINE t == Tail(s)
<1>1. /\ IsList(t) /\ Len(t) = Len(s) - 1 /\ Len(s) \in Nat \ {0}
      /\ Head(s) = s[1] /\ \A i \in 1..(Len(s) - 1) : t[i] = s[i + 1]
  BY ListSplits DEF Firm
<1>0. t # << >> <=> Len(t) # 0
  BY <1>1, ListKnown
<1> HIDE DEF t
<1>2. 1 \in 1..Len(s)
  BY <1>1
<1>3. /\ Sound(W, sc, s[1], slack)
      /\ s[1].is = "seed" => 1 < Len(s) /\ s[2].at = s[1].at
  BY <1>2 DEF Firm
<1>4. s[1].is = "seed" => t # << >> /\ t[1].at = s[1].at
  <2>1. 1 < Len(s) => 1 \in 1..(Len(s) - 1) /\ Len(t) # 0
    BY <1>1
  <2>2. 1 < Len(s) => t[1] = s[1 + 1]
    BY <1>1, <2>1
  <2> QED BY <1>0, <1>3, <2>1, <2>2
<1>5. ASSUME NEW i \in 1..Len(t)
      PROVE  /\ Sound(W, sc, t[i], IF i = 1 THEN Slack(Head(s)) ELSE Slack(t[i - 1]))
             /\ t[i].is = "seed" => i < Len(t) /\ t[i + 1].at = t[i].at
  <2>1. i + 1 \in 1..Len(s) /\ t[i] = s[i + 1] /\ i + 1 # 1 /\ (i + 1) - 1 = i
    BY <1>1
  <2>2. /\ Sound(W, sc, s[i + 1], Slack(s[i]))
        /\ s[i + 1].is = "seed" => i + 1 < Len(s) /\ s[(i + 1) + 1].at = s[i + 1].at
    <3>1. /\ Sound(W, sc, s[i + 1], IF i + 1 = 1 THEN slack ELSE Slack(s[(i + 1) - 1]))
          /\ s[i + 1].is = "seed" => i + 1 < Len(s) /\ s[(i + 1) + 1].at = s[i + 1].at
      BY <2>1 DEF Firm
    <3> QED BY <2>1, <3>1
  <2>3. Slack(s[i]) = IF i = 1 THEN Slack(Head(s)) ELSE Slack(t[i - 1])
    <3>1. CASE i = 1
      BY <1>1, <3>1
    <3>2. CASE i # 1
      <4>1. i - 1 \in 1..(Len(s) - 1) /\ (i - 1) + 1 = i
        BY <1>1, <3>2
      <4> QED BY <1>1, <3>2, <4>1
    <3> QED BY <3>1, <3>2
  <2>4. i + 1 < Len(s) => i < Len(t) /\ t[i + 1] = s[(i + 1) + 1]
    <3>1. i + 1 < Len(s) => i < Len(t) /\ i + 1 \in 1..(Len(s) - 1)
      BY <1>1
    <3> QED BY <1>1, <3>1
  <2> QED BY <2>1, <2>2, <2>3, <2>4
<1>6. Firm(W, sc, t, Slack(Head(s)))
  BY <1>1, <1>5 DEF Firm
<1> QED BY <1>1, <1>3, <1>4, <1>6 DEF t

LEMMA SlackEnds ==
    ASSUME NEW W, NEW sc, NEW f, NEW slack, Sound(W, sc, f, slack), \A n \in slack : Own(sc, f.at, n)
    PROVE  Sound(W, sc, f, {})
<1>1. \A V, S : Covered(sc, V \ slack, f.at, S) => Covered(sc, V \ {}, f.at, S)
  BY DEF Covered
<1> QED BY <1>1 DEF Sound, WorksOn

LEMMA FirmSlackEnds ==
    ASSUME NEW W, NEW sc, NEW s, NEW slack, Firm(W, sc, s, slack),
           s # << >> => \A n \in slack : Own(sc, s[1].at, n)
    PROVE  Firm(W, sc, s, {})
<1>1. IsList(s) /\ Len(s) \in Nat /\ (s = << >> <=> Len(s) = 0)
  BY ListKnown DEF Firm
<1>2. ASSUME NEW i \in 1..Len(s)
      PROVE  /\ Sound(W, sc, s[i], IF i = 1 THEN {} ELSE Slack(s[i - 1]))
             /\ s[i].is = "seed" => i < Len(s) /\ s[i + 1].at = s[i].at
  <2>1. s # << >>
    BY <1>1
  <2>2. /\ Sound(W, sc, s[i], IF i = 1 THEN slack ELSE Slack(s[i - 1]))
        /\ s[i].is = "seed" => i < Len(s) /\ s[i + 1].at = s[i].at
    BY DEF Firm
  <2>3. CASE i = 1
    BY <2>1, <2>2, <2>3, SlackEnds
  <2>4. CASE i # 1
    BY <2>2, <2>4
  <2> QED BY <2>3, <2>4
<1> QED BY <1>1, <1>2 DEF Firm

(* What runs goes on behind its first statement.                           *)
LEMMA LeftShifts ==
    ASSUME NEW rest, IsList(rest), rest # << >>, NEW i \in 1..Len(rest)
    PROVE  LeftBefore(rest, i + 1) = Leaves(Head(rest)) \cup LeftBefore(Tail(rest), i)
<1>1. /\ IsList(Tail(rest)) /\ Len(Tail(rest)) = Len(rest) - 1 /\ Len(rest) \in Nat \ {0}
      /\ Head(rest) = rest[1] /\ \A j \in 1..(Len(rest) - 1) : Tail(rest)[j] = rest[j + 1]
  BY ListSplits
<1> DEFINE t == Tail(rest)
<1>2. (i + 1) - 1 = i
  BY <1>1
<1>3. LeftBefore(rest, i + 1) = UNION {Leaves(rest[j]) : j \in 1..i}
  BY <1>2 DEF LeftBefore
<1>4. LeftBefore(t, i) = UNION {Leaves(t[j]) : j \in 1..(i - 1)}
  BY DEF LeftBefore
<1>5. \A j \in 1..(i - 1) : t[j] = rest[j + 1] /\ j + 1 \in 1..i
  BY <1>1
<1>6. \A j \in 1..i : j = 1 \/ (j - 1 \in 1..(i - 1) /\ t[j - 1] = rest[j])
  <2> SUFFICES ASSUME NEW j \in 1..i, j # 1 PROVE j - 1 \in 1..(i - 1) /\ t[j - 1] = rest[j]
    OBVIOUS
  <2>1. j - 1 \in 1..(i - 1) /\ (j - 1) + 1 = j
    BY <1>1
  <2> QED BY <1>5, <2>1
<1>7. 1 \in 1..i
  BY <1>1
<1> HIDE DEF t
<1>8. UNION {Leaves(rest[j]) : j \in 1..i} = Leaves(rest[1]) \cup UNION {Leaves(t[j]) : j \in 1..(i - 1)}
  <2>1. ASSUME NEW x \in UNION {Leaves(rest[j]) : j \in 1..i}
        PROVE  x \in Leaves(rest[1]) \cup UNION {Leaves(t[j]) : j \in 1..(i - 1)}
    <3>1. PICK j \in 1..i : x \in Leaves(rest[j])
      OBVIOUS
    <3> QED BY <1>6, <3>1
  <2>2. ASSUME NEW x \in Leaves(rest[1]) \cup UNION {Leaves(t[j]) : j \in 1..(i - 1)}
        PROVE  x \in UNION {Leaves(rest[j]) : j \in 1..i}
    <3>1. CASE x \in Leaves(rest[1])
      BY <1>7, <3>1
    <3>2. CASE x \in UNION {Leaves(t[j]) : j \in 1..(i - 1)}
      <4>1. PICK j \in 1..(i - 1) : x \in Leaves(t[j])
        BY <3>2
      <4> QED BY <1>5, <4>1
    <3> QED BY <2>2, <3>1, <3>2
  <2> QED BY <2>1, <2>2
<1> QED BY <1>1, <1>3, <1>4, <1>8 DEF t

LEMMA Advances ==
    ASSUME NEW W, NEW sc, NEW f, Sound(W, sc, f, {}), f.is \in Working, f.rest # << >>
    PROVE  Sound(W, sc, [f EXCEPT !.rest = Tail(@)], Leaves(Head(f.rest)))
<1> DEFINE L == Leaves(Head(f.rest))
           g == [f EXCEPT !.rest = Tail(@)]
<1>1. PICK V, F : WorksOn(W, sc, f, {}, V, F)
  BY DEF Sound
<1>2. g = Frame(f.is, f.at, Tail(f.rest), f.target) /\ f.at \in 1..Len(sc)
  <2>1. f = [is |-> f.is, at |-> f.at, rest |-> f.rest, target |-> f.target] /\ f.at \in 1..Len(sc)
    BY DEF Sound, Anchored, Frame
  <2>2. g = [is |-> f.is, at |-> f.at, rest |-> Tail(f.rest), target |-> f.target]
    BY <2>1
  <2> QED BY <2>1, <2>2 DEF Frame
<1>3. g.is = f.is /\ g.at = f.at /\ g.rest = Tail(f.rest) /\ g.target = f.target
  BY <1>2 DEF Frame
<1> DEFINE t == Tail(f.rest)
<1>4. IsList(f.rest)
  BY <1>1 DEF WorksOn
<1>5. /\ IsList(t) /\ Len(t) = Len(f.rest) - 1 /\ Len(f.rest) \in Nat \ {0}
      /\ \A i \in 1..(Len(f.rest) - 1) : t[i] = f.rest[i + 1]
  BY <1>4, ListSplits
<1>6. \A i \in 1..Len(f.rest) : (V \cup L) \cup LeftBefore(t, i) = V \cup LeftBefore(f.rest, i + 1)
  BY <1>4, LeftShifts
<1>7. DOMAIN t = 1..Len(t) /\ DOMAIN f.rest = 1..Len(f.rest)
  BY <1>4, <1>5, ListKnown
<1> HIDE DEF g, t, L
<1>8. ASSUME NEW i \in DOMAIN t PROVE StepSeen(W, f.is, t[i], (V \cup L) \cup LeftBefore(t, i), F)
  <2>1. i \in 1..Len(f.rest) /\ i + 1 \in 1..Len(f.rest) /\ t[i] = f.rest[i + 1]
    BY <1>5, <1>7
  <2>2. StepSeen(W, f.is, f.rest[i + 1], V \cup LeftBefore(f.rest, i + 1), F)
    BY <1>1, <1>7, <2>1 DEF WorksOn
  <2> QED BY <1>6, <2>1, <2>2
<1>9. f.is = "arrival" => Arrived(W, sc[f.at], f.target, (V \cup L) \cup LeftBefore(t, Len(t) + 1))
  <2>1. Len(t) + 1 = Len(f.rest) /\ Len(f.rest) \in 1..Len(f.rest)
    BY <1>5
  <2>2. f.is = "arrival" => Arrived(W, sc[f.at], f.target, V \cup LeftBefore(f.rest, Len(f.rest) + 1))
    BY <1>1 DEF WorksOn
  <2> QED BY <1>6, <2>1, <2>2
<1>10. Covered(sc, (V \cup L) \ L, f.at, sc[f.at].outside)
  BY <1>1 DEF WorksOn, Covered
<1>11. WorksOn(W, sc, g, L, V \cup L, F)
  <2>1. IsList(g.rest)
    BY <1>3, <1>5 DEF t
  <2>2. \A i \in DOMAIN g.rest : StepSeen(W, g.is, g.rest[i], (V \cup L) \cup LeftBefore(g.rest, i), F)
    BY <1>3, <1>8 DEF t
  <2>3. g.is = "arrival" => Arrived(W, sc[g.at], g.target, (V \cup L) \cup LeftBefore(g.rest, Len(g.rest) + 1))
    BY <1>3, <1>9 DEF t
  <2>4. Covered(sc, F, g.at, sc[g.at].around)
    BY <1>1, <1>3 DEF WorksOn
  <2> QED BY <1>3, <1>10, <2>1, <2>2, <2>3, <2>4 DEF WorksOn
<1>12. Anchored(W, sc, g)
  <2>1. g.is # "attempt"
    BY <1>3 DEF Working
  <2> QED BY <1>2, <1>3, <2>1 DEF Anchored, t
<1>13. Sound(W, sc, g, L)
  BY <1>11, <1>12 DEF Sound
<1> QED BY <1>13 DEF g, L

(* A block, or an agent's body, that has been visited and now begins.      *)
LEMMA BeginsSound ==
    ASSUME NEW W, Closed(W), NEW sc, GoodScopes(W, sc), NEW k \in 1..Len(sc), NEW stmts, NEW V,
           OfBody(stmts, V) \in W, Covered(sc, V, k, sc[k].outside),
           \A n \in DeclaredIn(stmts) : OwnAt(sc[k], n) \/ n \in sc[k].due,
           NEW is \in {"block", "agent"}, NEW target
    PROVE  Sound(W, sc, Frame(is, k, stmts, target), {})
<1> DEFINE f == Frame(is, k, stmts, target)
           F == V \cup DeclaredIn(stmts)
           v == OfBody(stmts, V)
<1>1. f.is = is /\ f.at = k /\ f.rest = stmts /\ f.target = target
  BY DEF Frame
<1>2. v[1] = "body" /\ v[2] = stmts /\ v[3] = V
  BY DEF OfBody
<1>3. Visits(v) \subseteq W /\ Sober(v)
  BY DEF Closed
<1> HIDE DEF v
<1>4. InBody(stmts, V) \subseteq W /\ IsList(stmts)
  <2>1. Visits(v) = InBody(stmts, V)
    BY <1>2 DEF Visits
  <2> QED BY <1>2, <1>3, <2>1 DEF Sober, Listed, IsList
<1>5. k \in sc[k].around /\ sc[k].outside \subseteq sc[k].around
  BY DEF GoodScopes, GoodScope
<1>6. Covered(sc, F, k, sc[k].around)
  BY <1>5 DEF Covered, Own, Pending
<1>7. \A i \in DOMAIN stmts : OfStatement(stmts[i], V \cup LeftBefore(stmts, i), F) \in W
  BY <1>4 DEF InBody
<1>8. Covered(sc, V \ {}, k, sc[k].outside)
  BY DEF Covered
<1> HIDE DEF F, f
<1>9. WorksOn(W, sc, f, {}, V, F)
  BY <1>1, <1>4, <1>6, <1>7, <1>8 DEF WorksOn, StepSeen
<1>10. Anchored(W, sc, f)
  BY <1>1 DEF Anchored, f
<1> QED BY <1>9, <1>10 DEF Sound, f

-----------------------------------------------------------------------------
(* What holds between two steps of a script whose tree was visited in W.   *)
Leaving(sg) == sg[1] \in {"error", "report"}
Falls(W, sc, st) ==
    /\ IsList(st) /\ st # << >> /\ Anchored(W, sc, Head(st))
    /\ Firm(W, sc, Tail(st), Slack(Head(st)))
Runs(W, sc, st, sg) ==
    /\ GoodScopes(W, sc)
    /\ sg[1] \in {"value", "report"} => GoodValue(W, sc, sg[2])
    /\ Firm(W, sc, st, {}) \/ (Leaving(sg) /\ Falls(W, sc, st))

LEMMA TopFalls ==
    ASSUME NEW W, NEW sc, NEW st, NEW sg, Runs(W, sc, st, sg), st # << >>
    PROVE  Falls(W, sc, st)
<1>1. CASE Firm(W, sc, st, {})
  <2>1. Sound(W, sc, Head(st), {}) /\ Firm(W, sc, Tail(st), Slack(Head(st)))
    BY <1>1, FirmPop
  <2> QED BY <1>1, <2>1 DEF Falls, Sound, Firm
<1> QED BY <1>1 DEF Runs

(* The frame that runs, and what it runs.                                  *)
LEMMA TopRuns ==
    ASSUME NEW W, Runs(W, scopes, stack, signal), Running
    PROVE  /\ GoodScopes(W, scopes) /\ IsList(stack) /\ Firm(W, scopes, stack, {})
           /\ Sound(W, scopes, Top, {}) /\ Top.at \in 1..Len(scopes)
           /\ Firm(W, scopes, Tail(stack), Slack(Top))
<1>1. signal[1] = "none" /\ stack # << >>
  BY DEF Running, Quiet, None
<1>2. Firm(W, scopes, stack, {})
  BY <1>1 DEF Runs, Leaving
<1>3. Sound(W, scopes, Top, {}) /\ Firm(W, scopes, Tail(stack), Slack(Top))
  BY <1>1, <1>2, FirmPop DEF Top
<1> QED BY <1>2, <1>3 DEF Runs, Sound, Anchored, Firm

LEMMA HereRuns ==
    ASSUME NEW W, Runs(W, scopes, stack, signal), NEW kinds, Here(kinds)
    PROVE  /\ GoodScopes(W, scopes) /\ Top.at \in 1..Len(scopes) /\ This[1] \in kinds
           /\ Firm(W, scopes, stack, {})
           /\ Firm(W, scopes, Onward, Leaves(This)) /\ Onward # << >> /\ Onward[1].at = Top.at
           /\ \E V, F : /\ WorksOn(W, scopes, Top, {}, V, F)
                        /\ StepSeen(W, Top.is, This, V, F)
<1>1. Running /\ Top.is \in Working /\ Top.rest # << >> /\ This[1] \in kinds
  BY DEF Here, Working, This
<1>2. /\ GoodScopes(W, scopes) /\ IsList(stack) /\ Firm(W, scopes, stack, {})
      /\ Sound(W, scopes, Top, {}) /\ Top.at \in 1..Len(scopes)
      /\ Firm(W, scopes, Tail(stack), Slack(Top))
  BY <1>1, TopRuns
<1> DEFINE g == [Top EXCEPT !.rest = Tail(@)]
<1>3. Sound(W, scopes, g, Leaves(This))
  BY <1>1, <1>2, Advances DEF This
<1>4. g.is = Top.is /\ g.at = Top.at
  <2>1. Top = Frame(Top.is, Top.at, Top.rest, Top.target)
    BY <1>2 DEF Sound, Anchored
  <2> QED BY <2>1 DEF Frame
<1> HIDE DEF g
<1>5. Slack(g) = {} /\ Slack(Top) = {} /\ g.is # "seed"
  BY <1>1, <1>4 DEF Slack, Working
<1>6. Onward = <<g>> \o Tail(stack)
  BY DEF Onward, g
<1>7. Firm(W, scopes, <<g>> \o Tail(stack), Leaves(This))
  BY <1>2, <1>3, <1>5, FirmPush
<1>8. Onward # << >> /\ Onward[1] = g
  BY <1>2, <1>6, ListPushed DEF Firm
<1>9. PICK V, F : WorksOn(W, scopes, Top, {}, V, F)
  BY <1>1, <1>2 DEF Sound
<1>10. StepSeen(W, Top.is, This, V, F)
  <2>1. IsList(Top.rest)
    BY <1>9 DEF WorksOn
  <2>2. 1 \in DOMAIN Top.rest /\ This = Top.rest[1]
    BY <1>1, <2>1, ListSplits, ListKnown DEF This
  <2>3. LeftBefore(Top.rest, 1) = {}
    BY DEF LeftBefore
  <2>4. StepSeen(W, Top.is, Top.rest[1], V \cup LeftBefore(Top.rest, 1), F)
    BY <1>9, <2>2 DEF WorksOn
  <2>5. V \cup {} = V
    OBVIOUS
  <2> QED BY <2>2, <2>3, <2>4, <2>5
<1> QED BY <1>1, <1>2, <1>4, <1>6, <1>7, <1>8, <1>9, <1>10

(* A statement that waits for the value of its expression.                 *)
LEMMA AwaitingFirm ==
    ASSUME NEW W, Closed(W), Runs(W, scopes, stack, signal), Here(Consuming)
    PROVE  /\ GoodScopes(W, scopes) /\ Top.at \in 1..Len(scopes)
           /\ Firm(W, scopes, Awaiting, {}) /\ Awaiting # << >>
           /\ \E V, F : /\ WorksOn(W, scopes, Top, {}, V, F)
                        /\ Evaluable(W, Expression(This), V, F)
<1> DEFINE f == Frame(This[1], Top.at, << >>, TargetOf(This))
<1>1. /\ GoodScopes(W, scopes) /\ Top.at \in 1..Len(scopes) /\ This[1] \in Consuming
      /\ Firm(W, scopes, Onward, Leaves(This)) /\ Onward # << >> /\ Onward[1].at = Top.at
  BY HereRuns
<1>2. f.is = This[1] /\ f.at = Top.at /\ f.rest = << >> /\ f.target = TargetOf(This)
  BY DEF Frame
<1>3. f = Frame(f.is, f.at, f.rest, f.target)
  BY DEF Frame
<1> HIDE DEF f
<1>4. Slack(f) = Leaves(This)
  <2>1. CASE This[1] = "seed"
    BY <1>2, <2>1 DEF Slack, Leaves, Declares, TargetOf
  <2>2. CASE This[1] # "seed"
    BY <1>1, <1>2, <2>2 DEF Slack, Leaves, Declares, Consuming
  <2> QED BY <2>1, <2>2
<1>5. Sound(W, scopes, f, {})
  <2>1. f.is \notin Working /\ f.is # "attempt"
    BY <1>1, <1>2 DEF Consuming, Working
  <2> QED BY <1>1, <1>2, <1>3, <2>1 DEF Sound, Anchored
<1>6. Awaiting = <<f>> \o Onward
  BY DEF Awaiting, f
<1>7. Firm(W, scopes, <<f>> \o Onward, {})
  BY <1>1, <1>2, <1>4, <1>5, FirmPush
<1>8. <<f>> \o Onward # << >>
  BY <1>1, ListPushed DEF Firm
<1>9. PICK V, F : WorksOn(W, scopes, Top, {}, V, F) /\ StepSeen(W, Top.is, This, V, F)
  BY HereRuns
<1>10. Evaluable(W, Expression(This), V, F)
  BY <1>1, <1>9, StepEvaluable
<1> QED BY <1>1, <1>6, <1>7, <1>8, <1>9, <1>10

LEMMA RunsOn ==
    ASSUME NEW W, NEW sc, NEW st, NEW sg, GoodScopes(W, sc), Firm(W, sc, st, {}),
           sg[1] \notin {"value", "report"} \/ GoodValue(W, sc, sg[2])
    PROVE  Runs(W, sc, st, sg)
  BY DEF Runs

LEMMA FallsOn ==
    ASSUME NEW W, NEW sc, NEW s, NEW slack, Firm(W, sc, s, slack)
    PROVE  Firm(W, sc, s, {}) \/ Falls(W, sc, s)
<1>1. CASE s = << >>
  BY <1>1, FirmSlackEnds
<1>2. CASE s # << >>
  <2>1. Sound(W, sc, Head(s), slack) /\ Firm(W, sc, Tail(s), Slack(Head(s)))
    BY <1>2, FirmPop
  <2> QED BY <1>2, <2>1 DEF Falls, Sound, Firm
<1> QED BY <1>1, <1>2

LEMMA StatementSeen ==
    ASSUME NEW W, Closed(W), NEW is, NEW s, NEW V, NEW F, StepSeen(W, is, s, V, F), s[1] # "seed"
    PROVE  /\ OfStatement(s, V, F) \in W /\ InStatement(s, V, F) \subseteq W
           /\ Harmless(ValuesIn(s)) /\ (s[1] = "agent" => SoberParams(s[2][2]))
<1>1. OfStatement(s, V, F) \in W
  BY DEF StepSeen, DefaultSeen
<1> DEFINE v == OfStatement(s, V, F)
<1>2. v[1] = "statement" /\ v[2] = s /\ v[3] = V /\ v[4] = F
  BY DEF OfStatement
<1>3. Visits(v) \subseteq W /\ Sober(v)
  BY <1>1 DEF Closed
<1> HIDE DEF v
<1>4. Visits(v) = InStatement(s, V, F)
  BY <1>2 DEF Visits
<1>5. s[1] = "agent" => ParamsIn(v) = s[2][2]
  BY <1>2 DEF ParamsIn
<1> QED BY <1>1, <1>2, <1>3, <1>4, <1>5 DEF Sober

LEMMA DeclaredGood ==
    ASSUME NEW W, Closed(W), Runs(W, scopes, stack, signal), Here({"agent"})
    PROVE  LET c == This[2]
               sd == Bind(scopes, Top.at, Names({c[1]}, Closure(c[2], c[4], Top.at)))
           IN  GoodScopes(W, sd) /\ Later(scopes, sd) /\ OwnAt(sd[Top.at], c[1])
<1>1. GoodScopes(W, scopes) /\ Top.at \in 1..Len(scopes) /\ This[1] = "agent"
  BY HereRuns
<1>2. PICK V, F : WorksOn(W, scopes, Top, {}, V, F) /\ StepSeen(W, Top.is, This, V, F)
  BY HereRuns
<1> DEFINE c == This[2]
           v == Closure(c[2], c[4], Top.at)
<1>4. GoodValue(W, scopes, v)
  <2>1. InStatement(This, V, F) \subseteq W /\ SoberParams(c[2])
    BY <1>1, <1>2, StatementSeen
  <2>2. Deferred(c[2], c[4], F) \subseteq W
    BY <1>1, <2>1 DEF InStatement
  <2>3. v[1] = "closure" /\ v[2] = c[2] /\ v[3] = c[4] /\ v[4] = Top.at /\ v # Missing
    BY DEF Closure, Missing
  <2>4. Covered(scopes, F, Top.at, scopes[Top.at].around)
    BY <1>2 DEF WorksOn
  <2> HIDE DEF v
  <2>5. MadeOf(W, scopes, v)
    BY <1>1, <2>1, <2>2, <2>3, <2>4 DEF MadeOf
  <2> QED BY <2>3, <2>5 DEF GoodValue
<1>5. /\ DOMAIN Names({c[1]}, v) = {c[1]}
      /\ \A n \in DOMAIN Names({c[1]}, v) : GoodValue(W, scopes, Names({c[1]}, v)[n])
  BY <1>4 DEF Names
<1> HIDE DEF v
<1> QED BY <1>1, <1>5, ScopeBinds DEF v

LEMMA DeclareStep ==
    ASSUME NEW W, Closed(W), Runs(W, scopes, stack, signal), Declare
    PROVE  Runs(W, scopes', stack', signal')
<1>1. /\ GoodScopes(W, scopes) /\ Top.at \in 1..Len(scopes) /\ This[1] = "agent"
      /\ Firm(W, scopes, Onward, Leaves(This)) /\ Onward # << >> /\ Onward[1].at = Top.at
  BY HereRuns DEF Declare
<1>2. PICK V, F : WorksOn(W, scopes, Top, {}, V, F) /\ StepSeen(W, Top.is, This, V, F)
  BY HereRuns DEF Declare
<1> DEFINE c == This[2]
           v == Closure(c[2], c[4], Top.at)
           sd == Bind(scopes, Top.at, Names({c[1]}, v))
<1>3. scopes' = sd /\ stack' = Onward /\ signal' = signal /\ signal[1] = "none"
  BY DEF Declare, Here, Running, Quiet, None
<1>6. GoodScopes(W, sd) /\ Later(scopes, sd) /\ OwnAt(sd[Top.at], c[1])
  BY DeclaredGood DEF Declare
<1>7. Leaves(This) = {c[1]}
  BY <1>1 DEF Leaves, Declares
<1> HIDE DEF sd
<1>8. Firm(W, sd, Onward, {})
  <2>1. Firm(W, sd, Onward, Leaves(This))
    BY <1>1, <1>6, FirmLater
  <2>2. Own(sd, Top.at, c[1])
    <3>1. Top.at \in 1..Len(sd)
      BY <1>1, <1>6, ListKnown DEF Later, GoodScopes
    <3>2. Top.at \in sd[Top.at].around
      BY <1>6, <3>1 DEF GoodScopes, GoodScope
    <3> QED BY <1>6, <3>2 DEF Own
  <2> QED BY <1>1, <1>7, <2>1, <2>2, FirmSlackEnds
<1> QED BY <1>3, <1>6, <1>8, RunsOn

LEMMA InertStep ==
    ASSUME NEW W, Closed(W), Runs(W, scopes, stack, signal), Inert
    PROVE  Runs(W, scopes', stack', signal')
<1>1. GoodScopes(W, scopes) /\ This[1] = "test" /\ Firm(W, scopes, Onward, Leaves(This))
  BY HereRuns DEF Inert
<1>2. Leaves(This) = {}
  BY <1>1 DEF Leaves, Declares
<1>3. scopes' = scopes /\ stack' = Onward /\ signal' = signal /\ signal[1] = "none"
  BY DEF Inert, Here, Running, Quiet, None
<1> QED BY <1>1, <1>2, <1>3, RunsOn

LEMMA ValuedKnown ==
    ASSUME NEW W, NEW sc, NEW v, v = Missing \/ GoodValue(W, sc, v)
    PROVE  Valued(v)[1] \notin {"value", "report"} \/ GoodValue(W, sc, Valued(v)[2])
<1>1. CASE v = Missing
  BY <1>1 DEF Valued, Failure
<1>2. CASE v # Missing
  BY <1>2 DEF Valued
<1> QED BY <1>1, <1>2

LEMMA EvaluateStep ==
    ASSUME NEW W, Closed(W), Runs(W, scopes, stack, signal), Evaluate
    PROVE  Runs(W, scopes', stack', signal')
<1>1. /\ GoodScopes(W, scopes) /\ Top.at \in 1..Len(scopes)
      /\ Firm(W, scopes, Awaiting, {}) /\ Awaiting # << >>
  BY AwaitingFirm DEF Evaluate
<1>2. PICK V, F : WorksOn(W, scopes, Top, {}, V, F) /\ Evaluable(W, Expression(This), V, F)
  BY AwaitingFirm DEF Evaluate
<1> DEFINE v == Value(Expression(This), Top.at)
<1>3. Callee(Expression(This)) = None /\ signal' = Valued(v) /\ scopes' = scopes /\ stack' = Awaiting
  BY DEF Evaluate
<1>4. Covered(scopes, F, Top.at, scopes[Top.at].around)
  BY <1>2 DEF WorksOn
<1>5. v = Missing \/ GoodValue(W, scopes, v)
  BY <1>1, <1>2, <1>3, <1>4, PlainEvaluated
<1> HIDE DEF v
<1>6. Valued(v)[1] \notin {"value", "report"} \/ GoodValue(W, scopes, Valued(v)[2])
  BY <1>5, ValuedKnown
<1> QED BY <1>1, <1>3, <1>6, RunsOn

LEMMA DataGood == ASSUME NEW W, NEW sc PROVE GoodValue(W, sc, Data)
  BY DEF GoodValue, Data, Missing

LEMMA DeliverStep ==
    ASSUME NEW W, Closed(W), Runs(W, scopes, stack, signal), Deliver
    PROVE  Runs(W, scopes', stack', signal')
<1>1. stack # << >> /\ signal[1] = "value" /\ stack' = Tail(stack)
  BY DEF Deliver
<1>2. GoodScopes(W, scopes) /\ GoodValue(W, scopes, signal[2]) /\ Firm(W, scopes, stack, {})
  BY <1>1 DEF Runs, Leaving
<1>3. /\ Sound(W, scopes, Top, {}) /\ Firm(W, scopes, Tail(stack), Slack(Top))
      /\ Top.is = "seed" => Tail(stack) # << >> /\ Tail(stack)[1].at = Top.at
  BY <1>1, <1>2, FirmPop DEF Top
<1>4. Top.at \in 1..Len(scopes)
  BY <1>3 DEF Sound, Anchored
<1> DEFINE t == Top.target
           h == Holder(t[2], Top.at)
           more == [n \in TargetBinds(t) |-> IF t[1] = "typed" THEN signal[2] ELSE Data]
           sd == Bind(scopes, Top.at, more)
<1>5. ASSUME Top.is # "seed", scopes' = scopes,
             signal'[1] \notin {"value", "report"} \/ GoodValue(W, scopes, signal'[2])
      PROVE  Runs(W, scopes', stack', signal')
  <2>1. Firm(W, scopes, Tail(stack), {})
    BY <1>3, <1>5 DEF Slack
  <2> QED BY <1>1, <1>2, <1>5, <2>1, RunsOn
<1>6. CASE Top.is = "seed" /\ scopes' = sd /\ signal' = Quiet
  <2>1. DOMAIN more = TargetBinds(t) /\ \A n \in DOMAIN more : GoodValue(W, scopes, more[n])
    BY <1>2, DataGood
  <2> HIDE DEF more
  <2>2. GoodScopes(W, sd) /\ Later(scopes, sd) /\ \A n \in TargetBinds(t) : OwnAt(sd[Top.at], n)
    BY <1>2, <1>4, <2>1, ScopeBinds
  <2> HIDE DEF sd
  <2>3. \A n \in TargetBinds(t) : Own(sd, Top.at, n)
    <3>1. Top.at \in 1..Len(sd)
      BY <1>4, <2>2, ListKnown DEF Later, GoodScopes
    <3>2. Top.at \in sd[Top.at].around
      BY <2>2, <3>1 DEF GoodScopes, GoodScope
    <3> QED BY <2>2, <3>2 DEF Own
  <2>4. Firm(W, sd, Tail(stack), Slack(Top))
    BY <1>2, <1>3, <2>2, FirmLater
  <2>5. Firm(W, sd, Tail(stack), {})
    BY <1>3, <1>6, <2>3, <2>4, FirmSlackEnds DEF Slack
  <2>6. signal'[1] \notin {"value", "report"}
    BY <1>6 DEF Quiet, None
  <2> QED BY <1>1, <1>6, <2>2, <2>5, <2>6, RunsOn
<1>7. CASE signal' = Failure /\ scopes' = scopes
  <2>1. signal'[1] = "error"
    BY <1>7 DEF Failure
  <2>2. Firm(W, scopes, Tail(stack), {}) \/ Falls(W, scopes, Tail(stack))
    BY <1>3, FallsOn
  <2> QED BY <1>1, <1>2, <1>7, <2>1, <2>2 DEF Runs, Leaving
<1>8. CASE Top.is = "assign" /\ h # 0 /\ signal' = Quiet
           /\ scopes' = [scopes EXCEPT ![h].vars[t[2]] = signal[2]]
  <2>1. h \in 1..Len(scopes) /\ t[2] \in DOMAIN scopes[h].vars
    BY <1>2, <1>4, <1>8, HolderKnown
  <2> HIDE DEF h
  <2>2. GoodScopes(W, scopes') /\ Later(scopes, scopes')
    BY <1>2, <1>8, <2>1, ScopeAssigns
  <2>3. Firm(W, scopes', Tail(stack), {})
    <3>1. Slack(Top) = {}
      BY <1>8 DEF Slack
    <3> QED BY <1>2, <1>3, <2>2, <3>1, FirmLater
  <2>4. signal'[1] \notin {"value", "report"}
    BY <1>8 DEF Quiet, None
  <2> QED BY <1>1, <2>2, <2>3, <2>4, RunsOn
<1>9. CASE Top.is = "expression" /\ signal' = Quiet /\ scopes' = scopes
  <2>1. signal'[1] \notin {"value", "report"}
    BY <1>9 DEF Quiet, None
  <2> QED BY <1>5, <1>9, <2>1
<1>10. CASE Top.is = "report" /\ signal' = <<"report", signal[2]>> /\ scopes' = scopes
  <2>1. GoodValue(W, scopes, signal'[2])
    BY <1>2, <1>10
  <2> QED BY <1>5, <1>10, <2>1
<1> QED BY <1>6, <1>7, <1>8, <1>9, <1>10 DEF Deliver

(* The parameters bound when a call arrives, and the defaults to come.     *)
Arrival(params, args, n) ==
    LET rest == Defaults(params, n)
        given == DOMAIN Arrive(params, args)
        upto(l) == {params[j][2] : j \in {k \in 1..Len(params) : k <= l}}
    IN  /\ Len(params) \in Nat /\ IsList(rest) /\ Len(rest) \in Nat /\ DOMAIN rest = 1..Len(rest)
        /\ given = upto(n)
        /\ \A x \in given : \/ Arrive(params, args)[x] = Data
                            \/ \E j \in 1..n : Arrive(params, args)[x] = args[j]
        /\ \A i \in 1..(Len(rest) + 1) : given \cup LeftBefore(rest, i) = upto(n + i - 1)
        /\ \A i \in 1..Len(rest) : n + i \in 1..Len(params)
        /\ Len(rest) = 0 \/ n + Len(rest) = Len(params)
        /\ Len(rest) = 0 => Len(params) <= n

LEMMA ArrivalKnown ==
    ASSUME NEW params, Listed(params), NEW args, NEW n \in Nat, Len(args) = n
    PROVE  Arrival(params, args, n)
<1> DEFINE m == Len(params)
           rest == Defaults(params, n)
           default(i) == LET p == params[n + i]
                         IN  IF p[1] = "parameter" /\ p[4] # << >> THEN p[4][1] ELSE <<"constant", "void">>
           given == DOMAIN Arrive(params, args)
<1>1. m \in Nat /\ DOMAIN params = 1..m
  <2>1. params \in Seq(ToSet(params))
    BY DEF Listed
  <2> QED BY <2>1, LenProperties
<1>2. rest = [i \in 1..(m - n) |-> <<"seed", << <<"typed", params[n + i][2], << >>>>, default(i)>> >>]
  BY DEF Defaults
<1> DEFINE l == IF m <= n THEN 0 ELSE m - n
<1>3. /\ l \in Nat /\ 1..(m - n) = 1..l
      /\ (m <= n /\ l = 0) \/ (n < m /\ l = m - n /\ l # 0)
  <2> HIDE DEF m
  <2>1. CASE m <= n
    <3>1. l = 0 /\ \A k \in 1..(m - n) : FALSE
      BY <1>1, <2>1
    <3> QED BY <2>1, <3>1
  <2>2. CASE ~(m <= n)
    <3>1. l = m - n /\ n < m /\ l \in Nat /\ l # 0
      BY <1>1, <2>2
    <3> QED BY <3>1
  <2> QED BY <2>1, <2>2
<1>4. IsList(rest) /\ Len(rest) = l /\ DOMAIN rest = 1..l
  <2> DEFINE S == {rest[i] : i \in 1..l}
  <2>1. rest = [i \in 1..l |-> rest[i]]
    BY <1>2, <1>3
  <2> HIDE DEF rest, l
  <2>2. rest \in Seq(S) /\ Len(rest) = l
    BY <1>3, <2>1
  <2> QED BY <2>1, <2>2 DEF IsList
<1>5. given = {params[j][2] : j \in {k \in 1..m : k <= n}}
  BY <1>1 DEF Arrive
<1>6. ASSUME NEW x \in given
      PROVE  Arrive(params, args)[x] = Data \/ \E j \in 1..n : Arrive(params, args)[x] = args[j]
  <2> DEFINE at == {i \in DOMAIN params : i <= n}
             i == CHOOSE j \in at : params[j][2] = x
  <2>1. \E j \in at : params[j][2] = x
    BY <1>1, <1>5
  <2>2. i \in at
    BY <2>1
  <2>3. Arrive(params, args)[x] = IF params[i][1] = "rest" THEN Data ELSE args[i]
    BY <1>6 DEF Arrive
  <2>4. i \in 1..n
    BY <1>1, <2>2
  <2> HIDE DEF i
  <2> QED BY <2>3, <2>4
<1>7. \A i \in 1..l : Leaves(rest[i]) = {params[n + i][2]}
  <2> SUFFICES ASSUME NEW i \in 1..l PROVE Leaves(rest[i]) = {params[n + i][2]}
    OBVIOUS
  <2>1. rest[i] = <<"seed", << <<"typed", params[n + i][2], << >>>>, default(i)>> >>
    BY <1>2, <1>3
  <2> HIDE DEF rest
  <2> QED BY <2>1 DEF Leaves, Declares, TargetBinds
<1>8. \A i \in 1..l : n + i \in 1..m
  <2> HIDE DEF m, l
  <2> QED BY <1>1, <1>3
<1> HIDE DEF rest, given, m
<1>9. ASSUME NEW i \in 1..(l + 1)
      PROVE  given \cup LeftBefore(rest, i) = {params[j][2] : j \in {k \in 1..m : k <= n + i - 1}}
  <2>1. \A j \in 1..(i - 1) : j \in 1..l
    BY <1>3
  <2>2. LeftBefore(rest, i) = {params[n + j][2] : j \in 1..(i - 1)}
    <3>1. LeftBefore(rest, i) = UNION {Leaves(rest[j]) : j \in 1..(i - 1)}
      BY DEF LeftBefore
    <3>2. \A j \in 1..(i - 1) : Leaves(rest[j]) = {params[n + j][2]}
      BY <1>7, <2>1
    <3> HIDE DEF l
    <3>3. ASSUME NEW x \in LeftBefore(rest, i) PROVE x \in {params[n + j][2] : j \in 1..(i - 1)}
      <4>1. PICK j \in 1..(i - 1) : x \in Leaves(rest[j])
        BY <3>1, <3>3
      <4> QED BY <3>2, <4>1
    <3>4. ASSUME NEW x \in {params[n + j][2] : j \in 1..(i - 1)} PROVE x \in LeftBefore(rest, i)
      <4>1. PICK j \in 1..(i - 1) : x = params[n + j][2]
        BY <3>4
      <4> QED BY <3>1, <3>2, <4>1
    <3> QED BY <3>3, <3>4
  <2>3. ASSUME NEW x \in given \cup LeftBefore(rest, i)
        PROVE  x \in {params[j][2] : j \in {k \in 1..m : k <= n + i - 1}}
    <3>1. CASE x \in given
      <4>1. PICK j \in 1..m : j <= n /\ x = params[j][2]
        BY <1>5, <3>1
      <4>2. j <= n + i - 1
        BY <1>1, <1>3, <4>1
      <4> QED BY <4>1, <4>2
    <3>2. CASE x \in LeftBefore(rest, i)
      <4>1. PICK j \in 1..(i - 1) : x = params[n + j][2]
        BY <2>2, <3>2
      <4>2. n + j \in 1..m /\ n + j <= n + i - 1
        BY <1>1, <1>3, <1>8, <2>1
      <4> QED BY <4>1, <4>2
    <3> QED BY <2>3, <3>1, <3>2
  <2>4. ASSUME NEW x \in {params[j][2] : j \in {k \in 1..m : k <= n + i - 1}}
        PROVE  x \in given \cup LeftBefore(rest, i)
    <3>1. PICK j \in 1..m : j <= n + i - 1 /\ x = params[j][2]
      BY <2>4
    <3>2. CASE j <= n
      BY <1>5, <3>1, <3>2
    <3>3. CASE ~(j <= n)
      <4>1. j - n \in 1..(i - 1) /\ n + (j - n) = j
        BY <1>1, <1>3, <3>1, <3>3
      <4> QED BY <2>2, <3>1, <4>1
    <3> QED BY <3>2, <3>3
  <2> QED BY <2>3, <2>4
<1> HIDE DEF l
<1>10. l = 0 \/ n + l = m
  BY <1>1, <1>3
<1>11. l = 0 => m <= n
  BY <1>1, <1>3
<1> QED BY <1>1, <1>3, <1>4, <1>5, <1>6, <1>8, <1>9, <1>10, <1>11 DEF rest, given, m, Arrival

LEMMA DefaultKnown ==
    ASSUME NEW params, NEW n, NEW i, i \in DOMAIN Defaults(params, n)
    PROVE  LET p == params[n + i]
               s == Defaults(params, n)[i]
           IN  /\ s[1] = "seed" /\ s[2][1][1] = "typed" /\ s[2][1][2] = p[2]
               /\ s[2][2] = IF p[1] = "parameter" /\ p[4] # << >> THEN p[4][1] ELSE <<"constant", "void">>
<1>1. i \in 1..(Len(params) - n)
  BY DEF Defaults
<1> DEFINE p == params[n + i]
           d == IF p[1] = "parameter" /\ p[4] # << >> THEN p[4][1] ELSE <<"constant", "void">>
<1>2. Defaults(params, n)[i] = <<"seed", << <<"typed", p[2], << >>>>, d>> >>
  BY <1>1 DEF Defaults
<1> QED BY <1>2

LEMMA DeclaredInBoth ==
    ASSUME NEW rest, IsList(rest), NEW body, Listed(body)
    PROVE  DeclaredIn(rest \o body) = DeclaredIn(rest) \cup DeclaredIn(body)
<1>1. PICK S : rest \in Seq(S)
  BY DEF IsList
<1> DEFINE T == S \cup ToSet(body)
<1>2. rest \in Seq(T) /\ body \in Seq(T)
  BY <1>1, SeqMonotonic DEF Listed
<1> HIDE DEF T
<1>3. /\ Len(rest) \in Nat /\ DOMAIN rest = 1..Len(rest) /\ Len(body) \in Nat /\ DOMAIN body = 1..Len(body)
      /\ DOMAIN (rest \o body) = 1..(Len(rest) + Len(body))
      /\ \A i \in 1..(Len(rest) + Len(body)) :
           (rest \o body)[i] = IF i <= Len(rest) THEN rest[i] ELSE body[i - Len(rest)]
  BY <1>2, LenProperties, ConcatProperties
<1>4. ASSUME NEW i \in DOMAIN body PROVE body[i] \in ToSet(rest \o body)
  <2>1. /\ Len(rest) + i \in 1..(Len(rest) + Len(body)) /\ ~(Len(rest) + i <= Len(rest))
        /\ (Len(rest) + i) - Len(rest) = i
    BY <1>3
  <2> QED BY <1>3, <2>1 DEF ToSet
<1>5. ASSUME NEW i \in DOMAIN rest PROVE rest[i] \in ToSet(rest \o body)
  <2>1. i \in 1..(Len(rest) + Len(body)) /\ i <= Len(rest)
    BY <1>3
  <2> QED BY <1>3, <2>1 DEF ToSet
<1>6. ASSUME NEW i \in DOMAIN (rest \o body) PROVE (rest \o body)[i] \in ToSet(rest) \cup ToSet(body)
  <2>1. CASE i <= Len(rest)
    BY <1>3, <2>1 DEF ToSet
  <2>2. CASE ~(i <= Len(rest))
    <3>1. i - Len(rest) \in 1..Len(body)
      BY <1>3, <2>2
    <3> QED BY <1>3, <2>2, <3>1 DEF ToSet
  <2> QED BY <2>1, <2>2
<1>7. ToSet(rest \o body) = ToSet(rest) \cup ToSet(body)
  BY <1>4, <1>5, <1>6 DEF ToSet
<1> QED BY <1>7 DEF DeclaredIn

(* What is known of a call that arrives in a scope s of its own.           *)
Called(W, params, body, n, rest, s) ==
    /\ CalledValue[1] = "closure" /\ CalledValue[2] = params /\ CalledValue[3] = body
    /\ MadeOf(W, scopes, CalledValue) /\ CalledValue[4] \in 1..Len(scopes)
    /\ Listed(params) /\ SoberParams(params) /\ Listed(body)
    /\ n \in Nat /\ rest = Defaults(params, n) /\ IsList(rest)
    /\ Len(params) \in Nat /\ Len(rest) \in Nat /\ DOMAIN rest = 1..Len(rest)
    /\ DOMAIN s.vars = {params[j][2] : j \in {l \in 1..Len(params) : l <= n}}
    /\ \A i \in 1..(Len(rest) + 1) : DOMAIN s.vars \cup LeftBefore(rest, i)
         = {params[j][2] : j \in {l \in 1..Len(params) : l <= n + i - 1}}
    /\ \A i \in 1..Len(rest) : n + i \in 1..Len(params)
    /\ Len(rest) = 0 \/ n + Len(rest) = Len(params)
    /\ Len(rest) = 0 => Len(params) <= n
    /\ \A x \in DOMAIN s.vars : GoodValue(W, scopes, s.vars[x])
    /\ s.around = scopes[CalledValue[4]].around \cup {Len(scopes) + 1}
    /\ s.outside = scopes[CalledValue[4]].around
    /\ s.due = DeclaredIn(rest \o body) \ DOMAIN s.vars
    /\ GoodScopes(W, scopes) /\ GoodScopes(W, Append(scopes, s)) /\ Later(scopes, Append(scopes, s))
    /\ Len(scopes) \in Nat /\ Len(Append(scopes, s)) = Len(scopes) + 1
    /\ Append(scopes, s)[Len(scopes) + 1] = s
    /\ scopes' = Append(scopes, s)
    /\ stack' = <<Frame("arrival", Len(scopes) + 1, rest, body)>> \o Awaiting
    /\ untried' = (untried \cup MadeByCall \cup Unneeded(params, n)) \ {CalledValue}

LEMMA CallKnown ==
    ASSUME NEW W, Closed(W), Runs(W, scopes, stack, signal), CallAgent
    PROVE  \E params, body, n, rest, s : Called(W, params, body, n, rest, s)
<1> DEFINE e == Expression(This)
           v == CalledValue
           params == v[2]
           body == v[3]
           n == Len(Passed)
           rest == Defaults(params, n)
           vars == Arrive(params, Passed)
           k == Len(scopes) + 1
<1>1. /\ Here(Consuming) /\ Callee(e) # None /\ v[1] = "closure" /\ Missing \notin ToSet(Passed)
      /\ signal' = signal /\ signal[1] = "none"
  BY DEF CallAgent, Calling, Here, Running, Quiet, None
<1>2. /\ GoodScopes(W, scopes) /\ Top.at \in 1..Len(scopes)
      /\ Firm(W, scopes, Awaiting, {}) /\ Awaiting # << >>
  BY <1>1, AwaitingFirm
<1>3. PICK V0, F0 : WorksOn(W, scopes, Top, {}, V0, F0) /\ Evaluable(W, e, V0, F0)
  BY <1>1, AwaitingFirm
<1>4. Covered(scopes, F0, Top.at, scopes[Top.at].around)
  BY <1>3 DEF WorksOn
<1>5. MadeOf(W, scopes, v)
  <2> DEFINE c == Callee(e)
  <2>1. \/ GoodValue(W, scopes, Value(c, Top.at))
        \/ Value(c, Top.at) = Missing \/ Value(c, Top.at) = <<"capability", c[2]>>
    BY <1>1, <1>2, <1>3, <1>4, CalleeEvaluated
  <2>2. v = Value(c, Top.at)
    BY DEF CalledValue
  <2> HIDE DEF v, c
  <2>3. v # Missing /\ v # <<"capability", c[2]>>
    BY <1>1 DEF Missing
  <2> QED BY <1>1, <2>1, <2>2, <2>3 DEF GoodValue
<1>6. PICK F : Deferred(params, body, F) \subseteq W /\ Covered(scopes, F, v[4], scopes[v[4]].around)
  BY <1>5 DEF MadeOf
<1>7. v[4] \in 1..Len(scopes) /\ SoberParams(params) /\ Listed(params)
  BY <1>5 DEF MadeOf, SoberParams
<1>8. n \in Nat /\ \A i \in 1..n : GoodValue(W, scopes, Passed[i])
  <2> DEFINE args == Arguments(e)
  <2>1. /\ Listed(args)
        /\ \A x \in ToSet(args) : Value(x, Top.at) = Missing \/ GoodValue(W, scopes, Value(x, Top.at))
    BY <1>1, <1>2, <1>3, <1>4, ArgumentsEvaluated
  <2>2. Len(args) \in Nat /\ DOMAIN args = 1..Len(args)
    <3>1. args \in Seq(ToSet(args))
      BY <2>1 DEF Listed
    <3> QED BY <3>1, LenProperties
  <2>3. Passed = [i \in 1..Len(args) |-> Value(args[i], Top.at)]
    BY <2>2 DEF Passed
  <2>4. \A i \in 1..Len(args) : args[i] \in ToSet(args)
    BY <2>2 DEF ToSet
  <2> HIDE DEF args
  <2>5. Len(Passed) = Len(args)
    <3>1. [i \in 1..Len(args) |-> Value(args[i], Top.at)] \in Seq({Value(args[i], Top.at) : i \in 1..Len(args)})
      BY <2>2
    <3>2. Passed \in Seq({Value(args[i], Top.at) : i \in 1..Len(args)}) /\ DOMAIN Passed = 1..Len(args)
      BY <2>3, <3>1
    <3>3. Len(Passed) \in Nat /\ 1..Len(Passed) = 1..Len(args)
      BY <3>2, LenProperties
    <3> HIDE DEF v, e
    <3> QED BY <2>2, <3>2
  <2>6. \A i \in 1..Len(args) : Passed[i] \in ToSet(Passed)
    BY <2>3 DEF ToSet
  <2> QED BY <1>1, <2>1, <2>2, <2>3, <2>4, <2>5, <2>6
<1>26. Len(Passed) = n
  OBVIOUS
<1> DEFINE given == DOMAIN vars
<1>9. /\ Len(params) \in Nat /\ IsList(rest) /\ Len(rest) \in Nat /\ DOMAIN rest = 1..Len(rest)
      /\ given = {params[j][2] : j \in {l \in 1..Len(params) : l <= n}}
      /\ \A x \in given : vars[x] = Data \/ \E j \in 1..n : vars[x] = Passed[j]
      /\ \A i \in 1..(Len(rest) + 1) : given \cup LeftBefore(rest, i)
           = {params[j][2] : j \in {l \in 1..Len(params) : l <= n + i - 1}}
      /\ \A i \in 1..Len(rest) : n + i \in 1..Len(params)
      /\ Len(rest) = 0 \/ n + Len(rest) = Len(params)
      /\ Len(rest) = 0 => Len(params) <= n
  <2>1. Listed(params) /\ n \in Nat
    BY <1>7, <1>8
  <2> HIDE DEF params, n
  <2>2. Arrival(params, Passed, n)
    BY <1>26, <2>1, ArrivalKnown
  <2> QED BY <2>2 DEF Arrival
<1>10. \A x \in DOMAIN vars : GoodValue(W, scopes, vars[x])
  BY <1>8, <1>9, DataGood
<1> DEFINE around == scopes[v[4]].around
           due == DeclaredIn(rest \o body) \ DOMAIN vars
           s == [vars |-> vars, around |-> around \cup {k}, outside |-> around, due |-> due]
           sd == Append(scopes, s)
           f == Frame("arrival", k, rest, body)
<1>11. /\ scopes' = sd /\ stack' = <<f>> \o Awaiting
       /\ untried' = (untried \cup MadeByCall \cup Unneeded(params, n)) \ {v}
  BY DEF CallAgent, Scope
<1>12. around \subseteq 1..Len(scopes)
  <2>1. around \subseteq 1..v[4]
    BY <1>2, <1>7 DEF GoodScopes, GoodScope
  <2>2. 1..v[4] \subseteq 1..Len(scopes)
    BY <1>2, <1>7, ListKnown DEF GoodScopes
  <2> QED BY <2>1, <2>2
<1> HIDE DEF v, n, rest, vars, due, around
<1>13. GoodScopes(W, sd) /\ Later(scopes, sd) /\ Len(sd) = k /\ sd[k] = s
  <2>1. Len(scopes) \in Nat
    BY <1>2, ListKnown DEF GoodScopes
  <2>2. s.vars = vars /\ s.around = around \cup {k} /\ s.outside = around
    OBVIOUS
  <2>3. s = [vars |-> s.vars, around |-> s.around, outside |-> s.outside, due |-> s.due]
    OBVIOUS
  <2> HIDE DEF s
  <2>4. s.around \subseteq 1..k /\ k \in s.around /\ s.outside \subseteq s.around
    <3>1. 1..Len(scopes) \subseteq 1..k /\ k \in 1..k
      BY <2>1
    <3> HIDE DEF k
    <3> QED BY <1>12, <2>2, <3>1
  <2>5. GoodScope(W, scopes, k, s)
    BY <1>10, <2>2, <2>3, <2>4 DEF GoodScope, GoodBinding
  <2> QED BY <1>2, <2>5, ScopeAdded
<1>14. Listed(body)
  <2> DEFINE b == OfBody(body, Child(params, Len(params), F))
  <2>1. b \in W
    BY <1>6 DEF Deferred
  <2>2. b[1] = "body" /\ b[2] = body /\ Sober(b)
    BY <2>1 DEF OfBody, Closed
  <2> QED BY <2>2 DEF Sober
<1>15. Len(scopes) \in Nat
  BY <1>2, ListKnown DEF GoodScopes
<1>16. /\ s.vars = vars /\ s.around = around \cup {k} /\ s.outside = around
       /\ s.due = DeclaredIn(rest \o body) \ DOMAIN vars
  BY DEF due
<1> HIDE DEF s
<1>17. Called(W, params, body, n, rest, s)
  BY <1>1, <1>2, <1>5, <1>7, <1>8, <1>9, <1>10, <1>11, <1>13, <1>14, <1>15, <1>16 DEF Called, v, rest, around
<1> QED BY <1>17

LEMMA CallAgentStep ==
    ASSUME NEW W, Closed(W), Runs(W, scopes, stack, signal), CallAgent
    PROVE  Runs(W, scopes', stack', signal')
<1>1. /\ Here(Consuming) /\ Callee(Expression(This)) # None
      /\ signal' = signal /\ signal[1] = "none"
  BY DEF CallAgent, Calling, Here, Running, Quiet, None
<1>2. PICK params, body, n, rest, s : Called(W, params, body, n, rest, s)
  BY CallKnown
<1> DEFINE v == CalledValue
           vars == s.vars
           given == DOMAIN vars
           k == Len(scopes) + 1
           around == scopes[v[4]].around
           due == DeclaredIn(rest \o body) \ given
           sd == Append(scopes, s)
           f == Frame("arrival", k, rest, body)
<1>3. /\ GoodScopes(W, scopes) /\ Firm(W, scopes, Awaiting, {}) /\ Awaiting # << >>
  BY <1>1, AwaitingFirm
<1>6. PICK F : Deferred(params, body, F) \subseteq W /\ Covered(scopes, F, v[4], around)
  BY <1>2 DEF Called, MadeOf
<1>7. v[4] \in 1..Len(scopes) /\ SoberParams(params) /\ Listed(params)
  BY <1>2 DEF Called
<1>8. n \in Nat /\ rest = Defaults(params, n)
  BY <1>2 DEF Called
<1>9. /\ Len(params) \in Nat /\ IsList(rest) /\ Len(rest) \in Nat /\ DOMAIN rest = 1..Len(rest)
      /\ \A i \in 1..(Len(rest) + 1) : given \cup LeftBefore(rest, i)
           = {params[j][2] : j \in {l \in 1..Len(params) : l <= n + i - 1}}
      /\ \A i \in 1..Len(rest) : n + i \in 1..Len(params)
      /\ Len(rest) = 0 \/ n + Len(rest) = Len(params)
      /\ Len(rest) = 0 => Len(params) <= n
  BY <1>2 DEF Called
<1>10. \A x \in given : GoodValue(W, scopes, vars[x])
  BY <1>2 DEF Called
<1>11. scopes' = sd /\ stack' = <<f>> \o Awaiting
  BY <1>2 DEF Called
<1>13. GoodScopes(W, sd) /\ Later(scopes, sd) /\ Len(sd) = k /\ sd[k] = s
  BY <1>2 DEF Called
<1>14. sd[k].vars = vars /\ sd[k].around = around \cup {k} /\ sd[k].outside = around /\ sd[k].due = due
  BY <1>2 DEF Called
<1>15. k \in 1..Len(sd) /\ f.is = "arrival" /\ f.at = k /\ f.rest = rest /\ f.target = body
  <2>1. Len(scopes) \in Nat
    BY <1>2 DEF Called
  <2> QED BY <1>13, <2>1 DEF Frame
<1> HIDE DEF v, vars, due, around, sd, f
<1>16. \A x \in given : OwnAt(sd[k], x)
  BY <1>10, <1>14 DEF OwnAt, GoodValue
<1>17. \A x \in F : Own(sd, k, x) \/ Pending(sd, around, x)
  <2>1. Covered(sd, F, v[4], around)
    BY <1>3, <1>6, <1>7, <1>13, CoveredLater DEF around
  <2>2. sd[v[4]].around = around
    BY <1>7, <1>13 DEF Later, LaterAt, around
  <2> QED BY <1>14, <2>1, <2>2 DEF Covered, Own
<1> DEFINE V == F \cup given
<1>18. Covered(sd, V \ {}, f.at, sd[f.at].outside) /\ Covered(sd, F, f.at, sd[f.at].around)
  <2>1. \A x \in V : Own(sd, k, x) \/ Pending(sd, around, x)
    BY <1>14, <1>16, <1>17 DEF Own
  <2>2. \A x \in F : Own(sd, k, x) \/ Pending(sd, around \cup {k}, x)
    BY <1>17 DEF Pending
  <2> QED BY <1>14, <1>15, <2>1, <2>2 DEF Covered
<1>19. ASSUME NEW i \in DOMAIN rest PROVE DefaultSeen(W, rest[i], V \cup LeftBefore(rest, i), F)
  <2> DEFINE p == params[n + i]
             d == rest[i][2][2]
  <2>1. /\ rest[i][1] = "seed" /\ rest[i][2][1][1] = "typed"
        /\ d = <<"constant", "void">> \/ (p[1] = "parameter" /\ p[4] # << >> /\ d = p[4][1])
    BY <1>8, <1>19, DefaultKnown
  <2>2. CASE d = <<"constant", "void">>
    BY <2>1, <2>2 DEF DefaultSeen, Evaluable
  <2>3. CASE p[1] = "parameter" /\ p[4] # << >> /\ d = p[4][1]
    <3>0. i \in 1..Len(rest) /\ n + i \in 1..Len(params) /\ i \in 1..(Len(rest) + 1)
      BY <1>9, <1>19
    <3>1. n + i \in DOMAIN params /\ p \in ToSet(params)
      <4>1. params \in Seq(ToSet(params))
        BY <1>7 DEF Listed
      <4> QED BY <3>0, <4>1, LenProperties DEF ToSet
    <3> HIDE DEF p, d
    <3>2. d \in DefaultsOf(p)
      <4>1. p[4] \in Seq(ToSet(p[4]))
        BY <1>7, <2>3, <3>1 DEF SoberParams, Listed
      <4>2. 1 \in DOMAIN p[4]
        BY <2>3, <4>1, LenProperties, EmptySeq
      <4> QED BY <2>3, <4>2 DEF DefaultsOf, ToSet
    <3>3. Harmless(ValuesOf(d)) /\ Simple(Callee(d)) /\ p[2] \notin CalleeName(d)
      BY <1>7, <3>1, <3>2 DEF SoberParams
    <3> DEFINE U == Child(params, n + i, F)
    <3>4. OfExpr(d, U, F) \in W
      <4>1. OfExpr(d, U, F) \in {OfExpr(x, Child(params, n + i, F), F) : x \in DefaultsOf(params[n + i])}
        BY <3>2 DEF p
      <4>2. OfExpr(d, U, F) \in Deferred(params, body, F)
        BY <3>1, <4>1 DEF Deferred
      <4> QED BY <1>6, <4>2
    <3>5. (U \ (V \cup LeftBefore(rest, i))) \cap CalleeName(d) = {}
      <4>1. ASSUME NEW x \in U \ (V \cup LeftBefore(rest, i)) PROVE x = p[2]
        <5>1. x \notin F /\ x \notin given \cup LeftBefore(rest, i)
          BY <4>1
        <5>2. PICK j \in 1..(n + i) : x = params[j][2]
          BY <4>1, <5>1 DEF Child
        <5>3. x \notin {params[l][2] : l \in {l \in 1..Len(params) : l <= n + i - 1}}
          BY <1>9, <3>0, <5>1
        <5>4. j \in 1..Len(params) /\ (j <= n + i - 1 \/ j = n + i)
          BY <1>8, <1>9, <3>0
        <5> QED BY <5>2, <5>3, <5>4 DEF p
      <4> QED BY <3>3, <4>1
    <3>6. Evaluable(W, d, V \cup LeftBefore(rest, i), F)
      BY <3>3, <3>4, <3>5 DEF Evaluable
    <3> QED BY <2>1, <3>6 DEF DefaultSeen, d
  <2> QED BY <2>1, <2>2, <2>3
<1>20. OfBody(body, V \cup LeftBefore(rest, Len(rest) + 1)) \in W
  <2>1. given \cup LeftBefore(rest, Len(rest) + 1)
          = {params[j][2] : j \in {l \in 1..Len(params) : l <= n + (Len(rest) + 1) - 1}}
    <3>1. Len(rest) + 1 \in 1..(Len(rest) + 1)
      BY <1>9
    <3> QED BY <1>9, <3>1
  <2>2. \A l \in 1..Len(params) : l <= n + (Len(rest) + 1) - 1
    BY <1>8, <1>9
  <2>3. {l \in 1..Len(params) : l <= n + (Len(rest) + 1) - 1} = 1..Len(params)
    BY <2>2
  <2>4. V \cup LeftBefore(rest, Len(rest) + 1) = Child(params, Len(params), F)
    BY <2>1, <2>3 DEF Child
  <2> QED BY <1>6, <2>4 DEF Deferred
<1>21. \A x \in DeclaredIn(body) : OwnAt(sd[k], x) \/ x \in sd[k].due
  <2>1. Listed(body)
    BY <1>2 DEF Called
  <2>2. DeclaredIn(body) \subseteq DeclaredIn(rest \o body)
    BY <1>9, <2>1, DeclaredInBoth
  <2> QED BY <1>14, <1>16, <2>2 DEF due
<1>22. WorksOn(W, sd, f, {}, V, F)
  <2>1. Arrived(W, sd[f.at], f.target, V \cup LeftBefore(f.rest, Len(f.rest) + 1))
    BY <1>15, <1>20, <1>21 DEF Arrived
  <2> QED BY <1>9, <1>15, <1>18, <1>19, <2>1 DEF WorksOn, StepSeen
<1>23. Sound(W, sd, f, {}) /\ Slack(f) = {} /\ f.is # "seed"
  <2>1. f = Frame(f.is, f.at, f.rest, f.target)
    BY DEF f, Frame
  <2> QED BY <1>15, <1>22, <2>1 DEF Sound, Anchored, Slack
<1>24. Firm(W, sd, <<f>> \o Awaiting, {})
  <2>1. Firm(W, sd, Awaiting, {})
    BY <1>3, <1>13, FirmLater
  <2> QED BY <1>23, <2>1, FirmPush
<1>25. Runs(W, sd, <<f>> \o Awaiting, signal)
  BY <1>1, <1>13, <1>24, RunsOn
<1> QED BY <1>1, <1>11, <1>25

(* A block opens, in a scope of its own.                                   *)
LEMMA Opened ==
    ASSUME NEW W, GoodScopes(W, scopes), NEW at \in 1..Len(scopes),
           NEW vars, \A n \in DOMAIN vars : GoodValue(W, scopes, vars[n]),
           NEW stmts, NEW below, Open(vars, at, stmts, below)
    PROVE  LET k == Len(scopes) + 1
               s == scopes'[k]
           IN  /\ Len(scopes) \in Nat /\ scopes' = Append(scopes, s) /\ Len(scopes') = k
               /\ s.vars = vars /\ s.around = scopes[at].around \cup {k}
               /\ s.outside = scopes[at].outside /\ s.due = DeclaredIn(stmts) \ DOMAIN vars
               /\ stack' = <<Frame("block", k, stmts, None)>> \o below
               /\ GoodScopes(W, scopes') /\ Later(scopes, scopes')
<1> DEFINE k == Len(scopes) + 1
           s == Scope(vars, scopes[at].around, scopes[at].outside, stmts)
<1>1. Len(scopes) \in Nat
  BY ListKnown DEF GoodScopes
<1>2. scopes' = Append(scopes, s) /\ stack' = <<Frame("block", k, stmts, None)>> \o below
  BY DEF Open
<1>3. /\ s.vars = vars /\ s.around = scopes[at].around \cup {k} /\ s.outside = scopes[at].outside
      /\ s.due = DeclaredIn(stmts) \ DOMAIN vars
      /\ s = [vars |-> s.vars, around |-> s.around, outside |-> s.outside, due |-> s.due]
  BY DEF Scope
<1> HIDE DEF s
<1>4. GoodScope(W, scopes, k, s)
  <2>1. scopes[at].around \subseteq 1..at /\ scopes[at].outside \subseteq scopes[at].around
    BY DEF GoodScopes, GoodScope
  <2>2. 1..at \subseteq 1..k /\ k \in 1..k
    BY <1>1
  <2> HIDE DEF k
  <2>3. s.around \subseteq 1..k /\ k \in s.around /\ s.outside \subseteq s.around
    BY <1>3, <2>1, <2>2
  <2> QED BY <1>3, <2>3 DEF GoodScope, GoodBinding
<1>5. /\ GoodScopes(W, Append(scopes, s)) /\ Later(scopes, Append(scopes, s))
      /\ Len(Append(scopes, s)) = k /\ Append(scopes, s)[k] = s
  BY <1>4, ScopeAdded
<1> QED BY <1>1, <1>2, <1>3, <1>5

LEMMA OpenSound ==
    ASSUME NEW W, Closed(W), GoodScopes(W, scopes), NEW at \in 1..Len(scopes),
           NEW vars, \A n \in DOMAIN vars : GoodValue(W, scopes, vars[n]),
           NEW stmts, NEW V, Covered(scopes, V, at, scopes[at].outside),
           OfBody(stmts, V \cup DOMAIN vars) \in W,
           NEW below, Firm(W, scopes, below, {}), Open(vars, at, stmts, below)
    PROVE  GoodScopes(W, scopes') /\ Firm(W, scopes', stack', {})
<1> DEFINE k == Len(scopes) + 1
           sd == scopes'
           f == Frame("block", k, stmts, None)
           U == V \cup DOMAIN vars
<1>1. /\ Len(scopes) \in Nat /\ Len(sd) = k /\ sd[k].vars = vars
      /\ sd[k].around = scopes[at].around \cup {k} /\ sd[k].outside = scopes[at].outside
      /\ sd[k].due = DeclaredIn(stmts) \ DOMAIN vars
      /\ stack' = <<f>> \o below /\ GoodScopes(W, sd) /\ Later(scopes, sd)
  BY Opened
<1>2. k \in 1..Len(sd)
  BY <1>1
<1> HIDE DEF sd, k, f
<1>3. Covered(sd, U, k, sd[k].outside)
  <2>1. Covered(sd, V, at, scopes[at].outside)
    <3>1. scopes[at].outside \subseteq scopes[at].around
      BY DEF GoodScopes, GoodScope
    <3> QED BY <1>1, <3>1, CoveredLater
  <2>2. sd[at].around = scopes[at].around
    BY <1>1 DEF Later, LaterAt
  <2>3. \A n \in DOMAIN vars : OwnAt(sd[k], n)
    BY <1>1 DEF OwnAt, GoodValue
  <2> QED BY <1>1, <2>1, <2>2, <2>3 DEF Covered, Own
<1>4. \A n \in DeclaredIn(stmts) : OwnAt(sd[k], n) \/ n \in sd[k].due
  BY <1>1 DEF OwnAt, GoodValue
<1>5. Sound(W, sd, f, {})
  BY <1>1, <1>2, <1>3, <1>4, BeginsSound DEF f
<1>6. Firm(W, sd, <<f>> \o below, {})
  <2>1. Firm(W, sd, below, {})
    BY <1>1, FirmLater
  <2>2. f.is = "block" /\ Slack(f) = {}
    BY DEF f, Frame, Slack
  <2> QED BY <1>5, <2>1, <2>2, FirmPush
<1> QED BY <1>1, <1>6 DEF sd

LEMMA QuietKnown == Quiet[1] \notin {"value", "report"}
  BY DEF Quiet, None

LEMMA BeginStep ==
    ASSUME NEW W, Closed(W), Runs(W, scopes, stack, signal), Begin
    PROVE  Runs(W, scopes', stack', signal')
<1>1. /\ GoodScopes(W, scopes) /\ Sound(W, scopes, Top, {}) /\ Top.at \in 1..Len(scopes)
      /\ Firm(W, scopes, Tail(stack), Slack(Top))
  BY TopRuns DEF Begin
<1>2. /\ Top.is = "arrival" /\ Top.rest = << >> /\ Slack(Top) = {} /\ scopes' = scopes
      /\ signal[1] = "none"
  BY DEF Begin, Slack, Running, Quiet, None
<1>3. CASE stack' = Tail(stack) /\ signal' = Failure
  <2>1. signal'[1] \notin {"value", "report"}
    BY <1>3 DEF Failure
  <2> QED BY <1>1, <1>2, <1>3, <2>1, RunsOn
<1>4. CASE stack' = <<Frame("agent", Top.at, Top.target, None)>> \o Tail(stack) /\ signal' = signal
  <2> DEFINE f == Frame("agent", Top.at, Top.target, None)
  <2>1. PICK V, F : WorksOn(W, scopes, Top, {}, V, F)
    BY <1>1, <1>2 DEF Sound, Working
  <2>2. V \cup LeftBefore(Top.rest, Len(Top.rest) + 1) = V
    <3>1. Len(Top.rest) + 1 = 1
      BY <1>2
    <3>2. LeftBefore(Top.rest, 1) = {}
      BY DEF LeftBefore
    <3> QED BY <3>1, <3>2
  <2>3. Arrived(W, scopes[Top.at], Top.target, V)
    BY <1>2, <2>1, <2>2 DEF WorksOn
  <2>4. Covered(scopes, V, Top.at, scopes[Top.at].outside)
    <3>1. V \ {} = V
      OBVIOUS
    <3> QED BY <2>1, <3>1 DEF WorksOn
  <2>5. Sound(W, scopes, f, {})
    BY <1>1, <2>3, <2>4, BeginsSound DEF Arrived
  <2>6. f.is = "agent" /\ Slack(f) = {}
    BY DEF Frame, Slack
  <2> HIDE DEF f
  <2>7. Firm(W, scopes, <<f>> \o Tail(stack), {})
    BY <1>1, <1>2, <2>5, <2>6, FirmPush
  <2>8. stack' = <<f>> \o Tail(stack)
    BY <1>4 DEF f
  <2> QED BY <1>1, <1>2, <1>4, <2>7, <2>8, RunsOn
<1> QED BY <1>3, <1>4 DEF Begin

LEMMA CallNativeStep ==
    ASSUME NEW W, Closed(W), Runs(W, scopes, stack, signal), CallNative
    PROVE  Runs(W, scopes', stack', signal')
<1>1. GoodScopes(W, scopes) /\ Firm(W, scopes, Awaiting, {})
  BY AwaitingFirm DEF CallNative, Calling
<1>2. scopes' = scopes /\ stack' = Awaiting /\ (signal' = Valued(Data) \/ signal' = Failure)
  BY DEF CallNative
<1>3. signal'[1] \notin {"value", "report"} \/ GoodValue(W, scopes, signal'[2])
  <2>1. Valued(Data)[1] \notin {"value", "report"} \/ GoodValue(W, scopes, Valued(Data)[2])
    BY DataGood, ValuedKnown
  <2>2. Failure[1] \notin {"value", "report"}
    BY DEF Failure
  <2> QED BY <1>2, <2>1, <2>2
<1> QED BY <1>1, <1>2, <1>3, RunsOn

LEMMA CallFailsStep ==
    ASSUME NEW W, Closed(W), Runs(W, scopes, stack, signal), CallFails
    PROVE  Runs(W, scopes', stack', signal')
<1>1. GoodScopes(W, scopes) /\ Firm(W, scopes, Awaiting, {})
  BY AwaitingFirm DEF CallFails, Calling
<1>2. scopes' = scopes /\ stack' = Awaiting /\ signal'[1] \notin {"value", "report"}
  BY DEF CallFails, Failure
<1> QED BY <1>1, <1>2, RunsOn

(* Blocks.                                                                 *)
LEMMA BranchesKnown ==
    ASSUME NEW W, Closed(W), GoodScopes(W, scopes), NEW at \in 1..Len(scopes),
           NEW s, s[1] \in Branched, NEW V, NEW F, NEW is, StepSeen(W, is, s, V, F),
           Covered(scopes, F, at, scopes[at].around), Value(Condition(s), at) # Missing,
           NEW b \in Branches(s, Value(Condition(s), at))
    PROVE  /\ OfBody(b[2], V \cup DOMAIN b[1]) \in W
           /\ \A n \in DOMAIN b[1] : GoodValue(W, scopes, b[1][n])
<1> DEFINE v == Value(Condition(s), at)
           c == s[2]
<1>1. InStatement(s, V, F) \subseteq W /\ Harmless(ValuesIn(s))
  <2>1. s[1] # "seed"
    BY DEF Branched
  <2> QED BY <2>1, StatementSeen
<1>2. GoodValue(W, scopes, v)
  <2> DEFINE e == Condition(s)
  <2>1. OfExpr(e, V, F) \in W
    <3>1. OfExpr(e, V, F) \in InStatement(s, V, F)
      BY DEF InStatement, Condition, Branched
    <3> QED BY <1>1, <3>1
  <2>2. ValuesIn(s) = {e}
    BY DEF ValuesIn, Branched, Consuming
  <2>3. e[1] = "name" => e[2] \notin Capability
    BY <1>1, <2>2 DEF Harmless
  <2> HIDE DEF e
  <2>4. Value(e, at) = Missing \/ GoodValue(W, scopes, Value(e, at))
    BY <2>1, <2>3, ValueGood
  <2> QED BY <2>4 DEF e
<1> HIDE DEF v
<1>3. ASSUME NEW names, NEW w, NEW stmts, b = <<Names(names, w), stmts>>,
             OfBody(stmts, V \cup names) \in W, names = {} \/ GoodValue(W, scopes, w)
      PROVE  /\ OfBody(b[2], V \cup DOMAIN b[1]) \in W
             /\ \A n \in DOMAIN b[1] : GoodValue(W, scopes, b[1][n])
  <2>1. b[1] = [n \in names |-> w] /\ b[2] = stmts
    BY <1>3 DEF Names
  <2>2. DOMAIN b[1] = names /\ \A n \in names : b[1][n] = w
    BY <2>1
  <2> QED BY <1>3, <2>1, <2>2
<1>4. b \in Branches(s, v)
  BY DEF v
<1>5. GoodValue(W, scopes, Data)
  BY DataGood
<1>6. CASE s[1] = "when"
  <2>1. b = <<Names({}, v), c[2]>> \/ (c[3][1] = "else" /\ b = <<Names({}, v), c[3][2]>>)
    BY <1>4, <1>6 DEF Branches
  <2>2. /\ OfBody(c[2], V \cup {}) \in W
        /\ c[3][1] = "else" => OfBody(c[3][2], V \cup {}) \in W
    BY <1>1, <1>6 DEF InStatement
  <2> HIDE DEF c
  <2>3. CASE b = <<Names({}, v), c[2]>>
    BY <1>3, <2>2, <2>3
  <2>4. CASE c[3][1] = "else" /\ b = <<Names({}, v), c[3][2]>>
    BY <1>3, <2>2, <2>4
  <2> QED BY <2>1, <2>3, <2>4
<1>7. CASE s[1] = "reinforce"
  <2>1. b = <<Names({}, v), c[3]>>
    BY <1>4, <1>7 DEF Branches
  <2>2. OfBody(c[3], V \cup {}) \in W
    BY <1>1, <1>7 DEF InStatement
  <2> HIDE DEF c
  <2> QED BY <1>3, <2>1, <2>2
<1>8. CASE s[1] = "for"
  <2>1. b = <<Names({c[1]}, Data), c[3]>>
    BY <1>4, <1>8 DEF Branches
  <2>2. OfBody(c[3], V \cup {c[1]}) \in W
    BY <1>1, <1>8 DEF InStatement
  <2> HIDE DEF c
  <2> QED BY <1>3, <1>5, <2>1, <2>2
<1>9. CASE s[1] = "match"
  <2>1. PICK arm \in ToSet(c[2]) :
          b = <<Names(PatternBinds(arm[1]), IF arm[1][1] = "bind" THEN v ELSE Data), arm[2]>>
    BY <1>4, <1>9 DEF Branches
  <2>2. OfBody(arm[2], V \cup PatternBinds(arm[1])) \in W
    BY <1>1, <1>9 DEF InStatement
  <2> DEFINE w == IF arm[1][1] = "bind" THEN v ELSE Data
  <2>3. GoodValue(W, scopes, w)
    BY <1>2, <1>5
  <2>4. b = <<Names(PatternBinds(arm[1]), w), arm[2]>>
    BY <2>1
  <2> HIDE DEF w
  <2> QED BY <1>3, <2>2, <2>3, <2>4
<1> QED BY <1>6, <1>7, <1>8, <1>9 DEF Branched

LEMMA EnterStep ==
    ASSUME NEW W, Closed(W), Runs(W, scopes, stack, signal), Enter
    PROVE  Runs(W, scopes', stack', signal')
<1>1. /\ GoodScopes(W, scopes) /\ Top.at \in 1..Len(scopes) /\ This[1] \in Branched
      /\ Firm(W, scopes, stack, {}) /\ Firm(W, scopes, Onward, Leaves(This))
  BY HereRuns DEF Enter, Branching
<1>2. PICK V, F : WorksOn(W, scopes, Top, {}, V, F) /\ StepSeen(W, Top.is, This, V, F)
  BY HereRuns DEF Enter, Branching
<1>3. PICK b \in Branches(This, Value(Condition(This), Top.at)), below \in {Onward, stack} :
         Value(Condition(This), Top.at) # Missing /\ Open(b[1], Top.at, b[2], below)
  BY DEF Enter
<1>4. Leaves(This) = {}
  BY <1>1 DEF Leaves, Declares, Branched
<1>5. Firm(W, scopes, below, {})
  BY <1>1, <1>3, <1>4
<1>6. Covered(scopes, F, Top.at, scopes[Top.at].around)
  BY <1>2 DEF WorksOn
<1>7. Covered(scopes, V, Top.at, scopes[Top.at].outside)
  <2>1. V \ {} = V
    OBVIOUS
  <2> QED BY <1>2, <2>1 DEF WorksOn
<1>8. /\ OfBody(b[2], V \cup DOMAIN b[1]) \in W
      /\ \A n \in DOMAIN b[1] : GoodValue(W, scopes, b[1][n])
  BY <1>1, <1>2, <1>3, <1>6, BranchesKnown
<1>9. GoodScopes(W, scopes') /\ Firm(W, scopes', stack', {})
  BY <1>1, <1>3, <1>5, <1>7, <1>8, OpenSound
<1>10. signal' = Quiet
  BY DEF Enter, Branching, Here, Running
<1> QED BY <1>9, <1>10, QuietKnown, RunsOn

LEMMA PassByStep ==
    ASSUME NEW W, Closed(W), Runs(W, scopes, stack, signal), Skip
    PROVE  Runs(W, scopes', stack', signal')
<1>1. GoodScopes(W, scopes) /\ This[1] \in Branched /\ Firm(W, scopes, Onward, Leaves(This))
  BY HereRuns DEF Skip, Branching
<1>2. Leaves(This) = {}
  BY <1>1 DEF Leaves, Declares, Branched
<1>3. scopes' = scopes /\ stack' = Onward /\ signal' = Quiet
  BY DEF Skip, Branching, Here, Running
<1> QED BY <1>1, <1>2, <1>3, QuietKnown, RunsOn

LEMMA StumbleStep ==
    ASSUME NEW W, Closed(W), Runs(W, scopes, stack, signal), Stumble
    PROVE  Runs(W, scopes', stack', signal')
<1>1. GoodScopes(W, scopes) /\ Firm(W, scopes, stack, {})
  BY HereRuns DEF Stumble, Branching
<1>2. scopes' = scopes /\ stack' = stack /\ signal'[1] \notin {"value", "report"}
  BY DEF Stumble, Failure
<1> QED BY <1>1, <1>2, RunsOn

LEMMA AttemptStep ==
    ASSUME NEW W, Closed(W), Runs(W, scopes, stack, signal), Attempt
    PROVE  Runs(W, scopes', stack', signal')
<1> DEFINE c == This[2]
           f == Frame("attempt", Top.at, c[3], <<"typed", c[2], << >>>>)
<1>1. /\ GoodScopes(W, scopes) /\ Top.at \in 1..Len(scopes) /\ This[1] = "attempt"
      /\ Firm(W, scopes, Onward, Leaves(This))
  BY HereRuns DEF Attempt
<1>2. PICK V, F : WorksOn(W, scopes, Top, {}, V, F) /\ StepSeen(W, Top.is, This, V, F)
  BY HereRuns DEF Attempt
<1>3. Leaves(This) = {}
  BY <1>1 DEF Leaves, Declares
<1>4. OfBody(c[1], V \cup {}) \in W /\ OfBody(c[3], V \cup {c[2]}) \in W
  <2>1. InStatement(This, V, F) \subseteq W
    BY <1>1, <1>2, StatementSeen
  <2> QED BY <1>1, <2>1 DEF InStatement
<1>5. Covered(scopes, V, Top.at, scopes[Top.at].outside)
  <2>1. V \ {} = V
    OBVIOUS
  <2> QED BY <1>2, <2>1 DEF WorksOn
<1>6. f.is = "attempt" /\ f.at = Top.at /\ f.rest = c[3] /\ f.target[2] = c[2]
  BY DEF Frame
<1>7. f = Frame(f.is, f.at, f.rest, f.target)
  BY DEF Frame
<1>8. Open(Names({}, Data), Top.at, c[1], <<f>> \o Onward) /\ signal' = Quiet
  BY DEF Attempt, Here, Running
<1> HIDE DEF f, c
<1>9. Sound(W, scopes, f, {}) /\ Slack(f) = {}
  <2>1. Watches(W, scopes, f, V)
    BY <1>4, <1>5, <1>6 DEF Watches
  <2>2. Anchored(W, scopes, f)
    BY <1>1, <1>6, <1>7, <2>1 DEF Anchored
  <2> QED BY <1>6, <2>2 DEF Sound, Working, Slack
<1>10. Firm(W, scopes, <<f>> \o Onward, {})
  BY <1>1, <1>3, <1>6, <1>9, FirmPush
<1>11. DOMAIN Names({}, Data) = {}
  BY DEF Names
<1>12. GoodScopes(W, scopes') /\ Firm(W, scopes', stack', {})
  BY <1>1, <1>4, <1>5, <1>8, <1>10, <1>11, OpenSound
<1> QED BY <1>8, <1>12, QuietKnown, RunsOn

(* Ends.                                                                   *)
LEMMA FinishStep ==
    ASSUME NEW W, Closed(W), Runs(W, scopes, stack, signal), Finish
    PROVE  Runs(W, scopes', stack', signal')
<1>1. GoodScopes(W, scopes) /\ Firm(W, scopes, Tail(stack), Slack(Top))
  BY TopRuns DEF Finish
<1>2. Slack(Top) = {} /\ scopes' = scopes /\ stack' = Tail(stack)
  BY DEF Finish, Slack
<1>3. signal'[1] \notin {"value", "report"} \/ GoodValue(W, scopes, signal'[2])
  <2>1. Valued(Data)[1] \notin {"value", "report"} \/ GoodValue(W, scopes, Valued(Data)[2])
    BY DataGood, ValuedKnown
  <2>2. signal' = Valued(Data) \/ signal' = Quiet
    BY DEF Finish
  <2> QED BY <2>1, <2>2, QuietKnown
<1> QED BY <1>1, <1>2, <1>3, RunsOn

LEMMA UnwindStep ==
    ASSUME NEW W, Closed(W), Runs(W, scopes, stack, signal), Unwind
    PROVE  Runs(W, scopes', stack', signal')
<1>1. stack # << >> /\ Leaving(signal) /\ scopes' = scopes /\ stack' = Tail(stack) /\ signal' = signal
  BY DEF Unwind, Leaving
<1>2. Firm(W, scopes, Tail(stack), Slack(Head(stack)))
  BY <1>1, TopFalls DEF Falls
<1>3. Firm(W, scopes, Tail(stack), {}) \/ Falls(W, scopes, Tail(stack))
  BY <1>2, FallsOn
<1> QED BY <1>1, <1>3 DEF Runs

LEMMA ReturnStep ==
    ASSUME NEW W, Closed(W), Runs(W, scopes, stack, signal), Return
    PROVE  Runs(W, scopes', stack', signal')
<1>1. /\ stack # << >> /\ signal[1] = "report" /\ Top.is = "agent"
      /\ scopes' = scopes /\ stack' = Tail(stack) /\ signal' = Valued(signal[2])
  BY DEF Return, Stops
<1>2. GoodScopes(W, scopes) /\ GoodValue(W, scopes, signal[2])
  BY <1>1 DEF Runs
<1>3. Firm(W, scopes, Tail(stack), Slack(Top))
  BY <1>1, TopFalls DEF Falls, Top
<1>4. Slack(Top) = {}
  BY <1>1 DEF Slack
<1>5. signal'[1] \notin {"value", "report"} \/ GoodValue(W, scopes, signal'[2])
  BY <1>1, <1>2, ValuedKnown
<1> QED BY <1>1, <1>2, <1>3, <1>4, <1>5, RunsOn

LEMMA RescueStep ==
    ASSUME NEW W, Closed(W), Runs(W, scopes, stack, signal), Rescue
    PROVE  Runs(W, scopes', stack', signal')
<1> DEFINE n == Top.target[2]
           vars == Names({n}, Data)
<1>1. /\ stack # << >> /\ Top.is = "attempt" /\ signal' = Quiet
      /\ Open(vars, Top.at, Top.rest, Tail(stack))
  BY DEF Rescue, Stops
<1>2. /\ GoodScopes(W, scopes) /\ Anchored(W, scopes, Top)
      /\ Firm(W, scopes, Tail(stack), Slack(Top)) /\ Slack(Top) = {}
  BY <1>1, TopFalls DEF Falls, Top, Runs, Slack
<1>3. PICK V : Covered(scopes, V, Top.at, scopes[Top.at].outside) /\ OfBody(Top.rest, V \cup {n}) \in W
  BY <1>1, <1>2 DEF Anchored, Watches
<1>4. DOMAIN vars = {n} /\ \A x \in DOMAIN vars : GoodValue(W, scopes, vars[x])
  BY DataGood DEF Names
<1> HIDE DEF n, vars
<1>5. Top.at \in 1..Len(scopes)
  BY <1>2 DEF Anchored
<1>6. GoodScopes(W, scopes') /\ Firm(W, scopes', stack', {})
  BY <1>1, <1>2, <1>3, <1>4, <1>5, OpenSound
<1> QED BY <1>1, <1>6, QuietKnown, RunsOn

(* A script is loaded: its scope is that of the globals.                   *)
LEMMA LoadKnown ==
    ASSUME Load
    PROVE  /\ WalkEnds(OfBody(script', Core)) /\ Closed(Visited(script'))
           /\ OfBody(script', Core) \in Visited(script')
           /\ previewed' = Referenced(script') /\ stack' = <<Frame("block", 1, script', None)>>
           /\ signal' = signal /\ foreign' = foreign /\ untried' = untried
           /\ IsList(scopes') /\ Len(scopes') = 1
           /\ LET s == scopes'[1]
              IN  /\ s = [vars |-> s.vars, around |-> s.around, outside |-> s.outside, due |-> s.due]
                  /\ s.around = {1} /\ s.outside = {} /\ s.due = DeclaredIn(script')
                  /\ \A n \in Core : n \in DOMAIN s.vars /\ s.vars[n] = <<"core", n>>
                  /\ \A n \in DOMAIN s.vars : n \notin Core => n \in Capability /\ s.vars[n] = <<"capability", n>>
<1> DEFINE W == Visited(script')
           globals == [n \in Capability \cup Core |->
                           IF n \in Core THEN <<"core", n>> ELSE <<"capability", n>>]
           s == [vars |-> globals, around |-> {1}, outside |-> {}, due |-> DeclaredIn(script')]
<1>1. WalkEnds(OfBody(script', Core)) /\ Closed(W) /\ OfBody(script', Core) \in W
  <2>1. PICK i \in DOMAIN Scripts : script' \in Scripts[i]
    BY DEF Load
  <2>2. WalkEnds(OfBody(script', Core)) /\ \A v \in W : Sober(v)
    BY <2>1, ScriptsAssumption DEF WalkEnds, Visited, Reach
  <2> QED BY <2>2, WalkCloses DEF Closed, Visited
<1>2. scopes' = <<s>>
  <2>1. Globals = [vars |-> globals, around |-> {1}, outside |-> {}, due |-> {}]
    BY DEF Globals
  <2>2. scopes' = <<[Globals EXCEPT !.due = DeclaredIn(script')]>>
    BY DEF Load
  <2> HIDE DEF globals
  <2> QED BY <2>1, <2>2
<1>3. /\ \A n \in Core : n \in DOMAIN globals /\ globals[n] = <<"core", n>>
      /\ \A n \in DOMAIN globals : n \notin Core => n \in Capability /\ globals[n] = <<"capability", n>>
  OBVIOUS
<1> HIDE DEF globals, W
<1>4. /\ s.vars = globals /\ s.around = {1} /\ s.outside = {} /\ s.due = DeclaredIn(script')
      /\ s = [vars |-> s.vars, around |-> s.around, outside |-> s.outside, due |-> s.due]
  OBVIOUS
<1> HIDE DEF s
<1>5. IsList(<<s>>) /\ Len(<<s>>) = 1 /\ <<s>>[1] = s
  <2>1. <<s>> \in Seq({s})
    OBVIOUS
  <2> QED BY <2>1 DEF IsList
<1>6. /\ previewed' = Referenced(script') /\ stack' = <<Frame("block", 1, script', None)>>
      /\ signal' = signal /\ foreign' = foreign /\ untried' = untried
  BY DEF Load
<1> QED BY <1>1, <1>2, <1>3, <1>4, <1>5, <1>6 DEF W

LEMMA LoadStep ==
    ASSUME Load, signal = Quiet
    PROVE  /\ Closed(Visited(script')) /\ previewed' = Referenced(script')
           /\ Runs(Visited(script'), scopes', stack', signal') /\ scopes' # << >>
<1> DEFINE W == Visited(script')
           f == Frame("block", 1, script', None)
           sd == scopes'
           s == sd[1]
<1>1. /\ Closed(W) /\ OfBody(script', Core) \in W /\ previewed' = Referenced(script')
      /\ stack' = <<f>> /\ signal' = Quiet /\ IsList(sd) /\ Len(sd) = 1
  BY LoadKnown
<1>2. /\ s = [vars |-> s.vars, around |-> s.around, outside |-> s.outside, due |-> s.due]
      /\ s.around = {1} /\ s.outside = {} /\ s.due = DeclaredIn(script')
      /\ \A n \in Core : n \in DOMAIN s.vars /\ s.vars[n] = <<"core", n>>
      /\ \A n \in DOMAIN s.vars : n \notin Core => n \in Capability /\ s.vars[n] = <<"capability", n>>
  BY LoadKnown
<1> HIDE DEF W, s, sd
<1>3. \A n \in Core : s.vars[n][1] = "core" /\ s.vars[n][2] = n /\ s.vars[n] # Missing
  <2> SUFFICES ASSUME NEW n \in Core
               PROVE  s.vars[n][1] = "core" /\ s.vars[n][2] = n /\ s.vars[n] # Missing
    OBVIOUS
  <2>1. s.vars[n] = <<"core", n>>
    BY <1>2
  <2>2. <<"core", n>>[1] = "core" /\ <<"core", n>>[2] = n /\ <<"core", n>> # Missing
    BY DEF Missing
  <2> QED BY <2>1, <2>2
<1>4. sd[1] = s
  BY DEF s
<1>5. GoodScopes(W, sd)
  <2>1. \A n \in DOMAIN s.vars : GoodBinding(W, sd, 1, n, s.vars[n])
    <3> SUFFICES ASSUME NEW n \in DOMAIN s.vars PROVE GoodBinding(W, sd, 1, n, s.vars[n])
      OBVIOUS
    <3>1. CASE n \in Core
      BY <1>3, <3>1 DEF GoodBinding, GoodValue
    <3>2. CASE n \notin Core
      BY <1>2, <3>2 DEF GoodBinding
    <3> QED BY <3>1, <3>2
  <2>2. GoodScope(W, sd, 1, s)
    BY <1>2, <2>1 DEF GoodScope
  <2>3. \A k \in 1..1 : k = 1
    OBVIOUS
  <2> QED BY <1>1, <1>4, <2>2, <2>3 DEF GoodScopes
<1>6. Covered(sd, Core, 1, sd[1].outside)
  <2>1. \A n \in Core : OwnAt(sd[1], n)
    BY <1>2, <1>3, <1>4 DEF OwnAt
  <2> QED BY <1>2, <1>4, <2>1 DEF Covered, Own
<1>7. Sound(W, sd, f, {})
  <2>1. \A n \in DeclaredIn(script') : OwnAt(sd[1], n) \/ n \in sd[1].due
    BY <1>2, <1>4
  <2>2. 1 \in 1..Len(sd)
    BY <1>1
  <2> QED BY <1>1, <1>5, <1>6, <2>1, <2>2, BeginsSound
<1>8. Firm(W, sd, <<f>>, {})
  <2>1. IsList(<<f>>) /\ Len(<<f>>) = 1 /\ <<f>>[1] = f
    <3>1. <<f>> \in Seq({f})
      OBVIOUS
    <3> QED BY <3>1 DEF IsList
  <2>2. f.is # "seed"
    BY DEF Frame
  <2> HIDE DEF f
  <2>3. \A i \in 1..1 : i = 1
    OBVIOUS
  <2> QED BY <1>7, <2>1, <2>2, <2>3 DEF Firm
<1>9. Runs(W, sd, <<f>>, signal')
  BY <1>1, <1>5, <1>8, QuietKnown, RunsOn
<1>10. sd # << >>
  BY <1>1, ListKnown
<1> QED BY <1>1, <1>9, <1>10 DEF W, sd

(* A call by a name that is not the script's own, once the scopes around   *)
(* have made their declarations, was previewed.                            *)
LEMMA StrayPreviewed ==
    ASSUME Closed(Visited(script)), Runs(Visited(script), scopes, stack, signal), Calling, Settled,
           \/ CalledValue = Missing
           \/ CalledValue[1] \in {"capability", "core"} /\ CalledValue[2] \in Capability,
           NEW n \in CalleeName(Expression(This))
    PROVE  n \in Referenced(script)
<1> DEFINE W == Visited(script)
           e == Expression(This)
           c == Callee(e)
<1>1. GoodScopes(W, scopes) /\ Top.at \in 1..Len(scopes)
  BY AwaitingFirm DEF Calling
<1>2. PICK V, F : WorksOn(W, scopes, Top, {}, V, F) /\ Evaluable(W, e, V, F)
  BY AwaitingFirm DEF Calling
<1>3. Callee(e) # None /\ CalledValue = Value(c, Top.at)
  BY DEF Calling, CalledValue
<1> HIDE DEF e
<1>4. ~Own(scopes, Top.at, n)
  <2>1. Covered(scopes, F, Top.at, scopes[Top.at].around)
    BY <1>2 DEF WorksOn
  <2>2. \/ GoodValue(W, scopes, Value(c, Top.at))
        \/ CalleeName(e) = {c[2]} /\ ~Own(scopes, Top.at, c[2])
    BY <1>1, <1>2, <1>3, <2>1, CalleeEvaluated
  <2>3. ~GoodValue(W, scopes, CalledValue)
    BY ScriptAssumption DEF GoodValue
  <2>4. n \in CalleeName(e)
    BY DEF e
  <2> HIDE DEF c
  <2> QED BY <1>3, <2>2, <2>3, <2>4
<1>5. ~Pending(scopes, scopes[Top.at].outside, n)
  BY DEF Settled, Pending
<1>6. n \notin V
  BY <1>2, <1>4, <1>5 DEF WorksOn, Covered
<1> QED BY <1>2, <1>6, CallPreviewed DEF e

LEMMA ScriptStep ==
    ASSUME NEW W, Closed(W), Runs(W, scopes, stack, signal), ScriptNext, ~Load
    PROVE  Runs(W, scopes', stack', signal')
<1>1. CASE Declare
  BY <1>1, DeclareStep
<1>2. CASE Inert
  BY <1>2, InertStep
<1>3. CASE Evaluate
  BY <1>3, EvaluateStep
<1>4. CASE Deliver
  BY <1>4, DeliverStep
<1>5. CASE CallAgent
  BY <1>5, CallAgentStep
<1>6. CASE Begin
  BY <1>6, BeginStep
<1>7. CASE CallNative
  BY <1>7, CallNativeStep
<1>8. CASE CallFails
  BY <1>8, CallFailsStep
<1>9. CASE Enter
  BY <1>9, EnterStep
<1>10. CASE Skip
  BY <1>10, PassByStep
<1>11. CASE Stumble
  BY <1>11, StumbleStep
<1>12. CASE Attempt
  BY <1>12, AttemptStep
<1>13. CASE Finish
  BY <1>13, FinishStep
<1>14. CASE Unwind
  BY <1>14, UnwindStep
<1>15. CASE Return
  BY <1>15, ReturnStep
<1>16. CASE Rescue
  BY <1>16, RescueStep
<1> QED BY <1>1, <1>2, <1>3, <1>4, <1>5, <1>6, <1>7, <1>8, <1>9, <1>10, <1>11, <1>12, <1>13,
           <1>14, <1>15, <1>16 DEF ScriptNext

LEMMA ScopesStay ==
    ASSUME IsList(scopes), scopes # << >>, ScriptNext, ~Load
    PROVE  scopes' # << >>
<1>1. Len(scopes) \in Nat \ {0} /\ DOMAIN scopes = 1..Len(scopes)
  BY ListKnown
<1>2. CASE scopes' = scopes
  BY <1>2
<1>3. CASE \E s : scopes' = Append(scopes, s)
  <2>1. PICK s : scopes' = Append(scopes, s)
    BY <1>3
  <2>2. IsList(Append(scopes, s)) /\ Len(Append(scopes, s)) = Len(scopes) + 1
    BY ListGrows
  <2> QED BY <1>1, <2>1, <2>2, ListKnown
<1>4. CASE DOMAIN scopes' = DOMAIN scopes
  <2>1. 1 \in DOMAIN scopes'
    BY <1>1, <1>4
  <2> QED BY <2>1
<1>5. CASE Declare
  <2>1. DOMAIN scopes' = DOMAIN scopes
    BY <1>5 DEF Declare, Bind
  <2> QED BY <1>4, <2>1
<1>6. CASE Deliver
  <2>1. DOMAIN scopes' = DOMAIN scopes
    BY <1>6 DEF Deliver, Bind
  <2> QED BY <1>4, <2>1
<1>7. CASE CallAgent
  BY <1>3, <1>7 DEF CallAgent
<1>8. CASE Enter \/ Attempt \/ Rescue
  BY <1>3, <1>8 DEF Enter, Attempt, Rescue, Open
<1> QED BY <1>2, <1>5, <1>6, <1>7, <1>8 DEF ScriptNext, Inert, Evaluate, Begin, CallNative,
       CallFails, Skip, Stumble, Finish, Unwind, Return

(* What is always so: before a script is loaded nothing is under way, and  *)
(* afterwards what runs is what the preview has visited.                   *)
ScriptInv ==
    IF scopes = << >> THEN stack = << >> /\ foreign = {} /\ signal = Quiet
    ELSE /\ Closed(Visited(script)) /\ previewed = Referenced(script)
         /\ Runs(Visited(script), scopes, stack, signal) /\ PreviewSees

LEMMA LoadsFirst ==
    ASSUME scopes = << >>, ScriptInv, ScriptNext
    PROVE  Load /\ stack = << >> /\ foreign = {} /\ signal = Quiet
  BY DEF ScriptInv, ScriptNext, Declare, Inert, Evaluate, Deliver, CallAgent, Begin, CallNative,
         CallFails, Calling, Enter, Skip, Stumble, Branching, Attempt, Finish, Unwind, Return,
         Rescue, Here, Running

LEMMA SameScript ==
    ASSUME ScriptNext, ~Load
    PROVE  script' = script /\ previewed' = previewed
  BY DEF ScriptNext, Declare, Inert, Evaluate, Deliver, CallAgent, Begin, CallNative,
         CallFails, Enter, Skip, Stumble, Attempt, Finish, Unwind, Return, Rescue

LEMMA ScriptInvStep == ASSUME ScriptInv, ScriptNext PROVE ScriptInv'
<1>1. CASE scopes = << >>
  <2>1. Load /\ stack = << >> /\ foreign = {} /\ signal = Quiet
    BY <1>1, LoadsFirst
  <2>2. foreign' = {}
    BY <2>1 DEF Load
  <2> QED BY <2>1, <2>2, LoadStep DEF ScriptInv, PreviewSees
<1>2. CASE scopes # << >>
  <2>1. /\ Closed(Visited(script)) /\ previewed = Referenced(script)
        /\ Runs(Visited(script), scopes, stack, signal) /\ PreviewSees
    BY <1>2 DEF ScriptInv
  <2>2. ~Load
    BY <1>2 DEF Load
  <2>3. script' = script /\ previewed' = previewed
    BY <2>2, SameScript
  <2>4. Runs(Visited(script), scopes', stack', signal')
    BY <2>1, <2>2, ScriptStep
  <2>5. scopes' # << >>
    <3>1. IsList(scopes)
      BY <2>1 DEF Runs, GoodScopes
    <3> QED BY <1>2, <2>2, <3>1, ScopesStay
  <2>6. PreviewSees'
    <3>1. CASE CallNative
      <4> DEFINE names == CalleeName(Expression(This)) \cap ({CalledValue[2]} \cap Capability)
      <4>1. foreign' = foreign \cup {[name |-> n, settled |-> Settled] : n \in names}
        BY <3>1 DEF CallNative, Stray
      <4>2. \A n \in names : Settled => n \in Referenced(script)
        BY <2>1, <3>1, StrayPreviewed DEF CallNative
      <4> HIDE DEF names
      <4> QED BY <2>1, <2>3, <4>1, <4>2 DEF PreviewSees
    <3>2. CASE CallFails
      <4> DEFINE names == CalleeName(Expression(This))
      <4>1. \/ foreign' = foreign
            \/ CalledValue = Missing
               /\ foreign' = foreign \cup {[name |-> n, settled |-> Settled] : n \in names}
        BY <3>2 DEF CallFails, Stray
      <4>2. CalledValue = Missing => \A n \in names : Settled => n \in Referenced(script)
        BY <2>1, <3>2, StrayPreviewed DEF CallFails
      <4> HIDE DEF names
      <4> QED BY <2>1, <2>3, <4>1, <4>2 DEF PreviewSees
    <3>3. CASE foreign' = foreign
      BY <2>1, <2>3, <3>3 DEF PreviewSees
    <3> QED BY <2>2, <3>1, <3>2, <3>3 DEF ScriptNext, Declare, Inert, Evaluate, Deliver, CallAgent,
           Begin, Enter, Skip, Stumble, Attempt, Finish, Unwind, Return, Rescue
  <2> QED BY <2>1, <2>3, <2>4, <2>5, <2>6 DEF ScriptInv
<1> QED BY <1>1, <1>2

(* A call that finds no agent of the script's own was in the preview the   *)
(* script was loaded with, for every script (myxo-plan.js:65-70).          *)
THEOREM PreviewTellsTruth == ScriptSpec => []PreviewSees
<1>1. ScriptInit => ScriptInv
  BY DEF ScriptInit, ScriptInv
<1>2. ScriptInv /\ [ScriptNext]_scriptVars => ScriptInv'
  <2>1. ScriptInv /\ UNCHANGED scriptVars => ScriptInv'
    BY DEF ScriptInv, scriptVars, PreviewSees, Runs, GoodScopes, Firm, Falls
  <2> QED BY <2>1, ScriptInvStep
<1>3. ScriptInv => PreviewSees
  BY DEF ScriptInv, PreviewSees
<1> QED BY <1>1, <1>2, <1>3, PTL DEF ScriptSpec

-----------------------------------------------------------------------------
(* No false alarm.                                                         *)

(* A walk, step by step.                                                   *)
Walks(u, h) ==
    /\ Walk(u) = h[MaxTree] /\ h[0].done = {} /\ h[0].next = {u}
    /\ \A n \in 1..MaxTree :
          /\ h[n].done = h[n - 1].done \cup h[n - 1].next
          /\ h[n].next = UNION {Visits(v) : v \in h[n - 1].next}

LEMMA WalkSteps == ASSUME NEW u PROVE \E h : Walks(u, h)
<1> DEFINE first == [done |-> {}, next |-> {u}]
<1>0. MaxTree \in Nat
  BY PreviewAssumption
<1>1. PICK h : WalkTo(u, MaxTree, h) /\ Walk(u) = h[MaxTree]
  <2>1. \E h : WalkTo(u, MaxTree, h)
    BY <1>0, WalksExist
  <2>2. WalkTo(u, MaxTree, CHOOSE h : WalkTo(u, MaxTree, h))
    BY <2>1
  <2> QED BY <2>2 DEF WalkTo, Walk
<1>2. h[0] = first /\ \A n \in 1..MaxTree : h[n] = Onwards(h[n - 1])
  <2>1. \A n \in 0..MaxTree : h[n] = IF n = 0 THEN first ELSE Onwards(h[n - 1])
    BY <1>1 DEF WalkTo
  <2>2. 0 \in 0..MaxTree /\ \A n \in 1..MaxTree : n \in 0..MaxTree /\ n # 0
    BY <1>0
  <2> HIDE DEF first
  <2> QED BY <2>1, <2>2
<1>3. ASSUME NEW n \in 1..MaxTree
      PROVE  /\ h[n].done = h[n - 1].done \cup h[n - 1].next
             /\ h[n].next = UNION {Visits(v) : v \in h[n - 1].next}
  <2>1. h[n] = [done |-> h[n - 1].done \cup h[n - 1].next, next |-> UNION {Visits(v) : v \in h[n - 1].next}]
    BY <1>2 DEF Onwards
  <2> QED BY <2>1
<1>4. h[0].done = {} /\ h[0].next = {u}
  BY <1>2
<1> QED BY <1>1, <1>3, <1>4 DEF Walks

(* What holds of a walk's start and is kept by its steps.                  *)
LEMMA AllAlong ==
    ASSUME NEW n \in Nat, NEW T \in SUBSET (0..n), 0 \in T,
           \A i \in 1..n : i - 1 \in T => i \in T
    PROVE  T = 0..n
<1> SUFFICES ASSUME (0..n) \ T # {} PROVE FALSE
  OBVIOUS
<1>1. PICK m \in (0..n) \ T : \A k \in (0..n) \ T : m <= k
  <2>1. (0..n) \ T \in SUBSET Nat
    OBVIOUS
  <2> QED BY <2>1, LeastOf
<1>2. m \in 1..n /\ m - 1 \in 0..n /\ ~(m <= m - 1)
  BY <1>1
<1> QED BY <1>1, <1>2

Downward(D) == \A v \in D : Visits(v) \subseteq D

LEMMA ReachLeast ==
    ASSUME NEW u, NEW D, u \in D, Downward(D)
    PROVE  Reach(u) \subseteq D
<1>0. MaxTree \in Nat
  BY PreviewAssumption
<1>1. PICK h : Walks(u, h)
  BY WalkSteps
<1> DEFINE T == {n \in 0..MaxTree : h[n].done \subseteq D /\ h[n].next \subseteq D}
<1>2. 0 \in T
  BY <1>0, <1>1 DEF Walks
<1>3. ASSUME NEW i \in 1..MaxTree, i - 1 \in T PROVE i \in T
  <2>1. \A v \in h[i - 1].next : Visits(v) \subseteq D
    BY <1>3 DEF Downward
  <2> QED BY <1>0, <1>1, <1>3, <2>1 DEF Walks
<1>4. T = 0..MaxTree
  <2>1. T \in SUBSET (0..MaxTree)
    OBVIOUS
  <2> HIDE DEF T
  <2> QED BY <1>0, <1>2, <1>3, <2>1, AllAlong
<1>5. MaxTree \in T
  BY <1>0, <1>4
<1> QED BY <1>1, <1>5 DEF Walks, Reach

(* A walk from a part goes no further than the walk that came by.          *)
LEMMA WalkEndsWithin ==
    ASSUME NEW u, WalkEnds(u), NEW v \in Reach(u)
    PROVE  WalkEnds(v)
<1>0. MaxTree \in Nat
  BY PreviewAssumption
<1>1. PICK h : Walks(u, h)
  BY WalkSteps
<1>2. PICK g : Walks(v, g)
  BY WalkSteps
<1>3. PICK n \in 0..MaxTree : v \in h[n].next
  <2> DEFINE T == {n \in 0..MaxTree : \A x \in h[n].done : \E m \in 0..MaxTree : x \in h[m].next}
  <2>1. 0 \in T
    BY <1>0, <1>1 DEF Walks
  <2>2. ASSUME NEW i \in 1..MaxTree, i - 1 \in T PROVE i \in T
    BY <1>0, <1>1, <2>2 DEF Walks
  <2>3. T = 0..MaxTree
    <3>1. T \in SUBSET (0..MaxTree)
      OBVIOUS
    <3> HIDE DEF T
    <3> QED BY <1>0, <2>1, <2>2, <3>1, AllAlong
  <2>4. MaxTree \in T
    BY <1>0, <2>3
  <2> QED BY <1>1, <2>4 DEF Walks, Reach
<1>4. h[MaxTree].next = {}
  BY <1>1 DEF Walks, WalkEnds
<1>5. g[MaxTree - n].next = {}
  <2> DEFINE T == {m \in 0..(MaxTree - n) : g[m].next \subseteq h[n + m].next}
  <2>1. 0 \in T
    BY <1>0, <1>2, <1>3 DEF Walks
  <2>2. ASSUME NEW i \in 1..(MaxTree - n), i - 1 \in T PROVE i \in T
    <3>1. i \in 1..MaxTree /\ n + i \in 1..MaxTree /\ (n + i) - 1 = n + (i - 1)
      BY <1>0
    <3>2. g[i].next = UNION {Visits(x) : x \in g[i - 1].next}
      BY <1>2, <3>1 DEF Walks
    <3>3. h[n + i].next = UNION {Visits(x) : x \in h[n + (i - 1)].next}
      BY <1>1, <3>1 DEF Walks
    <3> QED BY <2>2, <3>2, <3>3
  <2>3. T = 0..(MaxTree - n)
    <3>1. T \in SUBSET (0..(MaxTree - n)) /\ MaxTree - n \in Nat
      BY <1>0
    <3> HIDE DEF T
    <3> QED BY <2>1, <2>2, <3>1, AllAlong
  <2>4. MaxTree - n \in T /\ n + (MaxTree - n) = MaxTree
    BY <1>0, <2>3
  <2> QED BY <1>4, <2>4
<1>6. g[MaxTree].next = {}
  <2> DEFINE T == {m \in 0..n : g[(MaxTree - n) + m].next = {}}
  <2>1. 0 \in T
    <3>1. (MaxTree - n) + 0 = MaxTree - n /\ 0 \in 0..n
      BY <1>0
    <3> QED BY <1>5, <3>1
  <2>2. ASSUME NEW i \in 1..n, i - 1 \in T PROVE i \in T
    <3>1. (MaxTree - n) + i \in 1..MaxTree /\ ((MaxTree - n) + i) - 1 = (MaxTree - n) + (i - 1)
      BY <1>0
    <3>2. g[(MaxTree - n) + i].next = UNION {Visits(x) : x \in g[(MaxTree - n) + (i - 1)].next}
      BY <1>2, <3>1 DEF Walks
    <3> QED BY <2>2, <3>2
  <2>3. T = 0..n
    <3>1. T \in SUBSET (0..n) /\ n \in Nat
      BY <1>0
    <3> HIDE DEF T
    <3> QED BY <2>1, <2>2, <3>1, AllAlong
  <2>4. n \in T /\ (MaxTree - n) + n = MaxTree
    BY <1>0, <2>3
  <2> QED BY <2>4
<1> QED BY <1>2, <1>6 DEF Walks, WalkEnds

(* What a visit leads to: what every set has that has the visit and, with  *)
(* each visit, what that visits.  Its alarms are the names reached for     *)
(* there, its late ones those in the agents it makes.                      *)
Within(W, u) == {x \in W : \A D \in SUBSET W : u \in D /\ Downward(D) => x \in D}
Alarmed(W, u) == UNION {ReachedFor(x) : x \in Within(W, u)}
Late(W, u) == UNION {Alarmed(W, x) : x \in {y \in Within(W, u) : Makes(y)}}

LEMMA WithinKnown ==
    ASSUME NEW W, Downward(W), NEW u \in W
    PROVE  /\ u \in Within(W, u) /\ Within(W, u) \subseteq W
           /\ \A x \in Within(W, u) : Visits(x) \subseteq Within(W, u)
           /\ \A x \in Within(W, u) : Within(W, x) \subseteq Within(W, u)
<1>1. u \in Within(W, u) /\ Within(W, u) \subseteq W
  BY DEF Within
<1>2. ASSUME NEW x \in Within(W, u), NEW y \in Visits(x) PROVE y \in Within(W, u)
  <2>1. y \in W
    BY <1>1, <1>2 DEF Downward
  <2> SUFFICES ASSUME NEW D \in SUBSET W, u \in D, Downward(D) PROVE y \in D
    BY <2>1 DEF Within
  <2>2. x \in D
    BY DEF Within
  <2> QED BY <1>2, <2>2 DEF Downward
<1>3. ASSUME NEW x \in Within(W, u), NEW y \in Within(W, x) PROVE y \in Within(W, u)
  <2>1. y \in W
    BY DEF Within
  <2> SUFFICES ASSUME NEW D \in SUBSET W, u \in D, Downward(D) PROVE y \in D
    BY <2>1 DEF Within
  <2>2. x \in D
    BY DEF Within
  <2> QED BY <2>2 DEF Within
<1> QED BY <1>1, <1>2, <1>3

LEMMA WithinParts ==
    ASSUME NEW W, Downward(W), NEW u \in W, NEW x \in Within(W, u), x # u
    PROVE  \E w \in Visits(u) : x \in Within(W, w)
<1> DEFINE D == {u} \cup UNION {Within(W, w) : w \in Visits(u)}
<1>1. Visits(u) \subseteq W
  BY DEF Downward
<1>2. \A w \in Visits(u) : w \in Within(W, w) /\ Within(W, w) \subseteq W
  BY <1>1, WithinKnown
<1>3. D \in SUBSET W
  BY <1>2
<1>4. Downward(D)
  <2> SUFFICES ASSUME NEW v \in D, NEW y \in Visits(v) PROVE y \in D
    BY DEF Downward
  <2>1. CASE v = u
    BY <1>2, <2>1
  <2>2. CASE v # u
    <3>1. PICK w \in Visits(u) : v \in Within(W, w)
      BY <2>2
    <3>2. y \in Within(W, w)
      BY <1>1, <3>1, WithinKnown
    <3> QED BY <3>2
  <2> QED BY <2>1, <2>2
<1>5. x \in D
  <2> HIDE DEF D
  <2>1. u \in D
    BY DEF D
  <2> QED BY <1>3, <1>4, <2>1 DEF Within
<1> QED BY <1>5

LEMMA AlarmsWithin ==
    ASSUME NEW W, Downward(W), NEW u \in W
    PROVE  /\ ReachedFor(u) \subseteq Alarmed(W, u) /\ Late(W, u) \subseteq Alarmed(W, u)
           /\ Makes(u) => Alarmed(W, u) \subseteq Late(W, u)
           /\ \A x \in Within(W, u) :
                Alarmed(W, x) \subseteq Alarmed(W, u) /\ Late(W, x) \subseteq Late(W, u)
<1>1. u \in Within(W, u)
  BY WithinKnown
<1>2. \A x \in Within(W, u) : Within(W, x) \subseteq Within(W, u)
  BY WithinKnown
<1>3. \A x \in Within(W, u) :
        Alarmed(W, x) \subseteq Alarmed(W, u) /\ Late(W, x) \subseteq Late(W, u)
  BY <1>2 DEF Alarmed, Late
<1>4. ReachedFor(u) \subseteq Alarmed(W, u) /\ (Makes(u) => Alarmed(W, u) \subseteq Late(W, u))
  BY <1>1 DEF Alarmed, Late
<1>5. Late(W, u) \subseteq Alarmed(W, u)
  BY <1>3 DEF Late
<1> QED BY <1>3, <1>4, <1>5

LEMMA PartsAlarm ==
    ASSUME NEW W, Downward(W), NEW u \in W, NEW w \in Visits(u)
    PROVE  /\ w \in W /\ w \in Within(W, u)
           /\ Alarmed(W, w) \subseteq Alarmed(W, u) /\ Late(W, w) \subseteq Late(W, u)
           /\ Makes(u) => Alarmed(W, w) \subseteq Late(W, u)
<1>1. w \in Within(W, u) /\ w \in W
  BY WithinKnown
<1> QED BY <1>1, AlarmsWithin

(* The names a visit knows of, all that it leads to knows of.              *)
Kinded(v) ==
    \/ v = OfBody(v[2], v[3])
    \/ v = OfStatement(v[2], v[3], v[4])
    \/ v = OfExpr(v[2], v[3], v[4])
Knows(v) == IF v[1] = "body" THEN v[3] ELSE v[3] \cap v[4]
Tree(W) == Closed(W) /\ \A v \in W : Kinded(v)

LEMMA TreeDownward == ASSUME NEW W, Tree(W) PROVE Downward(W)
  BY DEF Tree, Closed, Downward

LEMMA VisitsOf ==
    /\ \A b, V : Visits(OfBody(b, V)) = InBody(b, V)
    /\ \A s, R, F : Visits(OfStatement(s, R, F)) = InStatement(s, R, F)
    /\ \A e, V, F : Visits(OfExpr(e, V, F)) = InExpr(e, V, F)
<1>1. ASSUME NEW b, NEW V PROVE Visits(OfBody(b, V)) = InBody(b, V)
  BY DEF Visits, OfBody
<1>2. ASSUME NEW s, NEW R, NEW F PROVE Visits(OfStatement(s, R, F)) = InStatement(s, R, F)
  <2> DEFINE v == OfStatement(s, R, F)
  <2>1. v[1] = "statement" /\ v[2] = s /\ v[3] = R /\ v[4] = F
    BY DEF OfStatement
  <2> HIDE DEF v
  <2> QED BY <2>1 DEF Visits, v
<1>3. ASSUME NEW e, NEW V, NEW F PROVE Visits(OfExpr(e, V, F)) = InExpr(e, V, F)
  <2> DEFINE v == OfExpr(e, V, F)
  <2>1. v[1] = "expr" /\ v[2] = e /\ v[3] = V /\ v[4] = F
    BY DEF OfExpr
  <2> HIDE DEF v
  <2> QED BY <2>1 DEF Visits, v
<1> QED BY <1>1, <1>2, <1>3

LEMMA KindKnown ==
    /\ \A b, V : OfBody(b, V)[1] = "body" /\ OfBody(b, V)[2] = b /\ OfBody(b, V)[3] = V
    /\ \A s, R, F : LET v == OfStatement(s, R, F)
                    IN  v[1] = "statement" /\ v[2] = s /\ v[3] = R /\ v[4] = F
    /\ \A e, V, F : LET v == OfExpr(e, V, F)
                    IN  v[1] = "expr" /\ v[2] = e /\ v[3] = V /\ v[4] = F
  BY DEF OfBody, OfStatement, OfExpr

LEMMA DeferredKnow ==
    ASSUME NEW params, NEW body, NEW F, NEW w \in Deferred(params, body, F)
    PROVE  Kinded(w) /\ F \subseteq Knows(w)
<1>1. CASE w = OfBody(body, Child(params, Len(params), F))
  <2>1. F \subseteq Child(params, Len(params), F)
    BY DEF Child
  <2> HIDE DEF Child
  <2> QED BY <1>1, <2>1, KindKnown DEF Kinded, Knows
<1>2. CASE \E i \in DOMAIN params : \E d \in DefaultsOf(params[i]) : w = OfExpr(d, Child(params, i, F), F)
  <2>0. PICK i \in DOMAIN params : \E d \in DefaultsOf(params[i]) : w = OfExpr(d, Child(params, i, F), F)
    BY <1>2
  <2>1. PICK d \in DefaultsOf(params[i]) : w = OfExpr(d, Child(params, i, F), F)
    BY <2>0
  <2>2. F \subseteq Child(params, i, F)
    BY DEF Child
  <2>3. w[1] = "expr" /\ w[2] = d /\ w[3] = Child(params, i, F) /\ w[4] = F
    BY <2>1, KindKnown
  <2> QED BY <2>1, <2>2, <2>3 DEF Kinded, Knows
<1> QED BY <1>1, <1>2 DEF Deferred

(* The parts of a statement: an agent's, or expressions and blocks.        *)
InOrder(w, R, F) ==
    (\E e : w = OfExpr(e, R, F)) \/ (\E b, N : w = OfBody(b, R \cup N))

LEMMA StatementParts ==
    ASSUME NEW s, NEW R, NEW F, NEW w \in InStatement(s, R, F)
    PROVE  IF s[1] = "agent" THEN w \in Deferred(s[2][2], s[2][4], F) ELSE InOrder(w, R, F)
<1>1. CASE s[1] = "agent"
  BY <1>1 DEF InStatement
<1>2. CASE s[1] \in {"when", "reinforce", "for", "test"}
  BY <1>2 DEF InStatement, InOrder
<1>3. CASE s[1] = "match"
  BY <1>3 DEF InStatement, InOrder
<1>4. CASE s[1] = "attempt"
  BY <1>4 DEF InStatement, InOrder
<1>5. CASE s[1] \notin {"agent", "when", "reinforce", "for", "test", "match", "attempt"}
  <2>1. InStatement(s, R, F) = {OfExpr(e, R, F) : e \in Uses(s)}
    BY <1>5 DEF InStatement
  <2> QED BY <1>5, <2>1 DEF InOrder
<1> QED BY <1>1, <1>2, <1>3, <1>4, <1>5

LEMMA PartsKnow ==
    ASSUME NEW v, Kinded(v), NEW w \in Visits(v)
    PROVE  Kinded(w) /\ Knows(v) \subseteq Knows(w)
<1>1. CASE v = OfBody(v[2], v[3])
  <2>1. PICK i \in DOMAIN v[2] :
          w = OfStatement(v[2][i], v[3] \cup LeftBefore(v[2], i), v[3] \cup DeclaredIn(v[2]))
    <3>1. Visits(OfBody(v[2], v[3])) = InBody(v[2], v[3])
      BY VisitsOf
    <3>2. w \in InBody(v[2], v[3])
      BY <1>1, <3>1
    <3> QED BY <3>2 DEF InBody
  <2>2. /\ w[1] = "statement" /\ w[2] = v[2][i] /\ w[3] = v[3] \cup LeftBefore(v[2], i)
        /\ w[4] = v[3] \cup DeclaredIn(v[2])
    BY <2>1, KindKnown
  <2>3. v[1] = "body"
    BY <1>1, KindKnown
  <2> QED BY <2>1, <2>2, <2>3 DEF Kinded, Knows
<1>2. CASE v = OfStatement(v[2], v[3], v[4])
  <2>1. v[1] = "statement" /\ w \in InStatement(v[2], v[3], v[4])
    BY <1>2, VisitsOf, KindKnown
  <2>2. Knows(v) = v[3] \cap v[4]
    BY <2>1 DEF Knows
  <2>3. CASE w \in Deferred(v[2][2][2], v[2][2][4], v[4])
    BY <2>2, <2>3, DeferredKnow
  <2>4. CASE \E e : w = OfExpr(e, v[3], v[4])
    <3>1. PICK e : w = OfExpr(e, v[3], v[4])
      BY <2>4
    <3>2. w[1] = "expr" /\ w[2] = e /\ w[3] = v[3] /\ w[4] = v[4]
      BY <3>1, KindKnown
    <3> QED BY <2>2, <3>1, <3>2 DEF Kinded, Knows
  <2>5. CASE \E b, N : w = OfBody(b, v[3] \cup N)
    <3>1. PICK b, N : w = OfBody(b, v[3] \cup N)
      BY <2>5
    <3>2. w[1] = "body" /\ w[2] = b /\ w[3] = v[3] \cup N
      BY <3>1, KindKnown
    <3>3. Kinded(w)
      BY <3>1, <3>2 DEF Kinded
    <3>4. Knows(w) = v[3] \cup N
      BY <3>2 DEF Knows
    <3> QED BY <2>2, <3>3, <3>4
  <2>6. w \in Deferred(v[2][2][2], v[2][2][4], v[4]) \/ InOrder(w, v[3], v[4])
    BY <2>1, StatementParts
  <2> QED BY <2>3, <2>4, <2>5, <2>6 DEF InOrder
<1>3. CASE v = OfExpr(v[2], v[3], v[4])
  <2>1. v[1] = "expr" /\ w \in InExpr(v[2], v[3], v[4])
    BY <1>3, VisitsOf, KindKnown
  <2>2. Knows(v) = v[3] \cap v[4]
    BY <2>1 DEF Knows
  <2>3. CASE v[2][1] = "agentexpr"
    <3>1. w \in Deferred(v[2][2], v[2][4], v[4])
      BY <2>1, <2>3 DEF InExpr
    <3> QED BY <2>2, <3>1, DeferredKnow
  <2>4. CASE v[2][1] # "agentexpr"
    <3>1. PICK e : w = OfExpr(e, v[3], v[4])
      BY <2>1, <2>4 DEF InExpr
    <3>2. w[1] = "expr" /\ w[2] = e /\ w[3] = v[3] /\ w[4] = v[4]
      BY <3>1, KindKnown
    <3> QED BY <2>2, <3>1, <3>2 DEF Kinded, Knows
  <2> QED BY <2>3, <2>4
<1> QED BY <1>1, <1>2, <1>3 DEF Kinded

LEMMA KnownIsNoAlarm ==
    ASSUME NEW W, Tree(W), NEW u \in W
    PROVE  Alarmed(W, u) \cap Knows(u) = {}
<1> DEFINE D == {x \in W : Knows(u) \subseteq Knows(x)}
<1>1. Downward(D)
  <2> SUFFICES ASSUME NEW v \in D, NEW w \in Visits(v) PROVE w \in D
    BY DEF Downward
  <2>1. w \in W /\ Knows(v) \subseteq Knows(w)
    BY PartsKnow, TreeDownward DEF Tree, Downward
  <2> QED BY <2>1
<1>2. \A x \in Within(W, u) : Knows(u) \subseteq Knows(x)
  <2> SUFFICES ASSUME NEW x \in Within(W, u) PROVE x \in D
    OBVIOUS
  <2>1. D \in SUBSET W /\ u \in D
    OBVIOUS
  <2> HIDE DEF D
  <2> QED BY <1>1, <2>1 DEF Within
<1>3. \A x \in Within(W, u) : ReachedFor(x) \cap Knows(u) = {}
  <2> SUFFICES ASSUME NEW x \in Within(W, u), NEW n \in ReachedFor(x), n \in Knows(u) PROVE FALSE
    OBVIOUS
  <2>1. x[1] = "expr" /\ n \notin x[3]
    BY DEF ReachedFor
  <2>2. n \in Knows(x)
    BY <1>2
  <2> QED BY <2>1, <2>2 DEF Knows
<1> QED BY <1>3 DEF Alarmed

(* What is reached for in a visit is so in a part, but for a call's name.  *)
LEMMA AlarmsOfParts ==
    ASSUME NEW W, Downward(W), NEW u \in W, NEW n \in Alarmed(W, u)
    PROVE  n \in ReachedFor(u) \/ \E w \in Visits(u) : n \in Alarmed(W, w)
<1>1. PICK x \in Within(W, u) : n \in ReachedFor(x)
  BY DEF Alarmed
<1> QED BY <1>1, WithinParts DEF Alarmed

LEMMA AgentsKnow ==
    ASSUME NEW W, Tree(W), NEW u \in W, Makes(u)
    PROVE  Alarmed(W, u) \cap u[4] = {} /\ ReachedFor(u) = {}
           /\ \A w \in Visits(u) : Kinded(w) /\ u[4] \subseteq Knows(w) /\ w \in W
<1>1. u[1] \in {"statement", "expr"}
  BY DEF Makes
<1>2. u = OfStatement(u[2], u[3], u[4]) \/ u = OfExpr(u[2], u[3], u[4])
  BY <1>1, KindKnown DEF Tree, Kinded
<1>3. \E params, body : Visits(u) = Deferred(params, body, u[4])
  <2>1. CASE u[1] = "statement"
    <3>1. u = OfStatement(u[2], u[3], u[4]) /\ u[2][1] = "agent"
      BY <1>2, <2>1, KindKnown DEF Makes
    <3>2. Visits(u) = Deferred(u[2][2][2], u[2][2][4], u[4])
      BY <3>1, VisitsOf DEF InStatement
    <3> QED BY <3>2
  <2>2. CASE u[1] = "expr"
    <3>1. u = OfExpr(u[2], u[3], u[4]) /\ u[2][1] = "agentexpr"
      BY <1>2, <2>2, KindKnown DEF Makes
    <3>2. Visits(u) = Deferred(u[2][2], u[2][4], u[4])
      BY <3>1, VisitsOf DEF InExpr
    <3> QED BY <3>2
  <2> QED BY <1>1, <2>1, <2>2
<1>4. \A w \in Visits(u) : Kinded(w) /\ u[4] \subseteq Knows(w) /\ w \in W
  BY <1>3, DeferredKnow, TreeDownward DEF Downward
<1>5. ReachedFor(u) = {}
  BY DEF ReachedFor, Makes, CalleeName, Callee
<1>6. ASSUME NEW n \in Alarmed(W, u) PROVE n \notin u[4]
  <2>1. PICK w \in Visits(u) : n \in Alarmed(W, w)
    BY <1>5, AlarmsOfParts, TreeDownward
  <2> QED BY <1>4, <2>1, KnownIsNoAlarm
<1> QED BY <1>4, <1>5, <1>6

(* A script whose names are in sight: the agents made in it reach, for     *)
(* what the preview does not know, for no name bound there later.          *)
Seen(W) ==
    \A v \in W :
        /\ \A u \in Visits(v) : Late(W, u) \cap Overlooked(v) = {}
        /\ v[1] = "statement" /\ v[2][1] = "assign" => TargetOf(v[2])[2] \notin Capability

LEMMA ExprSeesFull ==
    ASSUME NEW W, Tree(W), NEW e, NEW V, NEW F, OfExpr(e, V, F) \in W
    PROVE  Late(W, OfExpr(e, V, F)) \cap F = {}
<1> DEFINE u == OfExpr(e, V, F)
           D == {x \in W : (x[1] = "expr" /\ x[4] = F) \/ F \subseteq Knows(x)}
<1>1. Downward(D)
  <2> SUFFICES ASSUME NEW v \in D, NEW w \in Visits(v) PROVE w \in D
    BY DEF Downward
  <2>1. w \in W /\ Kinded(v) /\ Knows(v) \subseteq Knows(w)
    BY PartsKnow, TreeDownward DEF Tree, Downward
  <2>2. CASE F \subseteq Knows(v)
    BY <2>1, <2>2
  <2>3. CASE v[1] = "expr" /\ v[4] = F
    <3>1. w \in InExpr(v[2], v[3], F)
      <4>1. v = OfExpr(v[2], v[3], F)
        BY <2>1, <2>3, KindKnown DEF Kinded
      <4>2. Visits(OfExpr(v[2], v[3], F)) = InExpr(v[2], v[3], F)
        BY VisitsOf
      <4> QED BY <4>1, <4>2
    <3>2. CASE v[2][1] = "agentexpr"
      <4>1. w \in Deferred(v[2][2], v[2][4], F)
        BY <3>1, <3>2 DEF InExpr
      <4> QED BY <2>1, <4>1, DeferredKnow
    <3>3. CASE v[2][1] # "agentexpr"
      <4>1. PICK x : w = OfExpr(x, v[3], F)
        BY <3>1, <3>3 DEF InExpr
      <4> QED BY <2>1, <4>1, KindKnown
    <3> QED BY <3>2, <3>3
  <2> QED BY <2>2, <2>3
<1>2. \A y \in Within(W, u) : (y[1] = "expr" /\ y[4] = F) \/ F \subseteq Knows(y)
  <2> SUFFICES ASSUME NEW y \in Within(W, u) PROVE y \in D
    OBVIOUS
  <2>1. D \in SUBSET W /\ u \in D
    BY KindKnown
  <2> HIDE DEF D
  <2> QED BY <1>1, <2>1 DEF Within
<1> HIDE DEF u, D
<1>3. ASSUME NEW y \in Within(W, u), Makes(y) PROVE Alarmed(W, y) \cap F = {}
  <2>1. y \in W
    BY DEF Within
  <2>2. CASE F \subseteq Knows(y)
    BY <2>1, <2>2, KnownIsNoAlarm
  <2>3. CASE y[4] = F
    BY <1>3, <2>1, <2>3, AgentsKnow
  <2> QED BY <1>2, <2>2, <2>3
<1>4. Late(W, u) \cap F = {}
  BY <1>3 DEF Late
<1> QED BY <1>4 DEF u

LEMMA LateOfParts ==
    ASSUME NEW W, Downward(W), NEW u \in W, NEW n \in Late(W, u), ~Makes(u)
    PROVE  \E w \in Visits(u) : n \in Late(W, w)
<1>1. PICK y \in Within(W, u) : Makes(y) /\ n \in Alarmed(W, y)
  BY DEF Late
<1>2. PICK w \in Visits(u) : y \in Within(W, w)
  BY <1>1, WithinParts
<1> QED BY <1>1, <1>2 DEF Late

LEMMA StatementSeesFull ==
    ASSUME NEW W, Tree(W), Seen(W), NEW s, NEW R, NEW F, OfStatement(s, R, F) \in W
    PROVE  Late(W, OfStatement(s, R, F)) \cap F = {}
<1> DEFINE u == OfStatement(s, R, F)
<1>1. u \in W /\ u[1] = "statement" /\ u[2] = s /\ u[3] = R /\ u[4] = F /\ Visits(u) = InStatement(s, R, F)
  BY KindKnown, VisitsOf
<1> HIDE DEF u
<1>2. Downward(W)
  BY TreeDownward
<1> SUFFICES ASSUME NEW n \in Late(W, u), n \in F PROVE FALSE
  BY DEF u
<1>3. CASE Makes(u)
  BY <1>1, <1>2, <1>3, AgentsKnow, AlarmsWithin
<1>4. CASE ~Makes(u)
  <2>1. PICK w \in Visits(u) : n \in Late(W, w)
    BY <1>1, <1>2, <1>4, LateOfParts
  <2>2. w \in W
    BY <1>1, <1>2, <2>1 DEF Downward
  <2>3. n \notin F \ R
    BY <1>1, <1>4, <2>1 DEF Seen, Overlooked
  <2>4. s[1] # "agent"
    BY <1>1, <1>4 DEF Makes
  <2>5. CASE \E e : w = OfExpr(e, R, F)
    BY <2>1, <2>2, <2>5, ExprSeesFull
  <2>6. CASE \E b, N : w = OfBody(b, R \cup N)
    <3>1. PICK b, N : w = OfBody(b, R \cup N)
      BY <2>6
    <3>2. R \subseteq Knows(w)
      <4>1. w[1] = "body" /\ w[3] = R \cup N
        BY <3>1, KindKnown
      <4> QED BY <4>1 DEF Knows
    <3>3. n \in Alarmed(W, w)
      BY <1>2, <2>1, <2>2, AlarmsWithin
    <3> QED BY <2>2, <2>3, <3>2, <3>3, KnownIsNoAlarm
  <2>7. InOrder(w, R, F)
    <3>1. w \in InStatement(s, R, F)
      BY <1>1, <2>1
    <3> QED BY <2>4, <3>1, StatementParts
  <2> QED BY <2>5, <2>6, <2>7 DEF InOrder
<1> QED BY <1>3, <1>4

(* The statements of a body, and what they know of each other.             *)
DeclaredBefore(stmts, i) == UNION {Declares(stmts[j]) : j \in 1..(i - 1)}

LEMMA BodyParts ==
    ASSUME NEW W, Tree(W), NEW b, NEW V, OfBody(b, V) \in W, NEW w \in Visits(OfBody(b, V))
    PROVE  /\ w \in W /\ w = OfStatement(w[2], w[3], w[4]) /\ w[4] = V \cup DeclaredIn(b)
           /\ \E i \in DOMAIN b : w[2] = b[i] /\ Alarmed(W, w) \cap DeclaredBefore(b, i) = {}
<1>1. PICK i \in DOMAIN b : w = OfStatement(b[i], V \cup LeftBefore(b, i), V \cup DeclaredIn(b))
  <2>1. w \in InBody(b, V)
    BY VisitsOf
  <2> QED BY <2>1 DEF InBody
<1>2. /\ w[1] = "statement" /\ w[2] = b[i] /\ w[3] = V \cup LeftBefore(b, i)
      /\ w[4] = V \cup DeclaredIn(b)
  BY <1>1, KindKnown
<1>3. w \in W
  BY TreeDownward DEF Downward
<1>4. Listed(b)
  <2>1. Sober(OfBody(b, V))
    BY DEF Tree, Closed
  <2> QED BY <2>1, KindKnown DEF Sober
<1>5. DeclaredBefore(b, i) \subseteq Knows(w)
  <2>1. i \in Nat /\ 1..(i - 1) \subseteq DOMAIN b
    <3>1. b \in Seq(ToSet(b))
      BY <1>4 DEF Listed
    <3> QED BY <3>1, LenProperties
  <2>2. DeclaredBefore(b, i) \subseteq LeftBefore(b, i)
    <3>1. \A s : Declares(s) \subseteq Leaves(s)
      BY DEF Declares, Leaves
    <3> QED BY <3>1 DEF DeclaredBefore, LeftBefore
  <2>3. DeclaredBefore(b, i) \subseteq DeclaredIn(b)
    BY <2>1 DEF DeclaredBefore, DeclaredIn, ToSet
  <2> QED BY <1>2, <2>2, <2>3 DEF Knows
<1> QED BY <1>1, <1>2, <1>3, <1>5, KnownIsNoAlarm

LEMMA BodySeesFull ==
    ASSUME NEW W, Tree(W), Seen(W), NEW b, NEW V, OfBody(b, V) \in W
    PROVE  Late(W, OfBody(b, V)) \cap (V \cup DeclaredIn(b)) = {}
<1> DEFINE u == OfBody(b, V)
<1>1. u \in W /\ ~Makes(u)
  BY KindKnown DEF Makes
<1> HIDE DEF u
<1> SUFFICES ASSUME NEW n \in Late(W, u), n \in V \cup DeclaredIn(b) PROVE FALSE
  BY DEF u
<1>2. PICK w \in Visits(u) : n \in Late(W, w)
  BY <1>1, LateOfParts, TreeDownward
<1>3. w \in W /\ w = OfStatement(w[2], w[3], w[4]) /\ w[4] = V \cup DeclaredIn(b)
  BY <1>2, BodyParts DEF u
<1>4. Late(W, w) \cap w[4] = {}
  BY <1>3, StatementSeesFull
<1> QED BY <1>2, <1>3, <1>4

(* That is what the preview's own walks say.                               *)
LEMMA SightSeen ==
    ASSUME NEW stmts, WalkEnds(OfBody(stmts, Core)), InSight(stmts)
    PROVE  Seen(Visited(stmts))
<1> DEFINE W == Visited(stmts)
<1>1. \A u \in W : WalkEnds(u)
  BY WalkEndsWithin DEF Visited
<1>2. \A u \in W : Within(W, u) \subseteq Reach(u)
  <2> SUFFICES ASSUME NEW u \in W PROVE Within(W, u) \subseteq Reach(u)
    OBVIOUS
  <2> DEFINE D == Reach(u) \cap W
  <2>1. u \in D /\ D \in SUBSET W /\ Downward(D)
    <3>1. u \in Reach(u) /\ \A v \in Reach(u) : Visits(v) \subseteq Reach(u)
      BY <1>1, WalkCloses
    <3>2. \A v \in W : Visits(v) \subseteq W
      BY WalkCloses DEF Visited
    <3> QED BY <3>1, <3>2 DEF Downward
  <2> HIDE DEF D
  <2>2. Within(W, u) \subseteq D
    BY <2>1 DEF Within
  <2> QED BY <2>2 DEF D
<1>3. \A u \in W : Visits(u) \subseteq W
  BY WalkCloses DEF Visited
<1>4. \A u \in W : Alarmed(W, u) \subseteq Alarms(u)
  BY <1>2 DEF Alarmed, Alarms
<1>5. \A u \in W : Late(W, u) \subseteq LateAlarms(u)
  <2>1. \A u \in W : Within(W, u) \subseteq W
    BY DEF Within
  <2> HIDE DEF W
  <2> QED BY <1>2, <1>4, <2>1 DEF Late, LateAlarms
<1> HIDE DEF W
<1>6. \A v \in W : \A u \in Visits(v) : Late(W, u) \cap Overlooked(v) = {}
  BY <1>3, <1>5 DEF InSight, W
<1>7. \A v \in W : v[1] = "statement" /\ v[2][1] = "assign" => TargetOf(v[2])[2] \notin Capability
  BY DEF InSight, W
<1> QED BY <1>6, <1>7 DEF Seen, W

(* All that is visited is led to by the script.                            *)
LEMMA VisitedIsTree ==
    ASSUME NEW stmts, WalkEnds(OfBody(stmts, Core)), Closed(Visited(stmts))
    PROVE  /\ Tree(Visited(stmts)) /\ OfBody(stmts, Core) \in Visited(stmts)
           /\ Within(Visited(stmts), OfBody(stmts, Core)) = Visited(stmts)
<1> DEFINE u == OfBody(stmts, Core)
           W == Visited(stmts)
           D == {v \in W : Kinded(v)}
<1>1. u \in W /\ W = Reach(u)
  BY WalkCloses DEF Visited
<1>2. Kinded(u)
  BY KindKnown DEF Kinded
<1>3. \A v \in W : Visits(v) \subseteq W
  BY DEF Closed
<1> HIDE DEF u, W
<1>4. W \subseteq D
  <2>1. u \in D
    BY <1>1, <1>2
  <2>2. Downward(D)
    BY <1>3, PartsKnow DEF Downward
  <2> HIDE DEF D
  <2> QED BY <1>1, <2>1, <2>2, ReachLeast
<1>5. Tree(W)
  BY <1>4 DEF Tree, W
<1>6. W \subseteq Within(W, u)
  <2> SUFFICES ASSUME NEW x \in W, NEW E \in SUBSET W, u \in E, Downward(E) PROVE x \in E
    BY DEF Within
  <2> QED BY <1>1, ReachLeast
<1> QED BY <1>1, <1>5, <1>6 DEF u, W, Within

(* What a name is, or is about to be, where a frame runs: its script's     *)
(* own, or what a statement that waits for its value is to bind.           *)
Soon(sc, st, at, n) ==
    Own(sc, at, n)
    \/ \E g \in ToSet(st) : g.is = "seed" /\ g.at \in sc[at].around /\ n \in TargetBinds(g.target)
Known(sc, at, n) == Own(sc, at, n) \/ Pending(sc, sc[at].around, n)

(* Names reached for in a visit are nobody's: neither those of code that   *)
(* runs in order, nor, once and for all, those of the agents made in it.   *)
Nobodys(W, sc, st, at, N, u) ==
    /\ \A n \in Alarmed(W, u) : ~Soon(sc, st, at, n) /\ n \notin N
    /\ \A n \in Late(W, u) : ~Known(sc, at, n)

(* What a frame has yet to run, and the names declared in it before that.  *)
ToRun(f, u, N) ==
    \/ /\ f.is \in {"block", "agent"}
       /\ \E j \in DOMAIN f.rest :
            u = OfStatement(f.rest[j], u[3], u[4]) /\ N = DeclaredBefore(f.rest, j)
    \/ /\ f.is = "arrival"
       /\ \/ \E j \in DOMAIN f.rest :
               u = OfExpr(f.rest[j][2][2], u[3], u[4]) /\ N = DeclaredBefore(f.rest, j)
          \/ u = OfBody(f.target, u[3]) /\ N = DeclaredIn(f.rest)
    \/ f.is = "attempt" /\ u = OfBody(f.rest, u[3]) /\ N = {f.target[2]}
FrameHolds(W, sc, st, f, u) == \E N : ToRun(f, u, N) /\ Nobodys(W, sc, st, f.at, N, u)

(* A part of an agent that was made and not called.                        *)
AgentHolds(W, sc, c, u) ==
    /\ c[1] = "closure" /\ c[4] \in 1..Len(sc)
    /\ \E v \in W : Makes(v) /\ c[2] = ParamsIn(v) /\ c[3] = BodyIn(v) /\ u \in Visits(v)
    /\ \A n \in Alarmed(W, u) : ~Known(sc, c[4], n)

Carried(W, sc, st, un, u) ==
    \/ \E f \in ToSet(st) : FrameHolds(W, sc, st, f, u)
    \/ \E c \in un : AgentHolds(W, sc, c, u)

(* Every call that reaches for a name is in what is still to come.         *)
Remains(W, sc, st, un, u) ==
    \A x \in Within(W, u) :
        ReachedFor(x) # {} => \E w \in W : x \in Within(W, w) /\ Carried(W, sc, st, un, w)
Held(W, sc, st, un) ==
    \A x \in W : ReachedFor(x) # {} => \E w \in W : x \in Within(W, w) /\ Carried(W, sc, st, un, w)

LEMMA HeldOn ==
    ASSUME NEW W, NEW sc, NEW st, NEW un, Held(W, sc, st, un), NEW sd, NEW su, NEW uo,
           \A u \in W : Carried(W, sc, st, un, u) => Remains(W, sd, su, uo, u)
    PROVE  Held(W, sd, su, uo)
<1> SUFFICES ASSUME NEW x \in W, ReachedFor(x) # {}
             PROVE  \E w \in W : x \in Within(W, w) /\ Carried(W, sd, su, uo, w)
  BY DEF Held
<1>1. PICK u \in W : x \in Within(W, u) /\ Carried(W, sc, st, un, u)
  BY DEF Held
<1>2. Remains(W, sd, su, uo, u)
  BY <1>1
<1> QED BY <1>1, <1>2 DEF Remains

LEMMA CarriedRemains ==
    ASSUME NEW W, NEW sc, NEW st, NEW un, NEW u \in W, Carried(W, sc, st, un, u)
    PROVE  Remains(W, sc, st, un, u)
  BY DEF Remains

LEMMA RemainsByParts ==
    ASSUME NEW W, Downward(W), NEW sc, NEW st, NEW un, NEW u \in W, ReachedFor(u) = {},
           \A w \in Visits(u) : Remains(W, sc, st, un, w)
    PROVE  Remains(W, sc, st, un, u)
<1> SUFFICES ASSUME NEW x \in Within(W, u), ReachedFor(x) # {}
             PROVE  \E w \in W : x \in Within(W, w) /\ Carried(W, sc, st, un, w)
  BY DEF Remains
<1>1. PICK w \in Visits(u) : x \in Within(W, w)
  BY WithinParts
<1> QED BY <1>1 DEF Remains

(* A visit that reaches for nothing.                                       *)
LEMMA RemainsForNothing ==
    ASSUME NEW W, NEW sc, NEW st, NEW un, NEW u, Alarmed(W, u) = {}
    PROVE  Remains(W, sc, st, un, u)
  BY DEF Remains, Alarmed

(* Fewer names are anybody's.                                              *)
LEMMA NobodysOn ==
    ASSUME NEW W, NEW sc, NEW st, NEW at, NEW N, NEW u, Nobodys(W, sc, st, at, N, u),
           NEW sd, NEW su, NEW bt, NEW M,
           \A n : Soon(sd, su, bt, n) \/ n \in M => Soon(sc, st, at, n) \/ n \in N,
           \A n : Known(sd, bt, n) => Known(sc, at, n)
    PROVE  Nobodys(W, sd, su, bt, M, u)
  BY DEF Nobodys

LEMMA FrameOn ==
    ASSUME NEW W, NEW sc, NEW st, NEW f, NEW u, FrameHolds(W, sc, st, f, u), NEW sd, NEW su,
           \A n : Soon(sd, su, f.at, n) => Soon(sc, st, f.at, n),
           \A n : Known(sd, f.at, n) => Known(sc, f.at, n)
    PROVE  FrameHolds(W, sd, su, f, u)
<1>1. PICK N : ToRun(f, u, N) /\ Nobodys(W, sc, st, f.at, N, u)
  BY DEF FrameHolds
<1>2. Nobodys(W, sd, su, f.at, N, u)
  BY <1>1, NobodysOn
<1> QED BY <1>1, <1>2 DEF FrameHolds

LEMMA AgentOn ==
    ASSUME NEW W, NEW sc, NEW c, NEW u, AgentHolds(W, sc, c, u), NEW sd,
           Len(sc) \in Nat, Len(sd) \in Nat, Len(sc) <= Len(sd),
           \A at \in 1..Len(sc) : \A n : Known(sd, at, n) => Known(sc, at, n)
    PROVE  AgentHolds(W, sd, c, u)
<1>1. c[4] \in 1..Len(sc) /\ c[4] \in 1..Len(sd)
  BY DEF AgentHolds
<1> QED BY <1>1 DEF AgentHolds

(* What is declared behind the first statement.                            *)
LEMMA DeclaredShifts ==
    ASSUME NEW rest, IsList(rest), rest # << >>
    PROVE  /\ DeclaredBefore(rest, 1) = {}
           /\ DeclaredIn(rest) = Declares(Head(rest)) \cup DeclaredIn(Tail(rest))
           /\ \A i \in 1..Len(rest) :
                DeclaredBefore(rest, i + 1) = Declares(Head(rest)) \cup DeclaredBefore(Tail(rest), i)
<1>1. /\ IsList(Tail(rest)) /\ Len(Tail(rest)) = Len(rest) - 1 /\ Len(rest) \in Nat \ {0}
      /\ Head(rest) = rest[1] /\ \A j \in 1..(Len(rest) - 1) : Tail(rest)[j] = rest[j + 1]
  BY ListSplits
<1> DEFINE t == Tail(rest)
<1>2. DOMAIN rest = 1..Len(rest) /\ DOMAIN t = 1..(Len(rest) - 1)
  BY <1>1, ListKnown
<1>3. ASSUME NEW i \in 1..Len(rest)
      PROVE  UNION {Declares(rest[j]) : j \in 1..i}
               = Declares(rest[1]) \cup UNION {Declares(t[j]) : j \in 1..(i - 1)}
  <2>1. \A j \in 1..(i - 1) : t[j] = rest[j + 1] /\ j + 1 \in 1..i
    BY <1>1
  <2>2. \A j \in 1..i : j = 1 \/ (j - 1 \in 1..(i - 1) /\ t[j - 1] = rest[j])
    <3> SUFFICES ASSUME NEW j \in 1..i, j # 1 PROVE j - 1 \in 1..(i - 1) /\ t[j - 1] = rest[j]
      OBVIOUS
    <3>1. j - 1 \in 1..(i - 1) /\ (j - 1) + 1 = j
      BY <1>1
    <3> QED BY <2>1, <3>1
  <2>3. 1 \in 1..i
    BY <1>1
  <2> HIDE DEF t
  <2>4. ASSUME NEW x \in UNION {Declares(rest[j]) : j \in 1..i}
        PROVE  x \in Declares(rest[1]) \cup UNION {Declares(t[j]) : j \in 1..(i - 1)}
    <3>1. PICK j \in 1..i : x \in Declares(rest[j])
      OBVIOUS
    <3> QED BY <2>2, <3>1
  <2>5. ASSUME NEW x \in UNION {Declares(t[j]) : j \in 1..(i - 1)}
        PROVE  x \in UNION {Declares(rest[j]) : j \in 1..i}
    <3>1. PICK j \in 1..(i - 1) : x \in Declares(t[j])
      BY <2>5
    <3> QED BY <2>1, <3>1
  <2> QED BY <2>3, <2>4, <2>5
<1>4. DeclaredBefore(rest, 1) = {}
  BY DEF DeclaredBefore
<1>5. \A i \in 1..Len(rest) :
        DeclaredBefore(rest, i + 1) = Declares(Head(rest)) \cup DeclaredBefore(t, i)
  <2>1. \A i \in 1..Len(rest) : (i + 1) - 1 = i
    BY <1>1
  <2> HIDE DEF t
  <2> QED BY <1>1, <1>3, <2>1 DEF DeclaredBefore
<1>6. DeclaredIn(rest) = UNION {Declares(rest[j]) : j \in 1..Len(rest)}
  BY <1>2 DEF DeclaredIn, ToSet
<1>7. DeclaredIn(t) = UNION {Declares(t[j]) : j \in 1..(Len(rest) - 1)}
  BY <1>2 DEF DeclaredIn, ToSet
<1> HIDE DEF t
<1>8. Len(rest) \in 1..Len(rest)
  BY <1>1
<1>9. DeclaredIn(rest) = Declares(Head(rest)) \cup DeclaredIn(t)
  BY <1>1, <1>3, <1>6, <1>7, <1>8
<1> QED BY <1>4, <1>5, <1>9 DEF t

-----------------------------------------------------------------------------
(* The stack.  What a frame is to bind is due in its scope; a frame that   *)
(* runs has a scope made after those of all below; and no assignment turns *)
(* a capability's name into the script's own.                              *)
Brings(f) ==
    IF f.is = "seed" THEN TargetBinds(f.target)
    ELSE IF f.is \in Working
    THEN DeclaredIn(f.rest) \cup (IF f.is = "arrival" THEN DeclaredIn(f.target) ELSE {})
    ELSE {}
InPlace(sc, f) ==
    /\ f.at \in 1..Len(sc)
    /\ \A n \in Brings(f) : OwnAt(sc[f.at], n) \/ n \in sc[f.at].due
    /\ f.is = "assign" => f.target[2] \notin Capability
Stacked(sc, st) ==
    /\ IsList(st)
    /\ \A p \in 1..Len(st) :
         /\ InPlace(sc, st[p])
         /\ st[p].is \in Working => \A q \in (p + 1)..Len(st) : st[q].at < st[p].at

LEMMA Members ==
    ASSUME NEW s, IsList(s)
    PROVE  /\ ToSet(s) = {s[i] : i \in 1..Len(s)}
           /\ s # << >> => ToSet(s) = {Head(s)} \cup ToSet(Tail(s))
           /\ \A f : ToSet(<<f>> \o s) = {f} \cup ToSet(s)
<1>1. \A t : IsList(t) => ToSet(t) = {t[i] : i \in 1..Len(t)}
  BY ListKnown DEF ToSet
<1>2. ASSUME s # << >> PROVE ToSet(s) = {Head(s)} \cup ToSet(Tail(s))
  <2>1. /\ IsList(Tail(s)) /\ Len(Tail(s)) = Len(s) - 1 /\ Len(s) \in Nat \ {0}
        /\ Head(s) = s[1] /\ \A i \in 1..(Len(s) - 1) : Tail(s)[i] = s[i + 1]
    BY <1>2, ListSplits
  <2>2. ToSet(s) = {s[i] : i \in 1..Len(s)} /\ ToSet(Tail(s)) = {Tail(s)[i] : i \in 1..(Len(s) - 1)}
    BY <1>1, <2>1
  <2>3. ASSUME NEW i \in 1..Len(s) PROVE s[i] \in {Head(s)} \cup ToSet(Tail(s))
    <3>1. i # 1 => i - 1 \in 1..(Len(s) - 1) /\ (i - 1) + 1 = i
      BY <2>1
    <3>2. i # 1 => Tail(s)[i - 1] = s[i]
      BY <2>1, <3>1
    <3> QED BY <2>1, <2>2, <3>1, <3>2
  <2>4. 1 \in 1..Len(s) /\ \A i \in 1..(Len(s) - 1) : i + 1 \in 1..Len(s)
    BY <2>1
  <2>5. Head(s) \in ToSet(s) /\ ToSet(Tail(s)) \subseteq ToSet(s)
    BY <2>1, <2>2, <2>4
  <2> QED BY <2>2, <2>3, <2>5
<1>3. ASSUME NEW f PROVE ToSet(<<f>> \o s) = {f} \cup ToSet(s)
  <2> DEFINE t == <<f>> \o s
  <2>1. /\ IsList(t) /\ Len(t) = Len(s) + 1 /\ t[1] = f /\ \A i \in 1..Len(s) : t[i + 1] = s[i]
        /\ Len(s) \in Nat
    BY ListPushed, ListKnown
  <2> HIDE DEF t
  <2>2. ToSet(t) = {t[i] : i \in 1..(Len(s) + 1)} /\ ToSet(s) = {s[i] : i \in 1..Len(s)}
    BY <1>1, <2>1
  <2>3. \A i \in 1..(Len(s) + 1) : i = 1 \/ (i - 1 \in 1..Len(s) /\ (i - 1) + 1 = i)
    BY <2>1
  <2>4. 1 \in 1..(Len(s) + 1) /\ \A i \in 1..Len(s) : i + 1 \in 1..(Len(s) + 1)
    BY <2>1
  <2>5. ASSUME NEW i \in 1..(Len(s) + 1) PROVE t[i] \in {f} \cup ToSet(s)
    <3>1. i # 1 => t[i] = s[i - 1] /\ i - 1 \in 1..Len(s)
      BY <2>1, <2>3
    <3> QED BY <2>1, <2>2, <3>1
  <2>6. f \in ToSet(t) /\ ToSet(s) \subseteq ToSet(t)
    BY <2>1, <2>2, <2>4
  <2> QED BY <2>2, <2>5, <2>6 DEF t
<1> QED BY <1>1, <1>2, <1>3

LEMMA StackedPop ==
    ASSUME NEW sc, NEW s, Stacked(sc, s), s # << >>
    PROVE  /\ InPlace(sc, Head(s)) /\ Stacked(sc, Tail(s))
           /\ Head(s).is \in Working => \A f \in ToSet(Tail(s)) : f.at < Head(s).at
           /\ ToSet(s) = {Head(s)} \cup ToSet(Tail(s))
<1>1. /\ IsList(s) /\ IsList(Tail(s)) /\ Len(Tail(s)) = Len(s) - 1 /\ Len(s) \in Nat \ {0}
      /\ Head(s) = s[1] /\ \A i \in 1..(Len(s) - 1) : Tail(s)[i] = s[i + 1]
  BY ListSplits DEF Stacked
<1>2. ToSet(s) = {Head(s)} \cup ToSet(Tail(s)) /\ ToSet(Tail(s)) = {Tail(s)[i] : i \in 1..(Len(s) - 1)}
  <2>1. ToSet(s) = {Head(s)} \cup ToSet(Tail(s))
    BY <1>1, Members
  <2>2. ToSet(Tail(s)) = {Tail(s)[i] : i \in 1..Len(Tail(s))}
    BY <1>1, Members
  <2> QED BY <1>1, <2>1, <2>2
<1>3. 1 \in 1..Len(s)
  BY <1>1
<1>4. \A i \in 1..(Len(s) - 1) : i + 1 \in 1..Len(s) /\ i + 1 \in (1 + 1)..Len(s)
  BY <1>1
<1>5. \A p \in 1..(Len(s) - 1) : \A q \in (p + 1)..(Len(s) - 1) : q \in 1..(Len(s) - 1) /\ q + 1 \in ((p + 1) + 1)..Len(s)
  BY <1>1
<1>6. Head(s).is \in Working => \A i \in 1..(Len(s) - 1) : Tail(s)[i].at < Head(s).at
  BY <1>1, <1>3, <1>4 DEF Stacked
<1>7. ASSUME NEW p \in 1..Len(Tail(s))
      PROVE  /\ InPlace(sc, Tail(s)[p])
             /\ Tail(s)[p].is \in Working => \A q \in (p + 1)..Len(Tail(s)) : Tail(s)[q].at < Tail(s)[p].at
  <2>1. p \in 1..(Len(s) - 1) /\ p + 1 \in 1..Len(s) /\ Tail(s)[p] = s[p + 1]
    BY <1>1, <1>4
  <2>2. \A q \in (p + 1)..Len(Tail(s)) : Tail(s)[q] = s[q + 1] /\ q + 1 \in ((p + 1) + 1)..Len(s)
    BY <1>1, <1>5, <2>1
  <2> QED BY <2>1, <2>2 DEF Stacked
<1>8. InPlace(sc, Head(s))
  BY <1>1, <1>3 DEF Stacked
<1> QED BY <1>1, <1>2, <1>6, <1>7, <1>8 DEF Stacked

LEMMA StackedPush ==
    ASSUME NEW sc, NEW s, Stacked(sc, s), NEW f, InPlace(sc, f),
           f.is \in Working => \A g \in ToSet(s) : g.at < f.at
    PROVE  Stacked(sc, <<f>> \o s) /\ ToSet(<<f>> \o s) = {f} \cup ToSet(s)
<1> DEFINE t == <<f>> \o s
<1>1. /\ IsList(s) /\ IsList(t) /\ Len(t) = Len(s) + 1 /\ t[1] = f /\ Len(s) \in Nat
      /\ \A i \in 1..Len(s) : t[i + 1] = s[i]
  BY ListPushed, ListKnown DEF Stacked
<1>2. ToSet(t) = {f} \cup ToSet(s) /\ ToSet(s) = {s[i] : i \in 1..Len(s)}
  BY <1>1, Members
<1> HIDE DEF t
<1>3. ASSUME NEW p \in 1..Len(t)
      PROVE  /\ InPlace(sc, t[p])
             /\ t[p].is \in Working => \A q \in (p + 1)..Len(t) : t[q].at < t[p].at
  <2>1. CASE p = 1
    <3>1. \A q \in (p + 1)..Len(t) : q - 1 \in 1..Len(s) /\ (q - 1) + 1 = q
      BY <1>1, <2>1
    <3>2. \A q \in (p + 1)..Len(t) : t[q] = s[q - 1] /\ t[q] \in ToSet(s)
      BY <1>1, <1>2, <3>1
    <3> QED BY <1>1, <2>1, <3>2
  <2>2. CASE p # 1
    <3>1. p - 1 \in 1..Len(s) /\ (p - 1) + 1 = p
      BY <1>1, <2>2
    <3>2. \A q \in (p + 1)..Len(t) : q - 1 \in 1..Len(s) /\ (q - 1) + 1 = q /\ q - 1 \in ((p - 1) + 1)..Len(s)
      BY <1>1, <3>1
    <3>3. t[p] = s[p - 1] /\ \A q \in (p + 1)..Len(t) : t[q] = s[q - 1]
      BY <1>1, <3>1, <3>2
    <3> QED BY <3>1, <3>2, <3>3 DEF Stacked
  <2> QED BY <2>1, <2>2
<1> QED BY <1>1, <1>2, <1>3 DEF Stacked, t

LEMMA StackedLater ==
    ASSUME NEW sc, NEW sd, Len(sc) \in Nat, Later(sc, sd), NEW s, Stacked(sc, s)
    PROVE  Stacked(sd, s)
<1>1. ASSUME NEW f, InPlace(sc, f) PROVE InPlace(sd, f)
  <2>1. f.at \in 1..Len(sc) /\ f.at \in 1..Len(sd) /\ LaterAt(sc[f.at], sd[f.at])
    BY <1>1 DEF InPlace, Later
  <2> QED BY <1>1, <2>1 DEF InPlace, LaterAt
<1> QED BY <1>1 DEF Stacked

-----------------------------------------------------------------------------
(* Scopes change.  No name is known that was not; and one is only bound    *)
(* where it was, or in scope k if it is one of the names given.            *)
Binding(sc, sd, k, names) ==
    \A at \in 1..Len(sc) :
        /\ sd[at].around = sc[at].around
        /\ \A n : /\ Known(sd, at, n) => Known(sc, at, n)
                  /\ Own(sd, at, n) => Own(sc, at, n) \/ (k \in sc[at].around /\ n \in names)

LEMMA BindingSame == ASSUME NEW sc, NEW k, NEW names PROVE Binding(sc, sc, k, names)
  BY DEF Binding

LEMMA BindingAdded ==
    ASSUME NEW W, NEW sc, GoodScopes(W, sc), NEW s, NEW k, NEW names
    PROVE  Binding(sc, Append(sc, s), k, names)
<1> DEFINE sd == Append(sc, s)
<1>1. \A i \in 1..Len(sc) : sd[i] = sc[i]
  BY ListGrows DEF GoodScopes
<1>2. ASSUME NEW at \in 1..Len(sc) PROVE sd[at].around = sc[at].around /\ \A j \in sc[at].around : sd[j] = sc[j]
  <2>1. sc[at].around \subseteq 1..Len(sc)
    <3>1. sc[at].around \subseteq 1..at /\ Len(sc) \in Nat
      BY ListKnown DEF GoodScopes, GoodScope
    <3> QED BY <3>1
  <2> QED BY <1>1, <2>1
<1> HIDE DEF sd
<1> QED BY <1>2 DEF Binding, Known, Own, Pending, sd

LEMMA BindingAt ==
    ASSUME NEW W, NEW sc, GoodScopes(W, sc), NEW k \in 1..Len(sc), NEW sd, NEW names,
           \A j \in 1..Len(sc) : j # k => sd[j] = sc[j],
           sd[k].around = sc[k].around, sd[k].due \subseteq sc[k].due,
           \A n : OwnAt(sd[k], n) => OwnAt(sc[k], n) \/ n \in names,
           \A n \in names : OwnAt(sc[k], n) \/ n \in sc[k].due
    PROVE  Binding(sc, sd, k, names)
<1> SUFFICES ASSUME NEW at \in 1..Len(sc), NEW n
             PROVE  /\ sd[at].around = sc[at].around
                    /\ Known(sd, at, n) => Known(sc, at, n)
                    /\ Own(sd, at, n) => Own(sc, at, n) \/ (k \in sc[at].around /\ n \in names)
  BY DEF Binding
<1>1. sd[at].around = sc[at].around
  OBVIOUS
<1>2. sc[at].around \subseteq 1..Len(sc)
  <2>1. sc[at].around \subseteq 1..at /\ Len(sc) \in Nat
    BY ListKnown DEF GoodScopes, GoodScope
  <2> QED BY <2>1
<1>3. \A j \in sc[at].around : OwnAt(sd[j], n) => OwnAt(sc[j], n) \/ (j = k /\ n \in names)
  BY <1>2
<1>4. \A j \in sc[at].around : n \in sd[j].due => n \in sc[j].due
  BY <1>2
<1> QED BY <1>1, <1>3, <1>4 DEF Known, Own, Pending

LEMMA BindingBinds ==
    ASSUME NEW W, NEW sc, GoodScopes(W, sc), NEW k \in 1..Len(sc), NEW more,
           \A n \in DOMAIN more : OwnAt(sc[k], n) \/ n \in sc[k].due
    PROVE  Binding(sc, Bind(sc, k, more), k, DOMAIN more)
<1> DEFINE sd == Bind(sc, k, more)
<1>1. DOMAIN sc = 1..Len(sc) /\ sc[k] = [vars |-> sc[k].vars, around |-> sc[k].around, outside |-> sc[k].outside, due |-> sc[k].due]
  BY ListKnown DEF GoodScopes, GoodScope
<1>2. \A j \in 1..Len(sc) : j # k => sd[j] = sc[j]
  BY <1>1 DEF Bind
<1>3. /\ sd[k].around = sc[k].around /\ sd[k].due = sc[k].due \ DOMAIN more
      /\ sd[k].vars = Extended(sc[k].vars, more)
  BY <1>1 DEF Bind
<1> HIDE DEF sd
<1>4. ASSUME NEW n, OwnAt(sd[k], n) PROVE OwnAt(sc[k], n) \/ n \in DOMAIN more
  <2>1. n \notin DOMAIN more => n \in DOMAIN sc[k].vars /\ sd[k].vars[n] = sc[k].vars[n]
    BY <1>3, <1>4 DEF OwnAt, Extended
  <2> QED BY <1>4, <2>1 DEF OwnAt
<1> QED BY <1>2, <1>3, <1>4, BindingAt DEF sd

LEMMA BindingAssigned ==
    ASSUME NEW W, NEW sc, GoodScopes(W, sc), NEW k \in 1..Len(sc), NEW m \in DOMAIN sc[k].vars, NEW v,
           OwnAt(sc[k], m), NEW at, NEW names
    PROVE  Binding(sc, [sc EXCEPT ![k].vars[m] = v], at, names)
<1> DEFINE sd == [sc EXCEPT ![k].vars[m] = v]
<1>1. DOMAIN sc = 1..Len(sc) /\ sc[k] = [vars |-> sc[k].vars, around |-> sc[k].around, outside |-> sc[k].outside, due |-> sc[k].due]
  BY ListKnown DEF GoodScopes, GoodScope
<1>2. \A j \in 1..Len(sc) : j # k => sd[j] = sc[j]
  BY <1>1
<1>3. /\ sd[k].around = sc[k].around /\ sd[k].due = sc[k].due
      /\ sd[k].vars = [sc[k].vars EXCEPT ![m] = v]
  BY <1>1
<1> HIDE DEF sd
<1>4. ASSUME NEW n, OwnAt(sd[k], n) PROVE OwnAt(sc[k], n)
  <2>1. n # m => n \in DOMAIN sc[k].vars /\ sd[k].vars[n] = sc[k].vars[n]
    BY <1>3, <1>4 DEF OwnAt
  <2> QED BY <1>4, <2>1 DEF OwnAt
<1>5. Binding(sc, sd, k, {})
  BY <1>2, <1>3, <1>4, BindingAt
<1> QED BY <1>5 DEF Binding, sd

(* The names that are somebody's grow by those alone.                      *)
LEMMA SoonOn ==
    ASSUME NEW sc, NEW sd, NEW k, NEW names, Binding(sc, sd, k, names), NEW st, NEW su,
           \A g \in ToSet(su) : g.is = "seed" =>
              g \in ToSet(st) \/ (g.at = k /\ TargetBinds(g.target) \subseteq names),
           NEW at \in 1..Len(sc), NEW n, Soon(sd, su, at, n)
    PROVE  Soon(sc, st, at, n) \/ (k \in sc[at].around /\ n \in names)
<1>1. sd[at].around = sc[at].around
  BY DEF Binding
<1>2. CASE Own(sd, at, n)
  BY <1>2 DEF Binding, Soon
<1>3. CASE \E g \in ToSet(su) : g.is = "seed" /\ g.at \in sd[at].around /\ n \in TargetBinds(g.target)
  BY <1>1, <1>3 DEF Soon
<1> QED BY <1>2, <1>3 DEF Soon

-----------------------------------------------------------------------------
(* What goes on, and what begins.                                          *)

(* What the frame on top is to run next.                                   *)
Now(u) ==
    IF Top.is = "arrival" THEN u = OfExpr(This[2][2], u[3], u[4]) ELSE u = OfStatement(This, u[3], u[4])

LEMMA FrameWith ==
    ASSUME NEW f, f = Frame(f.is, f.at, f.rest, f.target), NEW x
    PROVE  [f EXCEPT !.rest = x] = Frame(f.is, f.at, x, f.target)
<1>1. f = [is |-> f.is, at |-> f.at, rest |-> f.rest, target |-> f.target]
  BY DEF Frame
<1>2. [f EXCEPT !.rest = x] = [is |-> f.is, at |-> f.at, rest |-> x, target |-> f.target]
  BY <1>1
<1> QED BY <1>2 DEF Frame

LEMMA FrameGoesOn ==
    ASSUME NEW f, f = Frame(f.is, f.at, f.rest, f.target)
    PROVE  [f EXCEPT !.rest = Tail(@)] = Frame(f.is, f.at, Tail(f.rest), f.target)
<1>1. \A x : [f EXCEPT !.rest = x] = Frame(f.is, f.at, x, f.target)
  BY FrameWith
<1> QED BY <1>1

LEMMA TopShape ==
    ASSUME NEW W, Closed(W), Runs(W, scopes, stack, signal), NEW kinds, Here(kinds)
    PROVE  /\ Top.is \in Working /\ IsList(Top.rest) /\ Top.rest # << >> /\ This[1] \in kinds
           /\ Top.at \in 1..Len(scopes) /\ Len(scopes) \in Nat /\ stack # << >>
           /\ GoodScopes(W, scopes)
           /\ LET g == [Top EXCEPT !.rest = Tail(@)]
              IN  /\ g.is = Top.is /\ g.at = Top.at /\ g.rest = Tail(Top.rest) /\ g.target = Top.target
                  /\ Onward = <<g>> \o Tail(stack)
<1>1. PICK V, F : WorksOn(W, scopes, Top, {}, V, F)
  BY HereRuns
<1>2. GoodScopes(W, scopes) /\ Top.at \in 1..Len(scopes) /\ This[1] \in kinds
  BY HereRuns
<1>3. Len(scopes) \in Nat
  BY <1>2, ListKnown DEF GoodScopes
<1>4. Sound(W, scopes, Top, {})
  BY TopRuns DEF Here
<1>5. Top = Frame(Top.is, Top.at, Top.rest, Top.target)
  BY <1>4 DEF Sound, Anchored
<1> DEFINE g == [Top EXCEPT !.rest = Tail(@)]
<1>6. g = Frame(Top.is, Top.at, Tail(Top.rest), Top.target)
  <2>1. \A f : f = Frame(f.is, f.at, f.rest, f.target) =>
                 [f EXCEPT !.rest = Tail(@)] = Frame(f.is, f.at, Tail(f.rest), f.target)
    BY FrameGoesOn
  <2> QED BY <1>5, <2>1
<1>7. g.is = Top.is /\ g.at = Top.at /\ g.rest = Tail(Top.rest) /\ g.target = Top.target
  <2> HIDE DEF g
  <2> QED BY <1>6 DEF Frame
<1>8. Onward = <<g>> \o Tail(stack)
  BY DEF Onward
<1>9. IsList(Top.rest)
  BY <1>1 DEF WorksOn
<1> QED BY <1>2, <1>3, <1>7, <1>8, <1>9 DEF Here, Running, Working

(* The frame on top goes on behind its first statement, which has made its *)
(* names somebody's, or is about to.                                       *)
LEMMA HeldBehind ==
    ASSUME NEW W, NEW f, f.is \in Working, IsList(f.rest), f.rest # << >>, NEW g,
           g.is = f.is, g.at = f.at, g.rest = Tail(f.rest), g.target = f.target,
           NEW sc, NEW st, NEW u, FrameHolds(W, sc, st, f, u), NEW sd, NEW su,
           \A n : Soon(sd, su, f.at, n) => Soon(sc, st, f.at, n) \/ n \in Declares(Head(f.rest)),
           \A n : Known(sd, f.at, n) => Known(sc, f.at, n)
    PROVE  \/ FrameHolds(W, sd, su, g, u)
           \/ /\ IF f.is = "arrival" THEN u = OfExpr(Head(f.rest)[2][2], u[3], u[4])
                                     ELSE u = OfStatement(Head(f.rest), u[3], u[4])
              /\ Nobodys(W, sc, st, f.at, {}, u)
<1>1. PICK N : ToRun(f, u, N) /\ Nobodys(W, sc, st, f.at, N, u)
  BY DEF FrameHolds
<1> DEFINE t == Tail(f.rest)
<1>2. /\ IsList(t) /\ Len(t) = Len(f.rest) - 1 /\ Len(f.rest) \in Nat \ {0}
      /\ Head(f.rest) = f.rest[1] /\ \A j \in 1..(Len(f.rest) - 1) : t[j] = f.rest[j + 1]
  BY ListSplits
<1>3. DOMAIN t = 1..Len(t) /\ DOMAIN f.rest = 1..Len(f.rest)
  BY <1>2, ListKnown
<1>4. /\ DeclaredBefore(f.rest, 1) = {} /\ DeclaredIn(f.rest) = Declares(Head(f.rest)) \cup DeclaredIn(t)
      /\ \A i \in 1..Len(f.rest) :
           DeclaredBefore(f.rest, i + 1) = Declares(Head(f.rest)) \cup DeclaredBefore(t, i)
  BY DeclaredShifts
<1> HIDE DEF t
<1>5. ASSUME NEW j \in DOMAIN f.rest, j # 1
      PROVE  /\ j - 1 \in DOMAIN t /\ t[j - 1] = f.rest[j]
             /\ DeclaredBefore(f.rest, j) = Declares(Head(f.rest)) \cup DeclaredBefore(t, j - 1)
  <2>1. j - 1 \in 1..(Len(f.rest) - 1) /\ (j - 1) + 1 = j /\ j - 1 \in 1..Len(f.rest)
    BY <1>2, <1>3, <1>5
  <2>2. j - 1 \in DOMAIN t /\ t[j - 1] = f.rest[j]
    BY <1>2, <1>3, <2>1
  <2>3. DeclaredBefore(f.rest, (j - 1) + 1) = Declares(Head(f.rest)) \cup DeclaredBefore(t, j - 1)
    BY <1>4, <2>1
  <2> QED BY <2>1, <2>2, <2>3
<1>6. ASSUME NEW M, N = Declares(Head(f.rest)) \cup M PROVE Nobodys(W, sd, su, g.at, M, u)
  BY <1>1, <1>6, NobodysOn
<1>7. CASE \E j \in DOMAIN f.rest : f.is # "arrival" /\ u = OfStatement(f.rest[j], u[3], u[4])
                                     /\ N = DeclaredBefore(f.rest, j)
  <2>1. PICK j \in DOMAIN f.rest : f.is # "arrival" /\ u = OfStatement(f.rest[j], u[3], u[4])
                                     /\ N = DeclaredBefore(f.rest, j)
    BY <1>7
  <2>2. CASE j = 1
    BY <1>1, <1>2, <1>4, <2>1, <2>2
  <2>3. CASE j # 1
    <3>1. Nobodys(W, sd, su, g.at, DeclaredBefore(t, j - 1), u)
      BY <1>5, <1>6, <2>1, <2>3
    <3>2. ToRun(g, u, DeclaredBefore(t, j - 1))
      BY <1>5, <2>1, <2>3 DEF ToRun, t, Working
    <3> QED BY <3>1, <3>2 DEF FrameHolds
  <2> QED BY <2>2, <2>3
<1>8. CASE \E j \in DOMAIN f.rest : f.is = "arrival" /\ u = OfExpr(f.rest[j][2][2], u[3], u[4])
                                     /\ N = DeclaredBefore(f.rest, j)
  <2>1. PICK j \in DOMAIN f.rest : f.is = "arrival" /\ u = OfExpr(f.rest[j][2][2], u[3], u[4])
                                     /\ N = DeclaredBefore(f.rest, j)
    BY <1>8
  <2>2. CASE j = 1
    BY <1>1, <1>2, <1>4, <2>1, <2>2
  <2>3. CASE j # 1
    <3>1. Nobodys(W, sd, su, g.at, DeclaredBefore(t, j - 1), u)
      BY <1>5, <1>6, <2>1, <2>3
    <3>2. ToRun(g, u, DeclaredBefore(t, j - 1))
      BY <1>5, <2>1, <2>3 DEF ToRun, t
    <3> QED BY <3>1, <3>2 DEF FrameHolds
  <2> QED BY <2>2, <2>3
<1>9. CASE f.is = "arrival" /\ u = OfBody(f.target, u[3]) /\ N = DeclaredIn(f.rest)
  <2>1. Nobodys(W, sd, su, g.at, DeclaredIn(t), u)
    BY <1>4, <1>6, <1>9
  <2>2. ToRun(g, u, DeclaredIn(t))
    BY <1>9 DEF ToRun, t
  <2> QED BY <2>1, <2>2 DEF FrameHolds
<1>10. f.is # "attempt"
  BY DEF Working
<1> QED BY <1>1, <1>7, <1>8, <1>9, <1>10 DEF ToRun

LEMMA HereHeld ==
    ASSUME NEW W, Closed(W), Runs(W, scopes, stack, signal), Stacked(scopes, stack),
           Held(W, scopes, stack, untried), NEW kinds, Here(kinds), NEW sd, NEW su, NEW uo,
           Len(sd) \in Nat, Len(scopes) <= Len(sd),
           Binding(scopes, sd, Top.at, Declares(This)), ToSet(Onward) \subseteq ToSet(su),
           \A g \in ToSet(su) : g.is = "seed" =>
              g \in ToSet(stack) \/ (g.at = Top.at /\ TargetBinds(g.target) \subseteq Declares(This)),
           \A c \in untried : c[1] = "closure" => c \in uo,
           \A u \in W : Now(u) /\ Nobodys(W, scopes, stack, Top.at, {}, u) => Remains(W, sd, su, uo, u)
    PROVE  Held(W, sd, su, uo)
<1> DEFINE g == [Top EXCEPT !.rest = Tail(@)]
<1>1. /\ Top.is \in Working /\ IsList(Top.rest) /\ Top.rest # << >>
      /\ Top.at \in 1..Len(scopes) /\ Len(scopes) \in Nat /\ stack # << >> /\ GoodScopes(W, scopes)
      /\ g.is = Top.is /\ g.at = Top.at /\ g.rest = Tail(Top.rest) /\ g.target = Top.target
      /\ Onward = <<g>> \o Tail(stack)
  BY TopShape
<1> HIDE DEF g
<1>2. /\ InPlace(scopes, Top) /\ Stacked(scopes, Tail(stack)) /\ ToSet(stack) = {Top} \cup ToSet(Tail(stack))
      /\ \A f \in ToSet(Tail(stack)) : f.at < Top.at
  BY <1>1, StackedPop DEF Top
<1>3. ToSet(Onward) = {g} \cup ToSet(Tail(stack))
  BY <1>1, <1>2, Members DEF Stacked
<1>4. ASSUME NEW at \in 1..Len(scopes), NEW n
      PROVE  /\ Known(sd, at, n) => Known(scopes, at, n)
             /\ Soon(sd, su, at, n) => Soon(scopes, stack, at, n) \/ (Top.at \in scopes[at].around /\ n \in Declares(This))
  <2>1. Known(sd, at, n) => Known(scopes, at, n)
    BY DEF Binding
  <2>2. Soon(sd, su, at, n) => Soon(scopes, stack, at, n) \/ (Top.at \in scopes[at].around /\ n \in Declares(This))
    BY SoonOn
  <2> QED BY <2>1, <2>2
<1>5. ASSUME NEW f \in ToSet(Tail(stack)) PROVE f.at \in 1..Len(scopes) /\ Top.at \notin scopes[f.at].around
  <2>1. f.at \in 1..Len(scopes)
    <3>1. ToSet(Tail(stack)) = {Tail(stack)[i] : i \in 1..Len(Tail(stack))}
      BY <1>2, Members DEF Stacked
    <3> QED BY <1>2, <3>1 DEF Stacked, InPlace
  <2>2. scopes[f.at].around \subseteq 1..f.at
    BY <1>1, <2>1 DEF GoodScopes, GoodScope
  <2> QED BY <1>2, <2>1, <2>2
<1>6. ASSUME NEW u \in W, NEW f \in ToSet(Tail(stack)), FrameHolds(W, scopes, stack, f, u)
      PROVE  Remains(W, sd, su, uo, u)
  <2>1. FrameHolds(W, sd, su, f, u)
    BY <1>4, <1>5, <1>6, FrameOn
  <2> QED BY <1>3, <2>1, CarriedRemains DEF Carried
<1>7. ASSUME NEW u \in W, FrameHolds(W, scopes, stack, Top, u) PROVE Remains(W, sd, su, uo, u)
  <2>1. FrameHolds(W, sd, su, g, u) \/ (Now(u) /\ Nobodys(W, scopes, stack, Top.at, {}, u))
    <3>1. \A n : Soon(sd, su, Top.at, n) => Soon(scopes, stack, Top.at, n) \/ n \in Declares(Head(Top.rest))
      BY <1>1, <1>4 DEF This
    <3>2. \A n : Known(sd, Top.at, n) => Known(scopes, Top.at, n)
      BY <1>1, <1>4
    <3> QED BY <1>1, <1>7, <3>1, <3>2, HeldBehind DEF Now, This
  <2> QED BY <1>3, <2>1, CarriedRemains DEF Carried
<1>8. ASSUME NEW u \in W, NEW c \in untried, AgentHolds(W, scopes, c, u) PROVE Remains(W, sd, su, uo, u)
  <2>1. AgentHolds(W, sd, c, u)
    BY <1>1, <1>4, <1>8, AgentOn
  <2>2. c \in uo
    BY <1>8 DEF AgentHolds
  <2> QED BY <2>1, <2>2, CarriedRemains DEF Carried
<1>9. \A u \in W : Carried(W, scopes, stack, untried, u) => Remains(W, sd, su, uo, u)
  BY <1>2, <1>6, <1>7, <1>8 DEF Carried
<1> QED BY <1>9, HeldOn

(* What an agent that is made will run.                                    *)
LEMMA MadeRemains ==
    ASSUME NEW W, Tree(W), NEW w \in W, Makes(w), NEW sd, NEW su, NEW uo, NEW at \in 1..Len(sd),
           Closure(ParamsIn(w), BodyIn(w), at) \in uo, \A n \in Late(W, w) : ~Known(sd, at, n)
    PROVE  Remains(W, sd, su, uo, w)
<1> DEFINE c == Closure(ParamsIn(w), BodyIn(w), at)
<1>1. c[1] = "closure" /\ c[2] = ParamsIn(w) /\ c[3] = BodyIn(w) /\ c[4] = at
  BY DEF Closure
<1> HIDE DEF c
<1>2. Downward(W) /\ ReachedFor(w) = {}
  BY TreeDownward, AgentsKnow
<1>3. ASSUME NEW u \in Visits(w) PROVE Remains(W, sd, su, uo, u)
  <2>1. u \in W /\ Alarmed(W, u) \subseteq Late(W, w)
    BY <1>2, PartsAlarm
  <2>2. AgentHolds(W, sd, c, u)
    BY <1>1, <2>1 DEF AgentHolds
  <2> QED BY <2>1, <2>2, CarriedRemains DEF Carried, c
<1> QED BY <1>2, <1>3, RemainsByParts

LEMMA CallsInside ==
    ASSUME NEW e, Callee(e) # None
    PROVE  e[1] \in {"call", "pipe"} /\ Inside(e) # {}
  BY DEF Callee, None, Inside

LEMMA SimpleAlarms ==
    ASSUME NEW W, Tree(W), NEW a, NEW V, NEW F, OfExpr(a, V, F) \in W, Simple(a), a[1] # "agentexpr"
    PROVE  Alarmed(W, OfExpr(a, V, F)) = {}
<1> DEFINE w == OfExpr(a, V, F)
<1>1. w[1] = "expr" /\ w[2] = a /\ w[3] = V /\ Visits(w) = InExpr(a, V, F)
  BY KindKnown, VisitsOf
<1>2. Inside(a) = {}
  BY DEF Simple, Inside
<1>3. Callee(a) = None
  BY <1>2, CallsInside
<1> HIDE DEF w
<1>4. Visits(w) = {} /\ ReachedFor(w) = {}
  <2>1. InExpr(a, V, F) = {}
    BY <1>2 DEF InExpr
  <2> QED BY <1>1, <1>3, <2>1 DEF ReachedFor, CalleeName, None
<1>5. Alarmed(W, w) = {}
  BY <1>4, AlarmsOfParts, TreeDownward DEF w
<1> QED BY <1>5 DEF w

LEMMA SimpleRemains ==
    ASSUME NEW W, Tree(W), NEW a, NEW V, NEW F, OfExpr(a, V, F) \in W, Simple(a),
           NEW sd, NEW su, NEW uo, NEW at \in 1..Len(sd),
           a[1] = "agentexpr" => Closure(a[2], a[4], at) \in uo,
           \A n \in Late(W, OfExpr(a, V, F)) : ~Known(sd, at, n)
    PROVE  Remains(W, sd, su, uo, OfExpr(a, V, F))
<1> DEFINE w == OfExpr(a, V, F)
<1>1. w[1] = "expr" /\ w[2] = a
  BY KindKnown
<1>2. CASE a[1] = "agentexpr"
  <2> HIDE DEF w
  <2>1. Makes(w) /\ ParamsIn(w) = a[2] /\ BodyIn(w) = a[4]
    BY <1>1, <1>2 DEF Makes, ParamsIn, BodyIn
  <2> QED BY <1>2, <2>1, MadeRemains DEF w
<1>3. CASE a[1] # "agentexpr"
  BY <1>3, SimpleAlarms, RemainsForNothing
<1> QED BY <1>2, <1>3

(* A call of simple expressions, whose name is the script's own.           *)
CallParts(e) == ToSet(Arguments(e)) \cup {Callee(e)}

LEMMA CallRemains ==
    ASSUME NEW W, Tree(W), NEW e, NEW V, NEW F, OfExpr(e, V, F) \in W, e[1] = "call",
           NEW sd, NEW su, NEW uo, ReachedFor(OfExpr(e, V, F)) = {},
           \A a \in {e[2]} \cup ToSet(e[3]) : OfExpr(a, V, F) \in W => Remains(W, sd, su, uo, OfExpr(a, V, F))
    PROVE  Remains(W, sd, su, uo, OfExpr(e, V, F))
<1> DEFINE u == OfExpr(e, V, F)
<1>1. Visits(u) = {OfExpr(a, V, F) : a \in {e[2]} \cup ToSet(e[3])}
  <2>1. Visits(u) = InExpr(e, V, F)
    BY VisitsOf
  <2>2. Inside(e) = {e[2]} \cup ToSet(e[3])
    BY DEF Inside
  <2> QED BY <2>1, <2>2 DEF InExpr
<1> HIDE DEF u
<1>2. Downward(W)
  BY TreeDownward
<1>3. \A w \in Visits(u) : w \in W
  BY <1>2 DEF Downward, u
<1>4. \A w \in Visits(u) : Remains(W, sd, su, uo, w)
  BY <1>1, <1>3
<1> QED BY <1>2, <1>4, RemainsByParts DEF u

LEMMA PipeParts ==
    ASSUME NEW W, Tree(W), NEW e, NEW V, NEW F, OfExpr(e, V, F) \in W, e[1] = "pipe"
    PROVE  /\ Visits(OfExpr(e, V, F)) = {OfExpr(e[2], V, F), OfExpr(e[3], V, F)}
           /\ OfExpr(e[3], V, F) \in W /\ e[2] \in CallParts(e)
           /\ IF e[3][1] = "call"
              THEN CalleeName(e[3]) = CalleeName(e) /\ {e[3][2]} \cup ToSet(e[3][3]) \subseteq CallParts(e)
              ELSE e[3] \in CallParts(e)
<1>1. Visits(OfExpr(e, V, F)) = {OfExpr(e[2], V, F), OfExpr(e[3], V, F)}
  <2>1. Inside(e) = {e[2], e[3]} /\ e[1] # "agentexpr"
    BY DEF Inside
  <2>2. Visits(OfExpr(e, V, F)) = InExpr(e, V, F)
    BY VisitsOf
  <2> QED BY <2>1, <2>2 DEF InExpr
<1>2. OfExpr(e[3], V, F) \in W
  BY <1>1, TreeDownward DEF Downward
<1>3. CASE e[3][1] = "call"
  <2>1. Arguments(e) = <<e[2]>> \o e[3][3] /\ Callee(e) = e[3][2] /\ Callee(e[3]) = e[3][2]
    BY <1>3 DEF Arguments, Callee
  <2>2. IsList(e[3][3])
    <3>1. Sober(OfExpr(e[3], V, F))
      BY <1>2 DEF Tree, Closed
    <3>2. Listed(Arguments(e[3]))
      BY <3>1, KindKnown DEF Sober
    <3>3. Arguments(e[3]) = e[3][3]
      BY <1>3 DEF Arguments
    <3> QED BY <3>2, <3>3 DEF Listed, IsList
  <2>3. ToSet(<<e[2]>> \o e[3][3]) = {e[2]} \cup ToSet(e[3][3])
    BY <2>2, Members
  <2> QED BY <1>1, <1>2, <1>3, <2>1, <2>3 DEF CallParts, CalleeName
<1>4. CASE e[3][1] # "call"
  <2>1. Arguments(e) = <<e[2]>> \o << >> /\ Callee(e) = e[3]
    BY <1>4 DEF Arguments, Callee
  <2>2. ToSet(<<e[2]>> \o << >>) = {e[2]} \cup ToSet(<< >>)
    <3>1. IsList(<< >>)
      BY DEF IsList
    <3> QED BY <3>1, Members
  <2> QED BY <1>1, <1>2, <1>4, <2>1, <2>2 DEF CallParts
<1> QED BY <1>3, <1>4

LEMMA CalledRemains ==
    ASSUME NEW W, Tree(W), NEW e, NEW V, NEW F, OfExpr(e, V, F) \in W, Callee(e) # None,
           NEW sd, NEW su, NEW uo, CalleeName(e) \ V = {},
           \A a \in CallParts(e) : OfExpr(a, V, F) \in W /\ Remains(W, sd, su, uo, OfExpr(a, V, F))
    PROVE  Remains(W, sd, su, uo, OfExpr(e, V, F))
<1> DEFINE u == OfExpr(e, V, F)
<1>1. ReachedFor(u) = {}
  BY KindKnown DEF ReachedFor
<1> HIDE DEF u
<1>2. CASE e[1] = "call"
  <2>1. CallParts(e) = {e[2]} \cup ToSet(e[3])
    BY <1>2 DEF CallParts, Callee, Arguments
  <2> QED BY <1>1, <1>2, <2>1, CallRemains DEF u
<1>3. CASE e[1] = "pipe"
  <2>1. Visits(u) = {OfExpr(e[2], V, F), OfExpr(e[3], V, F)} /\ OfExpr(e[3], V, F) \in W
    BY <1>3, PipeParts DEF u
  <2>2. Remains(W, sd, su, uo, OfExpr(e[2], V, F))
    BY <1>3, PipeParts
  <2>3. Remains(W, sd, su, uo, OfExpr(e[3], V, F))
    <3>1. CASE e[3][1] = "call"
      <4>1. CalleeName(e[3]) = CalleeName(e) /\ {e[3][2]} \cup ToSet(e[3][3]) \subseteq CallParts(e)
        BY <1>3, <3>1, PipeParts
      <4>2. ReachedFor(OfExpr(e[3], V, F)) = {}
        BY <4>1, KindKnown DEF ReachedFor
      <4> QED BY <2>1, <3>1, <4>1, <4>2, CallRemains
    <3>2. CASE e[3][1] # "call"
      <4>1. e[3] \in CallParts(e)
        BY <1>3, <3>2, PipeParts
      <4> QED BY <4>1
    <3> QED BY <3>1, <3>2
  <2>4. \A w \in Visits(u) : Remains(W, sd, su, uo, w)
    BY <2>1, <2>2, <2>3
  <2> QED BY <1>1, <2>4, RemainsByParts, TreeDownward DEF u
<1> QED BY <1>2, <1>3, CallsInside DEF u

(* A body begins, in a frame of its own.                                   *)
LEMMA BodyRemains ==
    ASSUME NEW W, Tree(W), NEW b, NEW V, OfBody(b, V) \in W, NEW sd, NEW su, NEW uo,
           NEW f \in ToSet(su), f.is \in {"block", "agent"}, f.rest = b,
           \A n \in Alarmed(W, OfBody(b, V)) : ~Soon(sd, su, f.at, n),
           \A n \in Late(W, OfBody(b, V)) : ~Known(sd, f.at, n)
    PROVE  Remains(W, sd, su, uo, OfBody(b, V))
<1> DEFINE u == OfBody(b, V)
<1>1. u \in W /\ u[1] = "body"
  BY KindKnown
<1>2. Downward(W)
  BY TreeDownward
<1>3. ASSUME NEW w \in Visits(u) PROVE Remains(W, sd, su, uo, w)
  <2>1. /\ w \in W /\ w = OfStatement(w[2], w[3], w[4])
        /\ \E i \in DOMAIN b : w[2] = b[i] /\ Alarmed(W, w) \cap DeclaredBefore(b, i) = {}
    BY BodyParts
  <2>2. PICK i \in DOMAIN b : w[2] = b[i] /\ Alarmed(W, w) \cap DeclaredBefore(b, i) = {}
    BY <2>1
  <2> HIDE DEF u
  <2>3. Alarmed(W, w) \subseteq Alarmed(W, u) /\ Late(W, w) \subseteq Late(W, u)
    BY <1>1, <1>2, PartsAlarm
  <2>4. Nobodys(W, sd, su, f.at, DeclaredBefore(b, i), w)
    BY <2>2, <2>3 DEF Nobodys, u
  <2>5. ToRun(f, w, DeclaredBefore(b, i))
    BY <2>1, <2>2 DEF ToRun
  <2>6. FrameHolds(W, sd, su, f, w)
    BY <2>4, <2>5 DEF FrameHolds
  <2> QED BY <2>1, <2>6, CarriedRemains DEF Carried
<1> HIDE DEF u
<1>4. ReachedFor(u) = {}
  BY <1>1 DEF ReachedFor
<1> QED BY <1>1, <1>2, <1>3, <1>4, RemainsByParts DEF u

(* The names that are somebody's in a scope that is added.                 *)
LEMMA SoonInside ==
    ASSUME NEW W, NEW sc, GoodScopes(W, sc), NEW at \in 1..Len(sc), NEW s,
           s.around = sc[at].around \cup {Len(sc) + 1}, NEW st, NEW su, Stacked(sc, st),
           \A g \in ToSet(su) : g.is = "seed" => g \in ToSet(st), NEW n
    PROVE  LET sd == Append(sc, s)
               k == Len(sc) + 1
           IN  /\ Soon(sd, su, k, n) => Soon(sc, st, at, n) \/ n \in DOMAIN s.vars
               /\ Known(sd, k, n) => Known(sc, at, n) \/ n \in DOMAIN s.vars \cup s.due
<1> DEFINE sd == Append(sc, s)
           k == Len(sc) + 1
<1>1. Len(sc) \in Nat /\ sd[k] = s /\ \A i \in 1..Len(sc) : sd[i] = sc[i]
  BY ListGrows, ListKnown DEF GoodScopes
<1> HIDE DEF sd
<1>2. sc[at].around \subseteq 1..Len(sc) /\ k \notin 1..Len(sc)
  <2>1. sc[at].around \subseteq 1..at
    BY DEF GoodScopes, GoodScope
  <2> QED BY <1>1, <2>1
<1> HIDE DEF k
<1>3. sd[k].around = sc[at].around \cup {k} /\ \A j \in sc[at].around : sd[j] = sc[j]
  BY <1>1, <1>2 DEF k
<1>4. Own(sd, k, n) => Own(sc, at, n) \/ n \in DOMAIN s.vars
  BY <1>1, <1>3 DEF Own, OwnAt
<1>5. Pending(sd, sd[k].around, n) => Pending(sc, sc[at].around, n) \/ n \in s.due
  BY <1>1, <1>3 DEF Pending
<1>6. \A g \in ToSet(st) : g.at \in 1..Len(sc)
  <2>1. ToSet(st) = {st[i] : i \in 1..Len(st)}
    BY Members DEF Stacked
  <2> QED BY <2>1 DEF Stacked, InPlace
<1>7. \A g \in ToSet(su) : g.is = "seed" /\ g.at \in sd[k].around => g \in ToSet(st) /\ g.at \in sc[at].around
  BY <1>2, <1>3, <1>6
<1>8. Soon(sd, su, k, n) => Soon(sc, st, at, n) \/ n \in DOMAIN s.vars
  BY <1>4, <1>7 DEF Soon
<1> QED BY <1>4, <1>5, <1>8 DEF Known, sd, k

LEMMA SoonKnown ==
    ASSUME NEW W, NEW sc, NEW st, Stacked(sc, st), NEW at \in 1..Len(sc), NEW n, Soon(sc, st, at, n)
    PROVE  Known(sc, at, n)
<1>1. \A g \in ToSet(st) : InPlace(sc, g)
  <2>1. ToSet(st) = {st[i] : i \in 1..Len(st)}
    BY Members DEF Stacked
  <2> QED BY <2>1 DEF Stacked
<1>2. CASE Own(sc, at, n)
  BY <1>2 DEF Known
<1>3. CASE \E g \in ToSet(st) : g.is = "seed" /\ g.at \in sc[at].around /\ n \in TargetBinds(g.target)
  <2>1. PICK g \in ToSet(st) : g.is = "seed" /\ g.at \in sc[at].around /\ n \in TargetBinds(g.target)
    BY <1>3
  <2>2. OwnAt(sc[g.at], n) \/ n \in sc[g.at].due
    BY <1>1, <2>1 DEF InPlace, Brings
  <2> QED BY <2>1, <2>2 DEF Known, Own, Pending
<1> QED BY <1>2, <1>3 DEF Soon

-----------------------------------------------------------------------------
(* Statements, and those that wait for a value.                            *)
LEMMA ArrivalsAreSeeds ==
    ASSUME NEW W, Closed(W), Runs(W, scopes, stack, signal), NEW kinds, Here(kinds), Top.is = "arrival"
    PROVE  This[1] = "seed" /\ This[2][1][1] = "typed"
<1>1. PICK V, F : StepSeen(W, Top.is, This, V, F)
  BY HereRuns
<1> QED BY <1>1 DEF StepSeen, DefaultSeen

LEMMA OnwardStacked ==
    ASSUME NEW W, Closed(W), Runs(W, scopes, stack, signal), Stacked(scopes, stack), NEW kinds, Here(kinds)
    PROVE  /\ Stacked(scopes, Onward) /\ \A n \in Declares(This) : OwnAt(scopes[Top.at], n) \/ n \in scopes[Top.at].due
           /\ \A g \in ToSet(Onward) : g.is = "seed" => g \in ToSet(stack)
           /\ \A g \in ToSet(Onward) : g.at <= Top.at
<1> DEFINE g == [Top EXCEPT !.rest = Tail(@)]
<1>1. /\ Top.is \in Working /\ IsList(Top.rest) /\ Top.rest # << >>
      /\ Top.at \in 1..Len(scopes) /\ Len(scopes) \in Nat /\ stack # << >>
      /\ g.is = Top.is /\ g.at = Top.at /\ g.rest = Tail(Top.rest) /\ g.target = Top.target
      /\ Onward = <<g>> \o Tail(stack)
  BY TopShape
<1> HIDE DEF g
<1>2. /\ InPlace(scopes, Top) /\ Stacked(scopes, Tail(stack)) /\ ToSet(stack) = {Top} \cup ToSet(Tail(stack))
      /\ \A f \in ToSet(Tail(stack)) : f.at < Top.at
  BY <1>1, StackedPop DEF Top
<1>3. DeclaredIn(Top.rest) = Declares(This) \cup DeclaredIn(g.rest)
  BY <1>1, DeclaredShifts DEF This
<1>4. g.is # "seed" /\ g.is # "assign" /\ Top.is # "seed"
  BY <1>1 DEF Working
<1>5. Brings(Top) = Declares(This) \cup Brings(g)
  BY <1>1, <1>3, <1>4 DEF Brings
<1>6. InPlace(scopes, g)
  BY <1>1, <1>2, <1>4, <1>5 DEF InPlace
<1>7. Stacked(scopes, <<g>> \o Tail(stack)) /\ ToSet(<<g>> \o Tail(stack)) = {g} \cup ToSet(Tail(stack))
  BY <1>1, <1>2, <1>6, StackedPush
<1>8. \A f \in ToSet(Tail(stack)) : f.at \in 1..Len(scopes) /\ f.at <= Top.at
  <2>1. ToSet(Tail(stack)) = {Tail(stack)[i] : i \in 1..Len(Tail(stack))}
    BY <1>2, Members DEF Stacked
  <2>2. \A f \in ToSet(Tail(stack)) : f.at \in 1..Len(scopes)
    BY <1>2, <2>1 DEF Stacked, InPlace
  <2> QED BY <1>1, <1>2, <2>2
<1>9. \A f \in ToSet(Onward) : f.at <= Top.at
  BY <1>1, <1>7, <1>8
<1>10. \A n \in Declares(This) : OwnAt(scopes[Top.at], n) \/ n \in scopes[Top.at].due
  BY <1>2, <1>5 DEF InPlace
<1>11. \A f \in ToSet(Onward) : f.is = "seed" => f \in ToSet(stack)
  BY <1>1, <1>2, <1>4, <1>7
<1> QED BY <1>1, <1>7, <1>9, <1>10, <1>11

LEMMA AwaitingStacked ==
    ASSUME NEW W, Closed(W), Seen(W), Runs(W, scopes, stack, signal), Stacked(scopes, stack), Here(Consuming)
    PROVE  /\ Stacked(scopes, Awaiting) /\ ToSet(Onward) \subseteq ToSet(Awaiting)
           /\ \A g \in ToSet(Awaiting) : g.is = "seed" =>
                g \in ToSet(stack) \/ (g.at = Top.at /\ TargetBinds(g.target) \subseteq Declares(This))
           /\ \A g \in ToSet(Awaiting) : g.at <= Top.at
<1> DEFINE f == Frame(This[1], Top.at, << >>, TargetOf(This))
<1>1. f.is = This[1] /\ f.at = Top.at /\ f.target = TargetOf(This) /\ Awaiting = <<f>> \o Onward
  BY DEF Awaiting, Frame
<1> HIDE DEF f
<1>2. /\ This[1] \in Consuming /\ f.is \notin Working /\ Top.at \in 1..Len(scopes) /\ Top.at <= Top.at
  <2>1. Top.at \in 1..Len(scopes) /\ Len(scopes) \in Nat /\ This[1] \in Consuming
    BY TopShape
  <2> QED BY <1>1, <2>1 DEF Working, Consuming
<1>3. /\ Stacked(scopes, Onward) /\ \A n \in Declares(This) : OwnAt(scopes[Top.at], n) \/ n \in scopes[Top.at].due
      /\ \A g \in ToSet(Onward) : (g.is = "seed" => g \in ToSet(stack)) /\ g.at <= Top.at
  BY OnwardStacked
<1>4. f.is = "seed" => TargetBinds(f.target) = Declares(This)
  BY <1>1 DEF TargetOf, Declares
<1>5. f.is = "assign" => f.target[2] \notin Capability
  <2> SUFFICES ASSUME This[1] = "assign" PROVE TargetOf(This)[2] \notin Capability
    BY <1>1
  <2>1. PICK V, F : StepSeen(W, Top.is, This, V, F)
    BY HereRuns
  <2>2. OfStatement(This, V, F) \in W
    BY <2>1 DEF StepSeen, DefaultSeen
  <2>3. OfStatement(This, V, F)[1] = "statement" /\ OfStatement(This, V, F)[2] = This
    BY KindKnown
  <2> QED BY <2>2, <2>3 DEF Seen
<1>6. Brings(f) \subseteq Declares(This)
  BY <1>2, <1>4 DEF Brings
<1>7. InPlace(scopes, f)
  BY <1>1, <1>2, <1>3, <1>5, <1>6 DEF InPlace
<1>8. Stacked(scopes, <<f>> \o Onward) /\ ToSet(<<f>> \o Onward) = {f} \cup ToSet(Onward)
  BY <1>2, <1>3, <1>7, StackedPush
<1>9. \A g \in ToSet(Awaiting) : g = f \/ g \in ToSet(Onward)
  BY <1>1, <1>8
<1> QED BY <1>1, <1>2, <1>3, <1>4, <1>8, <1>9

(* The expression of such a statement is evaluated: each agent in it has   *)
(* been made, and it calls nobody by a name that is not the script's own.  *)
AgentsMade(as, at, uo) == \A a \in as : a[1] = "agentexpr" => Closure(a[2], a[4], at) \in uo
Evaluated(e) == IF Callee(e) = None THEN {e} ELSE CallParts(e)

LEMMA EvaluatedRemains ==
    ASSUME NEW W, Tree(W), NEW e, NEW V, NEW F, OfExpr(e, V, F) \in W,
           Harmless(ValuesOf(e)) \/ e = <<"constant", "void">>, Simple(Callee(e)),
           NEW sd, NEW su, NEW uo, NEW at \in 1..Len(sd),
           CalleeName(e) \ V = {}, AgentsMade(Evaluated(e), at, uo),
           \A n \in Late(W, OfExpr(e, V, F)) : ~Known(sd, at, n)
    PROVE  Remains(W, sd, su, uo, OfExpr(e, V, F))
<1> DEFINE u == OfExpr(e, V, F)
<1>1. CASE Callee(e) = None
  <2>1. Simple(e)
    BY <1>1 DEF Harmless, ValuesOf, Simple, Inside
  <2>2. e[1] = "agentexpr" => Closure(e[2], e[4], at) \in uo
    BY <1>1 DEF AgentsMade, Evaluated
  <2> QED BY <2>1, <2>2, SimpleRemains
<1>2. CASE Callee(e) # None
  <2> DEFINE X == Within(W, u)
  <2>1. Downward(W) /\ u \in X /\ X \subseteq W /\ \A x \in X : Visits(x) \subseteq X
    BY TreeDownward, WithinKnown
  <2>2. Closed(X)
    BY <2>1 DEF Closed, Tree
  <2> HIDE DEF X
  <2>3. \A a \in CallParts(e) : OfExpr(a, V, F) \in X
    <3> HIDE DEF u
    <3>1. OfExpr(e, V, F) \in X
      BY <2>1 DEF u
    <3>2. OfExpr(Callee(e), V, F) \in X /\ \A a \in ToSet(Arguments(e)) : OfExpr(a, V, F) \in X
      BY <1>2, <2>2, <3>1, PartsVisited
    <3> QED BY <3>2 DEF CallParts
  <2>4. \A a \in CallParts(e) : Simple(a)
    <3>1. e # <<"constant", "void">>
      BY <1>2 DEF Callee, None
    <3>2. \A a \in ToSet(Arguments(e)) : Simple(a)
      BY <1>2, <3>1 DEF Harmless, ValuesOf
    <3> QED BY <3>2 DEF CallParts
  <2>5. ASSUME NEW a \in CallParts(e) PROVE OfExpr(a, V, F) \in W /\ Remains(W, sd, su, uo, OfExpr(a, V, F))
    <3>1. OfExpr(a, V, F) \in W /\ Late(W, OfExpr(a, V, F)) \subseteq Late(W, u)
      BY <2>1, <2>3, AlarmsWithin DEF X
    <3>2. a[1] = "agentexpr" => Closure(a[2], a[4], at) \in uo
      BY <1>2 DEF AgentsMade, Evaluated
    <3> QED BY <2>4, <3>1, <3>2, SimpleRemains
  <2> HIDE DEF u
  <2> QED BY <1>2, <2>5, CalledRemains
<1> QED BY <1>1, <1>2

LEMMA SaidRemains ==
    ASSUME NEW W, Tree(W), Runs(W, scopes, stack, signal), Here(Consuming), NEW u \in W, Now(u),
           Nobodys(W, scopes, stack, Top.at, {}, u), NEW sd, NEW su, NEW uo, Top.at \in 1..Len(sd),
           \A n : Known(sd, Top.at, n) => Known(scopes, Top.at, n),
           \A n \in CalleeName(Expression(This)) : Own(scopes, Top.at, n),
           AgentsMade(Evaluated(Expression(This)), Top.at, uo)
    PROVE  Remains(W, sd, su, uo, u)
<1> DEFINE e == Expression(This)
<1>0. Closed(W) /\ Downward(W)
  BY TreeDownward DEF Tree
<1>1. PICK V0, F0 : WorksOn(W, scopes, Top, {}, V0, F0) /\ Evaluable(W, e, V0, F0)
  BY <1>0, AwaitingFirm
<1>2. (Harmless(ValuesOf(e)) \/ e = <<"constant", "void">>) /\ Simple(Callee(e))
  <2>1. CASE e = <<"constant", "void">>
    <3>1. Callee(e) = <<"none">>
      BY <2>1 DEF Callee
    <3> HIDE DEF e
    <3> QED BY <2>1, <3>1 DEF Simple, Inside
  <2> QED BY <1>1, <2>1 DEF Evaluable
<1> HIDE DEF e
<1>3. ASSUME NEW V, NEW F, OfExpr(e, V, F) \in W, Alarmed(W, OfExpr(e, V, F)) \subseteq Alarmed(W, u),
             Late(W, OfExpr(e, V, F)) \subseteq Late(W, u)
      PROVE  Remains(W, sd, su, uo, OfExpr(e, V, F))
  <2>1. CalleeName(e) \ V = {}
    <3> SUFFICES ASSUME NEW n \in CalleeName(e), n \notin V PROVE FALSE
      OBVIOUS
    <3>1. n \in ReachedFor(OfExpr(e, V, F))
      BY KindKnown DEF ReachedFor
    <3>2. n \in Alarmed(W, u)
      BY <1>0, <1>3, <3>1, AlarmsWithin
    <3> QED BY <3>2 DEF Nobodys, Soon, e
  <2>2. \A n \in Late(W, OfExpr(e, V, F)) : ~Known(sd, Top.at, n)
    BY <1>3 DEF Nobodys
  <2>3. AgentsMade(Evaluated(e), Top.at, uo)
    BY DEF e
  <2> QED BY <1>2, <1>3, <2>1, <2>2, <2>3, EvaluatedRemains
<1>4. CASE Top.is = "arrival"
  <2>1. This[1] = "seed"
    BY <1>0, <1>4, ArrivalsAreSeeds
  <2>2. u = OfExpr(e, u[3], u[4])
    BY <1>4, <2>1 DEF Now, e, Expression
  <2> QED BY <1>3, <2>2
<1>5. CASE Top.is # "arrival"
  <2>1. u = OfStatement(This, u[3], u[4])
    BY <1>5 DEF Now
  <2>2. This[1] \in Consuming
    BY DEF Here, This
  <2>3. Visits(u) = {OfExpr(x, u[3], u[4]) : x \in Uses(This)}
    <3>1. Visits(u) = InStatement(This, u[3], u[4])
      BY <2>1, VisitsOf
    <3> QED BY <2>2, <3>1 DEF InStatement, Consuming
  <2>4. u[1] = "statement" /\ u[2] = This
    BY <2>1, KindKnown
  <2>5. ASSUME NEW w \in Visits(u) PROVE Remains(W, sd, su, uo, w)
    <3>1. PICK x \in Uses(This) : w = OfExpr(x, u[3], u[4])
      BY <2>3
    <3>2. w \in W /\ Alarmed(W, w) \subseteq Alarmed(W, u) /\ Late(W, w) \subseteq Late(W, u)
      BY <1>0, PartsAlarm
    <3>3. CASE x = e
      BY <1>3, <3>1, <3>2, <3>3
    <3>4. CASE x # e
      <4>1. This[1] = "assign" /\ x = TargetOf(This)
        BY <2>2, <3>4 DEF Uses, Consuming, e, Expression, TargetOf
      <4>2. x[1] = "name"
        BY <2>4, <4>1 DEF Tree, Closed, Sober
      <4>3. Alarmed(W, w) = {}
        BY <3>1, <3>2, <4>2, SimpleAlarms DEF Simple
      <4> QED BY <4>3, RemainsForNothing
    <3> QED BY <3>3, <3>4
  <2>6. ReachedFor(u) = {}
    BY <2>4 DEF ReachedFor
  <2> QED BY <1>0, <2>5, <2>6, RemainsByParts
<1> QED BY <1>4, <1>5

LEMMA AwaitingHeld ==
    ASSUME NEW W, Tree(W), Seen(W), Runs(W, scopes, stack, signal), Stacked(scopes, stack),
           Held(W, scopes, stack, untried), Here(Consuming), NEW uo,
           \A c \in untried : c[1] = "closure" => c \in uo,
           \A n \in CalleeName(Expression(This)) : Own(scopes, Top.at, n),
           AgentsMade(Evaluated(Expression(This)), Top.at, uo)
    PROVE  Held(W, scopes, Awaiting, uo)
<1>1. Closed(W)
  BY DEF Tree
<1>2. /\ ToSet(Onward) \subseteq ToSet(Awaiting)
      /\ \A g \in ToSet(Awaiting) : g.is = "seed" =>
           g \in ToSet(stack) \/ (g.at = Top.at /\ TargetBinds(g.target) \subseteq Declares(This))
  BY <1>1, AwaitingStacked
<1>3. Top.at \in 1..Len(scopes) /\ Len(scopes) \in Nat /\ Len(scopes) <= Len(scopes)
  BY <1>1, TopShape
<1>4. Binding(scopes, scopes, Top.at, Declares(This))
  BY BindingSame
<1>5. \A u \in W : Now(u) /\ Nobodys(W, scopes, stack, Top.at, {}, u) => Remains(W, scopes, Awaiting, uo, u)
  BY <1>3, SaidRemains
<1> QED BY <1>1, <1>2, <1>3, <1>4, <1>5, HereHeld

-----------------------------------------------------------------------------
(* Steps.  Nothing was passed over and no call went to a capability, or    *)
(* to nobody: then all that reaches for a name is still to come.           *)
Clean == foreign = {} /\ Data \notin untried
HoldsOn(W) ==
    /\ Stacked(scopes', stack')
    /\ Held(W, scopes, stack, untried) /\ Clean' => Held(W, scopes', stack', untried')

LEMMA StaysHeld ==
    ASSUME NEW W, NEW sc, NEW st, NEW un, Stacked(sc, st), Held(W, sc, st, un), NEW sd, NEW su, NEW uo,
           Len(sc) \in Nat, Len(sd) \in Nat, Len(sc) <= Len(sd),
           \A at \in 1..Len(sc) : \A n : /\ Known(sd, at, n) => Known(sc, at, n)
                                         /\ Soon(sd, su, at, n) => Soon(sc, st, at, n),
           \A f \in ToSet(st) \ ToSet(su) : \A u \in W :
              FrameHolds(W, sc, st, f, u) => Remains(W, sd, su, uo, u),
           \A c \in un \ uo : \A u \in W : AgentHolds(W, sc, c, u) => Remains(W, sd, su, uo, u)
    PROVE  Held(W, sd, su, uo)
<1>1. \A f \in ToSet(st) : f.at \in 1..Len(sc)
  <2>1. ToSet(st) = {st[i] : i \in 1..Len(st)}
    BY Members DEF Stacked
  <2> QED BY <2>1 DEF Stacked, InPlace
<1>2. ASSUME NEW u \in W, NEW f \in ToSet(st) \cap ToSet(su), FrameHolds(W, sc, st, f, u)
      PROVE  Remains(W, sd, su, uo, u)
  <2>1. FrameHolds(W, sd, su, f, u)
    BY <1>1, <1>2, FrameOn
  <2> QED BY <2>1, CarriedRemains DEF Carried
<1>3. ASSUME NEW u \in W, NEW c \in un \cap uo, AgentHolds(W, sc, c, u)
      PROVE  Remains(W, sd, su, uo, u)
  <2>1. AgentHolds(W, sd, c, u)
    BY <1>3, AgentOn
  <2> QED BY <2>1, CarriedRemains DEF Carried
<1>4. \A u \in W : Carried(W, sc, st, un, u) => Remains(W, sd, su, uo, u)
  BY <1>2, <1>3 DEF Carried
<1> QED BY <1>4, HeldOn

(* A frame is done with, that holds nothing more.                          *)
LEMMA EmptyRemains ==
    ASSUME NEW W, Tree(W), NEW sc, NEW st, NEW f, f.is # "arrival",
           f.rest = << >> \/ f.is \notin Working \cup {"attempt"},
           NEW u \in W, FrameHolds(W, sc, st, f, u), NEW sd, NEW su, NEW uo
    PROVE  Remains(W, sd, su, uo, u)
<1>1. PICK N : ToRun(f, u, N)
  BY DEF FrameHolds
<1>2. f.rest = << >> /\ u = OfBody(f.rest, u[3])
  BY <1>1 DEF ToRun, Working
<1>3. Visits(u) = {} /\ u[1] = "body"
  <2>1. Visits(u) = InBody(<< >>, u[3]) /\ u[1] = "body"
    BY <1>2, VisitsOf, KindKnown
  <2> QED BY <2>1 DEF InBody
<1>4. ReachedFor(u) = {}
  BY <1>3 DEF ReachedFor
<1> QED BY <1>3, <1>4, RemainsByParts, TreeDownward

LEMMA PopHeld ==
    ASSUME NEW W, Tree(W), GoodScopes(W, scopes), Stacked(scopes, stack), stack # << >>,
           Held(W, scopes, stack, untried), Top.is # "arrival",
           Top.rest = << >> \/ Top.is \notin Working \cup {"attempt"}, NEW sd, NEW names,
           Len(sd) = Len(scopes), Binding(scopes, sd, Top.at, names),
           names = {} \/ (Top.is = "seed" /\ names = TargetBinds(Top.target)),
           NEW uo, untried \subseteq uo
    PROVE  Held(W, sd, Tail(stack), uo)
<1> DEFINE su == Tail(stack)
<1>1. ToSet(stack) = {Top} \cup ToSet(su) /\ Len(scopes) \in Nat /\ Len(scopes) <= Len(sd)
  <2>1. ToSet(stack) = {Top} \cup ToSet(su)
    BY StackedPop DEF Top
  <2>2. Len(scopes) \in Nat
    BY ListKnown DEF GoodScopes
  <2> QED BY <2>1, <2>2
<1> HIDE DEF su
<1>2. ASSUME NEW at \in 1..Len(scopes), NEW n
      PROVE  /\ Known(sd, at, n) => Known(scopes, at, n)
             /\ Soon(sd, su, at, n) => Soon(scopes, stack, at, n)
  <2>1. Known(sd, at, n) => Known(scopes, at, n)
    BY DEF Binding
  <2>2. Soon(sd, su, at, n) => Soon(scopes, stack, at, n) \/ (Top.at \in scopes[at].around /\ n \in names)
    BY <1>1, SoonOn
  <2>3. Top.at \in scopes[at].around /\ n \in names => Soon(scopes, stack, at, n)
    BY <1>1 DEF Soon
  <2> QED BY <2>1, <2>2, <2>3
<1>3. ASSUME NEW f \in ToSet(stack) \ ToSet(su), NEW u \in W, FrameHolds(W, scopes, stack, f, u)
      PROVE  Remains(W, sd, su, uo, u)
  <2>1. f = Top
    BY <1>1
  <2> QED BY <1>3, <2>1, EmptyRemains
<1>4. Len(sd) \in Nat /\ untried \ uo = {}
  BY <1>1
<1> QED BY <1>1, <1>2, <1>3, <1>4, StaysHeld DEF su

LEMMA DeclareHolds ==
    ASSUME NEW W, Tree(W), Runs(W, scopes, stack, signal), Stacked(scopes, stack), Declare
    PROVE  HoldsOn(W)
<1> DEFINE c == This[2]
           v == Closure(c[2], c[4], Top.at)
           sd == Bind(scopes, Top.at, Names({c[1]}, v))
<1>1. /\ Here({"agent"}) /\ scopes' = sd /\ stack' = Onward /\ untried' = untried \cup {v}
  BY DEF Declare
<1>2. Closed(W)
  BY DEF Tree
<1>3. This[1] = "agent" /\ Top.at \in 1..Len(scopes) /\ Len(scopes) \in Nat /\ GoodScopes(W, scopes)
  BY <1>1, <1>2, TopShape
<1>4. Later(scopes, sd)
  BY <1>1, <1>2, DeclaredGood
<1>5. /\ Stacked(scopes, Onward) /\ \A n \in Declares(This) : OwnAt(scopes[Top.at], n) \/ n \in scopes[Top.at].due
      /\ \A g \in ToSet(Onward) : g.is = "seed" => g \in ToSet(stack)
  BY <1>1, <1>2, OnwardStacked
<1>6. Declares(This) = {c[1]}
  BY <1>3 DEF Declares
<1>7. Binding(scopes, sd, Top.at, Declares(This))
  <2>1. DOMAIN Names({c[1]}, v) = {c[1]}
    BY DEF Names
  <2> HIDE DEF v
  <2> QED BY <1>3, <1>5, <1>6, <2>1, BindingBinds
<1>8. Top.is # "arrival"
  BY <1>1, <1>2, <1>3, ArrivalsAreSeeds
<1>9. Len(sd) \in Nat /\ Len(scopes) <= Len(sd)
  BY <1>4 DEF Later
<1> HIDE DEF sd
<1>10. Stacked(scopes', stack')
  BY <1>1, <1>3, <1>4, <1>5, StackedLater
<1>11. ASSUME NEW u \in W, Now(u), Nobodys(W, scopes, stack, Top.at, {}, u)
       PROVE  Remains(W, scopes', stack', untried', u)
  <2>1. u[1] = "statement" /\ u[2] = This
    BY <1>8, <1>11, KindKnown DEF Now
  <2>2. Makes(u) /\ Closure(ParamsIn(u), BodyIn(u), Top.at) = v
    BY <1>3, <2>1 DEF Makes, ParamsIn, BodyIn
  <2>3. \A n \in Late(W, u) : ~Known(sd, Top.at, n)
    BY <1>3, <1>7, <1>11 DEF Nobodys, Binding
  <2>4. Top.at \in 1..Len(sd)
    BY <1>3, <1>9
  <2>5. v \in untried'
    BY <1>1
  <2> HIDE DEF v
  <2>6. Remains(W, sd, stack', untried', u)
    BY <2>2, <2>3, <2>4, <2>5, MadeRemains
  <2> QED BY <1>1, <2>6
<1>12. ASSUME Held(W, scopes, stack, untried) PROVE Held(W, scopes', stack', untried')
  <2>1. ToSet(Onward) \subseteq ToSet(stack') /\ untried \subseteq untried'
    BY <1>1
  <2>2. \A g \in ToSet(stack') : g.is = "seed" => g \in ToSet(stack)
    BY <1>1, <1>5
  <2>3. Len(scopes') \in Nat /\ Len(scopes) <= Len(scopes') /\ Binding(scopes, scopes', Top.at, Declares(This))
    BY <1>1, <1>7, <1>9
  <2> QED BY <1>1, <1>2, <1>11, <1>12, <2>1, <2>2, <2>3, HereHeld
<1> QED BY <1>10, <1>12 DEF HoldsOn

LEMMA EvaluateHolds ==
    ASSUME NEW W, Tree(W), Seen(W), Runs(W, scopes, stack, signal), Stacked(scopes, stack), Evaluate
    PROVE  HoldsOn(W)
<1> DEFINE e == Expression(This)
<1>1. /\ Here(Consuming) /\ Callee(e) = None /\ scopes' = scopes /\ stack' = Awaiting
      /\ untried' = untried \cup Made(e, Top.at)
  BY DEF Evaluate
<1>2. Stacked(scopes, Awaiting)
  BY <1>1, AwaitingStacked DEF Tree
<1>3. CalleeName(e) = {}
  BY <1>1 DEF CalleeName, None
<1>4. AgentsMade(Evaluated(e), Top.at, untried')
  <2> HIDE DEF e
  <2> QED BY <1>1 DEF AgentsMade, Evaluated, Made, Value
<1>5. Held(W, scopes, stack, untried) => Held(W, scopes, Awaiting, untried')
  BY <1>1, <1>3, <1>4, AwaitingHeld
<1> QED BY <1>1, <1>2, <1>5 DEF HoldsOn

(* Who is called by name is the script's own, nobody, or a capability.     *)
LEMMA CalledOwn ==
    ASSUME NEW W, GoodScopes(W, scopes), Top.at \in 1..Len(scopes), NEW n \in CalleeName(Expression(This))
    PROVE  \/ Own(scopes, Top.at, n) \/ CalledValue = Missing
           \/ CalledValue = <<"capability", n>> /\ n \in Capability
<1> DEFINE c == Callee(Expression(This))
           h == Holder(n, Top.at)
<1>1. c[1] = "name" /\ c[2] = n
  BY DEF CalleeName
<1> HIDE DEF c
<1>2. CalledValue = IF h = 0 THEN Missing ELSE scopes[h].vars[n]
  BY <1>1 DEF CalledValue, Value, c
<1>3. \/ h = 0
      \/ h \in 1..Len(scopes) /\ h \in scopes[Top.at].around /\ n \in DOMAIN scopes[h].vars
  BY HolderKnown
<1>4. 0 \notin 1..Len(scopes)
  OBVIOUS
<1> HIDE DEF h
<1>5. CASE h = 0
  BY <1>2, <1>5
<1>6. CASE h # 0
  <2>1. GoodBinding(W, scopes, h, n, scopes[h].vars[n])
    BY <1>3, <1>6 DEF GoodScopes, GoodScope
  <2>2. CASE scopes[h].vars[n][1] # "capability"
    BY <1>3, <1>6, <2>2 DEF Own, OwnAt
  <2>3. CASE scopes[h].vars[n][1] = "capability"
    BY <1>2, <1>6, <2>1, <2>3 DEF GoodBinding, GoodValue
  <2> QED BY <2>2, <2>3
<1> QED BY <1>5, <1>6

LEMMA MadeByCalls ==
    ASSUME Callee(Expression(This)) # None, NEW uo, MadeByCall \subseteq uo
    PROVE  AgentsMade(Evaluated(Expression(This)), Top.at, uo)
  BY DEF AgentsMade, Evaluated, CallParts, MadeByCall, Made, Value

LEMMA CallNativeHolds ==
    ASSUME NEW W, Tree(W), Seen(W), Runs(W, scopes, stack, signal), Stacked(scopes, stack), CallNative
    PROVE  HoldsOn(W)
<1> DEFINE e == Expression(This)
<1>1. /\ Here(Consuming) /\ Callee(e) # None /\ scopes' = scopes /\ stack' = Awaiting
      /\ untried' = untried \cup MadeByCall /\ CalledValue[1] \in {"capability", "core"}
      /\ foreign' = foreign \cup Stray(CalleeName(e) \cap ({CalledValue[2]} \cap Capability))
  BY DEF CallNative, Calling
<1>2. Closed(W)
  BY DEF Tree
<1>3. Stacked(scopes, Awaiting)
  BY <1>1, <1>2, AwaitingStacked
<1>4. GoodScopes(W, scopes) /\ Top.at \in 1..Len(scopes)
  BY <1>1, <1>2, TopShape
<1>5. ASSUME Clean', NEW n \in CalleeName(e) PROVE Own(scopes, Top.at, n)
  <2>1. \/ Own(scopes, Top.at, n) \/ CalledValue = Missing
        \/ CalledValue = <<"capability", n>> /\ n \in Capability
    BY <1>4, CalledOwn
  <2>2. CalledValue # Missing
    BY <1>1 DEF Missing
  <2>3. CASE CalledValue = <<"capability", n>> /\ n \in Capability
    <3>1. n \in CalleeName(e) \cap ({CalledValue[2]} \cap Capability)
      BY <2>3
    <3>2. [name |-> n, settled |-> Settled] \in foreign'
      BY <1>1, <3>1 DEF Stray
    <3> QED BY <1>5, <3>2 DEF Clean
  <2> QED BY <2>1, <2>2, <2>3
<1>6. AgentsMade(Evaluated(e), Top.at, untried')
  BY <1>1, MadeByCalls
<1>7. ASSUME Held(W, scopes, stack, untried), Clean' PROVE Held(W, scopes, Awaiting, untried')
  <2>1. \A n \in CalleeName(e) : Own(scopes, Top.at, n)
    BY <1>5, <1>7
  <2>2. \A c \in untried : c[1] = "closure" => c \in untried'
    BY <1>1
  <2> QED BY <1>1, <1>6, <1>7, <2>1, <2>2, AwaitingHeld
<1> QED BY <1>1, <1>3, <1>7 DEF HoldsOn

LEMMA CallFailsHolds ==
    ASSUME NEW W, Tree(W), Seen(W), Runs(W, scopes, stack, signal), Stacked(scopes, stack), CallFails
    PROVE  HoldsOn(W)
<1> DEFINE e == Expression(This)
           passed == ToSet(Passed)
<1>1. /\ Here(Consuming) /\ Callee(e) # None /\ scopes' = scopes /\ stack' = Awaiting
      /\ untried' = untried \cup MadeByCall \cup (IF Missing \in passed THEN PassedOver ELSE {})
      /\ \/ Missing \in {CalledValue} \cup passed
         \/ CalledValue = Data
         \/ CalledValue[1] = "closure"
      /\ foreign' = IF CalledValue = Missing /\ (e[1] = "pipe" => Passed[1] # Missing)
                    THEN foreign \cup Stray(CalleeName(e)) ELSE foreign
  BY DEF CallFails, Calling
<1>2. Closed(W)
  BY DEF Tree
<1>3. Stacked(scopes, Awaiting)
  BY <1>1, <1>2, AwaitingStacked
<1>4. GoodScopes(W, scopes) /\ Top.at \in 1..Len(scopes)
  BY <1>1, <1>2, TopShape
<1>5. e[1] = "pipe" => Passed[1] \in passed
  <2> SUFFICES ASSUME e[1] = "pipe" PROVE 1 \in DOMAIN Passed
    BY DEF ToSet
  <2>1. DOMAIN Passed = DOMAIN Arguments(e)
    BY DEF Passed
  <2>2. PICK V, F : WorksOn(W, scopes, Top, {}, V, F) /\ Evaluable(W, e, V, F)
    BY <1>1, <1>2, AwaitingFirm
  <2>3. PICK U : OfExpr(e, U, F) \in W
    <3>1. e # <<"constant", "void">>
      BY <1>1 DEF Callee, None
    <3> QED BY <2>2, <3>1 DEF Evaluable
  <2> HIDE DEF e
  <2>4. e[3][1] = "call" => IsList(e[3][3])
    <3>1. OfExpr(e[3], U, F) \in W
      <4>1. OfExpr(e[3], U, F) \in InExpr(e, U, F)
        BY DEF InExpr, Inside
      <4>2. Visits(OfExpr(e, U, F)) = InExpr(e, U, F)
        BY VisitsOf
      <4> QED BY <1>2, <2>3, <4>1, <4>2 DEF Closed
    <3>2. e[3][1] = "call" => Arguments(e[3]) = e[3][3]
      BY DEF Arguments
    <3> QED BY <1>2, <3>1, <3>2, VisitKnown DEF Listed, IsList
  <2>5. \E more : IsList(more) /\ Arguments(e) = <<e[2]>> \o more
    <3>1. IsList(<< >>)
      BY DEF IsList
    <3> QED BY <2>4, <3>1 DEF Arguments
  <2>6. PICK more : IsList(more) /\ Arguments(e) = <<e[2]>> \o more
    BY <2>5
  <2>7. IsList(Arguments(e)) /\ Len(Arguments(e)) = Len(more) + 1 /\ Len(more) \in Nat
    BY <2>6, ListPushed, ListKnown
  <2>8. DOMAIN Arguments(e) = 1..(Len(more) + 1)
    BY <2>7, ListKnown
  <2> QED BY <2>1, <2>7, <2>8 DEF e
<1>6. ASSUME Clean', NEW n \in CalleeName(e) PROVE Own(scopes, Top.at, n)
  <2>1. \/ Own(scopes, Top.at, n) \/ CalledValue = Missing
        \/ CalledValue = <<"capability", n>> /\ n \in Capability
    BY <1>4, CalledOwn
  <2>2. Missing \notin passed
    BY <1>1, <1>6 DEF Clean, PassedOver
  <2>3. CASE CalledValue = Missing
    <3>1. [name |-> n, settled |-> Settled] \in foreign'
      BY <1>1, <1>5, <2>2, <2>3 DEF Stray
    <3> QED BY <1>6, <3>1 DEF Clean
  <2>4. CASE CalledValue # Missing
    BY <1>1, <2>1, <2>2, <2>4 DEF Data
  <2> QED BY <2>3, <2>4
<1>7. AgentsMade(Evaluated(e), Top.at, untried')
  BY <1>1, MadeByCalls
<1>8. ASSUME Held(W, scopes, stack, untried), Clean' PROVE Held(W, scopes, Awaiting, untried')
  <2>1. \A n \in CalleeName(e) : Own(scopes, Top.at, n)
    BY <1>6, <1>8
  <2>2. \A c \in untried : c[1] = "closure" => c \in untried'
    BY <1>1
  <2> QED BY <1>1, <1>7, <1>8, <2>1, <2>2, AwaitingHeld
<1> QED BY <1>1, <1>3, <1>8 DEF HoldsOn

(* What is passed over says nothing of what it would have reached for.     *)
LEMMA PassingHolds ==
    ASSUME NEW W, Tree(W), Runs(W, scopes, stack, signal), Stacked(scopes, stack), Inert \/ Skip \/ Stumble
    PROVE  HoldsOn(W)
<1>1. Closed(W)
  BY DEF Tree
<1>2. CASE Inert \/ Skip
  <2>1. PICK kinds : Here(kinds)
    BY <1>2 DEF Inert, Skip, Branching
  <2>2. scopes' = scopes /\ stack' = Onward /\ Data \in untried'
    BY <1>2 DEF Inert, Skip, PassedOver
  <2>3. Stacked(scopes, Onward)
    BY <1>1, <2>1, OnwardStacked
  <2> QED BY <2>2, <2>3 DEF HoldsOn, Clean
<1>3. CASE Stumble
  BY <1>3 DEF Stumble, HoldsOn
<1> QED BY <1>2, <1>3

(* A scope changes and the list of scopes is as long.                      *)
LEMMA ListUpdated ==
    ASSUME NEW s, IsList(s), NEW x, DOMAIN x = DOMAIN s, IsList(x)
    PROVE  Len(x) = Len(s)
<1>1. Len(s) \in Nat /\ Len(x) \in Nat /\ DOMAIN s = 1..Len(s) /\ DOMAIN x = 1..Len(x)
  BY ListKnown
<1> QED BY <1>1

LEMMA DeliverHolds ==
    ASSUME NEW W, Tree(W), Runs(W, scopes, stack, signal), Stacked(scopes, stack), Deliver
    PROVE  HoldsOn(W)
<1> DEFINE t == Top.target
           h == Holder(t[2], Top.at)
           more == [n \in TargetBinds(t) |-> IF t[1] = "typed" THEN signal[2] ELSE Data]
           sd == Bind(scopes, Top.at, more)
<1>1. stack # << >> /\ signal[1] = "value" /\ stack' = Tail(stack) /\ untried' = untried
  BY DEF Deliver
<1>2. GoodScopes(W, scopes) /\ GoodValue(W, scopes, signal[2]) /\ Len(scopes) \in Nat
  <2>1. GoodScopes(W, scopes) /\ GoodValue(W, scopes, signal[2])
    BY <1>1 DEF Runs, Leaving
  <2> QED BY <2>1, ListKnown DEF GoodScopes
<1>3. InPlace(scopes, Top) /\ Stacked(scopes, Tail(stack)) /\ Top.at \in 1..Len(scopes)
  <2>1. InPlace(scopes, Top) /\ Stacked(scopes, Tail(stack))
    BY <1>1, StackedPop DEF Top
  <2> QED BY <2>1 DEF InPlace
<1>4. Top.is \in Consuming
  BY DEF Deliver, Consuming
<1>5. Top.is # "arrival" /\ Top.is \notin Working \cup {"attempt"}
  BY <1>4 DEF Consuming, Working
<1>6. CASE scopes' = scopes
  <2>1. Binding(scopes, scopes, Top.at, {})
    BY BindingSame
  <2>2. Held(W, scopes, stack, untried) => Held(W, scopes, Tail(stack), untried)
    BY <1>1, <1>2, <1>5, <2>1, PopHeld
  <2> QED BY <1>1, <1>3, <1>6, <2>2 DEF HoldsOn
<1>7. CASE Top.is = "seed" /\ scopes' = sd
  <2>1. DOMAIN more = TargetBinds(t) /\ \A n \in DOMAIN more : GoodValue(W, scopes, more[n])
    BY <1>2, DataGood
  <2>2. \A n \in TargetBinds(t) : OwnAt(scopes[Top.at], n) \/ n \in scopes[Top.at].due
    BY <1>3, <1>7 DEF InPlace, Brings
  <2> HIDE DEF more
  <2>3. Later(scopes, sd)
    BY <1>2, <1>3, <2>1, ScopeBinds
  <2>4. Binding(scopes, sd, Top.at, TargetBinds(t))
    BY <1>2, <1>3, <2>1, <2>2, BindingBinds
  <2>5. Len(sd) = Len(scopes)
    <3>1. IsList(scopes) /\ IsList(sd)
      BY <1>2, <1>3, <2>1, ScopeBinds DEF GoodScopes
    <3>2. DOMAIN sd = DOMAIN scopes
      BY DEF Bind
    <3> QED BY <3>1, <3>2, ListUpdated
  <2> HIDE DEF sd
  <2>6. Stacked(sd, Tail(stack))
    BY <1>2, <1>3, <2>3, StackedLater
  <2>7. Held(W, scopes, stack, untried) => Held(W, sd, Tail(stack), untried)
    BY <1>1, <1>2, <1>5, <1>7, <2>4, <2>5, PopHeld
  <2> QED BY <1>1, <1>7, <2>6, <2>7 DEF HoldsOn
<1>8. CASE Top.is = "assign" /\ h # 0 /\ scopes' = [scopes EXCEPT ![h].vars[t[2]] = signal[2]]
  <2> DEFINE se == [scopes EXCEPT ![h].vars[t[2]] = signal[2]]
  <2>1. h \in 1..Len(scopes) /\ t[2] \in DOMAIN scopes[h].vars
    BY <1>2, <1>3, <1>8, HolderKnown
  <2> HIDE DEF h
  <2>2. t[2] \notin Capability
    BY <1>3, <1>8 DEF InPlace
  <2>3. OwnAt(scopes[h], t[2])
    <3>1. GoodBinding(W, scopes, h, t[2], scopes[h].vars[t[2]])
      BY <1>2, <2>1 DEF GoodScopes, GoodScope
    <3> QED BY <2>1, <2>2, <3>1 DEF GoodBinding, GoodValue, OwnAt
  <2>4. Later(scopes, se)
    BY <1>2, <2>1, ScopeAssigns
  <2>5. Binding(scopes, se, Top.at, {})
    BY <1>2, <2>1, <2>3, BindingAssigned
  <2>6. Len(se) = Len(scopes)
    <3>1. IsList(scopes) /\ IsList(se)
      BY <1>2, <2>1, ScopeAssigns DEF GoodScopes
    <3>2. DOMAIN se = DOMAIN scopes
      OBVIOUS
    <3> QED BY <3>1, <3>2, ListUpdated
  <2> HIDE DEF se
  <2>7. Stacked(se, Tail(stack))
    BY <1>2, <1>3, <2>4, StackedLater
  <2>8. Held(W, scopes, stack, untried) => Held(W, se, Tail(stack), untried)
    BY <1>1, <1>2, <1>5, <2>5, <2>6, PopHeld
  <2> QED BY <1>1, <1>8, <2>7, <2>8 DEF HoldsOn, se
<1> QED BY <1>6, <1>7, <1>8 DEF Deliver

(* A frame is left.                                                        *)
LEMMA LeavingHolds ==
    ASSUME NEW W, Tree(W), Runs(W, scopes, stack, signal), Stacked(scopes, stack), Finish \/ Unwind \/ Return
    PROVE  HoldsOn(W)
<1>1. stack # << >> /\ stack' = Tail(stack) /\ scopes' = scopes /\ untried' = untried \cup CutOff
  BY DEF Finish, Unwind, Return, Running
<1>2. Stacked(scopes, Tail(stack))
  BY <1>1, StackedPop
<1>3. ASSUME Clean', Held(W, scopes, stack, untried) PROVE Held(W, scopes, Tail(stack), untried')
  <2>1. Top.rest = << >> /\ Top.is # "arrival"
    BY <1>1, <1>3 DEF Clean, CutOff, PassedOver
  <2>2. GoodScopes(W, scopes)
    BY DEF Runs
  <2>3. Binding(scopes, scopes, Top.at, {})
    BY BindingSame
  <2>4. untried \subseteq untried'
    BY <1>1
  <2> QED BY <1>1, <1>3, <2>1, <2>2, <2>3, <2>4, PopHeld
<1> QED BY <1>1, <1>2, <1>3 DEF HoldsOn

(* A block opens: the stack stays in place, what is known stays known, and *)
(* what the block is to run is carried by its frame.                       *)
LEMMA OpenedHolds ==
    ASSUME NEW W, GoodScopes(W, scopes), NEW at \in 1..Len(scopes),
           NEW vars, \A n \in DOMAIN vars : GoodValue(W, scopes, vars[n]),
           NEW stmts, NEW below, Open(vars, at, stmts, below),
           Stacked(scopes, stack), Stacked(scopes, below),
           \A g \in ToSet(below) : g.is = "seed" => g \in ToSet(stack)
    PROVE  /\ Stacked(scopes', stack') /\ Len(scopes') \in Nat /\ Len(scopes) <= Len(scopes')
           /\ ToSet(stack') = {Frame("block", Len(scopes) + 1, stmts, None)} \cup ToSet(below)
           /\ \A g \in ToSet(stack') : g.is = "seed" => g \in ToSet(stack)
           /\ \A k, names : Binding(scopes, scopes', k, names)
           /\ \A j \in 1..Len(scopes) : \A n : /\ Known(scopes', j, n) => Known(scopes, j, n)
                                               /\ Soon(scopes', stack', j, n) => Soon(scopes, stack, j, n)
<1> DEFINE k == Len(scopes) + 1
           s == scopes'[k]
           sd == scopes'
           f == Frame("block", k, stmts, None)
<1>1. /\ Len(scopes) \in Nat /\ sd = Append(scopes, s) /\ Len(sd) = k
      /\ s.vars = vars /\ s.due = DeclaredIn(stmts) \ DOMAIN vars
      /\ stack' = <<f>> \o below /\ Later(scopes, sd)
  BY Opened
<1>2. f.is = "block" /\ f.at = k /\ f.rest = stmts
  BY DEF Frame
<1> HIDE DEF f
<1>3. \A n \in DOMAIN vars : OwnAt(s, n)
  BY <1>1 DEF OwnAt, GoodValue
<1>4. InPlace(sd, f)
  <2>1. Brings(f) = DeclaredIn(stmts) /\ f.is # "assign"
    BY <1>2 DEF Brings, Working
  <2>2. k \in 1..Len(sd)
    BY <1>1
  <2> QED BY <1>1, <1>2, <1>3, <2>1, <2>2 DEF InPlace
<1>5. Stacked(sd, below)
  BY <1>1, StackedLater
<1>6. \A g \in ToSet(below) : g.at < f.at
  <2>1. ToSet(below) = {below[i] : i \in 1..Len(below)}
    BY Members DEF Stacked
  <2>2. \A g \in ToSet(below) : g.at \in 1..Len(scopes)
    BY <2>1 DEF Stacked, InPlace
  <2> QED BY <1>1, <1>2, <2>2
<1>7. Stacked(sd, <<f>> \o below) /\ ToSet(<<f>> \o below) = {f} \cup ToSet(below)
  BY <1>4, <1>5, <1>6, StackedPush
<1>8. \A g \in ToSet(stack') : g.is = "seed" => g \in ToSet(stack)
  BY <1>1, <1>2, <1>7
<1>9. ASSUME NEW i, NEW names PROVE Binding(scopes, sd, i, names)
  <2>1. Binding(scopes, Append(scopes, s), i, names)
    BY BindingAdded
  <2> QED BY <1>1, <2>1
<1>10. ASSUME NEW j \in 1..Len(scopes), NEW n
       PROVE  /\ Known(sd, j, n) => Known(scopes, j, n)
              /\ Soon(sd, stack', j, n) => Soon(scopes, stack, j, n)
  <2>1. Binding(scopes, sd, 1, {})
    BY <1>9
  <2>2. Soon(sd, stack', j, n) => Soon(scopes, stack, j, n) \/ n \in {}
    BY <1>8, <2>1, SoonOn
  <2>3. Known(sd, j, n) => Known(scopes, j, n)
    BY <2>1 DEF Binding
  <2> QED BY <2>2, <2>3
<1>11. Len(sd) \in Nat /\ Len(scopes) <= Len(sd)
  BY <1>1
<1> QED BY <1>1, <1>7, <1>8, <1>9, <1>10, <1>11 DEF f

LEMMA BodyKnown ==
    ASSUME NEW W, Tree(W), NEW b, NEW V, OfBody(b, V) \in W
    PROVE  Alarmed(W, OfBody(b, V)) \cap V = {}
<1>1. Knows(OfBody(b, V)) = V
  BY KindKnown DEF Knows
<1> QED BY <1>1, KnownIsNoAlarm

LEMMA OpenRemains ==
    ASSUME NEW W, Tree(W), Seen(W), GoodScopes(W, scopes), NEW at \in 1..Len(scopes),
           NEW vars, \A n \in DOMAIN vars : GoodValue(W, scopes, vars[n]),
           NEW stmts, NEW below, Open(vars, at, stmts, below),
           Stacked(scopes, stack), Stacked(scopes, below),
           \A g \in ToSet(below) : g.is = "seed" => g \in ToSet(stack),
           NEW V, OfBody(stmts, V) \in W, Alarmed(W, OfBody(stmts, V)) \cap DOMAIN vars = {},
           \A n \in Alarmed(W, OfBody(stmts, V)) : ~Soon(scopes, stack, at, n),
           \A n \in Late(W, OfBody(stmts, V)) : ~Known(scopes, at, n), NEW uo
    PROVE  Remains(W, scopes', stack', uo, OfBody(stmts, V))
<1> DEFINE k == Len(scopes) + 1
           s == scopes'[k]
           f == Frame("block", k, stmts, None)
           u == OfBody(stmts, V)
<1>1. /\ scopes' = Append(scopes, s) /\ s.vars = vars /\ s.around = scopes[at].around \cup {k}
      /\ s.due = DeclaredIn(stmts) \ DOMAIN vars
  BY Opened
<1>2. f \in ToSet(stack') /\ \A g \in ToSet(stack') : g.is = "seed" => g \in ToSet(stack)
  BY OpenedHolds
<1>3. f.is = "block" /\ f.at = k /\ f.rest = stmts
  BY DEF Frame
<1> HIDE DEF f
<1>4. Late(W, u) \cap DeclaredIn(stmts) = {} /\ Late(W, u) \subseteq Alarmed(W, u)
  BY BodySeesFull, AlarmsWithin, TreeDownward
<1> HIDE DEF s, u, k
<1>6. ASSUME NEW n
      PROVE  /\ Soon(scopes', stack', k, n) => Soon(scopes, stack, at, n) \/ n \in DOMAIN s.vars
             /\ Known(scopes', k, n) => Known(scopes, at, n) \/ n \in DOMAIN s.vars \cup s.due
  BY <1>1, <1>2, SoonInside DEF k
<1>5. Alarmed(W, u) \cap DOMAIN s.vars = {}
  BY <1>1 DEF u
<1>7. \A n \in Alarmed(W, u) : ~Soon(scopes', stack', f.at, n)
  BY <1>3, <1>5, <1>6 DEF u
<1>8. \A n \in Late(W, u) : ~Known(scopes', f.at, n)
  BY <1>1, <1>3, <1>4, <1>5, <1>6 DEF u
<1> QED BY <1>2, <1>3, <1>7, <1>8, BodyRemains DEF u

(* The statement a frame is to run next.                                   *)
LEMMA NowStatement ==
    ASSUME NEW W, Tree(W), Runs(W, scopes, stack, signal), NEW kinds, Here(kinds), "seed" \notin kinds,
           NEW u \in W, Now(u)
    PROVE  /\ u = OfStatement(This, u[3], u[4]) /\ u[1] = "statement" /\ u[2] = This
           /\ Visits(u) = InStatement(This, u[3], u[4]) /\ ReachedFor(u) = {} /\ Sober(u)
<1>1. This[1] \in kinds /\ Closed(W)
  BY TopShape DEF Tree
<1>2. Top.is # "arrival"
  BY <1>1, ArrivalsAreSeeds
<1>3. u = OfStatement(This, u[3], u[4])
  BY <1>2 DEF Now
<1>4. u[1] = "statement" /\ u[2] = This /\ Visits(u) = InStatement(This, u[3], u[4])
  BY <1>3, VisitsOf, KindKnown
<1> QED BY <1>1, <1>3, <1>4 DEF ReachedFor, Closed

(* Each block that is visited is one of the branches.                      *)
PartOf(w, s, R, F, v) ==
    \/ w = OfExpr(Condition(s), R, F)
    \/ \E b \in Branches(s, v) : w = OfBody(b[2], R \cup DOMAIN b[1])

LEMMA BlocksBranch ==
    ASSUME NEW s, NEW R, NEW F, NEW w, NEW v, s[1] \in Branched /\ w \in InStatement(s, R, F)
    PROVE  PartOf(w, s, R, F, v)
<1> DEFINE c == s[2]
<1>1. ASSUME NEW N, NEW x, NEW stmts, w = OfBody(stmts, R \cup N), <<Names(N, x), stmts>> \in Branches(s, v)
      PROVE  \E b \in Branches(s, v) : w = OfBody(b[2], R \cup DOMAIN b[1])
  <2> DEFINE b == <<Names(N, x), stmts>>
  <2>1. b[2] = stmts /\ DOMAIN b[1] = N
    BY DEF Names
  <2> QED BY <1>1, <2>1
<1>2. CASE s[1] = "when"
  <2>1. \/ w = OfExpr(c[1], R, F) \/ w = OfBody(c[2], R \cup {})
        \/ c[3][1] = "else" /\ w = OfBody(c[3][2], R \cup {})
    BY <1>2 DEF InStatement
  <2>2. /\ <<Names({}, v), c[2]>> \in Branches(s, v) /\ Condition(s) = c[1]
        /\ c[3][1] = "else" => <<Names({}, v), c[3][2]>> \in Branches(s, v)
    BY <1>2 DEF Branches, Condition
  <2> HIDE DEF c
  <2> QED BY <1>1, <2>1, <2>2 DEF PartOf
<1>3. CASE s[1] = "reinforce"
  <2>1. w = OfExpr(c[1], R, F) \/ w = OfBody(c[3], R \cup {})
    BY <1>3 DEF InStatement
  <2>2. <<Names({}, v), c[3]>> \in Branches(s, v) /\ Condition(s) = c[1]
    BY <1>3 DEF Branches, Condition
  <2> HIDE DEF c
  <2> QED BY <1>1, <2>1, <2>2 DEF PartOf
<1>4. CASE s[1] = "for"
  <2>1. w = OfExpr(c[2], R, F) \/ w = OfBody(c[3], R \cup {c[1]})
    BY <1>4 DEF InStatement
  <2>2. <<Names({c[1]}, Data), c[3]>> \in Branches(s, v) /\ Condition(s) = c[2]
    BY <1>4 DEF Branches, Condition
  <2> HIDE DEF c
  <2> QED BY <1>1, <2>1, <2>2 DEF PartOf
<1>5. CASE s[1] = "match"
  <2>1. \/ w = OfExpr(c[1], R, F)
        \/ \E arm \in ToSet(c[2]) : w = OfBody(arm[2], R \cup PatternBinds(arm[1]))
    BY <1>5 DEF InStatement
  <2>2. Condition(s) = c[1]
    BY <1>5 DEF Condition
  <2>3. CASE \E arm \in ToSet(c[2]) : w = OfBody(arm[2], R \cup PatternBinds(arm[1]))
    <3>1. PICK arm \in ToSet(c[2]) : w = OfBody(arm[2], R \cup PatternBinds(arm[1]))
      BY <2>3
    <3> DEFINE x == IF arm[1][1] = "bind" THEN v ELSE Data
    <3>2. <<Names(PatternBinds(arm[1]), x), arm[2]>> \in Branches(s, v)
      BY <1>5 DEF Branches
    <3> HIDE DEF x
    <3> QED BY <1>1, <3>1, <3>2 DEF PartOf
  <2> QED BY <2>1, <2>2, <2>3 DEF PartOf
<1> QED BY <1>2, <1>3, <1>4, <1>5 DEF Branched, PartOf

LEMMA EnterHolds ==
    ASSUME NEW W, Tree(W), Seen(W), Runs(W, scopes, stack, signal), Stacked(scopes, stack), Enter
    PROVE  HoldsOn(W)
<1> DEFINE e == Condition(This)
           v == Value(e, Top.at)
<1>1. Here(Branched) /\ Closed(W) /\ This[1] \in Branched
  BY TopShape DEF Enter, Branching, Tree
<1>2. /\ GoodScopes(W, scopes) /\ Top.at \in 1..Len(scopes) /\ Len(scopes) \in Nat
  BY <1>1, TopShape
<1>3. PICK b \in Branches(This, v), below \in {Onward, stack} :
         /\ v # Missing /\ Open(b[1], Top.at, b[2], below)
         /\ untried' = untried \cup Made(e, Top.at)
                         \cup (IF Branches(This, v) # {b} THEN PassedOver ELSE {})
  BY DEF Enter
<1>4. \A n \in DOMAIN b[1] : GoodValue(W, scopes, b[1][n])
  <2>1. PICK V, F : WorksOn(W, scopes, Top, {}, V, F) /\ StepSeen(W, Top.is, This, V, F)
    BY <1>1, HereRuns
  <2>2. Covered(scopes, F, Top.at, scopes[Top.at].around)
    BY <2>1 DEF WorksOn
  <2> QED BY <1>1, <1>2, <1>3, <2>1, <2>2, BranchesKnown
<1>5. Stacked(scopes, below) /\ \A g \in ToSet(below) : g.is = "seed" => g \in ToSet(stack)
  BY <1>1, <1>3, OnwardStacked
<1>6. /\ Stacked(scopes', stack') /\ Len(scopes') \in Nat /\ Len(scopes) <= Len(scopes')
      /\ ToSet(below) \subseteq ToSet(stack')
      /\ \A g \in ToSet(stack') : g.is = "seed" => g \in ToSet(stack)
      /\ \A k, names : Binding(scopes, scopes', k, names)
      /\ \A j \in 1..Len(scopes) : \A n : /\ Known(scopes', j, n) => Known(scopes, j, n)
                                          /\ Soon(scopes', stack', j, n) => Soon(scopes, stack, j, n)
  BY <1>2, <1>3, <1>4, <1>5, OpenedHolds
<1>7. untried \subseteq untried' /\ Made(e, Top.at) \subseteq untried'
  BY <1>3
<1>8. Clean' => Branches(This, v) = {b}
  BY <1>3 DEF Clean, PassedOver
<1>9. ASSUME Clean', NEW u \in W, Now(u), Nobodys(W, scopes, stack, Top.at, {}, u)
      PROVE  Remains(W, scopes', stack', untried', u)
  <2>1. /\ u[1] = "statement" /\ u[2] = This
        /\ Visits(u) = InStatement(This, u[3], u[4]) /\ ReachedFor(u) = {} /\ Sober(u)
    <3>1. "seed" \notin Branched
      BY DEF Branched
    <3> QED BY <1>1, <1>9, <3>1, NowStatement
  <2>2. ASSUME NEW w \in Visits(u) PROVE Remains(W, scopes', stack', untried', w)
    <3>1. w \in W /\ Alarmed(W, w) \subseteq Alarmed(W, u) /\ Late(W, w) \subseteq Late(W, u)
      BY PartsAlarm, TreeDownward
    <3>2. /\ \A n \in Alarmed(W, w) : ~Soon(scopes, stack, Top.at, n)
          /\ \A n \in Late(W, w) : ~Known(scopes, Top.at, n)
      BY <1>9, <3>1 DEF Nobodys
    <3>3. CASE w = OfExpr(e, u[3], u[4])
      <4>1. Simple(e)
        <5>1. ValuesIn(This) = {e}
          BY <1>1 DEF ValuesIn, Branched, Consuming
        <5> QED BY <2>1, <5>1 DEF Sober, Harmless
      <4>2. e[1] = "agentexpr" => Closure(e[2], e[4], Top.at) \in untried'
        BY <1>7 DEF Made, Value
      <4>3. \A n \in Late(W, w) : ~Known(scopes', Top.at, n)
        BY <1>2, <1>6, <3>2
      <4>4. Top.at \in 1..Len(scopes')
        BY <1>2, <1>6
      <4> HIDE DEF e
      <4> QED BY <3>1, <3>3, <4>1, <4>2, <4>3, <4>4, SimpleRemains
    <3>4. CASE \E x \in Branches(This, v) : w = OfBody(x[2], u[3] \cup DOMAIN x[1])
      <4>1. w = OfBody(b[2], u[3] \cup DOMAIN b[1])
        BY <1>8, <1>9, <3>4
      <4>2. Alarmed(W, w) \cap DOMAIN b[1] = {}
        <5>1. Alarmed(W, w) \cap (u[3] \cup DOMAIN b[1]) = {}
          BY <3>1, <4>1, BodyKnown
        <5> QED BY <5>1
      <4> DEFINE vars == b[1]
                 stmts == b[2]
                 V == u[3] \cup DOMAIN b[1]
      <4>3. Open(vars, Top.at, stmts, below) /\ \A n \in DOMAIN vars : GoodValue(W, scopes, vars[n])
        BY <1>3, <1>4
      <4>4. w = OfBody(stmts, V) /\ Alarmed(W, w) \cap DOMAIN vars = {}
        BY <4>1, <4>2
      <4> HIDE DEF vars, stmts, V
      <4> QED BY <1>2, <1>5, <3>1, <3>2, <4>3, <4>4, OpenRemains
    <3> DEFINE R == u[3]
               F == u[4]
    <3>5. w \in InStatement(This, R, F)
      BY <2>1
    <3> HIDE DEF v, e, R, F
    <3>6. \/ w = OfExpr(Condition(This), R, F)
          \/ \E x \in Branches(This, v) : w = OfBody(x[2], R \cup DOMAIN x[1])
      <4> DEFINE s == This
      <4>1. s[1] \in Branched /\ w \in InStatement(s, R, F)
        BY <1>1, <3>5
      <4> HIDE DEF s
      <4>2. PartOf(w, s, R, F, v)
        BY <4>1, BlocksBranch
      <4> QED BY <4>2 DEF s, PartOf
    <3> QED BY <3>3, <3>4, <3>6 DEF e, R, F
  <2> QED BY <2>1, <2>2, RemainsByParts, TreeDownward
<1>10. ASSUME Clean', Held(W, scopes, stack, untried) PROVE Held(W, scopes', stack', untried')
  <2>1. CASE below = Onward
    <3>1. Declares(This) = {}
      BY <1>1 DEF Declares, Branched
    <3>2. ToSet(Onward) \subseteq ToSet(stack')
      BY <1>6, <2>1
    <3>3. \A c \in untried : c[1] = "closure" => c \in untried'
      BY <1>7
    <3>4. Binding(scopes, scopes', Top.at, Declares(This))
      BY <1>6
    <3>5. \A g \in ToSet(stack') : g.is = "seed" =>
              g \in ToSet(stack) \/ (g.at = Top.at /\ TargetBinds(g.target) \subseteq Declares(This))
      BY <1>6
    <3>6. \A u \in W : Now(u) /\ Nobodys(W, scopes, stack, Top.at, {}, u)
                         => Remains(W, scopes', stack', untried', u)
      BY <1>9, <1>10
    <3> QED BY <1>1, <1>6, <1>10, <3>2, <3>3, <3>4, <3>5, <3>6, HereHeld
  <2>2. CASE below = stack
    <3>1. ToSet(stack) \ ToSet(stack') = {} /\ untried \ untried' = {}
      BY <1>6, <1>7, <2>2
    <3> QED BY <1>2, <1>6, <1>10, <3>1, StaysHeld
  <2> QED BY <2>1, <2>2
<1> QED BY <1>6, <1>10 DEF HoldsOn

LEMMA AttemptHolds ==
    ASSUME NEW W, Tree(W), Seen(W), Runs(W, scopes, stack, signal), Stacked(scopes, stack), Attempt
    PROVE  HoldsOn(W)
<1> DEFINE c == This[2]
           f == Frame("attempt", Top.at, c[3], <<"typed", c[2], << >>>>)
           vars == Names({}, Data)
           below == <<f>> \o Onward
<1>1. Here({"attempt"}) /\ Closed(W) /\ This[1] = "attempt"
  BY TopShape DEF Attempt, Tree
<1>2. GoodScopes(W, scopes) /\ Top.at \in 1..Len(scopes) /\ Len(scopes) \in Nat
  BY <1>1, TopShape
<1>3. Open(vars, Top.at, c[1], below) /\ untried' = untried
  BY DEF Attempt
<1>4. f.is = "attempt" /\ f.at = Top.at /\ f.rest = c[3] /\ f.target[2] = c[2]
  BY DEF Frame
<1>5. DOMAIN vars = {}
  BY DEF Names
<1> HIDE DEF f, c, vars
<1>6. Stacked(scopes, Onward) /\ \A g \in ToSet(Onward) : g.is = "seed" => g \in ToSet(stack)
  BY <1>1, OnwardStacked
<1>7. Stacked(scopes, below) /\ ToSet(below) = {f} \cup ToSet(Onward)
  <2>1. Brings(f) = {} /\ f.is \notin Working
    BY <1>4 DEF Brings, Working
  <2>2. InPlace(scopes, f)
    BY <1>2, <1>4, <2>1 DEF InPlace
  <2> QED BY <1>6, <2>1, <2>2, StackedPush
<1>8. \A g \in ToSet(below) : g.is = "seed" => g \in ToSet(stack)
  BY <1>4, <1>6, <1>7
<1> HIDE DEF below
<1>9. /\ Stacked(scopes', stack') /\ Len(scopes') \in Nat /\ Len(scopes) <= Len(scopes')
      /\ ToSet(below) \subseteq ToSet(stack')
      /\ \A g \in ToSet(stack') : g.is = "seed" => g \in ToSet(stack)
      /\ \A k, names : Binding(scopes, scopes', k, names)
      /\ \A j \in 1..Len(scopes) : \A n : /\ Known(scopes', j, n) => Known(scopes, j, n)
                                          /\ Soon(scopes', stack', j, n) => Soon(scopes, stack, j, n)
  BY <1>2, <1>3, <1>5, <1>7, <1>8, OpenedHolds
<1>10. ASSUME NEW u \in W, Now(u), Nobodys(W, scopes, stack, Top.at, {}, u)
       PROVE  Remains(W, scopes', stack', untried', u)
  <2>1. Visits(u) = InStatement(This, u[3], u[4]) /\ ReachedFor(u) = {}
    <3>1. "seed" \notin {"attempt"}
      OBVIOUS
    <3> QED BY <1>1, <1>10, <3>1, NowStatement
  <2>2. ASSUME NEW w \in Visits(u) PROVE Remains(W, scopes', stack', untried', w)
    <3>1. w \in W /\ Alarmed(W, w) \subseteq Alarmed(W, u) /\ Late(W, w) \subseteq Late(W, u)
      BY PartsAlarm, TreeDownward
    <3>2. /\ \A n \in Alarmed(W, w) : ~Soon(scopes, stack, Top.at, n)
          /\ \A n \in Late(W, w) : ~Known(scopes, Top.at, n)
      BY <1>10, <3>1 DEF Nobodys
    <3>3. w = OfBody(c[1], u[3] \cup {}) \/ w = OfBody(c[3], u[3] \cup {c[2]})
      BY <1>1, <2>1 DEF InStatement, c
    <3>4. CASE w = OfBody(c[1], u[3] \cup {})
      <4> DEFINE V == u[3] \cup {}
      <4>1. w = OfBody(c[1], V) /\ Alarmed(W, w) \cap DOMAIN vars = {}
        BY <1>5, <3>4
      <4>2. \A n \in DOMAIN vars : GoodValue(W, scopes, vars[n])
        BY <1>5
      <4> HIDE DEF V
      <4> QED BY <1>2, <1>3, <1>7, <1>8, <3>1, <3>2, <4>1, <4>2, OpenRemains
    <3>5. CASE w = OfBody(c[3], u[3] \cup {c[2]})
      <4>1. w[3] = u[3] \cup {c[2]} /\ w = OfBody(f.rest, w[3]) /\ Knows(w) = u[3] \cup {c[2]}
        BY <1>4, <3>5, KindKnown DEF Knows
      <4>2. c[2] \notin Alarmed(W, w)
        BY <3>1, <4>1, KnownIsNoAlarm
      <4>3. /\ \A n \in Alarmed(W, w) : ~Soon(scopes', stack', f.at, n)
            /\ \A n \in Late(W, w) : ~Known(scopes', f.at, n)
        BY <1>2, <1>4, <1>9, <3>2
      <4>4. Nobodys(W, scopes', stack', f.at, {c[2]}, w)
        BY <4>2, <4>3 DEF Nobodys
      <4>5. ToRun(f, w, {c[2]})
        BY <1>4, <4>1 DEF ToRun
      <4>6. f \in ToSet(stack')
        BY <1>7, <1>9
      <4>7. Carried(W, scopes', stack', untried', w)
        BY <4>4, <4>5, <4>6 DEF Carried, FrameHolds
      <4> QED BY <3>1, <4>7, CarriedRemains
    <3> QED BY <3>3, <3>4, <3>5
  <2> QED BY <2>1, <2>2, RemainsByParts, TreeDownward
<1>11. ASSUME Held(W, scopes, stack, untried) PROVE Held(W, scopes', stack', untried')
  <2>1. ToSet(Onward) \subseteq ToSet(stack')
    BY <1>7, <1>9
  <2>2. Binding(scopes, scopes', Top.at, Declares(This))
    BY <1>9
  <2>3. \A g \in ToSet(stack') : g.is = "seed" =>
              g \in ToSet(stack) \/ (g.at = Top.at /\ TargetBinds(g.target) \subseteq Declares(This))
    BY <1>9
  <2>4. \A x \in untried : x[1] = "closure" => x \in untried'
    BY <1>3
  <2> QED BY <1>1, <1>9, <1>10, <1>11, <2>1, <2>2, <2>3, <2>4, HereHeld
<1> QED BY <1>9, <1>11 DEF HoldsOn

LEMMA RescueHolds ==
    ASSUME NEW W, Tree(W), Seen(W), Runs(W, scopes, stack, signal), Stacked(scopes, stack), Rescue
    PROVE  HoldsOn(W)
<1> DEFINE x == Top.target[2]
           vars == Names({x}, Data)
           below == Tail(stack)
<1>1. /\ stack # << >> /\ Top.is = "attempt" /\ Open(vars, Top.at, Top.rest, below)
      /\ untried' = untried
  BY DEF Rescue, Stops
<1>2. GoodScopes(W, scopes) /\ Len(scopes) \in Nat
  BY ListKnown DEF Runs, GoodScopes
<1>3. DOMAIN vars = {x} /\ \A n \in DOMAIN vars : GoodValue(W, scopes, vars[n])
  BY DataGood DEF Names
<1> HIDE DEF x, vars
<1>4. /\ InPlace(scopes, Top) /\ Stacked(scopes, below) /\ ToSet(stack) = {Top} \cup ToSet(below)
      /\ Top.at \in 1..Len(scopes)
  <2>1. InPlace(scopes, Top) /\ Stacked(scopes, below) /\ ToSet(stack) = {Top} \cup ToSet(below)
    BY <1>1, StackedPop DEF Top
  <2> QED BY <2>1 DEF InPlace
<1>5. \A g \in ToSet(below) : g.is = "seed" => g \in ToSet(stack)
  BY <1>4
<1> HIDE DEF below
<1>6. /\ Stacked(scopes', stack') /\ Len(scopes') \in Nat /\ Len(scopes) <= Len(scopes')
      /\ ToSet(below) \subseteq ToSet(stack')
      /\ \A j \in 1..Len(scopes) : \A n : /\ Known(scopes', j, n) => Known(scopes, j, n)
                                          /\ Soon(scopes', stack', j, n) => Soon(scopes, stack, j, n)
  BY <1>1, <1>2, <1>3, <1>4, <1>5, OpenedHolds
<1>7. ASSUME NEW u \in W, FrameHolds(W, scopes, stack, Top, u)
      PROVE  Remains(W, scopes', stack', untried', u)
  <2>1. PICK N : ToRun(Top, u, N) /\ Nobodys(W, scopes, stack, Top.at, N, u)
    BY <1>7 DEF FrameHolds
  <2>2. u = OfBody(Top.rest, u[3]) /\ N = {x}
    BY <1>1, <2>1 DEF ToRun, x
  <2> DEFINE V == u[3]
  <2>3. u = OfBody(Top.rest, V)
    BY <2>2
  <2>4. Alarmed(W, u) \cap DOMAIN vars = {}
    BY <1>3, <2>1, <2>2 DEF Nobodys
  <2>5. /\ \A n \in Alarmed(W, u) : ~Soon(scopes, stack, Top.at, n)
        /\ \A n \in Late(W, u) : ~Known(scopes, Top.at, n)
    BY <2>1 DEF Nobodys
  <2> HIDE DEF V
  <2> QED BY <1>1, <1>2, <1>3, <1>4, <1>5, <2>3, <2>4, <2>5, OpenRemains
<1>8. ASSUME Held(W, scopes, stack, untried) PROVE Held(W, scopes', stack', untried')
  <2>1. \A f \in ToSet(stack) \ ToSet(stack') : \A u \in W :
            FrameHolds(W, scopes, stack, f, u) => Remains(W, scopes', stack', untried', u)
    BY <1>4, <1>6, <1>7
  <2>2. untried \ untried' = {}
    BY <1>1
  <2> QED BY <1>2, <1>6, <1>8, <2>1, <2>2, StaysHeld
<1> QED BY <1>6, <1>8 DEF HoldsOn

(* An agent's body begins.                                                 *)
LEMMA BeginHolds ==
    ASSUME NEW W, Tree(W), Seen(W), Runs(W, scopes, stack, signal), Stacked(scopes, stack), Begin
    PROVE  HoldsOn(W)
<1> DEFINE su == Tail(stack)
           f == Frame("agent", Top.at, Top.target, None)
<1>1. stack # << >> /\ Top.is = "arrival" /\ Top.rest = << >> /\ scopes' = scopes
  BY DEF Begin, Running
<1>2. GoodScopes(W, scopes) /\ Len(scopes) \in Nat /\ Len(scopes) <= Len(scopes)
  <2>1. GoodScopes(W, scopes) /\ Len(scopes) \in Nat
    BY ListKnown DEF Runs, GoodScopes
  <2> QED BY <2>1
<1>3. /\ InPlace(scopes, Top) /\ Stacked(scopes, su) /\ ToSet(stack) = {Top} \cup ToSet(su)
      /\ \A g \in ToSet(su) : g.at < Top.at
  BY <1>1, StackedPop DEF Top, Working
<1>4. CASE stack' = su /\ untried' = untried \cup PassedOver
  BY <1>1, <1>3, <1>4 DEF HoldsOn, Clean, PassedOver
<1>5. CASE stack' = <<f>> \o su /\ untried' = untried
  <2>1. f.is = "agent" /\ f.at = Top.at /\ f.rest = Top.target
    BY DEF Frame
  <2> HIDE DEF f, su
  <2>2. InPlace(scopes, f)
    <3>1. Brings(f) \subseteq Brings(Top) /\ f.is # "assign"
      BY <1>1, <2>1 DEF Brings, Working
    <3> QED BY <1>3, <2>1, <3>1 DEF InPlace
  <2>3. Stacked(scopes, stack') /\ ToSet(stack') = {f} \cup ToSet(su)
    BY <1>3, <1>5, <2>1, <2>2, StackedPush
  <2>4. \A g \in ToSet(stack') : g.is = "seed" => g \in ToSet(stack)
    BY <1>3, <2>1, <2>3
  <2>5. \A j \in 1..Len(scopes) : \A n : /\ Known(scopes, j, n) => Known(scopes, j, n)
                                         /\ Soon(scopes, stack', j, n) => Soon(scopes, stack, j, n)
    BY <2>4 DEF Soon
  <2>6. ASSUME NEW u \in W, FrameHolds(W, scopes, stack, Top, u)
        PROVE  Remains(W, scopes, stack', untried', u)
    <3>1. PICK N : ToRun(Top, u, N) /\ Nobodys(W, scopes, stack, Top.at, N, u)
      BY <2>6 DEF FrameHolds
    <3>2. u = OfBody(Top.target, u[3])
      <4>1. DOMAIN Top.rest = {}
        BY <1>1
      <4> QED BY <1>1, <3>1, <4>1 DEF ToRun
    <3>3. /\ \A n \in Alarmed(W, u) : ~Soon(scopes, stack', f.at, n)
          /\ \A n \in Late(W, u) : ~Known(scopes, f.at, n)
      <4>1. Top.at \in 1..Len(scopes)
        BY <1>3 DEF InPlace
      <4> QED BY <2>1, <2>5, <3>1, <4>1 DEF Nobodys
    <3> DEFINE V == u[3]
    <3>4. u = OfBody(Top.target, V)
      BY <3>2
    <3> HIDE DEF V
    <3> QED BY <2>1, <2>3, <3>3, <3>4, BodyRemains
  <2>7. ASSUME Held(W, scopes, stack, untried) PROVE Held(W, scopes, stack', untried')
    <3>1. \A g \in ToSet(stack) \ ToSet(stack') : \A u \in W :
              FrameHolds(W, scopes, stack, g, u) => Remains(W, scopes, stack', untried', u)
      BY <1>3, <2>3, <2>6
    <3>2. untried \ untried' = {}
      BY <1>5
    <3> QED BY <1>2, <2>5, <2>7, <3>1, <3>2, StaysHeld
  <2> QED BY <1>1, <2>3, <2>7 DEF HoldsOn
<1> QED BY <1>4, <1>5 DEF Begin

-----------------------------------------------------------------------------
(* A call of the script's own agent.                                       *)

(* An expression that is evaluated alarms by its call's name and, later,   *)
(* in the agents made in it.                                               *)
LEMMA PlainAlarms ==
    ASSUME NEW W, Tree(W), NEW a, NEW V, NEW F, OfExpr(a, V, F) \in W, Simple(a)
    PROVE  Alarmed(W, OfExpr(a, V, F)) \subseteq Late(W, OfExpr(a, V, F))
<1>1. CASE a[1] = "agentexpr"
  <2>1. Makes(OfExpr(a, V, F))
    BY <1>1, KindKnown DEF Makes
  <2> QED BY <2>1, AlarmsWithin, TreeDownward
<1>2. CASE a[1] # "agentexpr"
  BY <1>2, SimpleAlarms
<1> QED BY <1>1, <1>2

LEMMA CallAlarms ==
    ASSUME NEW W, Tree(W), NEW e, NEW V, NEW F, OfExpr(e, V, F) \in W, e[1] = "call",
           \A a \in {e[2]} \cup ToSet(e[3]) : Simple(a)
    PROVE  Alarmed(W, OfExpr(e, V, F)) \subseteq (CalleeName(e) \ V) \cup Late(W, OfExpr(e, V, F))
<1> DEFINE u == OfExpr(e, V, F)
<1>1. Visits(u) = {OfExpr(a, V, F) : a \in {e[2]} \cup ToSet(e[3])}
  <2>1. Visits(u) = InExpr(e, V, F)
    BY VisitsOf
  <2>2. Inside(e) = {e[2]} \cup ToSet(e[3])
    BY DEF Inside
  <2> QED BY <2>1, <2>2 DEF InExpr
<1>2. ReachedFor(u) = CalleeName(e) \ V
  BY KindKnown DEF ReachedFor
<1> HIDE DEF u
<1>3. u \in W /\ Downward(W)
  BY TreeDownward DEF u
<1>4. ASSUME NEW n \in Alarmed(W, u) PROVE n \in ReachedFor(u) \cup Late(W, u)
  <2>1. CASE \E w \in Visits(u) : n \in Alarmed(W, w)
    <3>1. PICK w \in Visits(u) : n \in Alarmed(W, w)
      BY <2>1
    <3>2. PICK a \in {e[2]} \cup ToSet(e[3]) : w = OfExpr(a, V, F)
      BY <1>1
    <3>3. w \in W /\ Late(W, w) \subseteq Late(W, u)
      BY <1>3, PartsAlarm
    <3>4. Alarmed(W, w) \subseteq Late(W, w)
      BY <3>2, <3>3, PlainAlarms
    <3> QED BY <3>1, <3>3, <3>4
  <2> QED BY <1>3, <1>4, <2>1, AlarmsOfParts
<1> QED BY <1>2, <1>4 DEF u

LEMMA EvaluatedAlarms ==
    ASSUME NEW W, Tree(W), NEW e, NEW V, NEW F, OfExpr(e, V, F) \in W,
           Harmless(ValuesOf(e)), Simple(Callee(e))
    PROVE  Alarmed(W, OfExpr(e, V, F)) \subseteq (CalleeName(e) \ V) \cup Late(W, OfExpr(e, V, F))
<1> DEFINE u == OfExpr(e, V, F)
<1>1. CASE Callee(e) = None
  <2>1. Simple(e)
    BY <1>1 DEF Harmless, ValuesOf
  <2> QED BY <2>1, PlainAlarms
<1>2. ASSUME Callee(e) # None PROVE \A a \in CallParts(e) : Simple(a)
  BY <1>2 DEF Harmless, ValuesOf, CallParts
<1>3. CASE e[1] = "call"
  <2>1. CallParts(e) = {e[2]} \cup ToSet(e[3])
    BY <1>3 DEF CallParts, Callee, Arguments
  <2> QED BY <1>1, <1>2, <1>3, <2>1, CallAlarms
<1>4. CASE e[1] = "pipe" /\ Callee(e) # None
  <2>1. Visits(u) = {OfExpr(e[2], V, F), OfExpr(e[3], V, F)} /\ OfExpr(e[3], V, F) \in W
    BY <1>4, PipeParts
  <2>2. ReachedFor(u) = CalleeName(e) \ V
    BY KindKnown DEF ReachedFor
  <2> HIDE DEF u
  <2>3. u \in W /\ Downward(W)
    BY TreeDownward DEF u
  <2>4. ASSUME NEW w \in Visits(u) PROVE Alarmed(W, w) \subseteq ReachedFor(u) \cup Late(W, u)
    <3>1. w \in W /\ Late(W, w) \subseteq Late(W, u)
      BY <2>3, PartsAlarm
    <3>2. CASE w = OfExpr(e[2], V, F)
      <4>1. Simple(e[2])
        BY <1>2, <1>4, PipeParts
      <4> QED BY <3>1, <3>2, <4>1, PlainAlarms
    <3>3. CASE w = OfExpr(e[3], V, F) /\ e[3][1] = "call"
      <4>1. CalleeName(e[3]) = CalleeName(e) /\ {e[3][2]} \cup ToSet(e[3][3]) \subseteq CallParts(e)
        BY <1>4, <3>3, PipeParts
      <4>2. \A a \in {e[3][2]} \cup ToSet(e[3][3]) : Simple(a)
        BY <1>2, <1>4, <4>1
      <4>3. Alarmed(W, OfExpr(e[3], V, F)) \subseteq (CalleeName(e[3]) \ V) \cup Late(W, OfExpr(e[3], V, F))
        BY <2>1, <3>3, <4>2, CallAlarms
      <4> QED BY <2>2, <3>1, <3>3, <4>1, <4>3
    <3>4. CASE w = OfExpr(e[3], V, F) /\ e[3][1] # "call"
      <4>1. Simple(e[3])
        BY <1>2, <1>4, <3>4, PipeParts
      <4> QED BY <3>1, <3>4, <4>1, PlainAlarms
    <3> QED BY <2>1, <3>2, <3>3, <3>4
  <2>5. \A n \in Alarmed(W, u) : n \in ReachedFor(u) \/ \E w \in Visits(u) : n \in Alarmed(W, w)
    BY <2>3, AlarmsOfParts
  <2> QED BY <2>2, <2>4, <2>5 DEF u
<1> QED BY <1>1, <1>3, <1>4, CallsInside

LEMMA MakesDeferred ==
    ASSUME NEW W, Tree(W), NEW v \in W, Makes(v)
    PROVE  Visits(v) = Deferred(ParamsIn(v), BodyIn(v), v[4])
<1>1. v = OfStatement(v[2], v[3], v[4]) \/ v = OfExpr(v[2], v[3], v[4])
  <2>1. v[1] \in {"statement", "expr"}
    BY DEF Makes
  <2> QED BY <2>1, KindKnown DEF Tree, Kinded
<1>2. CASE v[1] = "statement"
  <2>1. v = OfStatement(v[2], v[3], v[4]) /\ v[2][1] = "agent"
    BY <1>1, <1>2, KindKnown DEF Makes
  <2>2. Visits(v) = InStatement(v[2], v[3], v[4])
    BY <2>1, VisitsOf
  <2> QED BY <1>2, <2>1, <2>2 DEF InStatement, ParamsIn, BodyIn
<1>3. CASE v[1] = "expr"
  <2>1. v = OfExpr(v[2], v[3], v[4]) /\ v[2][1] = "agentexpr"
    BY <1>1, <1>3, KindKnown DEF Makes
  <2>2. Visits(v) = InExpr(v[2], v[3], v[4])
    BY <2>1, VisitsOf
  <2> QED BY <1>3, <2>1, <2>2 DEF InExpr, ParamsIn, BodyIn
<1> QED BY <1>2, <1>3 DEF Makes

(* The names that the defaults bind are those of the parameters not given. *)
NamedFrom(params, n, m) == {params[n + i][2] : i \in 1..m}

LEMMA DefaultsDeclare ==
    ASSUME NEW params, NEW n, NEW rest, rest = Defaults(params, n), DOMAIN rest = 1..Len(rest), Len(rest) \in Nat
    PROVE  /\ \A i \in 1..Len(rest) : Declares(rest[i]) = {params[n + i][2]}
           /\ DeclaredIn(rest) = NamedFrom(params, n, Len(rest))
           /\ \A j \in 1..Len(rest) : DeclaredBefore(rest, j) = NamedFrom(params, n, j - 1)
<1>1. ASSUME NEW i \in 1..Len(rest) PROVE Declares(rest[i]) = {params[n + i][2]}
  <2>1. rest[i][1] = "seed" /\ rest[i][2][1][1] = "typed" /\ rest[i][2][1][2] = params[n + i][2]
    BY DefaultKnown
  <2> QED BY <2>1 DEF Declares, TargetBinds
<1>2. DeclaredIn(rest) = NamedFrom(params, n, Len(rest))
  <2>1. DeclaredIn(rest) = UNION {Declares(rest[i]) : i \in 1..Len(rest)}
    BY DEF DeclaredIn, ToSet
  <2> QED BY <1>1, <2>1 DEF NamedFrom
<1>3. ASSUME NEW j \in 1..Len(rest) PROVE DeclaredBefore(rest, j) = NamedFrom(params, n, j - 1)
  <2>1. \A i \in 1..(j - 1) : i \in 1..Len(rest)
    OBVIOUS
  <2> QED BY <1>1, <2>1 DEF DeclaredBefore, NamedFrom
<1> QED BY <1>1, <1>2, <1>3

(* What a called agent has to run, the frame of its arrival has.           *)
LEMMA CalledPart ==
    ASSUME NEW W, Tree(W), Seen(W), NEW params, NEW body, NEW n, NEW rest, NEW s,
           Called(W, params, body, n, rest, s), Stacked(scopes, Awaiting), Unneeded(params, n) = {},
           NEW f, f = Frame("arrival", Len(scopes) + 1, rest, body),
           NEW su, ToSet(su) = {f} \cup ToSet(Awaiting),
           NEW u \in W, AgentHolds(W, scopes, CalledValue, u)
    PROVE  FrameHolds(W, Append(scopes, s), su, f, u)
<1> DEFINE at == CalledValue[4]
           k == Len(scopes) + 1
           sd == Append(scopes, s)
           given == DOMAIN s.vars
           names == {p[2] : p \in ToSet(params)}
<1>1. f.is = "arrival" /\ f.at = k /\ f.rest = rest /\ f.target = body
  BY DEF Frame
<1>2. PICK v \in W : Makes(v) /\ params = ParamsIn(v) /\ body = BodyIn(v) /\ u \in Visits(v)
  BY DEF AgentHolds, Called
<1>3. \A x \in Alarmed(W, u) : ~Known(scopes, at, x)
  BY DEF AgentHolds
<1> DEFINE F == v[4]
<1>4. u \in Deferred(params, body, F)
  BY <1>2, MakesDeferred
<1>5. Late(W, u) \cap (names \cup DeclaredIn(body)) = {}
  BY <1>2 DEF Seen, Overlooked
<1>6. /\ Len(params) \in Nat /\ DOMAIN params = 1..Len(params) /\ n \in Nat
      /\ Len(rest) \in Nat /\ DOMAIN rest = 1..Len(rest)
  <2>1. params \in Seq(ToSet(params))
    BY DEF Called, Listed
  <2> QED BY <2>1, LenProperties DEF Called
<1>7. names = {params[i][2] : i \in 1..Len(params)}
  BY <1>6 DEF ToSet
<1>8. given = {params[i][2] : i \in {l \in 1..Len(params) : l <= n}}
  BY DEF Called
<1>9. /\ DeclaredIn(rest) = NamedFrom(params, n, Len(rest))
      /\ \A j \in 1..Len(rest) : DeclaredBefore(rest, j) = NamedFrom(params, n, j - 1)
  <2>1. rest = Defaults(params, n)
    BY DEF Called
  <2> QED BY <1>6, <2>1, DefaultsDeclare
<1>10. given \subseteq names /\ DeclaredIn(rest) \subseteq names
  <2>1. \A i \in 1..Len(rest) : n + i \in 1..Len(params)
    BY DEF Called
  <2> HIDE DEF names, given
  <2> QED BY <1>7, <1>8, <1>9, <2>1 DEF NamedFrom
<1>11. ASSUME NEW x
       PROVE  /\ Soon(sd, su, k, x) => Known(scopes, at, x) \/ x \in given
              /\ Known(sd, k, x) => Known(scopes, at, x) \/ x \in given \cup s.due
  <2>1. GoodScopes(W, scopes) /\ at \in 1..Len(scopes) /\ s.around = scopes[at].around \cup {Len(scopes) + 1}
    BY DEF Called
  <2>2. \A g \in ToSet(su) : g.is = "seed" => g \in ToSet(Awaiting)
    BY <1>1
  <2> HIDE DEF at
  <2>3. /\ Soon(sd, su, k, x) => Soon(scopes, Awaiting, at, x) \/ x \in given
        /\ Known(sd, k, x) => Known(scopes, at, x) \/ x \in given \cup s.due
    BY <2>1, <2>2, SoonInside
  <2>4. Soon(scopes, Awaiting, at, x) => Known(scopes, at, x)
    BY <2>1, SoonKnown
  <2> QED BY <2>3, <2>4
<1>12. s.due \subseteq names \cup DeclaredIn(body)
  <2>1. DeclaredIn(rest \o body) = DeclaredIn(rest) \cup DeclaredIn(body)
    BY DeclaredInBoth DEF Called
  <2>2. s.due \subseteq DeclaredIn(rest \o body)
    BY DEF Called
  <2> QED BY <1>10, <2>1, <2>2
<1>13. Late(W, u) \subseteq Alarmed(W, u)
  BY AlarmsWithin, TreeDownward
<1> HIDE DEF at, k, sd, given, names, F
<1>14. ASSUME NEW N, \A x \in Alarmed(W, u) : x \notin given /\ x \notin N
       PROVE  Nobodys(W, sd, su, f.at, N, u)
  <2>1. \A x \in Alarmed(W, u) : ~Soon(sd, su, k, x) /\ x \notin N
    BY <1>3, <1>11, <1>14
  <2>2. \A x \in Late(W, u) : ~Known(sd, k, x)
    BY <1>3, <1>5, <1>11, <1>12, <1>13, <1>14
  <2> QED BY <1>1, <2>1, <2>2 DEF Nobodys
<1>15. CASE u = OfBody(body, Child(params, Len(params), F))
  <2>1. u = OfBody(f.target, u[3]) /\ Knows(u) = Child(params, Len(params), F)
    BY <1>1, <1>15, KindKnown DEF Knows
  <2>2. names \subseteq Child(params, Len(params), F)
    BY <1>7 DEF Child
  <2>3. Alarmed(W, u) \cap names = {}
    BY <2>1, <2>2, KnownIsNoAlarm
  <2>4. Nobodys(W, sd, su, f.at, DeclaredIn(rest), u)
    BY <1>10, <1>14, <2>3
  <2>5. ToRun(f, u, DeclaredIn(rest))
    BY <1>1, <2>1 DEF ToRun
  <2> QED BY <2>4, <2>5 DEF FrameHolds, sd
<1>16. ASSUME NEW i \in DOMAIN params, NEW d \in DefaultsOf(params[i]), u = OfExpr(d, Child(params, i, F), F)
       PROVE  FrameHolds(W, sd, su, f, u)
  <2> DEFINE p == params[i]
  <2>1. p \in ToSet(params) /\ p[1] = "parameter" /\ d \in ToSet(p[4])
    BY <1>16 DEF DefaultsOf, ToSet
  <2>2. p[4] # << >> /\ d = p[4][1]
    <3>1. SoberParams(params)
      BY DEF Called
    <3>2. p[4] \in Seq(ToSet(p[4])) /\ Len(p[4]) <= 1
      BY <2>1, <3>1 DEF SoberParams, Listed
    <3> HIDE DEF p
    <3>3. Len(p[4]) \in Nat /\ DOMAIN p[4] = 1..Len(p[4])
      BY <3>2, LenProperties
    <3>4. PICK l \in DOMAIN p[4] : d = p[4][l]
      BY <2>1 DEF ToSet
    <3>5. l = 1
      BY <3>2, <3>3, <3>4
    <3>6. DOMAIN << >> = {}
      OBVIOUS
    <3> QED BY <3>4, <3>5, <3>6
  <2>3. ~(i <= n)
    BY <1>16, <2>1, <2>2 DEF Unneeded, PassedOver
  <2> DEFINE j == i - n
  <2>4. j \in 1..Len(rest) /\ n + j = i
    <3>1. (Len(rest) = 0 \/ n + Len(rest) = Len(params)) /\ (Len(rest) = 0 => Len(params) <= n)
      BY DEF Called
    <3> DEFINE m == Len(params)
               l == Len(rest)
    <3>2. i \in 1..m /\ m \in Nat /\ l \in Nat /\ n \in Nat
      BY <1>6, <1>16
    <3>3. (l = 0 \/ n + l = m) /\ (l = 0 => m <= n)
      BY <3>1
    <3> HIDE DEF m, l
    <3>4. j \in 1..l /\ n + j = i
      BY <2>3, <3>2, <3>3
    <3> QED BY <3>4 DEF l
  <2> HIDE DEF j
  <2>5. rest[j][2][2] = d
    <3>1. j \in DOMAIN Defaults(params, n) /\ rest = Defaults(params, n)
      BY <1>6, <2>4 DEF Called
    <3>2. rest[j][2][2] = IF params[n + j][1] = "parameter" /\ params[n + j][4] # << >>
                          THEN params[n + j][4][1] ELSE <<"constant", "void">>
      BY <3>1, DefaultKnown
    <3> QED BY <2>1, <2>2, <2>4, <3>2
  <2>6. Alarmed(W, u) \subseteq (CalleeName(d) \ Child(params, i, F)) \cup Late(W, u)
    <3>1. Harmless(ValuesOf(d)) /\ Simple(Callee(d))
      BY <1>16, <2>1 DEF Called, SoberParams
    <3> DEFINE V == Child(params, i, F)
    <3>2. u = OfExpr(d, V, F)
      BY <1>16
    <3> HIDE DEF V
    <3>3. Alarmed(W, u) \subseteq (CalleeName(d) \ V) \cup Late(W, u)
      BY <3>1, <3>2, EvaluatedAlarms
    <3> QED BY <3>3 DEF V
  <2> DEFINE before == {params[l][2] : l \in 1..i}
  <2>7. before \subseteq Child(params, i, F) /\ before \subseteq names
    <3>1. \A l \in 1..i : l \in 1..Len(params)
      BY <1>6, <1>16
    <3> QED BY <1>7, <3>1 DEF Child
  <2>8. Alarmed(W, u) \cap before = {}
    <3> HIDE DEF before
    <3> QED BY <1>5, <2>6, <2>7
  <2>9. given \subseteq before
    <3>1. \A l \in 1..Len(params) : l <= n => l \in 1..i
      BY <1>6, <1>16, <2>3
    <3> QED BY <1>8, <3>1
  <2>10. DeclaredBefore(rest, j) \subseteq before
    <3>1. \A l \in 1..(j - 1) : n + l \in 1..i
      BY <1>6, <2>4
    <3>2. DeclaredBefore(rest, j) = {params[n + l][2] : l \in 1..(j - 1)}
      BY <1>9, <2>4 DEF NamedFrom
    <3> QED BY <3>1, <3>2
  <2> HIDE DEF before
  <2>11. Nobodys(W, sd, su, f.at, DeclaredBefore(rest, j), u)
    BY <1>14, <2>8, <2>9, <2>10
  <2>12. ToRun(f, u, DeclaredBefore(rest, j))
    <3>1. u = OfExpr(d, u[3], u[4])
      BY <1>16, KindKnown
    <3>2. j \in DOMAIN f.rest /\ f.rest[j][2][2] = d
      BY <1>1, <1>6, <2>4, <2>5
    <3> QED BY <1>1, <3>1, <3>2 DEF ToRun
  <2> QED BY <2>11, <2>12 DEF FrameHolds
<1> QED BY <1>4, <1>15, <1>16 DEF Deferred, sd

LEMMA CallAgentHolds ==
    ASSUME NEW W, Tree(W), Seen(W), Runs(W, scopes, stack, signal), Stacked(scopes, stack), CallAgent
    PROVE  HoldsOn(W)
<1>1. Here(Consuming) /\ Callee(Expression(This)) # None /\ Closed(W)
  BY DEF CallAgent, Calling, Tree
<1>2. PICK params, body, n, rest, s : Called(W, params, body, n, rest, s)
  BY <1>1, CallKnown
<1> DEFINE k == Len(scopes) + 1
           sd == Append(scopes, s)
           f == Frame("arrival", k, rest, body)
           un == untried \cup MadeByCall \cup Unneeded(params, n)
           v == CalledValue
<1>3. f.is = "arrival" /\ f.at = k /\ f.rest = rest /\ f.target = body
  BY DEF Frame
<1>4. /\ scopes' = sd /\ stack' = <<f>> \o Awaiting /\ untried' = un \ {v}
      /\ GoodScopes(W, scopes) /\ Later(scopes, sd) /\ Len(scopes) \in Nat /\ Len(sd) = k /\ sd[k] = s
      /\ s.due = DeclaredIn(rest \o body) \ DOMAIN s.vars
      /\ \A x \in DOMAIN s.vars : GoodValue(W, scopes, s.vars[x])
      /\ IsList(rest) /\ Listed(body) /\ v[1] = "closure"
  BY <1>2 DEF Called
<1>5. /\ Stacked(scopes, Awaiting)
      /\ \A g \in ToSet(Awaiting) : g.is = "seed" =>
           g \in ToSet(stack) \/ (g.at = Top.at /\ TargetBinds(g.target) \subseteq Declares(This))
  BY <1>1, AwaitingStacked
<1> HIDE DEF sd, f, v
<1>6. InPlace(sd, f)
  <2>1. DeclaredIn(rest \o body) = DeclaredIn(rest) \cup DeclaredIn(body)
    BY <1>4, DeclaredInBoth
  <2>2. Brings(f) = DeclaredIn(rest) \cup DeclaredIn(body)
    BY <1>3 DEF Brings, Working
  <2>3. \A x \in DOMAIN s.vars : OwnAt(s, x)
    BY <1>4 DEF OwnAt, GoodValue
  <2>4. \A x \in Brings(f) : OwnAt(s, x) \/ x \in s.due
    BY <1>4, <2>1, <2>2, <2>3
  <2>5. k \in 1..Len(sd)
    BY <1>4
  <2> QED BY <1>3, <1>4, <2>4, <2>5 DEF InPlace
<1>7. Stacked(sd, Awaiting)
  BY <1>4, <1>5, StackedLater
<1>8. \A g \in ToSet(Awaiting) : g.at < f.at
  <2>1. ToSet(Awaiting) = {Awaiting[i] : i \in 1..Len(Awaiting)}
    BY <1>5, Members DEF Stacked
  <2>2. \A g \in ToSet(Awaiting) : g.at \in 1..Len(scopes)
    BY <1>5, <2>1 DEF Stacked, InPlace
  <2> QED BY <1>3, <1>4, <2>2
<1>9. Stacked(scopes', stack') /\ ToSet(stack') = {f} \cup ToSet(Awaiting)
  BY <1>4, <1>6, <1>7, <1>8, StackedPush
<1>10. ASSUME NEW j \in 1..Len(scopes), NEW x
       PROVE  /\ Known(sd, j, x) => Known(scopes, j, x)
              /\ Soon(sd, stack', j, x) => Soon(scopes, Awaiting, j, x)
  <2>1. Binding(scopes, sd, 1, {})
    BY <1>4, BindingAdded DEF sd
  <2>2. \A g \in ToSet(stack') : g.is = "seed" =>
           g \in ToSet(Awaiting) \/ (g.at = 1 /\ TargetBinds(g.target) \subseteq {})
    BY <1>3, <1>9
  <2>3. Soon(sd, stack', j, x) => Soon(scopes, Awaiting, j, x) \/ x \in {}
    BY <2>1, <2>2, SoonOn
  <2>4. Known(sd, j, x) => Known(scopes, j, x)
    BY <2>1 DEF Binding
  <2> QED BY <2>3, <2>4
<1>11. ASSUME Clean', Held(W, scopes, stack, untried) PROVE Held(W, scopes', stack', untried')
  <2>1. Unneeded(params, n) = {}
    <3>1. v # Data
      BY <1>4 DEF Data
    <3>2. Data \notin un
      BY <1>4, <1>11, <3>1 DEF Clean
    <3> QED BY <3>2 DEF Unneeded, PassedOver
  <2>2. Held(W, scopes, Awaiting, un)
    <3>1. \A x \in CalleeName(Expression(This)) : Own(scopes, Top.at, x)
      <4>1. v # Missing /\ v[1] # "capability"
        BY <1>4 DEF Missing
      <4>2. Top.at \in 1..Len(scopes)
        BY <1>1, TopShape
      <4>3. ASSUME NEW x \in CalleeName(Expression(This)) PROVE Own(scopes, Top.at, x)
        <5>1. \/ Own(scopes, Top.at, x) \/ v = Missing
              \/ v = <<"capability", x>> /\ x \in Capability
          BY <1>4, <4>2, CalledOwn DEF v
        <5> QED BY <4>1, <5>1
      <4> QED BY <4>3
    <3>2. \A c \in untried : c[1] = "closure" => c \in un
      OBVIOUS
    <3>3. AgentsMade(Evaluated(Expression(This)), Top.at, un)
      BY <1>1, MadeByCalls
    <3> HIDE DEF un
    <3> QED BY <1>1, <1>11, <3>1, <3>2, <3>3, AwaitingHeld
  <2>3. \A u \in W : AgentHolds(W, scopes, v, u) => Remains(W, sd, stack', untried', u)
    <3> SUFFICES ASSUME NEW u \in W, AgentHolds(W, scopes, v, u)
                 PROVE  Remains(W, sd, stack', untried', u)
      OBVIOUS
    <3> DEFINE su == stack'
    <3>1. ToSet(su) = {f} \cup ToSet(Awaiting)
      BY <1>9
    <3>2. f = Frame("arrival", Len(scopes) + 1, rest, body) /\ AgentHolds(W, scopes, CalledValue, u)
      BY DEF f, v
    <3> HIDE DEF su
    <3>3. FrameHolds(W, Append(scopes, s), su, f, u)
      BY <1>2, <1>5, <2>1, <3>1, <3>2, CalledPart
    <3>4. Carried(W, sd, su, untried', u)
      BY <3>1, <3>3 DEF Carried, sd
    <3> QED BY <3>4, CarriedRemains DEF su
  <2>4. \A c \in un \ untried' : \A u \in W : AgentHolds(W, scopes, c, u) => Remains(W, sd, stack', untried', u)
    BY <1>4, <2>3
  <2>5. ToSet(Awaiting) \ ToSet(stack') = {}
    BY <1>9
  <2>6. Len(sd) \in Nat /\ Len(scopes) <= Len(sd)
    BY <1>4
  <2> HIDE DEF un
  <2>7. Held(W, sd, stack', untried')
    BY <1>4, <1>5, <1>10, <2>2, <2>4, <2>5, <2>6, StaysHeld
  <2> QED BY <1>4, <2>7
<1> QED BY <1>9, <1>11 DEF HoldsOn

-----------------------------------------------------------------------------
(* The invariant.                                                          *)

LEMMA StepHolds ==
    ASSUME NEW W, Tree(W), Seen(W), Runs(W, scopes, stack, signal), Stacked(scopes, stack),
           ScriptNext, ~Load
    PROVE  HoldsOn(W)
<1>1. CASE Declare
  BY <1>1, DeclareHolds
<1>2. CASE Inert \/ Skip \/ Stumble
  BY <1>2, PassingHolds
<1>3. CASE Evaluate
  BY <1>3, EvaluateHolds
<1>4. CASE Deliver
  BY <1>4, DeliverHolds
<1>5. CASE CallAgent
  BY <1>5, CallAgentHolds
<1>6. CASE Begin
  BY <1>6, BeginHolds
<1>7. CASE CallNative
  BY <1>7, CallNativeHolds
<1>8. CASE CallFails
  BY <1>8, CallFailsHolds
<1>9. CASE Enter
  BY <1>9, EnterHolds
<1>10. CASE Attempt
  BY <1>10, AttemptHolds
<1>11. CASE Finish \/ Unwind \/ Return
  BY <1>11, LeavingHolds
<1>12. CASE Rescue
  BY <1>12, RescueHolds
<1> QED BY <1>1, <1>2, <1>3, <1>4, <1>5, <1>6, <1>7, <1>8, <1>9, <1>10, <1>11, <1>12 DEF ScriptNext

(* What was passed over, or went to nobody, is not forgotten.              *)
LEMMA CleanBefore == ASSUME ScriptNext, ~Load, Clean' PROVE Clean
<1>1. foreign \subseteq foreign'
  BY DEF ScriptNext, Declare, Inert, Evaluate, Deliver, CallAgent, Begin, CallNative,
         CallFails, Enter, Skip, Stumble, Attempt, Finish, Unwind, Return, Rescue
<1>2. CASE untried \subseteq untried'
  BY <1>1, <1>2 DEF Clean
<1>3. CASE CallAgent
  <2>1. CalledValue # Data /\ untried \subseteq untried' \cup {CalledValue}
    BY <1>3 DEF CallAgent, Data
  <2> QED BY <1>1, <2>1 DEF Clean
<1> QED BY <1>2, <1>3 DEF ScriptNext, Declare, Inert, Evaluate, Deliver, Begin, CallNative,
         CallFails, Enter, Skip, Stumble, Attempt, Finish, Unwind, Return, Rescue

LEMMA LoadHolds ==
    ASSUME Load, InSight(script')
    PROVE  LET W == Visited(script')
           IN  Stacked(scopes', stack') /\ Held(W, scopes', stack', untried')
<1> DEFINE W == Visited(script')
           f == Frame("block", 1, script', None)
           sd == scopes'
           s == sd[1]
           u == OfBody(script', Core)
<1>1. /\ WalkEnds(u) /\ Closed(W) /\ stack' = <<f>> \o << >> /\ IsList(sd) /\ Len(sd) = 1
  BY LoadKnown
<1>2. /\ s.around = {1} /\ s.due = DeclaredIn(script')
      /\ \A n \in DOMAIN s.vars : n \notin Core => s.vars[n] = <<"capability", n>>
  BY LoadKnown
<1>3. Tree(W) /\ u \in W /\ Within(W, u) = W
  BY <1>1, VisitedIsTree
<1>4. Seen(W)
  BY <1>1, SightSeen
<1>5. f.is = "block" /\ f.at = 1 /\ f.rest = script'
  BY DEF Frame
<1> HIDE DEF f, W, s, sd
<1>6. Stacked(sd, <<f>> \o << >>) /\ ToSet(<<f>> \o << >>) = {f}
  <2>1. IsList(<< >>) /\ Len(<< >>) = 0
    BY DEF IsList
  <2>2. Stacked(sd, << >>)
    BY <2>1 DEF Stacked
  <2>3. ToSet(<< >>) = {}
    BY DEF ToSet
  <2>4. InPlace(sd, f)
    <3>1. Brings(f) = DeclaredIn(script')
      BY <1>5 DEF Brings, Working
    <3>2. 1 \in 1..Len(sd) /\ sd[1] = s
      BY <1>1 DEF s
    <3> QED BY <1>2, <1>5, <3>1, <3>2 DEF InPlace
  <2>5. f.is \in Working => \A g \in ToSet(<< >>) : g.at < f.at
    BY <2>3
  <2>6. Stacked(sd, <<f>> \o << >>) /\ ToSet(<<f>> \o << >>) = {f} \cup ToSet(<< >>)
    <3> HIDE DEF sd, f
    <3> QED BY <2>2, <2>4, <2>5, StackedPush
  <2> QED BY <2>3, <2>6
<1>7. ASSUME NEW n
      PROVE  /\ Soon(sd, stack', 1, n) => n \in Core
             /\ Known(sd, 1, n) => n \in Core \cup DeclaredIn(script')
  <2>1. OwnAt(s, n) => n \in Core
    BY <1>2 DEF OwnAt
  <2>2. \A g \in ToSet(stack') : g.is # "seed"
    BY <1>1, <1>5, <1>6
  <2> QED BY <1>2, <2>1, <2>2 DEF Soon, Known, Own, Pending, s
<1>8. Alarmed(W, u) \cap Core = {} /\ Late(W, u) \cap (Core \cup DeclaredIn(script')) = {}
  BY <1>3, <1>4, BodyKnown, BodySeesFull
<1> DEFINE b == script'
           V == Core
           uo == untried'
           su == stack'
<1>9. Remains(W, sd, su, uo, u)
  <2>1. /\ \A n \in Alarmed(W, u) : ~Soon(sd, su, f.at, n)
        /\ \A n \in Late(W, u) : ~Known(sd, f.at, n)
    BY <1>5, <1>7, <1>8
  <2>2. f \in ToSet(su) /\ f.is \in {"block", "agent"} /\ f.rest = b /\ u = OfBody(b, V)
    BY <1>1, <1>5, <1>6
  <2> HIDE DEF b, V, su, uo, u
  <2> QED BY <1>3, <2>1, <2>2, BodyRemains
<1> HIDE DEF u, su, uo
<1>10. Held(W, sd, su, uo)
  BY <1>3, <1>9 DEF Remains, Held
<1> QED BY <1>1, <1>6, <1>10 DEF W, sd, su, uo

(* What is always so: unless something was passed over, or called nobody,  *)
(* every call that the preview says reaches out is still to come.          *)
HeldInv ==
    IF scopes = << >> THEN script = None
    ELSE /\ WalkEnds(OfBody(script, Core))
         /\ InSight(script) => /\ Stacked(scopes, stack)
                               /\ Clean => Held(Visited(script), scopes, stack, untried)

LEMMA HeldInvStep == ASSUME ScriptInv, HeldInv, ScriptNext PROVE HeldInv'
<1>1. CASE scopes = << >>
  <2>1. Load /\ signal = Quiet
    BY <1>1, LoadsFirst
  <2>2. scopes' # << >>
    BY <2>1, LoadStep
  <2>3. WalkEnds(OfBody(script', Core))
    BY <2>1, LoadKnown
  <2>4. InSight(script') => Stacked(scopes', stack') /\ Held(Visited(script'), scopes', stack', untried')
    BY <2>1, LoadHolds
  <2> QED BY <2>2, <2>3, <2>4 DEF HeldInv
<1>2. CASE scopes # << >>
  <2> DEFINE W == Visited(script)
  <2>1. /\ Closed(W) /\ Runs(W, scopes, stack, signal) /\ WalkEnds(OfBody(script, Core))
    BY <1>2 DEF ScriptInv, HeldInv
  <2>2. ~Load
    BY <1>2 DEF Load
  <2>3. script' = script
    BY <2>2, SameScript
  <2>4. scopes' # << >>
    <3>1. IsList(scopes)
      BY <2>1 DEF Runs, GoodScopes
    <3> QED BY <1>2, <2>2, <3>1, ScopesStay
  <2>5. ASSUME InSight(script)
        PROVE  Stacked(scopes', stack') /\ (Clean' => Held(W, scopes', stack', untried'))
    <3>1. Stacked(scopes, stack) /\ (Clean => Held(W, scopes, stack, untried))
      BY <1>2, <2>5 DEF HeldInv
    <3>2. Tree(W) /\ Seen(W)
      BY <2>1, <2>5, VisitedIsTree, SightSeen
    <3> HIDE DEF W
    <3>3. HoldsOn(W)
      BY <2>1, <2>2, <3>1, <3>2, StepHolds
    <3>4. Clean' => Clean
      BY <2>2, CleanBefore
    <3> QED BY <3>1, <3>3, <3>4 DEF HoldsOn
  <2> QED BY <2>1, <2>3, <2>4, <2>5 DEF HeldInv
<1> QED BY <1>1, <1>2

LEMMA HeldToTheEnd == ASSUME ScriptInv, HeldInv PROVE NoFalseAlarm
<1> SUFFICES ASSUME script # None, stack = << >>, foreign = {}, untried = {}, InSight(script)
             PROVE  previewed = {}
  BY DEF NoFalseAlarm
<1>1. scopes # << >>
  BY DEF HeldInv
<1> DEFINE W == Visited(script)
<1>2. Held(W, scopes, stack, untried) /\ previewed = Referenced(script)
  BY <1>1 DEF HeldInv, ScriptInv, Clean
<1>3. ToSet(stack) = {}
  BY DEF ToSet
<1> HIDE DEF W
<1>4. \A w : ~Carried(W, scopes, stack, untried, w)
  BY <1>3 DEF Carried
<1>5. \A x \in W : ReachedFor(x) = {}
  BY <1>2, <1>4 DEF Held
<1> QED BY <1>2, <1>5 DEF Referenced, W

(* When all of a script has run and every call found an agent of its own   *)
(* or a builtin, the preview it was loaded with had reported no name, for  *)
(* every script whose names are in sight (myxo-plan.js:85, 115-131).       *)
THEOREM NoAlarmIsFalse == ScriptSpec => []NoFalseAlarm
<1>1. ScriptInit => ScriptInv /\ HeldInv
  BY DEF ScriptInit, ScriptInv, HeldInv
<1>2. ScriptInv /\ HeldInv /\ [ScriptNext]_scriptVars => (ScriptInv /\ HeldInv)'
  <2>1. ScriptInv /\ HeldInv /\ UNCHANGED scriptVars => (ScriptInv /\ HeldInv)'
    <3> SUFFICES ASSUME ScriptInv, HeldInv, UNCHANGED scriptVars PROVE ScriptInv' /\ HeldInv'
      OBVIOUS
    <3>1. ScriptInv'
      BY DEF ScriptInv, scriptVars, PreviewSees, Runs, GoodScopes, Firm, Falls
    <3>2. HeldInv'
      BY DEF HeldInv, scriptVars, Clean
    <3> QED BY <3>1, <3>2
  <2> QED BY <2>1, ScriptInvStep, HeldInvStep
<1>3. ScriptInv /\ HeldInv => NoFalseAlarm
  BY HeldToTheEnd
<1> QED BY <1>1, <1>2, <1>3, PTL DEF ScriptSpec
=============================================================================
