-------------------------- MODULE UndoHistoryProofs --------------------------
(***************************************************************************)
(* Proofs about the undo history of the editor: what recording, undo and   *)
(* redo do to the one line of graphs that past, last and future make up.   *)
(***************************************************************************)
EXTENDS DraftEditor, SequenceTheorems, TLAPS

\* The recorded graphs, oldest first, and where the editor is among them.
Line(h)   == h.past \o <<h.last>> \o h.future
Cursor(h) == Len(h.past) + 1

\* Every edit makes a new graph, so a line is read from older to newer ones, and
\* stays so when an entry becomes what can be restored of it.
Increasing(s) == \A i, j \in DOMAIN s : i < j => s[i] < Restore(s[j])
Old(s, n)     == \A i \in DOMAIN s : s[i] <= n
Newer(g, s)   == \A i \in DOMAIN s : s[i] < Restore(g)

-----------------------------------------------------------------------------
(* Sequences of graphs                                                     *)

\* Graphs are numbers, and none of them is 0.
LEMMA GraphNat == Graph \in SUBSET Nat /\ NoGraph \notin Graph
  BY EditorAssumption DEF Graph, NoGraph

\* Restoring keeps a graph or makes the one right before it, once and for all.
LEMMA RestoreFacts ==
    \A g \in Graph : /\ g \in Nat /\ Restore(g) \in Graph /\ Restore(g) \in Nat
                     /\ Restore(g) <= g /\ g <= Restore(g) + 1
                     /\ Restore(Restore(g)) = Restore(g)
  <1>1. ASSUME NEW g \in Graph, g \in Lossy
        PROVE  g - 1 \in Graph /\ g - 1 \notin Lossy /\ g \in Nat
    BY <1>1, EditorAssumption DEF Graph, EmptyGraph
  <1>2. ASSUME NEW g \in Graph, g \in Lossy
        PROVE  Restore(g) = g - 1 /\ Restore(g - 1) = g - 1
    BY <1>1, <1>2 DEF Restore
  <1>3. ASSUME NEW g \in Graph, g \notin Lossy
        PROVE  Restore(g) = g
    BY <1>3 DEF Restore
  <1> QED BY <1>1, <1>2, <1>3, GraphNat

\* What may be null is a number, too.
LEMMA GraphOrNone == \A g \in Graph \cup {NoGraph} : g \in Nat
  BY GraphNat DEF NoGraph

\* What is left of a sequence whose first n entries are gone.
LEMMA SubSeqEntries ==
    ASSUME NEW s \in Seq(Graph), NEW a \in 1 .. Len(s) + 1, NEW b \in a - 1 .. Len(s)
    PROVE  /\ SubSeq(s, a, b) \in Seq(Graph) /\ Len(SubSeq(s, a, b)) = b - a + 1
           /\ \A i \in 1 .. b - a + 1 : SubSeq(s, a, b)[i] = s[a + i - 1]
  <1>1. Len(s) \in Nat /\ a \in Int /\ b \in Int /\ a \in Nat /\ b \in Nat
    OBVIOUS
  <1>2. \A i \in a .. b : s[i] \in Graph
    BY <1>1
  <1>3. /\ SubSeq(s, a, b) \in Seq(Graph)
        /\ Len(SubSeq(s, a, b)) = IF a <= b THEN b - a + 1 ELSE 0
        /\ \A i \in 1 .. b - a + 1 : SubSeq(s, a, b)[i] = s[a + i - 1]
    BY <1>1, <1>2, SubSeqProperties
  <1> QED BY <1>1, <1>3

\* Sequences are equal when their entries are.
LEMMA GraphSeqEqual ==
    ASSUME NEW s \in Seq(Graph), NEW t \in Seq(Graph), NEW n \in Nat,
           Len(s) = n, Len(t) = n, \A i \in 1 .. n : s[i] = t[i]
    PROVE  s = t
  BY SeqEqual

\* Both halves of a concatenation.
LEMMA ConcatEntries ==
    ASSUME NEW x \in Seq(Graph), NEW y \in Seq(Graph)
    PROVE  /\ x \o y \in Seq(Graph) /\ Len(x \o y) = Len(x) + Len(y)
           /\ \A i \in 1 .. Len(x) : (x \o y)[i] = x[i]
           /\ \A i \in 1 .. Len(y) : (x \o y)[Len(x) + i] = y[i]
  OBVIOUS

\* Forgetting commutes with what follows.
LEMMA ForgetConcat ==
    ASSUME NEW x \in Seq(Graph), NEW y \in Seq(Graph), NEW n \in 0 .. Len(x)
    PROVE  SubSeq(x \o y, n + 1, Len(x) + Len(y)) = SubSeq(x, n + 1, Len(x)) \o y
  <1>1. /\ Len(x) \in Nat /\ Len(y) \in Nat /\ n \in Nat
        /\ n + 1 \in 1 .. Len(x) + 1 /\ Len(x) \in (n + 1) - 1 .. Len(x)
    OBVIOUS
  <1>2. x \o y \in Seq(Graph) /\ Len(x \o y) = Len(x) + Len(y)
    BY ConcatEntries
  <1>3. n + 1 \in 1 .. Len(x \o y) + 1 /\ Len(x) + Len(y) \in (n + 1) - 1 .. Len(x \o y)
    BY <1>1, <1>2
  <1>4. /\ SubSeq(x \o y, n + 1, Len(x) + Len(y)) \in Seq(Graph)
        /\ Len(SubSeq(x \o y, n + 1, Len(x) + Len(y))) = Len(x) + Len(y) - n
        /\ \A i \in 1 .. Len(x) + Len(y) - n :
              SubSeq(x \o y, n + 1, Len(x) + Len(y))[i] = (x \o y)[n + i]
    BY <1>1, <1>2, <1>3, SubSeqEntries
  <1>5. /\ SubSeq(x, n + 1, Len(x)) \in Seq(Graph)
        /\ Len(SubSeq(x, n + 1, Len(x))) = Len(x) - n
        /\ \A i \in 1 .. Len(x) - n : SubSeq(x, n + 1, Len(x))[i] = x[n + i]
    BY <1>1, SubSeqEntries
  <1>6. /\ SubSeq(x, n + 1, Len(x)) \o y \in Seq(Graph)
        /\ Len(SubSeq(x, n + 1, Len(x)) \o y) = Len(x) - n + Len(y)
    BY <1>5, ConcatEntries
  <1>7. ASSUME NEW i \in 1 .. Len(x) + Len(y) - n
        PROVE  SubSeq(x \o y, n + 1, Len(x) + Len(y))[i]
                 = (SubSeq(x, n + 1, Len(x)) \o y)[i]
    <2>1. CASE i \in 1 .. Len(x) - n
      <3>1. n + i \in 1 .. Len(x)
        BY <1>1, <2>1
      <3>2. (x \o y)[n + i] = x[n + i]
        BY <3>1, ConcatEntries
      <3>3. (SubSeq(x, n + 1, Len(x)) \o y)[i] = SubSeq(x, n + 1, Len(x))[i]
        BY <1>5, <2>1, ConcatEntries
      <3> QED BY <1>4, <1>5, <2>1, <3>2, <3>3
    <2>2. CASE i \notin 1 .. Len(x) - n
      <3>1. PICK l \in 1 .. Len(y) : i = (Len(x) - n) + l
        <4>1. i - (Len(x) - n) \in 1 .. Len(y) /\ i = (Len(x) - n) + (i - (Len(x) - n))
          BY <1>1, <2>2
        <4> QED BY <4>1
      <3>2. n + i = Len(x) + l
        BY <1>1, <3>1
      <3>3. (x \o y)[n + i] = y[l]
        BY <3>1, <3>2, ConcatEntries
      <3>4. i = Len(SubSeq(x, n + 1, Len(x))) + l
        BY <1>5, <3>1
      <3>5. (SubSeq(x, n + 1, Len(x)) \o y)[i] = y[l]
        BY <1>5, <3>4, ConcatEntries
      <3> QED BY <1>4, <3>3, <3>5
    <2> QED BY <2>1, <2>2
  <1>8. Len(x) + Len(y) - n \in Nat
    BY <1>1
  <1>9. Len(SubSeq(x, n + 1, Len(x)) \o y) = Len(x) + Len(y) - n
    BY <1>1, <1>6
  <1>10. ASSUME NEW s \in Seq(Graph), NEW t \in Seq(Graph),
                s = SubSeq(x \o y, n + 1, Len(x) + Len(y)),
                t = SubSeq(x, n + 1, Len(x)) \o y
         PROVE  s = t
    BY <1>4, <1>7, <1>8, <1>9, <1>10, GraphSeqEqual
  <1> QED BY <1>4, <1>6, <1>10

\* Cutting off commutes with what comes before.
LEMMA CutConcat ==
    ASSUME NEW x \in Seq(Graph), NEW y \in Seq(Graph), NEW k \in 0 .. Len(y)
    PROVE  SubSeq(x \o y, 1, Len(x) + k) = x \o SubSeq(y, 1, k)
  <1>1. Len(x) \in Nat /\ Len(y) \in Nat /\ k \in Nat
    OBVIOUS
  <1>2. x \o y \in Seq(Graph) /\ Len(x \o y) = Len(x) + Len(y)
    BY ConcatEntries
  <1>3. 1 \in 1 .. Len(x \o y) + 1 /\ Len(x) + k \in 1 - 1 .. Len(x \o y)
    BY <1>1, <1>2
  <1>4. /\ SubSeq(x \o y, 1, Len(x) + k) \in Seq(Graph)
        /\ Len(SubSeq(x \o y, 1, Len(x) + k)) = Len(x) + k
        /\ \A i \in 1 .. Len(x) + k : SubSeq(x \o y, 1, Len(x) + k)[i] = (x \o y)[i]
    BY <1>1, <1>2, <1>3, SubSeqEntries
  <1>5. /\ SubSeq(y, 1, k) \in Seq(Graph) /\ Len(SubSeq(y, 1, k)) = k
        /\ \A i \in 1 .. k : SubSeq(y, 1, k)[i] = y[i]
    <2>1. 1 \in 1 .. Len(y) + 1 /\ k \in 1 - 1 .. Len(y)
      BY <1>1
    <2> QED BY <1>1, <2>1, SubSeqEntries
  <1>6. x \o SubSeq(y, 1, k) \in Seq(Graph) /\ Len(x \o SubSeq(y, 1, k)) = Len(x) + k
    BY <1>5, ConcatEntries
  <1>7. ASSUME NEW i \in 1 .. Len(x) + k
        PROVE  SubSeq(x \o y, 1, Len(x) + k)[i] = (x \o SubSeq(y, 1, k))[i]
    <2>1. CASE i \in 1 .. Len(x)
      <3>1. (x \o y)[i] = x[i]
        BY <2>1, ConcatEntries
      <3>2. (x \o SubSeq(y, 1, k))[i] = x[i]
        BY <1>5, <2>1, ConcatEntries
      <3> QED BY <1>4, <3>1, <3>2
    <2>2. CASE i \notin 1 .. Len(x)
      <3>1. PICK l \in 1 .. k : i = Len(x) + l
        <4>1. i - Len(x) \in 1 .. k /\ i = Len(x) + (i - Len(x))
          BY <1>1, <2>2
        <4> QED BY <4>1
      <3>2. l \in 1 .. Len(y)
        BY <1>1
      <3>3. (x \o y)[i] = y[l]
        BY <3>1, <3>2, ConcatEntries
      <3>4. (x \o SubSeq(y, 1, k))[i] = SubSeq(y, 1, k)[l]
        BY <1>5, <3>1, ConcatEntries
      <3> QED BY <1>4, <1>5, <3>3, <3>4
    <2> QED BY <2>1, <2>2
  <1> QED BY <1>1, <1>4, <1>6, <1>7, GraphSeqEqual

\* slice keeps the newest, or the nearest: at least one of them.
LEMMA NewestIsSuffix ==
    ASSUME NEW s \in Seq(Graph), NEW limit \in Nat
    PROVE  \E n \in 0 .. Len(s) : Newest(s, limit) = SubSeq(s, n + 1, Len(s))
  <1>1. Len(s) \in Nat
    OBVIOUS
  <1>2. CASE Len(s) > limit
    <2>1. Len(s) - limit \in 0 .. Len(s)
      BY <1>1, <1>2
    <2>2. Newest(s, limit) = SubSeq(s, (Len(s) - limit) + 1, Len(s))
      BY <1>2 DEF Newest
    <2> QED BY <2>1, <2>2
  <1>3. CASE ~(Len(s) > limit)
    <2>1. Newest(s, limit) = SubSeq(s, 0 + 1, Len(s))
      BY <1>1, <1>3, SubSeqFull DEF Newest
    <2> QED BY <1>1, <2>1
  <1> QED BY <1>2, <1>3

\* slice(0, n) keeps a beginning.
LEMMA NearestIsPrefix ==
    ASSUME NEW s \in Seq(Graph), s # <<>>, NEW limit \in Nat \ {0}
    PROVE  \E k \in 1 .. Len(s) : Nearest(s, limit) = SubSeq(s, 1, k)
  <1>1. Len(s) \in Nat \ {0}
    OBVIOUS
  <1>2. CASE Len(s) > limit
    BY <1>1, <1>2 DEF Nearest
  <1>3. CASE ~(Len(s) > limit)
    <2>1. Nearest(s, limit) = SubSeq(s, 1, Len(s))
      BY <1>1, <1>3, SubSeqFull DEF Nearest
    <2> QED BY <1>1, <2>1
  <1> QED BY <1>2, <1>3

\* Part of a line is in order.
LEMMA SubSeqIncreasing ==
    ASSUME NEW s \in Seq(Graph), NEW a \in 1 .. Len(s) + 1, NEW b \in a - 1 .. Len(s),
           NEW m \in Nat, Increasing(s), Old(s, m)
    PROVE  Increasing(SubSeq(s, a, b)) /\ Old(SubSeq(s, a, b), m)
  <1>1. /\ Len(s) \in Nat /\ a \in Nat /\ b \in Nat
        /\ DOMAIN s = 1 .. Len(s) 
    OBVIOUS
  <1>2. PICK t \in Seq(Graph) : t = SubSeq(s, a, b)
    BY SubSeqEntries
  <1>3. DOMAIN t = 1 .. b - a + 1
    BY <1>1, <1>2, SubSeqEntries
  <1>4. \A i \in DOMAIN t : t[i] = s[a + i - 1] /\ a + i - 1 \in DOMAIN s
    BY <1>1, <1>2, <1>3, SubSeqEntries
  <1>5. Old(t, m)
    BY <1>4 DEF Old
  <1>6. ASSUME NEW i \in DOMAIN t, NEW j \in DOMAIN t, i < j
        PROVE  t[i] < Restore(t[j])
    <2>1. a + i - 1 < a + j - 1
      BY <1>1, <1>3, <1>6
    <2> QED BY <1>4, <2>1 DEF Increasing
  <1> QED BY <1>2, <1>5, <1>6 DEF Increasing

\* A line stays in order when what is added is newer than all of it.
LEMMA AppendIncreasing ==
    ASSUME NEW s \in Seq(Graph), NEW g \in Graph, NEW m \in Nat, Increasing(s),
           Old(s, m), g <= m, Newer(g, s)
    PROVE  Increasing(Append(s, g)) /\ Old(Append(s, g), m)
  <1>1. /\ Len(s) \in Nat /\ DOMAIN s = 1 .. Len(s)
        /\ Append(s, g) \in Seq(Graph)
    OBVIOUS
  <1>2. PICK t \in Seq(Graph) : t = Append(s, g)
    BY <1>1
  <1>3. /\ DOMAIN t = 1 .. Len(s) + 1 /\ t[Len(s) + 1] = g
        /\ \A i \in DOMAIN s : t[i] = s[i]
    BY <1>1, <1>2
  <1>4. \A i \in DOMAIN t : i \in DOMAIN s \/ i = Len(s) + 1
    BY <1>1, <1>3
  <1>5. Old(t, m)
    BY <1>3, <1>4 DEF Old
  <1>6. ASSUME NEW i \in DOMAIN t, NEW j \in DOMAIN t, i < j
        PROVE  t[i] < Restore(t[j])
    <2>1. i \in DOMAIN s
      BY <1>1, <1>3, <1>6
    <2> QED BY <1>3, <1>4, <1>6, <2>1 DEF Increasing, Newer
  <1> QED BY <1>2, <1>5, <1>6 DEF Increasing

-----------------------------------------------------------------------------
(* The line of a history                                                   *)

\* A line with what is before, at and after its cursor.
LEMMA LineOf ==
    ASSUME NEW p \in Seq(Graph), NEW g \in Graph, NEW f \in Seq(Graph),
           NEW k, k = Len(p) + 1, NEW l, l = p \o <<g>> \o f
    PROVE  /\ l \in Seq(Graph) /\ k \in Nat \ {0}
           /\ Append(p, g) \in Seq(Graph) /\ Len(Append(p, g)) = k
           /\ l = Append(p, g) \o f /\ l = p \o (<<g>> \o f)
           /\ Len(l) = k + Len(f) /\ DOMAIN l = 1 .. k + Len(f)
           /\ k \in DOMAIN l /\ l[k] = g
           /\ SubSeq(l, 1, k) = Append(p, g)
  <1>1. Len(p) \in Nat /\ Len(f) \in Nat /\ k \in Nat \ {0}
    OBVIOUS
  <1>2. <<g>> \in Seq(Graph)
    OBVIOUS
  <1>3. PICK a \in Seq(Graph) : a = Append(p, g)
    <2>1. Append(p, g) \in Seq(Graph)
      OBVIOUS
    <2> QED BY <2>1
  <1>4. Len(a) = k /\ a[k] = g
    BY <1>1, <1>3
  <1>5. l = a \o f
    BY <1>3, AppendIsConcat
  <1>6. l = p \o (<<g>> \o f)
    BY <1>2, ConcatAssociative
  <1>7. l \in Seq(Graph) /\ Len(l) = k + Len(f)
    BY <1>4, <1>5, ConcatEntries
  <1>8. DOMAIN l = 1 .. k + Len(f) /\ k \in DOMAIN l
    BY <1>1, <1>7
  <1>9. l[k] = g
    <2>1. k \in 1 .. Len(a)
      BY <1>1, <1>4
    <2> QED BY <1>4, <1>5, <2>1, ConcatEntries
  <1>10. SubSeq(l, 1, k) = a
    <2>1. 0 \in 0 .. Len(f) /\ k + 0 = k
      BY <1>1
    <2>2. SubSeq(a \o f, 1, Len(a) + 0) = a \o SubSeq(f, 1, 0)
      BY <2>1, CutConcat
    <2>3. SubSeq(f, 1, 0) = <<>>
      BY SubSeqEmpty
    <2>4. a \o <<>> = a
      BY ConcatEmptySeq
    <2> QED BY <1>4, <1>5, <2>1, <2>2, <2>3, <2>4
  <1> QED BY <1>1, <1>3, <1>4, <1>5, <1>6, <1>7, <1>8, <1>9, <1>10

\* The line, as the entries up to the cursor and what lies ahead.
LEMMA LineParts ==
    ASSUME NEW h \in History(Graph), h.last \in Graph
    PROVE  /\ h.past \in Seq(Graph) /\ h.future \in Seq(Graph)
           /\ Len(h.past) \in Nat /\ Len(h.future) \in Nat
           /\ Append(h.past, h.last) \in Seq(Graph)
           /\ Len(Append(h.past, h.last)) = Cursor(h)
           /\ Line(h) = Append(h.past, h.last) \o h.future
           /\ Line(h) = h.past \o (<<h.last>> \o h.future)
  <1>1. h.past \in Seq(Graph) /\ h.future \in Seq(Graph)
    BY DEF History
  <1>2. Len(h.past) \in Nat /\ Len(h.future) \in Nat
    BY <1>1
  <1>3. Append(h.past, h.last) \in Seq(Graph)
    BY <1>1
  <1>4. Len(Append(h.past, h.last)) = Cursor(h)
    BY <1>1 DEF Cursor
  <1>5. Line(h) = Append(h.past, h.last) \o h.future
    BY <1>1, AppendIsConcat DEF Line
  <1>6. Line(h) = h.past \o (<<h.last>> \o h.future)
    <2>1. ASSUME NEW p \in Seq(Graph), NEW g \in Graph, NEW f \in Seq(Graph)
          PROVE  p \o <<g>> \o f = p \o (<<g>> \o f)
      <3>1. <<g>> \in Seq(Graph)
        OBVIOUS
      <3> QED BY <3>1, ConcatAssociative
    <2> QED BY <1>1, <2>1 DEF Line
  <1> QED BY <1>1, <1>2, <1>3, <1>4, <1>5, <1>6

\* Where the last snapshot stands on the line.
LEMMA LineEntries ==
    ASSUME NEW h \in History(Graph), h.last \in Graph
    PROVE  /\ Line(h) \in Seq(Graph) /\ Cursor(h) \in Nat \ {0}
           /\ Len(Line(h)) = Cursor(h) + Len(h.future)
           /\ DOMAIN Line(h) = 1 .. Cursor(h) + Len(h.future)
           /\ Cursor(h) \in DOMAIN Line(h)
           /\ Line(h)[Cursor(h)] = h.last
           /\ SubSeq(Line(h), 1, Cursor(h)) = Append(h.past, h.last)
  <1>1. h.past \in Seq(Graph) /\ h.future \in Seq(Graph)
    BY DEF History
  <1>2. ASSUME NEW p \in Seq(Graph), p = h.past, NEW f \in Seq(Graph), f = h.future,
               NEW g \in Graph, g = h.last, NEW k, k = Cursor(h), NEW l, l = Line(h)
        PROVE  /\ l \in Seq(Graph) /\ k \in Nat \ {0}
               /\ Len(l) = k + Len(f) /\ DOMAIN l = 1 .. k + Len(f)
               /\ k \in DOMAIN l /\ l[k] = g
               /\ SubSeq(l, 1, k) = Append(p, g)
    <2>1. k = Len(p) + 1 /\ l = p \o <<g>> \o f
      BY <1>2 DEF Line, Cursor
    <2> QED BY <2>1, LineOf
  <1> QED BY <1>1, <1>2

\* A history that was reset has one entry.
LEMMA LineReset ==
    ASSUME NEW g \in Graph, NEW h, h.past = <<>>, h.future = <<>>, h.last = g
    PROVE  Line(h) = <<g>> /\ Cursor(h) = 1
  <1>1. <<g>> \in Seq(Graph)
    OBVIOUS
  <1> QED BY <1>1, ConcatEmptySeq DEF Line, Cursor

\* A new graph comes right after the cursor; what lay beyond it is gone, and
\* the n oldest entries may be.
LEMMA RecordFields ==
    ASSUME NEW h \in History(Graph), h.last \in Graph, NEW g \in Graph, g # h.last,
           NEW limit \in Nat, NEW r, r = Record(h, g, limit)
    PROVE  /\ r \in History(Graph) /\ r.past = Newest(Append(h.past, h.last), limit)
           /\ r.future = <<>> /\ r.last = g /\ r.held = NoGraph
           /\ r.restoring = h.restoring
  <1>1. Append(h.past, h.last) \in Seq(Graph)
    BY LineParts
  <1>2. Newest(Append(h.past, h.last), limit) \in Seq(Graph)
    <2>1. ASSUME NEW a \in Seq(Graph), NEW n \in 0 .. Len(a)
          PROVE  SubSeq(a, n + 1, Len(a)) \in Seq(Graph)
      <3>1. n + 1 \in 1 .. Len(a) + 1 /\ Len(a) \in (n + 1) - 1 .. Len(a)
        OBVIOUS
      <3> QED BY <3>1, SubSeqEntries
    <2> QED BY <1>1, <2>1, NewestIsSuffix
  <1>3. ASSUME NEW p \in Seq(Graph), p = Newest(Append(h.past, h.last), limit)
        PROVE  /\ r \in History(Graph) /\ r.past = p
               /\ r.future = <<>> /\ r.last = g /\ r.held = NoGraph
               /\ r.restoring = h.restoring
    <2>1. r = [h EXCEPT !.past = p, !.future = <<>>, !.last = g, !.held = NoGraph]
      BY <1>3 DEF Record
    <2>2. <<>> \in Seq(Graph)
      OBVIOUS
    <2> QED BY <2>1, <2>2 DEF History
  <1> QED BY <1>2, <1>3

Recorded(t, s, k, g) ==
    \E n \in 0 .. k : t = SubSeq(Append(SubSeq(s, 1, k), g), n + 1, k + 1)

\* Recording an edit is the step of the timeline that records.
LEMMA RecordLine ==
    ASSUME NEW h \in History(Graph), h.last \in Graph, NEW g \in Graph, g # h.last,
           NEW limit \in Nat, NEW r, r = Record(h, g, limit)
    PROVE  Cursor(r) = Len(Line(r)) /\ Recorded(Line(r), Line(h), Cursor(h), g)
  <1>1. /\ r \in History(Graph) /\ r.past = Newest(Append(h.past, h.last), limit)
        /\ r.future = <<>> /\ r.last = g
    BY RecordFields
  <1>2. Len(Line(r)) = Cursor(r)
    <2>1. Len(Line(r)) = Cursor(r) + Len(r.future) /\ Cursor(r) \in Nat
      BY <1>1, LineEntries
    <2> QED BY <1>1, <2>1
  <1>3. ASSUME NEW a \in Seq(Graph), a = Append(h.past, h.last)
        PROVE  \E n \in 0 .. Cursor(h) :
                  Line(r) = SubSeq(Append(a, g), n + 1, Cursor(h) + 1)
    <2>1. Len(a) = Cursor(h)
      BY <1>3, LineParts
    <2>2. PICK n \in 0 .. Len(a) : Newest(a, limit) = SubSeq(a, n + 1, Len(a))
      BY NewestIsSuffix
    <2>3. <<g>> \in Seq(Graph) /\ Len(<<g>>) = 1
      OBVIOUS
    <2>4. r.past \in Seq(Graph) /\ r.past \o <<g>> \in Seq(Graph)
      BY <1>1, <2>3 DEF History
    <2>5. Line(r) = r.past \o <<g>>
      BY <1>1, <2>4, ConcatEmptySeq DEF Line
    <2>6. Append(a, g) = a \o <<g>>
      BY AppendIsConcat
    <2>7. SubSeq(a \o <<g>>, n + 1, Len(a) + 1) = SubSeq(a, n + 1, Len(a)) \o <<g>>
      BY <2>3, ForgetConcat
    <2> QED BY <1>1, <1>3, <2>1, <2>2, <2>5, <2>6, <2>7
  <1>4. Append(h.past, h.last) \in Seq(Graph)
        /\ SubSeq(Line(h), 1, Cursor(h)) = Append(h.past, h.last)
    BY LineParts, LineEntries
  <1>5. Recorded(Line(r), Line(h), Cursor(h), g)
    BY <1>3, <1>4 DEF Recorded
  <1> QED BY <1>2, <1>5

\* What is recorded is newer than all of the line, which stays in order.
LEMMA RecordIncreasing ==
    ASSUME NEW h \in History(Graph), h.last \in Graph, NEW g \in Graph,
           NEW limit \in Nat, NEW m \in Nat, NEW r, r = Record(h, g, limit),
           Increasing(Line(h)), Old(Line(h), m), g <= m, Newer(g, Line(h))
    PROVE  g # h.last /\ Increasing(Line(r)) /\ Old(Line(r), m)
  <1>1. g # h.last
    <2>1. h.last < Restore(g)
      BY LineEntries DEF Newer
    <2> QED BY <2>1, RestoreFacts, GraphNat
  <1>2. PICK n \in 0 .. Cursor(h) :
           Line(r) = SubSeq(Append(SubSeq(Line(h), 1, Cursor(h)), g), n + 1, Cursor(h) + 1)
    <2>1. Recorded(Line(r), Line(h), Cursor(h), g)
      BY <1>1, RecordLine
    <2> QED BY <2>1 DEF Recorded
  <1>3. PICK s \in Seq(Graph) : s = SubSeq(Line(h), 1, Cursor(h))
    <2>1. SubSeq(Line(h), 1, Cursor(h)) \in Seq(Graph)
      BY LineEntries, LineParts
    <2> QED BY <2>1
  <1>4. Len(s) = Cursor(h) /\ Cursor(h) \in Nat
    BY <1>3, LineEntries, LineParts
  <1>5. /\ Line(h) \in Seq(Graph) /\ 1 \in 1 .. Len(Line(h)) + 1
        /\ Cursor(h) \in 1 - 1 .. Len(Line(h))
    <2>1. /\ Line(h) \in Seq(Graph) /\ Len(Line(h)) = Cursor(h) + Len(h.future)
          /\ Len(h.future) \in Nat
      BY LineEntries, LineParts
    <2> QED BY <1>4, <2>1
  <1>6. Increasing(s) /\ Old(s, m)
    BY <1>3, <1>5, SubSeqIncreasing
  <1>7. Newer(g, s)
    <2>1. \A i \in 1 .. Cursor(h) : s[i] = Line(h)[i]
      BY <1>3, <1>4, <1>5, SubSeqEntries
    <2>2. DOMAIN s = 1 .. Cursor(h) /\ \A i \in 1 .. Cursor(h) : i \in DOMAIN Line(h)
      BY <1>4, <1>5
    <2> QED BY <2>1, <2>2 DEF Newer
  <1>8. Increasing(Append(s, g)) /\ Old(Append(s, g), m)
    BY <1>6, <1>7, AppendIncreasing
  <1>9. /\ Append(s, g) \in Seq(Graph) /\ n + 1 \in 1 .. Len(Append(s, g)) + 1
        /\ Cursor(h) + 1 \in (n + 1) - 1 .. Len(Append(s, g))
    <2>1. Append(s, g) \in Seq(Graph) /\ Len(Append(s, g)) = Cursor(h) + 1
      BY <1>4
    <2> QED BY <1>4, <2>1
  <1> QED BY <1>1, <1>2, <1>3, <1>8, <1>9, SubSeqIncreasing

\* The last entry of a sequence and what comes before it.
LEMMA LastEntry ==
    ASSUME NEW p \in Seq(Graph), p # <<>>
    PROVE  /\ Len(p) \in Nat \ {0} /\ p[Len(p)] \in Graph
           /\ SubSeq(p, 1, Len(p) - 1) \in Seq(Graph)
           /\ Len(SubSeq(p, 1, Len(p) - 1)) = Len(p) - 1
           /\ p = SubSeq(p, 1, Len(p) - 1) \o <<p[Len(p)]>>
  <1>1. Len(p) \in Nat \ {0} /\ p[Len(p)] \in Graph
    OBVIOUS
  <1>2. ASSUME NEW k \in Nat, k = Len(p) - 1
        PROVE  /\ SubSeq(p, 1, k) \in Seq(Graph) /\ Len(SubSeq(p, 1, k)) = k
               /\ \A i \in 1 .. k : SubSeq(p, 1, k)[i] = p[i]
    <2>1. 1 \in 1 .. Len(p) + 1 /\ k \in 1 - 1 .. Len(p)
      BY <1>1, <1>2
    <2> QED BY <1>1, <2>1, SubSeqEntries
  <1>3. /\ SubSeq(p, 1, Len(p) - 1) \in Seq(Graph)
        /\ Len(SubSeq(p, 1, Len(p) - 1)) = Len(p) - 1
        /\ \A i \in 1 .. Len(p) - 1 : SubSeq(p, 1, Len(p) - 1)[i] = p[i]
    <2>1. Len(p) - 1 \in Nat
      BY <1>1
    <2> QED BY <1>2, <2>1
  <1>4. ASSUME NEW q \in Seq(Graph), Len(q) = Len(p) - 1,
               \A i \in 1 .. Len(p) - 1 : q[i] = p[i]
        PROVE  p = q \o <<p[Len(p)]>>
    <2>1. PICK y \in Seq(Graph) : y = <<p[Len(p)]>>
      <3>1. <<p[Len(p)]>> \in Seq(Graph)
        BY <1>1
      <3> QED BY <3>1
    <2>2. Len(y) = 1 /\ y[1] = p[Len(p)]
      BY <2>1
    <2>3. /\ q \o y \in Seq(Graph) /\ Len(q \o y) = Len(p)
          /\ \A i \in 1 .. Len(p) - 1 : (q \o y)[i] = q[i]
          /\ (q \o y)[Len(q) + 1] = y[1]
      <3>1. 1 \in 1 .. Len(y)
        BY <2>2
      <3>2. (q \o y)[Len(q) + 1] = y[1]
        BY <3>1, ConcatEntries
      <3>3. Len(q \o y) = Len(q) + Len(y)
        BY ConcatEntries
      <3>4. Len(q) + Len(y) = Len(p)
        BY <1>1, <1>4, <2>2
      <3> QED BY <1>4, <3>2, <3>3, <3>4, ConcatEntries
    <2>4. \A i \in 1 .. Len(p) : p[i] = (q \o y)[i]
      BY <1>1, <1>4, <2>2, <2>3
    <2> QED BY <1>1, <2>1, <2>3, <2>4, GraphSeqEqual
  <1> QED BY <1>1, <1>3, <1>4

\* The first entry of a sequence and what comes after it.
LEMMA FirstEntry ==
    ASSUME NEW f \in Seq(Graph), f # <<>>
    PROVE  /\ Len(f) \in Nat \ {0} /\ Head(f) \in Graph /\ Tail(f) \in Seq(Graph)
           /\ Head(f) = f[1] /\ f = <<Head(f)>> \o Tail(f)
  <1>1. /\ Len(f) \in Nat \ {0} /\ Head(f) \in Graph /\ Tail(f) \in Seq(Graph)
        /\ Head(f) = f[1]
    OBVIOUS
  <1>2. Len(Tail(f)) = Len(f) - 1 /\ \A i \in 1 .. Len(f) - 1 : Tail(f)[i] = f[i + 1]
    OBVIOUS
  <1>3. ASSUME NEW y \in Seq(Graph), Len(y) = Len(f) - 1,
               \A i \in 1 .. Len(f) - 1 : y[i] = f[i + 1]
        PROVE  f = <<f[1]>> \o y
    <2>1. PICK x \in Seq(Graph) : x = <<f[1]>>
      <3>1. <<f[1]>> \in Seq(Graph)
        BY <1>1
      <3> QED BY <3>1
    <2>2. Len(x) = 1 /\ x[1] = f[1]
      BY <2>1
    <2>3. /\ x \o y \in Seq(Graph) /\ Len(x \o y) = Len(f)
          /\ (x \o y)[1] = x[1]
          /\ \A i \in 1 .. Len(f) - 1 : (x \o y)[1 + i] = y[i]
      <3>1. 1 \in 1 .. Len(x)
        BY <2>2
      <3>2. (x \o y)[1] = x[1]
        BY <3>1, ConcatEntries
      <3>3. Len(x \o y) = Len(x) + Len(y)
        BY ConcatEntries
      <3>4. Len(x) + Len(y) = Len(f)
        BY <1>1, <1>3, <2>2
      <3> QED BY <1>3, <2>2, <3>2, <3>3, <3>4, ConcatEntries
    <2>4. ASSUME NEW i \in 1 .. Len(f)
          PROVE  f[i] = (x \o y)[i]
      <3>1. CASE i = 1
        BY <2>2, <2>3, <3>1
      <3>2. CASE i # 1
        <4>1. i - 1 \in 1 .. Len(f) - 1 /\ 1 + (i - 1) = i /\ (i - 1) + 1 = i
          BY <1>1, <3>2
        <4> QED BY <1>3, <2>3, <4>1
      <3> QED BY <3>1, <3>2
    <2> QED BY <1>1, <2>1, <2>3, <2>4, GraphSeqEqual
  <1> QED BY <1>1, <1>2, <1>3

\* The n entries furthest ahead may be forgotten.
CutAhead(t, s, c) == \E n \in 0 .. Len(s) - c : t = SubSeq(s, 1, Len(s) - n)

\* What undo makes of a history.
LEMMA UndoFields ==
    ASSUME NEW h \in History(Graph), h.last \in Graph, CanUndo(h), NEW r, r = Undo(h)
    PROVE  /\ r \in History(Graph) /\ r.past = SubSeq(h.past, 1, Len(h.past) - 1)
           /\ r.future = Nearest(<<h.last>> \o h.future, HistoryLimit)
           /\ r.last = UndoTarget(h) /\ r.last \in Graph
           /\ r.held = NoGraph /\ r.restoring
  <1>1. h.past \in Seq(Graph) /\ h.past # <<>> /\ h.future \in Seq(Graph)
    BY DEF History, CanUndo
  <1>2. <<h.last>> \o h.future \in Seq(Graph) /\ <<h.last>> \o h.future # <<>>
    <2>1. ASSUME NEW g \in Graph, NEW f \in Seq(Graph)
          PROVE  <<g>> \o f \in Seq(Graph) /\ <<g>> \o f # <<>>
      <3>1. <<g>> \in Seq(Graph) /\ Len(<<g>>) = 1
        OBVIOUS
      <3>2. <<g>> \o f \in Seq(Graph) /\ Len(<<g>> \o f) = 1 + Len(f)
        BY <3>1, ConcatEntries
      <3> QED BY <3>2
    <2> QED BY <1>1, <2>1
  <1>3. ASSUME NEW a \in Seq(Graph), a # <<>>
        PROVE  Nearest(a, HistoryLimit) \in Seq(Graph)
    <2>1. PICK k \in 1 .. Len(a) : Nearest(a, HistoryLimit) = SubSeq(a, 1, k)
      BY <1>3, LimitsAssumption, NearestIsPrefix
    <2>2. 1 \in 1 .. Len(a) + 1 /\ k \in 1 - 1 .. Len(a)
      OBVIOUS
    <2> QED BY <2>1, <2>2, SubSeqEntries
  <1>4. /\ SubSeq(h.past, 1, Len(h.past) - 1) \in Seq(Graph)
        /\ UndoTarget(h) \in Graph
    BY <1>1, LastEntry DEF UndoTarget
  <1>5. Nearest(<<h.last>> \o h.future, HistoryLimit) \in Seq(Graph)
    BY <1>2, <1>3
  <1> QED BY <1>4, <1>5 DEF Undo, History

\* Undo goes one entry back on the line.
LEMMA UndoLine ==
    ASSUME NEW h \in History(Graph), h.last \in Graph, CanUndo(h), NEW r, r = Undo(h)
    PROVE  /\ Cursor(h) > 1 /\ Cursor(r) = Cursor(h) - 1
           /\ Line(h)[Cursor(h) - 1] = UndoTarget(h)
           /\ CutAhead(Line(r), Line(h), Cursor(h))
  <1>1. h.past \in Seq(Graph) /\ h.past # <<>> /\ h.future \in Seq(Graph)
    BY DEF History, CanUndo
  <1>2. ASSUME NEW p \in Seq(Graph), p = h.past, NEW q \in Seq(Graph), q = r.past,
               NEW a \in Seq(Graph), a = <<h.last>> \o h.future,
               NEW x \in Graph, x = r.last, NEW b \in Seq(Graph), b = r.future
        PROVE  /\ Cursor(h) > 1 /\ Cursor(r) = Cursor(h) - 1
               /\ Line(h)[Cursor(h) - 1] = UndoTarget(h)
               /\ \E n \in 0 .. Len(Line(h)) - Cursor(h) :
                     Line(r) = SubSeq(Line(h), 1, Len(Line(h)) - n)
    <2>1. /\ q = SubSeq(p, 1, Len(p) - 1) /\ b = Nearest(a, HistoryLimit)
          /\ x = p[Len(p)] /\ UndoTarget(h) = x
      BY <1>2, UndoFields DEF UndoTarget
    <2>2. Len(p) \in Nat \ {0} /\ Len(q) = Len(p) - 1 /\ p = q \o <<x>>
      BY <1>1, <1>2, <2>1, LastEntry
    <2>3. Cursor(h) = Len(p) + 1 /\ Cursor(r) = Len(q) + 1
      BY <1>2 DEF Cursor
    <2>4. Line(h) = p \o a
      BY <1>2, LineParts
    <2>5. Line(r) = p \o b
      BY <1>2, <2>2 DEF Line
    <2>6. Len(a) \in Nat \ {0}
      <3>1. <<h.last>> \in Seq(Graph) /\ Len(<<h.last>>) = 1
        OBVIOUS
      <3>2. Len(a) = 1 + Len(h.future) /\ Len(h.future) \in Nat
        BY <1>1, <1>2, <3>1, ConcatEntries
      <3> QED BY <3>2
    <2>7. Len(Line(h)) = Len(p) + Len(a) /\ Line(h)[Len(p)] = p[Len(p)]
      BY <2>2, <2>4, ConcatEntries
    <2>8. PICK k \in 1 .. Len(a) : b = SubSeq(a, 1, k)
      <3>1. a # <<>>
        BY <2>6
      <3> QED BY <2>1, <3>1, LimitsAssumption, NearestIsPrefix
    <2>9. SubSeq(p \o a, 1, Len(p) + k) = p \o b
      BY <2>6, <2>8, CutConcat
    <2>10. ASSUME NEW n, n = Len(a) - k
           PROVE  /\ n \in 0 .. Len(Line(h)) - Cursor(h)
                  /\ Len(Line(h)) - n = Len(p) + k
      BY <2>2, <2>3, <2>6, <2>7, <2>10
    <2>11. \E n \in 0 .. Len(Line(h)) - Cursor(h) :
              Line(r) = SubSeq(Line(h), 1, Len(Line(h)) - n)
      BY <2>4, <2>5, <2>9, <2>10
    <2>12. Cursor(h) > 1 /\ Cursor(r) = Cursor(h) - 1 /\ Cursor(h) - 1 = Len(p)
      BY <2>2, <2>3
    <2> QED BY <2>1, <2>7, <2>11, <2>12
  <1>3. /\ r.past \in Seq(Graph) /\ r.last \in Graph /\ r.future \in Seq(Graph)
    BY UndoFields DEF History
  <1>4. <<h.last>> \o h.future \in Seq(Graph)
    <2>1. <<h.last>> \in Seq(Graph)
      OBVIOUS
    <2> QED BY <1>1, <2>1, ConcatEntries
  <1>5. /\ Cursor(h) > 1 /\ Cursor(r) = Cursor(h) - 1
        /\ Line(h)[Cursor(h) - 1] = UndoTarget(h)
        /\ \E n \in 0 .. Len(Line(h)) - Cursor(h) :
              Line(r) = SubSeq(Line(h), 1, Len(Line(h)) - n)
    BY <1>1, <1>2, <1>3, <1>4
  <1> QED BY <1>5 DEF CutAhead

\* The cursor steps forward by one; the n oldest entries may be forgotten.
CutBehind(t, d, s, c) == \E n \in 0 .. c : t = SubSeq(s, n + 1, Len(s)) /\ d = c + 1 - n

\* What redo makes of a history.
LEMMA RedoFields ==
    ASSUME NEW h \in History(Graph), h.last \in Graph, CanRedo(h), NEW r, r = Redo(h)
    PROVE  /\ r \in History(Graph)
           /\ r.past = Newest(Append(h.past, h.last), HistoryLimit)
           /\ r.future = Tail(h.future) /\ r.last = RedoTarget(h) /\ r.last \in Graph
           /\ r.held = NoGraph /\ r.restoring
  <1>1. h.future \in Seq(Graph) /\ h.future # <<>>
    BY DEF History, CanRedo
  <1>2. ASSUME NEW a \in Seq(Graph)
        PROVE  Newest(a, HistoryLimit) \in Seq(Graph)
    <2>1. PICK n \in 0 .. Len(a) : Newest(a, HistoryLimit) = SubSeq(a, n + 1, Len(a))
      BY LimitsAssumption, NewestIsSuffix
    <2>2. n + 1 \in 1 .. Len(a) + 1 /\ Len(a) \in (n + 1) - 1 .. Len(a)
      OBVIOUS
    <2> QED BY <2>1, <2>2, SubSeqEntries
  <1>3. Newest(Append(h.past, h.last), HistoryLimit) \in Seq(Graph)
    BY <1>2, LineParts
  <1>4. Tail(h.future) \in Seq(Graph) /\ RedoTarget(h) \in Graph
    BY <1>1, FirstEntry DEF RedoTarget
  <1>5. h.last # NoGraph
    BY GraphNat
  <1> QED BY <1>3, <1>4, <1>5 DEF Redo, History

\* Redo goes one entry forward on the line.
LEMMA RedoLine ==
    ASSUME NEW h \in History(Graph), h.last \in Graph, CanRedo(h), NEW r, r = Redo(h)
    PROVE  /\ Cursor(h) < Len(Line(h)) /\ Line(h)[Cursor(h) + 1] = RedoTarget(h)
           /\ CutBehind(Line(r), Cursor(r), Line(h), Cursor(h))
  <1>1. h.future \in Seq(Graph) /\ h.future # <<>>
    BY DEF History, CanRedo
  <1>2. ASSUME NEW f \in Seq(Graph), f = h.future, NEW q \in Seq(Graph), q = r.past,
               NEW a \in Seq(Graph), a = Append(h.past, h.last),
               NEW x \in Graph, x = r.last, NEW b \in Seq(Graph), b = r.future
        PROVE  /\ Cursor(h) < Len(Line(h)) /\ Line(h)[Cursor(h) + 1] = RedoTarget(h)
               /\ \E n \in 0 .. Cursor(h) : /\ Line(r) = SubSeq(Line(h), n + 1, Len(Line(h)))
                                            /\ Cursor(r) = Cursor(h) + 1 - n
    <2>1. /\ q = Newest(a, HistoryLimit) /\ b = Tail(f)
          /\ x = Head(f) /\ RedoTarget(h) = x
      BY <1>2, RedoFields DEF RedoTarget
    <2>2. Len(f) \in Nat \ {0} /\ x = f[1] /\ f = <<x>> \o b
      BY <1>1, <1>2, <2>1, FirstEntry
    <2>3. Len(a) = Cursor(h) /\ Cursor(h) \in Nat /\ Line(h) = a \o f
      <3>1. Len(a) = Cursor(h)
        BY <1>2, LineParts
      <3>2. Line(h) = a \o f
        BY <1>2, LineParts
      <3> QED BY <3>1, <3>2
    <2>4. Cursor(r) = Len(q) + 1
      BY <1>2 DEF Cursor
    <2>5. Line(r) = q \o f
      <3>1. r \in History(Graph)
        BY RedoFields
      <3> QED BY <1>2, <2>2, <3>1, LineParts
    <2>6. 1 \in 1 .. Len(f)
      BY <2>2
    <2>7. Len(Line(h)) = Len(a) + Len(f) /\ Line(h)[Len(a) + 1] = f[1]
      <3>1. Len(a \o f) = Len(a) + Len(f)
        BY ConcatEntries
      <3>2. (a \o f)[Len(a) + 1] = f[1]
        BY <2>6, ConcatEntries
      <3> QED BY <2>3, <3>1, <3>2
    <2>8. PICK n \in 0 .. Len(a) : q = SubSeq(a, n + 1, Len(a))
      BY <2>1, LimitsAssumption, NewestIsSuffix
    <2>9. SubSeq(a \o f, n + 1, Len(a) + Len(f)) = q \o f
      BY <2>8, ForgetConcat
    <2>10. Len(q) = Len(a) - n
      <3>1. n + 1 \in 1 .. Len(a) + 1 /\ Len(a) \in (n + 1) - 1 .. Len(a)
        BY <2>3
      <3>2. Len(q) = Len(a) - (n + 1) + 1
        BY <2>8, <3>1, SubSeqEntries
      <3> QED BY <2>3, <3>2
    <2>11. Line(r) = SubSeq(Line(h), n + 1, Len(Line(h)))
      BY <2>3, <2>5, <2>7, <2>9
    <2>12. n \in 0 .. Cursor(h) /\ Cursor(r) = Cursor(h) + 1 - n
      BY <2>3, <2>4, <2>10
    <2>13. Cursor(h) < Len(Line(h)) /\ Line(h)[Cursor(h) + 1] = RedoTarget(h)
      BY <2>1, <2>2, <2>3, <2>7
    <2> QED BY <2>11, <2>12, <2>13
  <1>3. r.past \in Seq(Graph) /\ r.last \in Graph /\ r.future \in Seq(Graph)
    BY RedoFields DEF History
  <1>4. Append(h.past, h.last) \in Seq(Graph)
    BY LineParts
  <1>5. /\ Cursor(h) < Len(Line(h)) /\ Line(h)[Cursor(h) + 1] = RedoTarget(h)
        /\ \E n \in 0 .. Cursor(h) : /\ Line(r) = SubSeq(Line(h), n + 1, Len(Line(h)))
                                     /\ Cursor(r) = Cursor(h) + 1 - n
    BY <1>1, <1>2, <1>3, <1>4
  <1> QED BY <1>5 DEF CutBehind

\* What undo and redo show is another graph, and the line stays in order.
LEMMA UndoIncreasing ==
    ASSUME NEW h \in History(Graph), h.last \in Graph, CanUndo(h), NEW r, r = Undo(h),
           NEW m \in Nat, Increasing(Line(h)), Old(Line(h), m)
    PROVE  /\ UndoTarget(h) < Restore(h.last) /\ UndoTarget(h) <= m
           /\ Increasing(Line(r)) /\ Old(Line(r), m)
  <1>1. ASSUME NEW s \in Seq(Graph), s = Line(h), NEW k \in Nat, k = Cursor(h)
        PROVE  /\ UndoTarget(h) < Restore(h.last) /\ UndoTarget(h) <= m
               /\ Increasing(Line(r)) /\ Old(Line(r), m)
    <2>1. /\ k > 1 /\ s[k - 1] = UndoTarget(h) /\ s[k] = h.last
          /\ k \in DOMAIN s /\ Len(s) \in Nat /\ DOMAIN s = 1 .. Len(s)
      BY <1>1, UndoLine, LineEntries
    <2>2. k - 1 \in DOMAIN s /\ k - 1 < k
      BY <2>1
    <2>3. UndoTarget(h) < Restore(h.last) /\ UndoTarget(h) <= m
      BY <1>1, <2>1, <2>2 DEF Increasing, Old
    <2>4. PICK n \in 0 .. Len(s) - k : Line(r) = SubSeq(s, 1, Len(s) - n)
      <3>1. CutAhead(Line(r), s, k)
        BY <1>1, UndoLine
      <3> QED BY <3>1 DEF CutAhead
    <2>5. 1 \in 1 .. Len(s) + 1 /\ Len(s) - n \in 1 - 1 .. Len(s)
      BY <2>1
    <2>6. Increasing(Line(r)) /\ Old(Line(r), m)
      BY <1>1, <2>4, <2>5, SubSeqIncreasing
    <2> QED BY <2>3, <2>6
  <1>2. Line(h) \in Seq(Graph) /\ Cursor(h) \in Nat
    BY LineEntries
  <1> QED BY <1>1, <1>2

\* So does redo.
LEMMA RedoIncreasing ==
    ASSUME NEW h \in History(Graph), h.last \in Graph, CanRedo(h), NEW r, r = Redo(h),
           NEW m \in Nat, Increasing(Line(h)), Old(Line(h), m)
    PROVE  /\ h.last < Restore(RedoTarget(h)) /\ RedoTarget(h) <= m
           /\ Increasing(Line(r)) /\ Old(Line(r), m)
  <1>1. ASSUME NEW s \in Seq(Graph), s = Line(h), NEW k \in Nat, k = Cursor(h)
        PROVE  /\ h.last < Restore(RedoTarget(h)) /\ RedoTarget(h) <= m
               /\ Increasing(Line(r)) /\ Old(Line(r), m)
    <2>1. /\ k < Len(s) /\ s[k + 1] = RedoTarget(h) /\ s[k] = h.last
          /\ k \in DOMAIN s /\ Len(s) \in Nat /\ DOMAIN s = 1 .. Len(s)
      BY <1>1, RedoLine, LineEntries
    <2>2. k + 1 \in DOMAIN s /\ k < k + 1
      BY <2>1
    <2>3. h.last < Restore(RedoTarget(h)) /\ RedoTarget(h) <= m
      BY <1>1, <2>1, <2>2 DEF Increasing, Old
    <2>4. PICK n \in 0 .. k : Line(r) = SubSeq(s, n + 1, Len(s))
      <3>1. CutBehind(Line(r), Cursor(r), s, k)
        BY <1>1, RedoLine
      <3> QED BY <3>1 DEF CutBehind
    <2>5. n + 1 \in 1 .. Len(s) + 1 /\ Len(s) \in (n + 1) - 1 .. Len(s)
      BY <2>1
    <2>6. Increasing(Line(r)) /\ Old(Line(r), m)
      BY <1>1, <2>4, <2>5, SubSeqIncreasing
    <2> QED BY <2>3, <2>6
  <1>2. Line(h) \in Seq(Graph) /\ Cursor(h) \in Nat
    BY LineEntries
  <1> QED BY <1>1, <1>2

-----------------------------------------------------------------------------
(* What is restored takes the place of its entry                           *)

\* An entry becomes what can be restored of it.
At(s, i) == [s EXCEPT ![i] = Restore(s[i])]

\* The line stays in order.
LEMMA AtEntries ==
    ASSUME NEW s \in Seq(Graph), NEW i \in 1 .. Len(s)
    PROVE  /\ At(s, i) \in Seq(Graph) /\ Len(At(s, i)) = Len(s)
           /\ At(s, i)[i] = Restore(s[i])
           /\ \A j \in 1 .. Len(s) : j # i => At(s, i)[j] = s[j]
           /\ \A j \in 1 .. Len(s) : /\ At(s, i)[j] <= s[j]
                                     /\ Restore(At(s, i)[j]) = Restore(s[j])
  <1>1. Len(s) \in Nat /\ \A j \in 1 .. Len(s) : s[j] \in Graph
    OBVIOUS
  <1>2. PICK g \in Graph : g = Restore(s[i])
    BY <1>1, RestoreFacts
  <1>3. PICK t : t = [s EXCEPT ![i] = g]
    OBVIOUS
  <1>4. /\ t \in Seq(Graph) /\ Len(t) = Len(s) /\ t[i] = g
        /\ \A j \in 1 .. Len(s) : j # i => t[j] = s[j]
    BY <1>1, <1>3
  <1>5. t = At(s, i)
    BY <1>2, <1>3 DEF At
  <1>6. ASSUME NEW j \in 1 .. Len(s)
        PROVE  t[j] <= s[j] /\ Restore(t[j]) = Restore(s[j])
    <2>1. PICK e \in Graph : e = s[j]
      BY <1>1
    <2>2. Restore(e) <= e /\ e <= e /\ Restore(Restore(e)) = Restore(e)
      BY RestoreFacts
    <2>3. t[j] = Restore(e) \/ t[j] = e
      BY <1>2, <1>4, <2>1
    <2> QED BY <2>1, <2>2, <2>3
  <1> QED BY <1>2, <1>4, <1>5, <1>6

LEMMA AtIncreasing ==
    ASSUME NEW s \in Seq(Graph), NEW i \in 1 .. Len(s), NEW m \in Nat,
           Increasing(s), Old(s, m)
    PROVE  Increasing(At(s, i)) /\ Old(At(s, i), m)
  <1>1. PICK t \in Seq(Graph) : t = At(s, i)
    BY AtEntries
  <1>2. /\ DOMAIN t = 1 .. Len(s) /\ DOMAIN s = 1 .. Len(s)
        /\ \A j \in 1 .. Len(s) : t[j] <= s[j] /\ Restore(t[j]) = Restore(s[j])
    BY <1>1, AtEntries
  <1>3. \A j \in 1 .. Len(s) : t[j] \in Nat /\ s[j] \in Nat /\ Restore(s[j]) \in Nat
    <2>1. \A j \in 1 .. Len(s) : t[j] \in Graph /\ s[j] \in Graph
      BY <1>2
    <2> QED BY <2>1, RestoreFacts
  <1>4. ASSUME NEW j \in DOMAIN t, NEW k \in DOMAIN t, j < k
        PROVE  t[j] < Restore(t[k])
    <2>1. s[j] < Restore(s[k])
      BY <1>2, <1>4 DEF Increasing
    <2> QED BY <1>2, <1>3, <2>1
  <1>5. Old(t, m)
    BY <1>2, <1>3 DEF Old
  <1> QED BY <1>1, <1>4, <1>5 DEF Increasing

\* Cutting a sequence commutes with it.
LEMMA AtSubSeq ==
    ASSUME NEW s \in Seq(Graph), NEW a \in Nat, NEW b \in Nat, NEW i \in Nat, NEW j \in Nat,
           1 <= a, a <= i, i <= b, b <= Len(s), j = i - a + 1
    PROVE  At(SubSeq(s, a, b), j) = SubSeq(At(s, i), a, b)
  <1>1. /\ Len(s) \in Nat /\ b - a + 1 \in Nat
        /\ i \in 1 .. Len(s) /\ j \in 1 .. b - a + 1 /\ a + j - 1 = i
        /\ a \in 1 .. Len(s) + 1 /\ b \in a - 1 .. Len(s)
    OBVIOUS
  <1>2. PICK t \in Seq(Graph) : t = At(s, i)
    BY <1>1, AtEntries
  <1>3. Len(t) = Len(s)
    BY <1>1, <1>2, AtEntries
  <1>4. PICK x \in Seq(Graph) : x = SubSeq(s, a, b)
    BY <1>1, SubSeqEntries
  <1>5. Len(x) = b - a + 1 /\ \A l \in 1 .. b - a + 1 : x[l] = s[a + l - 1]
    BY <1>1, <1>4, SubSeqEntries
  <1>6. PICK y \in Seq(Graph) : y = SubSeq(t, a, b)
    BY <1>1, <1>3, SubSeqEntries
  <1>7. Len(y) = b - a + 1 /\ \A l \in 1 .. b - a + 1 : y[l] = t[a + l - 1]
    BY <1>1, <1>3, <1>6, SubSeqEntries
  <1>8. PICK z \in Seq(Graph) : z = At(x, j)
    BY <1>1, <1>5, AtEntries
  <1>9. /\ Len(z) = b - a + 1 /\ z[j] = Restore(x[j])
        /\ \A l \in 1 .. b - a + 1 : l # j => z[l] = x[l]
    <2>1. j \in 1 .. Len(x) /\ Len(x) = b - a + 1
      BY <1>1, <1>5
    <2>2. /\ Len(At(x, j)) = Len(x) /\ At(x, j)[j] = Restore(x[j])
          /\ \A l \in 1 .. Len(x) : l # j => At(x, j)[l] = x[l]
      BY <2>1, AtEntries
    <2> QED BY <1>8, <2>1, <2>2, Zenon
  <1>10. ASSUME NEW l \in 1 .. b - a + 1
         PROVE  z[l] = y[l]
    <2>1. a + l - 1 \in 1 .. Len(s)
      BY <1>1
    <2>2. CASE l = j
      <3>1. t[i] = Restore(s[i])
        BY <1>1, <1>2, AtEntries
      <3>2. y[l] = t[i] /\ x[j] = s[i]
        BY <1>1, <1>5, <1>7, <2>2
      <3> QED BY <1>9, <2>2, <3>1, <3>2
    <2>3. CASE l # j
      <3>1. a + l - 1 # i
        <4>1. l \in Int /\ j \in Int /\ a \in Int /\ a + j - 1 = i
          BY <1>1
        <4> QED BY <2>3, <4>1
      <3>2. t[a + l - 1] = s[a + l - 1]
        BY <1>1, <1>2, <2>1, <3>1, AtEntries
      <3> QED BY <1>5, <1>7, <1>9, <2>3, <3>2
    <2> QED BY <2>2, <2>3
  <1>11. z = y
    BY <1>1, <1>7, <1>9, <1>10, GraphSeqEqual
  <1> QED BY <1>2, <1>4, <1>6, <1>8, <1>11

\* The history effect after undo and redo: what is shown is the entry.
LEMMA LineRestored ==
    ASSUME NEW d \in History(Graph), d.last \in Graph,
           NEW r \in History(Graph), r.past = d.past, r.future = d.future,
           r.last = Restore(d.last)
    PROVE  Line(r) = At(Line(d), Cursor(d)) /\ Cursor(r) = Cursor(d)
  <1>1. PICK c \in Nat \ {0}, s \in Seq(Graph), t \in Seq(Graph) :
           c = Cursor(d) /\ s = Line(d) /\ t = Line(r)
    BY RestoreFacts, LineEntries
  <1>2. Cursor(r) = c
    BY <1>1 DEF Cursor
  <1>3. /\ r.last \in Graph /\ d.past \in Seq(Graph) /\ d.future \in Seq(Graph)
        /\ Len(d.past) = c - 1 /\ Len(d.future) \in Nat
    BY <1>1, RestoreFacts DEF History, Cursor
  <1>4. /\ Len(s) = c + Len(d.future) /\ Len(t) = c + Len(d.future)
        /\ s[c] = d.last /\ t[c] = Restore(d.last)
    BY <1>1, <1>2, <1>3, LineEntries
  <1>5. ASSUME NEW i \in 1 .. c + Len(d.future), i # c
        PROVE  t[i] = s[i]
    <2>1. PICK x \in Seq(Graph), y \in Seq(Graph), f \in Seq(Graph) :
             /\ x = Append(d.past, d.last) /\ y = Append(d.past, r.last)
             /\ f = d.future
      <3>1. Append(d.past, d.last) \in Seq(Graph) /\ Append(d.past, r.last) \in Seq(Graph)
        BY <1>3
      <3> QED BY <1>3, <3>1
    <2>2. /\ Len(x) = c /\ Len(y) = c
          /\ \A j \in 1 .. c - 1 : x[j] = y[j]
      BY <1>3, <2>1
    <2>3. s = x \o f /\ t = y \o f
      BY <1>1, <1>3, <2>1, LineParts
    <2>4. CASE i \in 1 .. c
      <3>1. i \in 1 .. c - 1
        BY <1>5, <2>4
      <3>2. s[i] = x[i] /\ t[i] = y[i]
        BY <2>2, <2>3, <2>4, ConcatEntries
      <3> QED BY <2>2, <3>1, <3>2
    <2>5. CASE i \notin 1 .. c
      <3>1. PICK j \in 1 .. Len(f) : i = c + j
        <4>1. i - c \in 1 .. Len(f) /\ i = c + (i - c)
          BY <1>3, <2>1, <2>5
        <4> QED BY <4>1
      <3>2. s[c + j] = f[j] /\ t[c + j] = f[j]
        BY <2>2, <2>3, <3>1, ConcatEntries
      <3> QED BY <3>1, <3>2
    <2> QED BY <2>4, <2>5
  <1>6. PICK w \in Seq(Graph) : w = At(s, c)
    BY <1>1, <1>3, <1>4, AtEntries
  <1>7. /\ Len(w) = Len(s) /\ w[c] = Restore(s[c])
        /\ \A i \in 1 .. Len(s) : i # c => w[i] = s[i]
    <2>1. c \in 1 .. Len(s)
      BY <1>3, <1>4
    <2> QED BY <1>6, <2>1, AtEntries
  <1>8. t = w
    <2>1. PICK n \in Nat : n = c + Len(d.future)
      BY <1>3
    <2>2. ASSUME NEW i \in 1 .. n
          PROVE  t[i] = w[i]
      BY <1>4, <1>5, <1>7, <2>1
    <2>3. Len(t) = n /\ Len(w) = n
      BY <1>4, <1>7, <2>1
    <2> QED BY <2>1, <2>2, <2>3, GraphSeqEqual
  <1> QED BY <1>1, <1>2, <1>6, <1>8

\* Undo steps back by one, redo forward, onto what is restored there.
Undone(t, s, c) == CutAhead(t, At(s, c - 1), c)
Redone(t, d, s, c) == CutBehind(t, d, At(s, c + 1), c)

-----------------------------------------------------------------------------
(* A history and the page it belongs to                                    *)

\* What the history h records when the page shows g.  An edit that is not
\* recorded yet is held, and newer than all that is: the panel is open.  While
\* a version is hydrated, nothing before it can be undone.
Tidy(h, g, hydrating, panel, n) ==
    /\ h.last \in Graph /\ ~h.restoring
    /\ h.held \in {NoGraph, g}
    /\ h.held # NoGraph => panel
    /\ g # h.last => h.held = g
    /\ hydrating => h.past = <<>> /\ h.future = <<>> /\ h.held = NoGraph
    /\ Increasing(Line(h)) /\ Old(Line(h), n)
    /\ g = h.last \/ Newer(g, Line(h))

\* The steps of the abstract timeline, between two histories.
Walked(h, r, g) ==
    \/ Line(r) = Line(h) /\ Cursor(r) = Cursor(h)
    \/ Recorded(Line(r), Line(h), Cursor(h), g) /\ Cursor(r) = Len(Line(r))
    \/ /\ Cursor(h) > 1 /\ Cursor(r) = Cursor(h) - 1
       /\ g = Restore(Line(h)[Cursor(h) - 1])
       /\ Undone(Line(r), Line(h), Cursor(h))
    \/ /\ Cursor(h) < Len(Line(h)) /\ g = Restore(Line(h)[Cursor(h) + 1])
       /\ Redone(Line(r), Cursor(r), Line(h), Cursor(h))
    \/ Line(r) = <<g>> /\ Cursor(r) = 1

\* The line is what past, last and future say.
LEMMA LineSame ==
    ASSUME NEW h, NEW r, r.past = h.past, r.last = h.last, r.future = h.future
    PROVE  Line(r) = Line(h) /\ Cursor(r) = Cursor(h)
  BY DEF Line, Cursor

\* What lies on the line is older than the page may show.
LEMMA OldIsNewer ==
    ASSUME NEW s \in Seq(Graph), NEW n \in Nat, Old(s, n), n + 2 \in Graph
    PROVE  Newer(n + 2, s)
  <1>1. \A i \in DOMAIN s : s[i] \in Nat /\ s[i] <= n
    <2>1. \A i \in DOMAIN s : s[i] \in Graph
      OBVIOUS
    <2> QED BY <2>1, GraphNat DEF Old
  <1>2. Restore(n + 2) \in Nat /\ n + 2 <= Restore(n + 2) + 1
    BY RestoreFacts
  <1> QED BY <1>1, <1>2 DEF Newer

\* What is old stays old.
LEMMA OldGrows ==
    ASSUME NEW s \in Seq(Graph), NEW m \in Nat, NEW n \in Nat, m <= n, Old(s, m)
    PROVE  Old(s, n)
  <1>1. \A i \in DOMAIN s : s[i] \in Nat /\ s[i] <= m
    <2>1. \A i \in DOMAIN s : s[i] \in Graph
      OBVIOUS
    <2> QED BY <2>1, GraphNat DEF Old
  <1> QED BY <1>1 DEF Old

\* A tidy history stays tidy when graphs are made.
LEMMA TidyGrows ==
    ASSUME NEW h \in History(Graph), NEW g \in Graph, NEW hydrating \in BOOLEAN,
           NEW panel \in BOOLEAN, NEW n \in Nat, NEW m \in Nat, n <= m,
           Tidy(h, g, hydrating, panel, n)
    PROVE  Tidy(h, g, hydrating, panel, m)
  <1>1. Line(h) \in Seq(Graph) /\ Old(Line(h), n)
    BY LineEntries DEF Tidy
  <1>2. Old(Line(h), m)
    BY <1>1, OldGrows
  <1> QED BY <1>2 DEF Tidy

\* A loaded graph is alone on its line.
LEMMA TidyReset ==
    ASSUME NEW g \in Graph, NEW n \in Nat, g <= n, NEW r \in History(Graph),
           r.past = <<>>, r.future = <<>>, r.last = g, r.held = NoGraph, ~r.restoring,
           NEW hydrating \in BOOLEAN, NEW panel \in BOOLEAN, NEW h
    PROVE  Tidy(r, g, hydrating, panel, n) /\ Walked(h, r, g)
  <1>1. Line(r) = <<g>> /\ Cursor(r) = 1
    BY LineReset
  <1>2. Increasing(<<g>>) /\ Old(<<g>>, n)
    BY GraphNat DEF Increasing, Old
  <1> QED BY <1>1, <1>2 DEF Tidy, Walked

\* A history that is reset is one.
LEMMA ResetType ==
    ASSUME NEW g \in Graph
    PROVE  Reset(g) \in History(Graph)
  <1>1. <<>> \in Seq(Graph)
    OBVIOUS
  <1> QED BY <1>1 DEF Reset, History

\* An edit while a version is hydrated counts as part of it.
LEMMA TidyHydrating ==
    ASSUME NEW h \in History(Graph), NEW g \in Graph, NEW k \in Graph,
           NEW m \in Nat, k <= m, NEW panel \in BOOLEAN,
           Tidy(h, g, TRUE, panel, m), NEW r, r = Observe(h, k, TRUE, panel)
    PROVE  r \in History(Graph) /\ Tidy(r, k, FALSE, panel, m) /\ Walked(h, r, k)
  <1>1. r = [h EXCEPT !.last = k, !.held = NoGraph]
    BY DEF Observe
  <1>2. h.past = <<>> /\ h.future = <<>> /\ ~h.restoring
    BY DEF Tidy
  <1>3. r \in History(Graph) /\ r.past = h.past /\ r.future = h.future
        /\ r.last = k /\ r.held = NoGraph /\ r.restoring = h.restoring
    BY <1>1 DEF History
  <1> QED BY <1>2, <1>3, TidyReset

\* What is hydrated is observed without effect.
LEMMA TidyHydrated ==
    ASSUME NEW h \in History(Graph), NEW g \in Graph, NEW n \in Nat,
           NEW panel \in BOOLEAN, NEW after \in BOOLEAN,
           Tidy(h, g, TRUE, panel, n), NEW r, r = Observe(h, g, TRUE, after)
    PROVE  r \in History(Graph) /\ Tidy(r, g, TRUE, after, n) /\ Walked(h, r, g)
  <1>1. r = [h EXCEPT !.last = g, !.held = NoGraph]
    BY DEF Observe
  <1>2. h.past = <<>> /\ h.future = <<>> /\ ~h.restoring /\ h.last = g /\ h.held = NoGraph
    BY GraphNat DEF Tidy
  <1>3. r = h
    BY <1>1, <1>2 DEF History
  <1> QED BY <1>2, <1>3 DEF Tidy, Walked

\* With the panel open, what is shown is held.
Drawn(k, g, h) == k = g \/ Newer(k, Line(h))

\* An edit, or the same graph, with the panel open.
LEMMA TidyDraw ==
    ASSUME NEW h \in History(Graph), NEW g \in Graph, NEW k \in Graph,
           NEW m \in Nat, NEW panel \in BOOLEAN, Drawn(k, g, h),
           Tidy(h, g, FALSE, panel, m), NEW r, r = Observe(h, k, FALSE, TRUE)
    PROVE  r \in History(Graph) /\ Tidy(r, k, FALSE, TRUE, m) /\ Walked(h, r, k)
  <1>1. h.last \in Graph /\ ~h.restoring /\ h.last # NoGraph
    BY GraphNat DEF Tidy
  <1>2. r = [h EXCEPT !.held = k]
    BY <1>1 DEF Observe, History
  <1>3. /\ r \in History(Graph) /\ r.past = h.past /\ r.future = h.future
        /\ r.last = h.last /\ r.held = k /\ r.restoring = h.restoring
    BY <1>2 DEF History
  <1>4. Line(r) = Line(h) /\ Cursor(r) = Cursor(h)
    BY <1>3, LineSame
  <1>5. Increasing(Line(h)) /\ Old(Line(h), m)
    BY DEF Tidy
  <1>6. k = h.last \/ Newer(k, Line(h))
    BY DEF Tidy, Drawn
  <1> QED BY <1>1, <1>3, <1>4, <1>5, <1>6 DEF Tidy, Walked

\* A new graph is recorded.
LEMMA TidyRecord ==
    ASSUME NEW h \in History(Graph), NEW g \in Graph, NEW m \in Nat, g <= m,
           h.last \in Graph, ~h.restoring, Increasing(Line(h)), Old(Line(h), m),
           Newer(g, Line(h)), NEW limit \in Nat, NEW r, r = Record(h, g, limit),
           NEW panel \in BOOLEAN
    PROVE  r \in History(Graph) /\ Tidy(r, g, FALSE, panel, m) /\ Walked(h, r, g)
  <1>1. g # h.last /\ Increasing(Line(r)) /\ Old(Line(r), m)
    BY RecordIncreasing
  <1>2. r \in History(Graph) /\ r.last = g /\ r.held = NoGraph /\ ~r.restoring
    BY <1>1, RecordFields
  <1>3. Cursor(r) = Len(Line(r)) /\ Recorded(Line(r), Line(h), Cursor(h), g)
    BY <1>1, RecordLine
  <1> QED BY <1>1, <1>2, <1>3 DEF Tidy, Walked

\* What was shown before is not recorded again.
LEMMA TidyKeep ==
    ASSUME NEW h \in History(Graph), NEW g \in Graph, NEW m \in Nat,
           h.last = g, ~h.restoring, Increasing(Line(h)), Old(Line(h), m),
           NEW limit \in Nat, NEW r, r = Record(h, g, limit), NEW panel \in BOOLEAN
    PROVE  r \in History(Graph) /\ Tidy(r, g, FALSE, panel, m) /\ Walked(h, r, g)
  <1>1. r = [h EXCEPT !.held = NoGraph]
    BY DEF Record
  <1>2. /\ r \in History(Graph) /\ r.past = h.past /\ r.future = h.future
        /\ r.last = h.last /\ r.held = NoGraph /\ r.restoring = h.restoring
    BY <1>1 DEF History
  <1>3. Line(r) = Line(h) /\ Cursor(r) = Cursor(h)
    BY <1>2, LineSame
  <1> QED BY <1>2, <1>3 DEF Tidy, Walked

\* An edit on the canvas, with the panel closed.
LEMMA TidyEdit ==
    ASSUME NEW h \in History(Graph), NEW g \in Graph, NEW k \in Graph,
           NEW m \in Nat, k <= m, Newer(k, Line(h)),
           Tidy(h, g, FALSE, FALSE, m), NEW r, r = Observe(h, k, FALSE, FALSE)
    PROVE  r \in History(Graph) /\ Tidy(r, k, FALSE, FALSE, m) /\ Walked(h, r, k)
  <1>1. /\ h.last \in Graph /\ ~h.restoring /\ h.last # NoGraph /\ h.held = NoGraph
        /\ Increasing(Line(h)) /\ Old(Line(h), m)
    BY GraphNat DEF Tidy
  <1>2. r = Record(h, k, HistoryLimit)
    BY <1>1 DEF Observe
  <1> QED BY <1>1, <1>2, TidyRecord, LimitsAssumption

\* The panel closes: what was held is recorded, if it is new.
LEMMA TidyClose ==
    ASSUME NEW h \in History(Graph), NEW g \in Graph, NEW n \in Nat, g <= n,
           Tidy(h, g, FALSE, TRUE, n), NEW r, r = Observe(h, g, FALSE, FALSE)
    PROVE  r \in History(Graph) /\ Tidy(r, g, FALSE, FALSE, n) /\ Walked(h, r, g)
  <1>1. /\ h.last \in Graph /\ ~h.restoring /\ h.last # NoGraph
        /\ h.held = NoGraph \/ h.held = g
        /\ Increasing(Line(h)) /\ Old(Line(h), n)
        /\ g = h.last \/ Newer(g, Line(h))
    BY GraphNat DEF Tidy
  <1>2. r = Record(h, g, HistoryLimit)
    BY <1>1 DEF Observe
  <1> QED BY <1>1, <1>2, TidyRecord, TidyKeep, LimitsAssumption

\* A drag that ends with the panel open is recorded, if it is new.
LEMMA TidyDragStop ==
    ASSUME NEW h \in History(Graph), NEW g \in Graph, NEW n \in Nat, g <= n,
           NEW hydrating \in BOOLEAN, NEW panel \in BOOLEAN, h.held # NoGraph,
           Tidy(h, g, hydrating, panel, n), NEW r, r = DragStop(h)
    PROVE  /\ r \in History(Graph) /\ hydrating = FALSE
           /\ Tidy(r, g, hydrating, panel, n) /\ Walked(h, r, g)
  <1>1. /\ h.last \in Graph /\ ~h.restoring /\ h.held = g /\ hydrating = FALSE
        /\ Increasing(Line(h)) /\ Old(Line(h), n)
        /\ g = h.last \/ Newer(g, Line(h))
    BY GraphNat DEF Tidy
  <1>2. r = Record(h, g, DragLimit)
    BY <1>1 DEF DragStop
  <1> QED BY <1>1, <1>2, TidyRecord, TidyKeep, LimitsAssumption

\* Undo and redo, once their effects have run.  A version that is hydrated has
\* nothing to undo or to redo.
Restored(h, d, r, g, k, n) ==
    /\ k \in Graph /\ k # g /\ k <= n
    /\ d \in History(Graph) /\ r \in History(Graph)
    /\ Tidy(r, k, FALSE, FALSE, n) /\ Walked(h, r, k)

\* The effect that observes what was restored.
LEMMA TidyRestored ==
    ASSUME NEW d \in History(Graph), d.last \in Graph, d.held = NoGraph, d.restoring,
           NEW n \in Nat, Increasing(Line(d)), Old(Line(d), n),
           NEW k, k = Restore(d.last), NEW r, r = Observe(d, k, FALSE, FALSE)
    PROVE  /\ k \in Graph /\ k <= n
           /\ r \in History(Graph) /\ Tidy(r, k, FALSE, FALSE, n)
           /\ Line(r) = At(Line(d), Cursor(d)) /\ Cursor(r) = Cursor(d)
  <1>1. k \in Graph /\ k <= d.last /\ k \in Nat /\ d.last \in Nat
    BY RestoreFacts, GraphNat
  <1>2. r = [d EXCEPT !.restoring = FALSE, !.last = k, !.held = NoGraph]
    BY DEF Observe
  <1>3. /\ r \in History(Graph) /\ r.past = d.past /\ r.future = d.future
        /\ r.last = k /\ r.held = NoGraph /\ ~r.restoring
    BY <1>1, <1>2 DEF History
  <1>4. Line(r) = At(Line(d), Cursor(d)) /\ Cursor(r) = Cursor(d)
    BY <1>3, LineRestored
  <1>5. Line(d) \in Seq(Graph) /\ Cursor(d) \in 1 .. Len(Line(d)) /\ Line(d)[Cursor(d)] = d.last
        /\ Cursor(d) \in DOMAIN Line(d)
    BY LineEntries
  <1>6. Increasing(Line(r)) /\ Old(Line(r), n)
    BY <1>4, <1>5, AtIncreasing
  <1>7. k <= n
    BY <1>1, <1>5 DEF Old
  <1> QED BY <1>1, <1>3, <1>4, <1>6, <1>7 DEF Tidy

\* Undo, with the effect that observes it.
LEMMA TidyUndo ==
    ASSUME NEW h \in History(Graph), NEW g \in Graph, NEW n \in Nat,
           NEW hydrating \in BOOLEAN, NEW panel \in BOOLEAN, CanUndo(h),
           Tidy(h, g, hydrating, panel, n), NEW k, k = Restore(UndoTarget(h)),
           NEW r, r = Observe(Undo(h), k, FALSE, FALSE)
    PROVE  hydrating = FALSE /\ Restored(h, Undo(h), r, g, k, n)
  <1>1. /\ h.last \in Graph /\ h.last # NoGraph /\ hydrating = FALSE
        /\ Increasing(Line(h)) /\ Old(Line(h), n)
        /\ g = h.last \/ Newer(g, Line(h))
    BY GraphNat DEF Tidy, CanUndo
  <1>2. PICK d \in History(Graph) : d = Undo(h)
    BY <1>1, UndoFields
  <1>3. /\ d.last = UndoTarget(h) /\ d.last \in Graph /\ d.held = NoGraph /\ d.restoring
    BY <1>1, <1>2, UndoFields
  <1>4. d.last < Restore(h.last) /\ Increasing(Line(d)) /\ Old(Line(d), n)
    BY <1>1, <1>2, <1>3, UndoIncreasing
  <1>5. PICK s \in Seq(Graph), c \in Nat \ {0} : s = Line(h) /\ c = Cursor(h)
    BY <1>1, LineEntries
  <1>6. c > 1 /\ Cursor(d) = c - 1 /\ d.last = s[c - 1] /\ CutAhead(Line(d), s, c)
    BY <1>1, <1>2, <1>3, <1>5, UndoLine
  <1>7. /\ k \in Graph /\ k <= n /\ r \in History(Graph) /\ Tidy(r, k, FALSE, FALSE, n)
        /\ Line(r) = At(Line(d), Cursor(d)) /\ Cursor(r) = Cursor(d)
    BY <1>2, <1>3, <1>4, TidyRestored
  <1>8. c \in 1 .. Len(s) /\ Len(s) \in Nat
    BY <1>1, <1>5, LineEntries
  <1>9. k # g
    <2>1. c - 1 \in DOMAIN s
      BY <1>6, <1>8
    <2>2. d.last < Restore(g)
      BY <1>1, <1>4, <1>5, <1>6, <2>1 DEF Newer
    <2> QED BY <1>3, <2>2, RestoreFacts
  <1>10. Undone(Line(r), s, c)
    <2>1. PICK l \in 0 .. Len(s) - c : Line(d) = SubSeq(s, 1, Len(s) - l)
      BY <1>6 DEF CutAhead
    <2>2. /\ 1 \in 1 .. Len(s) + 1 /\ Len(s) - l \in 1 - 1 .. Len(s)
          /\ c - 1 \in 1 .. Len(s) - l /\ c - 1 = (c - 1) - 1 + 1 /\ c - 1 \in 1 .. Len(s)
      BY <1>6, <1>8
    <2>3. PICK b \in Nat, j \in Nat :
             b = Len(s) - l /\ j = c - 1 /\ 1 <= j /\ j <= b /\ b <= Len(s)
      <3>1. Len(s) - l \in Nat /\ c - 1 \in Nat
        BY <1>6, <1>8
      <3>2. 1 <= c - 1 /\ c - 1 <= Len(s) - l /\ Len(s) - l <= Len(s)
        BY <1>6, <1>8
      <3> WITNESS Len(s) - l \in Nat, c - 1 \in Nat
      <3> QED BY <3>2
    <2>4. At(SubSeq(s, 1, b), j) = SubSeq(At(s, j), 1, b)
      <3>1. 1 <= 1 /\ j = j - 1 + 1
        OBVIOUS
      <3> QED BY <2>3, <3>1, AtSubSeq
    <2>5. Line(r) = SubSeq(At(s, c - 1), 1, Len(s) - l)
      BY <1>6, <1>7, <2>1, <2>3, <2>4
    <2>6. Len(At(s, c - 1)) = Len(s)
      BY <2>2, AtEntries
    <2> QED BY <2>5, <2>6 DEF Undone, CutAhead
  <1>11. Walked(h, r, k)
    BY <1>3, <1>5, <1>6, <1>7, <1>10 DEF Walked
  <1> QED BY <1>1, <1>2, <1>7, <1>9, <1>11 DEF Restored

\* Redo, with the effect that observes it.
LEMMA TidyRedo ==
    ASSUME NEW h \in History(Graph), NEW g \in Graph, NEW n \in Nat,
           NEW hydrating \in BOOLEAN, NEW panel \in BOOLEAN, CanRedo(h),
           Tidy(h, g, hydrating, panel, n), NEW k, k = Restore(RedoTarget(h)),
           NEW r, r = Observe(Redo(h), k, FALSE, FALSE)
    PROVE  hydrating = FALSE /\ Restored(h, Redo(h), r, g, k, n)
  <1>1. /\ h.last \in Graph /\ h.last # NoGraph /\ hydrating = FALSE
        /\ Increasing(Line(h)) /\ Old(Line(h), n)
        /\ g = h.last \/ Newer(g, Line(h))
    BY GraphNat DEF Tidy, CanRedo
  <1>2. PICK d \in History(Graph) : d = Redo(h)
    BY <1>1, RedoFields
  <1>3. /\ d.last = RedoTarget(h) /\ d.last \in Graph /\ d.held = NoGraph /\ d.restoring
    BY <1>1, <1>2, RedoFields
  <1>4. h.last < Restore(d.last) /\ Increasing(Line(d)) /\ Old(Line(d), n)
    BY <1>1, <1>2, <1>3, RedoIncreasing
  <1>5. PICK s \in Seq(Graph), c \in Nat \ {0} : s = Line(h) /\ c = Cursor(h)
    BY <1>1, LineEntries
  <1>6. c < Len(s) /\ d.last = s[c + 1] /\ CutBehind(Line(d), Cursor(d), s, c)
    BY <1>1, <1>2, <1>3, <1>5, RedoLine
  <1>7. /\ k \in Graph /\ k <= n /\ r \in History(Graph) /\ Tidy(r, k, FALSE, FALSE, n)
        /\ Line(r) = At(Line(d), Cursor(d)) /\ Cursor(r) = Cursor(d)
    BY <1>2, <1>3, <1>4, TidyRestored
  <1>8. c + 1 \in 1 .. Len(s) /\ Len(s) \in Nat /\ DOMAIN s = 1 .. Len(s)
    BY <1>6
  <1>9. k # g
    <2>1. CASE g = h.last
      BY <1>1, <1>3, <1>4, <2>1, RestoreFacts
    <2>2. CASE Newer(g, s)
      <3>1. d.last < Restore(g)
        BY <1>6, <1>8, <2>2 DEF Newer
      <3> QED BY <1>3, <3>1, RestoreFacts
    <2> QED BY <1>1, <1>5, <2>1, <2>2
  <1>10. Redone(Line(r), Cursor(r), s, c)
    <2>1. PICK l \in 0 .. c : /\ Line(d) = SubSeq(s, l + 1, Len(s))
                              /\ Cursor(d) = c + 1 - l
      BY <1>6 DEF CutBehind
    <2>2. /\ l + 1 \in 1 .. Len(s) + 1 /\ Len(s) \in (l + 1) - 1 .. Len(s)
          /\ c + 1 \in l + 1 .. Len(s) /\ c + 1 - l = (c + 1) - (l + 1) + 1
      BY <1>6, <1>8
    <2>3. PICK a \in Nat, i \in Nat, j \in Nat : a = l + 1 /\ i = c + 1 /\ j = c + 1 - l
      BY <1>8, <2>2
    <2>4. At(SubSeq(s, a, Len(s)), j) = SubSeq(At(s, i), a, Len(s))
      <3>1. 1 <= a /\ a <= i /\ i <= Len(s) /\ Len(s) <= Len(s) /\ j = i - a + 1
        BY <1>8, <2>2, <2>3
      <3> QED BY <1>8, <3>1, AtSubSeq
    <2>5. Line(r) = SubSeq(At(s, c + 1), l + 1, Len(s))
      BY <1>7, <2>1, <2>3, <2>4
    <2>6. Len(At(s, c + 1)) = Len(s)
      BY <1>8, AtEntries
    <2> QED BY <1>7, <2>1, <2>5, <2>6 DEF Redone, CutBehind
  <1>11. Walked(h, r, k)
    BY <1>3, <1>5, <1>6, <1>7, <1>10 DEF Walked
  <1> QED BY <1>1, <1>2, <1>7, <1>9, <1>11 DEF Restored
=============================================================================
