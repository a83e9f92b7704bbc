-------------------------- MODULE DraftEditorProofs --------------------------
(***************************************************************************)
(* Theorems about the workflow builder: every action preserves the         *)
(* invariant of DraftPageProofs, keeps the version in production and is a  *)
(* step of the undo timeline.                                              *)
(***************************************************************************)
EXTENDS DraftPageProofs

\* The version in production stays what it is.
Keeps(s, r) == s.prod # None => r.graph[s.prod] = s.graph[s.prod]

\* What every step has to show.
Stepped == EditorInv' /\ Walks(ui, ui') /\ (Keeps(server, server') \/ LiveEdit)

\* Nothing that happens is a stutter of the timeline.
LEMMA Stays == \A u : Walks(u, u)
  BY DEF Walks, Walked

\* A step that only the page takes part in.
LEMMA PageOnly ==
    ASSUME EditorInv, Goes, UNCHANGED <<server, fresh>>, budget' \in [UserAction -> Nat]
    PROVE  Stepped
  BY DEF EditorInv, Goes, Stepped, Keeps

\* What users and the network may still do stays a number.
LEMMA Spends ==
    ASSUME NEW what \in UserAction, budget \in [UserAction -> Nat], Spend(what)
    PROVE  budget' \in [UserAction -> Nat]
  BY DEF Spend

-----------------------------------------------------------------------------
(* The server                                                              *)

\* r is what s has become: no version is gone, and the one in production is
\* what it was.
Grown(s, r, n) ==
    ServerInv(r, n) /\ Len(s.graph) <= Len(r.graph) /\ Keeps(s, r)

\* A version that is created comes last.
LEMMA CreateGrows ==
    ASSUME NEW n \in Nat, NEW m \in Nat, n <= m, NEW s, ServerInv(s, n),
           NEW g \in Graph, g <= m, NEW r, r = Create(s, g), HasRoom(r)
    PROVE  Grown(s, r, m) /\ Len(r.graph) = Len(s.graph) + 1
  <1>1. PICK a \in Seq(Graph), b \in Seq(Nat), p \in Version \cup {None} :
           a = s.graph /\ b = s.rev /\ p = s.prod
    BY DEF ServerInv, Stored
  <1>2. s = [graph |-> a, rev |-> b, prod |-> p]
    BY <1>1 DEF ServerInv, Stored
  <1>3. DOMAIN b = DOMAIN a /\ p \in DOMAIN a \cup {None} /\ \A i \in DOMAIN a : a[i] <= n
    BY <1>1 DEF ServerInv, Consistent, Old
  <1>4. r = [graph |-> Append(a, g), rev |-> Append(b, 0), prod |-> p]
    BY <1>2 DEF Create
  <1>5. /\ Append(a, g) \in Seq(Graph) /\ Append(b, 0) \in Seq(Nat)
        /\ Len(Append(a, g)) = Len(a) + 1 /\ Len(Append(b, 0)) = Len(b) + 1
        /\ \A i \in DOMAIN a : Append(a, g)[i] = a[i]
        /\ Append(a, g)[Len(a) + 1] = g
        /\ Len(a) \in Nat /\ Len(b) \in Nat /\ DOMAIN a = 1 .. Len(a) /\ DOMAIN b = 1 .. Len(b)
        /\ DOMAIN Append(a, g) = 1 .. Len(a) + 1 /\ DOMAIN Append(b, 0) = 1 .. Len(b) + 1
    OBVIOUS
  <1>6. Len(a) = Len(b)
    BY <1>3, <1>5
  <1>7. r \in Stored
    BY <1>4, <1>5 DEF Stored
  <1>8. Consistent(r)
    <2>1. DOMAIN r.rev = DOMAIN r.graph
      BY <1>4, <1>5, <1>6
    <2>2. r.prod \in DOMAIN r.graph \cup {None}
      BY <1>3, <1>4, <1>5
    <2> QED BY <2>1, <2>2 DEF Consistent, HasRoom
  <1>9. Old(r.graph, m)
    <2>1. \A i \in DOMAIN a : a[i] \in Nat
      <3>1. \A i \in DOMAIN a : a[i] \in Graph
        OBVIOUS
      <3> QED BY <3>1, GraphNat
    <2>2. ASSUME NEW i \in 1 .. Len(a) + 1
          PROVE  Append(a, g)[i] <= m
      <3>1. CASE i = Len(a) + 1
        BY <1>5, <3>1
      <3>2. CASE i # Len(a) + 1
        <4>1. i \in DOMAIN a
          BY <1>5, <3>2
        <4>2. a[i] \in Nat /\ a[i] <= n
          BY <1>3, <2>1, <4>1
        <4> QED BY <1>5, <4>1, <4>2
      <3> QED BY <3>1, <3>2
    <2> QED BY <1>4, <1>5, <2>2 DEF Old
  <1>10. Keeps(s, r)
    BY <1>2, <1>3, <1>4, <1>5 DEF Keeps
  <1>11. Len(s.graph) <= Len(r.graph) /\ Len(r.graph) = Len(s.graph) + 1
    BY <1>2, <1>4, <1>5
  <1> QED BY <1>7, <1>8, <1>9, <1>10, <1>11 DEF Grown, ServerInv

\* A version that is overwritten stays where it is, and so do all others.
LEMMA Overwritten ==
    ASSUME NEW n \in Nat, NEW m \in Nat, n <= m, NEW s, ServerInv(s, n),
           NEW g \in Graph, g <= m, NEW v \in DOMAIN s.graph,
           NEW r, r = [s EXCEPT !.graph[v] = g]
    PROVE  /\ ServerInv(r, m) /\ Len(s.graph) <= Len(r.graph)
           /\ v # s.prod => Keeps(s, r)
  <1>1. PICK a \in Seq(Graph), b \in Seq(Nat), p \in Version \cup {None} :
           a = s.graph /\ b = s.rev /\ p = s.prod
    BY DEF ServerInv, Stored
  <1>2. s = [graph |-> a, rev |-> b, prod |-> p]
    BY <1>1 DEF ServerInv, Stored
  <1>3. /\ DOMAIN b = DOMAIN a /\ p \in DOMAIN a \cup {None} /\ Len(a) <= MaxVersions
        /\ \A i \in DOMAIN a : a[i] <= n
    BY <1>1 DEF ServerInv, Consistent, Old
  <1>4. PICK c : c = [a EXCEPT ![v] = g]
    OBVIOUS
  <1>5. r = [graph |-> c, rev |-> b, prod |-> p]
    BY <1>1, <1>2, <1>4
  <1>6. /\ c \in Seq(Graph) /\ Len(c) = Len(a) /\ DOMAIN c = DOMAIN a
        /\ c[v] = g /\ \A i \in DOMAIN a : i # v => c[i] = a[i]
    BY <1>1, <1>4
  <1>7. r \in Stored
    BY ONLY <1>1, <1>5, <1>6 DEF Stored
  <1>8. Consistent(r)
    BY <1>3, <1>5, <1>6 DEF Consistent
  <1>9. Old(r.graph, m)
    <2>1. \A i \in DOMAIN a : a[i] \in Nat
      <3>1. \A i \in DOMAIN a : a[i] \in Graph
        OBVIOUS
      <3> QED BY <3>1, GraphNat
    <2>2. \A i \in DOMAIN a : c[i] <= m
      BY ONLY n \in Nat, m \in Nat, n <= m, g <= m, <1>3, <1>6, <2>1
    <2> QED BY <1>5, <1>6, <2>2 DEF Old
  <1>10. v # s.prod => Keeps(s, r)
    BY <1>2, <1>3, <1>5, <1>6 DEF Keeps
  <1>11. Len(s.graph) <= Len(r.graph)
    BY <1>2, <1>5, <1>6
  <1> QED BY <1>7, <1>8, <1>9, <1>10, <1>11 DEF ServerInv

\* An update leaves the version in production alone.
LEMMA PutGrows ==
    ASSUME NEW n \in Nat, NEW m \in Nat, n <= m, NEW s, ServerInv(s, n),
           NEW g \in Graph, g <= m, NEW v \in DOMAIN s.graph,
           NEW r \in Put(s, v, g), HasRoom(r)
    PROVE  Grown(s, r, m)
  <1>1. CASE v = s.prod
    BY <1>1, CreateGrows DEF Put
  <1>2. CASE v # s.prod
    <2>1. r = [s EXCEPT !.graph[v] = g]
      BY <1>2 DEF Put
    <2> QED BY <1>2, <2>1, Overwritten DEF Grown
  <1> QED BY <1>1, <1>2

\* A promotion changes no graph.
LEMMA PromoteGrows ==
    ASSUME NEW n \in Nat, NEW s, ServerInv(s, n), NEW v \in DOMAIN s.graph,
           NEW r, r = Promote(s, v)
    PROVE  Grown(s, r, n)
  <1>1. PICK a \in Seq(Graph), b \in Seq(Nat), p \in Version \cup {None} :
           a = s.graph /\ b = s.rev /\ p = s.prod
    BY DEF ServerInv, Stored
  <1>2. s = [graph |-> a, rev |-> b, prod |-> p]
    BY <1>1 DEF ServerInv, Stored
  <1>3. DOMAIN b = DOMAIN a /\ Len(a) <= MaxVersions /\ \A i \in DOMAIN a : a[i] <= n
    BY <1>1 DEF ServerInv, Consistent, Old
  <1>4. PICK c : c = [w \in DOMAIN b |-> b[w] + 1]
    OBVIOUS
  <1>5. r = [graph |-> a, rev |-> c, prod |-> v]
    BY <1>2, <1>4 DEF Promote
  <1>6. c \in Seq(Nat) /\ DOMAIN c = DOMAIN b
    <2>1. Len(b) \in Nat /\ DOMAIN b = 1 .. Len(b) /\ \A w \in DOMAIN b : b[w] \in Nat
      OBVIOUS
    <2>2. c \in [1 .. Len(b) -> Nat]
      BY <1>4, <2>1
    <2>3. c \in Seq(Nat)
      BY <2>1, <2>2, SeqDef
    <2> QED BY <1>4, <2>3
  <1>7. v \in Version \cup {None}
    <2>1. Given(v, s)
      BY DEF Given
    <2> QED BY <2>1, GivenVersion
  <1>8. r \in Stored
    BY <1>5, <1>6, <1>7 DEF Stored
  <1>9. Consistent(r) /\ Old(r.graph, n)
    BY <1>1, <1>3, <1>5, <1>6 DEF Consistent, Old
  <1>10. Keeps(s, r) /\ Len(s.graph) <= Len(r.graph)
    BY <1>2, <1>5 DEF Keeps
  <1> QED BY <1>8, <1>9, <1>10 DEF Grown, ServerInv

\* Whatever a request does to the stored versions.
LEMMA EffectsGrow ==
    ASSUME NEW n \in Nat, NEW s, ServerInv(s, n), NEW k, TaskInv(k, s, n),
           NEW r \in Effects(s, k) \cup {s}, HasRoom(r)
    PROVE  Grown(s, r, n)
  <1>1. k \in TaskType /\ TaskKnown(k, s) /\ k.graph <= n
    BY DEF TaskInv
  <1>2. CASE r = s
    <2>1. Len(s.graph) \in Nat
      BY DEF ServerInv, Stored
    <2> QED BY <1>2, <2>1 DEF Grown, Keeps
  <1>3. CASE k.step = "put" /\ r \in Put(s, k.version, k.graph)
    <2>1. k.version \in DOMAIN s.graph /\ k.graph \in Graph
      BY <1>1, <1>3 DEF TaskKnown, Given, Writes
    <2> QED BY <1>1, <1>3, <2>1, PutGrows
  <1>4. CASE k.step = "post" /\ r = Create(s, k.graph)
    <2>1. k.graph \in Graph
      BY <1>1, <1>4 DEF TaskKnown, Writes
    <2> QED BY <1>1, <1>4, <2>1, CreateGrows
  <1>5. CASE k.step = "promote" /\ r = Promote(s, k.version)
    <2>1. k.version \in DOMAIN s.graph
      BY <1>1, <1>5 DEF TaskKnown, Given
    <2> QED BY <1>5, <2>1, PromoteGrows
  <1> QED BY <1>2, <1>3, <1>4, <1>5 DEF Effects, Writes

\* The server moves on, and with it one function of the page.
LEMMA ServerStep ==
    ASSUME EditorInv, NEW t \in Tasks, Grown(server, server', fresh),
           NEW k, TaskInv(k, server', fresh), k.post = tasks[t].post,
           tasks' = [tasks EXCEPT ![t] = k],
           UNCHANGED <<ui, fresh>>, budget' \in [UserAction -> Nat]
    PROVE  Stepped
  <1>1. PICK r : r = server'
    OBVIOUS
  <1>2. /\ Inv(server, ui, tasks, fresh) /\ fresh \in Nat \ {0} /\ fresh <= fresh
        /\ ServerInv(r, fresh) /\ Len(server.graph) <= Len(r.graph) /\ Keeps(server, r)
    BY <1>1 DEF EditorInv, Inv, Grown
  <1>3. Inv(r, ui, tasks, fresh)
    BY <1>2, GrowsInv
  <1>4. PageInv(ui, r, fresh) /\ Hands(tasks[t], k, ui.creating, ui.creating)
    BY <1>3 DEF Inv, Hands
  <1>5. Inv(r, ui, [tasks EXCEPT ![t] = k], fresh)
    BY <1>1, <1>3, <1>4, TaskStep
  <1> QED BY <1>1, <1>2, <1>5, Stays DEF Stepped, EditorInv

\* The server answers: a write names the version it has written.
LEMMA AnswerStep ==
    ASSUME EditorInv, NEW t \in Tasks, Answer(t)
    PROVE  Stepped
  <1>1. Inv(server, ui, tasks, fresh) /\ fresh \in Nat /\ ServerInv(server, fresh)
        /\ tasks \in [Tasks -> TaskType] /\ budget \in [UserAction -> Nat]
    BY DEF EditorInv, Inv
  <1>2. PICK j : j = tasks[t]
    OBVIOUS
  <1>3. TaskInv(j, server, fresh)
    BY <1>1, <1>2 DEF Inv
  <1>4. PICK s \in Effects(server, j) : HasRoom(s) /\ server' = s
    BY <1>2 DEF Answer
  <1>5. Grown(server, s, fresh)
    BY <1>1, <1>3, <1>4, EffectsGrow
  <1>6. PICK m : m = IF j.step \in Writes THEN Written(j, s) ELSE j.made
    OBVIOUS
  <1>7. PICK g : g = IF j.step \in {"list", "pollList", "detail"} THEN s ELSE j.got
    OBVIOUS
  <1>8. PICK k : k = [j EXCEPT !.answer = "ok", !.made = m, !.got = g]
    OBVIOUS
  <1>9. tasks' = [tasks EXCEPT ![t] = k]
    BY <1>1, <1>2, <1>4, <1>6, <1>7, <1>8 DEF Answer
  <1>10. /\ j \in TaskType /\ TaskKnown(j, server) /\ j.graph <= fresh
         /\ Old(j.got.graph, fresh)
    BY <1>3 DEF TaskInv
  <1>11. ServerInv(s, fresh) /\ Len(server.graph) <= Len(s.graph)
    BY <1>5 DEF Grown
  <1>12. /\ server.graph \in Seq(Graph) /\ s.graph \in Seq(Graph)
         /\ s \in Stored /\ Consistent(s) /\ Old(s.graph, fresh)
    BY <1>1, <1>11 DEF ServerInv, Stored
  <1>13. \A v : Given(v, server) => Given(v, s)
    BY <1>11, <1>12 DEF Given
  <1>14. j.step = "post" => m = Len(s.graph) /\ m \in DOMAIN s.graph
    <2>1. ASSUME j.step = "post"
          PROVE  s = Create(server, j.graph) /\ j.graph \in Graph
      BY <1>4, <1>10, <2>1 DEF Effects, Writes, TaskKnown
    <2>2. ASSUME j.step = "post"
          PROVE  Len(s.graph) = Len(server.graph) + 1
      BY <1>1, <1>4, <1>10, <2>1, <2>2, CreateGrows
    <2> QED BY <1>6, <1>12, <2>2 DEF Written, Writes
  <1>15. j.step = "put" => m \in DOMAIN s.graph
    <2>1. ASSUME j.step = "put"
          PROVE  j.version \in DOMAIN server.graph
      BY <1>10, <2>1 DEF TaskKnown, Given
    <2>2. ASSUME j.step = "put"
          PROVE  m = Len(s.graph) \/ m = j.version
      BY <1>6, <2>2 DEF Written, Writes
    <2> QED BY <1>11, <1>12, <2>1, <2>2
  <1>16. Given(m, s) /\ (j.made # None => m # None)
    <2>1. CASE j.step \in Writes
      BY <1>12, <1>14, <1>15, <2>1 DEF Writes, Given, None
    <2>2. CASE j.step \notin Writes
      BY <1>6, <1>10, <1>13, <2>2 DEF TaskKnown
    <2> QED BY <2>1, <2>2
  <1>17. m \in Version \cup {None}
    BY <1>11, <1>16, GivenVersion
  <1>18. g \in Stored /\ Consistent(g) /\ Len(g.graph) <= Len(s.graph) /\ Old(g.graph, fresh)
    <2>1. CASE g = s
      BY <1>12, <2>1
    <2>2. CASE g = j.got
      <3>1. /\ j.got \in Stored /\ Consistent(j.got)
            /\ Len(j.got.graph) <= Len(server.graph)
        BY <1>10 DEF TaskType, TaskKnown
      <3>2. j.got.graph \in Seq(Graph)
        BY <3>1 DEF Stored
      <3> QED BY <1>10, <1>11, <1>12, <2>2, <3>1, <3>2
    <2> QED BY <1>7, <2>1, <2>2
  <1>19. k \in TaskType
    BY <1>8, <1>10, <1>17, <1>18 DEF TaskType
  <1>20. /\ k.kind = j.kind /\ k.step = j.step /\ k.version = j.version /\ k.made = m
         /\ k.post = j.post /\ k.graph = j.graph /\ k.sel = j.sel /\ k.got = g
         /\ k.answer = "ok"
    BY <1>8, <1>10 DEF TaskType
  <1>21. j.step = "detail" => g = s
    BY <1>7
  <1>22. TaskKnown(k, s)
    BY <1>10, <1>12, <1>13, <1>14, <1>15, <1>16, <1>18, <1>20, <1>21
    DEF TaskKnown, Given, Writes, None
  <1>23. TaskInv(k, s, fresh)
    BY <1>10, <1>18, <1>19, <1>20, <1>22 DEF TaskInv
  <1>24. UNCHANGED <<ui, fresh, budget>>
    BY DEF Answer
  <1> QED BY <1>1, <1>2, <1>4, <1>5, <1>9, <1>20, <1>23, <1>24, ServerStep

\* A function whose request has failed.
LEMMA FailedTask ==
    ASSUME NEW s, NEW n, NEW j, TaskInv(j, s, n), NEW k, k = [j EXCEPT !.answer = "failed"]
    PROVE  TaskInv(k, s, n) /\ k.post = j.post
  <1>1. j \in TaskType /\ TaskKnown(j, s)
    BY DEF TaskInv
  <1>2. k \in TaskType
    BY <1>1 DEF TaskType
  <1>3. /\ k.kind = j.kind /\ k.step = j.step /\ k.version = j.version /\ k.made = j.made
        /\ k.post = j.post /\ k.graph = j.graph /\ k.sel = j.sel /\ k.got = j.got
        /\ k.answer = "failed"
    BY <1>1 DEF TaskType
  <1>4. TaskKnown(k, s)
    BY <1>1, <1>3 DEF TaskKnown
  <1> QED BY <1>2, <1>3, <1>4 DEF TaskInv

\* The server refuses a write.
LEMMA RefuseStep ==
    ASSUME EditorInv, NEW t \in Tasks, Refuse(t)
    PROVE  Stepped
  <1>1. Inv(server, ui, tasks, fresh) /\ fresh \in Nat /\ ServerInv(server, fresh)
        /\ tasks \in [Tasks -> TaskType] /\ budget \in [UserAction -> Nat]
    BY DEF EditorInv, Inv
  <1>2. PICK j : j = tasks[t] /\ TaskInv(j, server, fresh)
    BY <1>1 DEF Inv
  <1>3. PICK k : k = [j EXCEPT !.answer = "failed"]
    OBVIOUS
  <1>4. TaskInv(k, server, fresh) /\ k.post = j.post
    BY <1>2, <1>3, FailedTask
  <1>5. tasks' = [tasks EXCEPT ![t] = k] /\ UNCHANGED <<server, ui, fresh, budget>>
    BY <1>1, <1>2, <1>3 DEF Refuse
  <1>6. Grown(server, server', fresh)
    <2>1. Len(server.graph) \in Nat
      BY <1>1 DEF ServerInv, Stored
    <2> QED BY <1>1, <1>5, <2>1 DEF Grown, Keeps
  <1> QED BY <1>1, <1>2, <1>4, <1>5, <1>6, ServerStep

\* A request fails, with or without its effect.
LEMMA FailStep ==
    ASSUME EditorInv, NEW t \in Tasks, Fail(t)
    PROVE  Stepped
  <1>1. Inv(server, ui, tasks, fresh) /\ fresh \in Nat /\ ServerInv(server, fresh)
        /\ tasks \in [Tasks -> TaskType] /\ budget \in [UserAction -> Nat]
    BY DEF EditorInv, Inv
  <1>2. PICK j : j = tasks[t] /\ TaskInv(j, server, fresh)
    BY <1>1 DEF Inv
  <1>3. PICK s \in Effects(server, j) \cup {server} : HasRoom(s) /\ server' = s
    BY <1>2 DEF Fail
  <1>4. Grown(server, s, fresh)
    BY <1>1, <1>2, <1>3, EffectsGrow
  <1>5. PICK k \in {j, [j EXCEPT !.answer = "failed"]} : tasks' = [tasks EXCEPT ![t] = k]
    <2>1. tasks' = [tasks EXCEPT ![t].answer = "failed"] \/ tasks' = tasks
      BY DEF Fail
    <2>2. tasks = [tasks EXCEPT ![t] = j]
      BY <1>1, <1>2
    <2> QED BY <1>1, <1>2, <2>1, <2>2
  <1>6. TaskInv(k, server, fresh) /\ k.post = j.post
    BY <1>2, <1>5, FailedTask
  <1>7. TaskInv(k, s, fresh)
    <2>1. ServerInv(s, fresh) /\ Len(server.graph) <= Len(s.graph) /\ fresh <= fresh
      BY <1>1, <1>4 DEF Grown
    <2> QED BY <1>1, <1>6, <2>1, GrowsTask
  <1>8. budget' \in [UserAction -> Nat] /\ UNCHANGED <<ui, fresh>>
    <2>1. Spend("failures") /\ UNCHANGED <<ui, fresh>>
      BY DEF Fail
    <2> QED BY <1>1, <2>1, Spends DEF UserAction
  <1> QED BY <1>2, <1>3, <1>4, <1>5, <1>6, <1>7, <1>8, ServerStep

\* What others make is newer than what there is.
LEMMA NewIsGraph ==
    ASSUME fresh \in Nat \ {0}
    PROVE  \A m \in NewGraphs : /\ m \in Graph /\ m \in Nat \ {0} /\ fresh <= m /\ m <= m
  BY EditorAssumption DEF NewGraphs, Graph

\* Another window saves, creates or promotes.
LEMMA OtherWindowStep ==
    ASSUME EditorInv, OtherWindow
    PROVE  Stepped
  <1>1. Inv(server, ui, tasks, fresh) /\ fresh \in Nat \ {0} /\ ServerInv(server, fresh)
        /\ budget \in [UserAction -> Nat]
    BY DEF EditorInv, Inv
  <1>2. budget' \in [UserAction -> Nat] /\ UNCHANGED <<ui, tasks>>
    <2>1. Spend("others") /\ UNCHANGED <<ui, tasks>>
      BY DEF OtherWindow
    <2> QED BY <1>1, <2>1, Spends DEF UserAction
  <1>3. ASSUME NEW s, NEW m \in Nat \ {0}, fresh <= m, Grown(server, s, m),
               server' = s, fresh' = m
        PROVE  Stepped
    <2>1. ServerInv(s, m) /\ Len(server.graph) <= Len(s.graph)
      BY <1>3 DEF Grown
    <2>2. Inv(s, ui, tasks, m)
      BY <1>1, <1>3, <2>1, GrowsInv
    <2> QED BY <1>2, <1>3, <2>2, Stays DEF Stepped, EditorInv, Grown
  <1>4. ASSUME NEW m \in NewGraphs, fresh' = m,
               \E s \in {Create(server, m)}
                        \cup (IF Draft(server) = None THEN {}
                              ELSE Put(server, Draft(server), m)) :
                  HasRoom(s) /\ server' = s
        PROVE  Stepped
    <2>1. m \in Graph /\ m \in Nat \ {0} /\ fresh <= m /\ m <= m /\ fresh' = m
      BY <1>1, <1>4, NewIsGraph
    <2>3. PICK s : /\ HasRoom(s) /\ server' = s
                   /\ \/ s = Create(server, m)
                      \/ Draft(server) # None /\ s \in Put(server, Draft(server), m)
      BY <1>4
    <2>4. CASE s = Create(server, m)
      <3>1. Grown(server, s, m)
        BY <1>1, <2>1, <2>3, <2>4, CreateGrows
      <3> QED BY <1>3, <2>1, <2>3, <3>1
    <2>5. CASE Draft(server) # None /\ s \in Put(server, Draft(server), m)
      <3>1. PICK a \in Seq(Graph), b \in Seq(Nat), p \in Nat :
               a = server.graph /\ b = server.rev /\ p = server.prod
        BY <1>1, EditorAssumption DEF ServerInv, Stored, Version, None
      <3>2. Draft(server) = IF Len(b) > p THEN Len(b) ELSE None
        BY <3>1, DraftOf
      <3>3. DOMAIN a = DOMAIN b
        BY <1>1, <3>1 DEF ServerInv, Consistent
      <3>4. Draft(server) \in DOMAIN server.graph
        BY <2>5, <3>1, <3>2, <3>3
      <3>5. Grown(server, s, m)
        BY <1>1, <2>1, <2>3, <2>5, <3>4, PutGrows
      <3> QED BY <1>3, <2>1, <2>3, <3>5
    <2> QED BY <2>3, <2>4, <2>5
  <1>5. CASE /\ \E v \in DOMAIN server.graph \ {server.prod} : server' = Promote(server, v)
             /\ UNCHANGED fresh
    <2>1. PICK v \in DOMAIN server.graph : server' = Promote(server, v)
      BY <1>5
    <2>2. PICK s : s = server'
      OBVIOUS
    <2>3. Grown(server, s, fresh)
      BY <1>1, <2>1, <2>2, PromoteGrows
    <2>4. fresh' = fresh /\ fresh <= fresh
      BY <1>1, <1>5
    <2> QED BY <1>1, <1>3, <2>2, <2>3, <2>4
  <1> QED BY <1>4, <1>5 DEF OtherWindow

\* A live edit changes the version in production, and nothing else.
LEMMA LiveEditStep ==
    ASSUME EditorInv, LiveEdit
    PROVE  Stepped
  <1>1. Inv(server, ui, tasks, fresh) /\ fresh \in Nat \ {0} /\ ServerInv(server, fresh)
        /\ budget \in [UserAction -> Nat]
    BY DEF EditorInv, Inv
  <1>2. budget' \in [UserAction -> Nat] /\ UNCHANGED <<ui, tasks>>
    <2>1. Spend("others") /\ UNCHANGED <<ui, tasks>>
      BY DEF LiveEdit
    <2> QED BY <1>1, <2>1, Spends DEF UserAction
  <1>3. PICK m \in NewGraphs : fresh' = m /\ server' = [server EXCEPT !.graph[server.prod] = m]
    BY DEF LiveEdit
  <1>4. m \in Graph /\ m \in Nat \ {0} /\ fresh <= m /\ m <= m
    BY <1>1, NewIsGraph
  <1>5. PICK s : s = [server EXCEPT !.graph[server.prod] = m]
    OBVIOUS
  <1>6. server.prod \in DOMAIN server.graph
    BY <1>1 DEF LiveEdit, ServerInv, Consistent
  <1>7. ServerInv(s, m) /\ Len(server.graph) <= Len(s.graph)
    BY <1>1, <1>4, <1>5, <1>6, Overwritten
  <1>8. Inv(s, ui, tasks, m)
    BY <1>1, <1>4, <1>7, GrowsInv
  <1> QED BY <1>2, <1>3, <1>4, <1>5, <1>8, Stays DEF Stepped, EditorInv

-----------------------------------------------------------------------------
(* Users and timers                                                        *)

\* What the invariant says of the page.
LEMMA PageFacts ==
    ASSUME EditorInv
    PROVE  /\ Inv(server, ui, tasks, fresh) /\ fresh \in Nat \ {0}
           /\ ServerInv(server, fresh) /\ PageInv(ui, server, fresh)
           /\ ui \in PageType /\ PageKnown(ui, server) /\ PendingInv(ui, fresh)
           /\ tasks \in [Tasks -> TaskType] /\ budget \in [UserAction -> Nat]
           /\ server \in Stored /\ server.graph \in Seq(Graph)
  BY DEF EditorInv, Inv, PageInv, ServerInv, Stored

\* A function that stands before a request of its own.
LEMMA TaskBegins ==
    ASSUME NEW s \in Stored, NEW n \in Nat, NEW k \in TaskType,
           k.answer = "none", k.got = NoStored, k.graph <= n,
           Given(k.version, s), Given(k.made, s), Given(k.sel, s),
           k.step \in {"detail", "promote", "put"} => k.version # None,
           k.kind = "deploySave" => k.sel # None,
           k.step \in Writes => k.graph \in Graph /\ k.kind \in Saver \cup {"create"},
           k.step = "put" => ~k.post,
           k.kind = "create" /\ k.step # "post" => k.made # None,
           k.post => k.kind \in Saver,
           k.kind \in Saver /\ k.step = "post" => k.post
    PROVE  TaskInv(k, s, n)
  <1>1. Len(s.graph) \in Nat /\ Len(NoStored.graph) = 0
    BY DEF Stored, NoStored
  <1>2. Consistent(k.got) /\ Len(k.got.graph) <= Len(s.graph) /\ Old(k.got.graph, n)
    BY <1>1, NothingIsStored
  <1>3. TaskKnown(k, s)
    BY <1>2 DEF TaskKnown
  <1> QED BY <1>2, <1>3 DEF TaskInv

\* A function that has not begun anything yet.
LEMMA IdleFields ==
    /\ Idle \in TaskType /\ Idle.kind = "none" /\ Idle.step = "none" /\ Idle.version = None
    /\ Idle.made = None /\ Idle.post = FALSE /\ Idle.graph = NoGraph /\ Idle.sel = None
    /\ Idle.bg = FALSE /\ Idle.answer = "none" /\ Idle.got = NoStored
  BY NothingIsStored DEF Idle, TaskType

\* The page has other state, but the screen is as it was.
LEMMA ShowsSame ==
    ASSUME NEW s, NEW n, NEW old, PageInv(old, s, n), NEW new \in PageType, PageKnown(new, s),
           new.shown = old.shown, new.panel = old.panel, new.hist = old.hist,
           new.hydrating = old.hydrating, new.baseline = old.baseline,
           new.pending = old.pending
    PROVE  Shows(old, new, s, n) /\ Settled(old, new)
  BY DEF PageInv, PendingInv, Shows, Settled, Screen

\* Only a function of the page takes a step.
LEMMA BeginsOnly ==
    ASSUME EditorInv, NEW t \in Tasks, NEW task, Begin(t, task),
           TaskInv(Started(task), server, fresh), Started(task).post = FALSE,
           UNCHANGED <<server, ui, fresh>>, budget' \in [UserAction -> Nat]
    PROVE  Stepped
  <1>1. Inv(server, ui, tasks, fresh) /\ PageInv(ui, server, fresh)
    BY PageFacts
  <1>2. Hands(tasks[t], Started(task), ui.creating, ui.creating)
    BY DEF Hands
  <1>3. tasks' = [tasks EXCEPT ![t] = Started(task)]
    BY DEF Begin, Started
  <1>4. Inv(server, ui, tasks', fresh)
    BY <1>1, <1>2, <1>3, TaskStep
  <1> QED BY <1>4, Stays, PageOnly DEF Goes

\* The debounced save.
LEMMA AutoSaveStep ==
    ASSUME EditorInv, NEW t \in Tasks, AutoSave(t)
    PROVE  Stepped
  <1>1. Goes
    BY PageFacts, Saves, Stays DEF AutoSave, Saver
  <1> QED BY <1>1, PageFacts, PageOnly DEF AutoSave

\* A poll begins.
LEMMA PollStep ==
    ASSUME EditorInv, NEW t \in Tasks, Poll(t)
    PROVE  Stepped
  <1>1. PICK v \in Version \cup {None} : v = ui.selected /\ Given(v, server)
    BY PageFacts DEF PageType, PageKnown
  <1>2. PICK task : task = [Idle EXCEPT !.kind = "poll", !.step = "pollList", !.bg = TRUE,
                                        !.version = v, !.sel = v]
    OBVIOUS
  <1>3. Begin(t, task) /\ UNCHANGED <<server, ui, fresh, budget>>
    BY <1>1, <1>2 DEF Poll
  <1>4. PICK k : k = Started(task)
    OBVIOUS
  <1>5. k \in TaskType
    BY <1>2, <1>4, IdleFields, NothingIsStored DEF TaskType, Started
  <1>6. /\ k.kind = "poll" /\ k.step = "pollList" /\ k.version = v /\ k.sel = v
        /\ k.made = None /\ k.post = FALSE /\ k.graph = NoGraph
        /\ k.answer = "none" /\ k.got = NoStored
    BY <1>2, <1>4, IdleFields DEF TaskType, Started
  <1>7. TaskInv(k, server, fresh)
    <2>1. k.graph <= fresh /\ Given(None, server)
      BY <1>6, PageFacts DEF NoGraph, Given
    <2> QED BY <1>1, <1>5, <1>6, <2>1, PageFacts, TaskBegins DEF Saver, Writes
  <1> QED BY <1>3, <1>4, <1>6, <1>7, PageFacts, BeginsOnly

\* A deployment is confirmed: its save is sent, or refused at once.
LEMMA DeployStep ==
    ASSUME EditorInv, NEW t \in Tasks, Deploy(t)
    PROVE  Stepped
  <1>1. PICK u \in PageType : u = [ui EXCEPT !.deploying = TRUE]
    <2>1. [ui EXCEPT !.deploying = TRUE] \in PageType
      BY PageFacts DEF PageType
    <2> QED BY <2>1
  <1>2. /\ u.shown = ui.shown /\ u.panel = ui.panel /\ u.hist = ui.hist
        /\ u.hydrating = ui.hydrating /\ u.list = ui.list /\ u.selected = ui.selected
        /\ u.draftRef = ui.draftRef /\ u.baseline = ui.baseline /\ u.pending = ui.pending
        /\ u.save = ui.save /\ u.creating = ui.creating
    BY <1>1, PageFacts DEF PageType
  <1>3. PageKnown(u, server)
    BY <1>2, PageFacts DEF PageKnown
  <1>4. PageInv(u, server, fresh) /\ Walks(ui, u)
    BY <1>2, <1>3, PageFacts, Stays DEF PageInv, PendingInv, Walks
  <1>5. u.selected # None
    <2>1. ui.list.rev \in Seq(Nat) /\ ui.list.rev # <<>>
      BY PageFacts DEF Deploy, PageType
    <2> QED BY <1>2, <2>1, PageFacts DEF PageKnown
  <1>6. UNCHANGED <<server, fresh>> /\ budget' \in [UserAction -> Nat]
    <2>1. UNCHANGED <<server, fresh>> /\ Spend("deploys")
      BY DEF Deploy
    <2> QED BY <2>1, PageFacts, Spends DEF UserAction
  <1>7. CASE SaveRefused(u)
    <2>1. PICK w \in PageType : w = IF u.shown \in Invalid THEN [u EXCEPT !.save = "error"] ELSE u
      <3>1. [u EXCEPT !.save = "error"] \in PageType
        BY DEF PageType
      <3> QED BY <3>1
    <2>2. /\ w.shown = ui.shown /\ w.panel = ui.panel /\ w.hist = ui.hist
          /\ w.hydrating = ui.hydrating /\ w.list = ui.list /\ w.selected = ui.selected
          /\ w.draftRef = ui.draftRef /\ w.baseline = ui.baseline
          /\ w.pending = ui.pending /\ w.creating = ui.creating
      BY <1>2, <2>1 DEF PageType
    <2>3. PageKnown(w, server)
      BY <2>2, PageFacts DEF PageKnown
    <2>4. Shows(ui, w, server, fresh)
      BY <2>2, <2>3, PageFacts, ShowsSame
    <2>5. PICK task : task = [Idle EXCEPT !.graph = u.shown, !.sel = u.selected]
      OBVIOUS
    <2>6. u.shown \in Graph /\ u.selected \in Version \cup {None}
      BY DEF PageType
    <2>7. task \in TaskType
      BY <2>5, <2>6, IdleFields DEF TaskType
    <2>8. /\ task.kind = "none" /\ task.step = "none" /\ task.version = None
          /\ task.sel = u.selected /\ task.made = None /\ task.post = FALSE
          /\ task.graph = u.shown /\ task.answer = "none" /\ task.got = NoStored
      BY <2>5, IdleFields DEF TaskType
    <2>9. TaskInv(task, server, fresh)
      <3>1. task.graph <= fresh /\ Given(None, server) /\ Given(u.selected, server)
        BY <1>2, <2>8, PageFacts DEF PendingInv, Given, PageKnown
      <3> QED BY <2>7, <2>8, <3>1, PageFacts, TaskBegins DEF Saver, Writes
    <2>10. DeployAfterSave(t, w, task)
      BY <1>1, <1>7, <2>1, <2>5 DEF Deploy
    <2>11. Goes
      BY <1>5, <2>2, <2>4, <2>8, <2>9, <2>10, PageFacts, DeploysOn
    <2> QED BY <1>6, <2>11, PageOnly
  <1>8. CASE ~SaveRefused(u)
    <2>1. ui' = Saving(u) /\ Begin(t, SaveTask(u, "deploySave")) /\ Free(t)
      BY <1>1, <1>8 DEF Deploy
    <2>2. Goes
      BY <1>2, <1>4, <1>5, <1>8, <2>1, PageFacts, Saves DEF Saver
    <2> QED BY <1>6, <2>2, PageOnly
  <1> QED BY <1>7, <1>8

\* An edit makes a graph that is newer than all others.
LEMMA EditStep ==
    ASSUME EditorInv, NEW marks \in BOOLEAN, Edit(marks)
    PROVE  Stepped
  <1>1. PICK m \in Graph : m = fresh + 2
    BY PageFacts, EditorAssumption DEF Edit, Graph
  <1>2. m \in Nat \ {0} /\ fresh <= m /\ fresh' = m
    BY <1>1, PageFacts DEF Edit
  <1>3. PICK u : u = React(ui, [ui EXCEPT !.shown = m, !.pending = @ \/ marks], FALSE)
    OBVIOUS
  <1>4. PageInv(u, server, m) /\ Walks(ui, u) /\ u.creating = ui.creating
    <2>1. fresh \in Nat /\ PageInv(ui, server, fresh)
      BY PageFacts
    <2>2. Rerenders(ui, [ui EXCEPT !.shown = m, !.pending = @ \/ marks], u)
      BY <1>3 DEF Rerenders
    <2>3. Turns(ui, ui, u, server, m)
      BY <1>1, <2>1, <2>2, EditPage
    <2> QED BY <2>3 DEF Turns
  <1>5. ServerInv(server, m) /\ Len(server.graph) <= Len(server.graph)
    <2>1. Old(server.graph, fresh) /\ fresh \in Nat /\ m \in Nat
      BY <1>2, PageFacts DEF ServerInv
    <2>2. Old(server.graph, m)
      BY <1>2, <2>1, PageFacts, OldGrows
    <2>3. Len(server.graph) \in Nat
      BY PageFacts
    <2> QED BY <2>2, <2>3, PageFacts DEF ServerInv
  <1>6. Inv(server, ui, tasks, m)
    BY <1>2, <1>5, PageFacts, GrowsInv
  <1>7. Inv(server, u, tasks, m)
    BY <1>4, <1>6, PageStep
  <1>8. ui' = u /\ UNCHANGED <<server, tasks>> /\ budget' \in [UserAction -> Nat]
    <2>1. ui' = u /\ UNCHANGED <<server, tasks>> /\ Spend("edits")
      BY <1>1, <1>3 DEF Edit
    <2> QED BY <2>1, PageFacts, Spends DEF UserAction
  <1> QED BY <1>2, <1>3, <1>4, <1>7, <1>8 DEF Stepped, EditorInv, Keeps

\* A drag ends with the panel open.
LEMMA StopDraggingStep ==
    ASSUME EditorInv, StopDragging
    PROVE  Stepped
  <1>1. PICK h \in History(Graph), g \in Graph, hydrating \in BOOLEAN, panel \in BOOLEAN :
           h = ui.hist /\ g = ui.shown /\ hydrating = ui.hydrating /\ panel = ui.panel
    BY PageFacts DEF PageType
  <1>2. Tidy(h, g, hydrating, panel, fresh) /\ g <= fresh /\ h.held # NoGraph
    BY <1>1, PageFacts DEF PageInv, PendingInv, StopDragging
  <1>3. PICK r : r = DragStop(h)
    OBVIOUS
  <1>4. r \in History(Graph) /\ Tidy(r, g, hydrating, panel, fresh) /\ Walked(h, r, g)
    BY <1>2, <1>3, PageFacts, TidyDragStop
  <1>5. PICK u \in PageType : u = [ui EXCEPT !.hist = r]
    <2>1. [ui EXCEPT !.hist = r] \in PageType
      BY <1>4, PageFacts DEF PageType
    <2> QED BY <2>1
  <1>6. /\ u.shown = g /\ u.panel = panel /\ u.hist = r /\ u.hydrating = hydrating
        /\ u.list = ui.list /\ u.selected = ui.selected /\ u.draftRef = ui.draftRef
        /\ u.baseline = ui.baseline /\ u.pending = ui.pending /\ u.save = ui.save
        /\ u.creating = ui.creating
    BY <1>1, <1>5, PageFacts DEF PageType
  <1>7. PageKnown(u, server) /\ PendingInv(u, fresh)
    BY <1>1, <1>6, PageFacts DEF PageKnown, PendingInv
  <1>8. PageInv(u, server, fresh) /\ Walks(ui, u)
    BY <1>1, <1>4, <1>6, <1>7 DEF PageInv, Walks
  <1>9. ui' = u /\ UNCHANGED <<server, tasks, fresh, budget>>
    BY <1>1, <1>3, <1>5 DEF StopDragging
  <1>10. Inv(server, u, tasks, fresh)
    BY <1>6, <1>8, PageFacts, PageStep
  <1> QED BY <1>8, <1>9, <1>10, PageFacts, PageOnly DEF Goes

\* The panel opens.
LEMMA OpenPanelStep ==
    ASSUME EditorInv, OpenPanel
    PROVE  Stepped
  <1>1. PICK u : u = React(ui, [ui EXCEPT !.panel = TRUE], FALSE)
    OBVIOUS
  <1>2. PageInv(u, server, fresh) /\ Walks(ui, u) /\ u.creating = ui.creating
    BY <1>1, PageFacts, PanelPage DEF OpenPanel
  <1>3. ui' = u /\ UNCHANGED <<server, tasks, fresh>> /\ budget' \in [UserAction -> Nat]
    <2>1. ui' = u /\ UNCHANGED <<server, tasks, fresh>> /\ Spend("panels")
      BY <1>1 DEF OpenPanel
    <2> QED BY <2>1, PageFacts, Spends DEF UserAction
  <1>4. Inv(server, u, tasks, fresh)
    BY <1>2, PageFacts, PageStep
  <1> QED BY <1>1, <1>2, <1>3, <1>4, PageOnly DEF Goes

\* The panel closes.
LEMMA ClosePanelStep ==
    ASSUME EditorInv, NEW t \in Tasks, ClosePanel(t)
    PROVE  Stepped
  <1>1. PICK u : u = React(ui, [ui EXCEPT !.panel = FALSE], FALSE)
    OBVIOUS
  <1>2. PageInv(u, server, fresh) /\ Walks(ui, u) /\ u.creating = ui.creating
    BY <1>1, PageFacts, PanelPage DEF ClosePanel
  <1>3. Become(u, t) /\ UNCHANGED <<server, fresh, budget>>
    BY <1>1 DEF ClosePanel
  <1>4. Goes
    BY <1>2, <1>3, PageFacts, Becomes
  <1> QED BY <1>3, <1>4, PageFacts, PageOnly

\* The user undoes.
LEMMA UndoEditStep ==
    ASSUME EditorInv, NEW t \in Tasks, UndoEdit(t)
    PROVE  Stepped
  <1>1. PICK u : u = React(ui, [ui EXCEPT !.shown = Restore(UndoTarget(ui.hist)),
                                          !.hist = Undo(@), !.panel = FALSE], FALSE)
    OBVIOUS
  <1>2. PageInv(u, server, fresh) /\ Walks(ui, u) /\ u.creating = ui.creating
    BY <1>1, PageFacts, UndoPage DEF UndoEdit
  <1>3. Become(u, t) /\ UNCHANGED <<server, fresh>> /\ Spend("undos")
    BY <1>1 DEF UndoEdit
  <1>4. Goes
    BY <1>2, <1>3, PageFacts, Becomes
  <1>5. budget' \in [UserAction -> Nat]
    BY <1>3, PageFacts, Spends DEF UserAction
  <1> QED BY <1>3, <1>4, <1>5, PageOnly

\* The user redoes.
LEMMA RedoEditStep ==
    ASSUME EditorInv, NEW t \in Tasks, RedoEdit(t)
    PROVE  Stepped
  <1>1. PICK u : u = React(ui, [ui EXCEPT !.shown = Restore(RedoTarget(ui.hist)),
                                          !.hist = Redo(@), !.panel = FALSE], FALSE)
    OBVIOUS
  <1>2. PageInv(u, server, fresh) /\ Walks(ui, u) /\ u.creating = ui.creating
    BY <1>1, PageFacts, RedoPage DEF RedoEdit
  <1>3. Become(u, t) /\ UNCHANGED <<server, fresh>> /\ Spend("undos")
    BY <1>1 DEF RedoEdit
  <1>4. Goes
    BY <1>2, <1>3, PageFacts, Becomes
  <1>5. budget' \in [UserAction -> Nat]
    BY <1>3, PageFacts, Spends DEF UserAction
  <1> QED BY <1>3, <1>4, <1>5, PageOnly

\* The user chooses a version that is listed.
LEMMA ChooseVersionStep ==
    ASSUME EditorInv, NEW t \in Tasks, NEW v, ChooseVersion(t, v)
    PROVE  Stepped
  <1>1. Given(v, server) /\ v # None /\ v \in Version \cup {None}
    <2>1. /\ ui.list.rev \in Seq(Nat) /\ v \in DOMAIN ui.list.rev
          /\ Len(ui.list.rev) <= Len(server.graph)
      BY PageFacts DEF ChooseVersion, PageType, PageKnown
    <2>2. Given(v, server) /\ v # None
      BY <2>1, PageFacts DEF Given, None
    <2> QED BY <2>2, PageFacts, GivenVersion
  <1>2. PICK new \in PageType :
           new = [ui EXCEPT !.selected = v, !.loading = TRUE, !.loadError = FALSE]
    <2>1. [ui EXCEPT !.selected = v, !.loading = TRUE, !.loadError = FALSE] \in PageType
      BY <1>1, PageFacts DEF PageType
    <2> QED BY <2>1
  <1>3. /\ new.shown = ui.shown /\ new.panel = ui.panel /\ new.hist = ui.hist
        /\ new.hydrating = ui.hydrating /\ new.list = ui.list /\ new.selected = v
        /\ new.draftRef = ui.draftRef /\ new.baseline = ui.baseline
        /\ new.pending = ui.pending /\ new.creating = ui.creating
    BY <1>2, PageFacts DEF PageType
  <1>4. PageKnown(new, server)
    BY <1>1, <1>3, PageFacts DEF PageKnown
  <1>5. Shows(ui, new, server, fresh) /\ Settled(ui, new)
    BY <1>3, <1>4, PageFacts, ShowsSame
  <1>6. PICK task : task = [Idle EXCEPT !.kind = "view", !.step = "detail", !.version = v]
    OBVIOUS
  <1>7. Begin(t, task) /\ UNCHANGED <<server, fresh>> /\ Spend("views")
        /\ Rerenders(ui, new, ui')
    BY <1>2, <1>6 DEF ChooseVersion, Rerenders
  <1>8. PICK k : k = Started(task)
    OBVIOUS
  <1>9. k \in TaskType
    BY <1>1, <1>6, <1>8, IdleFields, NothingIsStored DEF TaskType, Started
  <1>10. /\ k.kind = "view" /\ k.step = "detail" /\ k.version = v /\ k.sel = None
         /\ k.made = None /\ k.post = FALSE /\ k.graph = NoGraph
         /\ k.answer = "none" /\ k.got = NoStored
    BY <1>6, <1>8, IdleFields DEF TaskType, Started
  <1>11. TaskInv(k, server, fresh)
    <2>1. k.graph <= fresh /\ Given(None, server)
      BY <1>10, PageFacts DEF NoGraph, Given
    <2> QED BY <1>1, <1>9, <1>10, <2>1, PageFacts, TaskBegins DEF Saver, Writes
  <1>12. Hands(tasks[t], k, ui.creating, new.creating)
    BY <1>3, <1>10 DEF Hands
  <1>13. Goes
    BY <1>5, <1>7, <1>8, <1>11, <1>12, PageFacts, ReactBegins
  <1>14. budget' \in [UserAction -> Nat]
    BY <1>7, PageFacts, Spends DEF UserAction
  <1> QED BY <1>7, <1>13, <1>14, PageOnly

\* The user asks for a draft.
LEMMA CreateDraftStep ==
    ASSUME EditorInv, NEW t \in Tasks, CreateDraft(t)
    PROVE  Stepped
  <1>1. /\ ui.shown \in Graph /\ ui.shown <= fresh
        /\ ui.selected \in Version \cup {None} /\ Given(ui.selected, server)
    BY PageFacts DEF PageType, PendingInv, PageKnown
  <1>2. PICK task : task = [Idle EXCEPT !.kind = "create", !.step = "post",
                                        !.graph = ui.shown, !.sel = ui.selected]
    OBVIOUS
  <1>3. Begin(t, task) /\ UNCHANGED <<server, ui, fresh>> /\ Spend("creates")
    BY <1>2 DEF CreateDraft
  <1>4. PICK k : k = Started(task)
    OBVIOUS
  <1>5. k \in TaskType
    BY <1>1, <1>2, <1>4, IdleFields, NothingIsStored DEF TaskType, Started
  <1>6. /\ k.kind = "create" /\ k.step = "post" /\ k.version = None /\ k.sel = ui.selected
        /\ k.made = None /\ k.post = FALSE /\ k.graph = ui.shown
        /\ k.answer = "none" /\ k.got = NoStored
    BY <1>2, <1>4, IdleFields DEF TaskType, Started
  <1>7. TaskInv(k, server, fresh)
    <2>1. Given(None, server)
      BY DEF Given
    <2> QED BY <1>1, <1>5, <1>6, <2>1, PageFacts, TaskBegins DEF Saver, Writes
  <1>8. budget' \in [UserAction -> Nat]
    BY <1>3, PageFacts, Spends DEF UserAction
  <1> QED BY <1>3, <1>4, <1>6, <1>7, <1>8, BeginsOnly

\* The page no longer says that it saved.
LEMMA SavedTimeoutStep ==
    ASSUME EditorInv, SavedTimeout
    PROVE  Stepped
  <1>1. PICK i \in Nat : i = ui.savedTimers - 1
    BY PageFacts DEF SavedTimeout, PageType
  <1>2. PICK new \in PageType : new = [ui EXCEPT !.savedTimers = i, !.save = "idle"]
    <2>1. [ui EXCEPT !.savedTimers = i, !.save = "idle"] \in PageType
      BY PageFacts DEF PageType
    <2> QED BY <2>1
  <1>3. /\ new.shown = ui.shown /\ new.panel = ui.panel /\ new.hist = ui.hist
        /\ new.hydrating = ui.hydrating /\ new.list = ui.list /\ new.selected = ui.selected
        /\ new.draftRef = ui.draftRef /\ new.baseline = ui.baseline
        /\ new.pending = ui.pending /\ new.creating = ui.creating
    BY <1>2, PageFacts DEF PageType
  <1>4. PageKnown(new, server)
    BY <1>3, PageFacts DEF PageKnown
  <1>5. Shows(ui, new, server, fresh) /\ Settled(ui, new)
    BY <1>3, <1>4, PageFacts, ShowsSame
  <1>6. Rerenders(ui, new, ui') /\ UNCHANGED <<server, tasks, fresh, budget>>
    BY <1>1, <1>2 DEF SavedTimeout, Rerenders
  <1>7. Goes
    BY <1>3, <1>5, <1>6, PageFacts, ReactOnly
  <1> QED BY <1>6, <1>7, PageFacts, PageOnly

\* The cover of a load goes.
LEMMA LoadTimeoutStep ==
    ASSUME EditorInv, LoadTimeout
    PROVE  Stepped
  <1>1. PICK i \in Nat : i = ui.loadTimers - 1
    BY PageFacts DEF LoadTimeout, PageType
  <1>2. PICK new \in PageType : new = [ui EXCEPT !.loadTimers = i, !.loading = FALSE]
    <2>1. [ui EXCEPT !.loadTimers = i, !.loading = FALSE] \in PageType
      BY PageFacts DEF PageType
    <2> QED BY <2>1
  <1>3. /\ new.shown = ui.shown /\ new.panel = ui.panel /\ new.hist = ui.hist
        /\ new.hydrating = ui.hydrating /\ new.list = ui.list /\ new.selected = ui.selected
        /\ new.draftRef = ui.draftRef /\ new.baseline = ui.baseline
        /\ new.pending = ui.pending /\ new.creating = ui.creating
    BY <1>2, PageFacts DEF PageType
  <1>4. PageKnown(new, server)
    BY <1>3, PageFacts DEF PageKnown
  <1>5. Shows(ui, new, server, fresh) /\ Settled(ui, new)
    BY <1>3, <1>4, PageFacts, ShowsSame
  <1>6. Rerenders(ui, new, ui') /\ UNCHANGED <<server, tasks, fresh, budget>>
    BY <1>1, <1>2 DEF LoadTimeout, Rerenders
  <1>7. Goes
    BY <1>3, <1>5, <1>6, PageFacts, ReactOnly
  <1> QED BY <1>6, <1>7, PageFacts, PageOnly

\* A version counts as shown.
LEMMA HydrationTimeoutStep ==
    ASSUME EditorInv, HydrationTimeout
    PROVE  Stepped
  <1>1. PICK u \in PageType : u = [ui EXCEPT !.hydrating = FALSE]
    <2>1. [ui EXCEPT !.hydrating = FALSE] \in PageType
      BY PageFacts DEF PageType
    <2> QED BY <2>1
  <1>2. /\ u.shown = ui.shown /\ u.panel = ui.panel /\ u.hist = ui.hist
        /\ u.hydrating = FALSE /\ u.list = ui.list /\ u.selected = ui.selected
        /\ u.draftRef = ui.draftRef /\ u.baseline = ui.baseline /\ u.pending = ui.pending
        /\ u.save = ui.save /\ u.creating = ui.creating
    BY <1>1, PageFacts DEF PageType
  <1>3. PageKnown(u, server) /\ PendingInv(u, fresh)
    BY <1>2, PageFacts DEF PageKnown, PendingInv
  <1>4. Tidy(u.hist, u.shown, FALSE, u.panel, fresh)
    BY <1>2, PageFacts DEF PageInv, Tidy
  <1>5. PageInv(u, server, fresh) /\ Walks(ui, u)
    BY <1>2, <1>3, <1>4, Stays DEF PageInv, Walks
  <1>6. ui' = u /\ UNCHANGED <<server, tasks, fresh, budget>>
    BY <1>1 DEF HydrationTimeout
  <1>7. Inv(server, u, tasks, fresh)
    BY <1>2, <1>5, PageFacts, PageStep
  <1> QED BY <1>5, <1>6, <1>7, PageFacts, PageOnly DEF Goes

-----------------------------------------------------------------------------
(* Continuations                                                           *)

\* What the invariant says of a function.
LEMMA TaskFacts ==
    ASSUME EditorInv, NEW t \in Tasks, NEW j, j = tasks[t]
    PROVE  /\ TaskInv(j, server, fresh) /\ j \in TaskType /\ TaskKnown(j, server)
           /\ j.graph <= fresh /\ Old(j.got.graph, fresh)
  BY DEF EditorInv, Inv, TaskInv

\* A function that begins is well-typed.
LEMMA StartedType ==
    ASSUME NEW task \in TaskType
    PROVE  Started(task) \in TaskType
  <1>1. NoStored \in Stored
    BY NothingIsStored
  <1> QED BY <1>1 DEF TaskType, Started

\* So is one that is about to ask for the versions.
LEMMA ListType ==
    ASSUME NEW j \in TaskType, NEW v \in Version \cup {None}, NEW m \in Version \cup {None},
           NEW b \in BOOLEAN, NEW task,
           task = [j EXCEPT !.step = "list", !.version = v, !.made = m, !.bg = b],
           NEW k, k = Started(task)
    PROVE  k \in TaskType
  <1>1. task \in TaskType
    BY DEF TaskType
  <1> QED BY <1>1, StartedType

\* A function goes on to load the versions.
LEMMA ListsNext ==
    ASSUME EditorInv, NEW t \in Tasks, NEW j, j = tasks[t],
           NEW new, Shows(ui, new, server, fresh), Settled(ui, new),
           Rerenders(ui, new, ui'), new.creating = ui.creating,
           NEW v, Given(v, server), NEW m, Given(m, server), NEW b \in BOOLEAN,
           j.kind = "create" => m # None,
           NEW task, task = [j EXCEPT !.step = "list", !.version = v, !.made = m, !.bg = b],
           Begin(t, task), UNCHANGED <<server, fresh, budget>>
    PROVE  Stepped
  <1>1. j \in TaskType /\ TaskKnown(j, server) /\ j.graph <= fresh
    BY TaskFacts
  <1>2. v \in Version \cup {None} /\ m \in Version \cup {None}
    BY PageFacts, GivenVersion
  <1>3. PICK k : k = Started(task)
    OBVIOUS
  <1>4. k \in TaskType
    BY <1>1, <1>2, <1>3, ListType
  <1>5. /\ k.kind = j.kind /\ k.step = "list" /\ k.version = v /\ k.sel = j.sel
        /\ k.made = m /\ k.post = j.post /\ k.graph = j.graph
        /\ k.answer = "none" /\ k.got = NoStored
    BY <1>1, <1>3 DEF TaskType, Started
  <1>6. TaskInv(k, server, fresh)
    <2>1. /\ Given(k.sel, server) /\ (k.kind = "deploySave" => k.sel # None)
          /\ (k.post => k.kind \in Saver)
      BY <1>1, <1>5 DEF TaskKnown
    <2> QED BY <1>1, <1>4, <1>5, <2>1, PageFacts, TaskBegins DEF Writes
  <1>7. Hands(tasks[t], k, ui.creating, new.creating)
    BY <1>5 DEF Hands
  <1>8. Goes
    BY <1>3, <1>6, <1>7, PageFacts, ReactBegins
  <1> QED BY <1>8, PageFacts, PageOnly

\* A function is over, and the page shows new.
LEMMA EndsNext ==
    ASSUME EditorInv, NEW t \in Tasks, NEW new, Shows(ui, new, server, fresh),
           Settled(ui, new), Rerenders(ui, new, ui'), Begin(t, Idle),
           new.creating = ui.creating \/ tasks[t].post, UNCHANGED <<server, fresh, budget>>
    PROVE  Stepped
  <1>1. Goes
    BY PageFacts, ReactEnds
  <1> QED BY <1>1, PageFacts, PageOnly

\* A load is over, and its caller goes on.
LEMMA FinishNext ==
    ASSUME EditorInv, NEW t \in Tasks, tasks[t].step \notin Writes,
           NEW new, Shows(ui, new, server, fresh), Settled(ui, new),
           new.creating = ui.creating, NEW reloaded \in BOOLEAN, Finish(t, new, reloaded),
           UNCHANGED <<server, fresh, budget>>
    PROVE  Stepped
  <1>1. Goes
    BY PageFacts, Finishes
  <1> QED BY <1>1, PageFacts, PageOnly

\* An error is noted, or no longer; another version may be selected.
Notes(new, draftRef, selected) ==
    /\ new \in PageType
    /\ new.shown = ui.shown /\ new.panel = ui.panel /\ new.hist = ui.hist
    /\ new.hydrating = ui.hydrating /\ new.list = ui.list /\ new.selected = selected
    /\ new.draftRef = draftRef /\ new.baseline = ui.baseline
    /\ new.pending = ui.pending /\ new.creating = ui.creating

\* Such a page keeps its screen.
LEMMA NotesPage ==
    ASSUME EditorInv, NEW draftRef, Given(draftRef, server),
           NEW selected, Given(selected, server), ui.selected # None => selected # None,
           NEW new, Notes(new, draftRef, selected)
    PROVE  Shows(ui, new, server, fresh) /\ Settled(ui, new)
  <1>1. PageKnown(new, server)
    BY PageFacts DEF PageKnown, Notes
  <1> QED BY <1>1, PageFacts, ShowsSame DEF Notes

\* A poll is answered: it ends, or the versions are loaded again.
LEMMA PolledStep ==
    ASSUME EditorInv, NEW t \in Tasks, Polled(t)
    PROVE  Stepped
  <1>1. PICK j : j = tasks[t]
    OBVIOUS
  <1>2. j \in TaskType /\ TaskKnown(j, server)
    BY <1>1, TaskFacts
  <1>3. UNCHANGED <<server, fresh, budget>>
    BY DEF Polled
  <1>4. CASE ui' = React(ui, LoadList(ui), FALSE) /\ Begin(t, ListTask(j, j.version))
             /\ j.step = "pollList"
    <2>1. PICK new : new = LoadList(ui)
      OBVIOUS
    <2>2. Notes(new, ui.draftRef, ui.selected)
      BY <2>1, PageFacts DEF LoadList, PageType, Notes
    <2>3. Given(ui.draftRef, server) /\ Given(ui.selected, server)
      BY PageFacts DEF PageKnown
    <2>4. /\ Shows(ui, new, server, fresh) /\ Settled(ui, new)
          /\ new.creating = ui.creating
      BY <2>2, <2>3, NotesPage DEF Notes
    <2>5. PICK task : task = ListTask(j, j.version)
      OBVIOUS
    <2>6. task = [j EXCEPT !.step = "list", !.version = j.version, !.made = j.made, !.bg = j.bg]
      BY <1>2, <2>5 DEF ListTask, TaskType
    <2>7. /\ Given(j.version, server) /\ Given(j.made, server) /\ j.bg \in BOOLEAN
          /\ j.kind = "create" => j.made # None
      BY <1>2, <1>4 DEF TaskType, TaskKnown
    <2>8. Rerenders(ui, new, ui') /\ Begin(t, task)
      BY <1>4, <2>1, <2>5 DEF Rerenders
    <2> QED BY <1>1, <1>3, <2>4, <2>6, <2>7, <2>8, ListsNext
  <1>5. CASE UNCHANGED ui /\ Begin(t, Idle)
    <2>1. TaskInv(Started(Idle), server, fresh) /\ Started(Idle).post = FALSE
      BY PageFacts, IdleInv, IdleFields
    <2> QED BY <1>3, <1>5, <2>1, PageFacts, BeginsOnly
  <1> QED BY <1>1, <1>4, <1>5 DEF Polled, Answered

\* A promotion is answered.
LEMMA PromotedStep ==
    ASSUME EditorInv, NEW t \in Tasks, Promoted(t)
    PROVE  Stepped
  <1>1. PICK j : j = tasks[t]
    OBVIOUS
  <1>2. j \in TaskType /\ TaskKnown(j, server) /\ j.step = "promote"
    BY <1>1, TaskFacts DEF Promoted, Answered
  <1>3. UNCHANGED <<server, fresh, budget>>
    BY DEF Promoted
  <1>4. CASE Ok(t)
    <2>1. PICK d : d = IF ui.draftRef = j.version THEN None ELSE ui.draftRef
      OBVIOUS
    <2>2. Given(d, server)
      BY <2>1, PageFacts DEF PageKnown, Given
    <2>3. Given(j.version, server) /\ j.version # None /\ j.version \in Version
          /\ d \in Version \cup {None}
      BY <1>2, <2>1, PageFacts DEF PageType, TaskType, TaskKnown
    <2>4. PICK new : new = LoadList([ui EXCEPT !.selected = j.version,
                               !.draftRef = IF @ = j.version THEN None ELSE @])
      OBVIOUS
    <2>5. Notes(new, d, j.version)
      <3>1. new = [ui EXCEPT !.selected = j.version, !.draftRef = d, !.loadError = FALSE]
        BY <2>1, <2>4, PageFacts DEF LoadList, PageType
      <3> QED BY <2>3, <3>1, PageFacts DEF PageType, Notes
    <2>6. /\ Shows(ui, new, server, fresh) /\ Settled(ui, new)
          /\ new.creating = ui.creating
      BY <2>2, <2>3, <2>5, NotesPage DEF Notes
    <2>7. PICK task : task = [ListTask(j, j.version) EXCEPT !.made = j.version, !.bg = FALSE]
      OBVIOUS
    <2>8. task = [j EXCEPT !.step = "list", !.version = j.version, !.made = j.version,
                           !.bg = FALSE]
      BY <2>7 DEF ListTask
    <2>9. Rerenders(ui, new, ui') /\ Begin(t, task)
      BY <1>1, <1>4, <2>4, <2>7 DEF Promoted, Rerenders
    <2> QED BY <1>1, <1>3, <2>3, <2>6, <2>8, <2>9, ListsNext
  <1>5. CASE ~Ok(t)
    <2>1. PICK new \in PageType : new = [ui EXCEPT !.deploying = FALSE, !.save = "error"]
      <3>1. [ui EXCEPT !.deploying = FALSE, !.save = "error"] \in PageType
        BY PageFacts DEF PageType
      <3> QED BY <3>1
    <2>2. /\ new.shown = ui.shown /\ new.panel = ui.panel /\ new.hist = ui.hist
          /\ new.hydrating = ui.hydrating /\ new.list = ui.list /\ new.selected = ui.selected
          /\ new.draftRef = ui.draftRef /\ new.baseline = ui.baseline
          /\ new.pending = ui.pending /\ new.creating = ui.creating
      BY <2>1, PageFacts DEF PageType
    <2>3. PageKnown(new, server)
      BY <2>2, PageFacts DEF PageKnown
    <2>4. Shows(ui, new, server, fresh) /\ Settled(ui, new)
      BY <2>2, <2>3, PageFacts, ShowsSame
    <2>5. Rerenders(ui, new, ui') /\ Begin(t, Idle)
      BY <1>5, <2>1 DEF Promoted, Rerenders
    <2> QED BY <1>3, <2>2, <2>4, <2>5, EndsNext
  <1> QED BY <1>4, <1>5

\* The library is loaded again in the course of a deployment.
LEMMA LibraryLoadedStep ==
    ASSUME EditorInv, NEW t \in Tasks, LibraryLoaded(t)
    PROVE  Stepped
  <1>1. PICK j : j = tasks[t]
    OBVIOUS
  <1>2. j \in TaskType /\ TaskKnown(j, server) /\ j.step = "library"
    BY <1>1, TaskFacts DEF LibraryLoaded, Answered
  <1>3. UNCHANGED <<server, fresh, budget>>
    BY DEF LibraryLoaded
  <1>4. Given(ui.draftRef, server) /\ Given(ui.selected, server)
    BY PageFacts DEF PageKnown
  <1>5. CASE Ok(t)
    <2>1. PICK new : new = LoadList(ui)
      OBVIOUS
    <2>2. Notes(new, ui.draftRef, ui.selected)
      BY <2>1, PageFacts DEF LoadList, PageType, Notes
    <2>3. /\ Shows(ui, new, server, fresh) /\ Settled(ui, new)
          /\ new.creating = ui.creating
      BY <1>4, <2>2, NotesPage DEF Notes
    <2>4. PICK task : task = ListTask(j, j.made)
      OBVIOUS
    <2>5. task = [j EXCEPT !.step = "list", !.version = j.made, !.made = j.made, !.bg = j.bg]
      BY <1>2, <2>4 DEF ListTask, TaskType
    <2>6. Given(j.made, server) /\ j.bg \in BOOLEAN /\ (j.kind = "create" => j.made # None)
      BY <1>2 DEF TaskType, TaskKnown
    <2>7. Rerenders(ui, new, ui') /\ Begin(t, task)
      BY <1>1, <1>5, <2>1, <2>4 DEF LibraryLoaded, Rerenders
    <2> QED BY <1>1, <1>3, <2>3, <2>5, <2>6, <2>7, ListsNext
  <1>6. CASE ~Ok(t)
    <2>1. PICK new : new = [ui EXCEPT !.loadError = TRUE, !.loading = FALSE]
      OBVIOUS
    <2>2. Notes(new, ui.draftRef, ui.selected)
      BY <2>1, PageFacts DEF PageType, Notes
    <2>3. /\ Shows(ui, new, server, fresh) /\ Settled(ui, new)
          /\ new.creating = ui.creating
      BY <1>4, <2>2, NotesPage DEF Notes
    <2>4. Finish(t, new, FALSE) /\ tasks[t].step \notin Writes
      BY <1>1, <1>2, <1>6, <2>1 DEF LibraryLoaded, Writes
    <2> QED BY <1>3, <2>3, <2>4, FinishNext
  <1> QED BY <1>5, <1>6

\* A write is answered: the versions are loaded, or the save has failed.
LEMMA SaveAnsweredStep ==
    ASSUME EditorInv, NEW t \in Tasks, SaveAnswered(t)
    PROVE  Stepped
  <1>1. PICK j : j = tasks[t]
    OBVIOUS
  <1>2. /\ j \in TaskType /\ TaskKnown(j, server) /\ j.graph <= fresh
        /\ TaskInv(j, server, fresh)
    BY <1>1, TaskFacts
  <1>3. /\ UNCHANGED <<server, fresh, budget>> /\ j.step \in Writes
        /\ j.answer # "none" /\ (Ok(t) <=> j.answer = "ok")
    BY <1>1 DEF SaveAnswered, Ok
  <1>4. Given(ui.draftRef, server) /\ Given(ui.selected, server) /\ Given(None, server)
    BY PageFacts DEF PageKnown, Given
  <1>5. CASE j.kind = "create" /\ Ok(t)
    <2>1. j.made # None /\ Given(j.made, server) /\ j.made \in Version
      <3>1. j.step = "post" \/ j.made # None
        BY <1>2, <1>5 DEF TaskKnown
      <3> QED BY <1>2, <1>3, <1>5, <3>1 DEF TaskKnown, TaskType
    <2>2. PICK new : new = LoadList([ui EXCEPT !.draftRef = j.made])
      OBVIOUS
    <2>3. Notes(new, j.made, ui.selected)
      BY <2>1, <2>2, PageFacts DEF LoadList, PageType, Notes
    <2>4. /\ Shows(ui, new, server, fresh) /\ Settled(ui, new)
          /\ new.creating = ui.creating
      BY <1>4, <2>1, <2>3, NotesPage DEF Notes
    <2>5. PICK task : task = ListTask(j, None)
      OBVIOUS
    <2>6. /\ task = [j EXCEPT !.step = "list", !.version = None, !.made = j.made, !.bg = j.bg]
          /\ j.bg \in BOOLEAN
      BY <1>2, <2>5 DEF ListTask, TaskType
    <2>7. Rerenders(ui, new, ui') /\ Begin(t, task)
      BY <1>1, <1>5, <2>2, <2>5 DEF SaveAnswered, Rerenders
    <2> QED BY <1>1, <1>3, <1>4, <2>1, <2>4, <2>6, <2>7, ListsNext
  <1>6. CASE j.kind = "create" /\ ~Ok(t)
    <2>1. UNCHANGED ui /\ Begin(t, Idle)
      BY <1>1, <1>6 DEF SaveAnswered
    <2>2. TaskInv(Started(Idle), server, fresh) /\ Started(Idle).post = FALSE
      BY PageFacts, IdleInv, IdleFields
    <2> QED BY <1>3, <2>1, <2>2, PageFacts, BeginsOnly
  <1>7. CASE j.kind # "create" /\ Ok(t)
    <2>1. Given(j.made, server) /\ (j.post => j.made # None)
          /\ j.made \in Version \cup {None}
      BY <1>2, <1>3, <1>7 DEF TaskKnown, Writes, TaskType
    <2>2. PICK d \in Version \cup {None}, v \in Version \cup {None} :
             /\ d = (IF j.post THEN j.made ELSE ui.draftRef)
             /\ v = (IF j.post THEN j.made ELSE ui.selected)
      BY <2>1, PageFacts DEF PageType
    <2>3. PICK new : new = LoadList(IF ~j.post THEN ui
                                    ELSE [ui EXCEPT !.draftRef = j.made, !.selected = j.made])
      OBVIOUS
    <2>4. Notes(new, d, v)
      <3>1. CASE ~j.post
        BY <2>2, <2>3, <3>1, PageFacts DEF LoadList, PageType, Notes
      <3>2. CASE j.post
        <4>1. new = [ui EXCEPT !.draftRef = d, !.selected = v, !.loadError = FALSE]
          BY <2>2, <2>3, <3>2 DEF LoadList
        <4> QED BY <4>1, PageFacts DEF PageType, Notes
      <3> QED BY <3>1, <3>2
    <2>5. Given(d, server) /\ Given(v, server) /\ (ui.selected # None => v # None)
      BY <1>4, <2>1, <2>2
    <2>6. /\ Shows(ui, new, server, fresh) /\ Settled(ui, new)
          /\ new.creating = ui.creating
      BY <2>4, <2>5, NotesPage DEF Notes
    <2>7. PICK task : task = ListTask([j EXCEPT !.bg = TRUE], j.made)
      OBVIOUS
    <2>8. task = [j EXCEPT !.step = "list", !.version = j.made, !.made = j.made, !.bg = TRUE]
      BY <1>2, <2>7 DEF ListTask, TaskType
    <2>9. Rerenders(ui, new, ui') /\ Begin(t, task)
      BY <1>1, <1>7, <2>3, <2>7 DEF SaveAnswered, Rerenders
    <2> QED BY <1>1, <1>3, <1>7, <2>1, <2>6, <2>8, <2>9, ListsNext
  <1>8. CASE j.kind # "create" /\ ~Ok(t)
    <2>1. PICK new : new = SaveFailed(ui, j)
      OBVIOUS
    <2>2. Shows(ui, ui, server, fresh)
      BY PageFacts DEF PageInv, PendingInv, Shows, Screen
    <2>3. Ends(ui, ui, j, new, server, fresh)
      BY <1>2, <2>1, <2>2, PageFacts, SaveFailedPage
    <2>4. CASE j.kind = "save"
      <3>1. Rerenders(ui, new, ui') /\ Begin(t, Idle)
        BY <1>1, <1>8, <2>1, <2>4 DEF SaveAnswered, Rerenders
      <3> QED BY <1>1, <1>3, <2>3, <3>1, EndsNext DEF Ends
    <2>5. CASE j.kind # "save"
      <3>1. j.kind = "deploySave" /\ j.sel # None
        BY <1>2, <1>3, <1>8, <2>5 DEF TaskKnown, Saver
      <3>2. DeployAfterSave(t, new, j)
        BY <1>1, <1>8, <2>1, <3>1 DEF SaveAnswered
      <3>3. Goes
        BY <1>1, <1>2, <2>3, <3>1, <3>2, PageFacts, DeploysOn DEF Ends
      <3> QED BY <1>3, <3>3, PageFacts, PageOnly
    <2> QED BY <2>4, <2>5
  <1> QED BY <1>5, <1>6, <1>7, <1>8

\* A version is answered, and shown.
LEMMA DetailedStep ==
    ASSUME EditorInv, NEW t \in Tasks, Detailed(t)
    PROVE  Stepped
  <1>1. PICK j : j = tasks[t]
    OBVIOUS
  <1>2. /\ j \in TaskType /\ TaskKnown(j, server) /\ Old(j.got.graph, fresh)
        /\ j.step = "detail" /\ j.answer # "none" /\ (Ok(t) <=> j.answer = "ok")
    BY <1>1, TaskFacts DEF Detailed, Answered, Ok
  <1>3. UNCHANGED <<server, fresh, budget>> /\ tasks[t].step \notin Writes
    BY <1>1, <1>2 DEF Detailed, Writes
  <1>4. CASE Ok(t)
    <2>1. j.got.graph \in Seq(Graph) /\ j.version \in DOMAIN j.got.graph /\ j.bg \in BOOLEAN
          /\ j.version \in Version \cup {None}
      BY <1>2, <1>4 DEF TaskKnown, TaskType, Stored
    <2>2. PICK g \in Graph : g = j.got.graph[j.version] /\ g <= fresh
      BY <1>2, <2>1 DEF Old
    <2>3. PICK h \in History(Graph) : h = Reset(g)
      BY ResetType
    <2>4. PICK panel \in BOOLEAN, i \in Nat :
             /\ panel = (j.bg /\ ui.panel)
             /\ i = (IF j.bg THEN ui.loadTimers ELSE ui.loadTimers + 1)
      <3>1. ui.loadTimers \in Nat
        BY PageFacts DEF PageType
      <3>2. (IF j.bg THEN ui.loadTimers ELSE ui.loadTimers + 1) \in Nat
        BY <3>1
      <3>3. (j.bg /\ ui.panel) \in BOOLEAN
        OBVIOUS
      <3> QED BY <3>2, <3>3
    <2>5. PICK v \in Version \cup {None} : v = j.version
      BY <2>1
    <2>6. PICK new : new = ShowVersion(ui, j)
      OBVIOUS
    <2>7. new = [ui EXCEPT !.detail = v, !.shown = g, !.hydrating = TRUE, !.pending = FALSE,
                           !.baseline = g, !.hist = h, !.save = "idle", !.panel = panel,
                           !.loadTimers = i]
      BY <2>2, <2>3, <2>4, <2>5, <2>6 DEF ShowVersion
    <2>8. new \in PageType
      BY <2>7, PageFacts DEF PageType
    <2>9. /\ new.shown = g /\ new.hist = h /\ new.hydrating = TRUE /\ new.list = ui.list
          /\ new.selected = ui.selected /\ new.draftRef = ui.draftRef /\ new.baseline = g
          /\ new.pending = FALSE /\ new.creating = ui.creating
      BY <2>7, PageFacts DEF PageType
    <2>10. PageKnown(new, server)
      BY <2>9, PageFacts DEF PageKnown
    <2>11. Shows(ui, new, server, fresh) /\ Settled(ui, new)
      BY <2>2, <2>3, <2>8, <2>9, <2>10 DEF Shows, Settled, Screen
    <2>12. Finish(t, new, TRUE)
      BY <1>1, <1>4, <2>6 DEF Detailed
    <2> QED BY <1>3, <2>9, <2>11, <2>12, FinishNext
  <1>5. CASE ~Ok(t)
    <2>1. PICK b \in BOOLEAN : b = (j.bg /\ ui.loading)
      OBVIOUS
    <2>2. PICK new : new = [ui EXCEPT !.loadError = TRUE, !.detail = None, !.loading = b]
      OBVIOUS
    <2>3. Notes(new, ui.draftRef, ui.selected)
      BY <2>2, PageFacts DEF PageType, Notes
    <2>4. Given(ui.draftRef, server) /\ Given(ui.selected, server)
      BY PageFacts DEF PageKnown
    <2>5. /\ Shows(ui, new, server, fresh) /\ Settled(ui, new)
          /\ new.creating = ui.creating
      BY <2>3, <2>4, NotesPage DEF Notes
    <2>6. Finish(t, new, FALSE)
      BY <1>1, <1>5, <2>1, <2>2 DEF Detailed
    <2> QED BY <1>3, <2>5, <2>6, FinishNext
  <1> QED BY <1>4, <1>5

\* A list as the page keeps it: of versions that are stored.
ListKnown(list, s) ==
    /\ list.rev \in Seq(Nat) /\ list.prod \in Version \cup {None}
    /\ Len(list.rev) <= Len(s.graph) /\ list.prod \in DOMAIN list.rev \cup {None}
    /\ list \in [rev : Seq(Nat), prod : Version \cup {None}]

\* The page keeps a list of stored versions, with the draft it has just made.
LEMMA ListOfKnown ==
    ASSUME EditorInv, NEW got \in Stored, Consistent(got),
           Len(got.graph) <= Len(server.graph), NEW list, list = ListOf(ui, got)
    PROVE  ListKnown(list, server)
  <1>1. PICK a \in Seq(Graph), b \in Seq(Nat), p \in Version \cup {None} :
           a = got.graph /\ b = got.rev /\ p = got.prod
    BY DEF Stored
  <1>2. /\ Len(a) \in Nat /\ Len(b) \in Nat /\ DOMAIN a = 1 .. Len(a)
        /\ DOMAIN b = 1 .. Len(b) /\ Len(server.graph) \in Nat
    BY PageFacts
  <1>3. DOMAIN a = DOMAIN b /\ p \in DOMAIN b \cup {None}
    BY <1>1 DEF Consistent
  <1>4. Len(a) = Len(b)
    <2>1. ASSUME NEW x \in Nat, NEW y \in Nat, 1 .. x = 1 .. y
          PROVE  x = y
      BY <2>1
    <2> QED BY <1>2, <1>3, <2>1
  <1>5. PICK all : all = [rev |-> b, prod |-> p]
    OBVIOUS
  <1>6. CASE list = all
    <2>1. list.rev = b /\ list.prod = p /\ list \in [rev : Seq(Nat), prod : Version \cup {None}]
      BY <1>5, <1>6
    <2>2. Len(b) <= Len(server.graph)
      BY <1>1, <1>4
    <2> QED BY <1>3, <2>1, <2>2 DEF ListKnown
  <1>7. CASE list = [all EXCEPT !.rev = Append(@, 0)] /\ ui.draftRef = Len(b) + 1
    <2>1. PICK c \in Seq(Nat) :
             c = Append(b, 0) /\ Len(c) = Len(b) + 1 /\ DOMAIN c = 1 .. Len(b) + 1
      <3>1. /\ Append(b, 0) \in Seq(Nat) /\ Len(Append(b, 0)) = Len(b) + 1
            /\ DOMAIN Append(b, 0) = 1 .. Len(b) + 1
        OBVIOUS
      <3> QED BY <3>1
    <2>2. list = [rev |-> c, prod |-> p]
      BY <1>5, <1>7, <2>1
    <2>3. Len(b) + 1 <= Len(server.graph)
      <3>1. ui.draftRef \in 1 .. Len(server.graph) \cup {None}
        BY PageFacts DEF PageKnown, Given
      <3> QED BY <1>2, <1>7, <3>1 DEF None
    <2>4. p \in DOMAIN c \cup {None}
      BY <1>2, <1>3, <2>1
    <2> QED BY <2>1, <2>2, <2>3, <2>4 DEF ListKnown
  <1>8. list = all \/ (list = [all EXCEPT !.rev = Append(@, 0)] /\ ui.draftRef = Len(b) + 1)
    BY <1>1, <1>5 DEF ListOf
  <1> QED BY <1>6, <1>7, <1>8

\* What is selected is in the list, if there is anything.
LEMMA SelectionKnown ==
    ASSUME NEW s, s.graph \in Seq(Graph), NEW list, ListKnown(list, s), list.rev # <<>>,
           NEW k, NEW v, v = Selection(list, k)
    PROVE  Given(v, s) /\ v # None
  <1>1. PICK b \in Seq(Nat), p \in Nat : b = list.rev /\ p = list.prod
    BY EditorAssumption DEF ListKnown, Version, None
  <1>2. /\ Len(b) \in Nat /\ DOMAIN b = 1 .. Len(b) /\ Len(b) <= Len(s.graph)
        /\ p \in DOMAIN b \cup {None} /\ b # <<>>
    BY <1>1 DEF ListKnown
  <1>3. Len(b) > 0
    BY <1>2
  <1>4. Draft(list) = IF Len(b) > p THEN Len(b) ELSE None
    BY <1>1, DraftOf
  <1>5. list.prod = None => Draft(list) = Len(b)
    BY <1>1, <1>3, <1>4 DEF None
  <1>6. v \in DOMAIN b
    <2>1. Len(b) \in DOMAIN b
      BY <1>2, <1>3
    <2>2. list.prod # None => list.prod \in DOMAIN b
      BY <1>1, <1>2
    <2> QED BY <1>1, <1>5, <2>1, <2>2 DEF Selection
  <1>7. Len(s.graph) \in Nat /\ DOMAIN s.graph = 1 .. Len(s.graph)
    OBVIOUS
  <1> QED BY <1>2, <1>6, <1>7 DEF Given, None

\* The list is answered: a version is selected and asked for.
LEMMA ListedStep ==
    ASSUME EditorInv, NEW t \in Tasks, Listed(t)
    PROVE  Stepped
  <1>1. PICK j : j = tasks[t]
    OBVIOUS
  <1>2. /\ j \in TaskType /\ TaskKnown(j, server) /\ j.graph <= fresh
        /\ j.step = "list" /\ j.answer # "none"
    BY <1>1, TaskFacts DEF Listed, Answered
  <1>3. UNCHANGED <<server, fresh, budget>> /\ tasks[t].step \notin Writes
    BY <1>1, <1>2 DEF Listed, Writes
  <1>4. PICK list : list = ListOf(ui, j.got)
    OBVIOUS
  <1>5. ListKnown(list, server)
    <2>1. j.got \in Stored /\ Consistent(j.got) /\ Len(j.got.graph) <= Len(server.graph)
      BY <1>2 DEF TaskType, TaskKnown
    <2> QED BY <1>4, <2>1, ListOfKnown
  <1>6. CASE ~Ok(t)
    <2>1. PICK b \in BOOLEAN : b = (j.bg /\ ui.loading)
      OBVIOUS
    <2>2. PICK new : new = [ui EXCEPT !.loadError = TRUE, !.loading = b]
      OBVIOUS
    <2>3. Notes(new, ui.draftRef, ui.selected)
      BY <2>2, PageFacts DEF PageType, Notes
    <2>4. Given(ui.draftRef, server) /\ Given(ui.selected, server)
      BY PageFacts DEF PageKnown
    <2>5. /\ Shows(ui, new, server, fresh) /\ Settled(ui, new)
          /\ new.creating = ui.creating
      BY <2>3, <2>4, NotesPage DEF Notes
    <2>6. Finish(t, new, FALSE)
      BY <1>1, <1>6, <2>1, <2>2 DEF Listed
    <2> QED BY <1>3, <2>5, <2>6, FinishNext
  <1>7. CASE Ok(t) /\ list.rev = <<>>
    <2>1. PICK g \in Graph : g = EmptyGraph /\ g <= fresh
      BY PageFacts, EditorAssumption DEF EmptyGraph, Graph
    <2>2. PICK h \in History(Graph) : h = Reset(g)
      BY ResetType
    <2>3. PICK b \in BOOLEAN : b = (j.bg /\ ui.loading)
      OBVIOUS
    <2>4. PICK new : new = NothingStored([ui EXCEPT !.list = list], j)
      OBVIOUS
    <2>5. new = [ui EXCEPT !.list = list, !.selected = None, !.shown = g, !.hydrating = TRUE,
                           !.baseline = g, !.hist = h, !.pending = FALSE, !.loading = b]
      BY <2>1, <2>2, <2>3, <2>4, PageFacts DEF NothingStored, PageType
    <2>6. new \in PageType
      BY <1>5, <2>5, PageFacts DEF PageType, ListKnown
    <2>7. /\ new.shown = g /\ new.hist = h /\ new.hydrating = TRUE /\ new.list = list
          /\ new.selected = None /\ new.draftRef = ui.draftRef /\ new.baseline = g
          /\ new.pending = FALSE /\ new.creating = ui.creating
      BY <2>5, PageFacts DEF PageType
    <2>8. PageKnown(new, server)
      BY <1>5, <1>7, <2>7, PageFacts DEF PageKnown, ListKnown, Given
    <2>9. Shows(ui, new, server, fresh) /\ Settled(ui, new)
      BY <2>1, <2>2, <2>6, <2>7, <2>8 DEF Shows, Settled, Screen
    <2>10. Finish(t, new, TRUE)
      BY <1>1, <1>4, <1>7, <2>4 DEF Listed
    <2> QED BY <1>3, <2>7, <2>9, <2>10, FinishNext
  <1>8. CASE Ok(t) /\ list.rev # <<>>
    <2>1. PICK v : v = Selection(list, j) /\ Given(v, server) /\ v # None
      BY <1>5, <1>8, PageFacts, SelectionKnown
    <2>2. v \in Version \cup {None}
      BY <2>1, PageFacts, GivenVersion
    <2>3. PICK b \in BOOLEAN : b = (ui.loading \/ ~j.bg)
      OBVIOUS
    <2>4. PICK new : new = [[ui EXCEPT !.list = list] EXCEPT !.selected = v, !.loadError = FALSE,
                                                             !.loading = @ \/ ~j.bg]
      OBVIOUS
    <2>5. new = [ui EXCEPT !.list = list, !.selected = v, !.loadError = FALSE, !.loading = b]
      BY <2>3, <2>4, PageFacts DEF PageType
    <2>6. new \in PageType
      BY <1>5, <2>2, <2>5, PageFacts DEF PageType, ListKnown
    <2>7. /\ new.shown = ui.shown /\ new.panel = ui.panel /\ new.hist = ui.hist
          /\ new.hydrating = ui.hydrating /\ new.list = list /\ new.selected = v
          /\ new.draftRef = ui.draftRef /\ new.baseline = ui.baseline
          /\ new.pending = ui.pending /\ new.creating = ui.creating
      BY <2>5, PageFacts DEF PageType
    <2>8. PageKnown(new, server)
      BY <1>5, <2>1, <2>7, PageFacts DEF PageKnown, ListKnown
    <2>9. Shows(ui, new, server, fresh) /\ Settled(ui, new)
      BY <2>6, <2>7, <2>8, PageFacts, ShowsSame
    <2>10. PICK task : task = [j EXCEPT !.step = "detail", !.version = v]
      OBVIOUS
    <2>11. Rerenders(ui, new, ui') /\ Begin(t, task)
      BY <1>1, <1>4, <1>8, <2>1, <2>4, <2>10 DEF Listed, Rerenders
    <2>12. PICK k : k = Started(task)
      OBVIOUS
    <2>13. k \in TaskType
      <3>1. task \in TaskType
        BY <1>2, <2>2, <2>10 DEF TaskType
      <3> QED BY <2>12, <3>1, StartedType
    <2>14. /\ k.kind = j.kind /\ k.step = "detail" /\ k.version = v /\ k.sel = j.sel
           /\ k.made = j.made /\ k.post = j.post /\ k.graph = j.graph
           /\ k.answer = "none" /\ k.got = NoStored
      BY <1>2, <2>10, <2>12 DEF TaskType, Started
    <2>15. TaskInv(k, server, fresh)
      <3>1. /\ Given(k.sel, server) /\ (k.kind = "deploySave" => k.sel # None)
            /\ Given(k.made, server) /\ (k.kind = "create" => k.made # None)
            /\ (k.post => k.kind \in Saver)
        BY <1>2, <2>14 DEF TaskKnown
      <3> QED BY <1>2, <2>1, <2>13, <2>14, <3>1, PageFacts, TaskBegins DEF Writes
    <2>16. Hands(tasks[t], k, ui.creating, new.creating)
      BY <1>1, <2>7, <2>14 DEF Hands
    <2>17. Goes
      BY <2>9, <2>11, <2>12, <2>15, <2>16, PageFacts, ReactBegins
    <2> QED BY <1>3, <2>17, PageFacts, PageOnly
  <1> QED BY <1>6, <1>7, <1>8

-----------------------------------------------------------------------------
(* The theorems                                                            *)

\* The page opens on any situation of the server.
LEMMA Starts ==
    ASSUME Init
    PROVE  EditorInv
  <1>1. PICK n \in Nat \ {0} : n = MaxVersions + 1 /\ fresh = n
    BY EditorAssumption DEF Init
  <1>2. ServerInv(server, n) /\ server \in Stored
    <2>1. /\ server \in Stored /\ Consistent(server)
          /\ \A v \in DOMAIN server.graph : server.graph[v] <= MaxVersions + 1
      BY SituationAssumption DEF Init
    <2> QED BY <1>1, <2>1 DEF ServerInv, Old
  <1>3. budget \in [UserAction -> Nat]
    BY SituationAssumption DEF Init
  <1>4. PICK g \in Graph : g = EmptyGraph /\ g <= n
    BY <1>1, EditorAssumption DEF EmptyGraph, Graph
  <1>5. PICK h \in History(Graph) : h = Reset(g)
    BY ResetType
  <1>6. ui = [list |-> [rev |-> <<>>, prod |-> None], selected |-> None, detail |-> None,
              shown |-> g, loading |-> FALSE, loadError |-> FALSE, pending |-> FALSE,
              baseline |-> g, hydrating |-> FALSE, save |-> "idle", draftRef |-> None,
              creating |-> FALSE, deploying |-> FALSE, panel |-> FALSE, hist |-> h,
              loadTimers |-> 0, savedTimers |-> 0]
    BY <1>4, <1>5 DEF Init, FirstPage
  <1>7. PageInv(ui, server, n)
    <2>1. <<>> \in Seq(Nat) /\ Len(<<>>) = 0
      OBVIOUS
    <2>2. ui \in PageType
      BY <1>6, <2>1 DEF PageType
    <2>3. PageKnown(ui, server)
      <3>1. Len(server.graph) \in Nat
        BY <1>2 DEF Stored
      <3> QED BY <1>6, <2>1, <3>1 DEF PageKnown, Given
    <2>4. PendingInv(ui, n)
      BY <1>4, <1>6 DEF PendingInv
    <2>5. Tidy(ui.hist, ui.shown, ui.hydrating, ui.panel, n)
      <3>1. /\ h.past = <<>> /\ h.future = <<>> /\ h.last = g /\ h.held = NoGraph
            /\ ~h.restoring
        BY <1>5 DEF Reset
      <3>2. \A r : Tidy(h, g, FALSE, FALSE, n) /\ Walked(r, h, g)
        BY <1>4, <3>1, TidyReset
      <3> QED BY <1>6, <3>2
    <2> QED BY <2>2, <2>3, <2>4, <2>5 DEF PageInv
  <1>8. PICK k : k = [Idle EXCEPT !.kind = "view", !.step = "list"]
    OBVIOUS
  <1>9. k \in TaskType
    BY <1>8, IdleFields DEF TaskType
  <1>10. /\ k.kind = "view" /\ k.step = "list" /\ k.version = None /\ k.sel = None
         /\ k.made = None /\ k.post = FALSE /\ k.graph = NoGraph
         /\ k.answer = "none" /\ k.got = NoStored
    BY <1>8, IdleFields DEF TaskType
  <1>11. TaskInv(k, server, n)
    <2>1. k.graph <= n /\ Given(None, server)
      BY <1>10 DEF NoGraph, Given
    <2> QED BY <1>2, <1>9, <1>10, <2>1, TaskBegins DEF Writes, Saver
  <1>12. \A t \in Tasks : tasks[t] \in {Idle, k}
    BY <1>8 DEF Init
  <1>13. TaskInv(Idle, server, n) /\ Idle.post = FALSE
    BY <1>2, IdleInv, IdleFields
  <1>14. tasks \in [Tasks -> TaskType] /\ \A t \in Tasks : TaskInv(tasks[t], server, n)
    <2>1. \A t \in Tasks : TaskInv(tasks[t], server, n)
      BY <1>11, <1>12, <1>13
    <2>2. \A t \in Tasks : tasks[t] \in TaskType
      BY <2>1 DEF TaskInv
    <2>3. tasks = [t \in Tasks |-> tasks[t]]
      BY DEF Init
    <2> QED BY <2>1, <2>2, <2>3
  <1>15. OneCreates(tasks, ui.creating)
    BY <1>10, <1>12, <1>13 DEF OneCreates
  <1> QED BY <1>1, <1>2, <1>3, <1>7, <1>14, <1>15 DEF EditorInv, Inv

\* One step per action: whatever happens, the invariant goes on to hold, the
\* version in production stays and the timeline is walked.
LEMMA NextStep ==
    ASSUME EditorInv, [Next]_vars
    PROVE  Stepped
  <1>1. ASSUME NEW t \in Tasks, Continue(t)
        PROVE  Stepped
    BY <1>1, SaveAnsweredStep, ListedStep, DetailedStep, PolledStep, PromotedStep,
       LibraryLoadedStep DEF Continue
  <1>2. ASSUME NEW t \in Tasks, User(t)
        PROVE  Stepped
    BY <1>2, ClosePanelStep, UndoEditStep, RedoEditStep, CreateDraftStep, DeployStep,
       ChooseVersionStep DEF User
  <1>3. ASSUME NEW t \in Tasks, AutoSave(t) \/ Poll(t) \/ Answer(t) \/ Refuse(t) \/ Fail(t)
        PROVE  Stepped
    BY <1>3, AutoSaveStep, PollStep, AnswerStep, RefuseStep, FailStep
  <1>4. CASE \E marks \in BOOLEAN : Edit(marks)
    BY <1>4, EditStep
  <1>5. CASE StopDragging \/ OpenPanel \/ OtherWindow \/ LiveEdit
    BY <1>5, StopDraggingStep, OpenPanelStep, OtherWindowStep, LiveEditStep
  <1>6. CASE SavedTimeout \/ LoadTimeout \/ HydrationTimeout
    BY <1>6, SavedTimeoutStep, LoadTimeoutStep, HydrationTimeoutStep
  <1>7. CASE UNCHANGED vars
    <2>1. UNCHANGED <<server, ui, tasks, fresh, budget>>
      BY <1>7 DEF vars
    <2>2. EditorInv'
      BY <2>1 DEF EditorInv
    <2> QED BY <2>1, <2>2, Stays DEF Stepped, Keeps
  <1> QED BY <1>1, <1>2, <1>3, <1>4, <1>5, <1>6, <1>7 DEF Next

\* The invariant holds in every state of every execution.
THEOREM Invariance == Spec => []EditorInv
  <1>1. EditorInv /\ [Next]_vars => EditorInv'
    BY NextStep DEF Stepped
  <1> QED BY Starts, <1>1, PTL DEF Spec

\* Types are part of the invariant.
LEMMA InvTypes == EditorInv => TypeOK
  BY DEF EditorInv, Inv, ServerInv, PageInv, TypeOK

\* The variables have their types, whatever users, the network and other
\* windows do: no selection, draft or function of the page names a version the
\* server could not hold, and the columns of the server agree.
THEOREM TypeCorrect == Spec => []TypeOK
  BY Invariance, InvTypes, PTL

\* While the page knows what was saved last, what is pending differs from it.
THEOREM PendingIsReal == Spec => []PendingDiffers
  <1>1. EditorInv => PendingDiffers
    BY DEF EditorInv, Inv, PageInv, PendingInv, PendingDiffers
  <1> QED BY Invariance, <1>1, PTL

\* Two saves of the page never both create the draft.
THEOREM OneDraft == Spec => []SingleCreation
  <1>1. ASSUME EditorInv
        PROVE  SingleCreation
    <2>1. \A t \in Creating : tasks[t].post
      <3>1. \A t \in Creating : t \in Tasks /\ TaskKnown(tasks[t], server)
        BY <1>1, TaskFacts DEF Creating
      <3> QED BY <3>1 DEF Creating, TaskKnown, Saver
    <2>2. \A t, r \in Creating : t = r
      BY <1>1, <2>1 DEF EditorInv, Inv, OneCreates, Creating
    <2>3. CASE Creating = {}
      BY <2>3, FS_EmptySet DEF SingleCreation
    <2>4. CASE Creating # {}
      <3>1. PICK t \in Creating : Creating = {t}
        BY <2>2, <2>4
      <3>2. Cardinality(Creating) = 1
        BY <3>1, FS_Singleton
      <3> QED BY <3>2 DEF SingleCreation
    <2> QED BY <2>3, <2>4
  <1> QED BY Invariance, <1>1, PTL

\* Only a live edit changes a version in production: no update does, be it asked
\* for before the promotion or by another window, and no other step of the page,
\* the server or the network.
THEOREM ProductionKept == Spec => PublishedKept
  <1>1. EditorInv /\ [Next]_vars =>
           [\/ server.prod = None
            \/ server'.graph[server.prod] = server.graph[server.prod]
            \/ LiveEdit]_vars
    BY NextStep DEF Stepped, Keeps
  <1> QED BY Invariance, <1>1, PTL DEF Spec, PublishedKept

-----------------------------------------------------------------------------
(* The timeline of undo and redo                                           *)

\* A step of the page's history is one of the timeline, or none at all.
LEMMA TimelineStep ==
    ASSUME EditorInv, EditorInv', Walks(ui, ui')
    PROVE  [Timeline!Next]_Timeline!vars
  <1>1. PICK h \in History(Graph), g \in Graph : h = ui.hist /\ g = ui.shown /\ h.last \in Graph
    BY PageFacts DEF PageType, PageInv, Tidy
  <1>2. PICK r \in History(Graph), k \in Graph :
           r = ui'.hist /\ k = ui'.shown /\ r.last \in Graph
    BY DEF EditorInv, Inv, PageInv, PageType, Tidy
  <1>3. Walked(h, r, k)
    BY <1>1, <1>2 DEF Walks
  <1>4. PICK s \in Seq(Graph), c \in Nat \ {0} : s = Line(h) /\ c = Cursor(h) /\ c <= Len(s)
    <2>1. /\ Line(h) \in Seq(Graph) /\ Cursor(h) \in Nat \ {0}
          /\ Cursor(h) \in DOMAIN Line(h)
      BY <1>1, LineEntries
    <2> QED BY <2>1
  <1>5. PICK w, d : w = Line(r) /\ d = Cursor(r)
    OBVIOUS
  <1>6. /\ ui.hist.past \o <<ui.hist.last>> \o ui.hist.future = s
        /\ Len(ui.hist.past) + 1 = c
        /\ (ui.hist.past \o <<ui.hist.last>> \o ui.hist.future)' = w
        /\ (Len(ui.hist.past) + 1)' = d
    BY <1>1, <1>2, <1>4, <1>5 DEF Line, Cursor
  <1>7. CASE w = s /\ d = c
    BY <1>2, <1>6, <1>7 DEF Timeline!Next, Timeline!Draw
  <1>8. CASE Recorded(w, s, c, k) /\ d = Len(w)
    <2>1. PICK n \in 0 .. c : w = SubSeq(Append(SubSeq(s, 1, c), k), n + 1, c + 1)
      BY <1>8 DEF Recorded
    <2>2. Len(Append(SubSeq(s, 1, c), k)) = c + 1
      BY <1>4
    <2>3. w = Timeline!Forget(Append(SubSeq(s, 1, c), k), n)
      BY <2>1, <2>2 DEF Timeline!Forget
    <2> QED BY <1>2, <1>6, <1>8, <2>3 DEF Timeline!Next, Timeline!RecordEdit
  <1>9. CASE c > 1 /\ d = c - 1 /\ k = Restore(s[c - 1]) /\ Undone(w, s, c)
    <2>1. s[c - 1] \in Graph
      BY <1>4, <1>9
    <2>2. k = [x \in Graph |-> Restore(x)][s[c - 1]]
      BY <1>9, <2>1
    <2>3. PICK n \in 0 .. Len(s) - c : w = SubSeq([s EXCEPT ![c - 1] = k], 1, Len(s) - n)
      <3>1. PICK n \in 0 .. Len(At(s, c - 1)) - c :
               w = SubSeq(At(s, c - 1), 1, Len(At(s, c - 1)) - n)
        BY <1>9 DEF Undone, CutAhead
      <3>2. Len(At(s, c - 1)) = Len(s)
        BY <1>4, <1>9, AtEntries
      <3> QED BY <1>9, <3>1, <3>2 DEF At
    <2> QED BY <1>2, <1>6, <1>9, <2>2, <2>3 DEF Timeline!Next, Timeline!Undo
  <1>10. CASE c < Len(s) /\ k = Restore(s[c + 1]) /\ Redone(w, d, s, c)
    <2>1. s[c + 1] \in Graph
      BY <1>4, <1>10
    <2>2. k = [x \in Graph |-> Restore(x)][s[c + 1]]
      BY <1>10, <2>1
    <2>3. PICK n \in 0 .. c :
             w = Timeline!Forget([s EXCEPT ![c + 1] = k], n) /\ d = c + 1 - n
      <3>1. PICK n \in 0 .. c : /\ w = SubSeq(At(s, c + 1), n + 1, Len(At(s, c + 1)))
                                /\ d = c + 1 - n
        BY <1>10 DEF Redone, CutBehind
      <3> QED BY <1>10, <3>1 DEF At, Timeline!Forget
    <2> QED BY <1>2, <1>6, <1>10, <2>2, <2>3 DEF Timeline!Next, Timeline!Redo
  <1>11. CASE w = <<k>> /\ d = 1
    BY <1>2, <1>6, <1>11 DEF Timeline!Next, Timeline!Load
  <1> QED BY <1>3, <1>4, <1>5, <1>7, <1>8, <1>9, <1>10, <1>11 DEF Walked

\* The page opens with one entry on its timeline.
LEMMA TimelineInit == Init => Timeline!Init
  <1> SUFFICES ASSUME Init
               PROVE  Timeline!Init
    OBVIOUS
  <1>1. /\ ui.shown = EmptyGraph /\ ui.hist = Reset(EmptyGraph)
    BY DEF Init, FirstPage
  <1>2. EmptyGraph \in Graph
    BY EditorAssumption DEF Graph, EmptyGraph
  <1>3. PICK h : h = Reset(EmptyGraph)
    OBVIOUS
  <1>4. h.past = <<>> /\ h.future = <<>> /\ h.last = EmptyGraph
    BY <1>3 DEF Reset
  <1>5. Line(h) = <<EmptyGraph>> /\ Cursor(h) = 1
    BY <1>2, <1>4, LineReset
  <1> QED BY <1>1, <1>2, <1>3, <1>5 DEF Timeline!Init, Line, Cursor

\* Undo and redo walk one timeline, for every history limit: an edit is recorded
\* right after the cursor, and nothing that is undone is skipped or comes back
\* out of order.
THEOREM HistoryIsTimeline == Spec => TimelineSpec
  <1>1. EditorInv /\ EditorInv' /\ [Next]_vars => [Timeline!Next]_Timeline!vars
    BY NextStep, TimelineStep DEF Stepped
  <1> QED BY Invariance, TimelineInit, <1>1, PTL DEF Spec, TimelineSpec, Timeline!Spec
=============================================================================
