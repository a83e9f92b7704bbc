--------------------------- MODULE DraftPageProofs ---------------------------
(***************************************************************************)
(* Proofs about the workflow builder: the inductive invariant of the page, *)
(* its functions and the server, and what each callback of the page does   *)
(* to it.  The theorems are in DraftEditorProofs.                          *)
(***************************************************************************)
EXTENDS UndoHistoryProofs, FiniteSetTheorems

\* v is a stored version, or none.
Given(v, s) == v \in DOMAIN s.graph \cup {None}

\* The page lists and names versions that are stored.
PageKnown(u, s) ==
    /\ Len(u.list.rev) <= Len(s.graph)
    /\ u.list.prod \in DOMAIN u.list.rev \cup {None}
    /\ Given(u.selected, s) /\ Given(u.draftRef, s)
    /\ u.list.rev # <<>> => u.selected # None

\* What is shown was made, and is not pending once it is saved.
PendingInv(u, n) ==
    /\ u.baseline <= n /\ u.shown <= n
    /\ u.pending /\ u.baseline # NoGraph /\ u.save # "error" => u.shown # u.baseline

PageInv(u, s, n) ==
    /\ u \in PageType /\ PageKnown(u, s)
    /\ Tidy(u.hist, u.shown, u.hydrating, u.panel, n) /\ PendingInv(u, n)

\* Its functions name stored versions, too.  Only a save that posts creates
\* the draft.
Saver == {"save", "deploySave"}

TaskKnown(k, s) ==
    /\ Given(k.version, s) /\ Given(k.made, s) /\ Given(k.sel, s)
    /\ Consistent(k.got) /\ Len(k.got.graph) <= Len(s.graph)
    /\ k.step \in {"detail", "promote", "put"} => k.version # None
    /\ k.step = "detail" /\ k.answer = "ok" => k.version \in DOMAIN k.got.graph
    /\ k.kind = "deploySave" => k.sel # None
    /\ k.step \in Writes => k.graph \in Graph /\ k.kind \in Saver \cup {"create"}
    /\ k.step = "put" => ~k.post
    /\ k.step = "post" /\ k.answer = "ok" => k.made # None
    /\ k.kind = "create" /\ k.step # "post" => k.made # None
    /\ k.post => k.kind \in Saver
    /\ k.kind \in Saver /\ k.step = "post" => k.post

TaskInv(k, s, n) ==
    k \in TaskType /\ TaskKnown(k, s) /\ k.graph <= n /\ Old(k.got.graph, n)

ServerInv(s, n) == s \in Stored /\ Consistent(s) /\ Old(s.graph, n)

\* At most one function creates the draft, and the page knows.
OneCreates(T, creating) ==
    /\ \A t \in Tasks : T[t].post => creating
    /\ \A t, r \in Tasks : T[t].post /\ T[r].post => t = r

Inv(s, u, T, n) ==
    /\ n \in Nat \ {0}
    /\ ServerInv(s, n) /\ PageInv(u, s, n)
    /\ T \in [Tasks -> TaskType] /\ \A t \in Tasks : TaskInv(T[t], s, n)
    /\ OneCreates(T, u.creating)

\* The inductive invariant of the editor.
EditorInv == Inv(server, ui, tasks, fresh) /\ budget \in [UserAction -> Nat]

\* A step of the page is a step of its timeline.
Walks(u, v) == Walked(u.hist, v.hist, v.shown)

-----------------------------------------------------------------------------
(* React                                                                   *)

\* The history effect keeps a history one.
LEMMA ObserveType ==
    ASSUME NEW h \in History(Graph), NEW g \in Graph,
           NEW hydrating \in BOOLEAN, NEW panel \in BOOLEAN
    PROVE  Observe(h, g, hydrating, panel) \in History(Graph)
  <1>1. ASSUME h.last # NoGraph, NEW k \in Graph
        PROVE  Record(h, k, HistoryLimit) \in History(Graph)
    <2>1. h.last \in Graph
      BY <1>1 DEF History
    <2>2. CASE h.last = k
      BY <2>2 DEF Record, History
    <2>3. CASE h.last # k
      BY <2>1, <2>3, RecordFields, LimitsAssumption
    <2> QED BY <2>2, <2>3
  <1>2. CASE ~hydrating /\ ~h.restoring /\ h.last # NoGraph /\ ~panel
    <2>1. Observe(h, g, hydrating, panel)
            = Record(h, IF h.held # NoGraph THEN h.held ELSE g, HistoryLimit)
      BY <1>2 DEF Observe
    <2>2. (IF h.held # NoGraph THEN h.held ELSE g) \in Graph
      BY DEF History
    <2> QED BY <1>1, <1>2, <2>1, <2>2
  <1>3. CASE ~(~hydrating /\ ~h.restoring /\ h.last # NoGraph /\ ~panel)
    <2>1. \/ Observe(h, g, hydrating, panel) = [h EXCEPT !.last = g, !.held = NoGraph]
          \/ Observe(h, g, hydrating, panel)
               = [h EXCEPT !.restoring = FALSE, !.last = g, !.held = NoGraph]
          \/ Observe(h, g, hydrating, panel) = [h EXCEPT !.held = g]
      BY <1>3 DEF Observe
    <2> QED BY <2>1 DEF History
  <1> QED BY <1>2, <1>3

\* What rendering and effects leave alone.
Kept(u, v) ==
    /\ v.list = u.list /\ v.selected = u.selected /\ v.detail = u.detail
    /\ v.shown = u.shown /\ v.loading = u.loading /\ v.loadError = u.loadError
    /\ v.creating = u.creating /\ v.deploying = u.deploying /\ v.panel = u.panel
    /\ v.loadTimers = u.loadTimers /\ v.savedTimers = u.savedTimers

Renders(old, new, r) ==
    /\ Kept(new, r) /\ r.hist = new.hist /\ r.hydrating = new.hydrating
    /\ r.save = new.save /\ r.pending = new.pending /\ r.draftRef \in {new.draftRef, None}
    /\ r.baseline = IF new.save = old.save THEN new.baseline ELSE NoGraph

\* A rendering touches nothing but the two refs.
LEMMA RenderedFacts ==
    ASSUME NEW old \in PageType, NEW new \in PageType, NEW reloaded \in BOOLEAN,
           NEW r, r = Rendered(old, new, reloaded)
    PROVE  r \in PageType /\ Renders(old, new, r)
  <1> DEFINE x == IF new.save = old.save THEN new.baseline ELSE NoGraph
             y == IF ~reloaded /\ WorkflowState(new) = WorkflowState(old) THEN new.draftRef
                  ELSE None
  <1>1. x \in Graph \cup {NoGraph} /\ y \in Version \cup {None} /\ y \in {new.draftRef, None}
    BY DEF PageType
  <1>2. r = [new EXCEPT !.baseline = x, !.draftRef = y]
    BY DEF Rendered, PageType
  <1> HIDE DEF x, y
  <1>3. [new EXCEPT !.baseline = x, !.draftRef = y] \in PageType
    BY <1>1 DEF PageType
  <1>4. /\ Kept(new, r) /\ r.baseline = x /\ r.draftRef = y
        /\ r.hist = new.hist /\ r.hydrating = new.hydrating /\ r.save = new.save
        /\ r.pending = new.pending
    BY <1>2 DEF PageType, Kept
  <1> QED BY <1>1, <1>2, <1>3, <1>4 DEF x, Renders

\* The effect on the graph decides what is pending, and nothing else.
LEMMA MarkFacts ==
    ASSUME NEW u \in PageType, NEW r, r = MarkPending(u)
    PROVE  /\ r \in PageType /\ Kept(u, r) /\ r.hist = u.hist
           /\ ~r.hydrating /\ r.save = u.save /\ r.draftRef = u.draftRef
           /\ u.hydrating => r.pending = u.pending /\ r.baseline = u.baseline
           /\ ~u.hydrating => /\ r.baseline \in {u.baseline, u.shown}
                              /\ r.pending => r.shown # r.baseline
  BY DEF MarkPending, PageType, Kept

\* The effect on errors of the graph forgets what was saved.
LEMMA ReportFacts ==
    ASSUME NEW u \in PageType, NEW r, r = ReportInvalid(u)
    PROVE  /\ r \in PageType /\ Kept(u, r) /\ r.hist = u.hist
           /\ r.hydrating = u.hydrating /\ r.draftRef = u.draftRef
           /\ r.pending = u.pending /\ r.baseline = NoGraph
  BY DEF ReportInvalid, PageType, Kept

\* What is rendered: the history observes a graph or a panel that changed, and
\* what is pending either differs from what is saved or was so before.
Reacts(old, new, u) ==
    /\ Kept(new, u) /\ u.draftRef \in {new.draftRef, None}
    /\ u.hist = IF new.shown # old.shown \/ new.panel # old.panel
                THEN Observe(new.hist, new.shown, new.hydrating, new.panel)
                ELSE new.hist
    /\ u.hydrating = IF new.shown # old.shown THEN FALSE ELSE new.hydrating
    /\ u.baseline \in {NoGraph, new.baseline, new.shown}
    /\ u.pending /\ u.baseline # NoGraph /\ u.shown = u.baseline =>
          /\ new.pending /\ u.baseline = new.baseline
          /\ u.save = new.save /\ new.save = old.save
          /\ new.shown = old.shown \/ new.hydrating

\* A rendering with all its effects.
LEMMA ReactFacts ==
    ASSUME NEW old \in PageType, NEW new \in PageType, NEW reloaded \in BOOLEAN,
           NEW u, u = React(old, new, reloaded)
    PROVE  u \in PageType /\ Reacts(old, new, u)
  <1>1. PICK r \in PageType : r = Rendered(old, new, reloaded)
    <2>1. Rendered(old, new, reloaded) \in PageType
      BY RenderedFacts
    <2> QED BY <2>1
  <1>2. Renders(old, new, r)
    BY <1>1, RenderedFacts
  <1>3. PICK o \in PageType :
           o = IF r.shown # old.shown \/ r.panel # old.panel
               THEN [r EXCEPT !.hist = Observe(r.hist, r.shown, r.hydrating, r.panel)]
               ELSE r
    <2>1. PICK h \in History(Graph) : h = Observe(r.hist, r.shown, r.hydrating, r.panel)
      <3>1. r.hist \in History(Graph) /\ r.shown \in Graph
            /\ r.hydrating \in BOOLEAN /\ r.panel \in BOOLEAN
        BY DEF PageType
      <3>2. Observe(r.hist, r.shown, r.hydrating, r.panel) \in History(Graph)
        BY <3>1, ObserveType
      <3> QED BY <3>2
    <2>2. [r EXCEPT !.hist = h] \in PageType
      BY DEF PageType
    <2> QED BY <2>1, <2>2
  <1>4. /\ Kept(r, o) /\ o.hydrating = r.hydrating /\ o.save = r.save
        /\ o.pending = r.pending /\ o.draftRef = r.draftRef /\ o.baseline = r.baseline
        /\ o.hist = IF r.shown # old.shown \/ r.panel # old.panel
                    THEN Observe(r.hist, r.shown, r.hydrating, r.panel) ELSE r.hist
    BY <1>3 DEF PageType, Kept
  <1>5. PICK m \in PageType : m = IF r.shown # old.shown THEN MarkPending(o) ELSE o
    <2>1. MarkPending(o) \in PageType
      BY MarkFacts
    <2> QED BY <2>1
  <1>6. /\ Kept(o, m) /\ m.hist = o.hist /\ m.save = o.save /\ m.draftRef = o.draftRef
        /\ m.hydrating = IF r.shown # old.shown THEN FALSE ELSE o.hydrating
        /\ m.baseline \in {o.baseline, o.shown}
        /\ m.pending => \/ m.shown # m.baseline
                        \/ /\ o.pending /\ m.baseline = o.baseline
                           /\ r.shown = old.shown \/ o.hydrating
    <2>1. CASE r.shown # old.shown
      <3>1. m = MarkPending(o)
        BY <1>5, <2>1
      <3>2. m.hydrating = FALSE
        BY <3>1, MarkFacts DEF PageType
      <3> QED BY <2>1, <3>1, <3>2, MarkFacts
    <2>2. CASE r.shown = old.shown
      <3>1. m = o
        BY <1>5, <2>2
      <3> QED BY <2>2, <3>1 DEF Kept
    <2> QED BY <2>1, <2>2
  <1>7. u = IF r.shown \in Invalid /\ old.shown \notin Invalid THEN ReportInvalid(m) ELSE m
    BY <1>1, <1>3, <1>5 DEF React
  <1>8. /\ u \in PageType /\ Kept(m, u) /\ u.hist = m.hist /\ u.hydrating = m.hydrating
        /\ u.draftRef = m.draftRef /\ u.pending = m.pending
        /\ u.baseline = NoGraph \/ (u.baseline = m.baseline /\ u.save = m.save)
    <2>1. CASE u = ReportInvalid(m)
      BY <2>1, ReportFacts
    <2>2. CASE u = m
      BY <2>2 DEF Kept
    <2> QED BY <1>7, <2>1, <2>2
  <1>9. r.shown = new.shown /\ r.panel = new.panel /\ Kept(new, u)
    BY <1>2, <1>4, <1>6, <1>8 DEF Kept, Renders
  <1> QED BY <1>2, <1>4, <1>6, <1>8, <1>9 DEF Kept, Renders, Reacts

-----------------------------------------------------------------------------
(* Steps of the page                                                       *)

\* The screen stays, or gives way to a version that is hydrated.
Screen(old, new, n) ==
    \/ /\ new.shown = old.shown /\ new.panel = old.panel
       /\ new.hydrating = old.hydrating /\ new.hist = old.hist
    \/ new.hydrating /\ new.hist = Reset(new.shown) /\ new.shown <= n

\* Nothing is pending that is saved.
Settled(old, new) ==
    new.pending /\ new.baseline # NoGraph /\ new.save = old.save /\ new.save # "error"
        => new.shown # new.baseline

Shows(old, new, s, n) ==
    new \in PageType /\ PageKnown(new, s) /\ new.baseline <= n /\ Screen(old, new, n)

\* Rendering names no new version.
LEMMA KnownKept ==
    ASSUME NEW u, NEW v, NEW s, PageKnown(u, s), Kept(u, v), v.draftRef \in {u.draftRef, None}
    PROVE  PageKnown(v, s)
  BY DEF PageKnown, Kept, Given

\* What is pending after the effects.
LEMMA ReactPending ==
    ASSUME NEW old \in PageType, NEW new \in PageType, NEW u \in PageType, NEW n \in Nat,
           new.shown <= n, new.baseline <= n, Reacts(old, new, u),
           new.shown = old.shown \/ new.hydrating => Settled(old, new)
    PROVE  PendingInv(u, n)
  <1>1. u.shown <= n /\ u.baseline <= n
    BY DEF Reacts, Kept, NoGraph
  <1>2. u.pending /\ u.baseline # NoGraph /\ u.save # "error" => u.shown # u.baseline
    BY DEF Reacts, Kept, Settled
  <1> QED BY <1>1, <1>2 DEF PendingInv

\* A callback that turned old into new has become u, with all its effects.
Rerenders(old, new, u) == \E reloaded \in BOOLEAN : u = React(old, new, reloaded)

\* Almost every callback changes nothing on the screen or loads a version.
Turns(old, new, u, s, n) ==
    PageInv(u, s, n) /\ Walks(old, u) /\ u.creating = new.creating

\* Such a callback keeps the invariant of the page.
LEMMA ReactPage ==
    ASSUME NEW s, NEW n \in Nat, NEW old, PageInv(old, s, n), NEW new,
           Shows(old, new, s, n), Settled(old, new), NEW u, Rerenders(old, new, u)
    PROVE  Turns(old, new, u, s, n)
  <1>1. old \in PageType /\ new \in PageType
    BY DEF PageInv, Shows
  <1>2. u \in PageType /\ Reacts(old, new, u)
    BY <1>1, ReactFacts DEF Rerenders
  <1>3. PageKnown(u, s) /\ u.creating = new.creating
    BY <1>2, KnownKept DEF Shows, Reacts, Kept
  <1>4. new.shown <= n
    BY DEF PageInv, PendingInv, Shows, Screen
  <1>5. PendingInv(u, n)
    BY <1>1, <1>2, <1>4, ReactPending DEF Shows
  <1>6. Tidy(u.hist, u.shown, u.hydrating, u.panel, n) /\ Walks(old, u)
    <2>1. CASE /\ new.shown = old.shown /\ new.panel = old.panel
               /\ new.hydrating = old.hydrating /\ new.hist = old.hist
      <3>1. /\ u.hist = old.hist /\ u.shown = old.shown
            /\ u.hydrating = old.hydrating /\ u.panel = old.panel
        BY <1>2, <2>1 DEF Reacts, Kept
      <3> QED BY <3>1 DEF PageInv, Walks, Walked
    <2>2. CASE new.hydrating /\ new.hist = Reset(new.shown) /\ new.shown <= n
      <3>1. PICK g \in Graph : g = new.shown
        BY <1>1 DEF PageType
      <3>2. PICK h \in History(Graph) : h = Reset(g)
        BY ResetType
      <3>3. /\ h.past = <<>> /\ h.future = <<>> /\ h.last = g /\ h.held = NoGraph
            /\ ~h.restoring
        BY <3>2 DEF Reset
      <3>4. Observe(h, g, TRUE, new.panel) = h
        <4>1. Observe(h, g, TRUE, new.panel) = [h EXCEPT !.last = g, !.held = NoGraph]
          BY DEF Observe
        <4> QED BY <3>3, <4>1 DEF History
      <3>5. u.hist = h /\ u.shown = g /\ u.hydrating \in BOOLEAN /\ u.panel \in BOOLEAN
        <4>1. new.hydrating = TRUE
          BY <1>1, <2>2 DEF PageType
        <4>2. u.hydrating \in BOOLEAN /\ u.panel \in BOOLEAN
          BY <1>2 DEF PageType
        <4> QED BY <1>2, <2>2, <3>1, <3>2, <3>4, <4>1, <4>2 DEF Reacts, Kept
      <3>6. \A k : Tidy(h, g, u.hydrating, u.panel, n) /\ Walked(k, h, g)
        BY <2>2, <3>1, <3>3, <3>5, TidyReset
      <3> QED BY <3>5, <3>6 DEF Walks
    <2> QED BY <2>1, <2>2 DEF Shows, Screen
  <1> QED BY <1>2, <1>3, <1>5, <1>6 DEF PageInv, Turns

\* The callbacks that change the screen, one by one.
LEMMA EditPage ==
    ASSUME NEW s, NEW n \in Nat, NEW m \in Graph, m = n + 2, PageInv(ui, s, n),
           NEW marks \in BOOLEAN, NEW u,
           Rerenders(ui, [ui EXCEPT !.shown = m, !.pending = @ \/ marks], u)
    PROVE  Turns(ui, ui, u, s, m)
  <1>1. ui \in PageType /\ PageKnown(ui, s) /\ PendingInv(ui, n)
        /\ Tidy(ui.hist, ui.shown, ui.hydrating, ui.panel, n)
    BY DEF PageInv
  <1>2. PICK new \in PageType : new = [ui EXCEPT !.shown = m, !.pending = @ \/ marks]
    <2>1. [ui EXCEPT !.shown = m, !.pending = @ \/ marks] \in PageType
      BY <1>1 DEF PageType
    <2> QED BY <2>1
  <1>3. /\ new.shown = m /\ new.list = ui.list /\ new.selected = ui.selected
        /\ new.draftRef = ui.draftRef /\ new.creating = ui.creating
        /\ new.hist = ui.hist /\ new.hydrating = ui.hydrating /\ new.panel = ui.panel
        /\ new.baseline = ui.baseline /\ new.save = ui.save
    BY <1>1, <1>2 DEF PageType
  <1>4. u \in PageType /\ Reacts(ui, new, u)
    BY <1>1, <1>2, ReactFacts DEF Rerenders
  <1>5. PageKnown(new, s)
    BY <1>1, <1>3 DEF PageKnown
  <1>6. PageKnown(u, s) /\ u.creating = ui.creating
    <2>1. Kept(new, u) /\ u.draftRef \in {new.draftRef, None}
      BY <1>4 DEF Reacts
    <2>2. u.creating = new.creating
      BY <2>1 DEF Kept
    <2> QED BY <1>3, <1>5, <2>1, <2>2, KnownKept
  <1>7. /\ ui.baseline \in Nat /\ ui.shown \in Nat
        /\ ui.baseline <= n /\ ui.shown <= n
    BY <1>1, GraphNat DEF PageType, PendingInv, NoGraph
  <1>8. new.shown # ui.shown /\ new.shown # new.baseline /\ new.baseline <= m
    BY <1>3, <1>7
  <1>9. PendingInv(u, m)
    <2>1. new.shown = ui.shown \/ new.hydrating => Settled(ui, new)
      BY <1>8 DEF Settled
    <2>2. new.shown <= m /\ m \in Nat
      BY <1>3, <1>7
    <2> QED BY <1>1, <1>4, <1>8, <2>1, <2>2, ReactPending
  <1>10. Tidy(u.hist, u.shown, u.hydrating, u.panel, m) /\ Walks(ui, u)
    <2>1. PICK h \in History(Graph), g \in Graph : h = ui.hist /\ g = ui.shown
      BY <1>1 DEF PageType
    <2>2. PICK hydrating \in BOOLEAN, panel \in BOOLEAN :
             hydrating = ui.hydrating /\ panel = ui.panel
      BY <1>1 DEF PageType
    <2>3. /\ u.hist = Observe(h, m, hydrating, panel) /\ u.shown = m
          /\ u.hydrating = FALSE /\ u.panel = panel
      BY <1>3, <1>4, <1>8, <2>1, <2>2 DEF Reacts, Kept
    <2>4. Tidy(h, g, hydrating, panel, n) /\ m \in Nat /\ n <= m /\ m <= m
      BY <1>1, <2>1, <2>2
    <2>5. Newer(m, Line(h))
      <3>1. Line(h) \in Seq(Graph) /\ Old(Line(h), n)
        BY <2>4, LineEntries DEF Tidy
      <3> QED BY <2>1, <3>1, OldIsNewer
    <2>6. Tidy(h, g, hydrating, panel, m)
      BY <2>4, TidyGrows
    <2>7. ASSUME NEW r, r = u.hist
          PROVE  Tidy(r, m, FALSE, panel, m) /\ Walked(h, r, m)
      <3>0. Drawn(m, g, h)
        BY <2>5 DEF Drawn
      <3>1. CASE hydrating = TRUE
        <4>1. Tidy(h, g, TRUE, panel, m) /\ r = Observe(h, m, TRUE, panel)
          BY <2>3, <2>6, <2>7, <3>1
        <4> QED BY <2>4, <4>1, TidyHydrating
      <3>2. CASE hydrating = FALSE /\ panel = TRUE
        <4>1. Tidy(h, g, FALSE, TRUE, m) /\ r = Observe(h, m, FALSE, TRUE)
          BY <2>3, <2>6, <2>7, <3>2
        <4>2. Tidy(r, m, FALSE, TRUE, m) /\ Walked(h, r, m)
          BY ONLY <2>1, <2>4, <3>0, <4>1, m \in Graph, TidyDraw
        <4> QED BY <3>2, <4>2
      <3>3. CASE hydrating = FALSE /\ panel = FALSE
        <4>1. Tidy(h, g, FALSE, FALSE, m) /\ r = Observe(h, m, FALSE, FALSE)
          BY <2>3, <2>6, <2>7, <3>3
        <4>2. Tidy(r, m, FALSE, FALSE, m) /\ Walked(h, r, m)
          BY ONLY <2>1, <2>4, <2>5, <4>1, m \in Graph, TidyEdit
        <4> QED BY <3>3, <4>2
      <3> QED BY <3>1, <3>2, <3>3
    <2> QED BY <2>1, <2>3, <2>7 DEF Walks
  <1> QED BY <1>4, <1>6, <1>9, <1>10 DEF PageInv, Turns

\* The panel opens, or closes on what was held.
LEMMA PanelPage ==
    ASSUME NEW s, NEW n \in Nat, PageInv(ui, s, n), NEW open \in BOOLEAN, open # ui.panel,
           NEW u, u = React(ui, [ui EXCEPT !.panel = open], FALSE)
    PROVE  PageInv(u, s, n) /\ Walks(ui, u) /\ u.creating = ui.creating
  <1>1. ui \in PageType /\ PageKnown(ui, s) /\ PendingInv(ui, n)
        /\ Tidy(ui.hist, ui.shown, ui.hydrating, ui.panel, n)
    BY DEF PageInv
  <1>2. PICK new \in PageType : new = [ui EXCEPT !.panel = open]
    <2>1. [ui EXCEPT !.panel = open] \in PageType
      BY <1>1 DEF PageType
    <2> QED BY <2>1
  <1>3. /\ new.panel = open /\ new.list = ui.list /\ new.selected = ui.selected
        /\ new.draftRef = ui.draftRef /\ new.creating = ui.creating
        /\ new.hist = ui.hist /\ new.hydrating = ui.hydrating /\ new.shown = ui.shown
        /\ new.baseline = ui.baseline /\ new.save = ui.save /\ new.pending = ui.pending
    BY <1>1, <1>2 DEF PageType
  <1>4. u \in PageType /\ Reacts(ui, new, u)
    BY <1>1, <1>2, ReactFacts
  <1>5. PageKnown(new, s)
    BY <1>1, <1>3 DEF PageKnown
  <1>6. PageKnown(u, s) /\ u.creating = ui.creating
    <2>1. Kept(new, u) /\ u.draftRef \in {new.draftRef, None}
      BY <1>4 DEF Reacts
    <2>2. u.creating = new.creating
      BY <2>1 DEF Kept
    <2> QED BY <1>3, <1>5, <2>1, <2>2, KnownKept
  <1>7. new.shown <= n /\ new.baseline <= n /\ Settled(ui, new)
    BY <1>1, <1>3 DEF PendingInv, Settled
  <1>8. PendingInv(u, n)
    BY <1>1, <1>4, <1>7, ReactPending
  <1>9. Tidy(u.hist, u.shown, u.hydrating, u.panel, n) /\ Walks(ui, u)
    <2>1. PICK h \in History(Graph), g \in Graph : h = ui.hist /\ g = ui.shown
      BY <1>1 DEF PageType
    <2>2. PICK hydrating \in BOOLEAN, panel \in BOOLEAN :
             hydrating = ui.hydrating /\ panel = ui.panel
      BY <1>1 DEF PageType
    <2>3. /\ u.hist = Observe(h, g, hydrating, open) /\ u.shown = g
          /\ u.hydrating = hydrating /\ u.panel = open /\ panel # open
      BY <1>3, <1>4, <2>1, <2>2 DEF Reacts, Kept
    <2>4. Tidy(h, g, hydrating, panel, n) /\ g <= n
      BY <1>1, <1>3, <1>7, <2>1, <2>2
    <2>5. ASSUME NEW r, r = u.hist
          PROVE  Tidy(r, g, hydrating, open, n) /\ Walked(h, r, g)
      <3>1. CASE hydrating = TRUE
        <4>1. Tidy(h, g, TRUE, panel, n) /\ r = Observe(h, g, TRUE, open)
          BY <2>3, <2>4, <2>5, <3>1
        <4>2. Tidy(r, g, TRUE, open, n) /\ Walked(h, r, g)
          BY <4>1, TidyHydrated
        <4> QED BY <3>1, <4>2
      <3>2. CASE hydrating = FALSE /\ open = TRUE
        <4>1. Tidy(h, g, FALSE, panel, n) /\ r = Observe(h, g, FALSE, TRUE)
          BY <2>3, <2>4, <2>5, <3>2
        <4>2. Drawn(g, g, h)
          BY DEF Drawn
        <4>3. Tidy(r, g, FALSE, TRUE, n) /\ Walked(h, r, g)
          BY <4>1, <4>2, TidyDraw
        <4> QED BY <3>2, <4>3
      <3>3. CASE hydrating = FALSE /\ open = FALSE
        <4>1. Tidy(h, g, FALSE, TRUE, n) /\ r = Observe(h, g, FALSE, FALSE)
          BY <2>3, <2>4, <2>5, <3>3
        <4>2. Tidy(r, g, FALSE, FALSE, n) /\ Walked(h, r, g)
          BY <2>4, <4>1, TidyClose
        <4> QED BY <3>3, <4>2
      <3> QED BY <3>1, <3>2, <3>3
    <2> QED BY <2>1, <2>3, <2>5 DEF Walks
  <1> QED BY <1>4, <1>6, <1>8, <1>9 DEF PageInv

\* undoHistory, with the rendering and the effects that follow.
LEMMA UndoPage ==
    ASSUME NEW s, NEW n \in Nat, PageInv(ui, s, n), CanUndo(ui.hist),
           NEW u, u = React(ui, [ui EXCEPT !.shown = Restore(UndoTarget(ui.hist)), !.hist = Undo(@),
                                           !.panel = FALSE], FALSE)
    PROVE  PageInv(u, s, n) /\ Walks(ui, u) /\ u.creating = ui.creating
  <1>1. ui \in PageType /\ PageKnown(ui, s) /\ PendingInv(ui, n)
        /\ Tidy(ui.hist, ui.shown, ui.hydrating, ui.panel, n)
    BY DEF PageInv
  <1>2. PICK h \in History(Graph), g \in Graph, hydrating \in BOOLEAN, panel \in BOOLEAN :
           h = ui.hist /\ g = ui.shown /\ hydrating = ui.hydrating /\ panel = ui.panel
    BY <1>1 DEF PageType
  <1>3. Tidy(h, g, hydrating, panel, n) /\ CanUndo(h)
    BY <1>1, <1>2
  <1>4. ASSUME NEW k, k = Restore(UndoTarget(h)), NEW r, r = Observe(Undo(h), k, FALSE, FALSE)
        PROVE  hydrating = FALSE /\ Restored(h, Undo(h), r, g, k, n)
    BY <1>3, <1>4, TidyUndo
  <1>5. PICK k \in Graph, d \in History(Graph) :
           k = Restore(UndoTarget(h)) /\ d = Undo(h) /\ k # g /\ k <= n /\ hydrating = FALSE
    BY <1>4 DEF Restored
  <1>6. PICK r \in History(Graph) :
           r = Observe(d, k, FALSE, FALSE) /\ Tidy(r, k, FALSE, FALSE, n) /\ Walked(h, r, k)
    BY <1>4, <1>5 DEF Restored
  <1>7. PICK new \in PageType :
           new = [ui EXCEPT !.shown = k, !.hist = d, !.panel = FALSE]
    <2>1. [ui EXCEPT !.shown = k, !.hist = d, !.panel = FALSE] \in PageType
      BY <1>1 DEF PageType
    <2> QED BY <2>1
  <1>8. /\ new.shown = k /\ new.list = ui.list /\ new.selected = ui.selected
        /\ new.draftRef = ui.draftRef /\ new.creating = ui.creating
        /\ new.hist = d /\ new.hydrating = ui.hydrating /\ new.panel = FALSE
        /\ new.baseline = ui.baseline
    BY <1>1, <1>7 DEF PageType
  <1>9. u \in PageType /\ Reacts(ui, new, u)
    BY <1>1, <1>2, <1>5, <1>7, ReactFacts
  <1>10. PageKnown(new, s)
    BY <1>1, <1>8 DEF PageKnown
  <1>11. PageKnown(u, s) /\ u.creating = ui.creating
    <2>1. Kept(new, u) /\ u.draftRef \in {new.draftRef, None}
      BY <1>9 DEF Reacts
    <2>2. u.creating = new.creating
      BY <2>1 DEF Kept
    <2> QED BY <1>8, <1>10, <2>1, <2>2, KnownKept
  <1>12. PendingInv(u, n)
    <2>1. new.shown # ui.shown /\ ~new.hydrating
      BY <1>2, <1>5, <1>8
    <2>2. new.shown <= n /\ new.baseline <= n
      BY <1>1, <1>5, <1>8 DEF PendingInv
    <2> QED BY <1>1, <1>9, <2>1, <2>2, ReactPending
  <1>13. /\ u.hist = r /\ u.shown = k /\ u.hydrating = FALSE /\ u.panel = FALSE
    BY <1>2, <1>5, <1>6, <1>8, <1>9 DEF Reacts, Kept
  <1>14. Walks(ui, u)
    BY <1>2, <1>6, <1>13 DEF Walks
  <1> QED BY <1>6, <1>9, <1>11, <1>12, <1>13, <1>14 DEF PageInv

\* redoHistory, with the rendering and the effects that follow.
LEMMA RedoPage ==
    ASSUME NEW s, NEW n \in Nat, PageInv(ui, s, n), CanRedo(ui.hist),
           NEW u, u = React(ui, [ui EXCEPT !.shown = Restore(RedoTarget(ui.hist)), !.hist = Redo(@),
                                           !.panel = FALSE], FALSE)
    PROVE  PageInv(u, s, n) /\ Walks(ui, u) /\ u.creating = ui.creating
  <1>1. ui \in PageType /\ PageKnown(ui, s) /\ PendingInv(ui, n)
        /\ Tidy(ui.hist, ui.shown, ui.hydrating, ui.panel, n)
    BY DEF PageInv
  <1>2. PICK h \in History(Graph), g \in Graph, hydrating \in BOOLEAN, panel \in BOOLEAN :
           h = ui.hist /\ g = ui.shown /\ hydrating = ui.hydrating /\ panel = ui.panel
    BY <1>1 DEF PageType
  <1>3. Tidy(h, g, hydrating, panel, n) /\ CanRedo(h)
    BY <1>1, <1>2
  <1>4. ASSUME NEW k, k = Restore(RedoTarget(h)), NEW r, r = Observe(Redo(h), k, FALSE, FALSE)
        PROVE  hydrating = FALSE /\ Restored(h, Redo(h), r, g, k, n)
    BY <1>3, <1>4, TidyRedo
  <1>5. PICK k \in Graph, d \in History(Graph) :
           k = Restore(RedoTarget(h)) /\ d = Redo(h) /\ k # g /\ k <= n /\ hydrating = FALSE
    BY <1>4 DEF Restored
  <1>6. PICK r \in History(Graph) :
           r = Observe(d, k, FALSE, FALSE) /\ Tidy(r, k, FALSE, FALSE, n) /\ Walked(h, r, k)
    BY <1>4, <1>5 DEF Restored
  <1>7. PICK new \in PageType :
           new = [ui EXCEPT !.shown = k, !.hist = d, !.panel = FALSE]
    <2>1. [ui EXCEPT !.shown = k, !.hist = d, !.panel = FALSE] \in PageType
      BY <1>1 DEF PageType
    <2> QED BY <2>1
  <1>8. /\ new.shown = k /\ new.list = ui.list /\ new.selected = ui.selected
        /\ new.draftRef = ui.draftRef /\ new.creating = ui.creating
        /\ new.hist = d /\ new.hydrating = ui.hydrating /\ new.panel = FALSE
        /\ new.baseline = ui.baseline
    BY <1>1, <1>7 DEF PageType
  <1>9. u \in PageType /\ Reacts(ui, new, u)
    BY <1>1, <1>2, <1>5, <1>7, ReactFacts
  <1>10. PageKnown(new, s)
    BY <1>1, <1>8 DEF PageKnown
  <1>11. PageKnown(u, s) /\ u.creating = ui.creating
    <2>1. Kept(new, u) /\ u.draftRef \in {new.draftRef, None}
      BY <1>9 DEF Reacts
    <2>2. u.creating = new.creating
      BY <2>1 DEF Kept
    <2> QED BY <1>8, <1>10, <2>1, <2>2, KnownKept
  <1>12. PendingInv(u, n)
    <2>1. new.shown # ui.shown /\ ~new.hydrating
      BY <1>2, <1>5, <1>8
    <2>2. new.shown <= n /\ new.baseline <= n
      BY <1>1, <1>5, <1>8 DEF PendingInv
    <2> QED BY <1>1, <1>9, <2>1, <2>2, ReactPending
  <1>13. /\ u.hist = r /\ u.shown = k /\ u.hydrating = FALSE /\ u.panel = FALSE
    BY <1>2, <1>5, <1>6, <1>8, <1>9 DEF Reacts, Kept
  <1>14. Walks(ui, u)
    BY <1>2, <1>6, <1>13 DEF Walks
  <1> QED BY <1>6, <1>9, <1>11, <1>12, <1>13, <1>14 DEF PageInv

-----------------------------------------------------------------------------
(* Functions of the page                                                   *)

\* A function that stands before its next request.
Started(k) == [k EXCEPT !.answer = "none", !.got = NoStored]

\* k takes the place of j: it goes on creating the draft, begins to, or ends.
Hands(j, k, before, after) ==
    IF k.post THEN (j.post /\ after = before) \/ (~before /\ after)
    ELSE after = before \/ j.post

\* An answer that has not come names no version.
LEMMA NothingIsStored ==
    NoStored \in Stored /\ Consistent(NoStored) /\ \A n : Old(NoStored.graph, n)
  <1>1. <<>> \in Seq(Graph) /\ <<>> \in Seq(Nat)
    OBVIOUS
  <1> QED BY <1>1, EditorAssumption DEF NoStored, Stored, Consistent, Old, None

\* A function that does not run has nothing to answer for.
LEMMA IdleInv ==
    ASSUME NEW s \in Stored, NEW n \in Nat
    PROVE  /\ TaskInv(Idle, s, n) /\ ~Idle.post /\ Started(Idle) = Idle
  <1>1. Idle \in TaskType
    BY NothingIsStored DEF Idle, TaskType
  <1>2. Len(s.graph) \in Nat /\ Len(NoStored.graph) = 0
    BY DEF Stored, NoStored
  <1>3. TaskKnown(Idle, s)
    BY <1>2, NothingIsStored DEF Idle, TaskKnown, Given, Saver, Writes
  <1>4. Idle.graph <= n /\ Old(Idle.got.graph, n)
    BY NothingIsStored DEF Idle, NoGraph
  <1>5. ~Idle.post /\ Idle.answer = "none" /\ Idle.got = NoStored
    BY DEF Idle
  <1>6. Started(Idle) = Idle
    BY <1>1, <1>5 DEF Started, TaskType
  <1> QED BY <1>1, <1>3, <1>4, <1>5, <1>6 DEF TaskInv

\* Stored versions are numbered within the bound.
LEMMA GivenVersion ==
    ASSUME NEW s, NEW n, ServerInv(s, n), NEW v, Given(v, s)
    PROVE  v \in Version \cup {None}
  <1>1. s.graph \in Seq(Graph) /\ Len(s.graph) <= MaxVersions
    BY DEF ServerInv, Stored, Consistent
  <1>2. Len(s.graph) \in Nat /\ DOMAIN s.graph = 1 .. Len(s.graph)
    BY <1>1
  <1> QED BY <1>1, <1>2, EditorAssumption DEF Given, Version

\* The draft of a list is its last version, unless that is in production.
LEMMA DraftOf ==
    ASSUME NEW list, list.rev \in Seq(Nat), list.prod \in Nat
    PROVE  Draft(list) = IF Len(list.rev) > list.prod THEN Len(list.rev) ELSE None
  <1> DEFINE later == {v \in DOMAIN list.rev : v > list.prod}
  <1>1. Len(list.rev) \in Nat /\ DOMAIN list.rev = 1 .. Len(list.rev)
    OBVIOUS
  <1>2. CASE Len(list.rev) > list.prod
    <2>1. Len(list.rev) \in later /\ \A w \in later : w <= Len(list.rev)
      BY <1>1, <1>2
    <2>2. \A v \in later : (\A w \in later : w <= v) => v = Len(list.rev)
      BY <1>1, <2>1
    <2>3. (CHOOSE v \in later : \A w \in later : w <= v) = Len(list.rev)
      BY <2>1, <2>2
    <2> QED BY <1>2, <2>1, <2>3 DEF Draft
  <1>3. CASE ~(Len(list.rev) > list.prod)
    <2>1. later = {}
      BY <1>1, <1>3
    <2> QED BY <1>3, <2>1 DEF Draft
  <1> QED BY <1>2, <1>3

\* The draft of the page, and so the target of a save, is stored.
LEMMA DraftGiven ==
    ASSUME NEW s, NEW n, ServerInv(s, n), NEW u, PageInv(u, s, n)
    PROVE  /\ Given(Draft(u.list), s) /\ Given(SaveTarget(u), s)
           /\ SaveTarget(u) \in Version \cup {None}
  <1>1. u \in PageType /\ PageKnown(u, s) /\ s \in Stored
    BY DEF PageInv, ServerInv
  <1>2. u.list.rev \in Seq(Nat) /\ u.list.prod \in Nat /\ s.graph \in Seq(Graph)
    BY <1>1, EditorAssumption DEF PageType, Version, None, Stored
  <1>3. Draft(u.list) = IF Len(u.list.rev) > u.list.prod THEN Len(u.list.rev) ELSE None
    BY <1>2, DraftOf
  <1>4. Given(Draft(u.list), s)
    BY <1>1, <1>2, <1>3 DEF PageKnown, Given, None
  <1>5. Given(SaveTarget(u), s)
    BY <1>1, <1>4 DEF PageKnown, SaveTarget
  <1> QED BY <1>4, <1>5, GivenVersion

\* One function gives way to another.
LEMMA HandsOver ==
    ASSUME NEW T \in [Tasks -> TaskType], NEW t \in Tasks, NEW k \in TaskType,
           NEW before \in BOOLEAN, NEW after \in BOOLEAN,
           OneCreates(T, before), Hands(T[t], k, before, after)
    PROVE  OneCreates([T EXCEPT ![t] = k], after)
  <1>1. PICK R \in [Tasks -> TaskType] : R = [T EXCEPT ![t] = k]
    OBVIOUS
  <1>2. R[t] = k /\ \A r \in Tasks \ {t} : R[r] = T[r]
    BY <1>1
  <1>3. \A r \in Tasks : R[r].post => after
    BY <1>2 DEF OneCreates, Hands
  <1>4. \A r, q \in Tasks : R[r].post /\ R[q].post => r = q
    BY <1>2 DEF OneCreates, Hands
  <1> QED BY <1>1, <1>3, <1>4 DEF OneCreates

\* The page and one of its functions take a step together.
LEMMA TaskStep ==
    ASSUME NEW s, NEW n, NEW u, NEW T, Inv(s, u, T, n), NEW v, PageInv(v, s, n),
           NEW t \in Tasks, NEW k, TaskInv(k, s, n),
           Hands(T[t], k, u.creating, v.creating)
    PROVE  Inv(s, v, [T EXCEPT ![t] = k], n)
  <1>1. /\ T \in [Tasks -> TaskType] /\ \A r \in Tasks : TaskInv(T[r], s, n)
        /\ OneCreates(T, u.creating)
    BY DEF Inv
  <1>2. k \in TaskType /\ u.creating \in BOOLEAN /\ v.creating \in BOOLEAN
    BY DEF TaskInv, Inv, PageInv, PageType
  <1>3. OneCreates([T EXCEPT ![t] = k], v.creating)
    BY <1>1, <1>2, HandsOver
  <1>4. PICK R \in [Tasks -> TaskType] : R = [T EXCEPT ![t] = k]
    BY <1>1, <1>2
  <1>5. R[t] = k /\ \A r \in Tasks \ {t} : R[r] = T[r]
    BY <1>1, <1>4
  <1>6. \A r \in Tasks : TaskInv(R[r], s, n)
    BY <1>1, <1>5
  <1> QED BY <1>3, <1>4, <1>6 DEF Inv

\* The page takes a step alone.
LEMMA PageStep ==
    ASSUME NEW s, NEW n, NEW u, NEW T, Inv(s, u, T, n), NEW v, PageInv(v, s, n),
           v.creating = u.creating
    PROVE  Inv(s, v, T, n)
  BY DEF Inv

\* Time passes: versions and graphs are added, none goes.
LEMMA GrowsPage ==
    ASSUME NEW s, NEW n, ServerInv(s, n), NEW r, NEW m, ServerInv(r, m),
           n \in Nat, m \in Nat, n <= m, Len(s.graph) <= Len(r.graph),
           NEW u, PageInv(u, s, n)
    PROVE  PageInv(u, r, m)
  <1>1. s.graph \in Seq(Graph) /\ r.graph \in Seq(Graph)
    BY DEF ServerInv, Stored
  <1>2. \A v : Given(v, s) => Given(v, r)
    BY <1>1 DEF Given
  <1>3. u \in PageType
    BY DEF PageInv
  <1>4. u.list.rev \in Seq(Nat)
    BY <1>3 DEF PageType
  <1>5. PageKnown(u, r)
    BY <1>1, <1>2, <1>4 DEF PageInv, PageKnown
  <1>6. Tidy(u.hist, u.shown, u.hydrating, u.panel, m)
    <2>1. /\ u.hist \in History(Graph) /\ u.shown \in Graph
          /\ u.hydrating \in BOOLEAN /\ u.panel \in BOOLEAN
      BY <1>3 DEF PageType
    <2>2. Tidy(u.hist, u.shown, u.hydrating, u.panel, n)
      BY DEF PageInv
    <2> QED BY <2>1, <2>2, TidyGrows
  <1>7. PendingInv(u, m)
    <2>1. u.baseline \in Graph \cup {NoGraph} /\ u.shown \in Graph
      BY <1>3 DEF PageType
    <2>2. u.baseline \in Nat /\ u.shown \in Nat
      BY <2>1, GraphOrNone
    <2> QED BY <2>2 DEF PageInv, PendingInv
  <1> QED BY <1>3, <1>5, <1>6, <1>7 DEF PageInv

\* So do the functions.
LEMMA GrowsTask ==
    ASSUME NEW s, NEW n, ServerInv(s, n), NEW r, NEW m, ServerInv(r, m),
           n \in Nat, m \in Nat, n <= m, Len(s.graph) <= Len(r.graph),
           NEW k, TaskInv(k, s, n)
    PROVE  TaskInv(k, r, m)
  <1>1. s.graph \in Seq(Graph) /\ r.graph \in Seq(Graph)
    BY DEF ServerInv, Stored
  <1>2. \A v : Given(v, s) => Given(v, r)
    BY <1>1 DEF Given
  <1>3. k \in TaskType /\ k.got.graph \in Seq(Graph) /\ k.graph \in Nat
    <2>1. /\ k \in TaskType /\ k.got.graph \in Seq(Graph)
          /\ k.graph \in Graph \cup {NoGraph}
      BY DEF TaskInv, TaskType, Stored
    <2> QED BY <2>1, GraphOrNone
  <1>4. TaskKnown(k, r)
    BY <1>1, <1>2, <1>3 DEF TaskInv, TaskKnown
  <1>5. Old(k.got.graph, m)
    BY <1>3, OldGrows DEF TaskInv
  <1> QED BY <1>3, <1>4, <1>5 DEF TaskInv

\* The whole invariant outlives what the server adds.
LEMMA GrowsInv ==
    ASSUME NEW s, NEW n, NEW u, NEW T, Inv(s, u, T, n), NEW r, NEW m \in Nat \ {0},
           ServerInv(r, m), n <= m, Len(s.graph) <= Len(r.graph)
    PROVE  Inv(r, u, T, m)
  <1>1. ServerInv(s, n) /\ n \in Nat /\ m \in Nat
    BY DEF Inv
  <1>2. PageInv(u, r, m)
    BY <1>1, GrowsPage DEF Inv
  <1>3. \A t \in Tasks : TaskInv(T[t], r, m)
    BY <1>1, GrowsTask DEF Inv
  <1> QED BY <1>2, <1>3 DEF Inv

-----------------------------------------------------------------------------
(* Saving                                                                  *)

\* What a step of the page has to show: the invariant goes on to hold, and the
\* timeline was walked.
Goes == Inv(server, ui', tasks', fresh) /\ Walks(ui, ui')

\* The page changes, and a function goes on to its next request.
LEMMA ReactBegins ==
    ASSUME Inv(server, ui, tasks, fresh), NEW t \in Tasks, NEW new,
           Shows(ui, new, server, fresh), Settled(ui, new), Rerenders(ui, new, ui'),
           NEW task, Begin(t, task),
           TaskInv(Started(task), server, fresh),
           Hands(tasks[t], Started(task), ui.creating, new.creating)
    PROVE  Goes
  <1>1. fresh \in Nat /\ PageInv(ui, server, fresh)
    BY DEF Inv
  <1>2. PageInv(ui', server, fresh) /\ Walks(ui, ui') /\ ui'.creating = new.creating
    BY <1>1, ReactPage DEF Turns
  <1>3. tasks' = [tasks EXCEPT ![t] = Started(task)]
    BY DEF Begin, Started
  <1>4. Hands(tasks[t], Started(task), ui.creating, ui'.creating)
    BY <1>2
  <1> QED BY <1>2, <1>3, <1>4, TaskStep DEF Goes

\* The page changes, and no function does.
LEMMA ReactOnly ==
    ASSUME Inv(server, ui, tasks, fresh), NEW new, Shows(ui, new, server, fresh),
           Settled(ui, new), new.creating = ui.creating, Rerenders(ui, new, ui'),
           UNCHANGED tasks
    PROVE  Goes
  <1>1. fresh \in Nat /\ PageInv(ui, server, fresh)
    BY DEF Inv
  <1>2. PageInv(ui', server, fresh) /\ Walks(ui, ui') /\ ui'.creating = new.creating
    BY <1>1, ReactPage DEF Turns
  <1> QED BY <1>2, PageStep DEF Goes

\* The page from which a save is sent.
LEMMA SavingPage ==
    ASSUME NEW s, NEW n \in Nat, ServerInv(s, n), NEW u, PageInv(u, s, n),
           NEW w, w = Saving(u)
    PROVE  /\ PageInv(w, s, n) /\ w.hist = u.hist /\ w.shown = u.shown
           /\ w.creating = (u.creating \/ SaveTarget(u) = None)
  <1>1. u \in PageType /\ PageKnown(u, s) /\ PendingInv(u, n)
    BY DEF PageInv
  <1>2. PICK v \in Version \cup {None} : v = SaveTarget(u) /\ Given(v, s)
    BY DraftGiven
  <1>3. PICK c \in BOOLEAN : c = (u.creating \/ v = None)
    OBVIOUS
  <1>4. PICK new \in PageType :
           new = [u EXCEPT !.draftRef = v, !.save = "saving", !.creating = c]
    <2>1. [u EXCEPT !.draftRef = v, !.save = "saving", !.creating = c] \in PageType
      BY <1>1 DEF PageType
    <2> QED BY <2>1
  <1>5. /\ new.shown = u.shown /\ new.panel = u.panel /\ new.hist = u.hist
        /\ new.hydrating = u.hydrating /\ new.list = u.list /\ new.selected = u.selected
        /\ new.draftRef = v /\ new.baseline = u.baseline /\ new.pending = u.pending
        /\ new.save = "saving" /\ new.creating = c
    BY <1>1, <1>4 DEF PageType
  <1>6. PageKnown(new, s)
    BY <1>1, <1>2, <1>5 DEF PageKnown
  <1>7. Shows(u, new, s, n) /\ Settled(u, new)
    BY <1>1, <1>5, <1>6 DEF Shows, Screen, Settled, PendingInv
  <1>8. w = React(u, new, FALSE)
    BY <1>2, <1>3, <1>4 DEF Saving
  <1>9. PageInv(w, s, n) /\ w.creating = c
    <2>1. Rerenders(u, new, w)
      BY <1>8 DEF Rerenders
    <2>2. Turns(u, new, w, s, n)
      BY <1>7, <2>1, ReactPage
    <2> QED BY <1>5, <2>2 DEF Turns
  <1>10. Reacts(u, new, w)
    BY <1>1, <1>8, ReactFacts
  <1>11. w.hist = u.hist /\ w.shown = u.shown
    BY <1>5, <1>10 DEF Reacts, Kept
  <1> QED BY <1>2, <1>3, <1>9, <1>11

\* The save that is sent: it posts if there is no draft to overwrite.
LEMMA SaveTaskInv ==
    ASSUME NEW s, NEW n \in Nat, ServerInv(s, n), NEW u, PageInv(u, s, n),
           NEW kind \in Saver, kind = "deploySave" => u.selected # None,
           NEW k, k = Started(SaveTask(u, kind))
    PROVE  TaskInv(k, s, n) /\ k.post = (SaveTarget(u) = None)
  <1>1. u \in PageType /\ PageKnown(u, s) /\ PendingInv(u, n) /\ s \in Stored
    BY DEF PageInv, ServerInv
  <1>2. PICK v \in Version \cup {None} : v = SaveTarget(u) /\ Given(v, s)
    BY DraftGiven
  <1>3. PICK p \in BOOLEAN : p = (v = None)
    OBVIOUS
  <1>4. PICK step \in {"post", "put"} : step = IF v = None THEN "post" ELSE "put"
    OBVIOUS
  <1>5. k = [kind |-> kind, step |-> step, version |-> v, made |-> None, post |-> p,
             graph |-> u.shown, sel |-> u.selected, bg |-> FALSE, answer |-> "none",
             got |-> NoStored]
    BY <1>2, <1>3, <1>4 DEF Started, SaveTask, Idle
  <1>6. u.shown \in Graph /\ u.selected \in Version \cup {None} /\ Given(u.selected, s)
        /\ u.shown <= n
    BY <1>1 DEF PageType, PageKnown, PendingInv
  <1>7. k \in TaskType
    BY <1>5, <1>6, NothingIsStored DEF TaskType, Saver
  <1>8. Len(s.graph) \in Nat /\ Len(NoStored.graph) = 0
    BY <1>1 DEF Stored, NoStored
  <1>9. TaskKnown(k, s)
    <2>1. /\ k.kind = kind /\ k.step = step /\ k.version = v /\ k.made = None /\ k.post = p
          /\ k.graph = u.shown /\ k.sel = u.selected /\ k.answer = "none"
          /\ k.got = NoStored
      BY <1>5
    <2>2. Given(None, s)
      BY DEF Given
    <2>3. Consistent(k.got) /\ Len(k.got.graph) <= Len(s.graph)
      BY <1>8, <2>1, NothingIsStored
    <2> QED BY <1>2, <1>3, <1>4, <1>6, <2>1, <2>2, <2>3 DEF TaskKnown, Saver, Writes
  <1>10. k.graph <= n /\ Old(k.got.graph, n) /\ k.post = p
    BY <1>5, <1>6, NothingIsStored
  <1> QED BY <1>2, <1>3, <1>7, <1>9, <1>10 DEF TaskInv

\* A save begins: nobody else creates the draft if it does.
LEMMA Saves ==
    ASSUME Inv(server, ui, tasks, fresh), NEW t \in Tasks, Free(t),
           NEW u, PageInv(u, server, fresh), u.creating = ui.creating, Walks(ui, u),
           NEW kind \in Saver, kind = "deploySave" => u.selected # None,
           ~SaveRefused(u), ui' = Saving(u), Begin(t, SaveTask(u, kind))
    PROVE  Goes
  <1>1. fresh \in Nat /\ ServerInv(server, fresh) /\ u \in PageType
    BY DEF Inv, PageInv
  <1>2. /\ PageInv(ui', server, fresh) /\ ui'.hist = u.hist /\ ui'.shown = u.shown
        /\ ui'.creating = (u.creating \/ SaveTarget(u) = None)
    BY <1>1, SavingPage
  <1>3. PICK k : k = Started(SaveTask(u, kind))
    OBVIOUS
  <1>4. TaskInv(k, server, fresh) /\ k.post = (SaveTarget(u) = None)
    BY <1>1, <1>3, SaveTaskInv
  <1>5. tasks' = [tasks EXCEPT ![t] = k]
    BY <1>3 DEF Begin, Started
  <1>6. Hands(tasks[t], k, ui.creating, ui'.creating)
    <2>1. u.creating \in BOOLEAN
      BY <1>1 DEF PageType
    <2>2. SaveTarget(u) = None => u.creating = FALSE
      BY <2>1 DEF SaveRefused
    <2> QED BY <1>2, <1>4, <2>1, <2>2 DEF Hands
  <1>7. Inv(server, ui', tasks', fresh)
    BY <1>2, <1>4, <1>5, <1>6, TaskStep
  <1>8. Walks(ui, ui')
    BY <1>2 DEF Walks
  <1> QED BY <1>7, <1>8 DEF Goes

\* A callback that may close the panel, and then saves in the same breath.
LEMMA Becomes ==
    ASSUME Inv(server, ui, tasks, fresh), NEW t \in Tasks, NEW u,
           PageInv(u, server, fresh), u.creating = ui.creating, Walks(ui, u), Become(u, t)
    PROVE  Goes
  <1>1. CASE /\ Free(t) /\ ~SaveRefused(u) /\ ui' = Saving(u)
             /\ Begin(t, SaveTask(u, "save"))
    BY <1>1, Saves DEF Saver
  <1>2. CASE ui' = u /\ UNCHANGED tasks
    BY <1>2, PageStep DEF Goes
  <1> QED BY <1>1, <1>2 DEF Become

-----------------------------------------------------------------------------
(* The end of a load, and what its caller does                             *)

\* A load that is over leaves a function idle, whatever it was.
LEMMA ReactEnds ==
    ASSUME Inv(server, ui, tasks, fresh), NEW t \in Tasks, NEW new,
           Shows(ui, new, server, fresh), Settled(ui, new), Rerenders(ui, new, ui'),
           Begin(t, Idle), new.creating = ui.creating \/ tasks[t].post
    PROVE  Goes
  <1>1. server \in Stored /\ fresh \in Nat
    BY DEF Inv, ServerInv
  <1>2. TaskInv(Started(Idle), server, fresh) /\ ~Started(Idle).post
    BY <1>1, IdleInv
  <1>3. Hands(tasks[t], Started(Idle), ui.creating, new.creating)
    BY <1>2 DEF Hands
  <1> QED BY <1>2, <1>3, ReactBegins

\* A save that is over, for the page and for the flag of the function k.
Ends(old, u, k, new, s, n) ==
    /\ Shows(old, new, s, n) /\ Settled(old, new)
    /\ new.creating = u.creating \/ k.post

\* What a function stores counts as saved: nothing is pending.
LEMMA SaveDonePage ==
    ASSUME NEW old, NEW u, NEW s, NEW n \in Nat, Shows(old, u, s, n),
           NEW k \in TaskType, k.graph <= n, NEW new, new = SaveDone(u, k)
    PROVE  Ends(old, u, k, new, s, n) /\ new.pending = FALSE
  <1>1. u \in PageType /\ PageKnown(u, s) /\ Screen(old, u, n)
    BY DEF Shows
  <1>2. PICK c \in BOOLEAN, g \in Graph \cup {NoGraph}, i \in Nat :
           /\ c = IF k.post THEN FALSE ELSE u.creating
           /\ g = k.graph /\ i = u.savedTimers + 1
    <2>1. u.creating \in BOOLEAN /\ u.savedTimers \in Nat
      BY <1>1 DEF PageType
    <2>2. k.graph \in Graph \cup {NoGraph}
      BY DEF TaskType
    <2>3. u.savedTimers + 1 \in Nat
      BY <2>1
    <2>4. (IF k.post THEN FALSE ELSE u.creating) \in BOOLEAN
      BY <2>1
    <2> QED BY <2>2, <2>3, <2>4
  <1>3. new = [u EXCEPT !.baseline = g, !.pending = FALSE, !.save = "saved",
                        !.savedTimers = i, !.creating = c]
    BY <1>1, <1>2 DEF SaveDone, PageType
  <1>4. new \in PageType
    BY <1>1, <1>3 DEF PageType
  <1>5. /\ new.shown = u.shown /\ new.panel = u.panel /\ new.hist = u.hist
        /\ new.hydrating = u.hydrating /\ new.list = u.list /\ new.selected = u.selected
        /\ new.draftRef = u.draftRef /\ new.baseline = g /\ new.pending = FALSE
        /\ new.creating = c
    BY <1>1, <1>3 DEF PageType
  <1>6. PageKnown(new, s)
    BY <1>1, <1>5 DEF PageKnown
  <1>7. Screen(old, new, n)
    BY <1>1, <1>5 DEF Screen
  <1> QED BY <1>2, <1>4, <1>5, <1>6, <1>7 DEF Shows, Settled, Ends

\* A failed save is pending again.
LEMMA SaveFailedPage ==
    ASSUME NEW old, NEW u, NEW s, NEW n \in Nat, Shows(old, u, s, n),
           NEW k \in TaskType, NEW new, new = SaveFailed(u, k)
    PROVE  Ends(old, u, k, new, s, n)
  <1>1. u \in PageType /\ PageKnown(u, s) /\ Screen(old, u, n) /\ u.baseline <= n
    BY DEF Shows
  <1>2. PICK c \in BOOLEAN : c = IF k.post THEN FALSE ELSE u.creating
    <2>1. u.creating \in BOOLEAN
      BY <1>1 DEF PageType
    <2> QED BY <2>1
  <1>3. new = [u EXCEPT !.save = "error", !.pending = TRUE, !.creating = c]
    BY <1>1, <1>2 DEF SaveFailed, PageType
  <1>4. new \in PageType
    BY <1>1, <1>3 DEF PageType
  <1>5. /\ new.shown = u.shown /\ new.panel = u.panel /\ new.hist = u.hist
        /\ new.hydrating = u.hydrating /\ new.list = u.list /\ new.selected = u.selected
        /\ new.draftRef = u.draftRef /\ new.baseline = u.baseline /\ new.save = "error"
        /\ new.creating = c
    BY <1>1, <1>3 DEF PageType
  <1>6. PageKnown(new, s)
    BY <1>1, <1>5 DEF PageKnown
  <1>7. Screen(old, new, n)
    BY <1>1, <1>5 DEF Screen
  <1> QED BY <1>1, <1>2, <1>4, <1>5, <1>6, <1>7 DEF Shows, Settled, Ends

\* The save of a deployment is over: a version is promoted, or the deployment
\* is given up.
LEMMA DeploysOn ==
    ASSUME Inv(server, ui, tasks, fresh), NEW t \in Tasks, NEW u,
           Shows(ui, u, server, fresh), u.creating = ui.creating \/ tasks[t].post,
           NEW task, TaskInv(task, server, fresh), task.sel # None,
           DeployAfterSave(t, u, task)
    PROVE  Goes
  <1>1. /\ u \in PageType /\ PageKnown(u, server) /\ Screen(ui, u, fresh)
        /\ u.baseline <= fresh /\ server \in Stored /\ fresh \in Nat
        /\ ServerInv(server, fresh) /\ ui \in PageType /\ PageKnown(ui, server)
    BY DEF Shows, Inv, ServerInv, PageInv
  <1>2. CASE ui.pending
    <2>1. PICK new \in PageType : new = [u EXCEPT !.deploying = FALSE, !.save = "error"]
      <3>1. [u EXCEPT !.deploying = FALSE, !.save = "error"] \in PageType
        BY <1>1 DEF PageType
      <3> QED BY <3>1
    <2>2. /\ new.shown = u.shown /\ new.panel = u.panel /\ new.hist = u.hist
          /\ new.hydrating = u.hydrating /\ new.list = u.list /\ new.selected = u.selected
          /\ new.draftRef = u.draftRef /\ new.baseline = u.baseline /\ new.save = "error"
          /\ new.creating = u.creating
      BY <1>1, <2>1 DEF PageType
    <2>3. Shows(ui, new, server, fresh) /\ Settled(ui, new)
      BY <1>1, <2>2 DEF Shows, Settled, Screen, PageKnown
    <2>4. Rerenders(ui, new, ui') /\ Begin(t, Idle)
      BY <1>2, <2>1 DEF DeployAfterSave, Rerenders
    <2> QED BY <2>2, <2>3, <2>4, ReactEnds
  <1>3. CASE ~ui.pending
    <2>1. PICK new \in PageType : new = [u EXCEPT !.save = "saving", !.baseline = NoGraph]
      <3>1. [u EXCEPT !.save = "saving", !.baseline = NoGraph] \in PageType
        BY <1>1 DEF PageType
      <3> QED BY <3>1
    <2>2. /\ new.shown = u.shown /\ new.panel = u.panel /\ new.hist = u.hist
          /\ new.hydrating = u.hydrating /\ new.list = u.list /\ new.selected = u.selected
          /\ new.draftRef = u.draftRef /\ new.baseline = NoGraph
          /\ new.creating = u.creating
      BY <1>1, <2>1 DEF PageType
    <2>3. Shows(ui, new, server, fresh) /\ Settled(ui, new)
      BY <1>1, <2>2 DEF Shows, Settled, Screen, PageKnown, NoGraph
    <2>4. task \in TaskType /\ TaskKnown(task, server) /\ task.graph <= fresh
      BY DEF TaskInv
    <2>5. PICK id : id = IF u.draftRef # None THEN u.draftRef
                         ELSE IF ui.selected # None THEN ui.selected ELSE task.sel
      OBVIOUS
    <2>6. Given(id, server) /\ id # None /\ id \in Version \cup {None}
      <3>1. Given(id, server) /\ id # None
        BY <1>1, <2>4, <2>5 DEF PageKnown, TaskKnown
      <3> QED BY <1>1, <3>1, GivenVersion
    <2>7. Rerenders(ui, new, ui') /\ Begin(t, [task EXCEPT !.kind = "deploy", !.step = "promote",
                                                        !.version = id, !.post = FALSE])
      BY <1>3, <2>1, <2>5 DEF DeployAfterSave, Rerenders
    <2>8. PICK k : k = Started([task EXCEPT !.kind = "deploy", !.step = "promote",
                                            !.version = id, !.post = FALSE])
      OBVIOUS
    <2>9. k \in TaskType
      BY <2>4, <2>6, <2>8, NothingIsStored DEF TaskType, Started
    <2>10. /\ k.kind = "deploy" /\ k.step = "promote" /\ k.version = id /\ k.made = task.made
           /\ k.post = FALSE /\ k.graph = task.graph /\ k.sel = task.sel /\ k.got = NoStored
           /\ k.answer = "none"
      BY <2>4, <2>8 DEF TaskType, Started
    <2>11. Len(server.graph) \in Nat /\ Len(NoStored.graph) = 0
      BY <1>1 DEF Stored, NoStored
    <2>12. Consistent(k.got) /\ Len(k.got.graph) <= Len(server.graph) /\ Old(k.got.graph, fresh)
      BY <2>10, <2>11, NothingIsStored
    <2>13. TaskKnown(k, server)
      BY <2>4, <2>6, <2>10, <2>12 DEF TaskKnown, Saver, Writes
    <2>14. TaskInv(k, server, fresh)
      BY <2>4, <2>9, <2>10, <2>12, <2>13 DEF TaskInv
    <2>15. Hands(tasks[t], k, ui.creating, new.creating)
      BY <2>2, <2>10 DEF Hands
    <2> QED BY <2>3, <2>7, <2>8, <2>14, <2>15, ReactBegins
  <1> QED BY <1>2, <1>3

\* The end of a load, for each of the callers it may have.
LEMMA Finishes ==
    ASSUME Inv(server, ui, tasks, fresh), NEW t \in Tasks, tasks[t].step \notin Writes,
           NEW u, Shows(ui, u, server, fresh), Settled(ui, u), u.creating = ui.creating,
           NEW reloaded \in BOOLEAN, Finish(t, u, reloaded)
    PROVE  Goes
  <1>1. /\ u \in PageType /\ PageKnown(u, server) /\ Screen(ui, u, fresh)
        /\ u.baseline <= fresh /\ server \in Stored /\ fresh \in Nat
        /\ ServerInv(server, fresh)
    BY DEF Shows, Inv, ServerInv
  <1>2. PICK k : k = tasks[t] /\ TaskInv(k, server, fresh)
    BY DEF Inv
  <1>3. k \in TaskType /\ TaskKnown(k, server) /\ k.graph <= fresh
    BY <1>2 DEF TaskInv
  <1>4. CASE k.kind \in {"view", "poll"}
    <2>1. Rerenders(ui, u, ui') /\ Begin(t, Idle)
      BY <1>2, <1>4 DEF Finish, Rerenders
    <2> QED BY <2>1, ReactEnds
  <1>5. CASE k.kind = "save"
    <2>1. PICK done : done = SaveDone(u, k)
      OBVIOUS
    <2>2. Ends(ui, u, k, done, server, fresh)
      BY <1>1, <1>3, <2>1, SaveDonePage
    <2>3. Rerenders(ui, done, ui') /\ Begin(t, Idle)
      BY <1>2, <1>5, <2>1 DEF Finish, Rerenders
    <2> QED BY <1>2, <2>2, <2>3, ReactEnds DEF Ends
  <1>6. CASE k.kind = "create"
    <2>1. PICK new \in PageType : new = [u EXCEPT !.selected = k.made]
      <3>1. [u EXCEPT !.selected = k.made] \in PageType
        BY <1>1, <1>3 DEF PageType, TaskType
      <3> QED BY <3>1
    <2>2. /\ new.shown = u.shown /\ new.panel = u.panel /\ new.hist = u.hist
          /\ new.hydrating = u.hydrating /\ new.list = u.list /\ new.selected = k.made
          /\ new.draftRef = u.draftRef /\ new.baseline = u.baseline /\ new.save = u.save
          /\ new.creating = u.creating /\ new.pending = u.pending
      BY <1>1, <2>1 DEF PageType
    <2>3. k.made # None /\ Given(k.made, server)
      BY <1>2, <1>3, <1>6 DEF TaskKnown, Writes
    <2>4. PageKnown(new, server)
      BY <1>1, <2>2, <2>3 DEF PageKnown
    <2>5. Shows(ui, new, server, fresh) /\ Settled(ui, new)
      BY <1>1, <2>2, <2>4 DEF Shows, Settled, Screen
    <2>6. Rerenders(ui, new, ui') /\ Begin(t, Idle)
      BY <1>2, <1>6, <2>1 DEF Finish, Rerenders
    <2> QED BY <2>2, <2>5, <2>6, ReactEnds
  <1>7. CASE k.kind = "deploySave"
    <2>1. PICK done : done = SaveDone(u, k)
      OBVIOUS
    <2>2. Ends(ui, u, k, done, server, fresh)
      BY <1>1, <1>3, <2>1, SaveDonePage
    <2>3. DeployAfterSave(t, done, k) /\ k.sel # None
      BY <1>2, <1>3, <1>7, <2>1 DEF Finish, TaskKnown
    <2> QED BY <1>2, <2>2, <2>3, DeploysOn DEF Ends
  <1>8. CASE k.kind = "deploy"
    <2>1. PICK new \in PageType : new = [u EXCEPT !.loading = TRUE, !.loadError = FALSE]
      <3>1. [u EXCEPT !.loading = TRUE, !.loadError = FALSE] \in PageType
        BY <1>1 DEF PageType
      <3> QED BY <3>1
    <2>2. /\ new.shown = u.shown /\ new.panel = u.panel /\ new.hist = u.hist
          /\ new.hydrating = u.hydrating /\ new.list = u.list /\ new.selected = u.selected
          /\ new.draftRef = u.draftRef /\ new.baseline = u.baseline /\ new.save = u.save
          /\ new.creating = u.creating /\ new.pending = u.pending
      BY <1>1, <2>1 DEF PageType
    <2>3. PageKnown(new, server)
      BY <1>1, <2>2 DEF PageKnown
    <2>4. Shows(ui, new, server, fresh) /\ Settled(ui, new)
      BY <1>1, <2>2, <2>3 DEF Shows, Settled, Screen
    <2>5. /\ Rerenders(ui, new, ui')
          /\ Begin(t, [k EXCEPT !.kind = "redeploy", !.step = "library"])
      BY <1>2, <1>8, <2>1 DEF Finish, Rerenders
    <2>6. PICK j : j = Started([k EXCEPT !.kind = "redeploy", !.step = "library"])
      OBVIOUS
    <2>7. j \in TaskType
      BY <1>3, <2>6, NothingIsStored DEF TaskType, Started
    <2>8. /\ j.kind = "redeploy" /\ j.step = "library" /\ j.version = k.version
          /\ j.made = k.made /\ j.post = k.post /\ j.graph = k.graph /\ j.sel = k.sel
          /\ j.got = NoStored /\ j.answer = "none"
      BY <1>3, <2>6 DEF TaskType, Started
    <2>9. Len(server.graph) \in Nat /\ Len(NoStored.graph) = 0
      BY <1>1 DEF Stored, NoStored
    <2>10. Consistent(j.got) /\ Len(j.got.graph) <= Len(server.graph) /\ Old(j.got.graph, fresh)
      BY <2>8, <2>9, NothingIsStored
    <2>11. ~k.post
      BY <1>3, <1>8 DEF TaskKnown, Saver
    <2>12. TaskKnown(j, server)
      BY <1>3, <2>8, <2>10, <2>11 DEF TaskKnown, Saver, Writes
    <2>13. TaskInv(j, server, fresh)
      BY <1>3, <2>7, <2>8, <2>10, <2>12 DEF TaskInv
    <2>14. Hands(tasks[t], j, ui.creating, new.creating)
      BY <2>2, <2>8, <2>11 DEF Hands
    <2> QED BY <2>4, <2>5, <2>6, <2>13, <2>14, ReactBegins
  <1>9. CASE k.kind \in {"redeploy", "none"}
    <2>1. PICK done : done = SaveDone(u, k)
      OBVIOUS
    <2>2. Ends(ui, u, k, done, server, fresh) /\ done.pending = FALSE
      BY <1>1, <1>3, <2>1, SaveDonePage
    <2>3. /\ done \in PageType /\ PageKnown(done, server) /\ Screen(ui, done, fresh)
          /\ done.baseline <= fresh
      BY <2>2 DEF Shows, Ends
    <2>4. PICK new \in PageType : new = [done EXCEPT !.deploying = FALSE]
      <3>1. [done EXCEPT !.deploying = FALSE] \in PageType
        BY <2>3 DEF PageType
      <3> QED BY <3>1
    <2>5. /\ new.shown = done.shown /\ new.panel = done.panel /\ new.hist = done.hist
          /\ new.hydrating = done.hydrating /\ new.list = done.list
          /\ new.selected = done.selected /\ new.draftRef = done.draftRef
          /\ new.baseline = done.baseline /\ new.pending = done.pending
          /\ new.creating = done.creating
      BY <2>3, <2>4 DEF PageType
    <2>6. PageKnown(new, server)
      BY <2>3, <2>5 DEF PageKnown
    <2>7. Screen(ui, new, fresh)
      BY <2>3, <2>5 DEF Screen
    <2>8. Shows(ui, new, server, fresh)
      BY <2>3, <2>5, <2>6, <2>7 DEF Shows
    <2>9. Settled(ui, new)
      BY <2>2, <2>5 DEF Settled
    <2>10. new = Deployed(u, k)
      BY <2>1, <2>4 DEF Deployed
    <2>11. /\ k.kind \notin {"view", "poll"} /\ k.kind # "save" /\ k.kind # "create"
           /\ k.kind # "deploySave" /\ k.kind # "deploy"
      BY <1>9
    <2>12. ui' = React(ui, Deployed(u, k), reloaded) /\ Begin(t, Idle)
      BY <1>2, <2>11 DEF Finish
    <2>13. Rerenders(ui, new, ui')
      BY <2>10, <2>12 DEF Rerenders
    <2> QED BY <1>2, <2>2, <2>5, <2>8, <2>9, <2>12, <2>13, ReactEnds DEF Ends
  <1> QED BY <1>3, <1>4, <1>5, <1>6, <1>7, <1>8, <1>9 DEF TaskType
=============================================================================
