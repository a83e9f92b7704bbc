---------------------------- MODULE MCChatClient ----------------------------
EXTENDS ChatClient, TLC
CONSTANTS t1, t2, n, main, alt

Still == [sends |-> 0, moves |-> 0, news |-> 0, blanks |-> 0, switches |-> 0,
          looks |-> 0, rewrites |-> 0, clicks |-> 0, edits |-> 0, failures |-> 0,
          olders |-> 0, waits |-> 0]

\* The window is opened on t1, where nothing runs.
Idle(bounds) == [wanted |-> t1, exists |-> Threads, running |-> {}, net |-> "reliable",
                 branches |-> Branches, cur |-> [id \in Ids |-> main], left |-> bounds,
                 items |-> 0, old |-> [id \in Ids |-> {}]]
Draft(bounds) == [Idle(bounds) EXCEPT !.wanted = None]
Running(bounds) == [Idle(bounds) EXCEPT !.running = {t1}]
\* Item 1 is before the newest page of t1, item 2 before that of t2.
Paged(start) == [start EXCEPT !.items = 2, !.old[t1] = {1}, !.old[t2] = {2}]
Wild(bounds) == [Idle(bounds) EXCEPT !.net = "wild"]

SomeStarts ==
    { Idle([Still EXCEPT !.moves = 2]),
      Idle([Still EXCEPT !.sends = 1, !.edits = 1]),
      Idle([Still EXCEPT !.sends = 1, !.switches = 1]),
      Idle([Still EXCEPT !.sends = 1, !.news = 1]),
      Idle([Still EXCEPT !.switches = 1, !.edits = 1]),
      [Idle([Still EXCEPT !.moves = 1, !.switches = 1]) EXCEPT !.cur[t1] = alt],
      [Idle([Still EXCEPT !.moves = 1]) EXCEPT !.exists = {t2}],
      Draft([Still EXCEPT !.sends = 1, !.moves = 1]),
      Draft([Still EXCEPT !.sends = 1, !.switches = 1]),
      Draft([Still EXCEPT !.sends = 2, !.news = 1]),
      Idle([Still EXCEPT !.clicks = 1, !.news = 1]),
      Running([Still EXCEPT !.moves = 1]),
      [Running([Still EXCEPT !.rewrites = 1]) EXCEPT !.branches = {main}],
      Running([Still EXCEPT !.blanks = 1]),
      Running([Still EXCEPT !.news = 1, !.edits = 1]),
      Idle([Still EXCEPT !.sends = 1, !.looks = 1]),
      Wild([Still EXCEPT !.sends = 1, !.failures = 1]),
      Wild([Still EXCEPT !.switches = 1, !.failures = 1]),
      Wild([Still EXCEPT !.clicks = 1, !.failures = 1]),
      Wild([Still EXCEPT !.moves = 1]),
      Paged(Idle([Still EXCEPT !.olders = 1, !.moves = 1])),
      Paged(Idle([Still EXCEPT !.olders = 1, !.sends = 1])),
      Paged(Idle([Still EXCEPT !.olders = 1, !.switches = 1])),
      Paged(Running([Still EXCEPT !.olders = 1, !.blanks = 1])),
      Paged(Wild([Still EXCEPT !.olders = 1, !.failures = 1])),
      [Idle([Still EXCEPT !.news = 1, !.sends = 1]) EXCEPT !.exists = {t2}],
      Running([Still EXCEPT !.sends = 1, !.waits = 1]) }
=============================================================================
