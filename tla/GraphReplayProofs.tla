--------------------------- MODULE GraphReplayProofs ---------------------------
(***************************************************************************)
(* The startup replay, for any number of graphs, any log, page size and    *)
(* faults: a graph that accepts writes is whole, a finished rebuild is the *)
(* graph of its log, nothing is applied past a checkpoint that was not     *)
(* compared, and a failure has a cause.                                    *)
(***************************************************************************)
EXTENDS GraphReplay, TLAPS

(***************************************************************************)
(* The inductive invariant.  Of each graph: a graph without a progress     *)
(* record is whole or empty, unless a rebuild is to begin; a graph with    *)
(* one lacks nothing below the recorded position, and holds nothing beyond *)
(* the page being applied.                                                 *)
(***************************************************************************)
Through(c, n) == n <= c.low \/ Exactly(c, n)

Whole(g) ==
  /\ sentinel[g].state = "none"
  /\ Through(content[g], log[g].marker)

Bounds(g) ==
  /\ content[g].low <= content[g].reach /\ content[g].reach <= log[g].head
  /\ checkpoint[g].position <= log[g].head
  /\ sentinel[g].state = "in_progress" => sentinel[g].position <= log[g].head

EndOfPage(g, p) ==
  PageEnd([head |-> log[g].head, verifyAt |-> checkpoint[g].position, applied |-> p])

PastCheckpoint(g, p, v) ==
  checkpoint[g].position # 0 /\ p > checkpoint[g].position => v = checkpoint[g].position

Rebuilding(g) ==
  LET seen == sentinel[g]  p == seen.position  c == content[g] IN
  seen.state = "in_progress" =>
    /\ Through(c, p)
    /\ PastCheckpoint(g, p, seen.verified)
    /\ g \notin faults.raced =>
         /\ Exactly(c, p) \/ (p <= c.low /\ c.reach <= EndOfPage(g, p))
         /\ Unverified(g) /\ p = checkpoint[g].position => Exactly(c, p)

Writing(g) ==
  /\ writer[g] # "idle" => Whole(g)
  /\ writer[g] = "staged" => log[g].marker = log[g].head
  /\ writer[g] = "apply" => log[g].marker < log[g].head
  /\ writer[g] = "mark" => content[g].low = log[g].head

Found(g) ==
  /\ sentinel[g].state = "none" => IsEmpty(content[g]) \/ Whole(g)
  /\ sentinel[g].state # "none" => log[g].head > 0

Caused(g) == sentinel[g].state = "failed" =>
  log[g].corrupt # 0 \/ ~checkpoint[g].sound \/ g \in faults.raced

GraphInv(g) == Bounds(g) /\ Rebuilding(g) /\ Writing(g) /\ Found(g) /\ Caused(g)

(***************************************************************************)
(* Of each graph and the gate: what is open, or about to open, is whole.   *)
(***************************************************************************)
Trying == StartupPC \ {"hold", "ended", "gave up"}
Shut(g) == g \in gate.incomplete \cup gate.failed

ToDo(g) ==
  /\ g \notin gate.released /\ log[g].head > 0
  /\ startup.action[g] \in {"untouched", "catch_up"} => Whole(g)
  /\ startup.action[g] = "resume" => sentinel[g].state # "none"
  /\ startup.action[g] = "replay" /\ sentinel[g].state = "none" /\ g \notin faults.raced =>
       writer[g] = "idle" /\ IsEmpty(content[g])

Opening(g) ==
  /\ ~Closed(g) => Whole(g)
  /\ startup.pc \in Trying \cup {"ended"} /\ g \notin startup.todo => Whole(g) \/ Shut(g)
  /\ startup.pc \in Trying /\ g \in startup.todo => ToDo(g)

(***************************************************************************)
(* Of the startup thread: the graph it deals with, and what its run of a   *)
(* rebuild knows of the log, the record and the content.                   *)
(***************************************************************************)
StartupInv ==
  /\ startup.pc # "ended" => gate.hold
  /\ startup.pc \in {"classify", "deal", "hold", "ended", "gave up"} => startup.graph = {}
  /\ startup.pc \in {"catch up", "lock"} \cup ReplayPC =>
       \E g \in startup.todo :
         /\ startup.graph = {g}
         /\ startup.pc = "catch up" => startup.action[g] = "catch_up"
         /\ startup.pc # "catch up" => startup.action[g] \in Rebuild /\ g \in gate.incomplete

RunOf(g, run) ==
  /\ writer[g] = "idle" /\ sentinel[g].state = "in_progress"
  /\ run.head = log[g].head /\ run.verifyAt = checkpoint[g].position
  /\ run.verified = sentinel[g].verified
  /\ startup.pc # "record" => run.applied = sentinel[g].position
  /\ startup.pc = "page" => ~(Unverified(g) /\ run.applied = run.verifyAt)
  /\ startup.pc = "verify" => run.applied = run.verifyAt /\ Unverified(g)
  /\ startup.pc = "record" =>
       /\ sentinel[g].position < run.applied /\ run.applied = EndOfPage(g, sentinel[g].position)
       /\ PastCheckpoint(g, run.applied, run.verified)
       /\ content[g].low = run.applied
       /\ g \notin faults.raced => content[g].reach = run.applied
  /\ startup.pc \in {"finish", "delete"} => run.applied = run.head
  /\ startup.pc = "delete" => log[g].marker = run.head

RunInv == \A g \in startup.graph : startup.pc \in ReplayPC => RunOf(g, startup.run)

IInv == /\ TypeOK
        /\ \A g \in Graph : GraphInv(g) /\ Opening(g)
        /\ StartupInv /\ RunInv

-----------------------------------------------------------------------------
(***************************************************************************)
(* Content and pages.                                                      *)
(***************************************************************************)
LEMMA AppliedContent ==
  ASSUME NEW c \in Content, c.low <= c.reach, NEW p \in Nat, NEW n \in Nat, p < n, Through(c, p)
  PROVE  /\ Applied(c, p + 1, n) \in Content
         /\ Applied(c, p + 1, n).low = n
         /\ n <= Applied(c, p + 1, n).reach
         /\ Applied(c, p + 1, n).reach = n \/ Applied(c, p + 1, n).reach = c.reach
         /\ Exactly(c, p) => Applied(c, p + 1, n).reach = n
         /\ c.reach <= n => Applied(c, p + 1, n).reach = n
<1>1. c.low \in Nat /\ c.reach \in Nat /\ (p + 1) - 1 = p
  BY DEF Content
<1>2. PICK r \in Nat : r = IF IsEmpty(c) \/ n > c.reach THEN n ELSE c.reach
  BY <1>1
<1>3. Applied(c, p + 1, n) = [low |-> n, reach |-> r]
  BY <1>1, <1>2 DEF Applied, Through
<1>4. /\ Applied(c, p + 1, n) \in Content
      /\ Applied(c, p + 1, n).low = n /\ Applied(c, p + 1, n).reach = r
  BY <1>3 DEF Content
<1>5. IsEmpty(c) => c.low = c.reach
  BY DEF IsEmpty
<1>6. n <= r /\ (r = n \/ r = c.reach) /\ (c.reach <= n => r = n)
  BY <1>1, <1>2, <1>5
<1>7. Exactly(c, p) => r = n
  BY <1>1, <1>2 DEF Exactly, IsEmpty
<1> QED BY <1>4, <1>6, <1>7

\* A graph through which entries were applied to the head is the log's.
LEMMA ThroughHead ==
  ASSUME NEW c \in Content, NEW h \in Nat, c.low <= c.reach, c.reach <= h, Through(c, h)
  PROVE  Exactly(c, h)
BY DEF Content, Through, Exactly

LEMMA ThroughLess ==
  ASSUME NEW c \in Content, NEW n \in Nat, NEW m \in Nat, m <= n, n <= c.low
  PROVE  Through(c, m)
BY DEF Content, Through

LEMMA PageEndIs ==
  ASSUME NEW head \in Nat, NEW at \in Nat, NEW p \in Nat, at <= head, p <= head
  PROVE  LET e == PageEnd([head |-> head, verifyAt |-> at, applied |-> p]) IN
         /\ e \in Nat /\ p <= e /\ e <= head /\ (p < at => e <= at) /\ (p < head => p < e)
BY BoundAssumption DEF PageEnd, Least

LEMMA GraphTyped ==
  ASSUME TypeOK, NEW g \in Graph
  PROVE  /\ log[g] \in Log /\ log[g].head \in Nat /\ log[g].marker \in Nat /\ log[g].corrupt \in Nat
         /\ log[g].marker <= log[g].head
         /\ content[g] \in Content /\ content[g].low \in Nat /\ content[g].reach \in Nat
         /\ checkpoint[g] \in Checkpoint /\ checkpoint[g].position \in Nat
         /\ checkpoint[g].sound \in BOOLEAN
         /\ sentinel[g] \in Sentinel /\ sentinel[g].position \in Nat
         /\ sentinel[g].state \in {"none", "in_progress", "failed"}
         /\ writer[g] \in {"idle", "staged", "apply", "mark"}
<1>1. /\ log[g] \in Log /\ log[g].marker <= log[g].head /\ content[g] \in Content
      /\ checkpoint[g] \in Checkpoint /\ sentinel[g] \in Sentinel
      /\ writer[g] \in {"idle", "staged", "apply", "mark"}
  BY DEF TypeOK
<1>2. /\ log[g].head \in Nat /\ log[g].marker \in Nat /\ log[g].corrupt \in Nat
      /\ content[g].low \in Nat /\ content[g].reach \in Nat
      /\ checkpoint[g].position \in Nat /\ checkpoint[g].sound \in BOOLEAN
      /\ sentinel[g].position \in Nat /\ sentinel[g].state \in {"none", "in_progress", "failed"}
  BY <1>1 DEF Log, Content, Checkpoint, Sentinel
<1> QED BY <1>1, <1>2

LEMMA StartupTyped ==
  ASSUME TypeOK
  PROVE  /\ startup \in Startup /\ startup.pc \in StartupPC /\ startup.todo \subseteq Graph
         /\ startup.graph \subseteq Graph /\ startup.action \in [Graph -> Action]
         /\ startup.run \in Run /\ startup.run.head \in Nat /\ startup.run.verifyAt \in Nat
         /\ startup.run.applied \in Nat /\ startup.run.verified \in Nat \cup {-1}
         /\ startup.run.applied <= startup.run.head
         /\ gate \in Gate /\ gate.hold \in BOOLEAN /\ gate.released \subseteq Graph
         /\ gate.incomplete \subseteq Graph /\ gate.failed \subseteq Graph
         /\ faults.raced \subseteq Graph /\ faults.outages \in Nat /\ faults.crashes \in Nat
<1>1. startup \in Startup /\ startup.run.applied <= startup.run.head /\ gate \in Gate
  BY DEF TypeOK
<1>2. /\ startup.pc \in StartupPC /\ startup.todo \subseteq Graph /\ startup.graph \subseteq Graph
      /\ startup.action \in [Graph -> Action] /\ startup.run \in Run
  BY <1>1 DEF Startup
<1>3. /\ startup.run.head \in Nat /\ startup.run.verifyAt \in Nat
      /\ startup.run.applied \in Nat /\ startup.run.verified \in Nat \cup {-1}
  BY <1>2 DEF Run
<1>4. /\ gate.hold \in BOOLEAN /\ gate.released \subseteq Graph
      /\ gate.incomplete \subseteq Graph /\ gate.failed \subseteq Graph
  BY <1>1 DEF Gate
<1>5. faults \in [crashes : 0..MaxCrashes, outages : 0..MaxOutages, raced : SUBSET Graph]
  BY DEF TypeOK
<1>6. faults.raced \subseteq Graph /\ faults.outages \in Nat /\ faults.crashes \in Nat
  BY <1>5, BoundAssumption
<1> QED BY <1>1, <1>2, <1>3, <1>4, <1>6

-----------------------------------------------------------------------------
(***************************************************************************)
(* What a step leaves alone.                                               *)
(***************************************************************************)
SameGraph(g) ==
  /\ log'[g] = log[g] /\ checkpoint'[g] = checkpoint[g] /\ content'[g] = content[g]
  /\ sentinel'[g] = sentinel[g] /\ writer'[g] = writer[g]

LEMMA GraphKept ==
  ASSUME NEW g \in Graph, GraphInv(g), SameGraph(g), faults.raced \subseteq faults'.raced
  PROVE  GraphInv(g)'
<1>1. Bounds(g)'
  BY DEF GraphInv, SameGraph, Bounds
<1>2. Whole(g) => Whole(g)'
  BY DEF SameGraph, Whole
<1>3. Writing(g)' /\ Found(g)'
  BY <1>2 DEF GraphInv, SameGraph, Writing, Found
<1>4. Caused(g)'
  BY DEF GraphInv, SameGraph, Caused
<1>5. \A p : EndOfPage(g, p)' = EndOfPage(g, p)
  BY DEF SameGraph, EndOfPage
<1>6. \A p, v : PastCheckpoint(g, p, v) => PastCheckpoint(g, p, v)'
  BY DEF SameGraph, PastCheckpoint
<1>7. Unverified(g)' = Unverified(g)
  BY DEF SameGraph, Unverified
<1>8. Rebuilding(g)'
  BY <1>5, <1>6, <1>7 DEF GraphInv, SameGraph, Rebuilding
<1> QED BY <1>1, <1>3, <1>4, <1>8 DEF GraphInv

\* A graph and its place in the startup replay, while another one is dealt with.
LEMMA OpeningKept ==
  ASSUME NEW g \in Graph, Opening(g), SameGraph(g), faults.raced \subseteq faults'.raced,
         startup.pc \in Trying, startup'.pc \in Trying, startup'.action[g] = startup.action[g],
         g \in startup'.todo <=> g \in startup.todo,
         g \in gate'.released <=> g \in gate.released, g \in gate'.incomplete <=> g \in gate.incomplete,
         g \in gate'.failed <=> g \in gate.failed, gate'.hold = gate.hold
  PROVE  Opening(g)'
<1>1. Whole(g)' <=> Whole(g)
  BY DEF SameGraph, Whole
<1>2. (Closed(g)' <=> Closed(g)) /\ (Shut(g)' <=> Shut(g))
  BY DEF Closed, Shut
<1>3. ToDo(g) => ToDo(g)'
  BY <1>1 DEF ToDo, SameGraph
<1> QED BY <1>1, <1>2, <1>3 DEF Opening

\* Steps of writers: the startup thread and the gate stand still.
LEMMA RunKept ==
  ASSUME RunInv, startup' = startup, faults.raced \subseteq faults'.raced,
         \A g \in startup.graph : startup.pc \in ReplayPC => SameGraph(g)
  PROVE  RunInv'
<1> SUFFICES ASSUME NEW g \in startup.graph, startup.pc \in ReplayPC  PROVE RunOf(g, startup.run)'
  BY DEF RunInv
<1>1. SameGraph(g) /\ RunOf(g, startup.run)
  BY DEF RunInv
<1>2. \A p : EndOfPage(g, p)' = EndOfPage(g, p)
  BY <1>1 DEF SameGraph, EndOfPage
<1>3. \A p, v : PastCheckpoint(g, p, v) => PastCheckpoint(g, p, v)'
  BY <1>1 DEF SameGraph, PastCheckpoint
<1>4. Unverified(g)' = Unverified(g)
  BY <1>1 DEF SameGraph, Unverified
<1>5. PICK run : run = startup.run
  OBVIOUS
<1>6. RunOf(g, run)'
  BY <1>1, <1>2, <1>3, <1>4, <1>5 DEF SameGraph, RunOf
<1> QED BY <1>5, <1>6

LEMMA StartupKept ==
  ASSUME StartupInv, startup' = startup, gate' = gate
  PROVE  StartupInv'
BY DEF StartupInv

\* A graph that lags or not, in and after the hands of a writer.
LEMMA WrittenOpening ==
  ASSUME NEW g \in Graph, TypeOK, Opening(g), StartupInv, Whole(g)', startup' = startup, gate' = gate,
         faults'.raced = faults.raced, log'[g].head \in Nat, log[g].head <= log'[g].head,
         sentinel'[g] = sentinel[g], writer[g] # "idle" \/ ~Closed(g)
  PROVE  Opening(g)'
<1>1. ASSUME startup.pc \in Trying, g \in startup.todo  PROVE ToDo(g)'
  <2>1. ToDo(g) /\ Closed(g)
    BY <1>1 DEF Opening, ToDo, StartupInv, Closed, Trying
  <2>2. writer[g] # "idle"
    BY <2>1
  <2>3. log[g].head \in Nat
    BY GraphTyped
  <2>4. ~(startup.action[g] = "replay" /\ sentinel[g].state = "none" /\ g \notin faults.raced)
    BY <2>1, <2>2 DEF ToDo
  <2> QED BY <2>1, <2>3, <2>4 DEF ToDo
<1> QED BY <1>1 DEF Opening

LEMMA OutageCounted ==
  ASSUME TypeOK, UNCHANGED faults
                 \/ (faults.outages < MaxOutages /\ faults' = [faults EXCEPT !.outages = @ + 1])
  PROVE  /\ faults' \in [crashes : 0..MaxCrashes, outages : 0..MaxOutages, raced : SUBSET Graph]
         /\ faults'.raced = faults.raced
<1>1. CASE UNCHANGED faults
  BY <1>1 DEF TypeOK
<1>2. CASE faults.outages < MaxOutages /\ faults' = [faults EXCEPT !.outages = @ + 1]
  BY <1>2, BoundAssumption DEF TypeOK
<1> QED BY <1>1, <1>2

LEMMA NoRunTyped == NoRun \in Run /\ NoRun.applied <= NoRun.head
BY DEF NoRun, Run, NotVerified

LEMMA MarkerAtHead ==
  ASSUME TypeOK, NEW h \in Graph, log' = [log EXCEPT ![h].marker = log[h].head]
  PROVE  /\ log' \in [Graph -> Log] /\ \A g \in Graph : log'[g].marker <= log'[g].head
         /\ log'[h].marker = log[h].head /\ log'[h].head = log[h].head
         /\ log'[h].corrupt = log[h].corrupt
         /\ \A o \in Graph \ {h} : log'[o] = log[o]
<1>1. log[h] \in Log /\ log[h].head \in Nat
  BY GraphTyped
<1>2. /\ log' \in [Graph -> Log] /\ log'[h].marker = log[h].head /\ log'[h].head = log[h].head
      /\ log'[h].corrupt = log[h].corrupt /\ \A o \in Graph \ {h} : log'[o] = log[o]
  BY <1>1 DEF TypeOK, Log
<1>3. \A g \in Graph : log'[g].marker <= log'[g].head
  <2> TAKE g \in Graph
  <2>1. log[g].marker <= log[g].head /\ log[g].head \in Nat
    BY GraphTyped
  <2> QED BY <1>1, <1>2, <2>1
<1> QED BY <1>2, <1>3

LEMMA OpeningSame ==
  ASSUME NEW g \in Graph, Opening(g), SameGraph(g), faults.raced \subseteq faults'.raced,
         startup' = startup, gate' = gate
  PROVE  Opening(g)'
<1>1. Whole(g)' <=> Whole(g)
  BY DEF SameGraph, Whole
<1>2. (Closed(g)' <=> Closed(g)) /\ (Shut(g)' <=> Shut(g))
  BY DEF Closed, Shut
<1>3. ToDo(g) => ToDo(g)'
  BY <1>1 DEF ToDo, SameGraph
<1> QED BY <1>1, <1>2, <1>3 DEF Opening

-----------------------------------------------------------------------------
(***************************************************************************)
(* Writers.  A graph a writer is let into is whole, and stays whole.       *)
(***************************************************************************)
LEMMA WriterInv ==
  ASSUME IInv, TypeOK', NEW h \in Graph, GraphInv(h)', Whole(h)',
         \A o \in Graph \ {h} : SameGraph(o), startup' = startup, gate' = gate,
         faults'.raced = faults.raced, sentinel' = sentinel, log[h].head <= log'[h].head,
         writer[h] # "idle" \/ ~Closed(h)
  PROVE  IInv'
<1>1. /\ TypeOK /\ StartupInv /\ RunInv /\ faults.raced \subseteq faults'.raced
      /\ \A g \in Graph : GraphInv(g) /\ Opening(g)
  BY DEF IInv
<1>2. ASSUME NEW g \in Graph  PROVE GraphInv(g)' /\ Opening(g)'
  <2>1. CASE g = h
    <3>1. log'[h].head \in Nat
      BY DEF TypeOK, Log
    <3>2. sentinel'[h] = sentinel[h] /\ StartupInv /\ TypeOK /\ Opening(h)
      BY <1>1
    <3>3. Opening(h)'
      BY <3>1, <3>2, WrittenOpening
    <3>4. GraphInv(g)' /\ Opening(g)'
      BY <2>1, <3>3
    <3> QED BY <3>4
  <2>2. CASE g # h
    BY <1>1, <2>2, GraphKept, OpeningSame
  <2> QED BY <2>1, <2>2
<1>3. ASSUME startup.pc \in ReplayPC, h \in startup.graph  PROVE FALSE
  <2>1. writer[h] = "idle"
    BY <1>1, <1>3 DEF RunInv, RunOf
  <2>2. Closed(h)
    BY <1>1, <1>3 DEF StartupInv, Closed, ReplayPC
  <2> QED BY <2>1, <2>2
<1>4. \A g \in startup.graph : startup.pc \in ReplayPC => SameGraph(g)
  BY <1>1, <1>3, StartupTyped
<1>5. StartupInv' /\ RunInv'
  BY <1>1, <1>4, StartupKept, RunKept
<1> QED BY <1>2, <1>5 DEF IInv

\* The writer's graph: nothing lacks below the marker, and nothing but the writer is at work.
LEMMA WrittenGraph ==
  ASSUME NEW h \in Graph, GraphInv(h), Whole(h), Whole(h)', sentinel'[h] = sentinel[h],
         content'[h].low <= content'[h].reach, content'[h].reach <= log'[h].head,
         checkpoint'[h].position <= log'[h].head,
         writer'[h] = "staged" => log'[h].marker = log'[h].head,
         writer'[h] = "apply" => log'[h].marker < log'[h].head,
         writer'[h] = "mark" => content'[h].low = log'[h].head
  PROVE  GraphInv(h)'
<1>1. sentinel[h].state = "none" /\ sentinel'[h].state = "none"
  BY DEF Whole
<1>2. Bounds(h)' /\ Writing(h)' /\ Found(h)' /\ Caused(h)' /\ Rebuilding(h)'
  BY <1>1 DEF Bounds, Writing, Found, Caused, Rebuilding
<1> QED BY <1>2 DEF GraphInv

LEMMA WriterEntersInv ==
  ASSUME IInv, NEW h \in Graph, WriterEnters(h)
  PROVE  IInv'
<1>1. /\ TypeOK /\ GraphInv(h) /\ Opening(h) /\ ~Closed(h)
      /\ writer' = [writer EXCEPT ![h] = IF Lagging(h) THEN "apply" ELSE "staged"]
      /\ UNCHANGED <<graphVars, gate, startup, faults>>
  BY DEF IInv, WriterEnters
<1>2. Whole(h) /\ Whole(h)'
  BY <1>1 DEF Opening, Whole, graphVars
<1>3. TypeOK'
  BY <1>1 DEF TypeOK, graphVars
<1>4. \A o \in Graph \ {h} : SameGraph(o)
  BY <1>1 DEF SameGraph, graphVars, TypeOK
<1>5. log[h].marker \in Nat /\ log[h].head \in Nat /\ log[h].marker <= log[h].head
  BY <1>1, GraphTyped
<1>6. /\ writer'[h] = "staged" => log'[h].marker = log'[h].head
      /\ writer'[h] = "apply" => log'[h].marker < log'[h].head
  <2>1. CASE Lagging(h)
    <3>1. writer'[h] = "apply" /\ log[h].marker < log[h].head
      BY <1>1, <2>1 DEF TypeOK, Lagging
    <3> QED BY <1>1, <3>1 DEF graphVars
  <2>2. CASE ~Lagging(h)
    <3>1. log[h].marker = log[h].head /\ writer'[h] = "staged"
      BY <1>1, <1>5, <2>2 DEF Lagging, TypeOK
    <3> QED BY <1>1, <3>1 DEF graphVars
  <2> QED BY <2>1, <2>2
<1>7. writer'[h] # "mark"
  BY <1>1 DEF TypeOK
<1>8. Bounds(h)'
  BY <1>1 DEF GraphInv, Bounds, graphVars
<1>9. GraphInv(h)'
  BY <1>1, <1>2, <1>6, <1>7, <1>8, WrittenGraph DEF graphVars, Bounds
<1> QED BY <1>1, <1>2, <1>3, <1>4, <1>5, <1>9, WriterInv DEF graphVars

\* A step of a writer inside the lock.
LEMMA WriterAtWork ==
  ASSUME IInv, NEW h \in Graph, writer[h] # "idle"
  PROVE  /\ TypeOK /\ GraphInv(h) /\ Whole(h) /\ Bounds(h) /\ Writing(h)
         /\ sentinel[h].state = "none" /\ Through(content[h], log[h].marker)
BY DEF IInv, GraphInv, Writing, Whole

LEMMA CommitInv ==
  ASSUME IInv, NEW h \in Graph, Commit(h)
  PROVE  IInv'
<1>1. PICK n \in 1..MaxEntries :
        /\ writer[h] = "staged" /\ log' = [log EXCEPT ![h].head = @ + n]
        /\ writer' = [writer EXCEPT ![h] = "apply"]
        /\ UNCHANGED <<checkpoint, content, sentinel, gate, startup, faults>>
  BY DEF Commit
<1>2. /\ TypeOK /\ GraphInv(h) /\ Whole(h) /\ Bounds(h)
  BY <1>1, WriterAtWork
<1>3. /\ log[h].head \in Nat /\ log[h].marker \in Nat /\ log[h].marker <= log[h].head
      /\ log[h] \in Log /\ n \in Nat
      /\ content[h].low \in Nat /\ content[h].reach \in Nat /\ checkpoint[h].position \in Nat
  BY <1>2, GraphTyped, BoundAssumption
<1>4. /\ log'[h].head = log[h].head + n /\ log'[h].marker = log[h].marker
      /\ log'[h] \in Log /\ \A o \in Graph \ {h} : log'[o] = log[o]
      /\ writer'[h] = "apply" /\ \A o \in Graph \ {h} : writer'[o] = writer[o]
  BY <1>1, <1>2, <1>3 DEF TypeOK, Log
<1>5. log' \in [Graph -> Log] /\ \A g \in Graph : log'[g].marker <= log'[g].head
  <2>1. log' = [log EXCEPT ![h] = log'[h]] /\ DOMAIN log = Graph
    BY <1>1, <1>2 DEF TypeOK
  <2>2. log' \in [Graph -> Log]
    BY <1>2, <1>4, <2>1 DEF TypeOK
  <2>3. log'[h].marker <= log'[h].head
    BY <1>3, <1>4
  <2> QED BY <1>2, <1>4, <2>2, <2>3 DEF TypeOK
<1>6. TypeOK'
  BY <1>1, <1>2, <1>5 DEF TypeOK
<1>7. Whole(h)'
  BY <1>1, <1>2, <1>4 DEF Whole
<1>8. \A o \in Graph \ {h} : SameGraph(o)
  BY <1>1, <1>4 DEF SameGraph
<1>9. GraphInv(h)'
  <2>1. /\ content'[h].low <= content'[h].reach /\ content'[h].reach <= log'[h].head
        /\ checkpoint'[h].position <= log'[h].head /\ log'[h].marker < log'[h].head
    BY <1>1, <1>2, <1>3, <1>4 DEF Bounds
  <2> QED BY <1>1, <1>2, <1>4, <1>7, <2>1, WrittenGraph
<1>10. log[h].head <= log'[h].head
  BY <1>3, <1>4
<1> QED BY <1>1, <1>6, <1>7, <1>8, <1>9, <1>10, WriterInv

LEMMA WriterLeavesInv ==
  ASSUME IInv, NEW h \in Graph, WriterLeaves(h)
  PROVE  IInv'
<1>1. /\ writer[h] = "staged" /\ writer' = [writer EXCEPT ![h] = "idle"]
      /\ UNCHANGED <<log, checkpoint, content, sentinel, gate, startup, faults>>
  BY DEF WriterLeaves, graphVars
<1>2. /\ TypeOK /\ GraphInv(h) /\ Whole(h) /\ Bounds(h)
  BY <1>1, WriterAtWork
<1>3. TypeOK' /\ writer'[h] = "idle" /\ \A o \in Graph \ {h} : SameGraph(o)
  BY <1>1, <1>2 DEF TypeOK, SameGraph
<1>4. Whole(h)'
  BY <1>1, <1>2 DEF Whole
<1>5. GraphInv(h)'
  BY <1>1, <1>2, <1>3, <1>4, WrittenGraph DEF Bounds
<1>6. log[h].head <= log'[h].head
  BY <1>1, <1>2, GraphTyped
<1> QED BY <1>1, <1>3, <1>4, <1>5, <1>6, WriterInv

\* Content is applied after the marker, up to n.
LEMMA WrittenContent ==
  ASSUME TypeOK, NEW h \in Graph, Bounds(h), Through(content[h], log[h].marker),
         NEW n \in Nat, log[h].marker < n, n <= log[h].head,
         content' = [content EXCEPT ![h] = Applied(@, log[h].marker + 1, n)]
  PROVE  /\ content'[h] \in Content /\ content'[h].low = n /\ n <= content'[h].reach
         /\ content'[h].reach <= log[h].head /\ content' \in [Graph -> Content]
         /\ \A o \in Graph \ {h} : content'[o] = content[o]
<1>1. PICK c : c = Applied(content[h], log[h].marker + 1, n)
  OBVIOUS
<1>2. /\ content[h] \in Content /\ log[h].marker \in Nat /\ log[h].head \in Nat
      /\ content[h].low \in Nat /\ content[h].reach \in Nat
  BY GraphTyped
<1>3. content[h].low <= content[h].reach /\ content[h].reach <= log[h].head
  BY DEF Bounds
<1>4. /\ c \in Content /\ c.low = n /\ n <= c.reach /\ (c.reach = n \/ c.reach = content[h].reach)
  BY <1>1, <1>2, <1>3, AppliedContent
<1>5. c.reach <= log[h].head
  BY <1>2, <1>3, <1>4
<1>6. /\ content'[h] = c /\ content' \in [Graph -> Content]
      /\ \A o \in Graph \ {h} : content'[o] = content[o]
  BY <1>1, <1>4 DEF TypeOK
<1> QED BY <1>4, <1>5, <1>6

\* Some pending entries are applied, and perhaps marked: the graph stays whole.
LEMMA PartApplied ==
  ASSUME TypeOK, NEW h \in Graph, GraphInv(h), Whole(h), NEW last \in Nat, last <= log[h].head,
         AppliesPart(h, last)
  PROVE  /\ TypeOK' /\ Whole(h)' /\ \A o \in Graph \ {h} : SameGraph(o)
         /\ content'[h].low <= content'[h].reach /\ content'[h].reach <= log'[h].head
         /\ log'[h].head = log[h].head /\ log'[h].marker \in Nat /\ log'[h].marker <= last
         /\ checkpoint'[h].position <= log'[h].head
         /\ UNCHANGED <<checkpoint, sentinel, gate, startup, writer, faults>>
<1>1. PICK n \in log[h].marker + 1 .. last :
        /\ content' = [content EXCEPT ![h] = Applied(@, log[h].marker + 1, n)]
        /\ log' \in {log, [log EXCEPT ![h].marker = n]}
        /\ UNCHANGED <<checkpoint, sentinel, gate, startup, writer, faults>>
  BY DEF AppliesPart
<1>2. Bounds(h) /\ sentinel[h].state = "none"
  BY DEF GraphInv, Whole
<1>3. log[h].head \in Nat /\ log[h].marker \in Nat /\ log[h].marker <= log[h].head /\ log[h] \in Log
  BY GraphTyped
<1>4. n \in Nat /\ log[h].marker < n /\ n <= last /\ n <= log[h].head
  BY <1>1, <1>3
<1>5. PICK c : c = content'[h]
  OBVIOUS
<1>6. /\ c \in Content /\ c.low = n /\ n <= c.reach /\ c.reach <= log[h].head
      /\ content'[h] = c /\ content' \in [Graph -> Content]
      /\ \A o \in Graph \ {h} : content'[o] = content[o]
  <2>1. Through(content[h], log[h].marker)
    BY DEF Whole
  <2> QED BY <1>1, <1>2, <1>4, <1>5, <2>1, WrittenContent
<1>7. PICK m \in {log[h].marker, n} : log' = [log EXCEPT ![h].marker = m]
  <2>1. CASE log' = log
    <3>1. log = [log EXCEPT ![h].marker = log[h].marker]
      BY DEF TypeOK, Log
    <3> QED BY <2>1, <3>1
  <2>2. CASE log' = [log EXCEPT ![h].marker = n]
    BY <2>2
  <2> QED BY <1>1, <2>1, <2>2
<1>8. m \in Nat /\ m <= n /\ m <= log[h].head /\ m <= last
  BY <1>3, <1>4
<1>9. /\ log'[h].marker = m /\ log'[h].head = log[h].head /\ log' \in [Graph -> Log]
      /\ \A o \in Graph \ {h} : log'[o] = log[o]
  BY <1>7, <1>8 DEF TypeOK, Log
<1>10. \A g \in Graph : log'[g].marker <= log'[g].head
  BY <1>8, <1>9 DEF TypeOK
<1>11. TypeOK'
  BY <1>1, <1>6, <1>9, <1>10 DEF TypeOK
<1>12. Whole(h)'
  <2>1. Through(c, m)
    BY <1>4, <1>6, <1>8, ThroughLess
  <2> QED BY <1>1, <1>2, <1>6, <1>9, <2>1 DEF Whole, Through, Exactly
<1>13. \A o \in Graph \ {h} : SameGraph(o)
  BY <1>1, <1>6, <1>9 DEF SameGraph
<1>14. content'[h].low <= content'[h].reach /\ content'[h].reach <= log'[h].head
  BY <1>6, <1>9
<1>15. checkpoint'[h].position <= log'[h].head
  BY <1>1, <1>2, <1>9 DEF Bounds
<1> QED BY <1>1, <1>8, <1>9, <1>11, <1>12, <1>13, <1>14, <1>15

LEMMA WriterAppliesPartInv ==
  ASSUME IInv, NEW h \in Graph, WriterAppliesPart(h)
  PROVE  IInv'
<1>1. writer[h] = "apply" /\ AppliesPart(h, log[h].head - 1)
  BY DEF WriterAppliesPart
<1>2. TypeOK /\ GraphInv(h) /\ Whole(h)
  BY <1>1, WriterAtWork
<1>3. log[h].head \in Nat /\ log[h].marker \in Nat /\ log[h].marker < log[h].head
  BY <1>1, <1>2, GraphTyped DEF GraphInv, Writing
<1>4. PICK last \in Nat : last = log[h].head - 1
  BY <1>3
<1>5. last <= log[h].head /\ AppliesPart(h, last)
  BY <1>1, <1>3, <1>4
<1>6. /\ TypeOK' /\ Whole(h)' /\ \A o \in Graph \ {h} : SameGraph(o)
      /\ content'[h].low <= content'[h].reach /\ content'[h].reach <= log'[h].head
      /\ log'[h].head = log[h].head /\ log'[h].marker \in Nat /\ log'[h].marker <= last
      /\ checkpoint'[h].position <= log'[h].head
      /\ UNCHANGED <<checkpoint, sentinel, gate, startup, writer, faults>>
  BY <1>2, <1>4, <1>5, PartApplied
<1>7. log'[h].marker < log'[h].head
  BY <1>3, <1>4, <1>6
<1>8. GraphInv(h)'
  BY <1>1, <1>2, <1>6, <1>7, WrittenGraph
<1>9. log[h].head <= log'[h].head
  BY <1>3, <1>6
<1> QED BY <1>1, <1>6, <1>8, <1>9, WriterInv

LEMMA WriterAppliesInv ==
  ASSUME IInv, NEW h \in Graph, WriterApplies(h)
  PROVE  IInv'
<1>1. /\ writer[h] = "apply" /\ writer' = [writer EXCEPT ![h] = "mark"]
      /\ content' = [content EXCEPT ![h] = Applied(@, log[h].marker + 1, log[h].head)]
      /\ UNCHANGED <<log, checkpoint, sentinel, gate, startup, faults>>
  BY DEF WriterApplies
<1>2. TypeOK /\ GraphInv(h) /\ Whole(h) /\ Bounds(h) /\ sentinel[h].state = "none"
  BY <1>1, WriterAtWork
<1>3. log[h].head \in Nat /\ log[h].marker \in Nat /\ log[h].marker <= log[h].head
  BY <1>2, GraphTyped
<1>4. PICK c : c = content'[h]
  OBVIOUS
<1>5. /\ c \in Content /\ c.low = log[h].head /\ log[h].head <= c.reach /\ c.reach <= log[h].head
      /\ content'[h] = c /\ content' \in [Graph -> Content]
      /\ \A o \in Graph \ {h} : content'[o] = content[o]
  <2>1. Through(content[h], log[h].marker) /\ log[h].marker < log[h].head
    BY <1>1, <1>2 DEF Whole, GraphInv, Writing
  <2>2. PICK n \in Nat : n = log[h].head
    BY <1>3
  <2>3. content' = [content EXCEPT ![h] = Applied(@, log[h].marker + 1, n)]
    BY <1>1, <2>2
  <2>4. log[h].marker < n /\ n <= log[h].head
    BY <1>3, <2>1, <2>2
  <2>5. /\ content'[h] \in Content /\ content'[h].low = n /\ n <= content'[h].reach
        /\ content'[h].reach <= log[h].head /\ content' \in [Graph -> Content]
        /\ \A o \in Graph \ {h} : content'[o] = content[o]
    BY <1>2, <2>1, <2>3, <2>4, WrittenContent
  <2> QED BY <1>4, <2>2, <2>5
<1>6. writer'[h] = "mark" /\ \A o \in Graph \ {h} : SameGraph(o)
  BY <1>1, <1>2, <1>5 DEF SameGraph, TypeOK
<1>7. TypeOK'
  BY <1>1, <1>2, <1>5 DEF TypeOK
<1>8. Whole(h)'
  <2>1. Through(c, log[h].marker)
    BY <1>3, <1>5, ThroughLess
  <2> QED BY <1>1, <1>2, <1>5, <2>1 DEF Whole, Through, Exactly
<1>9. GraphInv(h)'
  <2>1. /\ content'[h].low <= content'[h].reach /\ content'[h].reach <= log'[h].head
        /\ content'[h].low = log'[h].head
    BY <1>1, <1>3, <1>5
  <2>2. checkpoint'[h].position <= log'[h].head /\ sentinel'[h] = sentinel[h]
    BY <1>1, <1>2 DEF Bounds
  <2> QED BY <1>2, <1>6, <1>8, <2>1, <2>2, WrittenGraph
<1>10. log[h].head <= log'[h].head
  BY <1>1, <1>3
<1> QED BY <1>1, <1>6, <1>7, <1>8, <1>9, <1>10, WriterInv


LEMMA WriterFailsInv ==
  ASSUME IInv, NEW h \in Graph, WriterFails(h)
  PROVE  IInv'
<1>1. /\ writer[h] # "idle" /\ writer' = [writer EXCEPT ![h] = "idle"]
      /\ UNCHANGED <<log, checkpoint, content, sentinel, gate, startup>>
  BY DEF WriterFails, graphVars
<1>2. /\ TypeOK /\ GraphInv(h) /\ Whole(h) /\ Bounds(h)
  BY <1>1, WriterAtWork
<1>3. /\ faults' \in [crashes : 0..MaxCrashes, outages : 0..MaxOutages, raced : SUBSET Graph]
      /\ faults'.raced = faults.raced
  BY <1>2, OutageCounted DEF WriterFails
<1>4. writer'[h] = "idle" /\ \A o \in Graph \ {h} : SameGraph(o)
  BY <1>1, <1>2 DEF TypeOK, SameGraph
<1>5. TypeOK'
  BY <1>1, <1>2, <1>3 DEF TypeOK
<1>6. Whole(h)'
  BY <1>1, <1>2 DEF Whole
<1>7. GraphInv(h)'
  BY <1>1, <1>2, <1>4, <1>6, WrittenGraph DEF Bounds
<1>8. log[h].head <= log'[h].head
  BY <1>1, <1>2, GraphTyped
<1> QED BY <1>1, <1>3, <1>4, <1>5, <1>6, <1>7, <1>8, WriterInv

LEMMA WriterMarksInv ==
  ASSUME IInv, NEW h \in Graph, WriterMarks(h)
  PROVE  IInv'
<1>1. /\ writer[h] = "mark" /\ writer' = [writer EXCEPT ![h] = "idle"]
      /\ log' = [log EXCEPT ![h].marker = log[h].head]
      /\ UNCHANGED <<content, sentinel, gate, startup, faults>>
  BY DEF WriterMarks
<1>2. /\ TypeOK /\ GraphInv(h) /\ Whole(h) /\ Bounds(h)
  BY <1>1, WriterAtWork
<1>3. /\ log[h].head \in Nat /\ log[h].marker \in Nat /\ log[h] \in Log
      /\ content[h].low \in Nat /\ checkpoint[h].position \in Nat
  BY <1>2, GraphTyped
<1>4. /\ log'[h].marker = log[h].head /\ log'[h].head = log[h].head /\ log' \in [Graph -> Log]
      /\ \A o \in Graph \ {h} : log'[o] = log[o]
      /\ \A g \in Graph : log'[g].marker <= log'[g].head
  BY <1>1, <1>2, MarkerAtHead
<1>6. /\ checkpoint' \in [Graph -> Checkpoint] /\ checkpoint'[h].position <= log[h].head
      /\ \A o \in Graph \ {h} : checkpoint'[o] = checkpoint[o]
  <2>1. CASE UNCHANGED checkpoint
    BY <1>2, <2>1 DEF TypeOK, Bounds
  <2>2. CASE ~UNCHANGED checkpoint
    <3>1. PICK sound \in BOOLEAN :
            checkpoint' = [checkpoint EXCEPT ![h] = [position |-> log[h].head, sound |-> sound]]
      <4>1. \E sound \in {Exactly(content[h], log[h].head)}
                          \cup (IF "bad checkpoint" \in Faults THEN {FALSE} ELSE {}) :
              checkpoint' = [checkpoint EXCEPT ![h] = [position |-> log[h].head, sound |-> sound]]
        BY <2>2 DEF WriterMarks
      <4>2. Exactly(content[h], log[h].head) \in BOOLEAN
        BY DEF Exactly
      <4> QED BY <4>1, <4>2
    <3>3. PICK new \in Checkpoint : new = [position |-> log[h].head, sound |-> sound]
      BY <1>3, <3>1 DEF Checkpoint
    <3>4. new.position = log[h].head /\ checkpoint' = [checkpoint EXCEPT ![h] = new]
      BY <3>1, <3>3
    <3>5. /\ checkpoint' \in [Graph -> Checkpoint] /\ checkpoint'[h] = new
          /\ \A o \in Graph \ {h} : checkpoint'[o] = checkpoint[o]
      BY <1>2, <3>4 DEF TypeOK
    <3>6. checkpoint'[h].position <= log[h].head
      BY <1>3, <3>4, <3>5
    <3> QED BY <3>5, <3>6
  <2> QED BY <2>1, <2>2
<1>7. writer'[h] = "idle" /\ \A o \in Graph \ {h} : SameGraph(o)
  BY <1>1, <1>2, <1>4, <1>6 DEF TypeOK, SameGraph
<1>8. TypeOK'
  BY <1>1, <1>2, <1>4, <1>6 DEF TypeOK
<1>9. Whole(h)'
  <2>1. content[h].low = log[h].head
    BY <1>1, <1>2 DEF GraphInv, Writing
  <2> QED BY <1>1, <1>2, <1>3, <1>4, <2>1 DEF Whole, Through
<1>10. GraphInv(h)'
  <2>1. /\ content'[h].low <= content'[h].reach /\ content'[h].reach <= log'[h].head
        /\ checkpoint'[h].position <= log'[h].head /\ sentinel'[h] = sentinel[h]
    BY <1>1, <1>2, <1>4, <1>6 DEF Bounds
  <2> QED BY <1>2, <1>7, <1>9, <2>1, WrittenGraph
<1>11. log[h].head <= log'[h].head
  BY <1>3, <1>4
<1> QED BY <1>1, <1>7, <1>8, <1>9, <1>10, <1>11, WriterInv

-----------------------------------------------------------------------------
(***************************************************************************)
(* The startup thread.  A step that deals with one graph leaves the others *)
(* and their place in the replay alone.                                    *)
(***************************************************************************)
OthersKept(h) ==
  /\ gate'.hold = gate.hold
  /\ \A o \in Graph \ {h} :
       /\ SameGraph(o)
       /\ startup'.action[o] = startup.action[o] /\ (o \in startup'.todo <=> o \in startup.todo)
       /\ o \in gate'.released <=> o \in gate.released
       /\ o \in gate'.incomplete <=> o \in gate.incomplete
       /\ o \in gate'.failed <=> o \in gate.failed

LEMMA DealtInv ==
  ASSUME IInv, NEW h \in Graph, TypeOK', GraphInv(h)', Opening(h)', StartupInv', RunInv',
         OthersKept(h), startup.pc \in Trying, startup'.pc \in Trying,
         faults.raced \subseteq faults'.raced
  PROVE  IInv'
<1>1. ASSUME NEW g \in Graph  PROVE GraphInv(g)' /\ Opening(g)'
  <2>1. CASE g = h
    BY <2>1
  <2>2. CASE g # h
    <3>1. GraphInv(g) /\ Opening(g) /\ SameGraph(g)
      BY <2>2 DEF IInv, OthersKept
    <3>2. GraphInv(g)'
      BY <3>1, GraphKept
    <3>3. Opening(g)'
      BY <2>2, <3>1, OpeningKept DEF OthersKept
    <3> QED BY <3>2, <3>3
  <2> QED BY <2>1, <2>2
<1> QED BY <1>1 DEF IInv

\* The startup thread stands between two graphs.
LEMMA BetweenGraphs ==
  ASSUME startup'.graph = {}, startup'.pc \in {"classify", "deal"}, gate'.hold
  PROVE  StartupInv' /\ RunInv'
BY DEF StartupInv, RunInv, ReplayPC

\* The startup thread deals with h.
LEMMA AtGraph ==
  ASSUME NEW h \in startup'.todo, startup'.graph = {h}, gate'.hold,
         startup'.pc \in {"catch up", "lock"} \cup ReplayPC,
         startup'.pc = "catch up" => startup'.action[h] = "catch_up",
         startup'.pc # "catch up" => startup'.action[h] \in Rebuild /\ h \in gate'.incomplete,
         startup'.pc \in ReplayPC => RunOf(h, startup.run)'
  PROVE  StartupInv' /\ RunInv'
<1>1. StartupInv'
  BY DEF StartupInv, ReplayPC
<1>2. RunInv'
  BY DEF RunInv
<1> QED BY <1>1, <1>2

\* What is known of the graph the startup thread deals with.
LEMMA Dealt ==
  ASSUME IInv, NEW h \in Graph, NEW pc \in {"catch up", "lock"} \cup ReplayPC, Dealing(h, pc)
  PROVE  /\ TypeOK /\ GraphInv(h) /\ Bounds(h) /\ Opening(h) /\ ToDo(h)
         /\ startup.pc = pc /\ startup.graph = {h} /\ gate.hold /\ h \in startup.todo
         /\ pc = "catch up" => startup.action[h] = "catch_up"
         /\ pc # "catch up" => startup.action[h] \in Rebuild /\ h \in gate.incomplete
         /\ pc \in ReplayPC => RunOf(h, startup.run)
<1>1. /\ TypeOK /\ GraphInv(h) /\ Opening(h) /\ StartupInv /\ RunInv
      /\ startup.pc = pc /\ startup.graph = {h}
  BY DEF IInv, Dealing
<1>2. pc \in Trying /\ pc # "ended"
  BY DEF Trying, StartupPC, ReplayPC
<1>3. PICK g \in startup.todo :
        /\ startup.graph = {g}
        /\ startup.pc = "catch up" => startup.action[g] = "catch_up"
        /\ startup.pc # "catch up" => startup.action[g] \in Rebuild /\ g \in gate.incomplete
  BY <1>1 DEF StartupInv
<1>4. g = h
  BY <1>1, <1>3
<1>5. gate.hold /\ ToDo(h)
  BY <1>1, <1>2, <1>3, <1>4 DEF StartupInv, Opening
<1>6. pc \in ReplayPC => RunOf(h, startup.run)
  BY <1>1 DEF RunInv
<1> QED BY <1>1, <1>3, <1>4, <1>5, <1>6 DEF GraphInv

\* Between two graphs, h is next.
LEMMA Next1 ==
  ASSUME IInv, NEW h \in Graph, NextInOrder(h)
  PROVE  /\ TypeOK /\ GraphInv(h) /\ Opening(h) /\ ToDo(h)
         /\ startup.pc = "deal" /\ startup.pc \in Trying /\ gate.hold /\ h \in startup.todo
<1>1. /\ TypeOK /\ GraphInv(h) /\ Opening(h) /\ StartupInv /\ startup.pc = "deal" /\ h \in startup.todo
  BY DEF IInv, NextInOrder
<1>2. startup.pc \in Trying /\ gate.hold
  BY <1>1 DEF Trying, StartupPC, StartupInv, ReplayPC
<1> QED BY <1>1, <1>2 DEF Opening

\* The graphs stand still.
LEMMA GraphsStand ==
  ASSUME IInv, UNCHANGED <<graphVars, writer>>, faults.raced \subseteq faults'.raced
  PROVE  \A g \in Graph : SameGraph(g) /\ GraphInv(g)' /\ (Whole(g)' <=> Whole(g))
<1> TAKE g \in Graph
<1>1. SameGraph(g) /\ GraphInv(g)
  BY DEF SameGraph, graphVars, IInv
<1>2. GraphInv(g)'
  BY <1>1, GraphKept
<1> QED BY <1>1, <1>2 DEF SameGraph, Whole

\* The startup thread starts over or ends early: nothing opens.
LEMMA CutShortInv ==
  ASSUME IInv, startup.pc # "ended", TypeOK', gate' = gate,
         \A g \in Graph : GraphInv(g)' /\ (Whole(g) => Whole(g)'),
         startup'.graph = {}, startup'.pc \in {"hold", "gave up"}
  PROVE  IInv'
<1>1. ASSUME NEW g \in Graph  PROVE Opening(g)'
  <2>1. ~Closed(g)' => Whole(g)'
    BY DEF IInv, Opening, Closed
  <2>2. startup'.pc \notin Trying \cup {"ended"}
    BY DEF Trying
  <2> QED BY <2>1, <2>2 DEF Opening
<1>2. StartupInv' /\ RunInv'
  BY DEF IInv, StartupInv, RunInv, ReplayPC
<1> QED BY <1>1, <1>2 DEF IInv

LEMMA IdleTyped ==
  /\ Idle \in Startup /\ Idle.graph = {} /\ Idle.pc = "hold" /\ Idle.run.applied <= Idle.run.head
  /\ [Idle EXCEPT !.pc = "gave up"] \in Startup
  /\ [Idle EXCEPT !.pc = "gave up"].graph = {} /\ [Idle EXCEPT !.pc = "gave up"].pc = "gave up"
  /\ [Idle EXCEPT !.pc = "gave up"].run.applied <= [Idle EXCEPT !.pc = "gave up"].run.head
<1>1. NoRun \in Run /\ NoRun.applied <= NoRun.head
  BY NoRunTyped
<1>2. [g \in Graph |-> "unknown"] \in [Graph -> Action]
  BY DEF Action
<1>3. PICK run \in Run : run = NoRun
  BY <1>1
<1>4. PICK action \in [Graph -> Action] : action = [g \in Graph |-> "unknown"]
  BY <1>2
<1>5. Idle = [pc |-> "hold", action |-> action, todo |-> {}, graph |-> {}, run |-> run]
  BY <1>3, <1>4 DEF Idle
<1>6. "hold" \in StartupPC /\ "gave up" \in StartupPC /\ "classify" \in StartupPC
  BY DEF StartupPC
<1>7. Idle \in Startup /\ Idle.graph = {} /\ Idle.pc = "hold" /\ Idle.run = run
  BY <1>5, <1>6 DEF Startup
<1>8. PICK i \in Startup : i = Idle
  BY <1>7
<1>9. /\ [i EXCEPT !.pc = "gave up"] \in Startup
      /\ [i EXCEPT !.pc = "gave up"].graph = i.graph /\ [i EXCEPT !.pc = "gave up"].pc = "gave up"
      /\ [i EXCEPT !.pc = "gave up"].run = i.run
  BY <1>6 DEF Startup
<1>10. run.applied <= run.head
  BY <1>1, <1>3
<1> QED BY <1>7, <1>8, <1>9, <1>10

LEMMA HoldInv ==
  ASSUME IInv, Hold
  PROVE  IInv'
<1>1. /\ startup' = [Idle EXCEPT !.pc = "classify", !.todo = LoggedGraphs]
      /\ gate' = [gate EXCEPT !.hold = TRUE, !.released = {}]
      /\ UNCHANGED <<graphVars, writer, faults>>
  BY DEF Hold, HoldAll
<1>2. TypeOK
  BY DEF IInv
<1>3. /\ startup' \in Startup /\ startup'.pc = "classify" /\ startup'.todo = LoggedGraphs
      /\ startup'.graph = {} /\ startup'.action = [g \in Graph |-> "unknown"]
      /\ startup'.run.applied <= startup'.run.head
  <2>1. LoggedGraphs \in SUBSET Graph /\ "classify" \in StartupPC
    BY DEF LoggedGraphs, StartupPC
  <2>2. PICK todo \in SUBSET Graph : todo = LoggedGraphs
    BY <2>1
  <2>3. PICK i \in Startup : i = Idle
    BY IdleTyped
  <2>4. i.action = [g \in Graph |-> "unknown"] /\ i.graph = {} /\ i.run.applied <= i.run.head
    BY <2>3, IdleTyped DEF Idle
  <2>5. startup' = [i EXCEPT !.pc = "classify", !.todo = todo]
    BY <1>1, <2>2, <2>3
  <2>6. /\ startup' \in Startup /\ startup'.pc = "classify" /\ startup'.todo = todo
        /\ startup'.graph = i.graph /\ startup'.action = i.action /\ startup'.run = i.run
    BY <2>1, <2>5 DEF Startup
  <2> QED BY <2>2, <2>4, <2>6
<1>4. /\ gate' \in Gate /\ gate'.hold /\ gate'.released = {}
      /\ gate'.incomplete = gate.incomplete /\ gate'.failed = gate.failed
  BY <1>1, <1>2 DEF TypeOK, Gate
<1>5. TypeOK'
  BY <1>1, <1>2, <1>3, <1>4 DEF TypeOK, graphVars
<1>6. \A g \in Graph : SameGraph(g) /\ GraphInv(g)' /\ (Whole(g)' <=> Whole(g))
  BY <1>1, GraphsStand
<1>7. ASSUME NEW g \in Graph  PROVE Opening(g)'
  <2>1. /\ log[g].head \in Nat /\ log[g].marker \in Nat /\ log[g].marker <= log[g].head
        /\ content[g].low \in Nat
    BY <1>2, GraphTyped
  <2>2. Closed(g)'
    BY <1>4 DEF Closed
  <2>3. CASE g \in LoggedGraphs
    <3>1. log'[g].head > 0 /\ g \notin gate'.released /\ startup'.action[g] = "unknown"
      BY <1>3, <1>4, <1>6, <2>3 DEF SameGraph, LoggedGraphs
    <3>2. ToDo(g)'
      BY <3>1 DEF ToDo
    <3>3. g \in startup'.todo
      BY <1>3, <2>3
    <3> QED BY <2>2, <3>2, <3>3 DEF Opening
  <2>4. CASE g \notin LoggedGraphs
    <3>1. log[g].head = 0
      BY <2>1, <2>4 DEF LoggedGraphs
    <3>2. sentinel[g].state = "none"
      BY <3>1 DEF IInv, GraphInv, Found
    <3>3. log[g].marker <= content[g].low
      BY <2>1, <3>1
    <3>4. Whole(g)'
      BY <1>6, <3>2, <3>3 DEF Whole, Through
    <3>5. g \notin startup'.todo
      BY <1>3, <2>4
    <3> QED BY <2>2, <3>4, <3>5 DEF Opening
  <2> QED BY <2>3, <2>4
<1>8. StartupInv' /\ RunInv'
  BY <1>3, <1>4, BetweenGraphs
<1> QED BY <1>5, <1>6, <1>7, <1>8 DEF IInv

LEMMA AllClassifiedInv ==
  ASSUME IInv, AllClassified
  PROVE  IInv'
<1>1. /\ startup.pc = "classify" /\ startup' = [startup EXCEPT !.pc = "deal"]
      /\ UNCHANGED <<graphVars, gate, writer, faults>>
  BY DEF AllClassified
<1>2. TypeOK /\ StartupInv
  BY DEF IInv
<1>3. /\ startup' \in Startup /\ startup'.pc = "deal" /\ startup'.todo = startup.todo
      /\ startup'.graph = startup.graph /\ startup'.action = startup.action /\ startup'.run = startup.run
  BY <1>1, <1>2, StartupTyped DEF Startup, StartupPC
<1>4. startup.graph = {} /\ gate.hold /\ startup.pc \in Trying /\ startup'.pc \in Trying
  BY <1>1, <1>2, <1>3 DEF StartupInv, Trying, StartupPC
<1>5. TypeOK'
  BY <1>1, <1>2, <1>3 DEF TypeOK, graphVars
<1>6. \A g \in Graph : SameGraph(g) /\ GraphInv(g)'
  BY <1>1, GraphsStand
<1>7. ASSUME NEW g \in Graph  PROVE Opening(g)'
  BY <1>1, <1>3, <1>4, <1>6, OpeningKept DEF IInv
<1>8. StartupInv' /\ RunInv'
  BY <1>1, <1>3, <1>4, BetweenGraphs
<1> QED BY <1>5, <1>6, <1>7, <1>8 DEF IInv

\* The last graph is dealt with: what is not shut opens, and is whole.
LEMMA EndedInv ==
  ASSUME IInv, Ended
  PROVE  IInv'
<1>1. /\ startup.pc = "deal" /\ startup.todo = {} /\ startup' = [startup EXCEPT !.pc = "ended"]
      /\ gate' = [gate EXCEPT !.hold = FALSE, !.released = {}]
      /\ UNCHANGED <<graphVars, writer, faults>>
  BY DEF Ended, EndHold
<1>2. TypeOK /\ StartupInv
  BY DEF IInv
<1>3. /\ startup' \in Startup /\ startup'.pc = "ended" /\ startup'.todo = {}
      /\ startup'.graph = startup.graph /\ startup'.run = startup.run
  BY <1>1, <1>2, StartupTyped DEF Startup, StartupPC
<1>4. startup.graph = {} /\ startup.pc \in Trying
  BY <1>1, <1>2 DEF StartupInv, Trying, StartupPC
<1>5. /\ gate' \in Gate /\ ~gate'.hold
      /\ gate'.incomplete = gate.incomplete /\ gate'.failed = gate.failed
  BY <1>1, <1>2 DEF TypeOK, Gate
<1>6. TypeOK'
  BY <1>1, <1>2, <1>3, <1>5 DEF TypeOK, graphVars
<1>7. \A g \in Graph : SameGraph(g) /\ GraphInv(g)' /\ (Whole(g)' <=> Whole(g))
  BY <1>1, GraphsStand
<1>8. ASSUME NEW g \in Graph  PROVE Opening(g)'
  <2>1. Whole(g) \/ Shut(g)
    BY <1>1, <1>4 DEF IInv, Opening
  <2>2. Whole(g)' \/ (Shut(g)' /\ Closed(g)')
    BY <1>5, <1>7, <2>1 DEF Shut, Closed
  <2>3. startup'.pc \notin Trying
    BY <1>3 DEF Trying
  <2> QED BY <2>2, <2>3 DEF Opening
<1>9. StartupInv' /\ RunInv'
  BY <1>3, <1>4, <1>5 DEF StartupInv, RunInv, ReplayPC
<1> QED BY <1>6, <1>7, <1>8, <1>9 DEF IInv

LEMMA OutageInv ==
  ASSUME IInv, Outage \/ GiveUp \/ \E g \in Graph : CatchUpRaises(g)
  PROVE  IInv'
<1>1. /\ startup.pc # "ended" /\ startup' \in {Idle, [Idle EXCEPT !.pc = "gave up"]}
      /\ UNCHANGED <<graphVars, gate, writer>>
  <2>1. CASE Outage
    BY <2>1 DEF Outage, ReplayPC
  <2>2. CASE GiveUp
    BY <2>2 DEF GiveUp, ReplayPC
  <2>3. CASE \E g \in Graph : CatchUpRaises(g)
    BY <2>3 DEF CatchUpRaises, Dealing
  <2> QED BY <2>1, <2>2, <2>3
<1>2. TypeOK
  BY DEF IInv
<1>3. /\ faults' \in [crashes : 0..MaxCrashes, outages : 0..MaxOutages, raced : SUBSET Graph]
      /\ faults'.raced = faults.raced
  BY <1>2, OutageCounted DEF Outage, OneMoreOutage, GiveUp, CatchUpRaises
<1>4. /\ startup' \in Startup /\ startup'.graph = {} /\ startup'.pc \in {"hold", "gave up"}
      /\ startup'.run.applied <= startup'.run.head
  BY <1>1, IdleTyped
<1>5. TypeOK'
  BY <1>1, <1>2, <1>3, <1>4 DEF TypeOK, graphVars
<1>6. \A g \in Graph : GraphInv(g)' /\ (Whole(g) => Whole(g)')
  BY <1>1, <1>3, GraphsStand
<1> QED BY <1>1, <1>4, <1>5, <1>6, CutShortInv

\* A graph's place changes; the graphs, the gate and the faults do not.
LEMMA StandTyped ==
  ASSUME TypeOK, UNCHANGED <<graphVars, writer, faults>>, startup' \in Startup, gate' \in Gate,
         startup'.run = startup.run
  PROVE  TypeOK'
BY DEF TypeOK, graphVars

LEMMA UntouchedInv ==
  ASSUME IInv, NEW h \in Graph, Untouched(h)
  PROVE  IInv'
<1>1. /\ NextInOrder(h) /\ startup.action[h] = "untouched"
      /\ gate' = [gate EXCEPT !.released = @ \cup {h}]
      /\ startup' = [startup EXCEPT !.todo = @ \ {h}]
      /\ UNCHANGED <<graphVars, writer, faults>>
  BY DEF Untouched, Release
<1>2. /\ TypeOK /\ ToDo(h) /\ Opening(h)
      /\ startup.pc = "deal" /\ startup.pc \in Trying /\ gate.hold /\ h \in startup.todo
  BY <1>1, Next1
<1>3. /\ startup' \in Startup /\ startup'.pc = "deal" /\ startup'.todo = startup.todo \ {h}
      /\ startup'.graph = startup.graph /\ startup'.action = startup.action /\ startup'.run = startup.run
  BY <1>1, <1>2, StartupTyped DEF Startup
<1>4. /\ gate' \in Gate /\ gate'.hold = gate.hold /\ gate'.released = gate.released \cup {h}
      /\ gate'.incomplete = gate.incomplete /\ gate'.failed = gate.failed
  BY <1>1, <1>2, StartupTyped DEF Gate
<1>5. TypeOK'
  BY <1>1, <1>2, <1>3, <1>4, StandTyped
<1>6. \A g \in Graph : SameGraph(g) /\ GraphInv(g)' /\ (Whole(g)' <=> Whole(g))
  BY <1>1, GraphsStand
<1>7. Whole(h)'
  BY <1>1, <1>2, <1>6 DEF ToDo
<1>8. Opening(h)'
  BY <1>3, <1>7 DEF Opening
<1>9. startup.graph = {}
  BY <1>2 DEF IInv, StartupInv
<1>10. StartupInv' /\ RunInv'
  BY <1>2, <1>3, <1>4, <1>9, BetweenGraphs
<1>11. OthersKept(h)
  BY <1>3, <1>4, <1>6 DEF OthersKept
<1> QED BY <1>1, <1>2, <1>3, <1>5, <1>6, <1>8, <1>10, <1>11, DealtInv

LEMMA CatchUpInv ==
  ASSUME IInv, NEW h \in Graph, CatchUp(h)
  PROVE  IInv'
<1>1. /\ NextInOrder(h) /\ startup.action[h] = "catch_up"
      /\ startup' = [startup EXCEPT !.pc = "catch up", !.graph = {h}]
      /\ UNCHANGED <<graphVars, gate, writer, faults>>
  BY DEF CatchUp
<1>2. /\ TypeOK /\ Opening(h)
      /\ startup.pc = "deal" /\ startup.pc \in Trying /\ gate.hold /\ h \in startup.todo
  BY <1>1, Next1
<1>3. /\ startup' \in Startup /\ startup'.pc = "catch up" /\ startup'.todo = startup.todo
      /\ startup'.graph = {h} /\ startup'.action = startup.action /\ startup'.run = startup.run
  BY <1>1, <1>2, StartupTyped DEF Startup, StartupPC
<1>4. gate' \in Gate /\ gate' = gate /\ startup'.pc \in Trying
  BY <1>1, <1>2, <1>3, StartupTyped DEF Trying, StartupPC
<1>5. TypeOK'
  BY <1>1, <1>2, <1>3, <1>4, StandTyped
<1>6. \A g \in Graph : SameGraph(g) /\ GraphInv(g)'
  BY <1>1, GraphsStand
<1>7. Opening(h)'
  BY <1>1, <1>2, <1>3, <1>4, <1>6, OpeningKept
<1>8. StartupInv' /\ RunInv'
  BY <1>1, <1>2, <1>3, <1>4, AtGraph DEF ReplayPC
<1>9. OthersKept(h)
  BY <1>3, <1>4, <1>6 DEF OthersKept
<1> QED BY <1>1, <1>2, <1>4, <1>5, <1>6, <1>7, <1>8, <1>9, DealtInv

LEMMA ReplayGraphInv ==
  ASSUME IInv, NEW h \in Graph, ReplayGraph(h)
  PROVE  IInv'
<1>1. /\ NextInOrder(h) /\ startup.action[h] \in Rebuild
      /\ gate' = [gate EXCEPT !.incomplete = @ \cup {h}, !.failed = @ \ {h}]
      /\ startup' = [startup EXCEPT !.pc = "lock", !.graph = {h}]
      /\ UNCHANGED <<graphVars, writer, faults>>
  BY DEF ReplayGraph, Begin
<1>2. /\ TypeOK /\ Opening(h) /\ ToDo(h)
      /\ startup.pc = "deal" /\ startup.pc \in Trying /\ gate.hold /\ h \in startup.todo
  BY <1>1, Next1
<1>3. /\ startup' \in Startup /\ startup'.pc = "lock" /\ startup'.todo = startup.todo
      /\ startup'.graph = {h} /\ startup'.action = startup.action /\ startup'.run = startup.run
  BY <1>1, <1>2, StartupTyped DEF Startup, StartupPC
<1>4. /\ gate' \in Gate /\ gate'.hold = gate.hold /\ gate'.released = gate.released
      /\ gate'.incomplete = gate.incomplete \cup {h} /\ gate'.failed = gate.failed \ {h}
      /\ startup'.pc \in Trying
  BY <1>1, <1>2, <1>3, StartupTyped DEF Gate, Trying, StartupPC
<1>5. TypeOK'
  BY <1>1, <1>2, <1>3, <1>4, StandTyped
<1>6. \A g \in Graph : SameGraph(g) /\ GraphInv(g)' /\ (Whole(g)' <=> Whole(g))
  BY <1>1, GraphsStand
<1>7. Opening(h)'
  <2>1. Closed(h)' /\ h \in startup'.todo
    BY <1>2, <1>3, <1>4 DEF Closed
  <2>2. ToDo(h)'
    BY <1>1, <1>2, <1>3, <1>4, <1>6 DEF ToDo, SameGraph
  <2> QED BY <2>1, <2>2 DEF Opening
<1>8. StartupInv' /\ RunInv'
  BY <1>1, <1>2, <1>3, <1>4, AtGraph DEF ReplayPC
<1>9. OthersKept(h)
  BY <1>3, <1>4, <1>6 DEF OthersKept
<1> QED BY <1>1, <1>2, <1>4, <1>5, <1>6, <1>7, <1>8, <1>9, DealtInv

LEMMA StaysBehindInv ==
  ASSUME IInv, NEW h \in Graph, StaysBehind(h)
  PROVE  IInv'
<1>1. /\ Dealing(h, "catch up")
      /\ startup' = [startup EXCEPT !.pc = "deal", !.todo = @ \ {h}, !.graph = {}]
      /\ UNCHANGED <<graphVars, gate, writer>>
  BY DEF StaysBehind
<1>2. /\ TypeOK /\ Opening(h) /\ ToDo(h) /\ startup.pc = "catch up" /\ gate.hold
      /\ startup.action[h] = "catch_up"
  BY <1>1, Dealt
<1>3. /\ faults' \in [crashes : 0..MaxCrashes, outages : 0..MaxOutages, raced : SUBSET Graph]
      /\ faults'.raced = faults.raced
  BY <1>2, OutageCounted DEF StaysBehind
<1>4. /\ startup' \in Startup /\ startup'.pc = "deal" /\ startup'.todo = startup.todo \ {h}
      /\ startup'.graph = {} /\ startup'.action = startup.action /\ startup'.run = startup.run
  BY <1>1, <1>2, StartupTyped DEF Startup, StartupPC
<1>5. startup.pc \in Trying /\ startup'.pc \in Trying
  BY <1>2, <1>4 DEF Trying, StartupPC
<1>6. TypeOK'
  BY <1>1, <1>2, <1>3, <1>4 DEF TypeOK, graphVars
<1>7. \A g \in Graph : SameGraph(g) /\ GraphInv(g)' /\ (Whole(g)' <=> Whole(g))
  BY <1>1, <1>3, GraphsStand
<1>8. Opening(h)'
  <2>1. Whole(h)' /\ h \notin startup'.todo
    BY <1>2, <1>4, <1>7 DEF ToDo
  <2> QED BY <2>1 DEF Opening
<1>9. StartupInv' /\ RunInv'
  BY <1>1, <1>2, <1>4, BetweenGraphs
<1>10. OthersKept(h)
  BY <1>1, <1>4, <1>7 DEF OthersKept
<1> QED BY <1>3, <1>5, <1>6, <1>7, <1>8, <1>9, <1>10, DealtInv

(***************************************************************************)
(* Classifying by the nodes FalkorDB shows: a graph seen with a node and   *)
(* without a progress record is whole, and so is an empty one its log      *)
(* vouches for; one to rebuild is empty, unless a writer is at work on it. *)
(***************************************************************************)
LEMMA SeenNode ==
  ASSUME NEW g \in Graph, TRUE \in HoldsNode(g)
  PROVE  ~IsEmpty(content[g])
BY DEF HoldsNode, IsEmpty

LEMMA VouchedEmpty ==
  ASSUME NEW g \in Graph, TypeOK, NetsToEmpty(g), NEW c, IsEmpty(c)
  PROVE  Through(c, log[g].marker)
<1>1. log[g].marker = log[g].head /\ log[g].marker \in NetsEmpty
  BY GraphTyped DEF NetsToEmpty, Lagging
<1> QED BY <1>1 DEF Through, Exactly, IsEmpty

LEMMA EmptyIsEmpty == Empty \in Content /\ Empty.low = 0 /\ Empty.reach = 0 /\ IsEmpty(Empty)
BY NetsEmptyAssumption DEF Empty, Content, IsEmpty

LEMMA ClassifiedTyped ==
  ASSUME NEW g \in Graph, NEW b \in BOOLEAN
  PROVE  /\ Classified(g, b) \in Action \ {"unknown", "resume"}
         /\ b => Classified(g, b) # "replay"
         /\ ~b /\ Classified(g, b) # "replay" => NetsToEmpty(g)
BY DEF Classified, Action

LEMMA ClassifyInv ==
  ASSUME IInv, NEW h \in Graph, Classify(h)
  PROVE  IInv'
<1>1. /\ startup.pc = "classify" /\ h \in startup.todo
      /\ UNCHANGED <<log, checkpoint, sentinel, gate, writer>>
  BY DEF Classify
<1>2. TypeOK /\ StartupInv /\ GraphInv(h) /\ Opening(h) /\ Bounds(h) /\ Found(h) /\ Writing(h)
  BY DEF IInv, GraphInv
<1>3. startup.graph = {} /\ gate.hold /\ startup.pc \in Trying
  BY <1>1, <1>2 DEF StartupInv, Trying, StartupPC
<1>4. ToDo(h)
  BY <1>1, <1>2, <1>3 DEF Opening
<1>5. PICK a \in Action :
        /\ startup' = [startup EXCEPT !.action[h] = a]
        /\ \/ a = "resume" /\ sentinel[h].state # "none" /\ UNCHANGED <<content, faults>>
           \/ /\ sentinel[h].state = "none"
              /\ \E b \in HoldsNode(h) :
                   /\ a = Classified(h, b) /\ content' = Settled(h, b)
                   /\ faults' = IF a = "replay" /\ writer[h] # "idle"
                                THEN [faults EXCEPT !.raced = @ \cup {h}] ELSE faults
  <2>1. CASE sentinel[h].state # "none"
    BY <2>1 DEF Classify, Action
  <2>2. CASE sentinel[h].state = "none"
    <3>1. PICK b \in HoldsNode(h) :
            /\ startup' = [startup EXCEPT !.action[h] = Classified(h, b)]
            /\ content' = Settled(h, b)
            /\ faults' = IF Classified(h, b) = "replay" /\ writer[h] # "idle"
                         THEN [faults EXCEPT !.raced = @ \cup {h}] ELSE faults
      BY <2>2 DEF Classify
    <3>2. b \in BOOLEAN
      BY DEF HoldsNode, IsEmpty
    <3>3. Classified(h, b) \in Action
      BY <3>2, ClassifiedTyped
    <3> QED BY <2>2, <3>1, <3>3
  <2> QED BY <2>1, <2>2
<1>6. /\ startup' \in Startup /\ startup'.pc = "classify" /\ startup'.todo = startup.todo
      /\ startup'.graph = {} /\ startup'.run = startup.run /\ startup'.action[h] = a
      /\ \A o \in Graph \ {h} : startup'.action[o] = startup.action[o]
  BY <1>1, <1>2, <1>3, <1>5, StartupTyped DEF Startup
<1>7. StartupInv' /\ RunInv'
  BY <1>1, <1>3, <1>6, BetweenGraphs
<1>8. Closed(h)' /\ h \in startup'.todo /\ h \notin gate'.released /\ log'[h].head > 0
  BY <1>1, <1>3, <1>4, <1>6 DEF Closed, ToDo
<1>9. CASE a = "resume" /\ sentinel[h].state # "none" /\ UNCHANGED <<content, faults>>
  <2>1. TypeOK'
    BY <1>1, <1>2, <1>6, <1>9 DEF TypeOK
  <2>2. \A g \in Graph : SameGraph(g) /\ GraphInv(g)'
    BY <1>1, <1>9, GraphsStand DEF graphVars
  <2>3. ToDo(h)'
    BY <1>1, <1>6, <1>8, <1>9 DEF ToDo
  <2>4. Opening(h)'
    BY <1>8, <2>3 DEF Opening
  <2>5. OthersKept(h)
    BY <1>1, <1>6, <2>2 DEF OthersKept
  <2> QED BY <1>1, <1>3, <1>6, <1>7, <1>9, <2>1, <2>2, <2>4, <2>5, DealtInv
<1>10. CASE a # "resume" \/ sentinel[h].state = "none"
  <2>1. PICK b \in HoldsNode(h) :
          /\ sentinel[h].state = "none" /\ a = Classified(h, b) /\ content' = Settled(h, b)
          /\ faults' = IF a = "replay" /\ writer[h] # "idle"
                       THEN [faults EXCEPT !.raced = @ \cup {h}] ELSE faults
    BY <1>5, <1>10
  <2>2. b \in BOOLEAN
    BY DEF HoldsNode, IsEmpty
  <2>3. /\ faults' \in [crashes : 0..MaxCrashes, outages : 0..MaxOutages, raced : SUBSET Graph]
        /\ faults.raced \subseteq faults'.raced
        /\ a = "replay" /\ h \notin faults'.raced => writer[h] = "idle"
    <3>1. CASE a = "replay" /\ writer[h] # "idle"
      <4>1. faults' = [faults EXCEPT !.raced = @ \cup {h}]
        BY <2>1, <3>1
      <4> QED BY <1>2, <4>1 DEF TypeOK
    <3>2. CASE ~(a = "replay" /\ writer[h] # "idle")
      BY <1>2, <2>1, <3>2 DEF TypeOK
    <3> QED BY <3>1, <3>2
  <2>4. /\ content' \in [Graph -> Content] /\ \A o \in Graph \ {h} : content'[o] = content[o]
        /\ content' = content \/ (~b /\ writer[h] = "idle" /\ content'[h] = Empty)
    <3>1. CASE content' = content
      BY <1>2, <3>1 DEF TypeOK
    <3>2. CASE content' # content
      <4>1. ~b /\ writer[h] = "idle" /\ content' = [content EXCEPT ![h] = Empty]
        BY <2>1, <2>2, <3>2 DEF Settled
      <4> QED BY <1>2, <4>1, EmptyIsEmpty DEF TypeOK
    <3> QED BY <3>1, <3>2
  <2>5. TypeOK'
    BY <1>1, <1>2, <1>6, <2>3, <2>4 DEF TypeOK
  <2>6. \A o \in Graph \ {h} : SameGraph(o)
    BY <1>1, <2>4 DEF SameGraph
  <2>7. ~b => IsEmpty(content'[h]) \/ writer[h] # "idle"
    <3>1. ASSUME ~b, ~IsEmpty(content[h]), writer[h] = "idle"  PROVE content' = [content EXCEPT ![h] = Empty]
      BY <2>1, <2>2, <3>1 DEF Settled
    <3>2. CASE content' = content
      <4>1. ASSUME ~b, ~IsEmpty(content[h]), writer[h] = "idle"  PROVE IsEmpty(content'[h])
        BY <1>2, <3>1, <4>1, EmptyIsEmpty DEF TypeOK
      <4> QED BY <3>2, <4>1
    <3>3. CASE content' # content
      BY <2>4, <3>3, EmptyIsEmpty
    <3> QED BY <3>2, <3>3
  <2>8. GraphInv(h)'
    <3>1. CASE content' = content
      BY <1>1, <1>2, <2>3, <3>1, GraphKept DEF SameGraph
    <3>2. CASE content' # content
      <4>1. /\ writer'[h] = "idle" /\ content'[h] = Empty /\ sentinel'[h].state = "none"
            /\ log'[h].head \in Nat /\ checkpoint'[h].position <= log'[h].head
        BY <1>1, <1>2, <2>1, <2>4, <3>2, GraphTyped DEF Bounds
      <4>2. Bounds(h)' /\ Rebuilding(h)' /\ Writing(h)' /\ Found(h)' /\ Caused(h)'
        BY <4>1, EmptyIsEmpty DEF Bounds, Rebuilding, Writing, Found, Caused
      <4> QED BY <4>2 DEF GraphInv
    <3> QED BY <3>1, <3>2
  <2>9. a # "replay" => Whole(h)'
    <3>1. CASE b
      <4>1. ~IsEmpty(content[h])
        BY <2>1, <2>2, <3>1, SeenNode
      <4>2. Whole(h) /\ content' = content
        BY <1>2, <2>1, <2>4, <3>1, <4>1 DEF Found
      <4> QED BY <1>1, <4>2 DEF Whole
    <3>2. CASE ~b
      <4>1. ASSUME a # "replay", IsEmpty(content'[h])  PROVE Whole(h)'
        <5>1. NetsToEmpty(h)
          BY <2>1, <2>2, <3>2, <4>1, ClassifiedTyped
        <5>2. Through(content'[h], log[h].marker)
          BY <1>2, <4>1, <5>1, VouchedEmpty
        <5> QED BY <1>1, <2>1, <5>2 DEF Whole, Through, Exactly
      <4>2. ASSUME writer[h] # "idle"  PROVE Whole(h)'
        <5>1. Whole(h) /\ content' = content
          BY <1>2, <2>4, <4>2 DEF Writing
        <5> QED BY <1>1, <5>1 DEF Whole
      <4> QED BY <2>7, <3>2, <4>1, <4>2
    <3> QED BY <2>2, <3>1, <3>2
  <2>10. ToDo(h)'
    <3>1. a # "resume" /\ (a = "replay" => ~b)
      BY <2>1, <2>2, ClassifiedTyped
    <3>2. a = "replay" /\ h \notin faults'.raced => writer'[h] = "idle" /\ IsEmpty(content'[h])
      BY <1>1, <2>3, <2>7, <3>1
    <3>3. startup'.action[h] \in {"untouched", "catch_up"} => Whole(h)'
      BY <1>6, <2>9
    <3>4. (startup'.action[h] = "replay" /\ sentinel'[h].state = "none" /\ h \notin faults'.raced) =>
            (writer'[h] = "idle" /\ IsEmpty(content'[h]))
      BY <1>6, <3>2
    <3> QED BY <1>6, <1>8, <3>1, <3>3, <3>4 DEF ToDo, IsEmpty
  <2>11. Opening(h)'
    BY <1>8, <2>10 DEF Opening
  <2>12. OthersKept(h)
    BY <1>1, <1>6, <2>6 DEF OthersKept
  <2> QED BY <1>1, <1>3, <1>6, <1>7, <2>3, <2>5, <2>8, <2>11, <2>12, DealtInv
<1> QED BY <1>9, <1>10, <1>5

LEMMA CatchUpPartInv ==
  ASSUME IInv, NEW h \in Graph, CatchUpPart(h)
  PROVE  IInv'
<1>1. Dealing(h, "catch up") /\ writer[h] = "idle" /\ AppliesPart(h, log[h].head)
  BY DEF CatchUpPart
<1>2. /\ TypeOK /\ GraphInv(h) /\ ToDo(h) /\ startup.pc = "catch up" /\ startup.graph = {h}
      /\ gate.hold /\ h \in startup.todo /\ startup.action[h] = "catch_up"
  BY <1>1, Dealt
<1>3. Whole(h) /\ log[h].head \in Nat
  BY <1>2, GraphTyped DEF ToDo
<1>5. log[h].head <= log[h].head
  BY <1>3
<1>6. /\ TypeOK' /\ Whole(h)' /\ \A o \in Graph \ {h} : SameGraph(o)
      /\ content'[h].low <= content'[h].reach /\ content'[h].reach <= log'[h].head
      /\ log'[h].head = log[h].head
      /\ checkpoint'[h].position <= log'[h].head
      /\ UNCHANGED <<checkpoint, sentinel, gate, startup, writer, faults>>
  BY <1>1, <1>2, <1>3, <1>5, PartApplied
<1>7. GraphInv(h)'
  BY <1>1, <1>2, <1>3, <1>6, WrittenGraph
<1>8. Opening(h)'
  BY <1>2, <1>6 DEF Opening, ToDo
<1>9. StartupInv' /\ RunInv'
  BY <1>2, <1>6, AtGraph DEF ReplayPC
<1>10. OthersKept(h)
  BY <1>6 DEF OthersKept
<1>11. startup.pc \in Trying /\ startup'.pc \in Trying
  BY <1>2, <1>6 DEF Trying, StartupPC
<1> QED BY <1>6, <1>7, <1>8, <1>9, <1>10, <1>11, DealtInv

LEMMA CaughtUpInv ==
  ASSUME IInv, NEW h \in Graph, CaughtUp(h)
  PROVE  IInv'
<1>1. /\ Dealing(h, "catch up") /\ writer[h] = "idle"
      /\ content' = [content EXCEPT ![h] =
                      IF Lagging(h) THEN Applied(@, log[h].marker + 1, log[h].head) ELSE @]
      /\ log' = [log EXCEPT ![h].marker = log[h].head]
      /\ gate' = [gate EXCEPT !.released = @ \cup {h}]
      /\ startup' = [startup EXCEPT !.pc = "deal", !.todo = @ \ {h}, !.graph = {}]
      /\ UNCHANGED <<checkpoint, sentinel, writer, faults>>
  BY DEF CaughtUp, Release
<1>2. /\ TypeOK /\ GraphInv(h) /\ Bounds(h) /\ ToDo(h) /\ startup.pc = "catch up" /\ gate.hold
      /\ startup.action[h] = "catch_up"
  BY <1>1, Dealt
<1>3. Whole(h) /\ Through(content[h], log[h].marker)
  BY <1>2 DEF ToDo, Whole
<1>4. /\ log[h].head \in Nat /\ log[h].marker \in Nat /\ log[h].marker <= log[h].head /\ log[h] \in Log
  BY <1>2, GraphTyped
<1>5. /\ content' \in [Graph -> Content] /\ \A o \in Graph \ {h} : content'[o] = content[o]
      /\ content'[h].low <= content'[h].reach /\ content'[h].reach <= log[h].head
      /\ Through(content'[h], log[h].head)
  <2>1. CASE Lagging(h)
    <3>1. PICK n \in Nat : n = log[h].head
      BY <1>4
    <3>2. content' = [content EXCEPT ![h] = Applied(@, log[h].marker + 1, n)]
      BY <1>1, <2>1, <3>1
    <3>3. log[h].marker < n /\ n <= log[h].head
      BY <1>4, <2>1, <3>1 DEF Lagging
    <3>4. /\ content'[h] \in Content /\ content'[h].low = n /\ n <= content'[h].reach
          /\ content'[h].reach <= log[h].head /\ content' \in [Graph -> Content]
          /\ \A o \in Graph \ {h} : content'[o] = content[o]
      BY <1>2, <1>3, <3>2, <3>3, WrittenContent
    <3>5. Through(content'[h], log[h].head)
      BY <1>4, <3>1, <3>4 DEF Through
    <3> QED BY <3>1, <3>4, <3>5
  <2>2. CASE ~Lagging(h)
    <3>1. content' = content
      BY <1>1, <1>2, <2>2 DEF TypeOK
    <3>2. log[h].marker = log[h].head
      BY <1>4, <2>2 DEF Lagging
    <3> QED BY <1>2, <1>3, <3>1, <3>2 DEF TypeOK, Bounds
  <2> QED BY <2>1, <2>2
<1>6. /\ log'[h].marker = log[h].head /\ log'[h].head = log[h].head /\ log' \in [Graph -> Log]
      /\ \A o \in Graph \ {h} : log'[o] = log[o]
      /\ \A g \in Graph : log'[g].marker <= log'[g].head
  BY <1>1, <1>2, MarkerAtHead
<1>8. /\ startup' \in Startup /\ startup'.pc = "deal" /\ startup'.todo = startup.todo \ {h}
      /\ startup'.graph = {} /\ startup'.action = startup.action /\ startup'.run = startup.run
  BY <1>1, <1>2, StartupTyped DEF Startup, StartupPC
<1>9. /\ gate' \in Gate /\ gate'.hold = gate.hold /\ gate'.released = gate.released \cup {h}
      /\ gate'.incomplete = gate.incomplete /\ gate'.failed = gate.failed
  BY <1>1, <1>2, StartupTyped DEF Gate
<1>10. TypeOK'
  BY <1>1, <1>2, <1>5, <1>6, <1>8, <1>9 DEF TypeOK
<1>11. Whole(h)'
  BY <1>1, <1>3, <1>5, <1>6 DEF Whole, Through, Exactly
<1>12. GraphInv(h)'
  <2>1. /\ content'[h].low <= content'[h].reach /\ content'[h].reach <= log'[h].head
        /\ checkpoint'[h].position <= log'[h].head
    BY <1>1, <1>2, <1>5, <1>6 DEF Bounds
  <2>2. sentinel'[h] = sentinel[h] /\ writer'[h] = "idle"
    BY <1>1
  <2> QED BY <1>2, <1>3, <1>11, <2>1, <2>2, WrittenGraph
<1>13. Opening(h)'
  BY <1>8, <1>11 DEF Opening
<1>14. StartupInv' /\ RunInv'
  BY <1>2, <1>8, <1>9, BetweenGraphs
<1>15. OthersKept(h)
  BY <1>1, <1>5, <1>6, <1>8, <1>9 DEF OthersKept, SameGraph
<1>16. startup.pc \in Trying /\ startup'.pc \in Trying
  BY <1>2, <1>8 DEF Trying, StartupPC
<1> QED BY <1>1, <1>10, <1>12, <1>13, <1>14, <1>15, <1>16, DealtInv

-----------------------------------------------------------------------------
(***************************************************************************)
(* The rebuild of a graph: it stays closed, and nobody else is at work on  *)
(* it.                                                                     *)
(***************************************************************************)
LEMMA RebuildStepInv ==
  ASSUME IInv, NEW h \in Graph, NEW pc \in {"lock"} \cup ReplayPC, Dealing(h, pc), TypeOK',
         \A o \in Graph \ {h} : SameGraph(o), gate' = gate, faults' = faults,
         startup'.pc \in ReplayPC, startup'.todo = startup.todo, startup'.graph = {h},
         startup'.action = startup.action, writer'[h] = "idle",
         sentinel'[h].state = "in_progress", log'[h].head = log[h].head,
         Bounds(h)', Rebuilding(h)', RunOf(h, startup.run)'
  PROVE  IInv'
<1>1. /\ ToDo(h) /\ startup.pc = pc /\ gate.hold /\ h \in startup.todo
      /\ startup.action[h] \in Rebuild /\ h \in gate.incomplete
  BY Dealt DEF ReplayPC
<1>2. log[h].head > 0 /\ h \notin gate.released
  BY <1>1 DEF ToDo
<1>3. GraphInv(h)'
  <2>1. Writing(h)' /\ Found(h)' /\ Caused(h)'
    BY <1>2 DEF Writing, Found, Caused
  <2> QED BY <2>1 DEF GraphInv
<1>4. Opening(h)'
  <2>1. Closed(h)' /\ h \in startup'.todo
    BY <1>1 DEF Closed
  <2>2. ToDo(h)'
    BY <1>1, <1>2 DEF ToDo, Rebuild
  <2> QED BY <2>1, <2>2 DEF Opening
<1>5. StartupInv' /\ RunInv'
  <2>1. startup'.pc # "catch up" /\ h \in startup'.todo /\ gate'.hold
    BY <1>1 DEF ReplayPC
  <2> QED BY <1>1, <2>1, AtGraph
<1>6. OthersKept(h)
  BY DEF OthersKept
<1>7. startup.pc \in Trying /\ startup'.pc \in Trying
  BY <1>1 DEF Trying, StartupPC, ReplayPC
<1> QED BY <1>3, <1>4, <1>5, <1>6, <1>7, DealtInv

\* A rebuild that fails is recorded, and the graph stays shut.
LEMMA FailedInv ==
  ASSUME IInv, NEW h \in Graph, NEW pc \in {"lock"} \cup ReplayPC, Dealing(h, pc), TypeOK', Fail(h),
         \A o \in Graph \ {h} : SameGraph(o), faults' = faults,
         startup'.pc = "deal", startup'.todo = startup.todo \ {h}, startup'.graph = {},
         startup'.action = startup.action, writer'[h] = "idle",
         sentinel'[h].state = "failed", log'[h] = log[h], checkpoint'[h] = checkpoint[h],
         Bounds(h)', log[h].corrupt # 0 \/ ~checkpoint[h].sound \/ h \in faults.raced
  PROVE  IInv'
<1>1. ToDo(h) /\ startup.pc = pc /\ gate.hold /\ TypeOK
  BY Dealt DEF ReplayPC
<1>2. log[h].head > 0
  BY <1>1 DEF ToDo
<1>3. GraphInv(h)'
  <2>1. Rebuilding(h)' /\ Writing(h)' /\ Found(h)' /\ Caused(h)'
    BY <1>2 DEF Rebuilding, Writing, Found, Caused
  <2> QED BY <2>1 DEF GraphInv
<1>4. /\ gate'.hold = gate.hold /\ gate'.released = gate.released
      /\ gate'.incomplete = gate.incomplete \ {h} /\ gate'.failed = gate.failed \cup {h}
  BY <1>1, StartupTyped DEF Fail, Gate
<1>5. Opening(h)'
  BY <1>4 DEF Opening, Closed, Shut
<1>6. StartupInv' /\ RunInv'
  BY <1>1, <1>4, BetweenGraphs
<1>7. OthersKept(h)
  BY <1>4 DEF OthersKept
<1>8. startup.pc \in Trying /\ startup'.pc \in Trying
  BY <1>1 DEF Trying, StartupPC, ReplayPC
<1> QED BY <1>3, <1>5, <1>6, <1>7, <1>8, DealtInv

\* FailsAt, with what the graph holds.
LEMMA FailsAtInv ==
  ASSUME IInv, NEW h \in Graph, NEW pc \in {"lock"} \cup ReplayPC, Dealing(h, pc),
         NEW position \in Nat, FailsAt(h, position), UNCHANGED <<log, checkpoint, writer>>,
         sentinel[h].state = "in_progress",
         content' \in [Graph -> Content], \A o \in Graph \ {h} : content'[o] = content[o],
         content'[h].low <= content'[h].reach, content'[h].reach <= log[h].head, writer[h] = "idle",
         log[h].corrupt # 0 \/ ~checkpoint[h].sound \/ h \in faults.raced
  PROVE  IInv'
<1>1. TypeOK /\ Bounds(h)
  BY Dealt
<1>2. sentinel' = [sentinel EXCEPT ![h].state = "failed", ![h].position = position]
  BY DEF FailsAt
<1>3. /\ sentinel' \in [Graph -> Sentinel] /\ sentinel'[h].state = "failed"
      /\ \A o \in Graph \ {h} : sentinel'[o] = sentinel[o]
  <2>1. sentinel[h] \in Sentinel
    BY <1>1, GraphTyped
  <2>2. PICK new \in Sentinel : /\ new.state = "failed"
                                /\ new = [sentinel[h] EXCEPT !.state = "failed", !.position = position]
    BY <2>1 DEF Sentinel
  <2>3. sentinel' = [sentinel EXCEPT ![h] = new]
    BY <1>1, <1>2, <2>2 DEF TypeOK
  <2> QED BY <1>1, <2>2, <2>3 DEF TypeOK
<1>4. \A o \in Graph \ {h} : SameGraph(o)
  BY <1>3 DEF SameGraph
<1>5. Bounds(h)'
  BY <1>1, <1>3 DEF Bounds
<1>6. log'[h] = log[h] /\ checkpoint'[h] = checkpoint[h] /\ writer'[h] = "idle"
  OBVIOUS
<1>7. CASE /\ Fail(h) /\ faults' = faults
           /\ startup' = [startup EXCEPT !.pc = "deal", !.todo = @ \ {h}, !.graph = {}, !.run = NoRun]
  <2>1. /\ startup' \in Startup /\ startup'.pc = "deal" /\ startup'.todo = startup.todo \ {h}
        /\ startup'.graph = {} /\ startup'.action = startup.action
        /\ startup'.run.applied <= startup'.run.head
    <3>1. PICK run \in Run : run = NoRun /\ run.applied <= run.head
      BY NoRunTyped
    <3>2. startup' = [startup EXCEPT !.pc = "deal", !.todo = @ \ {h}, !.graph = {}, !.run = run]
      BY <1>7, <3>1
    <3>3. /\ startup' \in Startup /\ startup'.pc = "deal" /\ startup'.todo = startup.todo \ {h}
          /\ startup'.graph = {} /\ startup'.action = startup.action /\ startup'.run = run
      BY <1>1, <3>2, StartupTyped DEF Startup, StartupPC
    <3> QED BY <3>1, <3>3
  <2>2. gate' \in Gate
    BY <1>1, <1>7, StartupTyped DEF Fail, Gate
  <2>3. TypeOK'
    BY <1>1, <1>3, <1>7, <2>1, <2>2 DEF TypeOK
  <2> QED BY <1>3, <1>4, <1>5, <1>6, <1>7, <2>1, <2>3, FailedInv
<1>8. CASE OneMoreOutage /\ startup' = Idle /\ UNCHANGED gate
  <2>1. /\ faults' \in [crashes : 0..MaxCrashes, outages : 0..MaxOutages, raced : SUBSET Graph]
        /\ faults'.raced = faults.raced
    BY <1>1, <1>8, OutageCounted DEF OneMoreOutage
  <2>2. /\ startup' \in Startup /\ startup'.graph = {} /\ startup'.pc = "hold"
        /\ startup'.run.applied <= startup'.run.head
    BY <1>8, IdleTyped
  <2>3. TypeOK'
    BY <1>1, <1>3, <1>8, <2>1, <2>2 DEF TypeOK
  <2>4. GraphInv(h)'
    <3>1. log[h].head > 0
      BY Dealt DEF ToDo
    <3>2. Rebuilding(h)' /\ Writing(h)' /\ Found(h)' /\ Caused(h)'
      BY <1>3, <1>6, <2>1, <3>1 DEF Rebuilding, Writing, Found, Caused
    <3> QED BY <1>5, <3>2 DEF GraphInv
  <2>5. ASSUME NEW g \in Graph  PROVE GraphInv(g)' /\ (Whole(g) => Whole(g)')
    <3>1. CASE g = h
      BY <2>4, <3>1 DEF Whole
    <3>2. CASE g # h
      <4>1. SameGraph(g) /\ GraphInv(g)
        BY <1>4, <3>2 DEF IInv
      <4>2. GraphInv(g)'
        BY <2>1, <4>1, GraphKept
      <4> QED BY <4>1, <4>2 DEF SameGraph, Whole
    <3> QED BY <3>1, <3>2
  <2>6. startup.pc # "ended"
    BY DEF Dealing, ReplayPC
  <2> QED BY <1>8, <2>2, <2>3, <2>5, <2>6, CutShortInv
<1> QED BY <1>7, <1>8 DEF FailsAt

\* What a rebuild knows of the log's prefix it is at.
LEMMA InRebuild ==
  ASSUME IInv, NEW h \in Graph, NEW pc \in ReplayPC, Dealing(h, pc),
         NEW run, run = startup.run,
         NEW p, NEW v, NEW at, NEW c,
         p = sentinel[h].position, v = sentinel[h].verified, at = checkpoint[h].position, c = content[h]
  PROVE  /\ TypeOK /\ startup.pc = pc
         /\ run.verifyAt = at /\ run.verified = v /\ run.head = log[h].head
         /\ p \in Nat /\ v \in Nat \cup {-1} /\ at \in Nat /\ c \in Content /\ run \in Run
         /\ run.applied \in Nat /\ log[h].head \in Nat
         /\ writer[h] = "idle" /\ sentinel[h].state = "in_progress"
         /\ c.low <= c.reach /\ c.reach <= log[h].head /\ at <= log[h].head /\ p <= log[h].head
         /\ run.applied <= log[h].head
         /\ Through(c, p)
         /\ at # 0 /\ p > at => v = at
         /\ h \notin faults.raced => Exactly(c, p) \/ (p <= c.low /\ c.reach <= EndOfPage(h, p))
         /\ h \notin faults.raced /\ at # 0 /\ v # at /\ p = at => Exactly(c, p)
         /\ pc # "record" => run.applied = p
         /\ pc = "page" => ~(at # 0 /\ v # at /\ p = at)
         /\ pc = "verify" => p = at /\ at # 0 /\ v # at
         /\ pc = "record" =>
              /\ p < run.applied /\ run.applied = EndOfPage(h, p)
              /\ at # 0 /\ run.applied > at => v = at
              /\ c.low = run.applied /\ (h \notin faults.raced => c.reach = run.applied)
         /\ pc \in {"finish", "delete"} => run.applied = log[h].head
         /\ pc = "delete" => log[h].marker = log[h].head
<1>1. /\ TypeOK /\ GraphInv(h) /\ Bounds(h) /\ Rebuilding(h) /\ RunOf(h, run) /\ startup.pc = pc
  BY Dealt DEF GraphInv
<1>2. p = sentinel[h].position /\ v = sentinel[h].verified /\ at = checkpoint[h].position /\ c = content[h]
  OBVIOUS
<1>3. /\ p \in Nat /\ at \in Nat /\ c \in Content /\ log[h].head \in Nat /\ sentinel[h] \in Sentinel
  BY <1>1, <1>2, GraphTyped
<1>4. v \in Nat \cup {-1} /\ run \in Run /\ run.applied \in Nat /\ run.applied <= run.head
  BY <1>1, <1>2, <1>3, StartupTyped DEF Sentinel
<1>5. /\ writer[h] = "idle" /\ sentinel[h].state = "in_progress"
      /\ run.head = log[h].head /\ run.verifyAt = at /\ run.verified = v
  BY <1>1, <1>2 DEF RunOf
<1>6. /\ c.low <= c.reach /\ c.reach <= log[h].head /\ at <= log[h].head /\ p <= log[h].head
  BY <1>1, <1>2, <1>5 DEF Bounds
<1>7. /\ Through(c, p)
      /\ at # 0 /\ p > at => v = at
      /\ h \notin faults.raced => Exactly(c, p) \/ (p <= c.low /\ c.reach <= EndOfPage(h, p))
      /\ h \notin faults.raced /\ at # 0 /\ v # at /\ p = at => Exactly(c, p)
  BY <1>1, <1>2, <1>5 DEF Rebuilding, PastCheckpoint, Unverified
<1>8. /\ pc # "record" => run.applied = p
      /\ pc = "page" => ~(at # 0 /\ v # at /\ p = at)
      /\ pc = "verify" => p = at /\ at # 0 /\ v # at
  BY <1>1, <1>2, <1>5 DEF RunOf, Unverified
<1>9. /\ pc = "record" =>
           /\ p < run.applied /\ run.applied = EndOfPage(h, p)
           /\ at # 0 /\ run.applied > at => v = at
           /\ c.low = run.applied /\ (h \notin faults.raced => c.reach = run.applied)
      /\ pc \in {"finish", "delete"} => run.applied = log[h].head
      /\ pc = "delete" => log[h].marker = log[h].head
  BY <1>1, <1>2, <1>5 DEF RunOf, PastCheckpoint
<1> QED BY <1>1, <1>2, <1>3, <1>4, <1>5, <1>6, <1>7, <1>8, <1>9

LEMMA RebuildingNext ==
  ASSUME NEW h \in Graph, NEW p, NEW v, NEW at, NEW c,
         p = sentinel'[h].position, v = sentinel'[h].verified, at = checkpoint[h].position,
         c = content'[h], log'[h].head = log[h].head, checkpoint'[h] = checkpoint[h], faults' = faults,
         Through(c, p), at # 0 /\ p > at => v = at,
         h \notin faults.raced => Exactly(c, p) \/ (p <= c.low /\ c.reach <= EndOfPage(h, p)),
         h \notin faults.raced /\ at # 0 /\ v # at /\ p = at => Exactly(c, p)
  PROVE  Rebuilding(h)'
<1>1. EndOfPage(h, p) = PageEnd([head |-> log'[h].head, verifyAt |-> checkpoint'[h].position, applied |-> p])
  BY DEF EndOfPage
<1> QED BY <1>1 DEF Rebuilding, EndOfPage, PastCheckpoint, Unverified

LEMMA RunNext ==
  ASSUME NEW h \in Graph, NEW run, NEW p, NEW v, NEW at, run = startup'.run,
         p = sentinel'[h].position, v = sentinel'[h].verified, at = checkpoint[h].position,
         log'[h].head = log[h].head, checkpoint'[h] = checkpoint[h], faults' = faults,
         writer'[h] = "idle", sentinel'[h].state = "in_progress",
         run.head = log[h].head, run.verifyAt = at, run.verified = v,
         startup'.pc # "record" => run.applied = p,
         startup'.pc = "page" => ~(at # 0 /\ v # at /\ run.applied = at),
         startup'.pc = "verify" => run.applied = at /\ at # 0 /\ v # at,
         startup'.pc = "record" =>
           /\ p < run.applied /\ run.applied = EndOfPage(h, p)
           /\ at # 0 /\ run.applied > at => v = at
           /\ content'[h].low = run.applied
           /\ h \notin faults.raced => content'[h].reach = run.applied,
         startup'.pc \in {"finish", "delete"} => run.applied = log[h].head,
         startup'.pc = "delete" => log'[h].marker = log[h].head
  PROVE  RunOf(h, startup.run)'
<1>1. EndOfPage(h, p) = PageEnd([head |-> log'[h].head, verifyAt |-> checkpoint'[h].position, applied |-> p])
  BY DEF EndOfPage
<1> QED BY <1>1 DEF RunOf, EndOfPage, PastCheckpoint, Unverified

LEMMA EndOfPageIs ==
  ASSUME NEW h \in Graph, NEW p \in Nat, NEW at, at = checkpoint[h].position,
         TypeOK, at <= log[h].head, p <= log[h].head
  PROVE  /\ EndOfPage(h, p) \in Nat /\ p <= EndOfPage(h, p) /\ EndOfPage(h, p) <= log[h].head
         /\ p < at => EndOfPage(h, p) <= at
         /\ p < log[h].head => p < EndOfPage(h, p)
<1>1. log[h].head \in Nat /\ at \in Nat
  BY GraphTyped
<1> QED BY <1>1, PageEndIs DEF EndOfPage

LEMMA PageOfRun ==
  ASSUME NEW h \in Graph, NEW run, run.head = log[h].head, run.verifyAt = checkpoint[h].position
  PROVE  PageEnd(run) = EndOfPage(h, run.applied)
BY DEF PageEnd, EndOfPage

\* The progress record is written.
LEMMA SentinelSet ==
  ASSUME TypeOK, NEW h \in Graph, NEW p \in Nat, NEW v \in Nat \cup {-1},
         sentinel' = [sentinel EXCEPT ![h] = InProgress(p, v)]
  PROVE  /\ sentinel' \in [Graph -> Sentinel] /\ \A o \in Graph \ {h} : sentinel'[o] = sentinel[o]
         /\ sentinel'[h].state = "in_progress" /\ sentinel'[h].position = p /\ sentinel'[h].verified = v
<1>1. /\ InProgress(p, v) \in Sentinel /\ InProgress(p, v).state = "in_progress"
      /\ InProgress(p, v).position = p /\ InProgress(p, v).verified = v
  BY DEF InProgress, Sentinel
<1>2. PICK new \in Sentinel : new = InProgress(p, v)
  BY <1>1
<1>3. sentinel' = [sentinel EXCEPT ![h] = new]
  BY <1>2
<1>4. /\ sentinel' \in [Graph -> Sentinel] /\ sentinel'[h] = new
      /\ \A o \in Graph \ {h} : sentinel'[o] = sentinel[o]
  BY <1>3 DEF TypeOK
<1> QED BY <1>1, <1>2, <1>4

LEMMA StartInv ==
  ASSUME IInv, NEW h \in Graph, Start(h)
  PROVE  IInv'
<1>1. PICK p, v, at, c : /\ p = sentinel[h].position /\ v = sentinel[h].verified
                         /\ at = checkpoint[h].position /\ c = content[h]
  OBVIOUS
<1>2. /\ Dealing(h, "lock") /\ writer[h] = "idle"
      /\ UNCHANGED <<log, checkpoint, content, writer>>
  BY DEF Start
<1>3. /\ TypeOK /\ GraphInv(h) /\ Bounds(h) /\ Opening(h) /\ ToDo(h) /\ startup.pc = "lock"
      /\ startup.graph = {h} /\ startup.action[h] \in Rebuild
  BY <1>2, Dealt
<1>4. /\ log[h].head \in Nat /\ p \in Nat /\ at \in Nat /\ at <= log[h].head
      /\ c \in Content /\ c.low \in Nat /\ c.reach \in Nat /\ c.low <= c.reach /\ c.reach <= log[h].head
      /\ v \in Nat \cup {-1} /\ sentinel[h] \in Sentinel
  BY <1>1, <1>3, GraphTyped DEF Bounds, Sentinel
<1>5. ASSUME NEW q \in Nat, NEW w \in Nat \cup {-1}, q <= log[h].head, NEW pc \in {"page", "verify"},
             startup' = [startup EXCEPT !.pc = pc, !.run = RunFrom(h, q, w)]
      PROVE  /\ startup' \in Startup /\ startup'.pc = pc /\ startup'.todo = startup.todo
             /\ startup'.graph = {h} /\ startup'.action = startup.action
             /\ startup'.run = RunFrom(h, q, w) /\ startup'.run.applied <= startup'.run.head
             /\ startup'.run.head = log[h].head /\ startup'.run.verifyAt = at
             /\ startup'.run.applied = q /\ startup'.run.verified = w
  <2>1. PICK run \in Run : /\ run = RunFrom(h, q, w) /\ run.applied <= run.head
                           /\ run.head = log[h].head /\ run.verifyAt = at
                           /\ run.applied = q /\ run.verified = w
    <3>1. /\ RunFrom(h, q, w) \in Run /\ RunFrom(h, q, w).applied = q
          /\ RunFrom(h, q, w).head = log[h].head /\ RunFrom(h, q, w).verifyAt = at
          /\ RunFrom(h, q, w).verified = w
      BY <1>1, <1>4 DEF RunFrom, Run
    <3> QED BY <1>5, <3>1
  <2>2. pc \in StartupPC
    BY DEF StartupPC
  <2>3. startup' = [startup EXCEPT !.pc = pc, !.run = run]
    BY <1>5, <2>1
  <2>4. /\ startup' \in Startup /\ startup'.pc = pc /\ startup'.todo = startup.todo
        /\ startup'.graph = startup.graph /\ startup'.action = startup.action /\ startup'.run = run
    BY <1>3, <2>2, <2>3, StartupTyped DEF Startup
  <2> QED BY <1>3, <2>1, <2>4
<1>6. CASE sentinel[h].state = "none"
  <2>1. /\ sentinel' = [sentinel EXCEPT ![h] = InProgress(0, -1)]
        /\ startup' = [startup EXCEPT !.pc = "page", !.run = RunFrom(h, 0, -1)]
        /\ gate' = gate /\ faults' = faults
    BY <1>6 DEF Start, NotVerified
  <2>2. /\ sentinel' \in [Graph -> Sentinel] /\ \A o \in Graph \ {h} : sentinel'[o] = sentinel[o]
        /\ sentinel'[h].state = "in_progress" /\ sentinel'[h].position = 0
        /\ sentinel'[h].verified = -1
    BY <1>3, <2>1, SentinelSet, ZenonT(40)
  <2>3. /\ startup' \in Startup /\ startup'.pc = "page" /\ startup'.todo = startup.todo
        /\ startup'.graph = {h} /\ startup'.action = startup.action
        /\ startup'.run.applied <= startup'.run.head /\ startup'.run.head = log[h].head
        /\ startup'.run.verifyAt = at /\ startup'.run.applied = 0 /\ startup'.run.verified = -1
    <3>1. PICK q \in Nat, w \in Nat \cup {-1}, pc \in {"page", "verify"} :
            q = 0 /\ w = -1 /\ pc = "page"
      OBVIOUS
    <3>2. startup' = [startup EXCEPT !.pc = pc, !.run = RunFrom(h, q, w)] /\ q <= log[h].head
      BY <1>4, <2>1, <3>1
    <3>3. /\ startup' \in Startup /\ startup'.pc = pc /\ startup'.todo = startup.todo
          /\ startup'.graph = {h} /\ startup'.action = startup.action
          /\ startup'.run.applied <= startup'.run.head /\ startup'.run.head = log[h].head
          /\ startup'.run.verifyAt = at /\ startup'.run.applied = q /\ startup'.run.verified = w
      BY <1>5, <3>2
    <3> QED BY <3>1, <3>3
  <2>4. TypeOK'
    BY <1>2, <1>3, <2>1, <2>2, <2>3 DEF TypeOK
  <2>5. h \notin faults.raced => IsEmpty(c)
    BY <1>1, <1>3, <1>6 DEF ToDo, Rebuild
  <2>6. Through(c, 0) /\ (h \notin faults.raced => Exactly(c, 0))
    BY <1>4, <2>5, NetsEmptyAssumption DEF Through, Exactly, IsEmpty
  <2>7. Bounds(h)'
    BY <1>1, <1>2, <1>4, <2>2 DEF Bounds
  <2>8. Rebuilding(h)'
    BY <1>1, <1>2, <1>4, <2>1, <2>2, <2>6, RebuildingNext
  <2>9. RunOf(h, startup.run)'
    BY <1>1, <1>2, <1>4, <2>1, <2>2, <2>3, RunNext
  <2>10. \A o \in Graph \ {h} : SameGraph(o)
    BY <1>2, <2>2 DEF SameGraph
  <2>11. startup'.pc \in ReplayPC /\ log'[h].head = log[h].head /\ writer'[h] = "idle" /\ faults' = faults
    BY <1>2, <2>1, <2>3 DEF ReplayPC
  <2> QED BY <1>2, <2>1, <2>2, <2>3, <2>4, <2>7, <2>8, <2>9, <2>10, <2>11, RebuildStepInv
<1>7. CASE sentinel[h].state = "failed"
  <2>1. /\ Fail(h) /\ sentinel' = sentinel /\ faults' = faults
        /\ startup' = [startup EXCEPT !.pc = "deal", !.todo = @ \ {h}, !.graph = {}]
    BY <1>7 DEF Start
  <2>2. /\ startup' \in Startup /\ startup'.pc = "deal" /\ startup'.todo = startup.todo \ {h}
        /\ startup'.graph = {} /\ startup'.action = startup.action /\ startup'.run = startup.run
    BY <1>3, <2>1, StartupTyped DEF Startup, StartupPC
  <2>3. gate' \in Gate
    BY <1>3, <2>1, StartupTyped DEF Fail, Gate
  <2>4. TypeOK'
    BY <1>2, <1>3, <2>1, <2>2, <2>3 DEF TypeOK
  <2>5. Bounds(h)'
    BY <1>2, <1>3, <2>1 DEF Bounds
  <2>6. log[h].corrupt # 0 \/ ~checkpoint[h].sound \/ h \in faults.raced
    BY <1>3, <1>7 DEF GraphInv, Caused
  <2>7. \A o \in Graph \ {h} : SameGraph(o)
    BY <1>2, <2>1 DEF SameGraph
  <2>8. /\ faults' = faults /\ writer'[h] = "idle" /\ sentinel'[h].state = "failed"
        /\ log'[h] = log[h] /\ checkpoint'[h] = checkpoint[h]
    BY <1>2, <1>7, <2>1
  <2> QED BY <1>2, <2>1, <2>2, <2>4, <2>5, <2>6, <2>7, <2>8, FailedInv
<1>8. CASE sentinel[h].state = "in_progress"
  <2>1. p <= log[h].head /\ Rebuilding(h)
    BY <1>1, <1>3, <1>8 DEF GraphInv, Bounds
  <2>2. /\ Through(c, p)
        /\ at # 0 /\ p > at => v = at
        /\ h \notin faults.raced => Exactly(c, p) \/ (p <= c.low /\ c.reach <= EndOfPage(h, p))
        /\ h \notin faults.raced /\ at # 0 /\ v # at /\ p = at => Exactly(c, p)
    BY <1>1, <1>8, <2>1 DEF Rebuilding, PastCheckpoint, Unverified
  <2>3. PICK pc \in {"page", "verify"} :
          /\ startup' = [startup EXCEPT !.pc = pc, !.run = RunFrom(h, p, v)]
          /\ sentinel' = sentinel /\ gate' = gate /\ faults' = faults
          /\ pc = "verify" <=> (at # 0 /\ v # at /\ p = at)
    <3>1. ~(Unverified(h) /\ sentinel[h].position > checkpoint[h].position)
      BY <1>1, <2>2 DEF Unverified
    <3>2. /\ startup' = [startup EXCEPT
               !.pc = IF Unverified(h) /\ sentinel[h].position = checkpoint[h].position
                      THEN "verify" ELSE "page",
               !.run = RunFrom(h, sentinel[h].position, sentinel[h].verified)]
          /\ sentinel' = sentinel /\ gate' = gate /\ faults' = faults
      BY <1>8, <3>1 DEF Start
    <3>3. CASE Unverified(h) /\ p = at
      <4>1. startup' = [startup EXCEPT !.pc = "verify", !.run = RunFrom(h, p, v)]
        BY <1>1, <3>2, <3>3
      <4> QED BY <1>1, <3>2, <3>3, <4>1 DEF Unverified
    <3>4. CASE ~(Unverified(h) /\ p = at)
      <4>1. startup' = [startup EXCEPT !.pc = "page", !.run = RunFrom(h, p, v)]
        BY <1>1, <3>2, <3>4
      <4> QED BY <1>1, <3>2, <3>4, <4>1 DEF Unverified
    <3> QED BY <3>3, <3>4
  <2>4. /\ startup' \in Startup /\ startup'.pc = pc /\ startup'.todo = startup.todo
        /\ startup'.graph = {h} /\ startup'.action = startup.action
        /\ startup'.run.applied <= startup'.run.head /\ startup'.run.head = log[h].head
        /\ startup'.run.verifyAt = at /\ startup'.run.applied = p /\ startup'.run.verified = v
    BY <1>4, <1>5, <2>1, <2>3
  <2>5. TypeOK'
    BY <1>2, <1>3, <2>3, <2>4 DEF TypeOK
  <2>6. Bounds(h)'
    BY <1>2, <1>3, <2>3 DEF Bounds
  <2>7. /\ sentinel'[h].state = "in_progress" /\ p = sentinel'[h].position /\ v = sentinel'[h].verified
        /\ c = content'[h] /\ log'[h].head = log[h].head /\ checkpoint'[h] = checkpoint[h]
        /\ faults' = faults /\ writer'[h] = "idle"
    BY <1>1, <1>2, <1>8, <2>3
  <2>8. Rebuilding(h)'
    BY <1>1, <2>2, <2>7, RebuildingNext
  <2>9. RunOf(h, startup.run)'
    BY <1>1, <2>3, <2>4, <2>7, RunNext
  <2>10. \A o \in Graph \ {h} : SameGraph(o)
    BY <1>2, <2>3 DEF SameGraph
  <2>11. startup'.pc \in ReplayPC
    BY <2>4 DEF ReplayPC
  <2> QED BY <1>2, <2>3, <2>4, <2>5, <2>6, <2>7, <2>8, <2>9, <2>10, <2>11, RebuildStepInv
<1> QED BY <1>3, <1>6, <1>7, <1>8, GraphTyped

\* A page is being applied: n is the last entry of it that was.
LEMMA PageApplied ==
  ASSUME IInv, NEW h \in Graph, Dealing(h, "page"),
         NEW n \in Nat, startup.run.applied < n, n <= PageEnd(startup.run),
         content' = [content EXCEPT ![h] = Applied(@, startup.run.applied + 1, n)]
  PROVE  /\ content' \in [Graph -> Content] /\ \A o \in Graph \ {h} : content'[o] = content[o]
         /\ content'[h].low = n /\ n <= content'[h].reach /\ content'[h].reach <= log[h].head
         /\ Through(content'[h], sentinel[h].position) /\ sentinel[h].position <= content'[h].low
         /\ h \notin faults.raced =>
              /\ content'[h].reach <= PageEnd(startup.run)
              /\ n = PageEnd(startup.run) => content'[h].reach = n
<1>1. PICK p, v, at, c, run, pc, d :
         /\ p = sentinel[h].position /\ v = sentinel[h].verified
         /\ at = checkpoint[h].position /\ c = content[h] /\ run = startup.run /\ pc = "page"
         /\ d = Applied(c, p + 1, n)
  OBVIOUS
<1>2. pc \in ReplayPC /\ Dealing(h, pc)
  BY <1>1 DEF ReplayPC
<1>3. /\ TypeOK /\ run.verifyAt = at /\ run.head = log[h].head
      /\ p \in Nat /\ at \in Nat /\ c \in Content /\ log[h].head \in Nat
      /\ c.low <= c.reach /\ c.reach <= log[h].head /\ at <= log[h].head /\ p <= log[h].head
      /\ Through(c, p) /\ run.applied = p
      /\ h \notin faults.raced => Exactly(c, p) \/ (p <= c.low /\ c.reach <= EndOfPage(h, p))
  BY <1>1, <1>2, InRebuild
<1>4. PageEnd(run) = EndOfPage(h, p)
  BY <1>1, <1>3, PageOfRun
<1>5. PICK e \in Nat : e = EndOfPage(h, p) /\ e <= log[h].head
  BY <1>1, <1>3, EndOfPageIs
<1>6. p < n /\ n <= e /\ c.low \in Nat /\ c.reach \in Nat
  BY <1>1, <1>3, <1>4, <1>5 DEF Content
<1>7. /\ d \in Content /\ d.low = n /\ n <= d.reach /\ (d.reach = n \/ d.reach = c.reach)
      /\ Exactly(c, p) => d.reach = n
      /\ c.reach <= n => d.reach = n
  BY <1>1, <1>3, <1>6, AppliedContent
<1>8. /\ content' \in [Graph -> Content] /\ content'[h] = d
      /\ \A o \in Graph \ {h} : content'[o] = content[o]
  <2>1. content' = [content EXCEPT ![h] = d]
    BY <1>1, <1>3 DEF TypeOK
  <2> QED BY <1>3, <1>7, <2>1 DEF TypeOK
<1>9. d.reach <= log[h].head /\ p <= d.low /\ Through(d, p)
  BY <1>3, <1>5, <1>6, <1>7 DEF Through
<1>10. h \notin faults.raced => d.reach <= e /\ (n = e => d.reach = n)
  BY <1>3, <1>5, <1>6, <1>7
<1> QED BY <1>1, <1>4, <1>5, <1>7, <1>8, <1>9, <1>10

LEMMA ApplyChunksInv ==
  ASSUME IInv, NEW h \in Graph, ApplyChunks(h)
  PROVE  IInv'
<1>1. PICK p, v, at, c, run, pc, d :
         /\ p = sentinel[h].position /\ v = sentinel[h].verified
         /\ at = checkpoint[h].position /\ c = content[h] /\ run = startup.run /\ pc = "page"
         /\ d = content'[h]
  OBVIOUS
<1>2. /\ Dealing(h, "page") /\ UNCHANGED <<log, checkpoint, sentinel, gate, startup, writer, faults>>
  BY DEF ApplyChunks
<1>3. pc \in ReplayPC /\ Dealing(h, pc)
  BY <1>1, <1>2 DEF ReplayPC
<1>4. /\ TypeOK /\ run.verifyAt = at /\ run.verified = v /\ run.head = log[h].head /\ startup.pc = "page"
      /\ p \in Nat /\ at \in Nat /\ log[h].head \in Nat /\ run.applied \in Nat
      /\ writer[h] = "idle" /\ sentinel[h].state = "in_progress"
      /\ at <= log[h].head /\ p <= log[h].head
      /\ at # 0 /\ p > at => v = at
      /\ run.applied = p /\ ~(at # 0 /\ v # at /\ p = at)
  BY <1>1, <1>3, InRebuild
<1>5. PageEnd(run) = EndOfPage(h, p)
  BY <1>1, <1>4, PageOfRun
<1>6. PageEnd(run) \in Nat
  BY <1>1, <1>4, <1>5, EndOfPageIs
<1>7. PICK n \in Nat : /\ run.applied < n /\ n <= PageEnd(run)
                       /\ content' = [content EXCEPT ![h] = Applied(@, run.applied + 1, n)]
  <2>1. PICK n \in run.applied + 1 .. PageEnd(run) - 1 :
          content' = [content EXCEPT ![h] = Applied(@, run.applied + 1, n)]
    BY <1>1 DEF ApplyChunks
  <2>2. n \in Nat /\ run.applied < n /\ n <= PageEnd(run)
    BY <1>4, <1>6, <2>1
  <2> QED BY <2>1, <2>2
<1>8. /\ content' \in [Graph -> Content] /\ \A o \in Graph \ {h} : content'[o] = content[o]
      /\ d.low = n /\ n <= d.reach /\ d.reach <= log[h].head
      /\ Through(d, p) /\ p <= d.low
      /\ h \notin faults.raced => d.reach <= EndOfPage(h, p)
  BY <1>1, <1>2, <1>5, <1>7, PageApplied
<1>9. TypeOK'
  BY <1>2, <1>4, <1>8 DEF TypeOK
<1>10. Bounds(h)'
  BY <1>1, <1>2, <1>4, <1>8 DEF Bounds
<1>11. /\ p = sentinel'[h].position /\ v = sentinel'[h].verified /\ log'[h].head = log[h].head
       /\ checkpoint'[h] = checkpoint[h] /\ faults' = faults /\ gate' = gate /\ writer'[h] = "idle"
       /\ sentinel'[h].state = "in_progress" /\ run = startup'.run /\ startup'.pc = "page"
       /\ startup'.todo = startup.todo /\ startup'.graph = {h} /\ startup'.action = startup.action
  BY <1>1, <1>2, <1>4 DEF Dealing
<1>12. Rebuilding(h)'
  BY <1>1, <1>4, <1>8, <1>11, RebuildingNext
<1>13. RunOf(h, startup.run)'
  BY <1>1, <1>4, <1>11, RunNext
<1>14. \A o \in Graph \ {h} : SameGraph(o)
  BY <1>2, <1>8 DEF SameGraph
<1>15. startup'.pc \in ReplayPC
  BY <1>11 DEF ReplayPC
<1> QED BY <1>3, <1>9, <1>10, <1>11, <1>12, <1>13, <1>14, <1>15, RebuildStepInv

LEMMA ApplyPageInv ==
  ASSUME IInv, NEW h \in Graph, ApplyPage(h)
  PROVE  IInv'
<1>1. PICK p, v, at, c, run, pc, d, bad :
         /\ p = sentinel[h].position /\ v = sentinel[h].verified
         /\ at = checkpoint[h].position /\ c = content[h] /\ run = startup.run /\ pc = "page"
         /\ d = content'[h] /\ bad = log[h].corrupt
  OBVIOUS
<1>2. /\ Dealing(h, "page") /\ run.applied < run.head /\ UNCHANGED <<log, checkpoint, writer>>
  BY <1>1 DEF ApplyPage
<1>3. pc \in ReplayPC /\ Dealing(h, pc)
  BY <1>1, <1>2 DEF ReplayPC
<1>4. /\ TypeOK /\ run.verifyAt = at /\ run.verified = v /\ run.head = log[h].head /\ startup.pc = "page"
      /\ p \in Nat /\ at \in Nat /\ c \in Content /\ log[h].head \in Nat /\ run.applied \in Nat /\ run \in Run
      /\ writer[h] = "idle" /\ sentinel[h].state = "in_progress"
      /\ c.low <= c.reach /\ c.reach <= log[h].head /\ at <= log[h].head /\ p <= log[h].head
      /\ at # 0 /\ p > at => v = at
      /\ run.applied = p /\ ~(at # 0 /\ v # at /\ p = at)
  BY <1>1, <1>3, InRebuild
<1>5. PageEnd(run) = EndOfPage(h, p)
  BY <1>1, <1>4, PageOfRun
<1>6. PICK e \in Nat : /\ e = PageEnd(run) /\ p < e /\ e <= log[h].head
                       /\ p < at => e <= at
  BY <1>1, <1>2, <1>4, <1>5, EndOfPageIs
<1>7. CASE bad \in p + 1 .. e
  <2>1. /\ content' = [content EXCEPT ![h] =
                        IF bad = p + 1 THEN @ ELSE Applied(@, p + 1, bad - 1)]
        /\ FailsAt(h, bad)
    BY <1>1, <1>4, <1>6, <1>7 DEF ApplyPage
  <2>2. /\ content' \in [Graph -> Content] /\ \A o \in Graph \ {h} : content'[o] = content[o]
        /\ d.low <= d.reach /\ d.reach <= log[h].head
    <3>1. CASE bad = p + 1
      <4>1. content' = content
        BY <1>4, <2>1, <3>1 DEF TypeOK
      <4> QED BY <1>1, <1>4, <4>1 DEF TypeOK
    <3>2. CASE bad # p + 1
      <4>1. PICK n \in Nat : n = bad - 1 /\ run.applied < n /\ n <= PageEnd(run)
        BY <1>4, <1>6, <1>7, <3>2
      <4>2. content' = [content EXCEPT ![h] = Applied(@, run.applied + 1, n)]
        BY <1>4, <2>1, <3>2, <4>1
      <4>3. /\ content' \in [Graph -> Content] /\ \A o \in Graph \ {h} : content'[o] = content[o]
            /\ content'[h].low = n /\ n <= content'[h].reach /\ content'[h].reach <= log[h].head
        <5>1. /\ startup.run.applied < n /\ n <= PageEnd(startup.run)
              /\ content' = [content EXCEPT ![h] = Applied(@, startup.run.applied + 1, n)]
          BY <1>1, <4>1, <4>2
        <5> QED BY <1>2, <5>1, PageApplied
      <4> QED BY <1>1, <4>3
    <3> QED BY <3>1, <3>2
  <2>3. bad \in Nat /\ log[h].corrupt # 0
    BY <1>1, <1>4, <1>7
  <2> QED BY <1>1, <1>2, <1>3, <1>4, <2>1, <2>2, <2>3, FailsAtInv
<1>8. CASE bad \notin p + 1 .. e
  <2>1. /\ content' = [content EXCEPT ![h] = Applied(@, p + 1, e)]
        /\ startup' = [startup EXCEPT !.pc = "record", !.run.applied = e]
        /\ UNCHANGED <<sentinel, gate, faults>>
    BY <1>1, <1>4, <1>6, <1>8 DEF ApplyPage
  <2>2. /\ content' \in [Graph -> Content] /\ \A o \in Graph \ {h} : content'[o] = content[o]
        /\ d.low = e /\ e <= d.reach /\ d.reach <= log[h].head
        /\ Through(d, p) /\ p <= d.low
        /\ h \notin faults.raced => d.reach = e
    <3>1. content' = [content EXCEPT ![h] = Applied(@, run.applied + 1, e)]
      BY <1>4, <2>1
    <3>2. run.applied < e /\ e <= PageEnd(run)
      BY <1>4, <1>6
    <3> QED BY <1>1, <1>2, <1>6, <3>1, <3>2, PageApplied
  <2>3. /\ startup' \in Startup /\ startup'.pc = "record" /\ startup'.todo = startup.todo
        /\ startup'.graph = {h} /\ startup'.action = startup.action
        /\ startup'.run.applied = e /\ startup'.run.head = log[h].head
        /\ startup'.run.verifyAt = at /\ startup'.run.verified = v
    <3>1. PICK r \in Run : /\ r = [run EXCEPT !.applied = e] /\ r.applied = e /\ r.head = log[h].head
                           /\ r.verifyAt = at /\ r.verified = v
      <4>1. /\ [run EXCEPT !.applied = e] \in Run /\ [run EXCEPT !.applied = e].applied = e
            /\ [run EXCEPT !.applied = e].head = run.head
            /\ [run EXCEPT !.applied = e].verifyAt = run.verifyAt
            /\ [run EXCEPT !.applied = e].verified = run.verified
        BY <1>4 DEF Run
      <4> QED BY <1>4, <4>1
    <3>2. startup' = [startup EXCEPT !.pc = "record", !.run = r]
      BY <1>1, <1>4, <2>1, <3>1, StartupTyped DEF Startup
    <3>3. startup.graph = {h}
      BY <1>2 DEF Dealing
    <3>4. /\ startup' \in Startup /\ startup'.pc = "record" /\ startup'.todo = startup.todo
          /\ startup'.graph = startup.graph /\ startup'.action = startup.action /\ startup'.run = r
      BY <1>4, <3>2, StartupTyped DEF Startup, StartupPC
    <3> QED BY <3>1, <3>3, <3>4
  <2>4. startup'.run.applied <= startup'.run.head
    BY <1>6, <2>3
  <2>5. TypeOK'
    BY <1>2, <1>4, <2>1, <2>2, <2>3, <2>4 DEF TypeOK
  <2>6. Bounds(h)'
    BY <1>1, <1>2, <1>4, <2>1, <2>2 DEF Bounds
  <2>7. /\ p = sentinel'[h].position /\ v = sentinel'[h].verified /\ log'[h].head = log[h].head
        /\ checkpoint'[h] = checkpoint[h] /\ faults' = faults /\ gate' = gate /\ writer'[h] = "idle"
        /\ sentinel'[h].state = "in_progress"
    BY <1>1, <1>2, <1>4, <2>1
  <2>8. h \notin faults.raced => d.reach <= EndOfPage(h, p)
    BY <1>5, <1>6, <2>2
  <2>9. Rebuilding(h)'
    BY <1>1, <1>4, <2>2, <2>7, <2>8, RebuildingNext
  <2>10. at # 0 /\ e > at => v = at
    BY <1>4, <1>6
  <2>11. RunOf(h, startup.run)'
    <3>1. PICK r : r = startup'.run /\ r.applied = e
      BY <2>3
    <3> QED BY <1>1, <1>5, <1>6, <2>2, <2>3, <2>7, <2>10, <3>1, RunNext
  <2>12. \A o \in Graph \ {h} : SameGraph(o)
    BY <1>2, <2>1, <2>2 DEF SameGraph
  <2>13. startup'.pc \in ReplayPC
    BY <2>3 DEF ReplayPC
  <2> QED BY <1>3, <2>3, <2>5, <2>6, <2>7, <2>9, <2>11, <2>12, <2>13, RebuildStepInv
<1> QED BY <1>7, <1>8

LEMMA RecordPageInv ==
  ASSUME IInv, NEW h \in Graph, RecordPage(h)
  PROVE  IInv'
<1>1. PICK p, v, at, c, run, pc, e :
         /\ p = sentinel[h].position /\ v = sentinel[h].verified
         /\ at = checkpoint[h].position /\ c = content[h] /\ run = startup.run /\ pc = "record"
         /\ e = run.applied
  OBVIOUS
<1>2. /\ Dealing(h, "record") /\ UNCHANGED <<log, checkpoint, content, gate, writer, faults>>
      /\ sentinel' = [sentinel EXCEPT ![h] = InProgress(e, run.verified)]
      /\ startup' = [startup EXCEPT
           !.pc = IF e = run.verifyAt /\ run.verifyAt # run.verified THEN "verify" ELSE "page"]
  BY <1>1 DEF RecordPage
<1>3. pc \in ReplayPC /\ Dealing(h, pc)
  BY <1>1, <1>2 DEF ReplayPC
<1>4. /\ TypeOK /\ run.verifyAt = at /\ run.verified = v /\ run.head = log[h].head
      /\ p \in Nat /\ v \in Nat \cup {-1} /\ at \in Nat /\ c \in Content /\ log[h].head \in Nat /\ e \in Nat
      /\ writer[h] = "idle" /\ c.low <= c.reach /\ c.reach <= log[h].head /\ at <= log[h].head
      /\ e <= log[h].head /\ p < e
      /\ at # 0 /\ e > at => v = at
      /\ c.low = e /\ (h \notin faults.raced => c.reach = e)
  BY <1>1, <1>3, InRebuild
<1>5. PICK next \in {"page", "verify"} :
        /\ startup' = [startup EXCEPT !.pc = next] /\ (next = "verify" <=> e = at /\ at # v)
  <2>1. CASE e = at /\ at # v
    <3>1. startup' = [startup EXCEPT !.pc = "verify"]
      BY <1>2, <1>4, <2>1
    <3> QED BY <2>1, <3>1
  <2>2. CASE ~(e = at /\ at # v)
    <3>1. startup' = [startup EXCEPT !.pc = "page"]
      BY <1>2, <1>4, <2>2
    <3> QED BY <2>2, <3>1
  <2> QED BY <2>1, <2>2
<1>6. /\ sentinel' \in [Graph -> Sentinel] /\ \A o \in Graph \ {h} : sentinel'[o] = sentinel[o]
      /\ sentinel'[h].state = "in_progress" /\ sentinel'[h].position = e /\ sentinel'[h].verified = v
  <2>1. sentinel' = [sentinel EXCEPT ![h] = InProgress(e, v)]
    BY <1>2, <1>4
  <2>2. TypeOK /\ e \in Nat /\ v \in Nat \cup {-1}
    BY <1>4
  <2> QED BY <2>1, <2>2, SentinelSet
<1>7. /\ startup' \in Startup /\ startup'.pc = next /\ startup'.todo = startup.todo
      /\ startup'.graph = {h} /\ startup'.action = startup.action /\ startup'.run = run
  <2>1. startup.graph = {h} /\ next \in StartupPC
    BY <1>2 DEF Dealing, StartupPC
  <2> QED BY <1>1, <1>4, <1>5, <2>1, StartupTyped DEF Startup
<1>8. TypeOK'
  BY <1>1, <1>2, <1>4, <1>6, <1>7 DEF TypeOK
<1>9. Bounds(h)'
  BY <1>1, <1>2, <1>4, <1>6 DEF Bounds
<1>10. Through(c, e) /\ (h \notin faults.raced => Exactly(c, e))
  BY <1>4 DEF Through, Exactly
<1>11. /\ log'[h].head = log[h].head /\ checkpoint'[h] = checkpoint[h] /\ c = content'[h]
       /\ faults' = faults /\ gate' = gate /\ writer'[h] = "idle"
  BY <1>1, <1>2, <1>4
<1>12. Rebuilding(h)'
  BY <1>1, <1>4, <1>6, <1>10, <1>11, RebuildingNext
<1>13. RunOf(h, startup.run)'
  <2>1. at = 0 => e # at
    BY <1>4
  <2> QED BY <1>1, <1>4, <1>5, <1>6, <1>7, <1>11, <2>1, RunNext
<1>14. \A o \in Graph \ {h} : SameGraph(o)
  BY <1>2, <1>6 DEF SameGraph
<1>15. startup'.pc \in ReplayPC
  BY <1>7 DEF ReplayPC
<1> QED BY <1>3, <1>6, <1>7, <1>8, <1>9, <1>11, <1>12, <1>13, <1>14, <1>15, RebuildStepInv

LEMMA VerifyInv ==
  ASSUME IInv, NEW h \in Graph, Verify(h)
  PROVE  IInv'
<1>1. PICK p, v, at, c, run, pc :
         /\ p = sentinel[h].position /\ v = sentinel[h].verified
         /\ at = checkpoint[h].position /\ c = content[h] /\ run = startup.run /\ pc = "verify"
  OBVIOUS
<1>2. Dealing(h, "verify") /\ UNCHANGED <<log, checkpoint, content, writer>>
  BY DEF Verify
<1>3. pc \in ReplayPC /\ Dealing(h, pc)
  BY <1>1, <1>2 DEF ReplayPC
<1>4. /\ TypeOK /\ run.verifyAt = at /\ run.verified = v /\ run.head = log[h].head /\ run \in Run
      /\ p \in Nat /\ at \in Nat /\ c \in Content /\ log[h].head \in Nat /\ run.applied \in Nat
      /\ writer[h] = "idle" /\ sentinel[h].state = "in_progress" /\ c.low <= c.reach /\ c.reach <= log[h].head /\ at <= log[h].head
      /\ Through(c, p) /\ run.applied = p /\ p = at /\ at # 0 /\ v # at
      /\ h \notin faults.raced /\ at # 0 /\ v # at /\ p = at => Exactly(c, p)
  BY <1>1, <1>3, InRebuild
<1>5. CASE Matches(h)
  <2>1. /\ sentinel' = [sentinel EXCEPT ![h] = InProgress(at, at)]
        /\ gate' = gate /\ faults' = faults
        /\ startup' = [startup EXCEPT !.pc = "page", !.run.verified = at]
    BY <1>1, <1>4, <1>5 DEF Verify
  <2>2. /\ sentinel' \in [Graph -> Sentinel] /\ \A o \in Graph \ {h} : sentinel'[o] = sentinel[o]
        /\ sentinel'[h].state = "in_progress" /\ sentinel'[h].position = at
        /\ sentinel'[h].verified = at
    <3>1. TypeOK /\ at \in Nat /\ at \in Nat \cup {-1}
      BY <1>4
    <3> QED BY <2>1, <3>1, SentinelSet
  <2>3. /\ startup' \in Startup /\ startup'.pc = "page" /\ startup'.todo = startup.todo
        /\ startup'.graph = {h} /\ startup'.action = startup.action
        /\ startup'.run.applied = at /\ startup'.run.head = log[h].head
        /\ startup'.run.verifyAt = at /\ startup'.run.verified = at
    <3>1. PICK r \in Run : /\ r = [run EXCEPT !.verified = at] /\ r.applied = at /\ r.head = log[h].head
                           /\ r.verifyAt = at /\ r.verified = at
      <4>1. /\ [run EXCEPT !.verified = at] \in Run /\ [run EXCEPT !.verified = at].applied = run.applied
            /\ [run EXCEPT !.verified = at].head = run.head
            /\ [run EXCEPT !.verified = at].verifyAt = run.verifyAt
            /\ [run EXCEPT !.verified = at].verified = at
        BY <1>4 DEF Run
      <4> QED BY <1>4, <4>1
    <3>2. startup' = [startup EXCEPT !.pc = "page", !.run = r]
      BY <1>1, <1>4, <2>1, <3>1, StartupTyped DEF Startup
    <3>3. startup.graph = {h}
      BY <1>2 DEF Dealing
    <3>4. /\ startup' \in Startup /\ startup'.pc = "page" /\ startup'.todo = startup.todo
          /\ startup'.graph = startup.graph /\ startup'.action = startup.action /\ startup'.run = r
      BY <1>4, <3>2, StartupTyped DEF Startup, StartupPC
    <3> QED BY <3>1, <3>3, <3>4
  <2>4. startup'.run.applied <= startup'.run.head
    BY <1>4, <2>3
  <2>5. TypeOK'
    BY <1>2, <1>4, <2>1, <2>2, <2>3, <2>4 DEF TypeOK
  <2>6. Bounds(h)'
    BY <1>1, <1>2, <1>4, <2>2 DEF Bounds
  <2>7. Through(c, at) /\ Exactly(c, at)
    BY <1>1, <1>4, <1>5 DEF Matches
  <2>8. /\ log'[h].head = log[h].head /\ checkpoint'[h] = checkpoint[h] /\ c = content'[h]
        /\ faults' = faults /\ writer'[h] = "idle"
    BY <1>1, <1>2, <1>4, <2>1
  <2>9. Rebuilding(h)'
    BY <1>1, <1>4, <2>2, <2>7, <2>8, RebuildingNext
  <2>10. RunOf(h, startup.run)'
    BY <1>1, <1>4, <2>2, <2>3, <2>8, RunNext
  <2>11. \A o \in Graph \ {h} : SameGraph(o)
    BY <1>2, <2>2 DEF SameGraph
  <2>12. startup'.pc \in ReplayPC
    BY <2>3 DEF ReplayPC
  <2> QED BY <1>3, <2>1, <2>2, <2>3, <2>5, <2>6, <2>8, <2>9, <2>10, <2>11, <2>12, RebuildStepInv
<1>6. CASE ~Matches(h)
  <2>1. FailsAt(h, at)
    BY <1>1, <1>4, <1>6 DEF Verify
  <2>2. log[h].corrupt # 0 \/ ~checkpoint[h].sound \/ h \in faults.raced
    BY <1>1, <1>4, <1>6 DEF Matches
  <2>3. /\ content' \in [Graph -> Content] /\ \A o \in Graph \ {h} : content'[o] = content[o]
        /\ content'[h].low <= content'[h].reach /\ content'[h].reach <= log[h].head
    BY <1>1, <1>2, <1>4 DEF TypeOK
  <2> QED BY <1>2, <1>3, <1>4, <2>1, <2>2, <2>3, FailsAtInv
<1> QED BY <1>5, <1>6

\* Of a step that only moves the startup thread, or the marker with it.
LEMMA FinishInv ==
  ASSUME IInv, NEW h \in Graph, Finish(h) \/ AdvanceMarker(h)
  PROVE  IInv'
<1>1. PICK p, v, at, c, run, pc :
         /\ p = sentinel[h].position /\ v = sentinel[h].verified
         /\ at = checkpoint[h].position /\ c = content[h] /\ run = startup.run
         /\ pc = IF Finish(h) THEN "page" ELSE "finish"
  OBVIOUS
<1>2. Dealing(h, pc) /\ UNCHANGED <<checkpoint, content, sentinel, gate, writer, faults>>
  BY <1>1 DEF Finish, AdvanceMarker, graphVars
<1>3. pc \in ReplayPC
  BY <1>1 DEF ReplayPC
<1>4. /\ TypeOK /\ run.verifyAt = at /\ run.verified = v /\ run.head = log[h].head
      /\ p \in Nat /\ c \in Content /\ log[h].head \in Nat /\ run.applied \in Nat
      /\ writer[h] = "idle" /\ sentinel[h].state = "in_progress"
      /\ c.low <= c.reach /\ c.reach <= log[h].head /\ at <= log[h].head /\ p <= log[h].head
      /\ Through(c, p) /\ run.applied = p
      /\ at # 0 /\ p > at => v = at
      /\ h \notin faults.raced => Exactly(c, p) \/ (p <= c.low /\ c.reach <= EndOfPage(h, p))
      /\ h \notin faults.raced /\ at # 0 /\ v # at /\ p = at => Exactly(c, p)
      /\ pc = "finish" => run.applied = log[h].head
  BY <1>1, <1>2, <1>3, InRebuild
<1>5. /\ run.applied = log[h].head
      /\ startup' = [startup EXCEPT !.pc = IF pc = "page" THEN "finish" ELSE "delete"]
      /\ pc = "page" => log' = log
      /\ pc # "page" => log' = [log EXCEPT ![h].marker = log[h].head]
  <2>1. CASE Finish(h)
    BY <1>1, <1>4, <2>1 DEF Finish, graphVars
  <2>2. CASE ~Finish(h)
    <3>1. log[h].marker <= log[h].head /\ log[h].marker \in Nat /\ pc = "finish"
      BY <1>1, <1>4, <2>2, GraphTyped
    <3>2. log' = [log EXCEPT ![h].marker = IF @ < run.head THEN run.head ELSE @]
      BY <1>1, <2>2 DEF AdvanceMarker
    <3>3. log' = [log EXCEPT ![h].marker = log[h].head]
      <4>1. CASE log[h].marker < log[h].head
        BY <1>4, <3>2, <4>1
      <4>2. CASE log[h].marker = log[h].head
        BY <1>4, <3>2, <4>2
      <4> QED BY <1>4, <3>1, <4>1, <4>2
    <3> QED BY <1>1, <1>4, <2>2, <3>1, <3>3 DEF AdvanceMarker
  <2> QED BY <2>1, <2>2
<1>6. /\ log' \in [Graph -> Log] /\ \A g \in Graph : log'[g].marker <= log'[g].head
      /\ log'[h].head = log[h].head /\ \A o \in Graph \ {h} : log'[o] = log[o]
      /\ pc # "page" => log'[h].marker = log[h].head
  <2>1. CASE pc = "page"
    BY <1>4, <1>5, <2>1 DEF TypeOK
  <2>2. CASE pc # "page"
    BY <1>4, <1>5, <2>2, MarkerAtHead
  <2> QED BY <2>1, <2>2
<1>7. PICK next \in {"finish", "delete"} :
        /\ startup' = [startup EXCEPT !.pc = next] /\ (next = "delete" => pc # "page")
  <2>1. CASE pc = "page"
    BY <1>5, <2>1
  <2>2. CASE pc # "page"
    BY <1>5, <2>2
  <2> QED BY <2>1, <2>2
<1>8. /\ startup' \in Startup /\ startup'.pc = next /\ startup'.todo = startup.todo
      /\ startup'.graph = {h} /\ startup'.action = startup.action /\ startup'.run = run
  <2>1. startup.graph = {h} /\ next \in StartupPC
    BY <1>2 DEF Dealing, StartupPC
  <2> QED BY <1>1, <1>4, <1>7, <2>1, StartupTyped DEF Startup
<1>9. TypeOK'
  BY <1>1, <1>2, <1>4, <1>6, <1>8 DEF TypeOK
<1>10. Bounds(h)'
  BY <1>1, <1>2, <1>4, <1>6 DEF Bounds
<1>11. /\ p = sentinel'[h].position /\ v = sentinel'[h].verified /\ c = content'[h]
       /\ checkpoint'[h] = checkpoint[h] /\ sentinel'[h].state = "in_progress"
       /\ faults' = faults /\ gate' = gate /\ writer'[h] = "idle"
  BY <1>1, <1>2, <1>4
<1>12. Rebuilding(h)'
  BY <1>1, <1>4, <1>6, <1>11, RebuildingNext
<1>13. RunOf(h, startup.run)'
  BY <1>1, <1>4, <1>5, <1>6, <1>7, <1>8, <1>11, RunNext
<1>14. \A o \in Graph \ {h} : SameGraph(o)
  BY <1>2, <1>6 DEF SameGraph
<1>15. startup'.pc \in ReplayPC
  BY <1>8 DEF ReplayPC
<1> QED BY <1>2, <1>3, <1>6, <1>8, <1>9, <1>10, <1>11, <1>12, <1>13, <1>14, <1>15, RebuildStepInv

\* The progress record is deleted: the graph is whole.
LEMMA Deleted ==
  ASSUME IInv, NEW h \in Graph, Dealing(h, "delete"),
         sentinel' = [sentinel EXCEPT ![h] = NoSentinel], UNCHANGED <<log, checkpoint, content, writer>>,
         faults'.raced = faults.raced
  PROVE  /\ sentinel' \in [Graph -> Sentinel] /\ \A o \in Graph \ {h} : SameGraph(o)
         /\ Whole(h)' /\ GraphInv(h)'
<1>1. PICK p, v, at, c, run, pc :
         /\ p = sentinel[h].position /\ v = sentinel[h].verified
         /\ at = checkpoint[h].position /\ c = content[h] /\ run = startup.run /\ pc = "delete"
  OBVIOUS
<1>2. pc \in ReplayPC /\ Dealing(h, pc)
  BY <1>1 DEF ReplayPC
<1>3. /\ TypeOK /\ Through(c, p) /\ p = log[h].head /\ log[h].marker = log[h].head
      /\ log[h].head \in Nat /\ writer[h] = "idle"
      /\ c.low <= c.reach /\ c.reach <= log[h].head /\ at <= log[h].head
  BY <1>1, <1>2, InRebuild
<1>4. /\ sentinel' \in [Graph -> Sentinel] /\ sentinel'[h].state = "none"
      /\ \A o \in Graph \ {h} : sentinel'[o] = sentinel[o]
  <2>1. NoSentinel \in Sentinel /\ NoSentinel.state = "none"
    BY DEF NoSentinel, Sentinel, NotVerified
  <2>2. PICK new \in Sentinel : new = NoSentinel /\ new.state = "none"
    BY <2>1
  <2>3. sentinel' = [sentinel EXCEPT ![h] = new]
    BY <2>2
  <2>4. /\ sentinel' \in [Graph -> Sentinel] /\ sentinel'[h] = new
        /\ \A o \in Graph \ {h} : sentinel'[o] = sentinel[o]
    BY <1>3, <2>3 DEF TypeOK
  <2> QED BY <2>2, <2>4
<1>5. Whole(h)'
  BY <1>1, <1>3, <1>4 DEF Whole, Through, Exactly
<1>6. GraphInv(h)'
  <2>1. Bounds(h)'
    BY <1>1, <1>3, <1>4 DEF Bounds
  <2>2. Rebuilding(h)' /\ Writing(h)' /\ Found(h)' /\ Caused(h)'
    BY <1>3, <1>4, <1>5 DEF Rebuilding, Writing, Found, Caused
  <2> QED BY <2>1, <2>2 DEF GraphInv
<1>7. \A o \in Graph \ {h} : SameGraph(o)
  BY <1>4 DEF SameGraph
<1> QED BY <1>4, <1>5, <1>6, <1>7

LEMMA DeleteSentinelInv ==
  ASSUME IInv, NEW h \in Graph, DeleteSentinel(h)
  PROVE  IInv'
<1>1. /\ Dealing(h, "delete") /\ sentinel' = [sentinel EXCEPT ![h] = NoSentinel]
      /\ UNCHANGED <<log, checkpoint, content, writer, faults>>
      /\ gate' = [gate EXCEPT !.incomplete = @ \ {h}, !.failed = @ \ {h}, !.released = @ \cup {h}]
      /\ startup' = [startup EXCEPT !.pc = "deal", !.todo = @ \ {h}, !.graph = {}, !.run = NoRun]
  BY DEF DeleteSentinel, CompleteAndRelease
<1>2. TypeOK /\ startup.pc = "delete" /\ gate.hold
  <2>1. PICK pc \in {"catch up", "lock"} \cup ReplayPC : pc = "delete"
    BY DEF ReplayPC
  <2> QED BY <1>1, <2>1, Dealt
<1>3. /\ sentinel' \in [Graph -> Sentinel] /\ \A o \in Graph \ {h} : SameGraph(o)
      /\ Whole(h)' /\ GraphInv(h)'
  BY <1>1, Deleted
<1>4. /\ startup' \in Startup /\ startup'.pc = "deal" /\ startup'.todo = startup.todo \ {h}
      /\ startup'.graph = {} /\ startup'.action = startup.action
      /\ startup'.run.applied <= startup'.run.head
  <2>1. PICK run \in Run : run = NoRun /\ run.applied <= run.head
    BY NoRunTyped
  <2>2. startup' = [startup EXCEPT !.pc = "deal", !.todo = @ \ {h}, !.graph = {}, !.run = run]
    BY <1>1, <2>1
  <2>3. /\ startup' \in Startup /\ startup'.pc = "deal" /\ startup'.todo = startup.todo \ {h}
        /\ startup'.graph = {} /\ startup'.action = startup.action /\ startup'.run = run
    BY <1>2, <2>2, StartupTyped DEF Startup, StartupPC
  <2> QED BY <2>1, <2>3
<1>5. /\ gate' \in Gate /\ gate'.hold = gate.hold /\ gate'.released = gate.released \cup {h}
      /\ gate'.incomplete = gate.incomplete \ {h} /\ gate'.failed = gate.failed \ {h}
  BY <1>1, <1>2, StartupTyped DEF Gate
<1>6. TypeOK'
  BY <1>1, <1>2, <1>3, <1>4, <1>5 DEF TypeOK
<1>7. Opening(h)'
  BY <1>3, <1>4 DEF Opening
<1>8. StartupInv' /\ RunInv'
  BY <1>2, <1>4, <1>5, BetweenGraphs
<1>9. OthersKept(h)
  BY <1>3, <1>4, <1>5 DEF OthersKept
<1>10. startup.pc \in Trying /\ startup'.pc \in Trying
  BY <1>2, <1>4 DEF Trying, StartupPC
<1> QED BY <1>1, <1>3, <1>6, <1>7, <1>8, <1>9, <1>10, DealtInv

LEMMA DeletionUnacknowledgedInv ==
  ASSUME IInv, NEW h \in Graph, DeletionUnacknowledged(h)
  PROVE  IInv'
<1>1. /\ Dealing(h, "delete") /\ sentinel' = [sentinel EXCEPT ![h] = NoSentinel]
      /\ UNCHANGED <<log, checkpoint, content, writer>> /\ gate' = gate /\ startup' = Idle
      /\ faults.outages < MaxOutages /\ faults' = [faults EXCEPT !.outages = @ + 1]
  BY DEF DeletionUnacknowledged, OneMoreOutage
<1>2. TypeOK
  BY DEF IInv
<1>3. /\ faults' \in [crashes : 0..MaxCrashes, outages : 0..MaxOutages, raced : SUBSET Graph]
      /\ faults'.raced = faults.raced
  BY <1>1, <1>2, OutageCounted
<1>4. /\ sentinel' \in [Graph -> Sentinel] /\ \A o \in Graph \ {h} : SameGraph(o)
      /\ Whole(h)' /\ GraphInv(h)'
  BY <1>1, <1>3, Deleted
<1>5. /\ startup' \in Startup /\ startup'.graph = {} /\ startup'.pc = "hold"
      /\ startup'.run.applied <= startup'.run.head
  BY <1>1, IdleTyped
<1>6. TypeOK'
  BY <1>1, <1>2, <1>3, <1>4, <1>5 DEF TypeOK
<1>7. ASSUME NEW g \in Graph  PROVE GraphInv(g)' /\ (Whole(g) => Whole(g)')
  <2>1. CASE g = h
    BY <1>4, <2>1
  <2>2. CASE g # h
    <3>1. SameGraph(g) /\ GraphInv(g)
      BY <1>4, <2>2 DEF IInv
    <3>2. GraphInv(g)'
      BY <1>3, <3>1, GraphKept
    <3> QED BY <3>1, <3>2 DEF SameGraph, Whole
  <2> QED BY <2>1, <2>2
<1>8. startup.pc # "ended"
  BY <1>1 DEF Dealing
<1> QED BY <1>1, <1>5, <1>6, <1>7, <1>8, CutShortInv

-----------------------------------------------------------------------------
(***************************************************************************)
(* The process dies; FalkorDB may lose graphs and the log an entry.        *)
(***************************************************************************)
LEMMA CrashGraph ==
  ASSUME NEW g \in Graph, GraphInv(g), TypeOK, writer'[g] = "idle", checkpoint'[g] = checkpoint[g],
         log'[g].head = log[g].head, log'[g].marker = log[g].marker,
         log[g].corrupt # 0 => log'[g].corrupt # 0, faults'.raced = faults.raced,
         \/ content'[g] = Empty /\ sentinel'[g] = NoSentinel
         \/ content'[g] = content[g] /\ sentinel'[g] = sentinel[g]
  PROVE  GraphInv(g)'
<1>1. CASE content'[g] = Empty /\ sentinel'[g] = NoSentinel
  <2>1. log[g].head \in Nat /\ sentinel'[g].state = "none"
    BY <1>1, GraphTyped DEF NoSentinel
  <2>2. Bounds(g)'
    BY <1>1, <2>1, EmptyIsEmpty DEF GraphInv, Bounds
  <2>3. Rebuilding(g)' /\ Writing(g)' /\ Found(g)' /\ Caused(g)'
    BY <1>1, <2>1, EmptyIsEmpty DEF Rebuilding, Writing, Found, Caused
  <2> QED BY <2>2, <2>3 DEF GraphInv
<1>2. CASE content'[g] = content[g] /\ sentinel'[g] = sentinel[g]
  <2>1. Bounds(g)'
    BY <1>2 DEF GraphInv, Bounds
  <2>2. Whole(g) => Whole(g)'
    BY <1>2 DEF Whole
  <2>3. Writing(g)' /\ Found(g)' /\ Caused(g)'
    BY <1>2, <2>2 DEF GraphInv, Writing, Found, Caused
  <2>4. \A p : EndOfPage(g, p)' = EndOfPage(g, p)
    BY DEF EndOfPage
  <2>5. \A p, v : PastCheckpoint(g, p, v) => PastCheckpoint(g, p, v)'
    BY DEF PastCheckpoint
  <2>6. Unverified(g)' = Unverified(g)
    BY <1>2 DEF Unverified
  <2>7. Rebuilding(g)'
    BY <1>2, <2>4, <2>5, <2>6 DEF GraphInv, Rebuilding
  <2> QED BY <2>1, <2>3, <2>7 DEF GraphInv
<1> QED BY <1>1, <1>2

LEMMA NewGateIs ==
  /\ NewGate \in Gate /\ NewGate.hold /\ NewGate.released = {}
  /\ NewGate.incomplete = {} /\ NewGate.failed = {}
BY DEF NewGate, Gate

\* A process that starts: nothing is open.
LEMMA StartedInv ==
  ASSUME startup' = Idle, gate' = NewGate
  PROVE  /\ StartupInv' /\ RunInv'
         /\ \A g \in Graph : Opening(g)'
<1>1. startup'.graph = {} /\ startup'.pc = "hold" /\ gate'.hold /\ gate'.released = {}
  BY IdleTyped, NewGateIs
<1>2. StartupInv' /\ RunInv'
  BY <1>1 DEF StartupInv, RunInv, ReplayPC
<1>3. \A g \in Graph : Opening(g)'
  BY <1>1 DEF Opening, Closed, Trying
<1> QED BY <1>2, <1>3

LEMMA CrashInv ==
  ASSUME IInv, Crash
  PROVE  IInv'
<1>1. /\ faults.crashes < MaxCrashes /\ faults' = [faults EXCEPT !.crashes = @ + 1]
      /\ gate' = NewGate /\ startup' = Idle /\ writer' = [g \in Graph |-> "idle"]
      /\ checkpoint' = checkpoint
  BY DEF Crash
<1>2. TypeOK /\ \A g \in Graph : GraphInv(g)
  BY DEF IInv
<1>3. /\ faults' \in [crashes : 0..MaxCrashes, outages : 0..MaxOutages, raced : SUBSET Graph]
      /\ faults'.raced = faults.raced
  BY <1>1, <1>2, BoundAssumption DEF TypeOK
<1>4. /\ content' \in [Graph -> Content] /\ sentinel' \in [Graph -> Sentinel]
      /\ \A g \in Graph : \/ content'[g] = Empty /\ sentinel'[g] = NoSentinel
                          \/ content'[g] = content[g] /\ sentinel'[g] = sentinel[g]
  <2>1. PICK wiped : /\ content' = [g \in Graph |-> IF g \in wiped THEN Empty ELSE content[g]]
                     /\ sentinel' = [g \in Graph |-> IF g \in wiped THEN NoSentinel ELSE sentinel[g]]
    BY DEF Crash
  <2>2. NoSentinel \in Sentinel /\ Empty \in Content
    BY EmptyIsEmpty DEF NoSentinel, Sentinel, NotVerified
  <2> QED BY <1>2, <2>1, <2>2 DEF TypeOK
<1>5. /\ log' \in [Graph -> Log]
      /\ \A g \in Graph : /\ log'[g].head = log[g].head /\ log'[g].marker = log[g].marker
                          /\ log[g].corrupt # 0 => log'[g].corrupt # 0
  <2>1. CASE log' = log
    BY <1>2, <2>1 DEF TypeOK
  <2>2. CASE log' # log
    <3>1. PICK h \in Graph : \E k \in 1 .. log[h].head : log' = [log EXCEPT ![h].corrupt = k]
      BY <2>2 DEF Crash
    <3>9. PICK k \in 1 .. log[h].head : log' = [log EXCEPT ![h].corrupt = k]
      BY <3>1
    <3>2. log[h] \in Log /\ log[h].head \in Nat
      BY <1>2, GraphTyped
    <3>3. k \in Nat /\ k # 0
      BY <3>2, <3>9
    <3>4. PICK new \in Log : /\ new = [log[h] EXCEPT !.corrupt = k] /\ new.corrupt = k
                             /\ new.head = log[h].head /\ new.marker = log[h].marker
      <4>1. /\ [log[h] EXCEPT !.corrupt = k] \in Log /\ [log[h] EXCEPT !.corrupt = k].corrupt = k
            /\ [log[h] EXCEPT !.corrupt = k].head = log[h].head
            /\ [log[h] EXCEPT !.corrupt = k].marker = log[h].marker
        BY <3>2, <3>3 DEF Log
      <4> QED BY <4>1
    <3>5. log' = [log EXCEPT ![h] = new]
      BY <1>2, <3>9, <3>4 DEF TypeOK
    <3>6. log' \in [Graph -> Log] /\ log'[h] = new /\ \A o \in Graph \ {h} : log'[o] = log[o]
      BY <1>2, <3>5 DEF TypeOK
    <3> QED BY <3>3, <3>4, <3>6
  <2> QED BY <2>1, <2>2
<1>6. /\ startup' \in Startup /\ startup'.run.applied <= startup'.run.head /\ gate' \in Gate
  BY <1>1, IdleTyped, NewGateIs
<1>7. /\ writer' \in [Graph -> {"idle", "staged", "apply", "mark"}]
      /\ \A g \in Graph : writer'[g] = "idle"
  BY <1>1
<1>8. \A g \in Graph : log'[g].marker <= log'[g].head
  BY <1>2, <1>5 DEF TypeOK
<1>9. TypeOK'
  BY <1>1, <1>2, <1>3, <1>4, <1>5, <1>6, <1>7, <1>8 DEF TypeOK
<1>10. ASSUME NEW g \in Graph  PROVE GraphInv(g)'
  BY <1>1, <1>2, <1>3, <1>4, <1>5, <1>7, CrashGraph
<1>11. StartupInv' /\ RunInv' /\ \A g \in Graph : Opening(g)'
  BY <1>1, StartedInv
<1> QED BY <1>9, <1>10, <1>11 DEF IInv

-----------------------------------------------------------------------------
LEMMA InitInv ==
  ASSUME Init
  PROVE  IInv
<1>1. /\ log = [g \in Graph |-> [head |-> 0, marker |-> 0, corrupt |-> 0]]
      /\ checkpoint = [g \in Graph |-> [position |-> 0, sound |-> TRUE]]
      /\ content = [g \in Graph |-> Empty] /\ sentinel = [g \in Graph |-> NoSentinel]
      /\ gate = NewGate /\ startup = Idle /\ writer = [g \in Graph |-> "idle"]
      /\ faults = [crashes |-> 0, outages |-> 0, raced |-> {}]
  BY DEF Init
<1>2. NoSentinel \in Sentinel /\ NoSentinel.state = "none"
  BY DEF NoSentinel, Sentinel, NotVerified
<1>3. \A g \in Graph : /\ log[g].head = 0 /\ log[g].marker = 0 /\ checkpoint[g].position = 0
                       /\ content[g] = Empty /\ sentinel[g].state = "none" /\ writer[g] = "idle"
  BY <1>1, <1>2
<1>4. /\ log \in [Graph -> Log] /\ checkpoint \in [Graph -> Checkpoint]
      /\ content \in [Graph -> Content] /\ sentinel \in [Graph -> Sentinel]
      /\ writer \in [Graph -> {"idle", "staged", "apply", "mark"}]
      /\ faults \in [crashes : 0..MaxCrashes, outages : 0..MaxOutages, raced : SUBSET Graph]
  BY <1>1, <1>2, EmptyIsEmpty, BoundAssumption DEF Log, Checkpoint
<1>5. TypeOK
  <2>1. \A g \in Graph : log[g].marker <= log[g].head
    BY <1>3
  <2>2. startup \in Startup /\ startup.run.applied <= startup.run.head /\ gate \in Gate
    BY <1>1, IdleTyped, NewGateIs
  <2> QED BY <1>4, <2>1, <2>2 DEF TypeOK
<1>6. ASSUME NEW g \in Graph  PROVE GraphInv(g) /\ Opening(g)
  <2>1. Bounds(g)
    BY <1>3, EmptyIsEmpty DEF Bounds
  <2>2. Rebuilding(g) /\ Writing(g) /\ Found(g) /\ Caused(g)
    BY <1>3, EmptyIsEmpty DEF Rebuilding, Writing, Found, Caused
  <2>3. Closed(g) /\ startup.pc = "hold"
    BY <1>1, IdleTyped, NewGateIs DEF Closed
  <2>4. Opening(g)
    BY <2>3 DEF Opening, Trying
  <2> QED BY <2>1, <2>2, <2>4 DEF GraphInv
<1>7. StartupInv /\ RunInv
  <2>1. startup.graph = {} /\ startup.pc = "hold" /\ gate.hold
    BY <1>1, IdleTyped, NewGateIs
  <2> QED BY <2>1 DEF StartupInv, RunInv, ReplayPC
<1> QED BY <1>5, <1>6, <1>7 DEF IInv

LEMMA NextInv ==
  ASSUME IInv, [Next]_vars
  PROVE  IInv'
<1>1. CASE UNCHANGED vars
  <2>1. /\ log' = log /\ checkpoint' = checkpoint /\ content' = content /\ sentinel' = sentinel
        /\ gate' = gate /\ startup' = startup /\ writer' = writer /\ faults' = faults
    BY <1>1 DEF vars
  <2>2. TypeOK'
    BY <2>1 DEF IInv, TypeOK
  <2>3. \A g \in Graph : SameGraph(g) /\ GraphInv(g) /\ Opening(g)
    BY <2>1 DEF SameGraph, IInv
  <2>4. \A g \in Graph : GraphInv(g)' /\ Opening(g)'
    BY <2>1, <2>3, GraphKept, OpeningSame
  <2>5. \A g \in startup.graph : SameGraph(g)
    BY <2>1 DEF SameGraph
  <2>6. StartupInv' /\ RunInv'
    BY <2>1, <2>5, StartupKept, RunKept DEF IInv
  <2> QED BY <2>2, <2>4, <2>6 DEF IInv
<1>2. CASE Hold \/ AllClassified \/ Ended
  BY <1>2, HoldInv, AllClassifiedInv, EndedInv
<1>3. CASE Outage \/ GiveUp
  BY <1>3, OutageInv
<1>4. CASE Crash
  BY <1>4, CrashInv
<1>5. ASSUME NEW g \in Graph,
             Classify(g) \/ Untouched(g) \/ CatchUp(g) \/ CatchUpPart(g) \/ CaughtUp(g)
             \/ StaysBehind(g) \/ CatchUpRaises(g)
      PROVE  IInv'
  BY <1>5, ClassifyInv, UntouchedInv, CatchUpInv, CatchUpPartInv, CaughtUpInv, StaysBehindInv, OutageInv
<1>6. ASSUME NEW g \in Graph, ReplayStep(g)  PROVE IInv'
  BY <1>6, ReplayGraphInv, StartInv, ApplyChunksInv, ApplyPageInv, RecordPageInv, VerifyInv,
     FinishInv, DeleteSentinelInv DEF ReplayStep
<1>7. ASSUME NEW g \in Graph, DeletionUnacknowledged(g)  PROVE IInv'
  BY <1>7, DeletionUnacknowledgedInv
<1>8. ASSUME NEW g \in Graph, WriterStep(g)  PROVE IInv'
  BY <1>8, WriterEntersInv, CommitInv, WriterLeavesInv, WriterAppliesPartInv, WriterAppliesInv,
     WriterFailsInv, WriterMarksInv DEF WriterStep
<1> QED BY <1>1, <1>2, <1>3, <1>4, <1>5, <1>6, <1>7, <1>8 DEF Next, StartupStep

\* The inductive invariant holds throughout.
THEOREM Invariance == Spec => []IInv
<1>1. Init => IInv
  BY InitInv
<1>2. IInv /\ [Next]_vars => IInv'
  BY NextInv
<1> QED BY <1>1, <1>2, PTL DEF Spec

-----------------------------------------------------------------------------
(***************************************************************************)
(* Every state of the startup replay and its writers has the declared      *)
(* shape, markers and rebuilds never beyond their log.                     *)
(***************************************************************************)
THEOREM TypeCorrect == Spec => []TypeOK
<1>1. IInv => TypeOK
  BY DEF IInv
<1> QED BY <1>1, Invariance, PTL

(***************************************************************************)
(* A graph that accepts writes is whole, whatever was wiped, cut short or  *)
(* restarted (replay_gate.py and startup_replay).                          *)
(***************************************************************************)
THEOREM OpenGraphsAreWhole == Spec => []OpenIsWhole
<1>1. IInv => OpenIsWhole
  <2> SUFFICES ASSUME IInv, NEW g \in Graph, ~Closed(g)
               PROVE  /\ sentinel[g].state = "none"
                      /\ log[g].marker <= content[g].low \/ Exactly(content[g], log[g].marker)
                      /\ content[g].reach <= log[g].head
    BY DEF OpenIsWhole
  <2>1. Whole(g) /\ Bounds(g)
    BY DEF IInv, Opening, GraphInv
  <2> QED BY <2>1 DEF Whole, Through, Bounds
<1> QED BY <1>1, Invariance, PTL

(***************************************************************************)
(* A finished rebuild is the graph of its log (replay_graph).              *)
(***************************************************************************)
THEOREM RebuildsAreTheLog == Spec => []RebuiltIsTheLog
<1>1. IInv => RebuiltIsTheLog
  <2> SUFFICES ASSUME IInv, NEW h \in Graph, Dealing(h, "delete")
               PROVE  Exactly(content[h], startup.run.head) /\ log[h].marker = startup.run.head
    BY DEF RebuiltIsTheLog
  <2>1. PICK p, v, at, c, run, pc :
           /\ p = sentinel[h].position /\ v = sentinel[h].verified
           /\ at = checkpoint[h].position /\ c = content[h] /\ run = startup.run /\ pc = "delete"
    OBVIOUS
  <2>2. pc \in ReplayPC /\ Dealing(h, pc)
    BY <2>1 DEF ReplayPC
  <2>3. /\ Through(c, p) /\ p = log[h].head /\ log[h].marker = log[h].head /\ run.head = log[h].head
        /\ log[h].head \in Nat /\ c \in Content /\ c.low <= c.reach /\ c.reach <= log[h].head
    BY <2>1, <2>2, InRebuild
  <2>4. Exactly(c, log[h].head)
    BY <2>3, ThroughHead
  <2> QED BY <2>1, <2>3, <2>4
<1> QED BY <1>1, Invariance, PTL

(***************************************************************************)
(* A graph is recorded as failed only for a cause in its log, or because   *)
(* its rebuild was decided while a writer was at work on it.               *)
(***************************************************************************)
THEOREM FailuresHaveACause == Spec => []FailureHasACause
<1>1. IInv => FailureHasACause
  BY DEF IInv, GraphInv, Caused, FailureHasACause
<1> QED BY <1>1, Invariance, PTL

-----------------------------------------------------------------------------
(***************************************************************************)
(* What steps may do.                                                      *)
(***************************************************************************)

\* Only a commit moves the head of a log.
LEMMA HeadMoves ==
  ASSUME TypeOK, [Next]_vars, NEW g \in Graph, log'[g].head # log[g].head
  PROVE  Commit(g)
<1>1. ASSUME log' = log  PROVE FALSE
  BY <1>1
<1>2. ASSUME NEW h \in Graph, NEW k, log' = [log EXCEPT ![h].marker = k]  PROVE FALSE
  BY <1>2 DEF TypeOK, Log
<1>3. ASSUME NEW h \in Graph, NEW k, log' = [log EXCEPT ![h].corrupt = k]  PROVE FALSE
  BY <1>3 DEF TypeOK, Log
<1>4. ASSUME NEW h \in Graph, Commit(h)  PROVE Commit(g)
  <2>1. PICK n : log' = [log EXCEPT ![h].head = @ + n]
    BY <1>4 DEF Commit
  <2>2. h = g
    BY <2>1 DEF TypeOK
  <2> QED BY <1>4, <2>2
<1>5. ASSUME NEW h \in Graph, WriterStep(h), ~Commit(h)  PROVE FALSE
  <2>1. CASE WriterAppliesPart(h)
    <3>1. PICK n : log' \in {log, [log EXCEPT ![h].marker = n]}
      BY <2>1 DEF WriterAppliesPart, AppliesPart
    <3> QED BY <1>1, <1>2, <3>1
  <2>2. CASE WriterMarks(h)
    BY <1>2, <2>2 DEF WriterMarks
  <2>3. CASE WriterEnters(h) \/ WriterLeaves(h) \/ WriterApplies(h) \/ WriterFails(h)
    BY <1>1, <2>3 DEF WriterEnters, WriterLeaves, WriterApplies, WriterFails, graphVars
  <2> QED BY <1>5, <2>1, <2>2, <2>3 DEF WriterStep
<1>6. ASSUME NEW h \in Graph, ReplayStep(h)  PROVE FALSE
  <2>1. CASE AdvanceMarker(h)
    BY <1>2, <2>1 DEF AdvanceMarker
  <2>2. CASE ~AdvanceMarker(h)
    BY <1>1, <1>6, <2>2 DEF ReplayStep, ReplayGraph, Start, ApplyChunks, ApplyPage, RecordPage, Verify,
       Finish, DeleteSentinel, graphVars
  <2> QED BY <2>1, <2>2
<1>7. ASSUME StartupStep  PROVE FALSE
  <2>1. CASE Hold \/ AllClassified \/ Ended
    BY <1>1, <2>1 DEF Hold, AllClassified, Ended, graphVars
  <2>2. ASSUME NEW h \in Graph, CaughtUp(h) \/ CatchUpPart(h)  PROVE FALSE
    <3>1. CASE CaughtUp(h)
      BY <1>2, <3>1 DEF CaughtUp
    <3>2. CASE CatchUpPart(h)
      <4>1. PICK n : log' \in {log, [log EXCEPT ![h].marker = n]}
        BY <3>2 DEF CatchUpPart, AppliesPart
      <4> QED BY <1>1, <1>2, <4>1
    <3> QED BY <2>2, <3>1, <3>2
  <2>3. ASSUME NEW h \in Graph,
               Classify(h) \/ Untouched(h) \/ CatchUp(h) \/ StaysBehind(h) \/ CatchUpRaises(h)
        PROVE  FALSE
    BY <1>1, <2>3 DEF Classify, Untouched, CatchUp, StaysBehind, CatchUpRaises, graphVars
  <2> QED BY <1>6, <1>7, <2>1, <2>2, <2>3 DEF StartupStep
<1>8. ASSUME Crash  PROVE FALSE
  <2>1. CASE log' # log
    <3>1. PICK h \in Graph : \E k : log' = [log EXCEPT ![h].corrupt = k]
      BY <1>8, <2>1 DEF Crash
    <3> QED BY <1>3, <3>1
  <2> QED BY <1>1, <2>1
<1>9. ASSUME Outage \/ GiveUp \/ UNCHANGED vars \/ \E h \in Graph : DeletionUnacknowledged(h)  PROVE FALSE
  BY <1>1, <1>9 DEF Outage, GiveUp, vars, DeletionUnacknowledged, graphVars
<1> QED BY <1>4, <1>5, <1>7, <1>8, <1>9 DEF Next

(***************************************************************************)
(* Nothing is logged for a graph unless it holds exactly what its log says *)
(* at that moment (_stage under the lock and the gate).                    *)
(***************************************************************************)
THEOREM LogsOnWholeGraphs == Spec => LoggedOnWholeGraph
<1>1. ASSUME IInv, [Next]_vars, NEW g \in Graph, log'[g].head # log[g].head
      PROVE  sentinel[g].state = "none" /\ Exactly(content[g], log[g].head)
  <2>1. writer[g] = "staged" /\ TypeOK
    BY <1>1, HeadMoves DEF Commit, IInv
  <2>2. Whole(g) /\ log[g].marker = log[g].head /\ Bounds(g)
    BY <1>1, <2>1 DEF IInv, GraphInv, Writing
  <2>3. /\ sentinel[g].state = "none" /\ Through(content[g], log[g].head)
        /\ content[g].low <= content[g].reach /\ content[g].reach <= log[g].head
    BY <2>2 DEF Whole, Bounds
  <2>4. content[g] \in Content /\ log[g].head \in Nat
    BY <2>1, GraphTyped
  <2> QED BY <2>3, <2>4, ThroughHead
<1>2. IInv /\ [Next]_vars =>
        [\A g \in Graph : log'[g].head # log[g].head =>
           /\ sentinel[g].state = "none"
           /\ Exactly(content[g], log[g].head)]_vars
  BY <1>1
<1> QED BY <1>2, Invariance, PTL DEF Spec, LoggedOnWholeGraph

-----------------------------------------------------------------------------
\* A page ends at the checkpoint, or begins past it, compared.
LEMMA PageCompared ==
  ASSUME IInv, NEW h \in Graph, Dealing(h, "page"),
         NEW n \in Nat, startup.run.applied < n, n <= PageEnd(startup.run),
         content' = [content EXCEPT ![h] = Applied(@, startup.run.applied + 1, n)],
         startup.run.verifyAt # 0, content'[h].low > startup.run.verifyAt
  PROVE  startup.run.verified = startup.run.verifyAt
<1>1. PICK p, v, at, c, run, pc :
         /\ p = sentinel[h].position /\ v = sentinel[h].verified
         /\ at = checkpoint[h].position /\ c = content[h] /\ run = startup.run /\ pc = "page"
  OBVIOUS
<1>2. pc \in ReplayPC /\ Dealing(h, pc)
  BY <1>1 DEF ReplayPC
<1>3. /\ TypeOK /\ run.verifyAt = at /\ run.verified = v /\ run.head = log[h].head
      /\ p \in Nat /\ at \in Nat /\ log[h].head \in Nat /\ at <= log[h].head /\ p <= log[h].head
      /\ at # 0 /\ p > at => v = at
      /\ run.applied = p /\ ~(at # 0 /\ v # at /\ p = at)
  BY <1>1, <1>2, InRebuild
<1>4. PageEnd(run) = EndOfPage(h, p)
  BY <1>1, <1>3, PageOfRun
<1>5. PICK e \in Nat : e = EndOfPage(h, p) /\ (p < at => e <= at)
  BY <1>1, <1>3, EndOfPageIs
<1>6. content'[h].low = n
  BY PageApplied
<1>7. n <= e /\ n > at /\ at # 0
  BY <1>1, <1>3, <1>4, <1>5, <1>6
<1>8. ~(p < at)
  BY <1>3, <1>5, <1>7
<1> QED BY <1>1, <1>3, <1>7, <1>8

\* While a page of a graph is due, only its application changes the content.
LEMMA PageMoves ==
  ASSUME IInv, [Next]_vars, NEW g \in Graph, Dealing(g, "page"), content'[g] # content[g],
         faults'.crashes = faults.crashes
  PROVE  \E n \in Nat : /\ startup.run.applied < n /\ n <= PageEnd(startup.run)
                        /\ content' = [content EXCEPT ![g] = Applied(@, startup.run.applied + 1, n)]
<1>1. PICK p, v, at, c, run, pc, e :
         /\ p = sentinel[g].position /\ v = sentinel[g].verified
         /\ at = checkpoint[g].position /\ c = content[g] /\ run = startup.run /\ pc = "page"
         /\ e = PageEnd(run)
  OBVIOUS
<1>2. pc \in ReplayPC /\ Dealing(g, pc)
  BY <1>1 DEF ReplayPC
<1>3. /\ TypeOK /\ run.verifyAt = at /\ run.head = log[g].head /\ startup.pc = "page"
      /\ p \in Nat /\ log[g].head \in Nat /\ at <= log[g].head /\ p <= log[g].head
      /\ run.applied = p /\ writer[g] = "idle"
  BY <1>1, <1>2, InRebuild
<1>4. e \in Nat /\ p <= e /\ (p < log[g].head => p < e)
  BY <1>1, <1>3, PageOfRun, EndOfPageIs
<1>5. content' # content /\ startup.graph = {g}
  BY DEF Dealing
<1>6. ASSUME NEW h \in Graph, NEW d, content' = [content EXCEPT ![h] = d]  PROVE h = g
  BY <1>3, <1>6 DEF TypeOK
<1>7. ASSUME NEW h \in Graph, WriterStep(h)  PROVE FALSE
  <2>1. content' = content \/ (writer[h] # "idle" /\ \E d : content' = [content EXCEPT ![h] = d])
    <3>1. CASE WriterAppliesPart(h)
      <4>1. writer[h] = "apply" /\ \E n : content' = [content EXCEPT ![h] = Applied(@, log[h].marker + 1, n)]
        BY <3>1 DEF WriterAppliesPart, AppliesPart
      <4> QED BY <4>1
    <3>2. CASE WriterApplies(h)
      BY <3>2 DEF WriterApplies
    <3>3. CASE WriterEnters(h) \/ WriterLeaves(h) \/ Commit(h) \/ WriterFails(h) \/ WriterMarks(h)
      BY <3>3 DEF WriterEnters, WriterLeaves, Commit, WriterFails, WriterMarks, graphVars
    <3> QED BY <1>7, <3>1, <3>2, <3>3 DEF WriterStep
  <2> QED BY <1>3, <1>5, <1>6, <2>1
<1>8. ASSUME NEW h \in Graph, ReplayStep(h)
      PROVE  \E n \in Nat : /\ startup.run.applied < n /\ n <= PageEnd(startup.run)
                            /\ content' = [content EXCEPT ![g] = Applied(@, startup.run.applied + 1, n)]
  <2>1. CASE ApplyChunks(h)
    <3>1. h = g
      BY <1>5, <2>1 DEF ApplyChunks, Dealing
    <3>2. PICK n \in p + 1 .. e - 1 : content' = [content EXCEPT ![g] = Applied(@, p + 1, n)]
      BY <1>1, <1>3, <2>1, <3>1 DEF ApplyChunks
    <3>3. n \in Nat /\ p < n /\ n <= e
      BY <1>3, <1>4, <3>2
    <3> QED BY <1>1, <1>3, <3>2, <3>3
  <2>2. CASE ApplyPage(h)
    <3>1. h = g
      BY <1>5, <2>2 DEF ApplyPage, Dealing
    <3>2. PICK bad : bad = log[g].corrupt
      OBVIOUS
    <3>3. CASE bad \in p + 1 .. e
      <4>1. content' = [content EXCEPT ![g] = IF bad = p + 1 THEN @ ELSE Applied(@, p + 1, bad - 1)]
        BY <1>1, <1>3, <2>2, <3>1, <3>2, <3>3 DEF ApplyPage
      <4>2. bad # p + 1
        BY <1>3, <1>5, <4>1 DEF TypeOK
      <4>3. PICK n \in Nat : n = bad - 1 /\ p < n /\ n <= e
        BY <1>3, <1>4, <3>3, <4>2
      <4>4. content' = [content EXCEPT ![g] = Applied(@, p + 1, n)]
        BY <4>1, <4>2, <4>3
      <4> QED BY <1>1, <1>3, <4>3, <4>4
    <3>4. CASE bad \notin p + 1 .. e
      <4>1. content' = [content EXCEPT ![g] = Applied(@, p + 1, e)] /\ p < log[g].head
        BY <1>1, <1>3, <2>2, <3>1, <3>2, <3>4 DEF ApplyPage
      <4>2. PICK n \in Nat : n = e /\ p < n /\ n <= e
        BY <1>4, <4>1
      <4> QED BY <1>1, <1>3, <4>1, <4>2
    <3> QED BY <3>3, <3>4
  <2>3. CASE ~ApplyChunks(h) /\ ~ApplyPage(h)
    BY <1>5, <1>8, <2>3 DEF ReplayStep, ReplayGraph, Start, RecordPage, Verify, Finish, AdvanceMarker,
       DeleteSentinel, graphVars
  <2> QED BY <2>1, <2>2, <2>3
<1>9. ASSUME NEW h \in Graph, ~ReplayStep(h), StartupStep  PROVE \E o \in Graph : ReplayStep(o)
  <2>1. ~(Hold \/ AllClassified \/ Ended)
    BY <1>3 DEF Hold, AllClassified, Ended
  <2>2. ASSUME NEW o \in Graph
        PROVE  ~(\/ Classify(o) \/ Untouched(o) \/ CatchUp(o) \/ CatchUpPart(o) \/ CaughtUp(o)
                 \/ StaysBehind(o) \/ CatchUpRaises(o))
    BY <1>3 DEF Classify, Untouched, NextInOrder, CatchUp, CatchUpPart, CaughtUp, StaysBehind, CatchUpRaises, Dealing
  <2> QED BY <1>9, <2>1, <2>2 DEF StartupStep
<1>10. ASSUME Crash  PROVE FALSE
  <2>1. faults' = [faults EXCEPT !.crashes = @ + 1] /\ faults.crashes \in Nat
    BY <1>3, <1>10, StartupTyped DEF Crash
  <2>2. faults \in [crashes : 0..MaxCrashes, outages : 0..MaxOutages, raced : SUBSET Graph]
    BY <1>3 DEF TypeOK
  <2>3. faults'.crashes = faults.crashes + 1
    BY <2>1, <2>2
  <2> QED BY <2>1, <2>3
<1>11. ASSUME Outage \/ GiveUp \/ UNCHANGED vars \/ \E h \in Graph : DeletionUnacknowledged(h)  PROVE FALSE
  BY <1>5, <1>11 DEF Outage, GiveUp, vars, DeletionUnacknowledged, graphVars
<1> QED BY <1>7, <1>8, <1>9, <1>10, <1>11 DEF Next

(***************************************************************************)
(* A rebuild applies an entry past its checkpoint only if the graph was    *)
(* compared with the checkpoint and found equal (replay.py, replay).       *)
(***************************************************************************)
THEOREM ComparedBeforeGoingOn == Spec => NothingPastUnverified
<1>1. ASSUME IInv, [Next]_vars, NEW g \in Graph, Dealing(g, "page"), content'[g] # content[g],
             faults'.crashes = faults.crashes, startup.run.verifyAt # 0, content'[g].low > startup.run.verifyAt
      PROVE  startup.run.verified = startup.run.verifyAt
  <2>1. PICK n \in Nat : /\ startup.run.applied < n /\ n <= PageEnd(startup.run)
                         /\ content' = [content EXCEPT ![g] = Applied(@, startup.run.applied + 1, n)]
    BY <1>1, PageMoves
  <2> QED BY <1>1, <2>1, PageCompared
<1>2. IInv /\ [Next]_vars =>
        [\A g \in Graph :
           /\ Dealing(g, "page") /\ content'[g] # content[g] /\ faults'.crashes = faults.crashes
           /\ startup.run.verifyAt # 0 /\ content'[g].low > startup.run.verifyAt
           => startup.run.verified = startup.run.verifyAt]_vars
  BY <1>1
<1> QED BY <1>2, Invariance, PTL DEF Spec, NothingPastUnverified

(***************************************************************************)
(* A step that moves the marker of one graph at most is an advance of      *)
(* GraphLog or changes nothing of it.                                      *)
(***************************************************************************)
LEMMA MovesOneMarker ==
  ASSUME TypeOK, TypeOK', NEW g \in Graph, NEW n \in Nat,
         log' = [log EXCEPT ![g].marker = n], log[g].marker <= n
  PROVE  [OneLog!Next]_(OneLog!vars)
<1> DEFINE h == [o \in Graph |-> log[o].head]
           m == [o \in Graph |-> log[o].marker]
<1>1. \A o \in Graph : log[o] \in Log /\ log'[o] \in Log /\ log'[o].marker <= log'[o].head
  BY DEF TypeOK
<1>2. \A o \in Graph : log'[o] = IF o = g THEN [log[g] EXCEPT !.marker = n] ELSE log[o]
  BY DEF TypeOK
<1>3. \A o \in Graph : log'[o].head = log[o].head /\ log'[o].marker = IF o = g THEN n ELSE log[o].marker
  BY <1>1, <1>2 DEF Log
<1>4. h' = h /\ m' = [m EXCEPT ![g] = n] /\ m[g] = log[g].marker /\ m'[g] = n /\ h[g] = log[g].head
  BY <1>3
<1>5. n <= log[g].head
  BY <1>1, <1>3
<1>6. CASE log[g].marker = n
  <2>1. m' = m
    BY <1>4, <1>6
  <2> QED BY <1>4, <2>1 DEF OneLog!vars
<1>7. CASE log[g].marker # n
  <2>1. log[g].marker < n
    BY <1>1, <1>7 DEF Log
  <2>a. m[g] < m'[g] /\ m'[g] <= h[g]
    BY <1>4, <1>5, <2>1
  <2>b. m' = [m EXCEPT ![g] = m'[g]]
    BY <1>4, Zenon
  <2>2. OneLog!Advance(g)
    BY <1>4, <2>a, <2>b DEF OneLog!Advance
  <2> QED BY <2>2 DEF OneLog!Next
<1> QED BY <1>6, <1>7

\* A commit gives one graph's log positions and moves no marker.
LEMMA CommitAppends ==
  ASSUME TypeOK, TypeOK', NEW g \in Graph, Commit(g)
  PROVE  [OneLog!Next]_(OneLog!vars)
<1> DEFINE h == [o \in Graph |-> log[o].head]
           m == [o \in Graph |-> log[o].marker]
<1>1. PICK n \in 1..MaxEntries : log' = [log EXCEPT ![g].head = @ + n]
  BY DEF Commit
<1>2. n \in Nat
  BY <1>1, BoundAssumption
<1>3. \A o \in Graph : log[o] \in Log /\ log'[o] \in Log
  BY DEF TypeOK
<1>4. \A o \in Graph : log'[o] = IF o = g THEN [log[g] EXCEPT !.head = @ + n] ELSE log[o]
  BY <1>1 DEF TypeOK
<1>5. \A o \in Graph : log'[o].marker = log[o].marker /\ log[o].head <= log'[o].head
  BY <1>2, <1>3, <1>4 DEF Log
<1>6. m' = m /\ DOMAIN h' = Graph /\ \A o \in Graph : h[o] <= h'[o]
  BY <1>5
<1>7. CASE h' = h
  BY <1>6, <1>7 DEF OneLog!vars
<1>8. CASE h' # h
  <2>1. OneLog!Append
    BY <1>6, <1>8 DEF OneLog!Append
  <2> QED BY <2>1 DEF OneLog!Next
<1> QED BY <1>7, <1>8

\* The other steps leave the log alone, but for the entry that does not decode any more.
LEMMA SameLog ==
  ASSUME TypeOK, [Next]_vars,
         ~\E g \in Graph : \/ Commit(g) \/ WriterAppliesPart(g) \/ WriterMarks(g)
                           \/ CatchUpPart(g) \/ CaughtUp(g) \/ AdvanceMarker(g)
  PROVE  \A o \in Graph : log'[o].head = log[o].head /\ log'[o].marker = log[o].marker
<1>1. CASE UNCHANGED log
  BY <1>1
<1>2. CASE Crash
  <2>1. CASE \E g \in Graph : \E p \in 1..log[g].head : log' = [log EXCEPT ![g].corrupt = p]
    <3>0. PICK g \in Graph : \E p \in 1..log[g].head : log' = [log EXCEPT ![g].corrupt = p]
      BY <2>1
    <3>1. PICK p \in 1..log[g].head : log' = [log EXCEPT ![g].corrupt = p]
      BY <3>0
    <3>2. \A o \in Graph : log[o] \in Log
      BY DEF TypeOK
    <3>3. \A o \in Graph : log'[o] = IF o = g THEN [log[g] EXCEPT !.corrupt = p] ELSE log[o]
      BY <3>1 DEF TypeOK
    <3> QED BY <3>2, <3>3 DEF Log
  <2> QED BY <1>1, <1>2, <2>1 DEF Crash
<1>3. CASE UNCHANGED vars \/ Outage \/ GiveUp \/ \E g \in Graph : DeletionUnacknowledged(g)
  BY <1>1, <1>3 DEF vars, graphVars, Outage, GiveUp, DeletionUnacknowledged
<1>4. ASSUME NEW g \in Graph, WriterStep(g)
      PROVE  UNCHANGED log
  BY <1>4 DEF WriterStep, WriterEnters, WriterLeaves, WriterApplies, WriterFails, graphVars
<1>5. ASSUME NEW g \in Graph, ReplayStep(g)
      PROVE  UNCHANGED log
  BY <1>5 DEF ReplayStep, ReplayGraph, Start, ApplyChunks, ApplyPage, RecordPage, Verify, Finish,
              DeleteSentinel, graphVars
<1>6. ASSUME NEW g \in Graph, \/ Classify(g) \/ Untouched(g) \/ CatchUp(g)
                                \/ StaysBehind(g) \/ CatchUpRaises(g)
      PROVE  UNCHANGED log
  BY <1>6 DEF Classify, Untouched, CatchUp, StaysBehind, CatchUpRaises, graphVars
<1>7. CASE Hold \/ AllClassified \/ Ended
  BY <1>1, <1>7 DEF Hold, AllClassified, Ended, graphVars
<1> QED
  BY <1>1, <1>2, <1>3, <1>4, <1>5, <1>6, <1>7 DEF Next, StartupStep

(***************************************************************************)
(* Whatever the startup thread and the writers do, a graph's log is the    *)
(* one of GraphLog: a catch up, a rebuild from any page and a restart move *)
(* the marker forward only, and never beyond what was logged.              *)
(***************************************************************************)
THEOREM ReplayImplementsGraphLog == Spec => ImplementsGraphLog
<1>1. Init => OneLog!Init
  BY DEF Init, OneLog!Init
<1>2. ASSUME TypeOK, TypeOK', [Next]_vars  PROVE [OneLog!Next]_(OneLog!vars)
  <2>1. ASSUME NEW g \in Graph, Commit(g)  PROVE [OneLog!Next]_(OneLog!vars)
    BY <1>2, <2>1, CommitAppends
  <2>2. \A g \in Graph : log[g].marker \in Nat /\ log[g].head \in Nat /\ log[g].marker <= log[g].head
    BY <1>2 DEF TypeOK, Log
  <2>3. ASSUME NEW g \in Graph, WriterAppliesPart(g) \/ CatchUpPart(g)
        PROVE  [OneLog!Next]_(OneLog!vars)
    <3>1. PICK n \in log[g].marker + 1 .. log[g].head : log' \in {log, [log EXCEPT ![g].marker = n]}
      <4>1. CASE WriterAppliesPart(g)
        <5>1. PICK n \in log[g].marker + 1 .. log[g].head - 1 :
                log' \in {log, [log EXCEPT ![g].marker = n]}
          BY <4>1 DEF WriterAppliesPart, AppliesPart
        <5>2. n \in log[g].marker + 1 .. log[g].head
          BY <2>2
        <5> QED BY <5>1, <5>2
      <4>2. CASE CatchUpPart(g)
        BY <4>2 DEF CatchUpPart, AppliesPart
      <4> QED BY <2>3, <4>1, <4>2
    <3>2. n \in Nat /\ log[g].marker <= n
      BY <2>2, <3>1
    <3>3. CASE log' = log
      BY <3>3 DEF OneLog!vars
    <3>4. CASE log' = [log EXCEPT ![g].marker = n]
      BY <1>2, <3>2, <3>4, MovesOneMarker
    <3> QED BY <3>1, <3>3, <3>4
  <2>4. ASSUME NEW g \in Graph, WriterMarks(g) \/ CaughtUp(g)  PROVE [OneLog!Next]_(OneLog!vars)
    <3>1. log' = [log EXCEPT ![g].marker = log[g].head]
      BY <2>4 DEF WriterMarks, CaughtUp
    <3> QED BY <1>2, <2>2, <3>1, MovesOneMarker
  <2>5. ASSUME NEW g \in Graph, AdvanceMarker(g)  PROVE [OneLog!Next]_(OneLog!vars)
    <3>1. startup.run.head \in Nat
      BY <1>2 DEF TypeOK, Startup, Run
    <3>2. PICK n \in Nat : /\ n = IF log[g].marker < startup.run.head THEN startup.run.head ELSE log[g].marker
                           /\ log[g].marker <= n
      BY <2>2, <3>1
    <3>3. log' = [log EXCEPT ![g].marker = n]
      BY <1>2, <2>5, <3>2 DEF AdvanceMarker
    <3> QED BY <1>2, <3>2, <3>3, MovesOneMarker
  <2>6. CASE ~\E g \in Graph : \/ Commit(g) \/ WriterAppliesPart(g) \/ WriterMarks(g)
                               \/ CatchUpPart(g) \/ CaughtUp(g) \/ AdvanceMarker(g)
    BY <1>2, <2>6, SameLog DEF OneLog!vars
  <2> QED BY <2>1, <2>3, <2>4, <2>5, <2>6
<1> QED BY <1>1, <1>2, TypeCorrect, PTL DEF Spec, OneLog!Spec, ImplementsGraphLog
=============================================================================
