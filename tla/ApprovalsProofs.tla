---------------------------- MODULE ApprovalsProofs ----------------------------
(***************************************************************************)
(* Approvals: an approval is a single-use token, what it logs is logged on *)
(* the state that was signed, and its outcome says what the log holds, for *)
(* any number of approvals, officers, passkeys and requests.               *)
(***************************************************************************)
EXTENDS Approvals, FiniteSetTheorems, TLAPS

(***************************************************************************)
(* The inductive invariant.  A request that carries out, reports or judges *)
(* an approval holds it, after its consumption.  One that carries it out   *)
(* is the only one that holds it, and nothing is logged for it yet.        *)
(***************************************************************************)
Executing == {"count", "role", "replan", "audit", "guard", "position", "state", "stamp", "submit"}

Checking == {"caught up", "effect", "interrupted"}

Holding == Executing \cup {"failed", "outcome"} \cup Checking

Last == log[Len(log)]

LoggedLast(a) == log # <<>> /\ Last.by = a

OutcomeTrue(a, outcome) ==
  /\ outcome = "done" => a \in Logged
  /\ outcome \in {"error", "refused", "void"} => a \notin Logged \/ a \in doubted
  /\ outcome = "interrupted" => a \notin Logged \/ Overtaken(a)
  /\ outcome = "reconciled" => EffectLogged(a)

Executes(k) ==
  k.pc \in Executing =>
    /\ row[k.approval].outcome = "none" /\ ~row[k.approval].settled
    /\ consumed[k.approval] = "signed" /\ k.approval \notin Logged

Sole(c) ==
  call[c].pc \in Executing =>
    \A d \in Caller \ {c} : call[d].approval = call[c].approval => call[d].pc \notin Holding

\* What was read before the group is submitted still holds if the position did not move.
ComparedUnless(k, excepted) ==
  /\ k.pc \in {"state", "stamp", "submit"} => k.expected <= Len(log)
  /\ k.pc \in {"stamp", "submit"} /\ k.expected = Len(log) /\ k.approval \notin excepted
       => Pinned(row[k.approval].seen) = Pinned(CaughtUp)

Compared(k) == ComparedUnless(k, behind)

Knows(k) ==
  /\ k.pc # "idle" => k.approval \in Approval
  /\ k.pc = "insert" => k.credential \in Credential
  /\ k.pc \in Holding => row[k.approval].status = "signed"
  /\ k.pc = "failed" => k.approval \notin Logged \/ k.approval \in doubted
  /\ k.pc = "outcome" => OutcomeTrue(k.approval, k.result)
  /\ k.pc \in Checking => row[k.approval].settled
  /\ k.pc = "effect" /\ LoggedLast(k.approval) => pending = <<>>
  /\ k.pc = "interrupted" => k.approval \notin Logged \/ Overtaken(k.approval)

CallInv == \A c \in Caller : Executes(call[c]) /\ Sole(c) /\ Compared(call[c]) /\ Knows(call[c])

RowInv ==
  \A a \in Approval :
    /\ OutcomeTrue(a, row[a].outcome)
    /\ row[a].status = "signed" => consumed[a] # "none"
    /\ row[a].status # "signed" => row[a].outcome = "none"
    /\ a \in Logged \/ row[a].settled => row[a].status = "signed"
    /\ a \in locked => row[a].status = "pending"

(***************************************************************************)
(* The graph, once caught up, is what the last group left.                 *)
(***************************************************************************)
Unmerged == \E i \in DOMAIN log : log[i].set.merged = NoApproval

GraphInv ==
  /\ pending # <<>> => log # <<>>
  /\ log # <<>> => CaughtUp = Last.set
  /\ \A i \in DOMAIN log : log[i].by \in Approval =>
       log[i].set.merged = IF log[i].by \in Merging THEN log[i].by ELSE NoApproval
  /\ graph.merged # NoApproval => graph.merged \in Logged \cap Merging
  /\ CaughtUp.merged # NoApproval => CaughtUp.merged \in Logged \cap Merging
  /\ \A a \in Approval \ Merging : row[a].status # "none" /\ graph.merged = NoApproval => Unmerged
  /\ \A a \in Approval \ Merging : row[a].status # "none" /\ CaughtUp.merged = NoApproval => Unmerged

IInv == TypeOK /\ CallInv /\ RowInv /\ GraphInv

LEMMA InitIInv == Init => IInv
<1> SUFFICES ASSUME Init  PROVE IInv
  OBVIOUS
<1>1. log = <<>> /\ pending = <<>> /\ DOMAIN log = {} /\ Logged = {}
  BY DEF Init, Logged
<1>2. TypeOK
  <2>1. Unborn \in Row /\ Idle \in Call /\ NoneSeen \in Graph
    BY DEF Unborn, Row, Idle, Call, PC, NoneSeen, Graph, Outcome
  <2>2. row \in [Approval -> Row] /\ call \in [Caller -> Call] /\ graph \in Graph /\ log \in Seq(Group)
    BY <2>1 DEF Init
  <2> QED BY <2>2 DEF Init, TypeOK, Unborn
<1>3. CallInv
  BY DEF Init, CallInv, Executes, Sole, Compared, ComparedUnless, Knows, Idle, Executing, Holding, Checking
<1>4. RowInv
  BY <1>1 DEF Init, RowInv, OutcomeTrue, Unborn
<1>5. GraphInv
  BY <1>1 DEF Init, GraphInv, CaughtUp, NoneSeen, Unborn
<1> QED BY <1>2, <1>3, <1>4, <1>5 DEF IInv

-----------------------------------------------------------------------------
(***************************************************************************)
(* Steps that change nothing but what one request is doing.                *)
(***************************************************************************)
LEMMA CallerMoves ==
  ASSUME IInv, NEW c \in Caller, NEW k \in Call,
         call' = [call EXCEPT ![c] = k],
         creds' \subseteq Credential, UNCHANGED <<row, locked, revoking, doomed, late, consumed>>,
         UNCHANGED <<graph, pending, log, doubted>>, behind \subseteq behind', behind' \subseteq Approval,
         Executes(k), ComparedUnless(k, behind'), Knows(k),
         k.pc \in Executing => call[c].pc \in Executing /\ k.approval = call[c].approval,
         k.pc \in Holding => \/ call[c].pc \in Holding /\ k.approval = call[c].approval
                             \/ row[k.approval].settled
  PROVE  IInv'
<1> USE DEF IInv
<1>1. call' \in [Caller -> Call] /\ call'[c] = k /\ \A d \in Caller \ {c} : call'[d] = call[d]
  BY DEF TypeOK
<1>2. TypeOK'
  BY <1>1 DEF TypeOK
<1>3. RowInv'
  BY DEF RowInv, OutcomeTrue, Logged, Overtaken, EffectLogged
<1>4. GraphInv'
  BY DEF GraphInv, Unmerged, CaughtUp, Last, Logged
<1>5. CallInv'
  <2>1. \A d \in Caller : Executes(call'[d]) /\ ComparedUnless(call'[d], behind') /\ Knows(call'[d])
    BY <1>1 DEF CallInv, Compared, ComparedUnless
  <2>2. \A d \in Caller : /\ Executes(call[d])' = Executes(call'[d])
                          /\ Compared(call[d])' = ComparedUnless(call'[d], behind')
                          /\ Knows(call[d])' = Knows(call'[d])
    BY DEF Executes, Compared, ComparedUnless, CaughtUp, Knows, OutcomeTrue, Logged, Overtaken, EffectLogged,
           LoggedLast, Last
  <2>3. \A d \in Caller : Sole(d)'
    BY <1>1 DEF CallInv, Sole, Executes
  <2> QED BY <2>1, <2>2, <2>3 DEF CallInv
<1> QED BY <1>2, <1>3, <1>4, <1>5

LEMMA CallerSteps ==
  ASSUME IInv, NEW c \in Caller, NEW k \in Call,
         call' = [call EXCEPT ![c] = k],
         creds' \subseteq Credential, UNCHANGED <<row, locked, revoking, doomed, late, consumed, logVars>>,
         Executes(k), Compared(k), Knows(k),
         k.pc \in Executing => call[c].pc \in Executing /\ k.approval = call[c].approval,
         k.pc \in Holding => \/ call[c].pc \in Holding /\ k.approval = call[c].approval
                             \/ row[k.approval].settled
  PROVE  IInv'
<1>1. UNCHANGED <<graph, pending, log, doubted, behind>> /\ behind \subseteq Approval
  BY DEF logVars, IInv, TypeOK
<1> QED BY <1>1, CallerMoves DEF Compared

LEMMA EndSteps ==
  ASSUME IInv, NEW c \in Caller, End(c),
         creds' \subseteq Credential, UNCHANGED <<row, locked, revoking, doomed, late, consumed, logVars>>
  PROVE  IInv'
<1>1. Idle \in Call
  BY DEF Idle, Call, PC, Outcome
<1>2. Executes(Idle) /\ Compared(Idle) /\ Knows(Idle) /\ Idle.pc \notin Holding \cup Executing
  BY DEF Idle, Executes, Compared, ComparedUnless, Knows, Executing, Holding, Checking
<1> QED BY <1>1, <1>2, CallerSteps DEF End

LEMMA GotoSteps ==
  ASSUME IInv, NEW c \in Caller, NEW pc \in PC, Goto(c, pc), UNCHANGED <<storeVars, logVars>>,
         ~At(c, "idle"), pc \notin {"insert", "failed", "outcome"},
         pc \in Executing => call[c].pc \in Executing,
         pc \in Checking => call[c].pc \in Checking,
         pc = "state" => call[c].pc = "state",
         pc \in {"stamp", "submit"} =>
           /\ call[c].expected <= Len(log)
           /\ call[c].expected = Len(log) /\ call[c].approval \notin behind
                => Pinned(row[call[c].approval].seen) = Pinned(CaughtUp),
         pc = "effect" => pending = <<>>,
         pc = "interrupted" => call[c].approval \notin Logged \/ Overtaken(call[c].approval)
  PROVE  IInv'
<1> DEFINE k == [call[c] EXCEPT !.pc = pc]
<1>1. call[c] \in Call
  BY DEF IInv, TypeOK
<1>2. k \in Call /\ k.pc = pc /\ k.approval = call[c].approval /\ k.expected = call[c].expected
      /\ call' = [call EXCEPT ![c] = k]
  BY <1>1 DEF Call, Goto
<1>3. Executes(call[c]) /\ Compared(call[c]) /\ Knows(call[c])
  BY DEF IInv, CallInv
<1>4. Executes(k)
  BY <1>2, <1>3 DEF Executes
<1>5. Compared(k)
  BY <1>2, <1>3 DEF Compared, ComparedUnless
<1>6. Knows(k)
  BY <1>2, <1>3 DEF Knows, At, Holding
<1> QED BY <1>2, <1>4, <1>5, <1>6, CallerSteps DEF Holding, storeVars, IInv, TypeOK

LEMMA ContinueSteps ==
  ASSUME IInv, NEW c \in Caller, NEW pc \in {"failed", "outcome"}, NEW result \in Outcome,
         Continue(c, pc, result), UNCHANGED <<storeVars, logVars>>,
         call[c].pc \in Holding,
         pc = "failed" => call[c].approval \notin Logged \/ call[c].approval \in doubted,
         pc = "outcome" => OutcomeTrue(call[c].approval, result)
  PROVE  IInv'
<1> DEFINE k == [Idle EXCEPT !.pc = pc, !.approval = call[c].approval, !.result = result]
<1>1. call[c] \in Call
  BY DEF IInv, TypeOK
<1>2. k \in Call /\ k.pc = pc /\ k.approval = call[c].approval /\ k.result = result
      /\ call' = [call EXCEPT ![c] = k]
  BY <1>1 DEF Call, Continue, Idle, PC
<1>3. Knows(call[c])
  BY DEF IInv, CallInv
<1>4. Executes(k) /\ Compared(k) /\ Knows(k)
  BY <1>2, <1>3 DEF Executes, Compared, ComparedUnless, Knows, Executing, Checking, Holding
<1> QED BY <1>2, <1>4, CallerSteps DEF Executing, storeVars, IInv, TypeOK

LEMMA OpenSteps ==
  ASSUME IInv, NEW c \in Caller, NEW a \in Approval, NEW x \in Credential \cup {NoCredential},
         NEW pc \in {"insert", "credential", "caught up"}, Open(c, a, x, pc),
         pc = "insert" => x \in Credential, pc = "caught up" => Orphan(a)
  PROVE  IInv'
<1> DEFINE k == [Idle EXCEPT !.pc = pc, !.approval = a, !.credential = x]
<1>1. /\ k \in Call /\ k.pc = pc /\ k.approval = a /\ k.credential = x
      /\ call' = [call EXCEPT ![c] = k] /\ UNCHANGED <<storeVars, logVars>>
  BY DEF Call, Open, Idle, PC, Outcome
<1>2. Executes(k) /\ Compared(k) /\ Knows(k)
  BY <1>1 DEF Executes, Compared, ComparedUnless, Knows, Executing, Checking, Holding, Orphan
<1> QED BY <1>1, <1>2, CallerSteps DEF Executing, Holding, Checking, Orphan, storeVars, IInv, TypeOK

(***************************************************************************)
(* The ceremony and the executor up to the submission.                     *)
(***************************************************************************)
LEMMA EndUnchanged ==
  ASSUME IInv, NEW c \in Caller, End(c), UNCHANGED <<storeVars, logVars>>
  PROVE  IInv'
BY EndSteps DEF IInv, TypeOK, storeVars

LEMMA CeremonySteps ==
  ASSUME IInv, NEW c \in Caller,
         EnrollVerify(c) \/ SignVerify(c) \/ ResolveCredential(c) \/ UpdateSignCount(c) \/ StoreError(c)
  PROVE  IInv'
<1>1. CASE EnrollVerify(c)
  BY <1>1, OpenSteps DEF EnrollVerify
<1>2. CASE SignVerify(c)
  BY <1>2, OpenSteps DEF SignVerify
<1>3. CASE ResolveCredential(c)
  <2>1. {"mark", "mark other"} \subseteq PC \ (Executing \cup Checking)
    BY DEF PC, Executing, Checking
  <2> QED BY <1>3, <2>1, EndUnchanged, GotoSteps DEF ResolveCredential, At
<1>4. CASE UpdateSignCount(c)
  BY <1>4, GotoSteps DEF UpdateSignCount, At, PC, Executing, Checking
<1>5. CASE StoreError(c)
  BY <1>5, EndUnchanged DEF StoreError
<1> QED BY <1>1, <1>2, <1>3, <1>4, <1>5

LEMMA RefusalIsTrue ==
  ASSUME IInv, NEW c \in Caller, call[c].pc \in Executing \cup {"failed"}
  PROVE  /\ call[c].pc \in Holding
         /\ call[c].approval \notin Logged \/ call[c].approval \in doubted
         /\ OutcomeTrue(call[c].approval, "error")
BY DEF IInv, CallInv, Executes, Knows, Holding, OutcomeTrue

\* The guard compares the state; an approval whose guard reads a graph behind its log is excepted.
LEMMA GuardStep ==
  ASSUME IInv, NEW c \in Caller, GuardHolds(c)
  PROVE  IInv'
<1> DEFINE a == call[c].approval
           holds == Pinned(graph) = Pinned(row[a].seen)
           pc == IF holds THEN "stamp" ELSE "failed"
<1>1. /\ call[c] \in Call /\ call[c].pc = "state" /\ a \in Approval /\ behind \subseteq Approval
      /\ Executes(call[c]) /\ Compared(call[c]) /\ Knows(call[c])
  BY DEF GuardHolds, At, IInv, TypeOK, CallInv, Knows
<1>2. /\ behind' = IF pending = <<>> THEN behind ELSE behind \cup {a}
      /\ UNCHANGED <<row, creds, locked, revoking, doomed, late, consumed, graph, pending, log, doubted>>
  BY DEF GuardHolds, storeVars
<1>3. behind \subseteq behind' /\ behind' \subseteq Approval /\ creds' \subseteq Credential
  BY <1>1, <1>2 DEF IInv, TypeOK
<1>4. pending # <<>> => a \in behind'
  BY <1>2
<1>5. CASE holds
  <2> DEFINE k == [call[c] EXCEPT !.pc = "stamp"]
  <2>1. /\ k \in Call /\ k.pc = "stamp" /\ k.approval = a /\ k.expected = call[c].expected
        /\ call' = [call EXCEPT ![c] = k]
    BY <1>1, <1>5 DEF GuardHolds, RowOf, Goto, Call, PC
  <2>2. Executes(k) /\ Knows(k)
    BY <1>1, <2>1 DEF Executes, Knows, Executing, Checking, Holding
  <2>3. ComparedUnless(k, behind')
    BY <1>1, <1>4, <1>5, <2>1 DEF Compared, ComparedUnless, CaughtUp
  <2> HIDE DEF k
  <2> QED BY <1>1, <1>2, <1>3, <2>1, <2>2, <2>3, CallerMoves DEF Executing, Holding
<1>6. CASE ~holds
  <2> DEFINE k == [Idle EXCEPT !.pc = "failed", !.approval = a, !.result = "none"]
  <2>1. k \in Call /\ k.pc = "failed" /\ k.approval = a /\ call' = [call EXCEPT ![c] = k]
    BY <1>1, <1>6 DEF GuardHolds, RowOf, Continue, Idle, Call, PC, Outcome
  <2>2. Executes(k) /\ Knows(k) /\ ComparedUnless(k, behind')
    BY <1>1, <2>1 DEF Executes, Knows, ComparedUnless, Executing, Checking, Holding
  <2> HIDE DEF k
  <2> QED BY <1>1, <1>2, <1>3, <2>1, <2>2, CallerMoves DEF Executing, Holding
<1> QED BY <1>5, <1>6

LEMMA ExecutorSteps ==
  ASSUME IInv, NEW c \in Caller,
         \/ ActorIsStillAuthorised(c) \/ Replan(c) \/ RecordApplied(c) \/ RequireCaughtUp(c)
         \/ ReadLogPosition(c) \/ GuardHolds(c) \/ RecordFailed(c) \/ GraphError(c)
  PROVE  IInv'
<1> USE DEF At, Answer
<1>1. "error" \in Outcome /\ "none" \in Outcome
  BY DEF Outcome
<1>2. Compared(call[c]) /\ call[c] \in Call
  BY DEF IInv, CallInv, TypeOK
<1>3. CASE ActorIsStillAuthorised(c)
  BY <1>1, <1>3, RefusalIsTrue, GotoSteps, ContinueSteps DEF ActorIsStillAuthorised, PC, Executing, Checking
<1>4. CASE Replan(c)
  BY <1>1, <1>4, RefusalIsTrue, GotoSteps, ContinueSteps DEF Replan, PC, Executing, Checking
<1>5. CASE RecordApplied(c)
  BY <1>1, <1>5, RefusalIsTrue, GotoSteps, ContinueSteps DEF RecordApplied, PC, Executing, Checking
<1>6. CASE RequireCaughtUp(c)
  <2>1. CASE pending # <<>>
    BY <1>1, <1>6, <2>1, RefusalIsTrue, ContinueSteps DEF RequireCaughtUp, Executing
  <2>2. CASE pending = <<>> /\ At(c, "guard")
    BY <1>6, <2>2, GotoSteps DEF RequireCaughtUp, PC, Executing, Checking
  <2>3. CASE pending = <<>> /\ At(c, "stamp")
    BY <1>2, <1>6, <2>3, GotoSteps DEF RequireCaughtUp, PC, Executing, Checking, Compared, ComparedUnless
  <2> QED BY <1>6, <2>1, <2>2, <2>3 DEF RequireCaughtUp
<1>7. CASE ReadLogPosition(c)
  <2> DEFINE k == [call[c] EXCEPT !.pc = "state", !.expected = Len(log)]
  <2>1. Len(log) \in Nat
    BY DEF IInv, TypeOK
  <2>2. /\ k \in Call /\ k.pc = "state" /\ k.expected = Len(log) /\ k.approval = call[c].approval
        /\ call' = [call EXCEPT ![c] = k] /\ UNCHANGED <<storeVars, logVars>>
    BY <1>2, <1>7, <2>1 DEF ReadLogPosition, Call, PC
  <2>3. Executes(call[c]) /\ Knows(call[c]) /\ call[c].pc = "position"
    BY <1>7 DEF ReadLogPosition, IInv, CallInv
  <2>4. Executes(k) /\ Compared(k) /\ Knows(k)
    BY <2>1, <2>2, <2>3 DEF Executes, Compared, ComparedUnless, Knows, Executing, Holding, Checking
  <2> QED BY <2>2, <2>3, <2>4, CallerSteps DEF Executing, Holding, storeVars, IInv, TypeOK
<1>8. CASE GuardHolds(c)
  BY <1>8, GuardStep
<1>9. CASE RecordFailed(c)
  BY <1>1, <1>9, RefusalIsTrue, ContinueSteps DEF RecordFailed
<1>10. CASE GraphError(c)
  BY <1>1, <1>10, RefusalIsTrue, ContinueSteps DEF GraphError, Executing
<1> QED BY <1>3, <1>4, <1>5, <1>6, <1>7, <1>8, <1>9, <1>10

(***************************************************************************)
(* The judgement of an orphan.  It holds what a caught-up graph shows: its *)
(* group is applied, or another one came after it, or it is not logged.    *)
(***************************************************************************)
LEMMA EffectShows ==
  ASSUME IInv, NEW a \in Approval,
         LoggedLast(a) => pending = <<>>, ~EffectPresent(a)
  PROVE  a \notin Logged \/ Overtaken(a)
<1> SUFFICES ASSUME a \in Logged, ~Overtaken(a)  PROVE FALSE
  OBVIOUS
<1> USE DEF IInv, TypeOK
<1>1. PICK i \in DOMAIN log : log[i].by = a
  BY DEF Logged
<1>2. Len(log) \in Nat /\ i \in 1..Len(log) /\ DOMAIN log = 1..Len(log) /\ log # <<>>
  BY <1>1
<1>3. i = Len(log)
  <2>1. \A j \in DOMAIN log : ~(i < j)
    BY <1>1 DEF Overtaken
  <2>2. Len(log) \in 1..Len(log)
    BY ONLY <1>2
  <2>3. ~(i < Len(log))
    BY ONLY <1>2, <2>1, <2>2
  <2> QED BY ONLY <1>2, <2>3
<1>4. LoggedLast(a) /\ pending = <<>> /\ graph = Last.set
  BY <1>1, <1>2, <1>3 DEF LoggedLast, Last, GraphInv, CaughtUp
<1>5. graph.merged = IF a \in Merging THEN a ELSE NoApproval
  BY <1>1, <1>2, <1>3, <1>4 DEF Last, GraphInv
<1> QED BY <1>5, ApprovalsAssumption DEF EffectPresent

LEMMA EffectIsLogged ==
  ASSUME IInv, NEW a \in Approval, row[a].status = "signed", EffectPresent(a)
  PROVE  OutcomeTrue(a, "reconciled")
BY DEF IInv, GraphInv, EffectPresent, OutcomeTrue, EffectLogged, Unmerged

LEMMA CheckSteps ==
  ASSUME IInv, NEW c \in Caller, Check(c)
  PROVE  IInv'
<1> USE DEF At, Answer
<1>1. {"error", "none", "reconciled", "interrupted"} \subseteq Outcome
  BY DEF Outcome
<1>2. Knows(call[c])
  BY DEF IInv, CallInv
<1>3. CASE CheckCleanupApproval(c)
  BY <1>3, OpenSteps DEF CheckCleanupApproval
<1>4. CASE GraphHasCaughtUp(c)
  BY <1>4, EndUnchanged, GotoSteps DEF GraphHasCaughtUp, PC, Executing, Checking
<1>5. CASE ReconcileOrphan(c)
  <2> DEFINE a == call[c].approval
  <2>1. a \in Approval /\ row[a].status = "signed" /\ (LoggedLast(a) => pending = <<>>)
    BY <1>2, <1>5 DEF Knows, ReconcileOrphan, Holding, Checking
  <2>2. CASE EffectPresent(a)
    BY <1>1, <1>5, <2>1, <2>2, EffectIsLogged, ContinueSteps DEF ReconcileOrphan, Holding, Checking
  <2>3. CASE ~EffectPresent(a)
    BY <1>5, <2>1, <2>3, EffectShows, GotoSteps DEF ReconcileOrphan, PC, Executing, Checking
  <2> QED BY <2>2, <2>3
<1>6. CASE RecordInterrupted(c)
  <2>1. OutcomeTrue(call[c].approval, "interrupted")
    BY <1>2, <1>6 DEF Knows, RecordInterrupted, OutcomeTrue
  <2> QED BY <1>1, <1>6, <2>1, EndUnchanged, ContinueSteps DEF RecordInterrupted, Holding, Checking
<1>7. CASE CheckError(c)
  BY <1>7, EndUnchanged DEF CheckError
<1> QED BY <1>3, <1>4, <1>5, <1>6, <1>7 DEF Check

-----------------------------------------------------------------------------
(***************************************************************************)
(* Steps on the rows.  What the log and the graph say stands.              *)
(***************************************************************************)
LEMMA LogUnchanged ==
  ASSUME UNCHANGED logVars, NEW a, NEW outcome
  PROVE  /\ Logged' = Logged /\ OutcomeTrue(a, outcome)' = OutcomeTrue(a, outcome)
         /\ LoggedLast(a)' = LoggedLast(a) /\ Overtaken(a)' = Overtaken(a)
         /\ CaughtUp' = CaughtUp
BY DEF logVars, OutcomeTrue, Logged, Overtaken, EffectLogged, LoggedLast, Last, CaughtUp

\* Rows of approvals that nobody holds may be created, expire or be put past their grace.
LEMMA RowSteps ==
  ASSUME IInv, NEW a \in Approval, NEW new \in Row, row' = [row EXCEPT ![a] = new],
         UNCHANGED <<creds, call, locked, revoking, doomed, consumed, logVars>>, late' \subseteq Approval,
         new.status = row[a].status \/ (row[a].status = "none" /\ new.status = "pending"),
         new.outcome = row[a].outcome,
         row[a].status # "none" => new.seen = row[a].seen,
         row[a].settled => new.settled,
         new.settled => new.expired /\ new.status = "signed",
         new.settled # row[a].settled => \A c \in Caller : call[c].approval # a,
         row[a].status = "none" =>
           /\ a \in Merging \/ graph.merged # NoApproval
  PROVE  IInv'
<1> USE DEF IInv
<1>1. row' \in [Approval -> Row] /\ row'[a] = new /\ \A b \in Approval \ {a} : row'[b] = row[b]
  BY DEF TypeOK
<1>2. TypeOK'
  BY <1>1 DEF TypeOK, logVars, RowInv
<1>3. RowInv'
  BY <1>1, LogUnchanged DEF RowInv
<1>4. GraphInv'
  <2>1. a \in Merging \/ row[a].status # "none" \/ (graph.merged = NoApproval => Unmerged)
    OBVIOUS
  <2>2. a \in Merging \/ row[a].status # "none" \/ (CaughtUp.merged = NoApproval => Unmerged)
    <3>1. CASE pending = <<>>
      BY <3>1 DEF CaughtUp
    <3>2. CASE pending # <<>>
      <4>1. Len(log) \in DOMAIN log /\ CaughtUp = log[Len(log)].set
        BY <3>2 DEF GraphInv, Last, TypeOK
      <4> QED BY <4>1 DEF Unmerged
    <3> QED BY <3>1, <3>2
  <2>3. \A b \in Approval : row'[b].status # "none" => row[b].status # "none" \/ b = a
    BY <1>1
  <2>4. UNCHANGED <<log, pending, graph, behind, Logged, CaughtUp, Last, Unmerged>>
    BY DEF logVars, Logged, CaughtUp, Last, Unmerged
  <2>5. \A b \in Approval \ Merging :
          row'[b].status # "none" => /\ graph.merged = NoApproval => Unmerged
                                     /\ CaughtUp.merged = NoApproval => Unmerged
    BY <2>1, <2>2, <2>3 DEF GraphInv
  <2> QED BY <2>4, <2>5 DEF GraphInv
<1>5. CallInv'
  <2> SUFFICES ASSUME NEW c \in Caller
               PROVE  Executes(call[c])' /\ Sole(c)' /\ Compared(call[c])' /\ Knows(call[c])'
    BY DEF CallInv
  <2> DEFINE b == call[c].approval
  <2>1. Executes(call[c]) /\ Sole(c) /\ Compared(call[c]) /\ Knows(call[c]) /\ UNCHANGED call
    BY DEF CallInv
  <2>2. CASE call[c].pc \in Holding
    <3>1. /\ b \in Approval /\ row[b].status = "signed" /\ row'[b].status = "signed"
          /\ row'[b].seen = row[b].seen /\ row'[b].outcome = row[b].outcome /\ row'[b].settled = row[b].settled
      BY <1>1, <2>1, <2>2 DEF Knows, Holding, Executing, Checking
    <3>2. Executes(call[c])'
      BY <2>1, <3>1, LogUnchanged DEF Executes
    <3>3. Sole(c)'
      BY <2>1 DEF Sole
    <3>4. Compared(call[c])'
      BY <2>1, <3>1, LogUnchanged DEF Compared, ComparedUnless, logVars
    <3>5. Knows(call[c])'
      BY <2>1, <3>1, LogUnchanged DEF Knows, logVars
    <3> QED BY <3>2, <3>3, <3>4, <3>5
  <2>3. CASE call[c].pc \notin Holding
    BY <2>1, <2>3 DEF Executes, Sole, Compared, ComparedUnless, Knows, Executing, Checking, Holding
  <2> QED BY <2>2, <2>3
<1> QED BY <1>2, <1>3, <1>4, <1>5

LEMMA ToolSteps ==
  ASSUME IInv, NEW a \in Approval, Create(a) \/ Expire(a) \/ PassGrace(a)
  PROVE  IInv'
<1>1. row[a] \in Row /\ graph \in Graph /\ (row[a].settled => row[a].expired)
  BY DEF IInv, TypeOK
<1>a. late' \subseteq Approval
  BY DEF IInv, TypeOK, Create, Expire, PassGrace
<1>2. CASE Create(a)
  <2> DEFINE new == [row[a] EXCEPT !.status = "pending", !.seen = graph]
  <2>1. new \in Row /\ new.status = "pending" /\ new.outcome = row[a].outcome /\ new.settled = row[a].settled
    BY <1>1 DEF Row
  <2>2. ~row[a].settled
    BY <1>2 DEF Create, IInv, RowInv
  <2> QED BY <1>2, <1>a, <2>1, <2>2, RowSteps DEF Create
<1>3. CASE Expire(a)
  <2> DEFINE new == [row[a] EXCEPT !.expired = TRUE]
  <2>1. /\ new \in Row /\ new.status = row[a].status /\ new.outcome = row[a].outcome
        /\ new.settled = row[a].settled /\ new.seen = row[a].seen /\ new.expired
    BY <1>1 DEF Row
  <2>2. ~row[a].settled
    BY <1>3 DEF Expire, IInv, RowInv
  <2> QED BY <1>3, <1>a, <2>1, <2>2, RowSteps DEF Expire
<1>4. CASE PassGrace(a)
  <2> DEFINE new == [row[a] EXCEPT !.expired = TRUE, !.settled = TRUE]
  <2>1. /\ new \in Row /\ new.status = row[a].status /\ new.outcome = row[a].outcome
        /\ new.settled /\ new.seen = row[a].seen /\ new.expired
    BY <1>1 DEF Row
  <2>2. row' = [row EXCEPT ![a] = new]
    BY <1>1, <1>4 DEF PassGrace, IInv, TypeOK, Row
  <2>3. /\ row[a].status = "signed" /\ ~row[a].settled /\ \A c \in Caller : call[c].approval # a
        /\ UNCHANGED <<creds, call, locked, revoking, doomed, late, consumed, logVars>>
    BY <1>4 DEF PassGrace
  <2> HIDE DEF new
  <2> QED BY <1>a, <2>1, <2>2, <2>3, RowSteps
<1> QED BY <1>2, <1>3, <1>4

(***************************************************************************)
(* A step of one request on the row it holds.  It leaves the graph alone,  *)
(* and nobody else holds the approval while it is carried out.             *)
(***************************************************************************)
LEMMA OwnRowSteps ==
  ASSUME IInv, NEW c \in Caller, NEW a \in Approval, NEW k \in Call, NEW new \in Row, NEW fate,
         row' = [row EXCEPT ![a] = new], consumed' = [consumed EXCEPT ![a] = fate],
         fate \in {"signed", "refused", "void"},
         call' = [call EXCEPT ![c] = k],
         UNCHANGED <<creds, locked, revoking, doomed, logVars>>, late' \subseteq Approval,
         row[a].status # "none", a \notin locked,
         new.status = "signed", new.seen = row[a].seen, new.settled = row[a].settled, new.expired = row[a].expired,
         OutcomeTrue(a, new.outcome),
         \A d \in Caller \ {c} : call[d].approval = a => call[d].pc \notin Executing,
         k.pc # "idle" => k.approval = a,
         k.pc \in Executing => /\ \A d \in Caller \ {c} : call[d].approval = a => call[d].pc \notin Holding
                               /\ new.outcome = "none" /\ ~row[a].settled /\ fate = "signed" /\ a \notin Logged,
         k.pc \notin {"insert", "state", "stamp", "submit", "failed"} \cup Checking,
         k.pc = "outcome" => OutcomeTrue(a, k.result)
  PROVE  IInv'
<1> USE DEF IInv
<1>1. row' \in [Approval -> Row] /\ row'[a] = new /\ \A b \in Approval \ {a} : row'[b] = row[b]
  BY DEF TypeOK
<1>2. consumed'[a] = fate /\ \A b \in Approval \ {a} : consumed'[b] = consumed[b]
  BY DEF TypeOK
<1>3. call' \in [Caller -> Call] /\ call'[c] = k /\ \A d \in Caller \ {c} : call'[d] = call[d]
  BY DEF TypeOK
<1>4. TypeOK'
  <2>1. consumed' \in [Approval -> {"none", "signed", "refused", "void"}]
    BY DEF TypeOK
  <2>2. \A b \in Approval : /\ row'[b].outcome # "none" => row'[b].status = "signed"
                            /\ row'[b].settled => row'[b].expired
    BY <1>1 DEF TypeOK
  <2> QED BY <1>1, <1>3, <2>1, <2>2 DEF TypeOK, logVars
<1>5. RowInv'
  BY <1>1, <1>2, LogUnchanged DEF RowInv
<1>6. GraphInv'
  <2>1. \A b \in Approval : row'[b].status # "none" => row[b].status # "none"
    BY <1>1
  <2>2. UNCHANGED <<log, pending, graph, behind, Logged, CaughtUp, Last, Unmerged>>
    BY DEF logVars, Logged, CaughtUp, Last, Unmerged
  <2> QED BY <2>1, <2>2 DEF GraphInv
<1>7. CallInv'
  <2> SUFFICES ASSUME NEW d \in Caller
               PROVE  Executes(call[d])' /\ Sole(d)' /\ Compared(call[d])' /\ Knows(call[d])'
    BY DEF CallInv
  <2>1. Executes(call[d]) /\ Sole(d) /\ Compared(call[d]) /\ Knows(call[d])
    BY DEF CallInv
  <2>2. Executes(call[d])'
    <3>1. CASE d = c
      BY <1>1, <1>2, <1>3, <3>1, LogUnchanged DEF Executes, Executing
    <3>2. CASE d # c
      BY <1>1, <1>2, <1>3, <2>1, <3>2, LogUnchanged DEF Executes, Knows, Executing
    <3> QED BY <3>1, <3>2
  <2>3. Sole(d)'
    <3>1. CASE d = c
      BY <1>3, <3>1 DEF Sole, Executing
    <3>2. CASE d # c
      BY <1>3, <2>1, <3>2, ZenonT(40) DEF Sole, Knows, Holding, Executing, Checking
    <3> QED BY <3>1, <3>2
  <2>4. Compared(call[d])'
    <3>1. CASE d = c
      BY <1>3, <3>1 DEF Compared, ComparedUnless
    <3>2. CASE d # c
      BY <1>1, <1>3, <2>1, <3>2, LogUnchanged DEF Compared, ComparedUnless, Knows, logVars
    <3> QED BY <3>1, <3>2
  <2>5. Knows(call[d])'
    <3>1. CASE d = c
      <4>1. k.pc = "outcome" => OutcomeTrue(a, k.result)'
        BY LogUnchanged
      <4>2. k.pc \notin {"insert", "failed", "effect", "interrupted"}
        BY DEF Checking
      <4>3. k.pc \notin Checking /\ row'[a].status = "signed"
        BY <1>1
      <4>4. Knows(k)'
        BY <4>1, <4>2, <4>3 DEF Knows, Holding, Executing, Checking
      <4> QED BY <1>3, <3>1, <4>4 DEF Knows
    <3>2. CASE d # c
      BY <1>1, <1>3, <2>1, <3>2, LogUnchanged DEF Knows, logVars
    <3> QED BY <3>1, <3>2
  <2> QED BY <2>2, <2>3, <2>4, <2>5
<1> QED BY <1>4, <1>5, <1>6, <1>7

LEMMA ConsumeStep ==
  ASSUME IInv, NEW c \in Caller, Consume(c)
  PROVE  IInv'
<1> DEFINE a == call[c].approval
           new == [row[a] EXCEPT !.status = "signed"]
<1>1. a \in Approval /\ a \notin locked /\ call[c] \in Call /\ row[a] \in Row /\ late \subseteq Approval
  BY DEF Consume, At, IInv, CallInv, Knows, TypeOK
<1>2. CASE ~StillPending(c)
  <2>1. End(c) /\ UNCHANGED <<row, consumed, creds, locked, revoking, doomed, late, logVars>>
    BY <1>2 DEF Consume
  <2> QED BY <2>1, EndSteps DEF IInv, TypeOK
<1>3. CASE StillPending(c)
  <2>1. /\ row[a].status = "pending" /\ row[a].outcome = "none" /\ ~row[a].settled /\ a \notin Logged
        /\ \A d \in Caller \ {c} : call[d].approval = a => call[d].pc \notin Holding
    BY <1>1, <1>3 DEF StillPending, RowOf, IInv, RowInv, CallInv, Knows
  <2>2. /\ new \in Row /\ new.status = "signed" /\ new.outcome = "none" /\ new.settled = row[a].settled
        /\ new.seen = row[a].seen /\ new.expired = row[a].expired
    BY <1>1, <2>1 DEF Row
  <2>3. OutcomeTrue(a, "none") /\ OutcomeTrue(a, "refused")
    BY <2>1 DEF OutcomeTrue
  <2>4. CASE At(c, "mark")
    <3> DEFINE k == [Idle EXCEPT !.pc = "count", !.approval = a, !.result = "none"]
    <3>1. k \in Call /\ k.pc = "count" /\ k.approval = a /\ k.result = "none"
      BY <1>1 DEF Idle, Call, PC, Outcome
    <3>2. /\ row' = [row EXCEPT ![a] = new] /\ consumed' = [consumed EXCEPT ![a] = "signed"]
          /\ call' = [call EXCEPT ![c] = k] /\ UNCHANGED <<creds, locked, revoking, doomed, logVars>>
          /\ late' = late \ {a}
      BY <1>3, <2>4 DEF Consume, MarkSigned, Continue
    <3>3. /\ OutcomeTrue(a, new.outcome) /\ OutcomeTrue(a, k.result)
          /\ \A d \in Caller \ {c} : call[d].approval = a => call[d].pc \notin Executing
      BY <2>1, <2>2, <2>3, <3>1 DEF Holding
    <3>4. k.pc \notin {"insert", "state", "stamp", "submit", "failed"} \cup Checking
      BY <3>1 DEF Checking
    <3>5. \A d \in Caller \ {c} : call[d].approval = a => call[d].pc \notin Holding
      BY <2>1
    <3>6. row[a].status # "none" /\ new.outcome = "none" /\ ~row[a].settled /\ a \notin Logged
      BY <2>1, <2>2
    <3> QED BY <1>1, <2>2, <3>1, <3>2, <3>3, <3>4, <3>5, <3>6, OwnRowSteps
  <2>5. CASE ~At(c, "mark")
    <3> DEFINE k == [Idle EXCEPT !.pc = "outcome", !.approval = a, !.result = "refused"]
    <3>1. k \in Call /\ k.pc = "outcome" /\ k.approval = a /\ k.result = "refused"
      BY <1>1 DEF Idle, Call, PC, Outcome
    <3>2. /\ row' = [row EXCEPT ![a] = new] /\ consumed' = [consumed EXCEPT ![a] = "refused"]
          /\ call' = [call EXCEPT ![c] = k] /\ UNCHANGED <<creds, locked, revoking, doomed, logVars>>
          /\ late' = late \ {a}
      BY <1>3, <2>5 DEF Consume, MarkSigned, Answer, Continue
    <3>3. /\ OutcomeTrue(a, new.outcome) /\ OutcomeTrue(a, k.result)
          /\ \A d \in Caller \ {c} : call[d].approval = a => call[d].pc \notin Executing
      BY <2>1, <2>2, <2>3, <3>1 DEF Holding
    <3>4. k.pc \notin {"insert", "state", "stamp", "submit", "failed"} \cup Checking
      BY <3>1 DEF Checking
    <3>5. k.pc \notin Executing /\ row[a].status # "none"
      BY <2>1, <3>1 DEF Executing
    <3> QED BY <1>1, <2>2, <3>1, <3>2, <3>3, <3>4, <3>5, OwnRowSteps
  <2> QED BY <2>4, <2>5
<1> QED BY <1>2, <1>3

LEMMA OutcomeStep ==
  ASSUME IInv, NEW c \in Caller, SetOutcome(c)
  PROVE  IInv'
<1> DEFINE a == call[c].approval
           new == [row[a] EXCEPT !.outcome = call[c].result]
<1>1. /\ a \in Approval /\ call[c] \in Call /\ row[a] \in Row /\ call[c].pc = "outcome"
      /\ row[a].status = "signed" /\ OutcomeTrue(a, call[c].result) /\ consumed[a] # "none"
  BY DEF SetOutcome, At, IInv, CallInv, RowInv, Knows, TypeOK, Holding
<1>2. /\ new \in Row /\ new.status = "signed" /\ new.outcome = call[c].result /\ new.settled = row[a].settled
      /\ new.seen = row[a].seen /\ new.expired = row[a].expired
  BY <1>1 DEF Row, Call
<1>3. \A d \in Caller \ {c} : call[d].approval = a => call[d].pc \notin Executing
  BY <1>1 DEF IInv, CallInv, Sole, Holding
<1>4. Idle \in Call /\ Idle.pc = "idle"
  BY DEF Idle, Call, PC, Outcome
<1>5. /\ row' = [row EXCEPT ![a] = new] /\ consumed' = [consumed EXCEPT ![a] = consumed[a]]
      /\ call' = [call EXCEPT ![c] = Idle] /\ UNCHANGED <<creds, locked, revoking, doomed, logVars>>
      /\ late' \subseteq Approval
  BY DEF SetOutcome, End, IInv, TypeOK
<1>6. a \notin locked /\ consumed[a] \in {"signed", "refused", "void"} /\ OutcomeTrue(a, new.outcome)
  BY <1>1, <1>2 DEF IInv, RowInv, TypeOK
<1> HIDE DEF new, a
<1> QED BY <1>1, <1>2, <1>3, <1>4, <1>5, <1>6, OwnRowSteps DEF Checking, Executing

LEMMA EnrolStep ==
  ASSUME IInv, NEW c \in Caller, CreateSigningCredential(c)
  PROVE  IInv'
<1>1. call[c].credential \in Credential
  BY DEF CreateSigningCredential, At, IInv, CallInv, Knows
<1>2. creds' \subseteq Credential /\ End(c) /\ UNCHANGED <<row, locked, revoking, doomed, late, consumed, logVars>>
  BY <1>1 DEF CreateSigningCredential, IInv, TypeOK
<1> QED BY <1>2, EndSteps

(***************************************************************************)
(* The revocation, and the end of the process.                             *)
(***************************************************************************)
LEMMA LockSteps ==
  ASSUME IInv, (\E actor \in Actor : VoidPending(actor)) \/ RollBackRevocation
  PROVE  IInv'
<1> USE DEF IInv
<1>1. /\ locked' \subseteq {a \in Approval : row[a].status = "pending"} /\ revoking' \subseteq Actor
      /\ UNCHANGED <<row, creds, call, late, consumed, logVars>>
  BY DEF VoidPending, RollBackRevocation
<1>a. doomed' \subseteq Credential
  BY DEF VoidPending, RollBackRevocation, TypeOK
<1>2. TypeOK'
  BY <1>1, <1>a DEF TypeOK, logVars
<1>3. RowInv'
  BY <1>1, LogUnchanged DEF RowInv
<1>4. GraphInv'
  BY <1>1 DEF GraphInv, Unmerged, CaughtUp, Last, Logged, logVars
<1>5. CallInv'
  BY <1>1, LogUnchanged DEF CallInv, Executes, Sole, Compared, ComparedUnless, Knows, logVars
<1> QED BY <1>2, <1>3, <1>4, <1>5

LEMMA RevocationStep ==
  ASSUME IInv, CommitRevocation
  PROVE  IInv'
<1> USE DEF IInv
<1>1. /\ locked' = {} /\ revoking' = {} /\ doomed' = {} /\ late' = late \ locked /\ creds' \subseteq creds /\ UNCHANGED <<call, logVars>>
      /\ row' = [a \in Approval |-> IF a \in locked THEN Voided(a) ELSE row[a]]
      /\ consumed' = [a \in Approval |-> IF a \in locked THEN "void" ELSE consumed[a]]
  BY DEF CommitRevocation
<1>2. \A a \in Approval :
        /\ a \in locked => /\ row[a].status = "pending" /\ a \notin Logged /\ ~row[a].settled
                           /\ row'[a].status = "signed" /\ row'[a].outcome = "void"
                           /\ row'[a].settled = row[a].settled /\ row'[a].seen = row[a].seen
                           /\ row'[a] \in Row /\ row'[a].expired = row[a].expired
        /\ a \notin locked => row'[a] = row[a] /\ consumed'[a] = consumed[a] /\ row'[a] \in Row
  BY <1>1, ZenonT(40) DEF RowInv, TypeOK, Voided, Row, Outcome
<1>3. TypeOK'
  BY <1>1, <1>2 DEF TypeOK, logVars
<1>4. RowInv'
  <2> SUFFICES ASSUME NEW a \in Approval
               PROVE  /\ OutcomeTrue(a, row[a].outcome)'
                      /\ row'[a].status = "signed" => consumed'[a] # "none"
                      /\ row'[a].status # "signed" => row'[a].outcome = "none"
                      /\ a \in Logged' \/ row'[a].settled => row'[a].status = "signed"
    BY <1>1 DEF RowInv
  <2>1. CASE a \in locked
    <3>1. OutcomeTrue(a, "void")'
      BY <1>1, <1>2, <2>1, LogUnchanged DEF OutcomeTrue
    <3> QED BY <1>1, <1>2, <2>1, <3>1, LogUnchanged
  <2>2. CASE a \notin locked
    BY <1>1, <1>2, <2>2, LogUnchanged DEF RowInv
  <2> QED BY <2>1, <2>2
<1>5. GraphInv'
  BY <1>1, <1>2 DEF GraphInv, Unmerged, CaughtUp, Last, Logged, logVars
<1>6. CallInv'
  <2> SUFFICES ASSUME NEW c \in Caller
               PROVE  Executes(call[c])' /\ Sole(c)' /\ Compared(call[c])' /\ Knows(call[c])'
    BY DEF CallInv
  <2>1. Executes(call[c]) /\ Sole(c) /\ Compared(call[c]) /\ Knows(call[c]) /\ UNCHANGED call
    BY <1>1 DEF CallInv
  <2>2. CASE call[c].pc \in Holding
    <3>1. call[c].approval \notin locked /\ call[c].approval \in Approval
      BY <1>2, <2>1, <2>2 DEF Knows, Holding, Executing, Checking
    <3> QED BY <1>1, <1>2, <2>1, <3>1, LogUnchanged DEF Executes, Sole, Compared, ComparedUnless, Knows, logVars
  <2>3. CASE call[c].pc \notin Holding
    BY <2>1, <2>3 DEF Executes, Sole, Compared, ComparedUnless, Knows, Executing, Checking, Holding
  <2> QED BY <2>2, <2>3
<1> QED BY <1>3, <1>4, <1>5, <1>6

LEMMA CrashStep ==
  ASSUME IInv, Crash
  PROVE  IInv'
<1> USE DEF IInv
<1>1. call' = [c \in Caller |-> Idle] /\ UNCHANGED <<row, creds, locked, revoking, doomed, late, consumed, logVars>>
  BY DEF Crash, storeVars
<1>2. TypeOK'
  BY <1>1 DEF TypeOK, logVars, Idle, Call, PC, Outcome
<1>3. RowInv'
  BY <1>1, LogUnchanged DEF RowInv
<1>4. GraphInv'
  BY <1>1 DEF GraphInv, Unmerged, CaughtUp, Last, Logged, logVars
<1>5. CallInv'
  BY <1>1 DEF CallInv, Executes, Sole, Compared, ComparedUnless, Knows, Idle, Executing, Checking, Holding
<1> QED BY <1>2, <1>3, <1>4, <1>5

LEMMA StutterStep ==
  ASSUME IInv, UNCHANGED vars
  PROVE  IInv'
<1> USE DEF IInv, vars
<1>1. UNCHANGED logVars
  BY DEF logVars
<1>2. TypeOK'
  BY DEF TypeOK
<1>3. RowInv'
  BY <1>1, LogUnchanged DEF RowInv
<1>4. GraphInv'
  BY DEF GraphInv, Unmerged, CaughtUp, Last, Logged
<1>5. CallInv'
  BY <1>1, LogUnchanged DEF CallInv, Executes, Sole, Compared, ComparedUnless, Knows
<1> QED BY <1>2, <1>3, <1>4, <1>5

-----------------------------------------------------------------------------
(***************************************************************************)
(* Steps of the log.  Applying what is pending changes what is read from   *)
(* the graph only where a group was left pending.                          *)
(***************************************************************************)
LEMMA CaughtUpType ==
  ASSUME IInv  PROVE CaughtUp \in Graph
BY DEF IInv, TypeOK, CaughtUp, Group

LEMMA Applied ==
  ASSUME IInv, graph' = CaughtUp, pending' = <<>>, UNCHANGED <<log, doubted, behind, storeVars>>
  PROVE  /\ RowInv' /\ GraphInv'
         /\ \A k \in Call : /\ Executes(k) => Executes(k)'
                            /\ Compared(k) => Compared(k)'
                            /\ Knows(k) => Knows(k)'
<1> USE DEF IInv
<1>1. UNCHANGED <<row, creds, locked, revoking, doomed, late, consumed>>
  BY DEF storeVars
<1>2. /\ Logged' = Logged /\ \A a : LoggedLast(a)' = LoggedLast(a) /\ Overtaken(a)' = Overtaken(a)
      /\ \A a, o : OutcomeTrue(a, o)' = OutcomeTrue(a, o)
  BY DEF OutcomeTrue, Logged, Overtaken, EffectLogged, LoggedLast, Last
<1>3. RowInv'
  BY <1>1, <1>2 DEF RowInv
<1>4. GraphInv'
  BY <1>1, <1>2 DEF GraphInv, Unmerged, CaughtUp, Last
<1>5. CaughtUp' = CaughtUp
  BY DEF CaughtUp
<1> QED BY <1>1, <1>2, <1>3, <1>4, <1>5 DEF Executes, Compared, ComparedUnless, Knows

LEMMA Appended ==
  ASSUME IInv, NEW w \in Group, log' = Append(log, w)
  PROVE  /\ log' \in Seq(Group) /\ log' # <<>> /\ Len(log) \in Nat /\ Len(log') = Len(log) + 1
         /\ DOMAIN log = 1..Len(log) /\ DOMAIN log' = 1..(Len(log) + 1)
         /\ log'[Len(log) + 1] = w /\ Last' = w
         /\ \A i \in DOMAIN log : log'[i] = log[i]
         /\ Logged' = Logged \cup ({w.by} \cap Approval)
<1>1. log \in Seq(Group)
  BY DEF IInv, TypeOK
<1>2. /\ log' \in Seq(Group) /\ log' # <<>> /\ Len(log) \in Nat /\ Len(log') = Len(log) + 1
      /\ DOMAIN log = 1..Len(log) /\ DOMAIN log' = 1..(Len(log) + 1)
      /\ log'[Len(log) + 1] = w
      /\ \A i \in DOMAIN log : log'[i] = log[i]
  BY <1>1
<1>3. Last' = w
  BY <1>2 DEF Last
<1>4. Logged' = Logged \cup ({w.by} \cap Approval)
  BY <1>2 DEF Logged
<1> QED BY <1>2, <1>3, <1>4

\* What is known of an approval stands when the group of another one is logged.
LEMMA OthersKnown ==
  ASSUME IInv, NEW w \in Group, log' = Append(log, w), NEW a \in Approval, a # w.by,
         doubted \subseteq doubted'
  PROVE  /\ (a \in Logged') = (a \in Logged) /\ ~LoggedLast(a)'
         /\ a \in Logged => Overtaken(a)'
         /\ \A o : OutcomeTrue(a, o) => OutcomeTrue(a, o)'
<1>1. (a \in Logged') = (a \in Logged) /\ ~LoggedLast(a)'
  BY Appended DEF LoggedLast
<1>2. a \in Logged => Overtaken(a)'
  <2> SUFFICES ASSUME a \in Logged  PROVE Overtaken(a)'
    OBVIOUS
  <2>1. PICK i \in DOMAIN log : log[i].by = a
    BY DEF Logged
  <2>2. i \in DOMAIN log' /\ Len(log) + 1 \in DOMAIN log' /\ i < Len(log) + 1 /\ log'[i].by = a
    BY <2>1, Appended
  <2> QED BY <2>2 DEF Overtaken
<1>3. EffectLogged(a) => EffectLogged(a)'
  <2>1. Logged \subseteq Logged'
    BY Appended
  <2>2. {log[i].set.merged : i \in DOMAIN log} \subseteq {log'[i].set.merged : i \in DOMAIN log'}
    BY Appended
  <2> QED BY <2>1, <2>2 DEF EffectLogged
<1>4. Overtaken(a) => a \in Logged
  BY DEF Overtaken, Logged
<1> QED BY <1>1, <1>2, <1>3, <1>4 DEF OutcomeTrue

LEMMA GraphAfterAppend ==
  ASSUME IInv, NEW w \in Group, log' = Append(log, w), UNCHANGED row,
         \/ graph' = w.set /\ pending' = <<>>
         \/ graph' = CaughtUp /\ pending' = <<w>>,
         w.by \in Approval => w.set.merged = IF w.by \in Merging THEN w.by ELSE NoApproval,
         w.set.merged # NoApproval => w.set.merged \in (Logged \cup {w.by}) \cap Merging
  PROVE  GraphInv'
<1> USE DEF IInv
<1>1. Logged \subseteq Logged' /\ (Logged \cup {w.by}) \cap Merging \subseteq Logged' \cap Merging
  BY Appended, ApprovalsAssumption
<1>2. CaughtUp' = w.set
  <2>1. CaughtUp' = IF pending' = <<>> THEN graph' ELSE pending'[1].set
    BY DEF CaughtUp
  <2>2. <<w>> # <<>> /\ <<w>>[1] = w
    OBVIOUS
  <2> QED BY <2>1, <2>2
<1>3. Unmerged => Unmerged'
  BY Appended DEF Unmerged
<1>4. w.set.merged = NoApproval => Unmerged'
  <2>1. Len(log) + 1 \in DOMAIN log' /\ log'[Len(log) + 1] = w
    BY Appended
  <2> QED BY <2>1 DEF Unmerged
<1>5. \A i \in DOMAIN log' : log'[i].by \in Approval =>
        log'[i].set.merged = IF log'[i].by \in Merging THEN log'[i].by ELSE NoApproval
  <2> SUFFICES ASSUME NEW i \in DOMAIN log', log'[i].by \in Approval
               PROVE  log'[i].set.merged = IF log'[i].by \in Merging THEN log'[i].by ELSE NoApproval
    OBVIOUS
  <2>1. (i \in DOMAIN log /\ log'[i] = log[i]) \/ log'[i] = w
    BY Appended
  <2> QED BY <2>1 DEF GraphInv
<1>6. graph'.merged # NoApproval => graph'.merged \in Logged' \cap Merging
  BY <1>1 DEF GraphInv
<1>7. \A a \in Approval \ Merging : row[a].status # "none" /\ graph'.merged = NoApproval => Unmerged'
  BY <1>3, <1>4 DEF GraphInv
<1> QED BY <1>1, <1>2, <1>4, <1>5, <1>6, <1>7, Appended DEF GraphInv

\* A group of somebody else, or of one request that leaves its approval to be reported.
LEMMA RowsAfterAppend ==
  ASSUME IInv, NEW w \in Group, log' = Append(log, w), UNCHANGED storeVars, doubted \subseteq doubted',
         w.by \in Approval => row[w.by].status = "signed" /\ row[w.by].outcome = "none"
  PROVE  RowInv'
<1> SUFFICES ASSUME NEW a \in Approval
             PROVE  /\ OutcomeTrue(a, row[a].outcome)'
                    /\ row'[a].status = "signed" => consumed'[a] # "none"
                    /\ row'[a].status # "signed" => row'[a].outcome = "none"
                    /\ a \in Logged' \/ row'[a].settled => row'[a].status = "signed"
                    /\ a \in locked' => row'[a].status = "pending"
  BY DEF RowInv
<1>1. UNCHANGED <<row, consumed, locked>>
  BY DEF storeVars
<1>2. CASE a # w.by
  <2>1. OutcomeTrue(a, row[a].outcome) /\ (a \in Logged') = (a \in Logged)
    BY <1>2, OthersKnown DEF IInv, RowInv
  <2>2. OutcomeTrue(a, row[a].outcome)'
    <3>1. \A x : OutcomeTrue(a, x) => OutcomeTrue(a, x)'
      BY <1>2, OthersKnown
    <3> QED BY <1>1, <2>1, <3>1
  <2> QED BY <1>1, <2>1, <2>2 DEF IInv, RowInv
<1>3. CASE a = w.by
  BY <1>1, <1>3 DEF IInv, RowInv, OutcomeTrue
<1> QED BY <1>2, <1>3

LEMMA CallsAfterAppend ==
  ASSUME IInv, NEW w \in Group, log' = Append(log, w), UNCHANGED storeVars, doubted \subseteq doubted',
         UNCHANGED behind, NEW d \in Caller,
         call[d].approval = w.by => call[d].pc \notin Holding,
         NEW k \in Call, k = call[d]
  PROVE  Executes(k)' /\ Compared(k)' /\ Knows(k)'
<1>1. Executes(k) /\ Compared(k) /\ Knows(k) /\ UNCHANGED <<row, consumed>>
  BY DEF IInv, CallInv, storeVars
<1>2. Compared(k)'
  <2>1. k.pc \in {"state", "stamp", "submit"} => k.expected <= Len(log) /\ k.expected \in Nat
    BY <1>1 DEF Compared, ComparedUnless, Call
  <2> QED BY <2>1, Appended DEF Compared, ComparedUnless
<1>3. CASE k.pc \in Holding
  <2>1. k.approval \in Approval /\ k.approval # w.by
    BY <1>1, <1>3 DEF Knows, Holding, Executing, Checking
  <2>2. Executes(k)'
    BY <1>1, <2>1, OthersKnown DEF Executes
  <2>3. Knows(k)'
    BY <1>1, <2>1, OthersKnown DEF Knows
  <2> QED BY <1>2, <2>2, <2>3
<1>4. CASE k.pc \notin Holding
  BY <1>1, <1>2, <1>4 DEF Executes, Knows, Holding, Executing, Checking
<1> QED BY <1>3, <1>4

LEMMA EditStep ==
  ASSUME IInv, EditNodes
  PROVE  IInv'
<1>1. PICK g \in {[CaughtUp EXCEPT !.counts = ~@], [CaughtUp EXCEPT !.rest = ~@]} :
        /\ log' = Append(log, [by |-> NoApproval, set |-> g])
        /\ \/ graph' = g /\ pending' = <<>>
           \/ graph' = CaughtUp /\ pending' = <<[by |-> NoApproval, set |-> g]>>
  BY DEF EditNodes
<1> DEFINE w == [by |-> NoApproval, set |-> g]
<1>2. g \in Graph /\ g.merged = CaughtUp.merged
  BY CaughtUpType DEF Graph
<1>3. w \in Group /\ w.by = NoApproval /\ w.set = g /\ w.by \notin Approval
  BY <1>2, ApprovalsAssumption DEF Group
<1>4. log' = Append(log, w) /\ UNCHANGED <<storeVars, call, doubted, behind>>
  BY <1>1 DEF EditNodes
<1>5. \/ graph' = w.set /\ pending' = <<>>
      \/ graph' = CaughtUp /\ pending' = <<w>>
  BY <1>1, <1>3
<1> HIDE DEF w
<1>6. UNCHANGED <<row, creds, locked, revoking, doomed, late, consumed>>
  BY <1>4 DEF storeVars
<1>7. w.set.merged # NoApproval => w.set.merged \in (Logged \cup {w.by}) \cap Merging
  BY <1>2, <1>3 DEF IInv, GraphInv
<1>8. GraphInv'
  BY <1>3, <1>4, <1>5, <1>6, <1>7, GraphAfterAppend
<1>9. RowInv'
  BY <1>3, <1>4, RowsAfterAppend
<1>10. TypeOK'
  <2>1. log' \in Seq(Group)
    BY <1>3, <1>4, Appended DEF IInv, TypeOK
  <2>2. graph' \in Graph /\ pending' \in {<<>>} \cup {<<v>> : v \in Group}
    BY <1>2, <1>3, <1>5, CaughtUpType DEF IInv, TypeOK
  <2> QED
    BY <1>4, <1>6, <2>1, <2>2 DEF IInv, TypeOK
<1>11. CallInv'
  <2> SUFFICES ASSUME NEW c \in Caller
               PROVE  Executes(call[c])' /\ Sole(c)' /\ Compared(call[c])' /\ Knows(call[c])'
    BY DEF CallInv
  <2> DEFINE k == call[c]
  <2>1. k \in Call /\ Knows(k) /\ Sole(c) /\ call' = call
    BY <1>4 DEF IInv, TypeOK, CallInv
  <2>2. call[c].approval = w.by => call[c].pc \notin Holding
    BY <1>3, <2>1 DEF Knows, Holding, Executing, Checking
  <2>4. \A x \in Call : x = call[c] => Executes(x)' /\ Compared(x)' /\ Knows(x)'
    BY <1>3, <1>4, <2>2, CallsAfterAppend
  <2>5. Executes(call[c])' /\ Compared(call[c])' /\ Knows(call[c])'
    BY <2>1, <2>4
  <2> QED BY <2>1, <2>5 DEF Sole
<1> QED BY <1>8, <1>9, <1>10, <1>11 DEF IInv

LEMMA ReconcileStep ==
  ASSUME IInv, Reconcile
  PROVE  IInv'
<1>1. graph' = CaughtUp /\ pending' = <<>> /\ UNCHANGED <<log, doubted, behind, storeVars, call>>
  BY DEF Reconcile
<1>2. TypeOK'
  BY <1>1, CaughtUpType DEF IInv, TypeOK, storeVars
<1>3. CallInv'
  <2> SUFFICES ASSUME NEW c \in Caller
               PROVE  Executes(call[c])' /\ Sole(c)' /\ Compared(call[c])' /\ Knows(call[c])'
    BY DEF CallInv
  <2>1. /\ call[c] \in Call /\ call' = call
        /\ Executes(call[c]) /\ Sole(c) /\ Compared(call[c]) /\ Knows(call[c])
    BY <1>1 DEF IInv, TypeOK, CallInv
  <2>2. Executes(call[c])' /\ Compared(call[c])' /\ Knows(call[c])'
    BY <1>1, <2>1, Applied
  <2> QED BY <2>1, <2>2 DEF Sole
<1> QED BY <1>1, <1>2, <1>3, Applied DEF IInv

(***************************************************************************)
(* The submission: stale, or logged.                                       *)
(***************************************************************************)
\* The one request that executes goes on; the others know what they knew.
LEMMA AfterSubmission ==
  ASSUME IInv, NEW c \in Caller, At(c, "submit"), NEW k \in Call,
         k.pc \in {"failed", "outcome"}, k.approval = call[c].approval, call' = [call EXCEPT ![c] = k],
         Executes(k)', Compared(k)', Knows(k)',
         \A d \in Caller \ {c} : \A x \in Call : x = call[d] => Executes(x)' /\ Compared(x)' /\ Knows(x)'
  PROVE  CallInv'
<1> SUFFICES ASSUME NEW d \in Caller
             PROVE  Executes(call[d])' /\ Sole(d)' /\ Compared(call[d])' /\ Knows(call[d])'
  BY DEF CallInv
<1>1. call'[c] = k /\ \A x \in Caller \ {c} : call'[x] = call[x] /\ call[x] \in Call
  BY DEF IInv, TypeOK
<1>2. Sole(c) /\ Sole(d) /\ call[c].pc \in Executing
  BY DEF IInv, CallInv, At, Executing
<1>3. Sole(d)'
  BY <1>1, <1>2 DEF Sole, Executing, Holding
<1>4. CASE d = c
  BY <1>1, <1>3, <1>4
<1>5. CASE d # c
  BY <1>1, <1>3, <1>5
<1> QED BY <1>4, <1>5

LEMMA StaleStep ==
  ASSUME IInv, NEW c \in Caller, SubmitCleanupGroup(c), Stale(c)
  PROVE  IInv'
<1> DEFINE a == call[c].approval
<1>1. /\ graph' = CaughtUp /\ pending' = <<>> /\ UNCHANGED <<log, doubted, behind, storeVars>>
      /\ call' = [call EXCEPT ![c] = [Idle EXCEPT !.pc = "failed", !.approval = a, !.result = "none"]]
      /\ At(c, "submit")
  BY DEF SubmitCleanupGroup, Continue
<1>2. /\ call[c] \in Call /\ Executes(call[c]) /\ Knows(call[c]) /\ call[c].pc = "submit"
  BY <1>1 DEF IInv, TypeOK, CallInv, At
<1>3. PICK k \in Call : k.pc = "failed" /\ k.approval = a /\ call' = [call EXCEPT ![c] = k]
  <2> DEFINE x == [Idle EXCEPT !.pc = "failed", !.approval = a, !.result = "none"]
  <2>1. x \in Call /\ x.pc = "failed" /\ x.approval = a
    BY <1>2 DEF Call, Idle, PC, Outcome
  <2> QED BY <1>1, <2>1
<1>4. Executes(k) /\ Compared(k) /\ Knows(k)
  BY <1>2, <1>3 DEF Executes, Compared, ComparedUnless, Knows, Executing, Checking, Holding
<1>5. \A d \in Caller : call[d] \in Call /\ Executes(call[d]) /\ Compared(call[d]) /\ Knows(call[d])
  BY DEF IInv, TypeOK, CallInv
<1>6. \A x \in Call : Executes(x) /\ Compared(x) /\ Knows(x) => Executes(x)' /\ Compared(x)' /\ Knows(x)'
  BY <1>1, Applied
<1>7. Executes(k)' /\ Compared(k)' /\ Knows(k)'
  BY <1>3, <1>4, <1>6
<1>8. CallInv'
  BY <1>1, <1>3, <1>5, <1>6, <1>7, AfterSubmission
<1>9. TypeOK'
  BY <1>1, <1>3, CaughtUpType DEF IInv, TypeOK, storeVars
<1> QED BY <1>1, <1>8, <1>9, Applied DEF IInv

LEMMA LoggedStep ==
  ASSUME IInv, NEW c \in Caller, SubmitCleanupGroup(c), ~Stale(c)
  PROVE  IInv'
<1> DEFINE a == call[c].approval
           w == Result(c, CaughtUp)
<1>1. /\ At(c, "submit") /\ log' = Append(log, w) /\ UNCHANGED storeVars
      /\ \/ graph' = w.set /\ pending' = <<>>
         \/ graph' = CaughtUp /\ pending' = <<w>>
      /\ UNCHANGED behind
      /\ \/ Answer(c, "done") /\ UNCHANGED doubted
         \/ Continue(c, "failed", "none") /\ doubted' = doubted \cup {w.by}
  BY DEF SubmitCleanupGroup, LogAndApply
<1>2. /\ call[c] \in Call /\ Executes(call[c]) /\ Knows(call[c]) /\ Sole(c) /\ call[c].pc = "submit"
  BY <1>1 DEF IInv, TypeOK, CallInv, At
<1>3. /\ a \in Approval /\ row[a].status = "signed" /\ row[a].outcome = "none" /\ ~row[a].settled
      /\ \A d \in Caller \ {c} : call[d].approval = a => call[d].pc \notin Holding
  BY <1>2 DEF Executes, Knows, Sole, Executing, Holding
<1>4. /\ w \in Group /\ w.by = a
      /\ w.set.merged = IF a \in Merging THEN a ELSE NoApproval
  BY <1>3, CaughtUpType, ApprovalsAssumption DEF Result, Group, Graph
<1>5. UNCHANGED <<row, creds, locked, revoking, doomed, late, consumed>> /\ doubted \subseteq doubted' /\ doubted' \subseteq Approval
  BY <1>1, <1>3, <1>4 DEF storeVars, IInv, TypeOK
<1> HIDE DEF w
<1>6. GraphInv'
  BY <1>1, <1>3, <1>4, <1>5, GraphAfterAppend
<1>7. RowInv'
  BY <1>1, <1>3, <1>4, <1>5, RowsAfterAppend
<1>8. \E k \in Call : /\ call' = [call EXCEPT ![c] = k] /\ k.approval = a
                      /\ \/ k.pc = "outcome" /\ k.result = "done"
                         \/ k.pc = "failed" /\ a \in doubted'
  <2>1. CASE Answer(c, "done")
    <3> DEFINE k == [Idle EXCEPT !.pc = "outcome", !.approval = a, !.result = "done"]
    <3>1. k \in Call /\ k.approval = a /\ k.pc = "outcome" /\ k.result = "done"
      BY <1>2 DEF Call, Idle, PC, Outcome
    <3> QED BY <2>1, <3>1 DEF Answer, Continue
  <2>2. CASE Continue(c, "failed", "none") /\ doubted' = doubted \cup {w.by}
    <3> DEFINE k == [Idle EXCEPT !.pc = "failed", !.approval = a, !.result = "none"]
    <3>1. k \in Call /\ k.approval = a /\ k.pc = "failed" /\ a \in doubted'
      BY <1>2, <1>4, <2>2 DEF Call, Idle, PC, Outcome
    <3> QED BY <2>2, <3>1 DEF Continue
  <2> QED BY <1>1, <2>1, <2>2
<1>9. PICK k \in Call : /\ call' = [call EXCEPT ![c] = k] /\ k.approval = a
                        /\ \/ k.pc = "outcome" /\ k.result = "done"
                           \/ k.pc = "failed" /\ a \in doubted'
  BY <1>8
<1>10. TypeOK'
  BY <1>1, <1>4, <1>5, <1>9, CaughtUpType, Appended, ZenonT(40) DEF IInv, TypeOK, Group
<1>11. a \in Logged'
  BY <1>1, <1>3, <1>4, Appended
<1>12. Executes(k)' /\ Compared(k)' /\ Knows(k)'
  BY <1>3, <1>5, <1>9, <1>11 DEF Executes, Compared, ComparedUnless, Knows, OutcomeTrue, Executing, Checking
<1>13. \A d \in Caller \ {c} : \A x \in Call : x = call[d] => Executes(x)' /\ Compared(x)' /\ Knows(x)'
  BY <1>1, <1>3, <1>4, <1>5, CallsAfterAppend
<1>14. CallInv'
  BY <1>1, <1>9, <1>12, <1>13, AfterSubmission
<1> QED BY <1>6, <1>7, <1>10, <1>14 DEF IInv

LEMMA StepIInv ==
  ASSUME IInv, [Next]_vars
  PROVE  IInv'
<1>1. CASE Environment
  BY <1>1, ToolSteps, EditStep, ReconcileStep, CrashStep DEF Environment
<1>2. CASE Revocation
  BY <1>2, LockSteps, RevocationStep DEF Revocation
<1>3. ASSUME NEW c \in Caller, Ceremony(c)  PROVE IInv'
  BY <1>3, CeremonySteps, EnrolStep, ConsumeStep, OutcomeStep DEF Ceremony
<1>4. ASSUME NEW c \in Caller, Execute(c)  PROVE IInv'
  BY <1>4, ExecutorSteps, StaleStep, LoggedStep DEF Execute
<1>5. ASSUME NEW c \in Caller, Check(c)  PROVE IInv'
  BY <1>5, CheckSteps
<1>6. CASE UNCHANGED vars
  BY <1>6, StutterStep
<1> QED BY <1>1, <1>2, <1>3, <1>4, <1>5, <1>6 DEF Next

LEMMA IInvHolds == Spec => []IInv
<1>1. IInv /\ [Next]_vars => IInv'
  BY StepIInv
<1> QED BY InitIInv, <1>1, PTL DEF Spec

-----------------------------------------------------------------------------
(***************************************************************************)
(* What each step is for the token: it is created, consumed, voided, run,  *)
(* or left as it is.                                                       *)
(***************************************************************************)
Fates == [a \in Approval |-> Fate(a)]

Runs == [a \in Approval |-> TimesLogged(a)]

LEMMA FatesKept ==
  ASSUME UNCHANGED consumed, \A a \in Approval : row'[a].status = row[a].status
  PROVE  Fates' = Fates
BY DEF Fates, Fate

LEMMA RunsKept ==
  ASSUME UNCHANGED log
  PROVE  Runs' = Runs
BY DEF Runs, TimesLogged

LEMMA RunOnce ==
  ASSUME IInv, NEW w \in Group, log' = Append(log, w), w.by \in Approval => w.by \notin Logged
  PROVE  /\ w.by \in Approval => Runs[w.by] = 0 /\ Runs' = [Runs EXCEPT ![w.by] = 1]
         /\ w.by \notin Approval => Runs' = Runs
<1> DEFINE Times(a) == {i \in DOMAIN log : log[i].by = a}
<1>1. \A a \in Approval : Times(a)' = IF a = w.by THEN Times(a) \cup {Len(log) + 1} ELSE Times(a)
  BY Appended
<1>2. \A a \in Approval : TimesLogged(a) = Cardinality(Times(a)) /\ TimesLogged(a)' = Cardinality(Times(a)')
  BY DEF TimesLogged
<1>3. \A a \in Approval : a # w.by => TimesLogged(a)' = TimesLogged(a)
  BY <1>1, <1>2
<1>4. ASSUME w.by \in Approval  PROVE TimesLogged(w.by) = 0 /\ \A a \in Approval : a = w.by => TimesLogged(a)' = 1
  <2>1. Times(w.by) = {}
    BY <1>4 DEF Logged
  <2>2. \A a \in Approval : a = w.by => Times(a)' = {Len(log) + 1}
    BY <1>1, <2>1
  <2>3. Cardinality(Times(w.by)) = 0 /\ Cardinality({Len(log) + 1}) = 1
    BY <2>1, FS_EmptySet, FS_Singleton
  <2> HIDE DEF Times
  <2> QED BY <1>2, <1>4, <2>2, <2>3
<1> QED BY <1>3, <1>4 DEF Runs

\* The steps of one request that leave both as they are, and the other quiet steps.
Quiet ==
  \/ \E a \in Approval : Expire(a) \/ PassGrace(a)
  \/ Reconcile \/ Crash \/ RollBackRevocation \/ UNCHANGED vars
  \/ \E actor \in Actor : VoidPending(actor)
  \/ \E c \in Caller :
       \/ Execute(c) /\ ~SubmitCleanupGroup(c)
       \/ Check(c)
       \/ Ceremony(c) /\ ~Consume(c)

LEMMA QuietSteps ==
  ASSUME IInv, Quiet
  PROVE  Fates' = Fates /\ Runs' = Runs /\ Logged' = Logged
<1> USE DEF storeVars, logVars
<1>1. UNCHANGED log
  BY DEF Quiet, Expire, PassGrace, Reconcile, Crash, RollBackRevocation, vars, VoidPending,
         Execute, Check, Ceremony, EnrollVerify, CreateSigningCredential, SignVerify, ResolveCredential,
         UpdateSignCount, SetOutcome, StoreError, Open, ActorIsStillAuthorised, Replan, RecordApplied,
         RequireCaughtUp, ReadLogPosition, GuardHolds, RecordFailed, GraphError, CheckCleanupApproval,
         GraphHasCaughtUp, ReconcileOrphan, RecordInterrupted, CheckError
<1>2. UNCHANGED consumed
  BY DEF Quiet, Expire, PassGrace, Reconcile, Crash, RollBackRevocation, vars, VoidPending,
         Execute, Check, Ceremony, EnrollVerify, CreateSigningCredential, SignVerify, ResolveCredential,
         UpdateSignCount, SetOutcome, StoreError, Open, ActorIsStillAuthorised, Replan, RecordApplied,
         RequireCaughtUp, ReadLogPosition, GuardHolds, RecordFailed, GraphError, CheckCleanupApproval,
         GraphHasCaughtUp, ReconcileOrphan, RecordInterrupted, CheckError
<1>3. \/ UNCHANGED row
      \/ \E a \in Approval : Expire(a) \/ PassGrace(a)
      \/ \E c \in Caller : SetOutcome(c)
  BY DEF Quiet, Reconcile, Crash, RollBackRevocation, vars, VoidPending,
         Execute, Check, Ceremony, EnrollVerify, CreateSigningCredential, SignVerify, ResolveCredential,
         UpdateSignCount, StoreError, Open, ActorIsStillAuthorised, Replan, RecordApplied,
         RequireCaughtUp, ReadLogPosition, GuardHolds, RecordFailed, GraphError, CheckCleanupApproval,
         GraphHasCaughtUp, ReconcileOrphan, RecordInterrupted, CheckError
<1>4. \A a \in Approval : row'[a].status = row[a].status
  <2>1. row \in [Approval -> Row]
    BY DEF IInv, TypeOK
  <2>2. CASE \E a \in Approval : Expire(a) \/ PassGrace(a)
    BY <2>1, <2>2 DEF Expire, PassGrace, Row
  <2>3. CASE \E c \in Caller : SetOutcome(c)
    BY <2>1, <2>3 DEF SetOutcome, Row
  <2>4. CASE UNCHANGED row
    BY <2>4
  <2> QED BY <1>3, <2>2, <2>3, <2>4
<1> QED BY <1>1, <1>2, <1>4, FatesKept, RunsKept DEF Logged

LEMMA EveryStep ==
  ASSUME [Next]_vars
  PROVE  \/ Quiet
         \/ \E a \in Approval : Create(a)
         \/ EditNodes \/ CommitRevocation
         \/ \E c \in Caller : Consume(c) \/ SubmitCleanupGroup(c)
BY DEF Next, Environment, Revocation, Quiet, Execute, Ceremony

LEMMA EditLogs ==
  ASSUME IInv, EditNodes
  PROVE  \E w \in Group : w.by \notin Approval /\ log' = Append(log, w)
<1>1. PICK g \in {[CaughtUp EXCEPT !.counts = ~@], [CaughtUp EXCEPT !.rest = ~@]} :
        log' = Append(log, [by |-> NoApproval, set |-> g])
  BY DEF EditNodes
<1> DEFINE w == [by |-> NoApproval, set |-> g]
<1>2. g \in Graph
  BY CaughtUpType DEF Graph
<1>3. w \in Group /\ w.by \notin Approval
  BY <1>2, ApprovalsAssumption DEF Group
<1> QED BY <1>1, <1>3

\* What a submission logs, and what it saw.
LEMMA Submitted ==
  ASSUME IInv, NEW c \in Caller, SubmitCleanupGroup(c)
  PROVE  /\ UNCHANGED <<row, consumed>>
         /\ \/ UNCHANGED log
            \/ LET a == call[c].approval
               IN  /\ a \in Approval /\ row[a].status = "signed" /\ consumed[a] = "signed" /\ a \notin Logged
                   /\ a \in behind \/ Pinned(row[a].seen) = Pinned(CaughtUp)
                   /\ Result(c, CaughtUp) \in Group /\ Result(c, CaughtUp).by = a
                   /\ log' = Append(log, Result(c, CaughtUp))
<1>1. UNCHANGED <<row, consumed>>
  BY DEF SubmitCleanupGroup, storeVars
<1>2. CASE Stale(c)
  BY <1>1, <1>2 DEF SubmitCleanupGroup
<1>3. CASE ~Stale(c)
  <2> DEFINE a == call[c].approval
  <2>1. /\ call[c].pc = "submit" /\ Executes(call[c]) /\ Compared(call[c]) /\ Knows(call[c])
        /\ log' = Append(log, Result(c, CaughtUp)) /\ call[c].expected = Len(log)
    BY <1>3 DEF SubmitCleanupGroup, At, IInv, CallInv, LogAndApply, Stale
  <2>2. a \in Approval /\ row[a].status = "signed" /\ consumed[a] = "signed" /\ a \notin Logged
    BY <2>1 DEF Executes, Knows, Executing, Holding
  <2>3. a \in behind \/ Pinned(row[a].seen) = Pinned(CaughtUp)
    BY <2>1 DEF Compared, ComparedUnless
  <2>4. Result(c, CaughtUp) \in Group /\ Result(c, CaughtUp).by = a
    BY <2>2, CaughtUpType DEF Result, Group, Graph
  <2> QED BY <1>1, <2>1, <2>2, <2>3, <2>4
<1> QED BY <1>2, <1>3

(***************************************************************************)
(* Theorems.                                                               *)
(***************************************************************************)
\* Types, and outcomes on consumed rows only (store.py's rows).
THEOREM TypeCorrect == Spec => []TypeOK
<1>1. IInv => TypeOK
  BY DEF IInv
<1> QED BY IInvHolds, <1>1, PTL

(***************************************************************************)
(* The outcome on a row says what the log holds, whether the executor, a   *)
(* revocation or a later check wrote it.                                   *)
(***************************************************************************)
THEOREM OutcomesAreTrue == Spec => []OutcomeIsTrue
<1>1. IInv => OutcomeIsTrue
  BY DEF IInv, RowInv, OutcomeTrue, OutcomeIsTrue
<1> QED BY IInvHolds, <1>1, PTL

(***************************************************************************)
(* The guard and the expected position together pin the guarded part of    *)
(* the state that was signed (who is merged, the counted edges; not the    *)
(* rest of the digest): the group is logged on it, unless the guard read   *)
(* the graph while a group was pending.                                    *)
(***************************************************************************)
THEOREM SignedStateIsLogged == Spec => LoggedOnSignedState
<1> DEFINE Step == \A a \in Logged' \ Logged : a \in behind \/ Pinned(row[a].seen) = Pinned(CaughtUp)
<1>1. IInv /\ [Next]_vars => [Step]_vars
  <2> SUFFICES ASSUME IInv, Next  PROVE Step
    OBVIOUS
  <2>1. CASE Quiet
    BY <2>1, QuietSteps
  <2>2. CASE EditNodes
    <3>1. PICK w \in Group : w.by \notin Approval /\ log' = Append(log, w)
      BY <2>2, EditLogs
    <3> QED BY <3>1, Appended
  <2>3. CASE CommitRevocation \/ (\E a \in Approval : Create(a)) \/ \E c \in Caller : Consume(c)
    BY <2>3 DEF CommitRevocation, Create, Consume, Logged, logVars
  <2>4. ASSUME NEW c \in Caller, SubmitCleanupGroup(c)  PROVE Step
    <3>1. CASE UNCHANGED log
      BY <3>1 DEF Logged
    <3>2. CASE ~UNCHANGED log
      BY <2>4, <3>2, Submitted, Appended
    <3> QED BY <3>1, <3>2
  <2> QED BY <2>1, <2>2, <2>3, <2>4, EveryStep
<1> QED BY IInvHolds, <1>1, PTL DEF Spec, LoggedOnSignedState

(***************************************************************************)
(* An approval is a single-use token: whatever requests, revocations and   *)
(* crashes come together, it is consumed by one of them and run at most    *)
(* once, after its signature.                                              *)
(***************************************************************************)
THEOREM ApprovalsAreTokens == Spec => ImplementsToken
<1>1. Init => Token!Init
  <2> SUFFICES ASSUME Init  PROVE Token!Init
    OBVIOUS
  <2>1. \A a \in Approval : Fate(a) = "none"
    BY DEF Init, Fate, Unborn
  <2>2. \A a \in Approval : {i \in DOMAIN log : log[i].by = a} = {}
    BY DEF Init
  <2>3. \A a \in Approval : TimesLogged(a) = 0
    BY <2>2, FS_EmptySet DEF TimesLogged
  <2> QED BY <2>1, <2>3 DEF Token!Init
<1>2. IInv /\ [Next]_vars => [Token!Next]_(Token!tokenVars)
  <2> SUFFICES ASSUME IInv, [Next]_vars  PROVE Token!Next \/ (Fates' = Fates /\ Runs' = Runs)
    BY DEF Token!tokenVars, Fates, Runs
  <2>1. CASE Quiet
    BY <2>1, QuietSteps
  <2>2. ASSUME NEW a \in Approval, Create(a)  PROVE Token!Next
    <3>1. Runs' = Runs /\ row[a].status = "none" /\ UNCHANGED consumed
      BY <2>2, RunsKept DEF Create, logVars
    <3>2. row'[a].status = "pending" /\ \A b \in Approval \ {a} : row'[b].status = row[b].status
      BY <2>2 DEF Create, IInv, TypeOK, Row
    <3>3. Fates' = [Fates EXCEPT ![a] = "pending"] /\ Fates[a] = "none"
      BY <3>1, <3>2 DEF Fate, Fates
    <3>4. Token!Create(a)
      BY <3>1, <3>3 DEF Token!Create, Fates, Runs
    <3> QED BY <3>4 DEF Token!Next
  <2>3. CASE EditNodes
    <3>1. PICK w \in Group : w.by \notin Approval /\ log' = Append(log, w)
      BY <2>3, EditLogs
    <3>2. Runs' = Runs
      BY <3>1, RunOnce
    <3>3. Fates' = Fates
      BY <2>3, FatesKept DEF EditNodes, storeVars
    <3> QED BY <3>2, <3>3
  <2>4. CASE CommitRevocation
    <3>1. Runs' = Runs
      BY <2>4, RunsKept DEF CommitRevocation, logVars
    <3>2. \A a \in Approval : Fate(a)' = IF a \in locked THEN "void" ELSE Fate(a)
      BY <2>4 DEF CommitRevocation, Fate, Voided, IInv, TypeOK, Row
    <3>3. \A a \in locked : a \in Approval /\ Fate(a) = "pending"
      BY DEF IInv, TypeOK, RowInv, Fate
    <3>4. Token!Void(locked)
      BY <3>1, <3>2, <3>3 DEF Token!Void, Fates, Runs
    <3> QED BY <3>4 DEF Token!Next, IInv, TypeOK
  <2>5. ASSUME NEW c \in Caller, Consume(c)  PROVE Token!Next \/ (Fates' = Fates /\ Runs' = Runs)
    <3> DEFINE a == call[c].approval
    <3>1. Runs' = Runs /\ a \in Approval
      BY <2>5, RunsKept DEF Consume, logVars, At, IInv, CallInv, Knows
    <3>2. CASE ~StillPending(c)
      BY <2>5, <3>1, <3>2, FatesKept DEF Consume
    <3>3. CASE StillPending(c)
      <4>1. PICK fate \in {"signed", "refused"} :
              /\ row' = [row EXCEPT ![a].status = "signed"]
              /\ consumed' = [consumed EXCEPT ![a] = fate]
        BY <2>5, <3>3 DEF Consume, MarkSigned
      <4>2. /\ row'[a].status = "signed" /\ consumed'[a] = fate
            /\ \A b \in Approval \ {a} : row'[b] = row[b] /\ consumed'[b] = consumed[b]
        BY <3>1, <4>1 DEF IInv, TypeOK, Row
      <4>3. row[a].status = "pending"
        BY <3>3 DEF StillPending, RowOf
      <4>4. \A b \in Approval : b = a => Fates' = [Fates EXCEPT ![b] = fate]
        BY <4>2, ZenonT(40) DEF Fates, Fate
      <4>5. Fates[a] = "pending" /\ Fates' = [Fates EXCEPT ![a] = fate]
        BY <3>1, <4>3, <4>4 DEF Fates, Fate
      <4>6. Token!Consume(a)
        BY <3>1, <4>5 DEF Token!Consume, Fates, Runs
      <4> QED BY <3>1, <4>6 DEF Token!Next
    <3> QED BY <3>2, <3>3
  <2>6. ASSUME NEW c \in Caller, SubmitCleanupGroup(c)  PROVE Token!Next \/ (Fates' = Fates /\ Runs' = Runs)
    <3> DEFINE a == call[c].approval
    <3>1. Fates' = Fates /\ UNCHANGED <<row, consumed>>
      BY <2>6, Submitted, FatesKept
    <3>2. CASE UNCHANGED log
      BY <3>1, <3>2, RunsKept
    <3>3. CASE ~UNCHANGED log
      <4>1. /\ a \in Approval /\ row[a].status = "signed" /\ consumed[a] = "signed" /\ a \notin Logged
            /\ Result(c, CaughtUp) \in Group /\ Result(c, CaughtUp).by = a
            /\ log' = Append(log, Result(c, CaughtUp))
        BY <2>6, <3>3, Submitted
      <4>2. Runs[a] = 0 /\ Runs' = [Runs EXCEPT ![a] = 1]
        BY <4>1, RunOnce
      <4>3. Fates[a] = "signed"
        BY <4>1 DEF Fates, Fate
      <4>4. Token!Run(a)
        BY <3>1, <4>2, <4>3 DEF Token!Run, Fates, Runs
      <4> QED BY <4>1, <4>4 DEF Token!Next
    <3> QED BY <3>2, <3>3
  <2> QED BY <2>1, <2>2, <2>3, <2>4, <2>5, <2>6, EveryStep
<1> QED BY IInvHolds, <1>1, <1>2, PTL DEF Spec, ImplementsToken, Token!Spec


-----------------------------------------------------------------------------
(***************************************************************************)
(* Passkeys.  While a revocation is open it has locked its actor's pending *)
(* approvals, but for those issued since; a request about to consume an    *)
(* approval holds its actor's own passkey, which is live unless the        *)
(* approval is consumed already or was issued in the revocation's midst.   *)
(***************************************************************************)
Signing == {"credential", "mark"}

Asked(c) == call[c].pc \in Signing => call[c].approval \in Approval /\ RowOf(c).status # "none"

Live(c) ==
  At(c, "mark") =>
    /\ SignedBySelf(c)
    /\ call[c].credential \in creds \/ RowOf(c).status = "signed" \/ call[c].approval \in late

Taken ==
  \A a \in Approval : row[a].status = "pending" /\ ActorOf[a] \in revoking => a \in locked \cup late

\* An open revocation deletes passkeys of its own actor only.
Doomed == \A k \in doomed : HolderOf[k] \in revoking

PasskeyInv == Taken /\ Doomed /\ \A c \in Caller : Asked(c) /\ Live(c)

Stays(a) ==
  /\ row[a].status # "none" => row'[a].status # "none"
  /\ row[a].status = "signed" => row'[a].status = "signed"

\* A row that was created stays, and a consumed one stays consumed.
LEMMA ForGood ==
  ASSUME IInv, [Next]_vars, NEW a \in Approval
  PROVE  Stays(a)
<1> USE DEF IInv, TypeOK, Stays
<1>1. CASE UNCHANGED row
  BY <1>1
<1>2. ASSUME NEW b \in Approval, Create(b) \/ Expire(b) \/ PassGrace(b)  PROVE Stays(a)
  <2>1. CASE Create(b)
    BY <1>2, <2>1 DEF Create, Row
  <2>2. CASE Expire(b)
    BY <1>2, <2>2 DEF Expire, Row
  <2>3. CASE PassGrace(b)
    BY <1>2, <2>3 DEF PassGrace, Row
  <2> QED BY <1>2, <2>1, <2>2, <2>3
<1>3. ASSUME NEW c \in Caller, Consume(c) \/ SetOutcome(c)  PROVE Stays(a)
  <2>1. row[a] \in Row
    OBVIOUS
  <2>2. \/ UNCHANGED row
        \/ row' = [row EXCEPT ![call[c].approval].status = "signed"]
        \/ row' = [row EXCEPT ![call[c].approval].outcome = call[c].result]
    BY <1>3 DEF Consume, MarkSigned, SetOutcome
  <2>3. row \in [Approval -> Row]
    OBVIOUS
  <2>4. CASE row' = [row EXCEPT ![call[c].approval].outcome = call[c].result]
    <3>1. row'[a].status = row[a].status
      BY ONLY <2>1, <2>3, <2>4 DEF Row
    <3> QED BY <3>1
  <2>5. CASE row' = [row EXCEPT ![call[c].approval].status = "signed"]
    <3>1. row'[a].status \in {row[a].status, "signed"}
      BY ONLY <2>1, <2>3, <2>5 DEF Row
    <3> QED BY <3>1
  <2> QED BY <1>1, <2>2, <2>4, <2>5
<1>4. CASE CommitRevocation
  BY <1>4 DEF CommitRevocation, Voided, Row
<1>5. CASE UNCHANGED storeVars \/ UNCHANGED vars
  BY <1>1, <1>5 DEF storeVars, vars
<1>6. CASE RollBackRevocation \/ \E actor \in Actor : VoidPending(actor)
  BY <1>1, <1>6 DEF RollBackRevocation, VoidPending
<1>7. ASSUME NEW c \in Caller, Execute(c) \/ Check(c)  PROVE UNCHANGED storeVars
  BY <1>7 DEF Execute, Check, Open, ActorIsStillAuthorised, Replan, RecordApplied, RequireCaughtUp, ReadLogPosition,
              GuardHolds, SubmitCleanupGroup, RecordFailed, GraphError, CheckCleanupApproval,
              GraphHasCaughtUp, ReconcileOrphan, RecordInterrupted, CheckError
<1>8. ASSUME NEW c \in Caller, Ceremony(c)
      PROVE  UNCHANGED row \/ Consume(c) \/ SetOutcome(c)
  BY <1>8 DEF Ceremony, Open, EnrollVerify, CreateSigningCredential, SignVerify, ResolveCredential,
              UpdateSignCount, StoreError, storeVars
<1>9. CASE EditNodes \/ Reconcile \/ Crash
  BY <1>5, <1>9 DEF EditNodes, Reconcile, Crash
<1> QED BY <1>1, <1>2, <1>3, <1>4, <1>5, <1>6, <1>7, <1>8, <1>9 DEF Next, Environment, Revocation

\* What changes of the passkeys, the open revocation and the approvals issued since.
LEMMA StoreSteps ==
  ASSUME IInv, [Next]_vars
  PROVE  \/ UNCHANGED <<creds, locked, revoking, doomed, late>> /\ \A a \in Approval : row'[a].status = "pending" => row[a].status = "pending"
         \/ \E a \in Approval : Create(a)
         \/ \E c \in Caller : CreateSigningCredential(c) \/ Consume(c)
         \/ Revocation
<1> USE DEF IInv, TypeOK
<1>1. CASE UNCHANGED storeVars \/ UNCHANGED vars
  BY <1>1 DEF storeVars, vars
<1>2. ASSUME NEW b \in Approval, Expire(b) \/ PassGrace(b)
      PROVE  UNCHANGED <<creds, locked, revoking, doomed, late>> /\ \A a \in Approval : row'[a].status = "pending" => row[a].status = "pending"
  BY <1>2 DEF Expire, PassGrace, Row
<1>3. ASSUME NEW c \in Caller, SetOutcome(c)
      PROVE  UNCHANGED <<creds, locked, revoking, doomed, late>> /\ \A a \in Approval : row'[a].status = "pending" => row[a].status = "pending"
  BY <1>3 DEF SetOutcome, Row
<1>4. ASSUME NEW c \in Caller, Execute(c) \/ Check(c)  PROVE UNCHANGED storeVars
  BY <1>4 DEF Execute, Check, Open, ActorIsStillAuthorised, Replan, RecordApplied, RequireCaughtUp, ReadLogPosition,
              GuardHolds, SubmitCleanupGroup, RecordFailed, GraphError, CheckCleanupApproval,
              GraphHasCaughtUp, ReconcileOrphan, RecordInterrupted, CheckError
<1>5. ASSUME NEW c \in Caller, Ceremony(c)
      PROVE  UNCHANGED storeVars \/ SetOutcome(c) \/ CreateSigningCredential(c) \/ Consume(c)
  BY <1>5 DEF Ceremony, Open, EnrollVerify, SignVerify, ResolveCredential, UpdateSignCount, StoreError
<1>6. CASE EditNodes \/ Reconcile \/ Crash
  BY <1>1, <1>6 DEF EditNodes, Reconcile, Crash
<1> QED BY <1>1, <1>2, <1>3, <1>4, <1>5, <1>6 DEF Next, Environment

\* Approvals are consumed by the conditional update or by a revocation.
LEMMA ConsumedByConsume ==
  ASSUME IInv, [Next]_vars, consumed' # consumed
  PROVE  CommitRevocation \/ \E c \in Caller : Consume(c)
<1>1. ~UNCHANGED storeVars /\ ~UNCHANGED vars
  BY DEF storeVars, vars
<1>2. \A a \in Approval : ~(Create(a) \/ Expire(a) \/ PassGrace(a))
  BY DEF Create, Expire, PassGrace
<1>3. \A c \in Caller : ~(SetOutcome(c) \/ CreateSigningCredential(c) \/ Execute(c) \/ Check(c))
  BY <1>1 DEF SetOutcome, CreateSigningCredential, Execute, Check, Open, ActorIsStillAuthorised, Replan,
     RecordApplied, RequireCaughtUp, ReadLogPosition, GuardHolds, SubmitCleanupGroup, RecordFailed, GraphError,
     CheckCleanupApproval, GraphHasCaughtUp, ReconcileOrphan, RecordInterrupted, CheckError
<1>4. \A c \in Caller : ~(EnrollVerify(c) \/ SignVerify(c) \/ ResolveCredential(c) \/ UpdateSignCount(c) \/ StoreError(c))
  BY <1>1 DEF Open, EnrollVerify, SignVerify, ResolveCredential, UpdateSignCount, StoreError
<1>5. ~(EditNodes \/ Reconcile \/ Crash \/ RollBackRevocation \/ \E actor \in Actor : VoidPending(actor))
  BY <1>1 DEF EditNodes, Reconcile, Crash, RollBackRevocation, VoidPending
<1> QED BY <1>1, <1>2, <1>3, <1>4, <1>5 DEF Next, Environment, Revocation, Ceremony

\* How a request comes to look a passkey up, and to consume with it; others do not move it.
Found(c) ==
  /\ call'[c].pc = "credential" => row[call'[c].approval].status = "pending" /\ call'[c].approval \in Approval
  /\ call'[c].pc = "mark" =>
       /\ call[c].pc = "credential" /\ call'[c].approval = call[c].approval
       /\ call'[c].credential \in creds
       /\ HolderOf[call'[c].credential] = ActorOf[call'[c].approval]

LEMMA LooksUpFirst ==
  ASSUME IInv, [Next]_vars, NEW c \in Caller, call'[c].pc \in Signing, call'[c] # call[c]
  PROVE  UNCHANGED storeVars /\ Found(c)
<1> USE DEF Signing
<1>a. call \in [Caller -> Call] /\ row \in [Approval -> Row]
  BY DEF IInv, TypeOK
<1>1. /\ ~UNCHANGED vars
      /\ \A a \in Approval : ~(Create(a) \/ Expire(a) \/ PassGrace(a))
      /\ ~(EditNodes \/ Reconcile \/ Crash \/ Revocation)
  <2>1. call' # call
    OBVIOUS
  <2>2. ~UNCHANGED vars /\ \A a \in Approval : ~(Create(a) \/ Expire(a) \/ PassGrace(a))
    BY <2>1 DEF vars, Create, Expire, PassGrace
  <2>3. ~(EditNodes \/ Reconcile \/ Revocation)
    BY <2>1 DEF EditNodes, Reconcile, Revocation, VoidPending, CommitRevocation, RollBackRevocation
  <2>4. ~Crash
    BY DEF Crash, Idle
  <2> QED BY <2>2, <2>3, <2>4
<1>2. PICK d \in Caller : Ceremony(d) \/ Execute(d) \/ Check(d)
  BY <1>1 DEF Next, Environment
<1>3. call[d] \in Call /\ call[c] \in Call
  BY <1>a
<1>4. ASSUME NEW k, call' = [call EXCEPT ![d] = k]  PROVE d = c /\ k.pc \in Signing
  BY <1>a, <1>4
<1>5. ~End(d)
  <2>1. Idle.pc \notin Signing
    BY DEF Idle
  <2> QED BY <1>4, <2>1 DEF End
<1>6. ASSUME NEW pc, Goto(d, pc)
      PROVE  /\ pc \in Signing /\ c = d /\ call'[c].pc = pc
             /\ call'[c].approval = call[c].approval /\ call'[c].credential = call[c].credential
  <2>1. d = c
    BY <1>a, <1>6 DEF Goto
  <2> QED BY <1>a, <1>6, <2>1 DEF Goto, Call
<1>b. \A pc \in PC \ Signing : ~Goto(d, pc)
  BY <1>6
<1>7. \A pc \in PC \ Signing, result \in Outcome : ~Continue(d, pc, result)
  <2> SUFFICES ASSUME NEW pc \in PC \ Signing, NEW result \in Outcome, Continue(d, pc, result)
               PROVE  FALSE
    OBVIOUS
  <2> DEFINE k == [Idle EXCEPT !.pc = pc, !.approval = call[d].approval, !.result = result]
  <2>1. call' = [call EXCEPT ![d] = k]
    BY DEF Continue
  <2>2. k.pc = pc
    BY DEF Idle
  <2> HIDE DEF k
  <2>3. k.pc \in Signing
    BY <1>4, <2>1
  <2> QED BY <2>2, <2>3
<1>8. ASSUME NEW a, NEW x, NEW pc, Open(d, a, x, pc)
      PROVE  pc \in Signing /\ call'[c].approval = a /\ call'[c].pc = pc /\ UNCHANGED storeVars
  <2> DEFINE k == [Idle EXCEPT !.pc = pc, !.approval = a, !.credential = x]
  <2>1. call' = [call EXCEPT ![d] = k] /\ UNCHANGED storeVars
    BY <1>8 DEF Open
  <2>2. k.pc = pc /\ k.approval = a
    BY DEF Idle
  <2>3. d = c /\ k.pc \in Signing
    BY <1>4, <2>1
  <2>4. call'[c] = k
    BY <1>a, <2>1, <2>3
  <2> QED BY <2>1, <2>2, <2>3, <2>4
<1>c. \A a \in Approval, x \in Credential \cup {NoCredential}, pc \in PC \ Signing : ~Open(d, a, x, pc)
  BY <1>8
<1>9. ~Execute(d)
  <2>1. ~(ActorIsStillAuthorised(d) \/ Replan(d) \/ RecordApplied(d) \/ GuardHolds(d) \/ RecordFailed(d))
    BY <1>b, <1>7 DEF ActorIsStillAuthorised, Replan, RecordApplied, GuardHolds, RecordFailed, Answer, PC, Outcome
  <2>2. ~(RequireCaughtUp(d) \/ GraphError(d))
    BY <1>b, <1>7 DEF RequireCaughtUp, GraphError, Answer, PC, Outcome
  <2>3. ~SubmitCleanupGroup(d)
    BY <1>7 DEF SubmitCleanupGroup, LogAndApply, Answer, PC, Outcome
  <2>4. ~ReadLogPosition(d)
    <3> SUFFICES ASSUME ReadLogPosition(d)  PROVE FALSE
      OBVIOUS
    <3> DEFINE k == [call[d] EXCEPT !.pc = "state", !.expected = Len(log)]
    <3>1. call' = [call EXCEPT ![d] = k] /\ k.pc = "state"
      BY <1>3 DEF ReadLogPosition, Call
    <3> QED BY <1>4, <3>1
  <2> QED BY <2>1, <2>2, <2>3, <2>4 DEF Execute
<1>10. ~Check(d)
  BY <1>5, <1>b, <1>7, <1>c DEF Check, CheckCleanupApproval, GraphHasCaughtUp, ReconcileOrphan, RecordInterrupted,
     CheckError, Answer, PC, Outcome
<1>11. ~(\/ EnrollVerify(d) \/ CreateSigningCredential(d) \/ Consume(d) \/ UpdateSignCount(d)
        \/ SetOutcome(d) \/ StoreError(d))
  BY <1>5, <1>b, <1>7, <1>c DEF EnrollVerify, CreateSigningCredential, Consume, UpdateSignCount,
     SetOutcome, StoreError, Answer, PC, Outcome
<1>12. CASE ResolveCredential(d)
  <2>1. /\ ~Goto(d, "mark other") /\ call[d].pc = "credential" /\ UNCHANGED storeVars
    BY <1>b, <1>12 DEF ResolveCredential, At, PC
  <2>2. /\ Goto(d, "mark") /\ call[d].credential \in creds /\ SignedBySelf(d)
    BY <1>5, <1>12, <2>1 DEF ResolveCredential
  <2>3. /\ d = c /\ call'[c].pc = "mark" /\ call'[c].approval = call[c].approval
        /\ call'[c].credential = call[c].credential
    BY <1>6, <2>2
  <2> QED BY <2>1, <2>2, <2>3 DEF Found, SignedBySelf
<1>13. CASE SignVerify(d)
  <2>1. PICK a \in Approval, x \in Credential : RequirePendingAndUnexpired(a) /\ Open(d, a, x, "credential")
    BY <1>13 DEF SignVerify
  <2> QED BY <1>8, <2>1 DEF Found, RequirePendingAndUnexpired
<1> QED BY <1>2, <1>9, <1>10, <1>11, <1>12, <1>13 DEF Ceremony

LEMMA PasskeysKept ==
  ASSUME IInv, PasskeyInv, [Next]_vars
  PROVE  PasskeyInv'
<1> USE DEF IInv, TypeOK
<1>1. Taken'
  <2> SUFFICES ASSUME NEW a \in Approval, row'[a].status = "pending", ActorOf[a] \in revoking'
               PROVE  a \in locked' \cup late'
    BY DEF Taken
  <2>1. CASE UNCHANGED <<creds, locked, revoking, doomed, late>> /\ row[a].status = "pending"
    BY <2>1 DEF PasskeyInv, Taken
  <2>2. ASSUME NEW b \in Approval, Create(b)  PROVE a \in locked' \cup late'
    <3>1. CASE a = b
      BY <2>2, <3>1 DEF Create
    <3>2. CASE a # b
      BY <2>2, <3>2 DEF Create, PasskeyInv, Taken
    <3> QED BY <3>1, <3>2
  <2>3. ASSUME NEW c \in Caller, CreateSigningCredential(c)  PROVE a \in locked' \cup late'
    BY <2>3 DEF CreateSigningCredential, PasskeyInv, Taken
  <2>4. ASSUME NEW c \in Caller, Consume(c)  PROVE a \in locked' \cup late'
    <3>1. CASE UNCHANGED <<row, late>>
      BY <2>4, <3>1 DEF Consume, PasskeyInv, Taken
    <3>2. CASE \E fate : MarkSigned(c, fate)
      <4>1. row' = [row EXCEPT ![call[c].approval].status = "signed"] /\ late' = late \ {call[c].approval}
        BY <3>2 DEF MarkSigned
      <4>2. a # call[c].approval
        BY <4>1 DEF Row
      <4>3. row[a].status = "pending"
        BY <4>1, <4>2
      <4> QED BY <2>4, <4>1, <4>2, <4>3 DEF Consume, PasskeyInv, Taken
    <3> QED BY <2>4, <3>1, <3>2 DEF Consume
  <2>5. CASE Revocation
    BY <2>5 DEF Revocation, VoidPending, CommitRevocation, RollBackRevocation
  <2> QED BY <2>1, <2>2, <2>3, <2>4, <2>5, StoreSteps
<1>d. Doomed'
  <2>1. CASE UNCHANGED <<revoking, doomed>>
    BY <2>1 DEF PasskeyInv, Doomed
  <2>2. CASE \/ \E a \in Approval : Create(a)
             \/ \E c \in Caller : CreateSigningCredential(c) \/ Consume(c)
    BY <2>1, <2>2 DEF Create, CreateSigningCredential, Consume
  <2>3. CASE Revocation
    BY <2>3 DEF Revocation, VoidPending, CommitRevocation, RollBackRevocation, Doomed
  <2> QED BY <2>1, <2>2, <2>3, StoreSteps
<1>2. ASSUME NEW c \in Caller, call'[c].pc = "mark"  PROVE Live(c)'
  <2>1. CASE call'[c] # call[c]
    BY <1>2, <2>1, LooksUpFirst DEF Live, SignedBySelf, storeVars, Found, Signing
  <2>2. CASE call'[c] = call[c]
    <3> DEFINE a == call[c].approval
               k == call[c].credential
    <3>1. /\ HolderOf[k] = ActorOf[a] /\ a \in Approval
          /\ k \in creds \/ row[a].status = "signed" \/ a \in late
          /\ row[a] \in Row /\ row[a].status # "none"
      BY <1>2, <2>2 DEF PasskeyInv, Asked, Live, At, SignedBySelf, RowOf, Signing
    <3>2. row[a].status = "signed" => row'[a].status = "signed"
      BY <3>1, ForGood DEF Stays
    <3>3. k \in creds' \/ row'[a].status = "signed" \/ a \in late'
      <4>1. CASE UNCHANGED <<creds, late>>
        BY <3>1, <3>2, <4>1
      <4>2. ASSUME NEW b \in Approval, Create(b)  PROVE UNCHANGED creds /\ late \subseteq late'
        BY <4>2 DEF Create
      <4>3. ASSUME NEW d \in Caller, CreateSigningCredential(d)  PROVE creds \subseteq creds' /\ UNCHANGED late
        BY <4>3 DEF CreateSigningCredential
      <4>4. ASSUME NEW d \in Caller, Consume(d)
            PROVE  UNCHANGED creds /\ (a \in late => a \in late' \/ row'[a].status = "signed")
        <5>1. CASE UNCHANGED <<row, late>>
          BY <4>4, <5>1 DEF Consume
        <5>2. CASE \E fate : MarkSigned(d, fate)
          <6>1. row' = [row EXCEPT ![call[d].approval].status = "signed"] /\ late' = late \ {call[d].approval}
            BY <5>2 DEF MarkSigned
          <6> QED BY <3>1, <4>4, <6>1 DEF Consume, Row
        <5> QED BY <4>4, <5>1, <5>2 DEF Consume
      <4>5. CASE CommitRevocation
        <5>1. a \in locked => row'[a].status = "signed"
          BY <3>1, <4>5 DEF CommitRevocation, Voided, Row
        <5>2. CASE k \in creds /\ k \in doomed
          <6>1. CASE row[a].status = "pending"
            BY <3>1, <5>1, <5>2, <4>5, <6>1 DEF PasskeyInv, Taken, Doomed, CommitRevocation
          <6>2. CASE row[a].status = "signed"
            BY <3>2, <6>2
          <6> QED BY <3>1, <6>1, <6>2 DEF Row
        <5>3. CASE k \in creds \ doomed
          BY <4>5, <5>3 DEF CommitRevocation
        <5>4. CASE k \notin creds
          BY <3>1, <3>2, <5>1, <5>4, <4>5 DEF CommitRevocation
        <5> QED BY <5>2, <5>3, <5>4
      <4>6. CASE RollBackRevocation \/ \E actor \in Actor : VoidPending(actor)
        BY <4>1, <4>6 DEF RollBackRevocation, VoidPending
      <4> QED BY <3>1, <3>2, <4>1, <4>2, <4>3, <4>4, <4>5, <4>6, StoreSteps DEF Revocation
    <3> QED BY <1>2, <2>2, <3>1, <3>3 DEF Live, SignedBySelf, RowOf
  <2> QED BY <2>1, <2>2
<1>3. ASSUME NEW c \in Caller, call'[c].pc \in Signing  PROVE Asked(c)'
  <2>1. CASE call'[c] # call[c]
    <3>1. UNCHANGED storeVars /\ Found(c)
      BY <1>3, <2>1, LooksUpFirst
    <3> QED BY <1>3, <3>1 DEF PasskeyInv, Asked, RowOf, storeVars, Found, Signing
  <2>2. CASE call'[c] = call[c]
    BY <1>3, <2>2, ForGood DEF PasskeyInv, Asked, RowOf, Stays
  <2> QED BY <2>1, <2>2
<1> QED BY <1>1, <1>d, <1>2, <1>3 DEF PasskeyInv, Live, Asked, At

(***************************************************************************)
(* A passkey a revocation deleted consumes no approval that was there when *)
(* it began, in whatever step of its ceremony a request is caught: "the    *)
(* lost device can no longer sign an approval" (revocation.py:5).          *)
(***************************************************************************)
THEOREM RevokedPasskeysSignNothing == Spec => SignedWithLivePasskey
<1>1. Init => PasskeyInv
  BY DEF Init, PasskeyInv, Taken, Doomed, Asked, Live, At, Idle, Signing
<1>2. IInv /\ PasskeyInv /\ [Next]_vars => PasskeyInv'
  BY PasskeysKept
<1>3. ASSUME IInv, PasskeyInv, [Next]_vars, NEW a \in Approval \ late, consumed'[a] = "signed", consumed[a] # "signed"
      PROVE  \E c \in Caller : \E k \in creds : SignedBy(c, a, k)
  <2> USE DEF IInv, TypeOK
  <2>1. PICK c \in Caller : Consume(c)
    <3>1. ~CommitRevocation
      BY <1>3 DEF CommitRevocation
    <3>2. ~UNCHANGED consumed
      BY <1>3
    <3> QED BY <1>3, <3>1, <3>2, ConsumedByConsume
  <2>2. At(c, "mark") /\ StillPending(c) /\ call[c].approval = a
    BY <1>3, <2>1 DEF Consume, MarkSigned
  <2>3. call[c].credential \in creds
    BY <1>3, <2>2 DEF PasskeyInv, Live, StillPending
  <2>4. call'[c].pc = "count"
    <3>1. call' = [call EXCEPT ![c] = [Idle EXCEPT !.pc = "count", !.approval = a, !.result = "none"]]
      BY <2>1, <2>2 DEF Consume, Continue
    <3>2. call'[c] = [Idle EXCEPT !.pc = "count", !.approval = a, !.result = "none"]
      <4>1. call \in [Caller -> Call]
        BY <1>3
      <4> QED BY ONLY <3>1, <4>1, c \in Caller
    <3> QED BY <3>2 DEF Idle
  <2> QED BY <2>2, <2>3, <2>4 DEF SignedBy
<1>4. IInv /\ PasskeyInv /\ [Next]_vars =>
        [\A a \in Approval \ late : consumed'[a] = "signed" /\ consumed[a] # "signed" =>
           \E c \in Caller : \E k \in creds : SignedBy(c, a, k)]_vars
  BY <1>3
<1> QED BY <1>1, <1>2, <1>4, IInvHolds, PTL DEF Spec, SignedWithLivePasskey
=============================================================================
