------------------------ MODULE RunLifecycle_proofs ------------------------
(***************************************************************************)
(* Theorems about RunLifecycle, for every number of attempts, every number  *)
(* of workers and every set of stage outcomes.                              *)
(*                                                                         *)
(*   TypeCorrect       Spec      => []TypeOK                                *)
(*   GatesHold         Spec      => []GateIntegrity                         *)
(*   OneWorkerDrives   Spec      => []OneDriver                             *)
(*   WaitsHold         Spec      => []WaitCoherent                          *)
(*   EndsAreClean      Spec      => []TerminalClean                         *)
(*   CompletedStays    Spec      => CompletedIsFinal                        *)
(*   QuietSession      QuietSpec => []SessionProjectsRun                    *)
(*   QuietOneActive    QuietSpec => []OneActiveRun                          *)
(*   QuietKeepsContract QuietSpec => KeepsContract                          *)
(*   PausedCanResume   QuietSpec => []PausedResumable                       *)
(*   WholeChain        QuietSpec => []CompletedThroughChain                 *)
(***************************************************************************)
EXTENDS RunLifecycle, TLAPS

-----------------------------------------------------------------------------
(* The inductive invariant behind GateIntegrity and OneDriver               *)

\* The stages of a run after gate have not been entered.
NothingBehind(r, gate) ==
  /\ node[r] \notin BehindGate(gate)
  /\ \A s \in BehindGate(gate) \intersect StageTypes : rows[r][s] = "none"

\* A run that was not created yet.
Untouched(r) ==
  /\ runStatus[r] = "none"
  /\ rows[r] = NoRows
  /\ node[r] = FirstStage
  /\ request[r] = NoRequest
  /\ Idle(r)

\* The worker that drives r stands where the run stands, and the worker that will
\* carry a decision out stands at the gate the decision was taken at.
Stands(r, w) ==
  /\ worker[r][w].job = "next" =>
       \/ stageOf[r] = FirstStage /\ node[r] = FirstStage
       \/ node[r] = SuccessNode[stageOf[r]]
  /\ worker[r][w].job # "next" => worker[r][w].stage = stageOf[r]
  /\ worker[r][w].job = "asking" => rows[r][stageOf[r]] # "none"
  /\ worker[r][w].job \in {"approved", "rejected"} => stageOf[r] \in GatedStages
  /\ worker[r][w].job = "approved" => decision[r][stageOf[r]] = "approved"

\* Who works on a run that is followed: one worker that drives it, and beside it
\* those whose request was answered before their step ended.
WorkRun(r) ==
  /\ \A u, w \in Driving(r) : u = w
  /\ request[r].status = "pending" => \A w \in Driving(r) : worker[r][w].job = "asking"
  /\ stageOf[r] = "none" => Driving(r) = {}
  /\ \A w \in Driving(r) : Stands(r, w)
  /\ \A w \in Workers : worker[r][w].job = "answered" =>
       worker[r][w].stage \in StageTypes /\ rows[r][worker[r][w].stage] # "none"
  /\ Undisturbed(r) => \A w \in Workers : worker[r][w].job # "answered"

\* What the gates mean for one run: it is behind exactly the gates whose latest
\* decision approved it.
GateRun(r) ==
  /\ r > session.current => stageOf[r] = "none" /\ Untouched(r)
  /\ stageOf[r] = "none" =>
       \/ Untouched(r)
       \/ /\ runStatus[r] = "completed"
          /\ \A gate \in GatedStages : decision[r][gate] = "approved"
  /\ \A gate \in GatedStages :
       IF stageOf[r] \in BehindGate(gate)
       THEN decision[r][gate] = "approved"
       ELSE stageOf[r] # "none" => NothingBehind(r, gate)
  /\ Followed(r) => WorkRun(r)

GateInv == TypeOK /\ \A r \in Runs : GateRun(r)

\* Only a run that is followed gets a command or a worker's step.
LEMMA FollowedOnly ==
  ASSUME NEW r \in Runs
  PROVE  /\ ResumeRun(r) \/ AnAnswer(r) \/ Interruption(r) => Followed(r)
         /\ \A w \in Workers : Worker(r, w) => Followed(r)
<1>1. ResumeRun(r) \/ AnAnswer(r) \/ Interruption(r) => Followed(r)
  BY DEF ResumeRun, AnAnswer, AnswerClarification, SubmitApproval, SubmitToolConfirmation,
         Interruption, PauseRun, TerminateRun
<1>2. ASSUME NEW w \in Workers, Worker(r, w) PROVE Followed(r)
  BY <1>2 DEF Worker, RunNextStage, EnterGate, CompleteRun, RunNextRefused, ResumeApproval,
              ResumeToolConfirmation, ResumeRefused, FinishAsking, AskAgain, AskingRaises
<1>3. QED BY <1>1, <1>2

-----------------------------------------------------------------------------
(* Types                                                                    *)

\* The three things a step leaves its worker with.
LEMMA WorkTyped ==
  /\ NoWork \in Work /\ NextStep \in Work
  /\ \A s \in StageTypes : [job |-> "asking", ref |-> "none", stage |-> s] \in Work
  BY DEF Work, NoWork, NextStep, Jobs, CheckpointRefs

\* The initial state is well typed.
LEMMA InitTyped == Init => TypeOK
<1> SUFFICES ASSUME Init PROVE TypeOK
  OBVIOUS
<1>1. worker \in [Runs -> [Workers -> Work]]
  BY WorkTyped DEF Init
<1>2. rows \in [Runs -> [StageTypes -> StageStatuses \union {"none"}]]
  BY DEF Init, NoRows
<1>3. /\ request \in [Runs -> [kind: WaitKinds \union {"none"}, stage: StageTypes \union {"none"},
                               status: RequestStatuses \union {"none"}]]
      /\ recovery \in [Runs -> [run: RunStatuses \union {"none"},
                                session: RunStatuses \union {"draft", "none"},
                                stage: StageTypes \union {"none"},
                                row: StageStatuses \union {"none"}]]
  BY DEF Init, NoRequest, NoRecovery
<1>4. 0 \in 0..MaxRuns /\ FirstStage \in Nodes /\ "none" \in CheckpointRefs
  BY ConstantsAssumption DEF FirstStage, Nodes, StageTypes, CheckpointRefs
<1>5. QED BY <1>1, <1>2, <1>3, <1>4 DEF Init, TypeOK

\* The waiting status of each kind.
LEMMA WaitingStatuses3 ==
  /\ WaitingStatus("clarification") = "waiting_clarification"
  /\ WaitingStatus("approval") = "waiting_approval"
  /\ WaitingStatus("tool_confirmation") = "waiting_tool_confirmation"
  BY Zenon DEF WaitingStatus

\* What a worker is told to do is well typed.
LEMMA PutTyped ==
  ASSUME TypeOK, NEW r \in Runs, NEW w \in Workers,
         NEW work \in Work,
         Put(r, w, work)
  PROVE  worker' \in [Runs -> [Workers -> Work]]
  BY DEF Put, TypeOK

\* An answer hands typed work to a new worker.
LEMMA ResumeAsyncTyped ==
  ASSUME TypeOK, NEW r \in Runs, NEW job \in Jobs, ResumeAsync(r, job)
  PROVE  worker' \in [Runs -> [Workers -> Work]]
<1>1. PICK w \in Workers \ AtWork(r) :
        worker' = [worker EXCEPT ![r] =
          [u \in Workers |->
             IF u = w THEN [job |-> job, ref |-> checkpoint[r], stage |-> stageOf[r]]
             ELSE IF @[u].job = "asking" THEN [@[u] EXCEPT !.job = "answered"] ELSE @[u]]]
  BY DEF ResumeAsync
<1>2. [job |-> job, ref |-> checkpoint[r], stage |-> stageOf[r]] \in Work
  BY DEF TypeOK, Work
<1>3. ASSUME NEW u \in Workers
      PROVE  worker[r][u] \in Work /\ [worker[r][u] EXCEPT !.job = "answered"] \in Work
  <2>1. worker[r][u] \in Work
    BY DEF TypeOK
  <2>2. QED BY <2>1 DEF Work, Jobs
<1>4. QED BY <1>1, <1>2, <1>3 DEF TypeOK

\* The status of a request changes within its type.
LEMMA RequestTyped ==
  ASSUME TypeOK, NEW r \in Runs, NEW status \in RequestStatuses \union {"none"},
         request' = [request EXCEPT ![r].status = status]
  PROVE  request' \in [Runs -> [kind: WaitKinds \union {"none"},
                                stage: StageTypes \union {"none"},
                                status: RequestStatuses \union {"none"}]]
<1> DEFINE Request == [kind: WaitKinds \union {"none"}, stage: StageTypes \union {"none"},
                       status: RequestStatuses \union {"none"}]
<1>1. request \in [Runs -> Request]
  BY DEF TypeOK
<1>2. [request[r] EXCEPT !.status = status] \in Request
  BY <1>1
<1>3. request' = [request EXCEPT ![r] = [request[r] EXCEPT !.status = status]]
  BY <1>1
<1> HIDE DEF Request
<1>4. request' \in [Runs -> Request]
  BY <1>1, <1>2, <1>3
<1>5. QED BY <1>4 DEF Request

\* Every command keeps the types.
LEMMA CommandTyped ==
  ASSUME GateInv, NEW r \in Runs, ResumeRun(r) \/ AnAnswer(r) \/ Interruption(r)
  PROVE  TypeOK'
<1>0. TypeOK /\ GateRun(r)
  BY DEF GateInv
<1>1. CASE ResumeRun(r)
  BY <1>0, <1>1
  DEF ResumeRun, RecoveryUsable, ResumedThread, ProjectSessionStatus, CheckpointRefs, TypeOK,
      RunStatuses, ActiveStatuses, WaitingStatuses, ShowStatus, workerVars
<1>2. ASSUME NEW kind \in WaitKinds, NEW status \in RequestStatuses, NEW row \in StageStatuses,
             NEW job \in Jobs, Answerable(r, kind), Answer(r, status, row, job),
             decision' \in [Runs -> [GatedStages -> {"none", "approved", "rejected"}]]
      PROVE  TypeOK'
  <2>1. stageOf[r] \in StageTypes
    BY <1>0, <1>2, WaitingStatuses3 DEF Answerable, WaitKinds, GateRun, Untouched, TypeOK
  <2>2. worker' \in [Runs -> [Workers -> Work]]
    BY <1>0, <1>2, ResumeAsyncTyped DEF Answer
  <2>3. overtaken' \in [Runs -> {"no", "answered", "asked_again"}]
    BY <1>0, <1>2 DEF Answer, TypeOK
  <2>4. session' \in [status: RunStatuses \union {"draft"}, current: 0..MaxRuns,
                      latest: StageTypes \union {"none"}]
    BY <1>0, <1>2 DEF Answer, ShowStatus, TypeOK, RunStatuses, ActiveStatuses
  <2>5. /\ runStatus' \in [Runs -> RunStatuses \union {"none"}]
        /\ rows' \in [Runs -> [StageTypes -> StageStatuses \union {"none"}]]
        /\ request' \in [Runs -> [kind: WaitKinds \union {"none"},
                                  stage: StageTypes \union {"none"},
                                  status: RequestStatuses \union {"none"}]]
    BY <1>0, <1>2, <2>1, RequestTyped DEF Answer, TypeOK, RunStatuses, ActiveStatuses
  <2>6. UNCHANGED <<stageOf, recovery, thread, interrupt, checkpoint, node>>
    BY <1>2 DEF Answer, graphVars
  <2>7. QED BY <1>0, <1>2, <2>2, <2>3, <2>4, <2>5, <2>6 DEF TypeOK
<1>a. decision \in [Runs -> [GatedStages -> {"none", "approved", "rejected"}]]
  BY <1>0 DEF TypeOK
<1>b. "running" \in StageStatuses /\ "completed" \in StageStatuses
  BY DEF StageStatuses, TerminalStatuses
<1>3. CASE AnswerClarification(r)
  BY <1>a, <1>b, <1>2, <1>3 DEF AnswerClarification, WaitKinds, RequestStatuses, Jobs
<1>4. ASSUME NEW verdict \in {"approved", "rejected"}, SubmitApproval(r, verdict)
      PROVE  TypeOK'
  BY <1>a, <1>b, <1>2, <1>4 DEF SubmitApproval, WaitKinds, RequestStatuses, Jobs
<1>5. ASSUME NEW verdict \in {"allowed", "denied"}, SubmitToolConfirmation(r, verdict)
      PROVE  TypeOK'
  BY <1>a, <1>b, <1>2, <1>5 DEF SubmitToolConfirmation, WaitKinds, RequestStatuses, Jobs
<1>6. CASE PauseRun(r)
  <2>1. recovery' \in [Runs -> [run: RunStatuses \union {"none"},
                                session: RunStatuses \union {"draft", "none"},
                                stage: StageTypes \union {"none"},
                                row: StageStatuses \union {"none"}]]
    BY <1>0, <1>6 DEF PauseRun, ActiveContext, RecoveryOf, TypeOK
  <2>2. UNCHANGED <<stageOf, rows, request, decision, interrupt, node, worker, overtaken>>
    BY <1>6 DEF PauseRun, workerVars
  <2>3. /\ runStatus' = [runStatus EXCEPT ![r] = "paused"]
        /\ session' = [session EXCEPT !.status = "paused"]
        /\ thread' = [thread EXCEPT ![r] = "paused"]
        /\ checkpoint' = [checkpoint EXCEPT ![r] = "control"]
    BY <1>6 DEF PauseRun, ShowStatus
  <2>4. "paused" \in RunStatuses /\ "control" \in CheckpointRefs
    BY DEF RunStatuses, ActiveStatuses, CheckpointRefs
  <2>5. QED BY <1>0, <2>1, <2>2, <2>3, <2>4 DEF TypeOK
<1>7. CASE TerminateRun(r)
  <2>1. /\ runStatus' = [runStatus EXCEPT ![r] = "terminated"]
        /\ rows' = [rows EXCEPT ![r][stageOf[r]] = "terminated"]
        /\ session' = [session EXCEPT !.status = "terminated"]
        /\ thread' = [thread EXCEPT ![r] = "terminated"]
        /\ interrupt' = [interrupt EXCEPT ![r] = CancelPending(@)]
        /\ request' = [request EXCEPT ![r].status =
                         IF request[r].kind = "tool_confirmation"
                         THEN CancelPending(request[r].status) ELSE request[r].status]
        /\ UNCHANGED <<stageOf, decision, recovery, checkpoint, node, worker, overtaken>>
    BY <1>0, <1>7 DEF TerminateRun, CancelConfirmation, ShowStatus, workerVars, TypeOK
  <2>2. stageOf[r] \in StageTypes
    BY <1>0, <1>7 DEF TerminateRun, ActiveContext, TypeOK
  <2>3. /\ \A st \in RequestStatuses \union {"none"} :
             CancelPending(st) \in RequestStatuses \union {"none"}
        /\ \A st \in {"none", "pending", "responded", "cancelled"} :
             CancelPending(st) \in {"none", "pending", "responded", "cancelled"}
    BY DEF CancelPending, RequestStatuses
  <2>4. request' \in [Runs -> [kind: WaitKinds \union {"none"},
                                  stage: StageTypes \union {"none"},
                                  status: RequestStatuses \union {"none"}]]
    BY <1>0, <2>1, <2>3, RequestTyped DEF TypeOK
  <2>a. interrupt' \in [Runs -> {"none", "pending", "responded", "cancelled"}]
    BY <1>0, <2>1, <2>3 DEF TypeOK
  <2>5. "terminated" \in RunStatuses /\ "terminated" \in StageStatuses /\ "terminated" \in TerminalStatuses
    BY DEF RunStatuses, StageStatuses, TerminalStatuses
  <2>6. QED BY <1>0, <2>1, <2>2, <2>4, <2>a, <2>5 DEF TypeOK
<1>8. QED BY <1>1, <1>3, <1>4, <1>5, <1>6, <1>7 DEF AnAnswer, Interruption

\* The failure projection keeps the types, whatever the step flushed before it.
LEMMA FailTyped ==
  ASSUME TypeOK, NEW r \in Runs, NEW w \in Workers,
         NEW rs \in [Runs -> [StageTypes -> StageStatuses \union {"none"}]],
         NEW st \in [Runs -> StageTypes \union {"none"}],
         NEW it \in [Runs -> {"none", "pending", "responded", "cancelled"}],
         MarkFailed(r, w, rs, st, it)
  PROVE  TypeOK'
<1>1. worker' \in [Runs -> [Workers -> Work]]
  BY PutTyped, WorkTyped DEF MarkFailed, Leave
<1>2. QED
  BY <1>1 DEF MarkFailed, ShowStage, CancelPending, TypeOK, RunStatuses,
              StageStatuses, TerminalStatuses

\* So does a step that is rolled back.
LEMMA RolledBackTyped ==
  ASSUME TypeOK, NEW r \in Runs, NEW w \in Workers, FailRolledBack(r, w)
  PROVE  TypeOK'
<1>1. CASE stageOf[r] # "none"
  BY <1>1, FailTyped DEF FailRolledBack, TypeOK
<1>2. CASE stageOf[r] = "none"
  BY <1>2, PutTyped, WorkTyped DEF FailRolledBack, Leave, TypeOK, runtimeVars, graphVars
<1>3. QED BY <1>1, <1>2

\* The stages the graph goes to next are nodes.
LEMMA SuccessNodeTyped == \A s \in StageTypes : SuccessNode[s] \in Nodes
  BY Zenon DEF SuccessNode, StageTypes, Nodes, Gates


\* Waiting keeps the types.
LEMMA WaitsTyped ==
  ASSUME TypeOK, NEW r \in Runs, NEW w \in Workers, NEW s \in StageTypes,
         NEW kind \in WaitKinds, StageWaits(r, w, s, kind),
         overtaken' \in [Runs -> {"no", "answered", "asked_again"}]
  PROVE  TypeOK'
<1>1. WaitingStatus(kind) \in WaitingStatuses
  BY WaitingStatuses3 DEF WaitingStatuses, WaitKinds
<1>2. worker' \in [Runs -> [Workers -> Work]]
  BY PutTyped, WorkTyped DEF StageWaits, Leave
<1>3. QED
  BY <1>1, <1>2
  DEF StageWaits, ShowWaiting, CreateRequest, CreateInterrupt, ShowStage, TypeOK, RunStatuses,
      ActiveStatuses, StageStatuses, CheckpointRefs, RequestStatuses, Nodes

\* One stage execution keeps the types.
LEMMA StageTyped ==
  ASSUME TypeOK, NEW r \in Runs, NEW w \in Workers, NEW s \in StageTypes, NEW resumed \in BOOLEAN,
         RunStage(r, w, s, resumed)
  PROVE  TypeOK'
<1>1. CASE StageCompletes(r, w, s, resumed)
  <2>1. worker' \in [Runs -> [Workers -> Work]]
    BY <1>1, PutTyped, WorkTyped DEF StageCompletes
  <2>2. QED
    BY <1>1, <2>1, SuccessNodeTyped
    DEF StageCompletes, ShowStage, Responded, TypeOK, RunStatuses, ActiveStatuses,
        StageStatuses, TerminalStatuses, CheckpointRefs
<1>2. CASE RequestConfirmation(r, w, s)
  <2>1. worker' \in [Runs -> [Workers -> Work]]
    BY <1>2, PutTyped, WorkTyped DEF RequestConfirmation
  <2>2. QED
    BY <1>2, <2>1, WaitingStatuses3
    DEF RequestConfirmation, ShowWaiting, CreateRequest, CreateInterrupt, ShowStage, TypeOK,
        RunStatuses, ActiveStatuses, WaitingStatuses, WaitKinds, StageStatuses, CheckpointRefs,
        RequestStatuses
<1>3. ASSUME NEW kind \in {"clarification", "tool_confirmation"}, StageWaits(r, w, s, kind),
             UNCHANGED overtaken
      PROVE  TypeOK'
  BY <1>3, WaitsTyped DEF WaitKinds, TypeOK
<1>4. CASE StageFails(r, w, s, resumed)
  <2>1. StartedRows(r, s) \in [Runs -> [StageTypes -> StageStatuses \union {"none"}]]
    BY DEF StartedRows, TypeOK, StageStatuses
  <2>2. StartedStage(r, s) \in [Runs -> StageTypes \union {"none"}]
    BY DEF StartedStage, TypeOK
  <2>3. Responded(r, resumed) \in [Runs -> {"none", "pending", "responded", "cancelled"}]
    BY DEF Responded, TypeOK
  <2>4. QED BY <1>4, <2>1, <2>2, <2>3, FailTyped DEF StageFails
<1>5. QED
  BY <1>1, <1>2, <1>3, <1>4, RolledBackTyped DEF RunStage, WaitRefused, StageRaises

\* A worker of a followed run that holds a request knows its stage.
LEMMA RequestStage ==
  ASSUME GateInv, NEW r \in Runs, Followed(r), NEW w \in Workers,
         worker[r][w].job \in {"allowed", "asking", "answered"},
         worker[r][w].job = "allowed" => stageOf[r] # "none"
  PROVE  worker[r][w].stage \in StageTypes
<1>1. TypeOK /\ WorkRun(r)
  BY DEF GateInv, GateRun
<1>2. CASE worker[r][w].job = "answered"
  BY <1>1, <1>2 DEF WorkRun
<1>3. CASE worker[r][w].job # "answered"
  <2>1. w \in Driving(r)
    BY <1>3 DEF Driving, AtWork
  <2>2. Stands(r, w) /\ stageOf[r] # "none" /\ stageOf[r] \in StageTypes \union {"none"}
    BY <1>1, <2>1 DEF WorkRun, TypeOK
  <2>3. QED BY <1>3, <2>2 DEF Stands
<1>4. QED BY <1>2, <1>3

\* Every worker step keeps the types.
LEMMA WorkerTyped ==
  ASSUME GateInv, NEW r \in Runs, Followed(r), NEW w \in Workers, Worker(r, w)
  PROVE  TypeOK'
<1>0. TypeOK
  BY DEF GateInv
<1>1. CASE RunNextStage(r, w)
  BY <1>0, <1>1, StageTyped DEF RunNextStage
<1>2. CASE EnterGate(r, w)
  <2>1. GateSource(node[r]) \in StageTypes
    BY DEF GateSource, StageTypes
  <2>2. worker' \in [Runs -> [Workers -> Work]]
    BY <1>0, <1>2, PutTyped, WorkTyped DEF EnterGate, Leave
  <2>3. QED
    BY <1>0, <1>2, <2>1, <2>2, WaitingStatuses3
    DEF EnterGate, ShowWaiting, CreateRequest, CreateInterrupt, ShowStage, TypeOK, RunStatuses,
        ActiveStatuses, WaitingStatuses, WaitKinds, StageStatuses, CheckpointRefs, RequestStatuses
<1>3. CASE CompleteRun(r, w)
  <2>1. worker' \in [Runs -> [Workers -> Work]]
    BY <1>0, <1>3, PutTyped, WorkTyped DEF CompleteRun, Leave
  <2>2. QED
    BY <1>0, <1>3, <2>1 DEF CompleteRun, ShowStatus, TypeOK, RunStatuses, TerminalStatuses
<1>4. CASE RunNextRefused(r, w) \/ ResumeRefused(r, w) \/ AskingRaises(r, w)
  BY <1>0, <1>4, RolledBackTyped DEF RunNextRefused, ResumeRefused, AskingRaises, StageRaises
<1>5. CASE ResumeApproval(r, w)
  <2>1. \A s : ApprovedTarget(s) \in StageTypes /\ RejectedTarget(s) \in StageTypes
    BY DEF ApprovedTarget, RejectedTarget, StageTypes
  <2>2. QED BY <1>0, <1>5, <2>1, StageTyped DEF ResumeApproval
<1>6. CASE ResumeToolConfirmation(r, w)
  BY <1>0, <1>6, RequestStage, StageTyped DEF ResumeToolConfirmation
<1>7. CASE FinishAsking(r, w)
  <2>1. worker[r][w].stage \in StageTypes
    BY <1>7, RequestStage DEF FinishAsking, OwnPending
  <2>2. worker' \in [Runs -> [Workers -> Work]]
    BY <1>0, <1>7, PutTyped, WorkTyped DEF FinishAsking, Leave
  <2>3. QED
    BY <1>0, <1>7, <2>1, <2>2, WaitingStatuses3
    DEF FinishAsking, ShowWaiting, ShowStage, TypeOK, RunStatuses, ActiveStatuses,
        WaitingStatuses, StageStatuses, Nodes
<1>8. CASE AskAgain(r, w)
  <2>1. worker[r][w].stage \in StageTypes
    BY <1>8, RequestStage DEF AskAgain
  <2>2. ASSUME overtaken' = [overtaken EXCEPT ![r] = "asked_again"]
        PROVE  overtaken' \in [Runs -> {"no", "answered", "asked_again"}]
    BY <1>0, <2>2 DEF TypeOK
  <2>3. QED
    BY <1>0, <1>8, <2>1, <2>2, WaitsTyped, RolledBackTyped DEF AskAgain, WaitRefused, WaitKinds
<1>9. QED BY <1>1, <1>2, <1>3, <1>4, <1>5, <1>6, <1>7, <1>8 DEF Worker

\* Creating a run and losing the workers keep the types.
LEMMA LifeTyped ==
  ASSUME GateInv, StartFirstRun \/ CreateRerun \/ Crash
  PROVE  TypeOK'
<1>0. TypeOK
  BY DEF GateInv
<1>1. ASSUME NEW r \in Runs, Publish(r) PROVE TypeOK'
  <2>1. worker' \in [Runs -> [Workers -> Work]]
    BY <1>0, <1>1, PutTyped, WorkTyped DEF Publish
  <2>2. QED
    BY <1>0, <1>1, <2>1
    DEF Publish, TypeOK, Runs, RunStatuses, ActiveStatuses, StageTypes, FirstStage, StageStatuses
<1>2. CASE StartFirstRun
  BY <1>1, <1>2, ConstantsAssumption DEF StartFirstRun, Runs
<1>3. CASE CreateRerun
  BY <1>1, <1>3, ConstantsAssumption DEF CreateRerun, Runs
<1>4. CASE Crash
  BY <1>0, <1>4, WorkTyped DEF Crash, TypeOK, runtimeVars, graphVars
<1>5. QED BY <1>2, <1>3, <1>4

-----------------------------------------------------------------------------
(* Gates and who works on a run                                             *)

\* The graph, seen from its gates: the success edges neither enter nor leave the
\* part behind a gate, and a stage's gate is filed under that stage.
LEMMA GateGraph ==
  /\ \A s \in StageTypes : \A gate \in GatedStages :
       SuccessNode[s] \in BehindGate(gate) <=> s \in BehindGate(gate)
  /\ \A s \in StageTypes : SuccessNode[s] \in Gates => GateSource(SuccessNode[s]) = s
  /\ \A s \in StageTypes : SuccessNode[s] = "end" => s = "delivery_integration"
  /\ \A gate \in GatedStages :
       /\ FirstStage \notin BehindGate(gate) /\ "none" \notin BehindGate(gate)
       /\ "blocked" \notin BehindGate(gate) /\ gate \notin BehindGate(gate)
  /\ "none" \notin StageTypes /\ GatedStages \subseteq StageTypes
<1>1. /\ SuccessNode["requirement_analysis"] = "solution_design"
      /\ SuccessNode["solution_design"] = "solution_design.approval_gate"
      /\ SuccessNode["code_generation"] = "test_generation_execution"
      /\ SuccessNode["test_generation_execution"] = "code_review"
      /\ SuccessNode["code_review"] = "code_review.approval_gate"
      /\ SuccessNode["delivery_integration"] = "end"
  BY Zenon DEF SuccessNode, StageTypes
<1>2. QED BY <1>1 DEF StageTypes, GatedStages, BehindGate, Gates, GateSource, FirstStage

\* What a worker's step does to the workers.
LEMMA PutWork ==
  ASSUME TypeOK, NEW r \in Runs, NEW w \in Workers, NEW work, Put(r, w, work)
  PROVE  /\ worker'[r][w] = work
         /\ \A v \in Workers \ {w} : worker'[r][v] = worker[r][v]
         /\ \A q \in Runs \ {r} : worker'[q] = worker[q]
  BY DEF Put, TypeOK

\* A worker that leaves: if it drove the run, nobody does.
LEMMA LeaveWork ==
  ASSUME TypeOK, NEW r \in Runs, NEW w \in Workers, Leave(r, w)
  PROVE  /\ \A v \in Workers : worker'[r][v] \in {worker[r][v], NoWork}
         /\ \A q \in Runs \ {r} : worker'[q] = worker[q]
         /\ worker'[r][w] = NoWork
         /\ WorkRun(r) /\ w \in Driving(r) => Driving(r)' = {}
<1>1. /\ worker'[r][w] = NoWork
      /\ \A v \in Workers \ {w} : worker'[r][v] = worker[r][v]
      /\ \A q \in Runs \ {r} : worker'[q] = worker[q]
  BY PutWork DEF Leave
<1>2. WorkRun(r) /\ w \in Driving(r) => Driving(r)' = {}
  BY <1>1 DEF WorkRun, Driving, AtWork, NoWork
<1>3. QED BY <1>1, <1>2

\* A step that leaves a run alone leaves its invariant alone.
LEMMA GateFrame ==
  ASSUME NEW q \in Runs, GateRun(q), session.current \in Nat, session'.current \in Nat,
         session'.current >= session.current,
         runStatus'[q] = runStatus[q], stageOf'[q] = stageOf[q], rows'[q] = rows[q],
         request'[q] = request[q], decision'[q] = decision[q], node'[q] = node[q],
         worker'[q] = worker[q], overtaken'[q] = overtaken[q]
  PROVE  GateRun(q)'
<1>1. Untouched(q) <=> Untouched(q)'
  BY DEF Untouched, Idle, AtWork
<1>2. WorkRun(q) => WorkRun(q)'
  BY DEF WorkRun, Driving, AtWork, Stands, Undisturbed
<1>3. \A gate : NothingBehind(q, gate) => NothingBehind(q, gate)'
  BY DEF NothingBehind
<1>4. QED BY <1>1, <1>2, <1>3 DEF GateRun, Followed, Runs

\* A run that stays in its stage keeps its invariant, while workers only leave.
LEMMA GateSameStage ==
  ASSUME NEW r \in Runs, GateRun(r), stageOf[r] \in StageTypes,
         session'.current = session.current,
         stageOf'[r] = stageOf[r], decision'[r] = decision[r], node'[r] \in {node[r], "blocked"},
         \A v \in Workers : worker'[r][v] \in {worker[r][v], NoWork},
         \A s \in StageTypes : s # stageOf[r] => rows'[r][s] = rows[r][s],
         rows[r][stageOf[r]] # "none" => rows'[r][stageOf[r]] # "none",
         Followed(r)' =>
           /\ overtaken'[r] = overtaken[r]
           /\ \/ Driving(r)' = {}
              \/ /\ node'[r] = node[r]
                 /\ request'[r].status = "pending" => request[r].status = "pending"
  PROVE  GateRun(r)'
<1>1. stageOf[r] # "none" /\ ~(r > session.current)
  BY GateGraph DEF GateRun
<1>2. \A gate \in GatedStages :
        IF stageOf'[r] \in BehindGate(gate) THEN decision'[r][gate] = "approved"
                                            ELSE NothingBehind(r, gate)'
  BY <1>1, GateGraph DEF GateRun, NothingBehind
<1>3. ASSUME Followed(r)' PROVE WorkRun(r)'
  <2>1. WorkRun(r)
    BY <1>3 DEF GateRun, Followed
  <2>2. \A w \in Workers : /\ w \in Driving(r)' => w \in Driving(r) /\ worker'[r][w] = worker[r][w]
                           /\ worker'[r][w].job = "answered" => worker'[r][w] = worker[r][w]
    BY DEF Driving, AtWork, NoWork
  <2>3. \A w \in Driving(r)' : Stands(r, w)'
    BY <1>3, <2>1, <2>2 DEF WorkRun, Stands, Driving, AtWork
  <2>4. QED
    BY <1>1, <1>3, <2>1, <2>2, <2>3 DEF WorkRun, Undisturbed, Driving, AtWork
<1>4. QED BY <1>1, <1>2, <1>3 DEF GateRun

\* Where a run has no stage, workers can only leave.
LEMMA GateLeave ==
  ASSUME TypeOK, NEW r \in Runs, GateRun(r), stageOf[r] = "none", NEW w \in Workers,
         w \in AtWork(r), Leave(r, w),
         UNCHANGED <<session, runtimeVars, graphVars, overtaken>>
  PROVE  \A q \in Runs : GateRun(q) => GateRun(q)'
<1>1. ~Untouched(r)
  BY DEF Untouched, Idle
<1>2. GateRun(r)'
  <2>1. WorkRun(r) => WorkRun(r)'
    BY LeaveWork DEF WorkRun, Driving, AtWork, Stands, Undisturbed, NoWork, runtimeVars, graphVars
  <2>2. QED BY <1>1, <2>1 DEF GateRun, NothingBehind, Followed, runtimeVars, graphVars
<1>3. ASSUME NEW q \in Runs \ {r}, GateRun(q) PROVE GateRun(q)'
  BY <1>3, LeaveWork, GateFrame DEF TypeOK, runtimeVars, graphVars
<1>4. QED BY <1>2, <1>3

\* What the failure projection does, whatever the step flushed before it.
LEMMA MarkFailedEffect ==
  ASSUME TypeOK, NEW r \in Runs, NEW w \in Workers, NEW rs, NEW st, NEW it,
         rs \in [Runs -> [StageTypes -> StageStatuses \union {"none"}]],
         st \in [Runs -> StageTypes \union {"none"}],
         it \in [Runs -> {"none", "pending", "responded", "cancelled"}],
         MarkFailed(r, w, rs, st, it), st[r] \in StageTypes,
         \A q \in Runs \ {r} : rs[q] = rows[q] /\ st[q] = stageOf[q] /\ it[q] = interrupt[q]
  PROVE  /\ session' = [status |-> "failed", current |-> session.current, latest |-> st[r]]
         /\ runStatus'[r] = "failed" /\ thread'[r] = "failed" /\ interrupt'[r] # "pending"
         /\ stageOf'[r] = st[r] /\ rows'[r][st[r]] = "failed"
         /\ \A s \in StageTypes \ {st[r]} : rows'[r][s] = rs[r][s]
         /\ Leave(r, w)
         /\ UNCHANGED <<request, decision, recovery, node, overtaken>>
         /\ \A q \in Runs \ {r} :
              /\ runStatus'[q] = runStatus[q] /\ stageOf'[q] = stageOf[q] /\ rows'[q] = rows[q]
              /\ thread'[q] = thread[q] /\ interrupt'[q] = interrupt[q]
<1>1. /\ session' = [session EXCEPT !.status = "failed", !.latest = st[r]]
      /\ runStatus' = [runStatus EXCEPT ![r] = "failed"]
      /\ thread' = [thread EXCEPT ![r] = "failed"]
      /\ interrupt' = [it EXCEPT ![r] = CancelPending(it[r])]
      /\ stageOf' = st /\ rows' = [rs EXCEPT ![r][st[r]] = "failed"]
      /\ Leave(r, w)
      /\ UNCHANGED <<request, decision, recovery, node, overtaken>>
  BY DEF MarkFailed, ShowStage
<1>2. session' = [status |-> "failed", current |-> session.current, latest |-> st[r]]
  BY <1>1 DEF TypeOK
<1>3. interrupt'[r] # "pending" /\ \A q \in Runs \ {r} : interrupt'[q] = interrupt[q]
  BY <1>1 DEF CancelPending
<1>4. /\ rows'[r][st[r]] = "failed" /\ \A s \in StageTypes \ {st[r]} : rows'[r][s] = rs[r][s]
      /\ \A q \in Runs \ {r} : rows'[q] = rows[q]
  BY <1>1
<1>5. /\ runStatus'[r] = "failed" /\ thread'[r] = "failed"
      /\ \A q \in Runs \ {r} : runStatus'[q] = runStatus[q] /\ thread'[q] = thread[q]
  BY <1>1 DEF TypeOK
<1>6. QED BY <1>1, <1>2, <1>3, <1>4, <1>5

\* A step that is rolled back fails the run where it stands.
LEMMA RolledBackEffect ==
  ASSUME TypeOK, NEW r \in Runs, NEW w \in Workers, FailRolledBack(r, w), stageOf[r] \in StageTypes
  PROVE  /\ session' = [status |-> "failed", current |-> session.current, latest |-> stageOf[r]]
         /\ runStatus'[r] = "failed" /\ thread'[r] = "failed" /\ interrupt'[r] # "pending"
         /\ stageOf'[r] = stageOf[r] /\ rows'[r][stageOf[r]] = "failed"
         /\ \A s \in StageTypes \ {stageOf[r]} : rows'[r][s] = rows[r][s]
         /\ Leave(r, w)
         /\ UNCHANGED <<request, decision, recovery, node, overtaken>>
         /\ \A q \in Runs \ {r} :
              /\ runStatus'[q] = runStatus[q] /\ stageOf'[q] = stageOf[q] /\ rows'[q] = rows[q]
              /\ thread'[q] = thread[q] /\ interrupt'[q] = interrupt[q]
<1>1. stageOf[r] # "none"
  BY GateGraph
<1>2. MarkFailed(r, w, rows, stageOf, interrupt)
  BY <1>1 DEF FailRolledBack
<1>3. /\ rows \in [Runs -> [StageTypes -> StageStatuses \union {"none"}]]
      /\ stageOf \in [Runs -> StageTypes \union {"none"}]
      /\ interrupt \in [Runs -> {"none", "pending", "responded", "cancelled"}]
  BY DEF TypeOK
<1>4. QED BY <1>2, <1>3, MarkFailedEffect

\* What showing a wait, filing its request and interrupting the thread do.
LEMMA WaitingEffect ==
  ASSUME TypeOK, NEW r \in Runs, NEW s \in StageTypes, NEW kind \in WaitKinds,
         ShowWaiting(r, s, kind)
  PROVE  /\ session' = [status |-> WaitingStatus(kind), current |-> session.current, latest |-> s]
         /\ runStatus'[r] = WaitingStatus(kind) /\ stageOf'[r] = s
         /\ rows'[r][s] = WaitingStatus(kind)
         /\ \A t \in StageTypes \ {s} : rows'[r][t] = rows[r][t]
         /\ \A q \in Runs \ {r} :
              runStatus'[q] = runStatus[q] /\ stageOf'[q] = stageOf[q] /\ rows'[q] = rows[q]
<1>1. PICK status : status = WaitingStatus(kind)
  OBVIOUS
<1>2. /\ session' = [session EXCEPT !.status = status, !.latest = s]
      /\ runStatus' = [runStatus EXCEPT ![r] = status]
      /\ stageOf' = [stageOf EXCEPT ![r] = s]
      /\ rows' = [rows EXCEPT ![r][s] = status]
  BY <1>1 DEF ShowWaiting, ShowStage
<1>3. session' = [status |-> status, current |-> session.current, latest |-> s]
  BY <1>2 DEF TypeOK
<1>4. /\ rows'[r][s] = status /\ \A t \in StageTypes \ {s} : rows'[r][t] = rows[r][t]
      /\ \A q \in Runs \ {r} : rows'[q] = rows[q]
  BY <1>2 DEF TypeOK
<1>5. /\ runStatus'[r] = status /\ stageOf'[r] = s
      /\ \A q \in Runs \ {r} : runStatus'[q] = runStatus[q] /\ stageOf'[q] = stageOf[q]
  BY <1>2 DEF TypeOK
<1>6. QED BY <1>1, <1>3, <1>4, <1>5

LEMMA InterruptEffect ==
  ASSUME TypeOK, NEW r \in Runs, NEW ref, CreateInterrupt(r, ref)
  PROVE  /\ thread'[r] = "interrupted" /\ interrupt'[r] = "pending"
         /\ \A q \in Runs \ {r} : thread'[q] = thread[q] /\ interrupt'[q] = interrupt[q]
  BY DEF CreateInterrupt, TypeOK

\* A request that was just filed, and the worker that goes on after it.
Filed(kind, s) == [kind |-> kind, stage |-> s, status |-> "pending"]
Asked(s) == [job |-> "asking", ref |-> "none", stage |-> s]

LEMMA RequestEffect ==
  ASSUME TypeOK, NEW r \in Runs, NEW s, NEW kind, CreateRequest(r, kind, s)
  PROVE  /\ request'[r] = Filed(kind, s)
         /\ \A q \in Runs \ {r} : request'[q] = request[q]
  BY DEF CreateRequest, Filed, TypeOK

\* What a stage result that waits does.
LEMMA WaitsEffect ==
  ASSUME TypeOK, NEW r \in Runs, NEW w \in Workers, NEW s \in StageTypes, NEW kind \in WaitKinds,
         StageWaits(r, w, s, kind)
  PROVE  /\ session.current = r /\ runStatus[r] = "running" /\ StartedStage(r, s)[r] = s
         /\ session' = [status |-> WaitingStatus(kind), current |-> session.current, latest |-> s]
         /\ runStatus'[r] = WaitingStatus(kind) /\ stageOf'[r] = s
         /\ rows'[r][s] = WaitingStatus(kind)
         /\ \A t \in StageTypes \ {s} : rows'[r][t] = rows[r][t]
         /\ request'[r] = Filed(kind, s)
         /\ thread'[r] = "interrupted" /\ interrupt'[r] = "pending" /\ node'[r] = "blocked"
         /\ Leave(r, w) /\ UNCHANGED <<decision, recovery>>
         /\ \A q \in Runs \ {r} :
              /\ runStatus'[q] = runStatus[q] /\ stageOf'[q] = stageOf[q] /\ rows'[q] = rows[q]
              /\ request'[q] = request[q] /\ thread'[q] = thread[q]
              /\ interrupt'[q] = interrupt[q] /\ node'[q] = node[q]
<1>1. /\ session.current = r /\ runStatus[r] = "running" /\ StartedStage(r, s)[r] = s
      /\ Leave(r, w) /\ UNCHANGED <<decision, recovery>>
      /\ node' = [node EXCEPT ![r] = "blocked"]
      /\ ShowWaiting(r, s, kind) /\ CreateRequest(r, kind, s) /\ CreateInterrupt(r, "payload")
  BY DEF StageWaits, Requestable
<1>2. QED BY <1>1, WaitingEffect, InterruptEffect, RequestEffect DEF TypeOK

\* What the gate of a tool call does: the same, with the worker still in its step.
LEMMA ConfirmationEffect ==
  ASSUME TypeOK, NEW r \in Runs, NEW w \in Workers, NEW s \in StageTypes,
         RequestConfirmation(r, w, s)
  PROVE  /\ session.current = r /\ runStatus[r] = "running" /\ StartedStage(r, s)[r] = s
         /\ session' = [status |-> "waiting_tool_confirmation", current |-> session.current,
                        latest |-> s]
         /\ runStatus'[r] = "waiting_tool_confirmation" /\ stageOf'[r] = s
         /\ rows'[r][s] = "waiting_tool_confirmation"
         /\ \A t \in StageTypes \ {s} : rows'[r][t] = rows[r][t]
         /\ request'[r] = Filed("tool_confirmation", s)
         /\ thread'[r] = "interrupted" /\ interrupt'[r] = "pending"
         /\ Put(r, w, Asked(s))
         /\ UNCHANGED <<decision, recovery, node, overtaken>>
         /\ \A q \in Runs \ {r} :
              /\ runStatus'[q] = runStatus[q] /\ stageOf'[q] = stageOf[q] /\ rows'[q] = rows[q]
              /\ request'[q] = request[q] /\ thread'[q] = thread[q]
              /\ interrupt'[q] = interrupt[q]
<1>1. /\ session.current = r /\ runStatus[r] = "running" /\ StartedStage(r, s)[r] = s
      /\ Put(r, w, Asked(s))
      /\ UNCHANGED <<decision, recovery, node, overtaken>>
      /\ ShowWaiting(r, s, "tool_confirmation") /\ CreateRequest(r, "tool_confirmation", s)
      /\ CreateInterrupt(r, "payload")
  BY DEF RequestConfirmation, Requestable, Asked
<1>2. "tool_confirmation" \in WaitKinds /\ WaitingStatus("tool_confirmation") = "waiting_tool_confirmation"
  BY WaitingStatuses3 DEF WaitKinds
<1>3. QED BY <1>1, <1>2, WaitingEffect, InterruptEffect, RequestEffect

\* What a completed stage does.
LEMMA CompletesEffect ==
  ASSUME TypeOK, NEW r \in Runs, NEW w \in Workers, NEW s \in StageTypes, NEW resumed \in BOOLEAN,
         StageCompletes(r, w, s, resumed)
  PROVE  /\ session' = [status |-> "running", current |-> session.current, latest |-> s]
         /\ runStatus'[r] = "running" /\ stageOf'[r] = s /\ rows'[r][s] = "completed"
         /\ \A t \in StageTypes \ {s} : rows'[r][t] = rows[r][t]
         /\ resumed => interrupt'[r] = "responded"
         /\ ~resumed => interrupt'[r] = interrupt[r]
         /\ node'[r] = SuccessNode[s] /\ Put(r, w, NextStep)
         /\ UNCHANGED <<request, decision, recovery, overtaken>>
         /\ \A q \in Runs \ {r} :
              /\ runStatus'[q] = runStatus[q] /\ stageOf'[q] = stageOf[q] /\ rows'[q] = rows[q]
              /\ thread'[q] = thread[q] /\ interrupt'[q] = interrupt[q] /\ node'[q] = node[q]
<1>1. /\ session' = [session EXCEPT !.status = "running", !.latest = s]
      /\ runStatus' = [runStatus EXCEPT ![r] = "running"]
      /\ stageOf' = [stageOf EXCEPT ![r] = s]
      /\ rows' = [rows EXCEPT ![r][s] = "completed"]
      /\ thread' = [thread EXCEPT ![r] = IF resumed THEN "running" ELSE thread[r]]
      /\ interrupt' = Responded(r, resumed)
      /\ node' = [node EXCEPT ![r] = SuccessNode[s]] /\ Put(r, w, NextStep)
      /\ UNCHANGED <<request, decision, recovery, overtaken>>
  BY DEF StageCompletes, ShowStage
<1>2. session' = [status |-> "running", current |-> session.current, latest |-> s]
  BY <1>1 DEF TypeOK
<1>3. /\ rows'[r][s] = "completed" /\ \A t \in StageTypes \ {s} : rows'[r][t] = rows[r][t]
      /\ \A q \in Runs \ {r} : rows'[q] = rows[q]
  BY <1>1 DEF TypeOK
<1>4. /\ resumed => interrupt'[r] = "responded"
      /\ ~resumed => interrupt'[r] = interrupt[r]
      /\ \A q \in Runs \ {r} : interrupt'[q] = interrupt[q]
  BY <1>1 DEF Responded, TypeOK
<1>5. /\ runStatus'[r] = "running" /\ stageOf'[r] = s /\ node'[r] = SuccessNode[s]
      /\ \A q \in Runs \ {r} : /\ runStatus'[q] = runStatus[q] /\ stageOf'[q] = stageOf[q]
                               /\ thread'[q] = thread[q] /\ node'[q] = node[q]
  BY <1>1 DEF TypeOK
<1>6. QED BY <1>1, <1>2, <1>3, <1>4, <1>5

\* What a failed stage result does: the stage that fails is the current one.
LEMMA FailsEffect ==
  ASSUME TypeOK, NEW r \in Runs, NEW w \in Workers, NEW s \in StageTypes, NEW resumed \in BOOLEAN,
         StageFails(r, w, s, resumed), stageOf[r] \in StageTypes
  PROVE  /\ session' = [status |-> "failed", current |-> session.current, latest |-> stageOf'[r]]
         /\ runStatus'[r] = "failed" /\ thread'[r] = "failed" /\ interrupt'[r] # "pending"
         /\ \/ stageOf'[r] = stageOf[r]
            \/ stageOf'[r] = s /\ rows[r][s] = "none"
         /\ rows'[r][stageOf'[r]] = "failed"
         /\ \A t \in StageTypes \ {stageOf'[r]} : rows'[r][t] = rows[r][t]
         /\ Leave(r, w)
         /\ UNCHANGED <<request, decision, recovery, node, overtaken>>
         /\ \A q \in Runs \ {r} :
              /\ runStatus'[q] = runStatus[q] /\ stageOf'[q] = stageOf[q] /\ rows'[q] = rows[q]
              /\ thread'[q] = thread[q] /\ interrupt'[q] = interrupt[q]
<1>0. PICK newRows, newStage, newInterrupt :
        newRows = StartedRows(r, s) /\ newStage = StartedStage(r, s) /\ newInterrupt = Responded(r, resumed)
  OBVIOUS
<1>1. /\ newRows \in [Runs -> [StageTypes -> StageStatuses \union {"none"}]]
      /\ \A q \in Runs \ {r} : newRows[q] = rows[q]
      /\ IF rows[r][s] = "none"
         THEN newRows[r] = [rows[r] EXCEPT ![s] = "running"]
         ELSE newRows[r] = rows[r]
  BY <1>0 DEF StartedRows, TypeOK, StageStatuses
<1>2. /\ newStage \in [Runs -> StageTypes \union {"none"}]
      /\ \A q \in Runs \ {r} : newStage[q] = stageOf[q]
      /\ IF rows[r][s] = "none" THEN newStage[r] = s ELSE newStage[r] = stageOf[r]
  BY <1>0 DEF StartedStage, TypeOK
<1>3. /\ newInterrupt \in [Runs -> {"none", "pending", "responded", "cancelled"}]
      /\ \A q \in Runs \ {r} : newInterrupt[q] = interrupt[q]
  BY <1>0 DEF Responded, TypeOK
<1>4. MarkFailed(r, w, newRows, newStage, newInterrupt)
  BY <1>0 DEF StageFails
<1>5. /\ newRows \in [Runs -> [StageTypes -> StageStatuses \union {"none"}]]
      /\ newStage \in [Runs -> StageTypes \union {"none"}]
      /\ newInterrupt \in [Runs -> {"none", "pending", "responded", "cancelled"}]
      /\ newStage[r] \in StageTypes
      /\ \A q \in Runs \ {r} : newRows[q] = rows[q] /\ newStage[q] = stageOf[q] /\ newInterrupt[q] = interrupt[q]
  BY <1>1, <1>2, <1>3
<1>6. /\ session' = [status |-> "failed", current |-> session.current, latest |-> newStage[r]]
      /\ runStatus'[r] = "failed" /\ thread'[r] = "failed" /\ interrupt'[r] # "pending"
      /\ stageOf'[r] = newStage[r] /\ rows'[r][newStage[r]] = "failed"
      /\ \A t \in StageTypes \ {newStage[r]} : rows'[r][t] = newRows[r][t]
      /\ Leave(r, w)
      /\ UNCHANGED <<request, decision, recovery, node, overtaken>>
      /\ \A q \in Runs \ {r} :
           /\ runStatus'[q] = runStatus[q] /\ stageOf'[q] = stageOf[q] /\ rows'[q] = rows[q]
           /\ thread'[q] = thread[q] /\ interrupt'[q] = interrupt[q]
  BY <1>4, <1>5, MarkFailedEffect
<1>7. \A t \in StageTypes \ {newStage[r]} : newRows[r][t] = rows[r][t]
  BY <1>1, <1>2 DEF TypeOK
<1>8. QED BY <1>2, <1>6, <1>7

-----------------------------------------------------------------------------
(* A step of one run leaves the others alone                                *)

OthersKept(r) ==
  /\ session'.current = session.current
  /\ \A q \in Runs \ {r} :
       /\ runStatus'[q] = runStatus[q] /\ stageOf'[q] = stageOf[q] /\ rows'[q] = rows[q]
       /\ request'[q] = request[q] /\ decision'[q] = decision[q] /\ recovery'[q] = recovery[q]
       /\ thread'[q] = thread[q] /\ interrupt'[q] = interrupt[q] /\ node'[q] = node[q]
       /\ worker'[q] = worker[q] /\ overtaken'[q] = overtaken[q]

\* A driving worker of a followed run finds it in a stage.
LEMMA DrivesInStage ==
  ASSUME GateInv, NEW r \in Runs, Followed(r), NEW w \in Driving(r)
  PROVE  /\ w \in Workers /\ TypeOK /\ GateRun(r) /\ WorkRun(r) /\ Stands(r, w)
         /\ stageOf[r] \in StageTypes /\ stageOf[r] # "none" /\ ~(r > session.current)
         /\ worker[r][w].job # "asking" => request[r].status # "pending"
<1>1. TypeOK /\ GateRun(r) /\ WorkRun(r) /\ w \in Workers
  BY DEF GateInv, GateRun, Driving, AtWork
<1>2. Stands(r, w) /\ stageOf[r] # "none"
  BY <1>1 DEF WorkRun
<1>3. QED BY <1>1, <1>2 DEF WorkRun, GateRun, TypeOK

\* The jobs that drive a run.
LEMMA Drives ==
  ASSUME NEW r \in Runs, NEW w \in Workers,
         worker[r][w].job \in {"next", "reply", "approved", "rejected", "allowed", "denied", "asking"}
  PROVE  w \in Driving(r)
  BY DEF Driving, AtWork

\* The stage a resumed worker goes on with.
LEMMA TargetsTyped == \A s : ApprovedTarget(s) \in StageTypes /\ RejectedTarget(s) \in StageTypes
  BY DEF ApprovedTarget, RejectedTarget, StageTypes

\* A stage execution writes the rows of its own run only.
LEMMA StageKeepsOthers ==
  ASSUME TypeOK, NEW r \in Runs, NEW w \in Workers, NEW s \in StageTypes, NEW resumed \in BOOLEAN,
         RunStage(r, w, s, resumed), stageOf[r] \in StageTypes
  PROVE  OthersKept(r)
<1>1. CASE StageCompletes(r, w, s, resumed)
  <2>1. Put(r, w, NextStep)
    BY <1>1 DEF StageCompletes
  <2>2. \A q \in Runs \ {r} : worker'[q] = worker[q]
    BY <2>1, PutWork
  <2>3. QED BY <1>1, <2>2, CompletesEffect DEF OthersKept
<1>2. CASE RequestConfirmation(r, w, s)
  <2>1. Put(r, w, Asked(s))
    BY <1>2 DEF RequestConfirmation, Asked
  <2>2. \A q \in Runs \ {r} : worker'[q] = worker[q]
    BY <2>1, PutWork
  <2>3. /\ session'.current = session.current
        /\ UNCHANGED <<decision, recovery, node, overtaken>>
        /\ \A q \in Runs \ {r} :
             /\ runStatus'[q] = runStatus[q] /\ stageOf'[q] = stageOf[q] /\ rows'[q] = rows[q]
             /\ request'[q] = request[q] /\ thread'[q] = thread[q] /\ interrupt'[q] = interrupt[q]
    <3>1. RequestConfirmation(r, w, s)
      BY <1>2
    <3>2. QED BY <3>1, ConfirmationEffect
  <2>4. QED BY <2>2, <2>3 DEF OthersKept
<1>3. ASSUME NEW kind \in {"clarification", "tool_confirmation"}, StageWaits(r, w, s, kind),
             UNCHANGED overtaken
      PROVE  OthersKept(r)
  <2>1. Leave(r, w)
    BY <1>3 DEF StageWaits
  <2>2. \A q \in Runs \ {r} : worker'[q] = worker[q]
    BY <2>1, LeaveWork
  <2>3. kind \in WaitKinds
    BY DEF WaitKinds
  <2>4. /\ session'.current = session.current
        /\ UNCHANGED <<decision, recovery>>
        /\ \A q \in Runs \ {r} :
             /\ runStatus'[q] = runStatus[q] /\ stageOf'[q] = stageOf[q] /\ rows'[q] = rows[q]
             /\ request'[q] = request[q] /\ thread'[q] = thread[q]
             /\ interrupt'[q] = interrupt[q] /\ node'[q] = node[q]
    BY <1>3, <2>3, WaitsEffect
  <2>5. QED BY <1>3, <2>2, <2>4 DEF OthersKept
<1>4. ASSUME FailRolledBack(r, w) PROVE OthersKept(r)
  BY <1>4, RolledBackEffect, LeaveWork DEF OthersKept
<1>5. CASE StageFails(r, w, s, resumed)
  BY <1>5, FailsEffect, LeaveWork DEF OthersKept
<1>6. QED BY <1>1, <1>2, <1>3, <1>4, <1>5 DEF RunStage, WaitRefused, StageRaises

\* Giving up leaves the others alone, with or without a stage.
LEMMA RolledBackKeepsOthers ==
  ASSUME TypeOK, NEW r \in Runs, NEW w \in Workers, FailRolledBack(r, w)
  PROVE  OthersKept(r)
<1>1. CASE stageOf[r] = "none"
  BY <1>1, LeaveWork DEF FailRolledBack, OthersKept, runtimeVars, graphVars
<1>2. CASE stageOf[r] # "none"
  BY <1>2, RolledBackEffect, LeaveWork DEF OthersKept, TypeOK
<1>3. QED BY <1>1, <1>2

\* What entering a gate, completing and finishing a step that asked do.
LEMMA GateEffect ==
  ASSUME TypeOK, NEW r \in Runs, NEW w \in Workers, EnterGate(r, w)
  PROVE  /\ session' = [status |-> "waiting_approval", current |-> session.current,
                        latest |-> GateSource(node[r])]
         /\ GateSource(node[r]) \in StageTypes
         /\ runStatus'[r] = "waiting_approval" /\ stageOf'[r] = GateSource(node[r])
         /\ rows'[r][GateSource(node[r])] = "waiting_approval"
         /\ \A t \in StageTypes \ {GateSource(node[r])} : rows'[r][t] = rows[r][t]
         /\ request'[r] = Filed("approval", GateSource(node[r]))
         /\ thread'[r] = "interrupted" /\ interrupt'[r] = "pending"
         /\ Leave(r, w) /\ UNCHANGED <<decision, recovery, node, overtaken>>
         /\ OthersKept(r)
<1>1. PICK s : s = GateSource(node[r])
  OBVIOUS
<1>2. /\ s \in StageTypes /\ "approval" \in WaitKinds
      /\ WaitingStatus("approval") = "waiting_approval"
  BY <1>1, WaitingStatuses3 DEF GateSource, StageTypes, WaitKinds
<1>3. /\ ShowWaiting(r, s, "approval") /\ CreateRequest(r, "approval", s)
      /\ CreateInterrupt(r, "langgraph") /\ Leave(r, w)
      /\ UNCHANGED <<decision, recovery, node, overtaken>>
  BY <1>1 DEF EnterGate
<1>4. /\ session' = [status |-> "waiting_approval", current |-> session.current, latest |-> s]
      /\ runStatus'[r] = "waiting_approval" /\ stageOf'[r] = s
      /\ rows'[r][s] = "waiting_approval"
      /\ \A t \in StageTypes \ {s} : rows'[r][t] = rows[r][t]
      /\ \A q \in Runs \ {r} :
           runStatus'[q] = runStatus[q] /\ stageOf'[q] = stageOf[q] /\ rows'[q] = rows[q]
  BY <1>2, <1>3, WaitingEffect
<1>5. /\ thread'[r] = "interrupted" /\ interrupt'[r] = "pending"
      /\ \A q \in Runs \ {r} : thread'[q] = thread[q] /\ interrupt'[q] = interrupt[q]
  BY <1>3, InterruptEffect
<1>6. /\ request'[r] = Filed("approval", s)
      /\ \A q \in Runs \ {r} : request'[q] = request[q]
  BY <1>3, RequestEffect
<1>7. OthersKept(r)
  <2>1. \A q \in Runs \ {r} : worker'[q] = worker[q]
    BY <1>3, LeaveWork
  <2>2. QED BY <1>3, <1>4, <1>5, <1>6, <2>1 DEF OthersKept
<1>8. QED BY <1>1, <1>2, <1>3, <1>4, <1>5, <1>6, <1>7

LEMMA CompleteEffect ==
  ASSUME TypeOK, NEW r \in Runs, NEW w \in Workers, CompleteRun(r, w)
  PROVE  /\ session' = [status |-> "completed", current |-> session.current, latest |-> session.latest]
         /\ runStatus'[r] = "completed" /\ stageOf'[r] = "none" /\ thread'[r] = "completed"
         /\ Leave(r, w)
         /\ UNCHANGED <<rows, request, decision, recovery, interrupt, checkpoint, node, overtaken>>
         /\ OthersKept(r)
<1>1. /\ session' = [session EXCEPT !.status = "completed"]
      /\ runStatus' = [runStatus EXCEPT ![r] = "completed"]
      /\ stageOf' = [stageOf EXCEPT ![r] = "none"]
      /\ thread' = [thread EXCEPT ![r] = "completed"]
      /\ Leave(r, w)
      /\ UNCHANGED <<rows, request, decision, recovery, interrupt, checkpoint, node, overtaken>>
  BY DEF CompleteRun, ShowStatus
<1>2. session' = [status |-> "completed", current |-> session.current, latest |-> session.latest]
  BY <1>1 DEF TypeOK
<1>3. /\ runStatus'[r] = "completed" /\ stageOf'[r] = "none" /\ thread'[r] = "completed"
      /\ \A q \in Runs \ {r} :
           runStatus'[q] = runStatus[q] /\ stageOf'[q] = stageOf[q] /\ thread'[q] = thread[q]
  BY <1>1 DEF TypeOK
<1>4. \A q \in Runs \ {r} : worker'[q] = worker[q]
  BY <1>1, LeaveWork
<1>5. QED BY <1>1, <1>2, <1>3, <1>4 DEF OthersKept

LEMMA FinishEffect ==
  ASSUME TypeOK, NEW r \in Runs, NEW w \in Workers, FinishAsking(r, w),
         worker[r][w].stage \in StageTypes
  PROVE  /\ session' = [status |-> "waiting_tool_confirmation", current |-> session.current,
                        latest |-> worker[r][w].stage]
         /\ runStatus'[r] = "waiting_tool_confirmation" /\ stageOf'[r] = worker[r][w].stage
         /\ rows'[r][worker[r][w].stage] = "waiting_tool_confirmation"
         /\ \A t \in StageTypes \ {worker[r][w].stage} : rows'[r][t] = rows[r][t]
         /\ node'[r] = "blocked" /\ Leave(r, w)
         /\ UNCHANGED <<request, decision, recovery, thread, interrupt, overtaken>>
         /\ OthersKept(r)
<1>1. PICK s : s = worker[r][w].stage
  OBVIOUS
<1>2. /\ s \in StageTypes /\ "tool_confirmation" \in WaitKinds
      /\ WaitingStatus("tool_confirmation") = "waiting_tool_confirmation"
  BY <1>1, WaitingStatuses3 DEF WaitKinds
<1>3. /\ ShowWaiting(r, s, "tool_confirmation") /\ Leave(r, w)
      /\ node' = [node EXCEPT ![r] = "blocked"]
      /\ UNCHANGED <<request, decision, recovery, thread, interrupt, overtaken>>
  BY <1>1 DEF FinishAsking
<1>4. /\ session' = [status |-> "waiting_tool_confirmation", current |-> session.current, latest |-> s]
      /\ runStatus'[r] = "waiting_tool_confirmation" /\ stageOf'[r] = s
      /\ rows'[r][s] = "waiting_tool_confirmation"
      /\ \A t \in StageTypes \ {s} : rows'[r][t] = rows[r][t]
      /\ \A q \in Runs \ {r} :
           runStatus'[q] = runStatus[q] /\ stageOf'[q] = stageOf[q] /\ rows'[q] = rows[q]
  BY <1>2, <1>3, WaitingEffect
<1>5. OthersKept(r)
  BY <1>3, <1>4, LeaveWork DEF OthersKept, TypeOK
<1>6. QED BY <1>1, <1>2, <1>3, <1>4, <1>5 DEF TypeOK

\* A worker writes the rows of its own run only.
LEMMA WorkerKeepsOthers ==
  ASSUME GateInv, NEW r \in Runs, Followed(r), NEW w \in Workers, Worker(r, w)
  PROVE  OthersKept(r)
<1>0. TypeOK
  BY DEF GateInv
<1>1. CASE RunNextStage(r, w)
  BY <1>0, <1>1, Drives, DrivesInStage, StageKeepsOthers DEF RunNextStage
<1>2. CASE EnterGate(r, w)
  BY <1>0, <1>2, GateEffect
<1>3. CASE CompleteRun(r, w)
  BY <1>0, <1>3, CompleteEffect
<1>4. CASE RunNextRefused(r, w) \/ ResumeRefused(r, w) \/ AskingRaises(r, w)
  BY <1>0, <1>4, RolledBackKeepsOthers DEF RunNextRefused, ResumeRefused, AskingRaises, StageRaises
<1>5. CASE ResumeApproval(r, w)
  BY <1>0, <1>5, TargetsTyped, Drives, DrivesInStage, StageKeepsOthers DEF ResumeApproval
<1>6. CASE ResumeToolConfirmation(r, w)
  <2>1. worker[r][w].stage \in StageTypes /\ stageOf[r] \in StageTypes
    BY <1>6, Drives, DrivesInStage, RequestStage DEF ResumeToolConfirmation
  <2>2. QED BY <1>0, <1>6, <2>1, StageKeepsOthers DEF ResumeToolConfirmation
<1>7. CASE FinishAsking(r, w)
  BY <1>0, <1>7, RequestStage, FinishEffect DEF FinishAsking, OwnPending
<1>8. CASE AskAgain(r, w)
  <2>1. CASE /\ StageWaits(r, w, worker[r][w].stage, "tool_confirmation")
             /\ overtaken' = [overtaken EXCEPT ![r] = "asked_again"]
    <3>1. worker[r][w].stage \in StageTypes /\ "tool_confirmation" \in WaitKinds
      BY <1>8, RequestStage DEF AskAgain, WaitKinds
    <3>2. \A q \in Runs \ {r} : overtaken'[q] = overtaken[q]
      BY <1>0, <2>1 DEF TypeOK
    <3>3. Leave(r, w)
      BY <2>1 DEF StageWaits
    <3>4. \A q \in Runs \ {r} : worker'[q] = worker[q]
      BY <1>0, <3>3, LeaveWork
    <3>5. /\ session'.current = session.current
          /\ UNCHANGED <<decision, recovery>>
          /\ \A q \in Runs \ {r} :
               /\ runStatus'[q] = runStatus[q] /\ stageOf'[q] = stageOf[q] /\ rows'[q] = rows[q]
               /\ request'[q] = request[q] /\ thread'[q] = thread[q]
               /\ interrupt'[q] = interrupt[q] /\ node'[q] = node[q]
      <4>1. StageWaits(r, w, worker[r][w].stage, "tool_confirmation")
        BY <2>1
      <4>2. QED BY <1>0, <3>1, <4>1, WaitsEffect
    <3>6. QED BY <3>2, <3>4, <3>5 DEF OthersKept
  <2>2. QED BY <1>0, <1>8, <2>1, RolledBackKeepsOthers DEF AskAgain, WaitRefused
<1>9. QED BY <1>1, <1>2, <1>3, <1>4, <1>5, <1>6, <1>7, <1>8 DEF Worker

\* What an answer does to the workers of its run: it sends one more out, and one
\* that is still asking is overtaken.
LEMMA ResumeAsyncEffect ==
  ASSUME TypeOK, NEW r \in Runs, NEW job, ResumeAsync(r, job)
  PROVE  /\ \A q \in Runs \ {r} : worker'[q] = worker[q]
         /\ \E w \in Workers \ AtWork(r) :
              /\ worker'[r][w] = [job |-> job, ref |-> checkpoint[r], stage |-> stageOf[r]]
              /\ \A u \in Workers \ {w} :
                   IF worker[r][u].job = "asking"
                   THEN worker'[r][u].job = "answered" /\ worker'[r][u].stage = worker[r][u].stage
                   ELSE worker'[r][u] = worker[r][u]
<1>1. PICK w \in Workers \ AtWork(r) :
        worker' = [worker EXCEPT ![r] =
          [u \in Workers |->
             IF u = w THEN [job |-> job, ref |-> checkpoint[r], stage |-> stageOf[r]]
             ELSE IF @[u].job = "asking" THEN [@[u] EXCEPT !.job = "answered"] ELSE @[u]]]
  BY DEF ResumeAsync
<1>2. /\ \A q \in Runs \ {r} : worker'[q] = worker[q]
      /\ \A u \in Workers : worker'[r][u] =
            IF u = w THEN [job |-> job, ref |-> checkpoint[r], stage |-> stageOf[r]]
            ELSE IF worker[r][u].job = "asking" THEN [worker[r][u] EXCEPT !.job = "answered"]
                 ELSE worker[r][u]
  BY <1>1 DEF TypeOK
<1>3. \A u \in Workers : worker[r][u] \in Work
  BY DEF TypeOK
<1>4. \A u \in Workers :
        LET answered == [worker[r][u] EXCEPT !.job = "answered"]
        IN answered.job = "answered" /\ answered.stage = worker[r][u].stage
  BY <1>3 DEF Work
<1>5. \A u \in Workers \ {w} :
        IF worker[r][u].job = "asking"
        THEN worker'[r][u].job = "answered" /\ worker'[r][u].stage = worker[r][u].stage
        ELSE worker'[r][u] = worker[r][u]
  BY <1>2, <1>4
<1>6. QED BY <1>2, <1>5

\* So does a command.
LEMMA CommandKeepsOthers ==
  ASSUME TypeOK, NEW r \in Runs, ResumeRun(r) \/ AnAnswer(r) \/ Interruption(r)
  PROVE  OthersKept(r)
<1>1. CASE PauseRun(r)
  BY <1>1 DEF PauseRun, OthersKept, ShowStatus, TypeOK, workerVars
<1>2. CASE ResumeRun(r)
  BY <1>2 DEF ResumeRun, OthersKept, ShowStatus, TypeOK, workerVars
<1>3. CASE TerminateRun(r)
  BY <1>3 DEF TerminateRun, CancelConfirmation, OthersKept, ShowStatus, TypeOK, workerVars
<1>4. ASSUME NEW status, NEW row, NEW job, Answer(r, status, row, job),
             \A q \in Runs \ {r} : decision'[q] = decision[q]
      PROVE  OthersKept(r)
  <2>1. \A q \in Runs \ {r} : worker'[q] = worker[q]
    BY <1>4, ResumeAsyncEffect DEF Answer
  <2>2. \A q \in Runs \ {r} : overtaken'[q] = overtaken[q]
    BY <1>4 DEF Answer, TypeOK
  <2>3. QED BY <1>4, <2>1, <2>2 DEF Answer, OthersKept, ShowStatus, TypeOK, graphVars
<1>5. CASE AnswerClarification(r)
  BY <1>4, <1>5 DEF AnswerClarification
<1>6. ASSUME NEW verdict, SubmitApproval(r, verdict) PROVE OthersKept(r)
  <2>1. \A q \in Runs \ {r} : decision'[q] = decision[q]
    BY <1>6 DEF SubmitApproval, TypeOK
  <2>2. QED BY <1>4, <1>6, <2>1 DEF SubmitApproval
<1>7. ASSUME NEW verdict, SubmitToolConfirmation(r, verdict) PROVE OthersKept(r)
  BY <1>4, <1>7 DEF SubmitToolConfirmation
<1>8. QED BY <1>1, <1>2, <1>3, <1>5, <1>6, <1>7 DEF AnAnswer, Interruption

\* And leaves their gates alone.
LEMMA GateOthers ==
  ASSUME TypeOK, NEW r \in Runs, NEW q \in Runs \ {r}, GateRun(q), OthersKept(r)
  PROVE  GateRun(q)'
<1>1. /\ session.current \in Nat /\ session'.current = session.current
      /\ runStatus'[q] = runStatus[q] /\ stageOf'[q] = stageOf[q] /\ rows'[q] = rows[q]
      /\ request'[q] = request[q] /\ decision'[q] = decision[q] /\ node'[q] = node[q]
      /\ worker'[q] = worker[q] /\ overtaken'[q] = overtaken[q]
  BY DEF TypeOK, OthersKept
<1>2. QED BY <1>1, GateFrame

-----------------------------------------------------------------------------
(* GateInv is inductive                                                     *)

\* No unapproved gate is in front of stage s of run r.
Reachable(r, s) ==
  \A gate \in GatedStages :
    IF s \in BehindGate(gate) THEN decision[r][gate] = "approved" ELSE NothingBehind(r, gate)

\* The stage a run is at is reachable.
LEMMA StageReachable ==
  ASSUME NEW r \in Runs, GateRun(r), stageOf[r] # "none"
  PROVE  Reachable(r, stageOf[r])
  BY DEF GateRun, Reachable

\* A run moved to a reachable stage is in front of every gate not approved.
LEMMA GateMoves ==
  ASSUME NEW r \in Runs, NEW s, s \in StageTypes, GateRun(r), ~(r > session.current), Reachable(r, s),
         session'.current = session.current, stageOf'[r] = s, decision'[r] = decision[r],
         node'[r] \in {node[r], "blocked", SuccessNode[s]},
         \A t \in StageTypes \ {s} : rows'[r][t] = rows[r][t],
         Followed(r)' => WorkRun(r)'
  PROVE  GateRun(r)'
<1>1. stageOf'[r] # "none"
  BY GateGraph
<1>2. ASSUME NEW gate \in GatedStages
      PROVE  IF stageOf'[r] \in BehindGate(gate) THEN decision'[r][gate] = "approved"
                                                 ELSE NothingBehind(r, gate)'
  <2>1. CASE s \in BehindGate(gate)
    BY <2>1 DEF Reachable
  <2>2. CASE s \notin BehindGate(gate)
    <3>1. NothingBehind(r, gate)
      BY <2>2 DEF Reachable
    <3>2. node'[r] \notin BehindGate(gate)
      BY <2>2, <3>1, GateGraph DEF NothingBehind
    <3>3. QED BY <2>2, <3>1, <3>2 DEF NothingBehind
  <2>3. QED BY <2>1, <2>2
<1>3. QED BY <1>1, <1>2 DEF GateRun

\* The driving worker leaves, goes on to the next node, or asks.
LEMMA WorkMoves ==
  ASSUME TypeOK, NEW r \in Runs, NEW w \in Workers, w \in Driving(r), NEW s, s \in StageTypes,
         WorkRun(r), stageOf'[r] = s, rows'[r][s] # "none",
         \A t \in StageTypes \ {s} : rows'[r][t] = rows[r][t],
         overtaken'[r] = overtaken[r],
         \/ Put(r, w, NoWork)
         \/ Put(r, w, NextStep) /\ node'[r] = SuccessNode[s] /\ request'[r].status # "pending"
         \/ Put(r, w, Asked(s))
  PROVE  WorkRun(r)'
<1>1. /\ \A v \in Workers \ {w} : worker'[r][v] = worker[r][v]
      /\ \/ worker'[r][w] = NoWork
         \/ worker'[r][w] = NextStep /\ node'[r] = SuccessNode[s] /\ request'[r].status # "pending"
         \/ worker'[r][w] = Asked(s)
  BY PutWork
<1>2. worker'[r][w].job \in {"idle", "next", "asking"}
  BY <1>1 DEF NoWork, NextStep, Asked
<1>3. \A v \in Driving(r)' : v = w
  BY <1>1 DEF WorkRun, Driving, AtWork
<1>4. w \in Driving(r)' => Stands(r, w)'
  <2>1. CASE worker'[r][w] = NoWork
    BY <2>1 DEF Driving, AtWork, NoWork
  <2>2. CASE worker'[r][w] = NextStep /\ node'[r] = SuccessNode[s]
    BY <2>2 DEF Stands, NextStep
  <2>3. CASE worker'[r][w] = Asked(s)
    BY <2>3 DEF Stands, Asked
  <2>4. QED BY <1>1, <2>1, <2>2, <2>3
<1>5. request'[r].status = "pending" => \A v \in Driving(r)' : worker'[r][v].job = "asking"
  BY <1>1, <1>3 DEF Driving, AtWork, NoWork, Asked
<1>6. \A v \in Workers : worker'[r][v].job = "answered" => v # w /\ worker'[r][v] = worker[r][v]
  BY <1>1, <1>2
<1>7. QED
  BY <1>3, <1>4, <1>5, <1>6, GateGraph DEF WorkRun, Undisturbed

\* One stage execution, of a stage no unapproved gate is in front of, keeps it.
LEMMA GateStage ==
  ASSUME GateInv, NEW r \in Runs, Followed(r), NEW w \in Driving(r), NEW s, s \in StageTypes,
         NEW resumed \in BOOLEAN,
         worker[r][w].job # "asking", RunStage(r, w, s, resumed), Reachable(r, s)
  PROVE  GateRun(r)'
<1>0. /\ TypeOK /\ GateRun(r) /\ WorkRun(r) /\ w \in Workers /\ stageOf[r] \in StageTypes
      /\ ~(r > session.current) /\ request[r].status # "pending"
  BY DrivesInStage
<1>1. CASE StageCompletes(r, w, s, resumed)
  <2>1. /\ session'.current = session.current /\ stageOf'[r] = s /\ rows'[r][s] # "none"
        /\ \A t \in StageTypes \ {s} : rows'[r][t] = rows[r][t]
        /\ node'[r] = SuccessNode[s] /\ Put(r, w, NextStep)
        /\ request' = request /\ decision' = decision /\ overtaken' = overtaken
    BY <1>0, <1>1, CompletesEffect
  <2>2. WorkRun(r)'
    BY <1>0, <2>1, WorkMoves
  <2>3. QED BY <1>0, <2>1, <2>2, GateMoves
<1>2. CASE RequestConfirmation(r, w, s)
  <2>1. /\ session'.current = session.current /\ stageOf'[r] = s /\ rows'[r][s] # "none"
        /\ \A t \in StageTypes \ {s} : rows'[r][t] = rows[r][t]
        /\ Put(r, w, Asked(s))
        /\ node' = node /\ decision' = decision /\ overtaken' = overtaken
    BY <1>0, <1>2, ConfirmationEffect
  <2>2. WorkRun(r)'
    BY <1>0, <2>1, WorkMoves
  <2>3. QED BY <1>0, <2>1, <2>2, GateMoves
<1>3. ASSUME NEW kind \in {"clarification", "tool_confirmation"}, StageWaits(r, w, s, kind),
             UNCHANGED overtaken
      PROVE  GateRun(r)'
  <2>1. kind \in WaitKinds /\ WaitingStatus(kind) # "none"
    BY WaitingStatuses3 DEF WaitKinds
  <2>2. /\ session'.current = session.current /\ stageOf'[r] = s /\ rows'[r][s] # "none"
        /\ \A t \in StageTypes \ {s} : rows'[r][t] = rows[r][t]
        /\ node'[r] = "blocked" /\ Leave(r, w) /\ decision' = decision
    BY <1>0, <1>3, <2>1, WaitsEffect
  <2>3. WorkRun(r)'
    BY <1>0, <1>3, <2>2, WorkMoves DEF Leave
  <2>4. QED BY <1>0, <2>2, <2>3, GateMoves
<1>4. ASSUME FailRolledBack(r, w) PROVE GateRun(r)'
  <2>1. /\ session'.current = session.current /\ stageOf'[r] = stageOf[r]
        /\ rows'[r][stageOf[r]] # "none"
        /\ \A t \in StageTypes \ {stageOf[r]} : rows'[r][t] = rows[r][t]
        /\ Leave(r, w) /\ node' = node /\ decision' = decision /\ overtaken' = overtaken
    BY <1>0, <1>4, RolledBackEffect
  <2>2. WorkRun(r)'
    BY <1>0, <2>1, WorkMoves DEF Leave
  <2>3. QED BY <1>0, <2>1, <2>2, GateMoves, StageReachable, GateGraph
<1>5. CASE StageFails(r, w, s, resumed)
  <2>1. /\ session'.current = session.current
        /\ \/ stageOf'[r] = stageOf[r]
           \/ stageOf'[r] = s
        /\ rows'[r][stageOf'[r]] # "none"
        /\ \A t \in StageTypes \ {stageOf'[r]} : rows'[r][t] = rows[r][t]
        /\ Leave(r, w) /\ node' = node /\ decision' = decision /\ overtaken' = overtaken
    BY <1>0, <1>5, FailsEffect
  <2>2. Reachable(r, stageOf'[r]) /\ stageOf'[r] \in StageTypes
    BY <1>0, <2>1, StageReachable, GateGraph
  <2>3. WorkRun(r)'
    BY <1>0, <2>1, <2>2, WorkMoves DEF Leave
  <2>4. QED BY <1>0, <2>1, <2>2, <2>3, GateMoves
<1>6. QED
  BY <1>1, <1>2, <1>3, <1>4, <1>5 DEF RunStage, WaitRefused, StageRaises

\* The initial state satisfies the invariant.
LEMMA GateInit == Init => GateInv
<1> SUFFICES ASSUME Init PROVE GateInv
  OBVIOUS
<1>1. TypeOK
  BY InitTyped
<1>2. ASSUME NEW r \in Runs PROVE GateRun(r)
  <2>1. \A w \in Workers : worker[r][w].job = "idle"
    BY DEF Init, NoWork
  <2>2. Idle(r) /\ Driving(r) = {}
    BY <2>1 DEF Idle, AtWork, Driving
  <2>3. Untouched(r) /\ stageOf[r] = "none"
    BY <2>2 DEF Init, Untouched
  <2>4. WorkRun(r)
    BY <2>1, <2>2 DEF WorkRun
  <2>5. QED BY <2>3, <2>4, GateGraph DEF GateRun
<1>3. QED BY <1>1, <1>2 DEF GateInv

\* A step that gives up keeps the run in front of its gates.
LEMMA GateGivesUp ==
  ASSUME GateInv, NEW r \in Runs, NEW w \in AtWork(r), FailRolledBack(r, w)
  PROVE  GateRun(r)'
<1>0. TypeOK /\ GateRun(r) /\ w \in Workers
  BY DEF GateInv, AtWork
<1>1. CASE stageOf[r] = "none"
  <2>1. Leave(r, w) /\ UNCHANGED <<session, runtimeVars, graphVars, overtaken>>
    BY <1>1 DEF FailRolledBack
  <2>2. QED BY <1>0, <1>1, <2>1, GateLeave
<1>2. CASE stageOf[r] # "none"
  <2>1. stageOf[r] \in StageTypes
    BY <1>0, <1>2 DEF TypeOK
  <2>2. /\ session'.current = session.current /\ stageOf'[r] = stageOf[r]
        /\ rows'[r][stageOf[r]] # "none"
        /\ \A t \in StageTypes \ {stageOf[r]} : rows'[r][t] = rows[r][t]
        /\ Leave(r, w) /\ node' = node /\ decision' = decision /\ overtaken' = overtaken
        /\ request' = request
    BY <1>0, <1>2, <2>1, RolledBackEffect
  <2>3. \A v \in Workers : worker'[r][v] \in {worker[r][v], NoWork}
    BY <1>0, <2>2, LeaveWork
  <2>4. QED BY <1>0, <2>1, <2>2, <2>3, GateSameStage
<1>3. QED BY <1>1, <1>2

\* Worker steps: each one stays in front of the gates that were not approved.
LEMMA GateWorker ==
  ASSUME GateInv, NEW r \in Runs, Followed(r), NEW w \in Workers, Worker(r, w)
  PROVE  GateRun(r)'
<1>0. TypeOK /\ GateRun(r)
  BY DEF GateInv
<1>1. CASE RunNextStage(r, w)
  <2>1. /\ w \in Driving(r) /\ worker[r][w].job = "next" /\ RunStage(r, w, node[r], FALSE)
        /\ node[r] \in StageTypes
    BY <1>1, Drives DEF RunNextStage
  <2>2. Reachable(r, node[r])
    <3>1. /\ stageOf[r] \in StageTypes /\ stageOf[r] # "none"
          /\ \/ stageOf[r] = FirstStage /\ node[r] = FirstStage
             \/ node[r] = SuccessNode[stageOf[r]]
      BY <2>1, DrivesInStage DEF Stands
    <3>2. QED BY <1>0, <3>1, StageReachable, GateGraph DEF Reachable
  <2>3. QED BY <2>1, <2>2, GateStage
<1>2. CASE EnterGate(r, w)
  <2>1. w \in Driving(r) /\ worker[r][w].job = "next" /\ node[r] \in Gates
    BY <1>2, Drives DEF EnterGate
  <2>2. /\ stageOf[r] \in StageTypes /\ stageOf[r] # "none" /\ WorkRun(r) /\ ~(r > session.current)
        /\ \/ stageOf[r] = FirstStage /\ node[r] = FirstStage
           \/ node[r] = SuccessNode[stageOf[r]]
    BY <2>1, DrivesInStage DEF Stands
  <2>3. GateSource(node[r]) = stageOf[r]
    BY <2>1, <2>2, GateGraph DEF Gates, FirstStage
  <2>4. /\ session'.current = session.current /\ stageOf'[r] = stageOf[r]
        /\ rows'[r][stageOf[r]] # "none"
        /\ \A t \in StageTypes \ {stageOf[r]} : rows'[r][t] = rows[r][t]
        /\ Leave(r, w) /\ node' = node /\ decision' = decision /\ overtaken' = overtaken
    BY <1>0, <1>2, <2>3, GateEffect
  <2>5. WorkRun(r)'
    BY <1>0, <2>1, <2>2, <2>4, WorkMoves DEF Leave
  <2>6. QED BY <1>0, <2>2, <2>4, <2>5, GateMoves, StageReachable
<1>3. CASE CompleteRun(r, w)
  <2>1. w \in Driving(r) /\ worker[r][w].job = "next" /\ node[r] = "end"
    BY <1>3, Drives DEF CompleteRun
  <2>2. /\ stageOf[r] \in StageTypes /\ WorkRun(r) /\ ~(r > session.current)
        /\ \/ stageOf[r] = FirstStage /\ node[r] = FirstStage
           \/ node[r] = SuccessNode[stageOf[r]]
    BY <2>1, DrivesInStage DEF Stands
  <2>3. stageOf[r] = "delivery_integration"
    BY <2>1, <2>2, GateGraph DEF FirstStage
  <2>4. \A gate \in GatedStages : decision[r][gate] = "approved"
    BY <1>0, <2>3 DEF GateRun, GatedStages, BehindGate
  <2>5. /\ session'.current = session.current /\ runStatus'[r] = "completed" /\ stageOf'[r] = "none"
        /\ Leave(r, w)
        /\ rows' = rows /\ decision' = decision /\ overtaken' = overtaken /\ request' = request
    BY <1>0, <1>3, CompleteEffect
  <2>6. Driving(r)' = {} /\ \A v \in Workers : worker'[r][v] \in {worker[r][v], NoWork}
    BY <1>0, <2>1, <2>2, <2>5, LeaveWork
  <2>7. WorkRun(r)'
    BY <2>2, <2>5, <2>6 DEF WorkRun, Undisturbed, NoWork
  <2>8. QED BY <2>2, <2>4, <2>5, <2>7, GateGraph DEF GateRun
<1>4. CASE RunNextRefused(r, w) \/ ResumeRefused(r, w) \/ AskingRaises(r, w)
  BY <1>4, GateGivesUp DEF RunNextRefused, ResumeRefused, AskingRaises, StageRaises, AtWork
<1>5. CASE ResumeApproval(r, w)
  <2> DEFINE target == IF worker[r][w].job = "approved" THEN ApprovedTarget(stageOf[r])
                                                        ELSE RejectedTarget(stageOf[r])
  <2>1. w \in Driving(r) /\ worker[r][w].job \in {"approved", "rejected"}
    BY <1>5, Drives DEF ResumeApproval
  <2>2. /\ stageOf[r] \in GatedStages /\ worker[r][w].stage = stageOf[r] /\ stageOf[r] # "none"
        /\ worker[r][w].job = "approved" => decision[r][stageOf[r]] = "approved"
    BY <2>1, DrivesInStage DEF Stands
  <2>3. target \in StageTypes
    BY DEF ApprovedTarget, RejectedTarget, StageTypes
  <2>4. Reachable(r, stageOf[r])
    BY <1>0, <2>2, StageReachable
  <2>5. Reachable(r, target)
    <3>1. CASE worker[r][w].job = "approved"
      BY <2>2, <2>4, <3>1 DEF Reachable, GatedStages, BehindGate, ApprovedTarget, StageTypes
    <3>2. CASE worker[r][w].job # "approved"
      BY <2>2, <2>4, <3>2 DEF Reachable, GatedStages, BehindGate, RejectedTarget, StageTypes
    <3>3. QED BY <3>1, <3>2
  <2>6. RunStage(r, w, target, TRUE)
    BY <1>5, <2>2 DEF ResumeApproval
  <2> HIDE DEF target
  <2>7. QED BY <2>1, <2>3, <2>5, <2>6, GateStage
<1>6. CASE ResumeToolConfirmation(r, w)
  <2>1. /\ w \in Driving(r) /\ worker[r][w].job = "allowed"
        /\ RunStage(r, w, worker[r][w].stage, TRUE)
    BY <1>6, Drives DEF ResumeToolConfirmation
  <2>2. stageOf[r] \in StageTypes /\ stageOf[r] # "none" /\ worker[r][w].stage = stageOf[r]
    BY <2>1, DrivesInStage DEF Stands
  <2>3. Reachable(r, worker[r][w].stage)
    BY <1>0, <2>2, StageReachable
  <2>4. QED BY <2>1, <2>2, <2>3, GateStage
<1>7. CASE FinishAsking(r, w)
  <2>1. w \in Driving(r) /\ worker[r][w].job = "asking"
    BY <1>7, Drives DEF FinishAsking, OwnPending
  <2>2. stageOf[r] \in StageTypes /\ worker[r][w].stage = stageOf[r] /\ WorkRun(r)
    BY <2>1, DrivesInStage DEF Stands
  <2>3. /\ session'.current = session.current /\ stageOf'[r] = stageOf[r]
        /\ rows'[r][stageOf[r]] # "none"
        /\ \A t \in StageTypes \ {stageOf[r]} : rows'[r][t] = rows[r][t]
        /\ Leave(r, w) /\ node'[r] = "blocked" /\ decision' = decision /\ overtaken' = overtaken
    BY <1>0, <1>7, <2>2, FinishEffect
  <2>4. /\ Driving(r)' = {}
        /\ \A v \in Workers : worker'[r][v] \in {worker[r][v], NoWork}
    BY <1>0, <2>1, <2>2, <2>3, LeaveWork
  <2>5. QED BY <1>0, <2>2, <2>3, <2>4, GateSameStage
<1>8. CASE AskAgain(r, w)
  <2>1. w \in AtWork(r)
    BY <1>8 DEF AskAgain, AtWork
  <2>2. CASE /\ StageWaits(r, w, worker[r][w].stage, "tool_confirmation")
             /\ overtaken' = [overtaken EXCEPT ![r] = "asked_again"]
    <3>1. worker[r][w].stage \in StageTypes /\ rows[r][worker[r][w].stage] # "none"
      <4>1. CASE worker[r][w].job = "answered"
        BY <1>0, <4>1 DEF GateRun, WorkRun
      <4>2. CASE worker[r][w].job = "asking"
        BY <4>2, Drives, DrivesInStage DEF Stands
      <4>3. QED BY <1>8, <4>1, <4>2 DEF AskAgain
    <3>2. PICK s : s = worker[r][w].stage
      OBVIOUS
    <3>3. "tool_confirmation" \in WaitKinds /\ WaitingStatus("tool_confirmation") # "none"
      BY WaitingStatuses3 DEF WaitKinds
    <3>4. StageWaits(r, w, s, "tool_confirmation")
      BY <2>2, <3>2
    <3>5. /\ StartedStage(r, s)[r] = s
          /\ session'.current = session.current /\ stageOf'[r] = s /\ rows'[r][s] # "none"
          /\ \A t \in StageTypes \ {s} : rows'[r][t] = rows[r][t]
          /\ Leave(r, w) /\ node'[r] = "blocked" /\ decision' = decision
      BY <1>0, <3>1, <3>2, <3>3, <3>4, WaitsEffect
    <3>6. stageOf[r] = s
      BY <1>0, <3>1, <3>2, <3>5 DEF StartedStage, TypeOK
    <3>7. \A v \in Workers : worker'[r][v] \in {worker[r][v], NoWork}
      BY <1>0, <3>5, LeaveWork
    <3>8. ~Followed(r)'
      BY <1>0, <2>2 DEF Followed, TypeOK
    <3>9. QED BY <1>0, <3>1, <3>2, <3>5, <3>6, <3>7, <3>8, GateSameStage
  <2>3. QED BY <1>8, <2>1, <2>2, GateGivesUp DEF AskAgain, WaitRefused
<1>9. QED BY <1>1, <1>2, <1>3, <1>4, <1>5, <1>6, <1>7, <1>8 DEF Worker

\* An answer sends one worker out; the one that asked, if it is still there, is
\* overtaken.
LEMMA WorkAnswered ==
  ASSUME TypeOK, NEW r \in Runs, NEW job \in {"reply", "approved", "rejected", "allowed", "denied"},
         WorkRun(r), request[r].status = "pending", stageOf[r] \in StageTypes,
         ResumeAsync(r, job), stageOf'[r] = stageOf[r], rows'[r][stageOf[r]] # "none",
         \A t \in StageTypes \ {stageOf[r]} : rows'[r][t] = rows[r][t],
         request'[r].status # "pending",
         overtaken'[r] = IF Asking(r) THEN "answered" ELSE overtaken[r],
         job \in {"approved", "rejected"} => stageOf[r] \in GatedStages,
         job = "approved" => decision'[r][stageOf[r]] = "approved"
  PROVE  WorkRun(r)'
<1>1. PICK w \in Workers \ AtWork(r) :
        /\ worker'[r][w] = [job |-> job, ref |-> checkpoint[r], stage |-> stageOf[r]]
        /\ \A u \in Workers \ {w} :
             IF worker[r][u].job = "asking"
             THEN worker'[r][u].job = "answered" /\ worker'[r][u].stage = worker[r][u].stage
             ELSE worker'[r][u] = worker[r][u]
  BY ResumeAsyncEffect
<1>2. worker'[r][w].job = job /\ worker'[r][w].stage = stageOf[r]
  BY <1>1
<1>3. \A u \in Driving(r)' : u = w
  BY <1>1 DEF WorkRun, Driving, AtWork
<1>4. Stands(r, w)'
  BY <1>2 DEF Stands
<1>5. ASSUME NEW u \in Workers, worker'[r][u].job = "answered"
      PROVE  /\ worker'[r][u].stage \in StageTypes /\ rows'[r][worker'[r][u].stage] # "none"
             /\ ~Undisturbed(r)'
  <2>1. u # w
    BY <1>2, <1>5
  <2>2. CASE worker[r][u].job = "asking"
    <3>1. Asking(r)
      BY <2>2 DEF Asking
    <3>2. u \in Driving(r)
      BY <2>2 DEF Driving, AtWork
    <3>3. worker'[r][u].stage = stageOf[r]
      BY <1>1, <2>1, <2>2, <3>2 DEF WorkRun, Stands
    <3>4. QED BY <3>1, <3>3 DEF Undisturbed
  <2>3. CASE worker[r][u].job # "asking"
    <3>1. worker'[r][u] = worker[r][u]
      BY <1>1, <2>1, <2>3
    <3>2. /\ worker[r][u].stage \in StageTypes /\ rows[r][worker[r][u].stage] # "none"
          /\ overtaken[r] # "no"
      BY <1>5, <3>1 DEF WorkRun, Undisturbed
    <3>3. QED BY <3>1, <3>2 DEF Undisturbed
  <2>4. QED BY <2>2, <2>3
<1>6. stageOf'[r] # "none"
  BY GateGraph
<1>7. QED BY <1>3, <1>4, <1>5, <1>6 DEF WorkRun

\* Commands: none moves a run past a gate, a decision is only written at the gate
\* the run stands at.
LEMMA GateCommand ==
  ASSUME GateInv, NEW r \in Runs, Followed(r), ResumeRun(r) \/ AnAnswer(r) \/ Interruption(r)
  PROVE  GateRun(r)'
<1>0. TypeOK /\ GateRun(r) /\ WorkRun(r)
  BY DEF GateInv, GateRun
<1>1. ASSUME PauseRun(r) \/ ResumeRun(r) \/ TerminateRun(r)
      PROVE  GateRun(r)'
  <2>1. /\ stageOf[r] # "none" /\ UNCHANGED <<stageOf, decision, node, worker, overtaken>>
        /\ session'.current = session.current
        /\ \A s \in StageTypes : s # stageOf[r] => rows'[r][s] = rows[r][s]
        /\ rows[r][stageOf[r]] # "none" => rows'[r][stageOf[r]] # "none"
    BY <1>0, <1>1
    DEF PauseRun, ResumeRun, TerminateRun, ActiveContext, ShowStatus, workerVars, TypeOK
  <2>2. stageOf[r] \in StageTypes
    BY <1>0, <2>1 DEF TypeOK
  <2>3. request'[r].status = "pending" => request[r].status = "pending"
    <3>1. CASE TerminateRun(r)
      BY <1>0, <3>1 DEF TerminateRun, CancelConfirmation, CancelPending, TypeOK
    <3>2. CASE PauseRun(r) \/ ResumeRun(r)
      BY <3>2 DEF PauseRun, ResumeRun
    <3>3. QED BY <1>1, <3>1, <3>2
  <2>4. QED BY <1>0, <2>1, <2>2, <2>3, GateSameStage
<1>2. ASSUME NEW kind \in WaitKinds, NEW status \in RequestStatuses \ {"pending"},
             NEW row \in {"running", "completed"},
             NEW job \in {"reply", "approved", "rejected", "allowed", "denied"},
             Answerable(r, kind), Answer(r, status, row, job),
             \/ UNCHANGED decision /\ job \notin {"approved", "rejected"}
             \/ /\ stageOf[r] \in GatedStages /\ job \in {"approved", "rejected"}
                /\ decision' = [decision EXCEPT ![r][stageOf[r]] = job]
      PROVE  GateRun(r)'
  <2>1. stageOf[r] # "none" /\ stageOf[r] \in StageTypes /\ ~(r > session.current)
    <3>1. WaitingStatus(kind) \notin {"none", "completed"}
      BY <1>2, WaitingStatuses3 DEF WaitKinds
    <3>2. QED BY <1>0, <1>2, <3>1 DEF Answerable, GateRun, Untouched, TypeOK
  <2>2. /\ stageOf' = stageOf /\ node' = node /\ session'.current = session.current
        /\ rows'[r][stageOf[r]] = row
        /\ \A s \in StageTypes \ {stageOf[r]} : rows'[r][s] = rows[r][s]
        /\ request'[r].status = status /\ ResumeAsync(r, job)
        /\ overtaken'[r] = IF Asking(r) THEN "answered" ELSE overtaken[r]
    BY <1>0, <1>2, <2>1 DEF Answer, ShowStatus, graphVars, TypeOK
  <2>3. /\ \A gate \in GatedStages : gate = stageOf[r] \/ decision'[r][gate] = decision[r][gate]
        /\ job \in {"approved", "rejected"} =>
             stageOf[r] \in GatedStages /\ decision'[r][stageOf[r]] = job
    BY <1>0, <1>2 DEF TypeOK
  <2>4. WorkRun(r)'
    BY <1>0, <1>2, <2>1, <2>2, <2>3, WorkAnswered DEF Answerable
  <2>5. \A gate \in GatedStages :
          IF stageOf[r] \in BehindGate(gate)
          THEN decision'[r][gate] = "approved"
          ELSE NothingBehind(r, gate)'
    BY <1>0, <2>1, <2>2, <2>3, GateGraph DEF GateRun, NothingBehind
  <2>6. QED BY <2>1, <2>2, <2>4, <2>5 DEF GateRun
<1>3. CASE AnswerClarification(r)
  BY <1>2, <1>3 DEF AnswerClarification, WaitKinds, RequestStatuses
<1>4. ASSUME NEW verdict \in {"approved", "rejected"}, SubmitApproval(r, verdict)
      PROVE  GateRun(r)'
  BY <1>2, <1>4 DEF SubmitApproval, WaitKinds, RequestStatuses
<1>5. ASSUME NEW verdict \in {"allowed", "denied"}, SubmitToolConfirmation(r, verdict)
      PROVE  GateRun(r)'
  BY <1>2, <1>5 DEF SubmitToolConfirmation, WaitKinds, RequestStatuses
<1>6. QED BY <1>1, <1>3, <1>4, <1>5 DEF AnAnswer, Interruption

\* A new run starts in front of every gate, and losing the workers moves nobody.
LEMMA GateLife ==
  ASSUME GateInv, StartFirstRun \/ CreateRerun \/ Crash
  PROVE  \A q \in Runs : GateRun(q)'
<1>0. TypeOK
  BY DEF GateInv
<1>1. ASSUME NEW r \in Runs, r = session.current + 1, Publish(r)
      PROVE  \A q \in Runs : GateRun(q)'
  <2>1. GateRun(r) /\ stageOf[r] = "none" /\ Untouched(r) /\ (Followed(r) => WorkRun(r))
    BY <1>0, <1>1 DEF GateInv, GateRun, TypeOK, Runs
  <2>2. /\ stageOf'[r] = FirstStage /\ session'.current = r
        /\ node'[r] = FirstStage /\ decision' = decision /\ overtaken' = overtaken /\ request' = request
        /\ rows'[r][FirstStage] = "running"
        /\ \A s \in StageTypes \ {FirstStage} : rows'[r][s] = "none"
        /\ \A q \in Runs \ {r} :
             runStatus'[q] = runStatus[q] /\ stageOf'[q] = stageOf[q] /\ rows'[q] = rows[q]
    BY <1>0, <1>1, <2>1 DEF Publish, TypeOK, Untouched, NoRows, StageTypes, FirstStage
  <2>3. PICK w \in Workers : Put(r, w, NextStep)
    BY <1>1 DEF Publish
  <2>4. /\ worker'[r][w] = NextStep
        /\ \A v \in Workers \ {w} : worker'[r][v] = worker[r][v]
        /\ \A q \in Runs \ {r} : worker'[q] = worker[q]
    BY <1>0, <2>3, PutWork
  <2>5. \A v \in Workers : worker[r][v].job = "idle"
    BY <2>1 DEF Untouched, Idle, AtWork
  <2>6. /\ \A v \in Workers \ {w} : worker'[r][v].job = "idle"
        /\ worker'[r][w].job = "next"
    BY <2>4, <2>5 DEF NextStep
  <2>7. WorkRun(r)'
    <3>1. \A v \in Driving(r)' : v = w
      BY <2>6 DEF Driving, AtWork
    <3>2. Stands(r, w)'
      BY <2>2, <2>6 DEF Stands
    <3>3. request'[r].status # "pending"
      BY <2>1, <2>2 DEF Untouched, NoRequest
    <3>4. \A v \in Workers : worker'[r][v].job # "answered"
      BY <2>6
    <3>5. QED BY <2>2, <3>1, <3>2, <3>3, <3>4, GateGraph DEF WorkRun, FirstStage
  <2>8. GateRun(r)'
    <3>1. \A gate \in GatedStages : NothingBehind(r, gate)'
      BY <2>2, GateGraph DEF NothingBehind, FirstStage
    <3>2. stageOf'[r] # "none" /\ \A gate \in GatedStages : stageOf'[r] \notin BehindGate(gate)
      BY <2>2, GateGraph DEF FirstStage
    <3>3. QED BY <2>2, <2>7, <3>1, <3>2 DEF GateRun, Runs
  <2>9. ASSUME NEW q \in Runs \ {r} PROVE GateRun(q)'
    <3>1. GateRun(q) /\ session.current \in Nat /\ session'.current \in Nat /\ session'.current >= session.current
      BY <1>0, <1>1, <2>2 DEF GateInv, TypeOK, Runs
    <3>2. /\ runStatus'[q] = runStatus[q] /\ stageOf'[q] = stageOf[q] /\ rows'[q] = rows[q]
          /\ request'[q] = request[q] /\ decision'[q] = decision[q] /\ node'[q] = node[q]
          /\ worker'[q] = worker[q] /\ overtaken'[q] = overtaken[q]
      BY <1>1, <2>2, <2>4 DEF Publish
    <3>3. QED BY <3>1, <3>2, GateFrame
  <2>10. QED BY <2>8, <2>9
<1>2. CASE StartFirstRun
  BY <1>0, <1>1, <1>2, ConstantsAssumption DEF StartFirstRun, Runs
<1>3. CASE CreateRerun
  BY <1>0, <1>1, <1>3, ConstantsAssumption DEF CreateRerun, Runs
<1>4. CASE Crash
  <2>1. ASSUME NEW q \in Runs PROVE GateRun(q)'
    <3>1. GateRun(q) /\ UNCHANGED <<session, runtimeVars, graphVars, overtaken>>
      BY <1>4 DEF GateInv, Crash
    <3>2. \A v \in Workers : worker'[q][v] = NoWork
      BY <1>0, <1>4 DEF Crash, TypeOK
    <3>3. Idle(q)' /\ Driving(q)' = {} /\ \A v \in Workers : worker'[q][v].job # "answered"
      BY <3>2 DEF Idle, Driving, AtWork, NoWork
    <3>4. WorkRun(q)'
      BY <3>3 DEF WorkRun
    <3>5. Untouched(q) => Untouched(q)'
      BY <3>1, <3>3 DEF Untouched, runtimeVars, graphVars
    <3>6. QED BY <3>1, <3>4, <3>5 DEF GateRun, NothingBehind, runtimeVars, graphVars
  <2>2. QED BY <2>1
<1>5. QED BY <1>2, <1>3, <1>4

\* GateInv is inductive.
LEMMA GateStep == GateInv /\ [Next]_vars => GateInv'
<1> SUFFICES ASSUME GateInv, [Next]_vars PROVE GateInv'
  OBVIOUS
<1>1. ASSUME StartFirstRun \/ CreateRerun \/ Crash PROVE GateInv'
  BY <1>1, LifeTyped, GateLife DEF GateInv, Runs
<1>2. ASSUME NEW r \in Runs, GateRun(r)', OthersKept(r), TypeOK' PROVE GateInv'
  <2>1. \A q \in Runs \ {r} : GateRun(q)'
    BY <1>2, GateOthers DEF GateInv
  <2>2. QED BY <1>2, <2>1 DEF GateInv, Runs
<1>3. ASSUME NEW r \in Runs, Followed(r), ResumeRun(r) \/ AnAnswer(r) \/ Interruption(r)
      PROVE  GateInv'
  <2>1. TypeOK
    BY DEF GateInv
  <2>2. QED BY <1>2, <1>3, <2>1, CommandTyped, CommandKeepsOthers, GateCommand
<1>4. ASSUME NEW r \in Runs, Followed(r), NEW w \in Workers, Worker(r, w) PROVE GateInv'
  BY <1>2, <1>4, WorkerTyped, WorkerKeepsOthers, GateWorker
<1>5. CASE UNCHANGED vars
  <2>1. TypeOK'
    BY <1>5 DEF vars, GateInv, TypeOK
  <2>2. ASSUME NEW q \in Runs PROVE GateRun(q)'
    BY <1>5, GateFrame DEF vars, GateInv, TypeOK
  <2>3. QED BY <2>1, <2>2 DEF GateInv, Runs
<1>6. QED BY <1>1, <1>3, <1>4, <1>5, FollowedOnly DEF Next

\* Every variable of a session always has its type, whatever interleaves.
THEOREM TypeCorrect == Spec => []TypeOK
<1>1. GateInv => TypeOK
  BY DEF GateInv
<1>2. QED BY <1>1, GateInit, GateStep, PTL DEF Spec

\* No run gets behind a human approval gate whose latest decision did not approve
\* it, for any number of attempts and workers and whatever the stage agents return.
THEOREM GatesHold == Spec => []GateIntegrity
<1>1. GateInv => GateIntegrity
  <2> SUFFICES ASSUME GateInv, NEW r \in Runs, NEW gate \in GatedStages
               PROVE  decision[r][gate] = "approved" \/ NothingBehind(r, gate)
    BY DEF GateIntegrity, NothingBehind
  <2>1. CASE stageOf[r] = "none" /\ Untouched(r)
    BY <2>1 DEF Untouched, NothingBehind, NoRows, FirstStage, BehindGate, StageTypes
  <2>2. CASE stageOf[r] # "none" \/ ~Untouched(r)
    BY <2>2 DEF GateInv, GateRun
  <2>3. QED BY <2>1, <2>2
<1>2. QED BY <1>1, GateInit, GateStep, PTL DEF Spec

\* However answers, pauses and crashes meet a worker in the middle of its step, one
\* worker at most drives a run, and while a request is pending it is the one that
\* asked.
THEOREM OneWorkerDrives == Spec => []OneDriver
<1>1. GateInv => OneDriver
  <2> SUFFICES ASSUME GateInv, NEW r \in Runs, Followed(r)
               PROVE  /\ \A u, w \in Driving(r) : u = w
                      /\ request[r].status = "pending" =>
                           \A w \in Driving(r) : worker[r][w].job = "asking"
                      /\ Undisturbed(r) => AtWork(r) = Driving(r)
    BY DEF OneDriver
  <2>1. WorkRun(r)
    BY DEF GateInv, GateRun
  <2>2. QED BY <2>1 DEF WorkRun, Driving, AtWork
<1>2. QED BY <1>1, GateInit, GateStep, PTL DEF Spec

-----------------------------------------------------------------------------
(* Waits and ends                                                           *)

\* The run waits for an answer of this kind, or was paused while it did.
WaitsFor(r, kind) ==
  \/ runStatus[r] = WaitingStatus(kind)
  \/ runStatus[r] = "paused" /\ recovery[r].run = WaitingStatus(kind)

\* A wait is whole from the step that opens it to the step that ends it, also for
\* the worker that has asked and is still at work.
Waited(r) ==
  /\ runStatus[r] \in WaitingStatuses => thread[r] \in {"interrupted", "paused"}
  /\ runStatus[r] = "paused" => thread[r] = "paused"
  /\ \A kind \in WaitKinds : WaitsFor(r, kind) =>
       /\ request[r] = Filed(kind, stageOf[r])
       /\ rows[r][stageOf[r]] = WaitingStatus(kind)
       /\ interrupt[r] = "pending"
  /\ Asking(r) /\ request[r].status = "pending" => WaitsFor(r, "tool_confirmation")

\* An end leaves nothing that could be answered.
Ended(r) ==
  /\ runStatus[r] = "completed" => stageOf[r] = "none"
  /\ runStatus[r] \in TerminalStatuses =>
       /\ thread[r] = runStatus[r]
       /\ interrupt[r] # "pending"
       /\ request[r].kind = "tool_confirmation" /\ request[r].status = "pending"
            => runStatus[r] = "failed"

\* A worker that goes on has no interrupt before it.
NotInterrupted(r) == \A w \in Workers : worker[r][w].job = "next" => interrupt[r] # "pending"

WaitRun(r) ==
  /\ r > session.current => interrupt[r] = "none"
  /\ Followed(r) => NotInterrupted(r)
  /\ Ended(r)
  /\ Undisturbed(r) => Waited(r)

WaitInv == GateInv /\ \A r \in Runs : WaitRun(r)

\* A step that leaves a run alone leaves its wait alone.
LEMMA WaitFrame ==
  ASSUME NEW q \in Runs, WaitRun(q), session.current \in Nat, session'.current \in Nat,
         session'.current >= session.current,
         runStatus'[q] = runStatus[q], stageOf'[q] = stageOf[q], rows'[q] = rows[q],
         request'[q] = request[q], recovery'[q] = recovery[q], thread'[q] = thread[q],
         interrupt'[q] = interrupt[q], worker'[q] = worker[q], overtaken'[q] = overtaken[q]
  PROVE  WaitRun(q)'
<1>1. Waited(q) => Waited(q)'
  BY DEF Waited, WaitsFor, Asking
<1>2. Ended(q)' /\ (NotInterrupted(q) => NotInterrupted(q)')
  BY DEF WaitRun, Ended, NotInterrupted
<1>3. QED BY <1>1, <1>2 DEF WaitRun, Followed, Undisturbed, Runs

\* A step of one run leaves the waits of the others alone.
LEMMA WaitOthers ==
  ASSUME TypeOK, NEW r \in Runs, NEW q \in Runs \ {r}, WaitRun(q), OthersKept(r)
  PROVE  WaitRun(q)'
<1>1. /\ session.current \in Nat /\ session'.current = session.current
      /\ runStatus'[q] = runStatus[q] /\ stageOf'[q] = stageOf[q] /\ rows'[q] = rows[q]
      /\ request'[q] = request[q] /\ recovery'[q] = recovery[q] /\ thread'[q] = thread[q]
      /\ interrupt'[q] = interrupt[q] /\ worker'[q] = worker[q] /\ overtaken'[q] = overtaken[q]
  BY DEF TypeOK, OthersKept
<1>2. QED BY <1>1, WaitFrame

\* The statuses a wait is told by.
LEMMA StatusesApart ==
  /\ \A kind \in WaitKinds : WaitingStatus(kind) \in WaitingStatuses
  /\ \A k1, k2 \in WaitKinds : WaitingStatus(k1) = WaitingStatus(k2) => k1 = k2
  /\ \A s \in WaitingStatuses : \E kind \in WaitKinds : s = WaitingStatus(kind)
  /\ \A s \in WaitingStatuses : s \notin TerminalStatuses /\ s # "running" /\ s # "paused" /\ s # "none"
  BY WaitingStatuses3 DEF WaitKinds, WaitingStatuses, TerminalStatuses

\* The failure projection ends a run without a trace of a wait.
LEMMA WaitFails ==
  ASSUME TypeOK, NEW r \in Runs, NEW w \in AtWork(r), Followed(r), WorkRun(r),
         session'.current = session.current, ~(r > session.current),
         runStatus'[r] = "failed", thread'[r] = "failed", interrupt'[r] # "pending",
         Leave(r, w), overtaken'[r] = overtaken[r]
  PROVE  WaitRun(r)'
<1>1. Ended(r)' /\ NotInterrupted(r)'
  BY DEF Ended, NotInterrupted, TerminalStatuses
<1>2. ASSUME Undisturbed(r)' PROVE Waited(r)'
  <2>1. w \in Driving(r) /\ w \in Workers
    BY <1>2 DEF Undisturbed, WorkRun, Driving, AtWork
  <2>2. Driving(r)' = {}
    BY <2>1, LeaveWork
  <2>3. ~Asking(r)'
    BY <2>2 DEF Driving, AtWork, Asking
  <2>4. \A kind \in WaitKinds : ~WaitsFor(r, kind)'
    BY StatusesApart DEF WaitsFor, TerminalStatuses
  <2>5. QED BY <2>3, <2>4, StatusesApart DEF Waited, TerminalStatuses
<1>3. QED BY <1>1, <1>2 DEF WaitRun

\* The step that opens a wait opens all of it.
LEMMA WaitOpens ==
  ASSUME NEW r \in Runs, NEW s, NEW kind \in WaitKinds,
         session'.current = session.current, ~(r > session.current),
         runStatus'[r] = WaitingStatus(kind), stageOf'[r] = s, rows'[r][s] = WaitingStatus(kind),
         request'[r] = Filed(kind, s), thread'[r] = "interrupted", interrupt'[r] = "pending",
         \A v \in Workers : worker'[r][v].job # "next",
         Asking(r)' => kind = "tool_confirmation"
  PROVE  WaitRun(r)'
<1>1. \A k \in WaitKinds : WaitsFor(r, k)' => k = kind
  BY StatusesApart DEF WaitsFor
<1>2. runStatus'[r] \notin TerminalStatuses /\ runStatus'[r] # "completed" /\ runStatus'[r] # "paused"
  BY StatusesApart DEF TerminalStatuses
<1>3. Asking(r)' => WaitsFor(r, "tool_confirmation")'
  BY DEF WaitsFor
<1>4. Waited(r)'
  BY <1>1, <1>2, <1>3 DEF Waited
<1>5. QED BY <1>2, <1>4 DEF WaitRun, Ended, NotInterrupted

\* When the driving worker leaves, nobody else goes on or asks.
LEMMA NobodyDrives ==
  ASSUME TypeOK, NEW r \in Runs, NEW w \in Workers, w \in Driving(r), WorkRun(r), Leave(r, w)
  PROVE  ~Asking(r)' /\ \A v \in Workers : worker'[r][v].job # "next"
<1>1. Driving(r)' = {}
  BY LeaveWork
<1>2. QED BY <1>1 DEF Driving, AtWork, Asking

\* One stage execution opens a whole wait or none.
LEMMA WaitStage ==
  ASSUME WaitInv, NEW r \in Runs, Followed(r), NEW w \in Driving(r), NEW s, s \in StageTypes,
         NEW resumed \in BOOLEAN,
         worker[r][w].job # "asking", resumed \/ interrupt[r] # "pending",
         RunStage(r, w, s, resumed)
  PROVE  WaitRun(r)'
<1>0. /\ GateInv /\ WaitRun(r)
      /\ TypeOK /\ WorkRun(r) /\ w \in Workers /\ w \in AtWork(r) /\ stageOf[r] \in StageTypes
      /\ ~(r > session.current) /\ request[r].status # "pending"
  <2>1. GateInv /\ WaitRun(r)
    BY DEF WaitInv
  <2>2. w \in AtWork(r)
    BY DEF Driving
  <2>3. QED BY <2>1, <2>2, DrivesInStage
<1>1. CASE StageCompletes(r, w, s, resumed)
  <2>1. /\ runStatus'[r] = "running" /\ interrupt'[r] # "pending" /\ request' = request
        /\ session'.current = session.current
    BY <1>0, <1>1, CompletesEffect
  <2>2. \A kind \in WaitKinds : ~WaitsFor(r, kind)'
    BY <2>1, StatusesApart DEF WaitsFor
  <2>3. Waited(r)'
    BY <1>0, <2>1, <2>2, StatusesApart DEF Waited
  <2>4. QED BY <1>0, <2>1, <2>3 DEF WaitRun, Ended, NotInterrupted, TerminalStatuses
<1>2. CASE RequestConfirmation(r, w, s)
  <2>1. /\ runStatus'[r] = "waiting_tool_confirmation" /\ stageOf'[r] = s
        /\ rows'[r][s] = "waiting_tool_confirmation"
        /\ request'[r] = Filed("tool_confirmation", s)
        /\ thread'[r] = "interrupted" /\ interrupt'[r] = "pending"
        /\ session'.current = session.current /\ Put(r, w, Asked(s))
    BY <1>0, <1>2, ConfirmationEffect
  <2>2. worker'[r][w] = Asked(s) /\ \A v \in Workers \ {w} : worker'[r][v] = worker[r][v]
    BY <1>0, <2>1, PutWork
  <2>3. \A v \in Workers : worker'[r][v].job # "next"
    <3>1. ASSUME NEW v \in Workers \ {w}, worker[r][v].job = "next" PROVE FALSE
      BY <1>0, <3>1 DEF WorkRun, Driving, AtWork
    <3>2. worker'[r][w].job = "asking"
      BY <2>2 DEF Asked
    <3>3. QED BY <2>2, <3>1, <3>2
  <2>4. "tool_confirmation" \in WaitKinds /\ WaitingStatus("tool_confirmation") = "waiting_tool_confirmation"
    BY WaitingStatuses3 DEF WaitKinds
  <2>5. QED BY <1>0, <2>1, <2>3, <2>4, WaitOpens
<1>3. ASSUME NEW kind \in {"clarification", "tool_confirmation"}, StageWaits(r, w, s, kind)
      PROVE  WaitRun(r)'
  <2>1. kind \in WaitKinds
    BY DEF WaitKinds
  <2>2. /\ runStatus'[r] = WaitingStatus(kind) /\ stageOf'[r] = s
        /\ rows'[r][s] = WaitingStatus(kind) /\ request'[r] = Filed(kind, s)
        /\ thread'[r] = "interrupted" /\ interrupt'[r] = "pending"
        /\ session'.current = session.current /\ Leave(r, w)
    BY <1>0, <1>3, <2>1, WaitsEffect
  <2>3. ~Asking(r)' /\ \A v \in Workers : worker'[r][v].job # "next"
    BY <1>0, <2>2, NobodyDrives
  <2>4. QED BY <1>0, <2>1, <2>2, <2>3, WaitOpens
<1>4. ASSUME FailRolledBack(r, w) PROVE WaitRun(r)'
  BY <1>0, <1>4, RolledBackEffect, WaitFails
<1>5. CASE StageFails(r, w, s, resumed)
  BY <1>0, <1>5, FailsEffect, WaitFails
<1>6. QED BY <1>1, <1>2, <1>3, <1>4, <1>5 DEF RunStage, WaitRefused, StageRaises

\* Giving up: without a current stage the run stays what it was.
LEMMA WaitGivesUp ==
  ASSUME WaitInv, NEW r \in Runs, Followed(r), NEW w \in AtWork(r), FailRolledBack(r, w)
  PROVE  WaitRun(r)'
<1>0. TypeOK /\ WaitRun(r) /\ GateRun(r) /\ WorkRun(r) /\ w \in Workers
  BY DEF WaitInv, GateInv, GateRun, AtWork
<1>1. CASE stageOf[r] = "none"
  <2>1. Leave(r, w) /\ UNCHANGED <<session, runtimeVars, graphVars, overtaken>>
    BY <1>1 DEF FailRolledBack
  <2>2. \A v \in Workers : worker'[r][v] \in {worker[r][v], NoWork}
    BY <1>0, <2>1, LeaveWork
  <2>3. (NotInterrupted(r) => NotInterrupted(r)') /\ (Asking(r)' => Asking(r))
    BY <2>1, <2>2 DEF NotInterrupted, Asking, NoWork, graphVars
  <2>4. /\ Followed(r)' <=> Followed(r)
        /\ Undisturbed(r)' <=> Undisturbed(r)
        /\ Ended(r)' <=> Ended(r)
    BY <2>1 DEF Followed, Undisturbed, Ended, runtimeVars, graphVars
  <2>5. Waited(r) => Waited(r)'
    BY <2>1, <2>3 DEF Waited, WaitsFor, runtimeVars, graphVars
  <2>6. QED BY <1>0, <2>1, <2>3, <2>4, <2>5 DEF WaitRun, graphVars
<1>2. CASE stageOf[r] # "none"
  <2>1. stageOf[r] \in StageTypes /\ ~(r > session.current)
    BY <1>0, <1>2 DEF TypeOK, GateRun
  <2>2. QED BY <1>0, <2>1, RolledBackEffect, WaitFails
<1>3. QED BY <1>1, <1>2

\* Worker steps keep waits whole and ends clean.
LEMMA WaitWorker ==
  ASSUME WaitInv, NEW r \in Runs, Followed(r), NEW w \in Workers, Worker(r, w)
  PROVE  WaitRun(r)'
<1>0. TypeOK /\ WaitRun(r) /\ GateInv /\ NotInterrupted(r)
  BY DEF WaitInv, GateInv, WaitRun
<1>1. CASE RunNextStage(r, w)
  <2>1. /\ w \in Driving(r) /\ worker[r][w].job = "next" /\ RunStage(r, w, node[r], FALSE)
        /\ node[r] \in StageTypes /\ interrupt[r] # "pending"
    BY <1>0, <1>1, Drives DEF RunNextStage, NotInterrupted
  <2>2. QED BY <2>1, WaitStage
<1>2. CASE EnterGate(r, w)
  <2>1. w \in Driving(r)
    BY <1>2, Drives DEF EnterGate
  <2>2. WorkRun(r) /\ ~(r > session.current)
    BY <1>0, <2>1, DrivesInStage
  <2>3. PICK s : s = GateSource(node[r])
    OBVIOUS
  <2>4. /\ session'.current = session.current /\ runStatus'[r] = "waiting_approval"
        /\ stageOf'[r] = s /\ rows'[r][s] = "waiting_approval"
        /\ request'[r] = Filed("approval", s)
        /\ thread'[r] = "interrupted" /\ interrupt'[r] = "pending" /\ Leave(r, w)
    BY <1>0, <1>2, <2>3, GateEffect
  <2>5. ~Asking(r)' /\ \A v \in Workers : worker'[r][v].job # "next"
    BY <1>0, <2>1, <2>2, <2>4, NobodyDrives
  <2>6. "approval" \in WaitKinds /\ WaitingStatus("approval") = "waiting_approval"
    BY WaitingStatuses3 DEF WaitKinds
  <2>7. QED BY <2>2, <2>4, <2>5, <2>6, WaitOpens
<1>3. CASE CompleteRun(r, w)
  <2>1. w \in Driving(r) /\ worker[r][w].job = "next"
    BY <1>3, Drives DEF CompleteRun
  <2>2. WorkRun(r) /\ ~(r > session.current) /\ request[r].status # "pending" /\ interrupt[r] # "pending"
    BY <1>0, <2>1, DrivesInStage DEF NotInterrupted
  <2>3. /\ session'.current = session.current /\ runStatus'[r] = "completed" /\ stageOf'[r] = "none"
        /\ thread'[r] = "completed" /\ request' = request /\ interrupt' = interrupt
    BY <1>0, <1>3, CompleteEffect
  <2>4. \A kind \in WaitKinds : ~WaitsFor(r, kind)'
    BY <2>3, StatusesApart DEF WaitsFor, TerminalStatuses
  <2>5. Waited(r)'
    BY <2>2, <2>3, <2>4, StatusesApart DEF Waited, TerminalStatuses
  <2>6. QED BY <2>2, <2>3, <2>5 DEF WaitRun, Ended, NotInterrupted
<1>4. CASE RunNextRefused(r, w) \/ ResumeRefused(r, w) \/ AskingRaises(r, w)
  BY <1>4, WaitGivesUp DEF RunNextRefused, ResumeRefused, AskingRaises, StageRaises, AtWork
<1>5. CASE ResumeApproval(r, w)
  <2>1. PICK target : /\ target \in StageTypes
                      /\ RunStage(r, w, target, TRUE)
    BY <1>5, TargetsTyped DEF ResumeApproval
  <2>2. w \in Driving(r) /\ worker[r][w].job # "asking"
    BY <1>5, Drives DEF ResumeApproval
  <2>3. QED BY <2>1, <2>2, WaitStage
<1>6. CASE ResumeToolConfirmation(r, w)
  <2>1. /\ w \in Driving(r) /\ worker[r][w].job = "allowed"
        /\ RunStage(r, w, worker[r][w].stage, TRUE)
    BY <1>6, Drives DEF ResumeToolConfirmation
  <2>2. worker[r][w].stage \in StageTypes
    BY <1>0, <2>1, DrivesInStage DEF Stands
  <2>3. QED BY <2>1, <2>2, WaitStage
<1>7. CASE FinishAsking(r, w)
  <2>1. w \in Driving(r) /\ worker[r][w].job = "asking" /\ request[r].status = "pending"
    BY <1>7, Drives DEF FinishAsking, OwnPending
  <2>2. /\ stageOf[r] \in StageTypes /\ worker[r][w].stage = stageOf[r] /\ WorkRun(r)
        /\ ~(r > session.current)
    BY <1>0, <2>1, DrivesInStage DEF Stands
  <2>3. /\ session'.current = session.current /\ stageOf'[r] = stageOf[r]
        /\ runStatus'[r] = "waiting_tool_confirmation"
        /\ rows'[r][stageOf[r]] = "waiting_tool_confirmation"
        /\ Leave(r, w) /\ overtaken' = overtaken /\ request' = request
        /\ thread' = thread /\ interrupt' = interrupt
    BY <1>0, <1>7, <2>2, FinishEffect
  <2>4. ~Asking(r)' /\ \A v \in Workers : worker'[r][v].job # "next"
    BY <1>0, <2>1, <2>2, <2>3, NobodyDrives
  <2>5. ASSUME Undisturbed(r)' PROVE Waited(r)'
    <3>1. Waited(r)
      BY <1>0, <2>3, <1>0, <2>5 DEF WaitRun, Undisturbed
    <3>2. WaitsFor(r, "tool_confirmation") /\ "tool_confirmation" \in WaitKinds
      BY <2>1, <3>1 DEF Waited, Asking, WaitKinds
    <3>3. /\ request[r] = Filed("tool_confirmation", stageOf[r]) /\ interrupt[r] = "pending"
          /\ thread[r] \in {"interrupted", "paused"}
      BY <3>1, <3>2, StatusesApart DEF Waited, WaitsFor
    <3>4. \A k \in WaitKinds : WaitsFor(r, k)' => k = "tool_confirmation"
      BY <2>3, <3>2, StatusesApart, WaitingStatuses3 DEF WaitsFor
    <3>5. runStatus'[r] # "paused"
      BY <2>3
    <3>6. QED BY <2>3, <2>4, <3>2, <3>3, <3>4, <3>5, WaitingStatuses3 DEF Waited
  <2>6. runStatus'[r] \notin TerminalStatuses /\ runStatus'[r] # "completed"
    BY <2>3 DEF TerminalStatuses
  <2>7. QED BY <2>2, <2>3, <2>4, <2>5, <2>6 DEF WaitRun, Ended, NotInterrupted
<1>8. CASE AskAgain(r, w)
  <2>1. CASE /\ StageWaits(r, w, worker[r][w].stage, "tool_confirmation")
             /\ overtaken' = [overtaken EXCEPT ![r] = "asked_again"]
    <3>1. worker[r][w].stage \in StageTypes
      BY <1>0, <1>8, RequestStage DEF AskAgain
    <3>2. PICK s : s = worker[r][w].stage
      OBVIOUS
    <3>3. "tool_confirmation" \in WaitKinds
      BY DEF WaitKinds
    <3>4. StageWaits(r, w, s, "tool_confirmation")
      BY <2>1, <3>2
    <3>5. /\ session.current = r /\ session'.current = session.current
          /\ runStatus'[r] = WaitingStatus("tool_confirmation")
      BY <1>0, <3>1, <3>2, <3>3, <3>4, WaitsEffect
    <3>6. runStatus'[r] \notin TerminalStatuses /\ runStatus'[r] # "completed"
      BY <3>3, <3>5, StatusesApart DEF TerminalStatuses
    <3>7. ~Followed(r)' /\ ~Undisturbed(r)'
      BY <1>0, <2>1 DEF Followed, Undisturbed, TypeOK
    <3>8. ~(r > session'.current)
      BY <3>5 DEF Runs
    <3>9. QED BY <3>6, <3>7, <3>8 DEF WaitRun, Ended
  <2>2. CASE WaitRefused(r, w, worker[r][w].stage, "tool_confirmation")
    BY <1>8, <2>2, WaitGivesUp DEF AskAgain, WaitRefused, AtWork
  <2>3. QED BY <1>8, <2>1, <2>2 DEF AskAgain
<1>9. QED BY <1>1, <1>2, <1>3, <1>4, <1>5, <1>6, <1>7, <1>8 DEF Worker

\* A command that leaves the workers and the request alone keeps who goes on.
LEMMA WaitKept ==
  ASSUME NEW r \in Runs, WaitRun(r), worker' = worker, interrupt'[r] \in {interrupt[r], "cancelled"},
         overtaken' = overtaken
  PROVE  /\ Followed(r)' => NotInterrupted(r)'
         /\ Undisturbed(r)' => Waited(r)
         /\ Asking(r)' <=> Asking(r)
  BY DEF WaitRun, Followed, NotInterrupted, Undisturbed, Asking

\* Commands do too: a pause keeps the wait it interrupts, an answer ends it, a
\* termination cancels what would let the run be answered.
LEMMA WaitCommand ==
  ASSUME WaitInv, NEW r \in Runs, Followed(r), ResumeRun(r) \/ AnAnswer(r) \/ Interruption(r)
  PROVE  WaitRun(r)'
<1>0. TypeOK /\ WaitRun(r) /\ GateRun(r) /\ WorkRun(r)
  BY DEF WaitInv, GateInv, GateRun
<1>2. CASE PauseRun(r)
  <2>1. /\ runStatus[r] \in {"running"} \union WaitingStatuses /\ recovery'[r].run = runStatus[r]
        /\ runStatus'[r] = "paused" /\ thread'[r] = "paused" /\ ~(r > session.current)
        /\ UNCHANGED <<stageOf, rows, request, interrupt, worker, overtaken>>
        /\ session'.current = session.current
    BY <1>0, <1>2 DEF PauseRun, ActiveContext, RecoveryOf, ShowStatus, workerVars, TypeOK, Runs
  <2>2. ASSUME Waited(r) PROVE Waited(r)'
    <3>1. \A kind \in WaitKinds : WaitsFor(r, kind)' <=> WaitsFor(r, kind)
      BY <2>1, StatusesApart DEF WaitsFor
    <3>2. Asking(r)' <=> Asking(r)
      BY <2>1 DEF Asking
    <3>3. "tool_confirmation" \in WaitKinds
      BY DEF WaitKinds
    <3>4. QED BY <2>1, <2>2, <3>1, <3>2, <3>3, StatusesApart DEF Waited
  <2>3. Ended(r)'
    BY <2>1 DEF Ended, TerminalStatuses
  <2>4. QED BY <1>0, <2>1, <2>2, <2>3, WaitKept DEF WaitRun
<1>3. CASE ResumeRun(r)
  <2>1. /\ runStatus[r] = "paused" /\ runStatus'[r] = recovery[r].run
        /\ recovery[r].run \in {"running"} \union WaitingStatuses /\ ~(r > session.current)
        /\ UNCHANGED <<stageOf, rows, request, recovery, interrupt, worker, overtaken>>
        /\ thread'[r] = IF interrupt[r] = "pending" THEN "interrupted" ELSE "running"
        /\ session'.current = session.current
    BY <1>0, <1>3
    DEF ResumeRun, RecoveryUsable, ResumedThread, ActiveContext, ShowStatus, workerVars, TypeOK, Runs
  <2>2. ASSUME Waited(r) PROVE Waited(r)'
    <3>1. \A kind \in WaitKinds : WaitsFor(r, kind)' <=> WaitsFor(r, kind)
      BY <2>1, StatusesApart DEF WaitsFor
    <3>2. Asking(r)' <=> Asking(r)
      BY <2>1 DEF Asking
    <3>3. runStatus'[r] \in WaitingStatuses => thread'[r] = "interrupted"
      <4>1. SUFFICES ASSUME NEW kind \in WaitKinds, runStatus'[r] = WaitingStatus(kind)
                     PROVE  thread'[r] = "interrupted"
        BY StatusesApart
      <4>2. interrupt[r] = "pending"
        BY <2>1, <2>2, <4>1 DEF Waited, WaitsFor
      <4>3. QED BY <2>1, <4>2
    <3>4. "tool_confirmation" \in WaitKinds /\ runStatus'[r] # "paused"
      BY <2>1, StatusesApart DEF WaitKinds
    <3>5. QED BY <2>1, <2>2, <3>1, <3>2, <3>3, <3>4 DEF Waited
  <2>3. Ended(r)'
    BY <2>1, StatusesApart DEF Ended, TerminalStatuses
  <2>4. QED BY <1>0, <2>1, <2>2, <2>3, WaitKept DEF WaitRun
<1>4. CASE TerminateRun(r)
  <2>1. /\ runStatus'[r] = "terminated" /\ thread'[r] = "terminated" /\ ~(r > session.current)
        /\ UNCHANGED <<worker, overtaken>> /\ interrupt'[r] = CancelPending(interrupt[r])
        /\ request'[r].kind = request[r].kind
        /\ \/ request'[r].status = request[r].status /\ request[r].kind # "tool_confirmation"
           \/ request'[r].status = CancelPending(request[r].status)
        /\ session'.current = session.current
    BY <1>0, <1>4
    DEF TerminateRun, CancelConfirmation, ActiveContext, ShowStatus, workerVars, TypeOK, Runs
  <2>2. Ended(r)' /\ interrupt'[r] \in {interrupt[r], "cancelled"}
    BY <2>1 DEF Ended, CancelPending
  <2>3. ASSUME Waited(r) PROVE Waited(r)'
    <3>1. \A kind \in WaitKinds : ~WaitsFor(r, kind)'
      BY <2>1, StatusesApart DEF WaitsFor, TerminalStatuses
    <3>2. ~(Asking(r)' /\ request'[r].status = "pending")
      <4>1. SUFFICES ASSUME Asking(r), request[r].status = "pending", request[r].kind # "tool_confirmation"
                     PROVE  FALSE
        BY <2>1 DEF Asking, CancelPending
      <4>2. request[r] = Filed("tool_confirmation", stageOf[r])
        BY <2>3, <4>1 DEF Waited, WaitKinds
      <4>3. QED BY <4>1, <4>2 DEF Filed
    <3>3. runStatus'[r] \notin WaitingStatuses /\ runStatus'[r] # "paused"
      BY <2>1, StatusesApart DEF TerminalStatuses
    <3>4. QED BY <3>1, <3>2, <3>3 DEF Waited
  <2>4. QED BY <1>0, <2>1, <2>2, <2>3, WaitKept DEF WaitRun
<1>5. ASSUME NEW kind \in WaitKinds, NEW status \in RequestStatuses \ {"pending"}, NEW row,
             NEW job \in {"reply", "approved", "rejected", "allowed", "denied"},
             Answerable(r, kind), Answer(r, status, row, job)
      PROVE  WaitRun(r)'
  <2>1. /\ runStatus'[r] = "running" /\ request'[r].status = status /\ interrupt' = interrupt
        /\ session'.current = session.current /\ ~(r > session.current)
        /\ ResumeAsync(r, job) /\ request[r].status = "pending"
    BY <1>0, <1>5 DEF Answerable, Answer, ShowStatus, graphVars, TypeOK, Runs
  <2>2. NotInterrupted(r)'
    <3>1. \A v \in Workers : worker[r][v].job # "next"
      BY <1>0, <2>1 DEF WorkRun, Driving, AtWork
    <3>2. PICK w \in Workers \ AtWork(r) :
            /\ worker'[r][w] = [job |-> job, ref |-> checkpoint[r], stage |-> stageOf[r]]
            /\ \A u \in Workers \ {w} :
                 IF worker[r][u].job = "asking"
                 THEN worker'[r][u].job = "answered" /\ worker'[r][u].stage = worker[r][u].stage
                 ELSE worker'[r][u] = worker[r][u]
      BY <1>0, <2>1, ResumeAsyncEffect
    <3>3. worker'[r][w].job # "next"
      BY <3>2
    <3>4. QED BY <3>1, <3>2, <3>3 DEF NotInterrupted
  <2>3. Ended(r)'
    BY <2>1 DEF Ended, TerminalStatuses
  <2>4. Waited(r)'
    <3>1. \A k \in WaitKinds : ~WaitsFor(r, k)'
      BY <2>1, StatusesApart DEF WaitsFor
    <3>2. QED BY <2>1, <3>1, StatusesApart DEF Waited
  <2>5. QED BY <2>1, <2>2, <2>3, <2>4 DEF WaitRun
<1>6. CASE AnswerClarification(r)
  BY <1>5, <1>6 DEF AnswerClarification, WaitKinds, RequestStatuses
<1>7. ASSUME NEW verdict \in {"approved", "rejected"}, SubmitApproval(r, verdict)
      PROVE  WaitRun(r)'
  BY <1>5, <1>7 DEF SubmitApproval, WaitKinds, RequestStatuses
<1>8. ASSUME NEW verdict \in {"allowed", "denied"}, SubmitToolConfirmation(r, verdict)
      PROVE  WaitRun(r)'
  BY <1>5, <1>8 DEF SubmitToolConfirmation, WaitKinds, RequestStatuses
<1>9. QED BY <1>2, <1>3, <1>4, <1>6, <1>7, <1>8 DEF AnAnswer, Interruption

\* WaitInv is inductive in every interleaving.
LEMMA WaitStep == WaitInv /\ [Next]_vars => WaitInv'
<1> SUFFICES ASSUME WaitInv, [Next]_vars PROVE WaitInv'
  OBVIOUS
<1>0. GateInv /\ TypeOK /\ GateInv'
  BY GateStep DEF WaitInv, GateInv
<1>1. ASSUME NEW r \in Runs, r = session.current + 1, Publish(r) PROVE WaitInv'
  <2>1. WaitRun(r) /\ GateRun(r)
    BY DEF WaitInv, GateInv
  <2>2. /\ runStatus'[r] = "running" /\ session'.current = r
        /\ UNCHANGED <<request, interrupt, recovery, overtaken>>
        /\ request[r] = NoRequest /\ interrupt[r] = "none"
    BY <1>0, <1>1, <2>1 DEF Publish, WaitRun, GateRun, Untouched, TypeOK, Runs
  <2>3. \A kind \in WaitKinds : ~WaitsFor(r, kind)'
    BY <2>2, StatusesApart DEF WaitsFor
  <2>4. Waited(r)'
    BY <2>2, <2>3, StatusesApart DEF Waited, NoRequest
  <2>5. WaitRun(r)'
    BY <2>2, <2>4 DEF WaitRun, Ended, NotInterrupted, TerminalStatuses, Runs
  <2>6. ASSUME NEW q \in Runs \ {r} PROVE WaitRun(q)'
    <3>1. PICK w \in Workers : Put(r, w, NextStep)
      BY <1>1 DEF Publish
    <3>2. worker'[q] = worker[q]
      BY <1>0, <3>1, PutWork
    <3>3. /\ runStatus'[q] = runStatus[q] /\ stageOf'[q] = stageOf[q] /\ rows'[q] = rows[q]
          /\ thread'[q] = thread[q]
      BY <1>0, <1>1 DEF Publish, TypeOK
    <3>4. /\ session.current \in Nat /\ session'.current \in Nat /\ session'.current >= session.current
          /\ WaitRun(q)
      BY <1>0, <1>1, <2>2 DEF WaitInv, TypeOK, Runs
    <3>5. QED BY <2>2, <3>2, <3>3, <3>4, WaitFrame
  <2>7. QED BY <1>0, <2>5, <2>6 DEF WaitInv, Runs
<1>2. CASE StartFirstRun
  BY <1>0, <1>1, <1>2, ConstantsAssumption DEF StartFirstRun, Runs
<1>3. CASE CreateRerun
  BY <1>0, <1>1, <1>3, ConstantsAssumption DEF CreateRerun, TypeOK, Runs
<1>4. CASE Crash
  <2>1. ASSUME NEW q \in Runs PROVE WaitRun(q)'
    <3>1. WaitRun(q) /\ UNCHANGED <<session, runtimeVars, graphVars, overtaken>>
      BY <1>4 DEF WaitInv, Crash
    <3>2. \A v \in Workers : worker'[q][v].job = "idle"
      BY <1>0, <1>4 DEF Crash, TypeOK, NoWork
    <3>3. ~Asking(q)' /\ NotInterrupted(q)'
      BY <3>2 DEF Asking, NotInterrupted
    <3>4. Waited(q) => Waited(q)'
      BY <3>1, <3>3 DEF Waited, WaitsFor, runtimeVars, graphVars
    <3>5. QED BY <3>1, <3>3, <3>4 DEF WaitRun, Ended, Undisturbed, runtimeVars, graphVars
  <2>2. QED BY <1>0, <2>1 DEF WaitInv, Runs
<1>5. ASSUME NEW r \in Runs, WaitRun(r)', OthersKept(r) PROVE WaitInv'
  <2>1. \A q \in Runs \ {r} : WaitRun(q)'
    BY <1>0, <1>5, WaitOthers DEF WaitInv
  <2>2. QED BY <1>0, <1>5, <2>1 DEF WaitInv, Runs
<1>6. ASSUME NEW r \in Runs, Followed(r), ResumeRun(r) \/ AnAnswer(r) \/ Interruption(r)
      PROVE  WaitInv'
  BY <1>0, <1>5, <1>6, WaitCommand, CommandKeepsOthers
<1>7. ASSUME NEW r \in Runs, Followed(r), NEW w \in Workers, Worker(r, w) PROVE WaitInv'
  BY <1>0, <1>5, <1>7, WaitWorker, WorkerKeepsOthers
<1>8. CASE UNCHANGED vars
  <2>1. ASSUME NEW q \in Runs PROVE WaitRun(q)'
    BY <1>0, <1>8, WaitFrame DEF vars, WaitInv, TypeOK
  <2>2. QED BY <1>0, <2>1 DEF WaitInv, Runs
<1>9. QED BY <1>2, <1>3, <1>4, <1>6, <1>7, <1>8, FollowedOnly DEF Next

\* The initial state satisfies it.
LEMMA WaitInit == Init => WaitInv
<1>1. ASSUME Init, NEW r \in Runs PROVE WaitRun(r)
  <2>1. \A w \in Workers : worker[r][w].job = "idle"
    BY <1>1 DEF Init, NoWork
  <2>2. ~Asking(r) /\ NotInterrupted(r)
    BY <2>1 DEF Asking, NotInterrupted
  <2>3. runStatus[r] = "none" /\ interrupt[r] = "none"
    BY <1>1 DEF Init
  <2>4. \A kind \in WaitKinds : ~WaitsFor(r, kind)
    BY <2>3, StatusesApart DEF WaitsFor
  <2>5. QED BY <2>2, <2>3, <2>4, StatusesApart DEF WaitRun, Waited, Ended, TerminalStatuses
<1>2. QED BY <1>1, GateInit DEF WaitInv

\* A run that says it waits can be answered in all its databases, already while the
\* step that asked is at work, for any number of attempts and workers and whatever
\* pauses, resumes and deaths came in between.
THEOREM WaitsHold == Spec => []WaitCoherent
<1>1. WaitInv => WaitCoherent
  <2>1. SUFFICES ASSUME WaitInv, NEW r \in Runs, Undisturbed(r), NEW kind \in WaitKinds,
                        runStatus[r] = WaitingStatus(kind)
                 PROVE  /\ request[r] = [kind |-> kind, stage |-> stageOf[r], status |-> "pending"]
                        /\ rows[r][stageOf[r]] = runStatus[r]
                        /\ thread[r] \in {"interrupted", "paused"}
                        /\ interrupt[r] = "pending"
    BY DEF WaitCoherent
  <2>2. Waited(r)
    BY <2>1 DEF WaitInv, WaitRun
  <2>3. QED BY <2>1, <2>2, StatusesApart DEF Waited, WaitsFor, Filed
<1>2. QED BY <1>1, WaitInit, WaitStep, PTL DEF Spec

\* A run that ended has ended in the graph database too, with nothing left to answer
\* but the confirmation of a step that failed after it had asked.
THEOREM EndsAreClean == Spec => []TerminalClean
<1>1. WaitInv => TerminalClean
  BY DEF WaitInv, WaitRun, Ended, TerminalClean, Terminal
<1>2. QED BY <1>1, WaitInit, WaitStep, PTL DEF Spec

\* A completed run stays completed: no worker is left that could take it back, not
\* even one whose request was answered before its step ended, and no command finds
\* a current stage.
THEOREM CompletedStays == Spec => CompletedIsFinal
<1> DEFINE Final == \A r \in Runs : runStatus[r] = "completed" =>
                      runStatus'[r] = "completed" /\ thread'[r] = "completed"
<1>1. WaitInv /\ [Next]_vars => [Final]_vars
  <2>1. SUFFICES ASSUME WaitInv, Next, NEW r \in Runs, runStatus[r] = "completed"
                 PROVE  runStatus'[r] = "completed" /\ thread'[r] = "completed"
    OBVIOUS
  <2>2. /\ GateInv /\ TypeOK /\ stageOf[r] = "none" /\ thread[r] = "completed"
        /\ ~(r > session.current)
    BY <2>1 DEF WaitInv, WaitRun, Ended, GateInv, GateRun, Untouched, TerminalStatuses
  <2>3. ASSUME NEW q \in Runs, q = session.current + 1, Publish(q)
        PROVE  runStatus'[r] = "completed" /\ thread'[r] = "completed"
    BY <2>1, <2>2, <2>3 DEF Publish, TypeOK, Runs
  <2>4. ASSUME StartFirstRun \/ CreateRerun
        PROVE  runStatus'[r] = "completed" /\ thread'[r] = "completed"
    BY <2>2, <2>3, <2>4, ConstantsAssumption DEF StartFirstRun, CreateRerun, TypeOK, Runs
  <2>5. ASSUME NEW q \in Runs, ResumeRun(q) \/ AnAnswer(q) \/ Interruption(q)
        PROVE  runStatus'[r] = "completed" /\ thread'[r] = "completed"
    <3>1. CASE q = r
      <4>1. \A kind \in WaitKinds : ~Answerable(r, kind)
        BY <2>1, StatusesApart DEF Answerable, TerminalStatuses
      <4>2. QED
        BY <2>1, <2>2, <2>5, <3>1, <4>1
        DEF AnAnswer, Interruption, PauseRun, ResumeRun, TerminateRun, ActiveContext,
            AnswerClarification, SubmitApproval, SubmitToolConfirmation, WaitKinds
    <3>2. CASE q # r
      BY <2>1, <2>2, <2>5, <3>2, CommandKeepsOthers DEF OthersKept
    <3>3. QED BY <3>1, <3>2
  <2>6. ASSUME NEW q \in Runs, Followed(q), NEW w \in Workers, Worker(q, w)
        PROVE  runStatus'[r] = "completed" /\ thread'[r] = "completed"
    <3>1. CASE q = r
      <4>1. w \notin Driving(r)
        BY <2>2, <2>6, <3>1 DEF GateInv, GateRun, WorkRun
      <4>2. worker[r][w].job \in {"idle", "answered"}
        BY <4>1 DEF Driving, AtWork
      <4>3. AskAgain(r, w) \/ AskingRaises(r, w)
        BY <2>6, <3>1, <4>2
        DEF Worker, RunNextStage, EnterGate, CompleteRun, RunNextRefused, ResumeApproval,
            ResumeToolConfirmation, ResumeRefused, FinishAsking, OwnPending
      <4>4. FailRolledBack(r, w)
        <5>1. CASE AskingRaises(r, w)
          BY <5>1 DEF AskingRaises, StageRaises
        <5>2. CASE AskAgain(r, w)
          BY <2>1, <5>2 DEF AskAgain, StageWaits, Requestable, WaitRefused
        <5>3. QED BY <4>3, <5>1, <5>2
      <4>5. QED BY <2>1, <2>2, <4>4 DEF FailRolledBack, runtimeVars, graphVars
    <3>2. CASE q # r
      BY <2>1, <2>2, <2>6, <3>2, WorkerKeepsOthers DEF OthersKept
    <3>3. QED BY <3>1, <3>2
  <2>7. CASE Crash
    BY <2>1, <2>2, <2>7 DEF Crash, runtimeVars, graphVars
  <2>8. QED BY <2>1, <2>4, <2>5, <2>6, <2>7, FollowedOnly DEF Next
<1>2. QED BY <1>1, WaitInit, WaitStep, PTL DEF Spec, CompletedIsFinal

-----------------------------------------------------------------------------
(* The inductive invariant of QuietSpec                                     *)

\* A worker is at work on a run that is RUNNING, or that waits for the confirmation
\* the worker has just asked for.
WorkStatus(job) == IF job = "asking" THEN "waiting_tool_confirmation" ELSE "running"

QuietState ==
  /\ session.current = 0 => session.status = "draft"
  /\ session.current # 0 =>
       /\ session.status = runStatus[session.current]
       /\ session.status # "completed" => session.latest = stageOf[session.current]
  /\ \A r \in Runs :
       /\ r > session.current => runStatus[r] = "none"
       /\ r < session.current => runStatus[r] \in TerminalStatuses
       /\ \A w \in AtWork(r) : runStatus[r] = WorkStatus(worker[r][w].job)
       /\ Undisturbed(r)

QuietInv == GateInv /\ QuietState

\* A step that takes the session and its current run r to one status.
Moves(r, to) ==
  /\ session.current = r
  /\ runStatus' = [runStatus EXCEPT ![r] = to]
  /\ session'.current = r
  /\ session'.status = to
  /\ to # "completed" => session'.latest = stageOf'[r]
  /\ \A w \in Workers : worker'[r][w].job # "idle" => to = WorkStatus(worker'[r][w].job)
  /\ \A q \in Runs \ {r} : worker'[q] = worker[q]
  /\ overtaken' = overtaken

\* In the quiet environment every step is one of the environment at large.
LEMMA QuietIsNext == [QuietNext]_vars => [Next]_vars
  BY DEF QuietNext, Next

-----------------------------------------------------------------------------
(* The quiet environment: session and contract                              *)

LEMMA QuietMove ==
  ASSUME QuietInv, NEW r \in Runs, NEW to \in RunStatuses, Moves(r, to)
  PROVE  QuietState'
<1>1. TypeOK /\ r # 0 /\ to # "none"
  BY DEF QuietInv, GateInv, Runs, RunStatuses, ActiveStatuses, WaitingStatuses, TerminalStatuses
<1>2. runStatus'[r] = to /\ \A q \in Runs \ {r} : runStatus'[q] = runStatus[q]
  BY <1>1 DEF Moves, TypeOK
<1>3. \A q \in Runs : \A w \in AtWork(q)' : runStatus'[q] = WorkStatus(worker'[q][w].job)
  <2>1. ASSUME NEW q \in Runs \ {r}, NEW w \in AtWork(q)'
        PROVE  runStatus'[q] = WorkStatus(worker'[q][w].job)
    BY <1>2 DEF QuietInv, QuietState, Moves, AtWork
  <2>2. ASSUME NEW w \in AtWork(r)' PROVE runStatus'[r] = WorkStatus(worker'[r][w].job)
    BY <1>2 DEF Moves, AtWork
  <2>3. QED BY <2>1, <2>2
<1>4. \A q \in Runs : Undisturbed(q)'
  BY DEF QuietInv, QuietState, Undisturbed, Moves, Runs
<1>5. /\ session'.current = r /\ session.current = r /\ session'.status = to
      /\ to # "completed" => session'.latest = stageOf'[r]
  BY DEF Moves
<1>6. \A q \in Runs : /\ q > r => runStatus'[q] = "none"
                      /\ q < r => runStatus'[q] \in TerminalStatuses
  BY <1>2, <1>5 DEF QuietInv, QuietState, Runs
<1>7. /\ (session.current = 0 => session.status = "draft")'
      /\ (session.current # 0 =>
            /\ session.status = runStatus[session.current]
            /\ session.status # "completed" => session.latest = stageOf[session.current])'
  BY <1>1, <1>2, <1>5
<1>8. ASSUME NEW q \in Runs
      PROVE  /\ q > session'.current => runStatus'[q] = "none"
             /\ q < session'.current => runStatus'[q] \in TerminalStatuses
             /\ \A w \in AtWork(q)' : runStatus'[q] = WorkStatus(worker'[q][w].job)
             /\ Undisturbed(q)'
  <2>2. \A w \in AtWork(q)' : runStatus'[q] = WorkStatus(worker'[q][w].job)
    BY <1>3
  <2>3. Undisturbed(q)'
    BY <1>4
  <2>4. /\ q > session'.current => runStatus'[q] = "none"
        /\ q < session'.current => runStatus'[q] \in TerminalStatuses
    BY <1>5, <1>6
  <2>5. QED BY <2>2, <2>3, <2>4
<1>9. QED BY <1>7, <1>8 DEF QuietState

\* A worker at work is alone with its run, which is the current one.
LEMMA Alone ==
  ASSUME QuietInv, NEW r \in Runs, NEW w \in AtWork(r)
  PROVE  /\ TypeOK /\ GateInv /\ GateRun(r) /\ WorkRun(r) /\ Followed(r)
         /\ w \in Workers /\ w \in Driving(r) /\ Stands(r, w) /\ worker[r][w].job # "answered"
         /\ \A v \in Workers \ {w} : worker[r][v].job = "idle"
         /\ session.current = r /\ r # 0
         /\ runStatus[r] = WorkStatus(worker[r][w].job)
         /\ stageOf[r] \in StageTypes /\ stageOf[r] # "none"
<1>1. /\ TypeOK /\ GateInv /\ GateRun(r) /\ Undisturbed(r) /\ w \in Workers /\ r # 0
      /\ runStatus[r] = WorkStatus(worker[r][w].job)
  BY DEF QuietInv, GateInv, QuietState, AtWork, Runs
<1>2. Followed(r) /\ WorkRun(r)
  BY <1>1 DEF Followed, Undisturbed, GateRun
<1>3. w \in Driving(r) /\ worker[r][w].job # "answered"
  BY <1>1, <1>2 DEF WorkRun, Driving, AtWork
<1>4. \A v \in Workers \ {w} : worker[r][v].job = "idle"
  BY <1>1, <1>2, <1>3 DEF WorkRun, Driving, AtWork
<1>5. Stands(r, w) /\ stageOf[r] \in StageTypes /\ stageOf[r] # "none"
  BY <1>1, <1>2, <1>3, DrivesInStage
<1>6. session.current = r
  <2>1. runStatus[r] \notin TerminalStatuses /\ runStatus[r] # "none"
    BY <1>1 DEF WorkStatus, TerminalStatuses
  <2>2. session.current \in Nat /\ r \in Nat
    BY <1>1 DEF TypeOK, Runs
  <2>3. QED BY <2>1, <2>2 DEF QuietInv, QuietState
<1>7. QED BY <1>1, <1>2, <1>3, <1>4, <1>5, <1>6

\* When it leaves, nobody is at work.
LEMMA AloneLeaves ==
  ASSUME QuietInv, NEW r \in Runs, NEW w \in AtWork(r), Leave(r, w)
  PROVE  /\ \A v \in Workers : worker'[r][v].job = "idle"
         /\ \A q \in Runs \ {r} : worker'[q] = worker[q]
<1>1. TypeOK /\ w \in Workers /\ \A v \in Workers \ {w} : worker[r][v].job = "idle"
  BY Alone
<1>2. QED BY <1>1, PutWork DEF Leave, NoWork

\* The failure projection moves the run and the session to FAILED.
LEMMA FailMoves ==
  ASSUME QuietInv, NEW r \in Runs, NEW w \in AtWork(r),
         FailRolledBack(r, w)
         \/ \E s \in StageTypes, resumed \in BOOLEAN : StageFails(r, w, s, resumed)
  PROVE  UNCHANGED recovery /\ Moves(r, "failed")
<1>0. /\ TypeOK /\ w \in Workers /\ session.current = r
      /\ stageOf[r] \in StageTypes /\ stageOf[r] # "none"
  BY Alone
<1>1. CASE FailRolledBack(r, w)
  <2>1. runStatus' = [runStatus EXCEPT ![r] = "failed"] /\ overtaken' = overtaken
    BY <1>0, <1>1 DEF FailRolledBack, MarkFailed
  <2>2. /\ session'.current = session.current /\ session'.status = "failed"
        /\ session'.latest = stageOf'[r] /\ Leave(r, w) /\ recovery' = recovery
    BY <1>0, <1>1, RolledBackEffect
  <2>3. QED BY <1>0, <2>1, <2>2, AloneLeaves DEF Moves
<1>2. ASSUME NEW s \in StageTypes, NEW resumed \in BOOLEAN, StageFails(r, w, s, resumed)
      PROVE  UNCHANGED recovery /\ Moves(r, "failed")
  <2>1. runStatus' = [runStatus EXCEPT ![r] = "failed"] /\ overtaken' = overtaken
    BY <1>2 DEF StageFails, MarkFailed
  <2>2. /\ session'.current = session.current /\ session'.status = "failed"
        /\ session'.latest = stageOf'[r] /\ Leave(r, w) /\ recovery' = recovery
    BY <1>0, <1>2, FailsEffect
  <2>3. QED BY <1>0, <2>1, <2>2, AloneLeaves DEF Moves
<1>3. QED BY <1>1, <1>2

\* So do the other ends of a stage, each to its status.
LEMMA StageMoves ==
  ASSUME QuietInv, NEW r \in Runs, NEW w \in AtWork(r), NEW s \in StageTypes, NEW resumed \in BOOLEAN,
         RunStage(r, w, s, resumed)
  PROVE  /\ UNCHANGED recovery
         /\ \E to \in {"running", "failed"} \union WaitingStatuses : Moves(r, to)
<1>0. /\ TypeOK /\ w \in Workers /\ session.current = r
      /\ \A v \in Workers \ {w} : worker[r][v].job = "idle"
  BY Alone
<1>1. CASE StageCompletes(r, w, s, resumed)
  <2>1. runStatus' = [runStatus EXCEPT ![r] = "running"]
    BY <1>1 DEF StageCompletes
  <2>2. /\ session'.current = session.current /\ session'.status = "running"
        /\ session'.latest = s /\ stageOf'[r] = s /\ Put(r, w, NextStep)
        /\ recovery' = recovery /\ overtaken' = overtaken
    BY <1>0, <1>1, CompletesEffect
  <2>3. /\ worker'[r][w] = NextStep /\ \A v \in Workers \ {w} : worker'[r][v].job = "idle"
        /\ \A q \in Runs \ {r} : worker'[q] = worker[q]
    BY <1>0, <2>2, PutWork
  <2>4. Moves(r, "running")
    BY <1>0, <2>1, <2>2, <2>3 DEF Moves, NextStep, WorkStatus
  <2>5. QED BY <2>2, <2>4
<1>2. CASE RequestConfirmation(r, w, s)
  <2>1. runStatus' = [runStatus EXCEPT ![r] = "waiting_tool_confirmation"]
    BY <1>2, WaitingStatuses3 DEF RequestConfirmation, ShowWaiting
  <2>2. /\ session'.current = session.current /\ session'.status = "waiting_tool_confirmation"
        /\ session'.latest = s /\ stageOf'[r] = s /\ Put(r, w, Asked(s))
        /\ recovery' = recovery /\ overtaken' = overtaken
    BY <1>0, <1>2, ConfirmationEffect
  <2>3. /\ worker'[r][w] = Asked(s) /\ \A v \in Workers \ {w} : worker'[r][v].job = "idle"
        /\ \A q \in Runs \ {r} : worker'[q] = worker[q]
    BY <1>0, <2>2, PutWork
  <2>4. \A v \in Workers : worker'[r][v].job # "idle" => worker'[r][v].job = "asking"
    BY <2>3 DEF Asked
  <2>5. Moves(r, "waiting_tool_confirmation")
    BY <1>0, <2>1, <2>2, <2>3, <2>4 DEF Moves, WorkStatus
  <2>6. QED BY <2>2, <2>5 DEF WaitingStatuses
<1>3. ASSUME NEW kind \in {"clarification", "tool_confirmation"}, StageWaits(r, w, s, kind),
             UNCHANGED overtaken
      PROVE  /\ UNCHANGED recovery
             /\ \E to \in WaitingStatuses : Moves(r, to)
  <2>1. kind \in WaitKinds /\ WaitingStatus(kind) \in WaitingStatuses
    BY StatusesApart DEF WaitKinds
  <2>2. runStatus' = [runStatus EXCEPT ![r] = WaitingStatus(kind)]
    BY <1>3 DEF StageWaits, ShowWaiting
  <2>3. /\ session'.current = session.current /\ session'.status = WaitingStatus(kind)
        /\ session'.latest = s /\ stageOf'[r] = s /\ Leave(r, w) /\ recovery' = recovery
    BY <1>0, <1>3, <2>1, WaitsEffect
  <2>4. Moves(r, WaitingStatus(kind))
    BY <1>0, <1>3, <2>2, <2>3, AloneLeaves DEF Moves
  <2>5. QED BY <2>1, <2>3, <2>4
<1>4. CASE FailRolledBack(r, w) \/ StageFails(r, w, s, resumed)
  BY <1>4, FailMoves
<1>5. QED BY <1>1, <1>2, <1>3, <1>4 DEF RunStage, WaitRefused, StageRaises

\* While pause, terminate and answers keep away from busy runs, a worker only drives
\* the current run, and only while it is RUNNING or waits for that worker.
LEMMA WorkerMoves ==
  ASSUME QuietInv, NEW r \in Runs, NEW w \in Workers, Worker(r, w)
  PROVE  /\ UNCHANGED recovery
         /\ \/ /\ runStatus[r] = "running"
               /\ \E to \in {"running", "completed", "failed"} \union WaitingStatuses : Moves(r, to)
            \/ /\ runStatus[r] = "waiting_tool_confirmation"
               /\ \E to \in {"waiting_tool_confirmation", "failed"} : Moves(r, to)
<1>1. w \in AtWork(r)
  BY DEF Worker, RunNextStage, EnterGate, CompleteRun, RunNextRefused, ResumeApproval,
         ResumeToolConfirmation, ResumeRefused, FinishAsking, AskAgain, AskingRaises, OwnPending, AtWork
<1>2. /\ TypeOK /\ GateInv /\ Stands(r, w) /\ worker[r][w].job # "answered"
      /\ session.current = r /\ runStatus[r] = WorkStatus(worker[r][w].job)
      /\ stageOf[r] \in StageTypes /\ w \in Driving(r) /\ Followed(r)
  BY <1>1, Alone
<1>3. CASE worker[r][w].job # "asking"
  <2>0. runStatus[r] = "running"
    BY <1>2, <1>3 DEF WorkStatus
  <2>1. CASE RunNextStage(r, w)
    BY <1>1, <2>0, <2>1, StageMoves DEF RunNextStage
  <2>2. CASE EnterGate(r, w)
    <3>1. /\ session'.current = session.current /\ session'.status = "waiting_approval"
          /\ session'.latest = stageOf'[r] /\ Leave(r, w)
          /\ recovery' = recovery /\ overtaken' = overtaken
      BY <1>2, <2>2, GateEffect
    <3>2. runStatus' = [runStatus EXCEPT ![r] = "waiting_approval"]
      BY <2>2, WaitingStatuses3 DEF EnterGate, ShowWaiting
    <3>3. Moves(r, "waiting_approval")
      BY <1>1, <1>2, <3>1, <3>2, AloneLeaves DEF Moves
    <3>4. QED BY <2>0, <3>1, <3>3 DEF WaitingStatuses
  <2>3. CASE CompleteRun(r, w)
    <3>1. /\ session'.current = session.current /\ session'.status = "completed" /\ Leave(r, w)
          /\ recovery' = recovery /\ overtaken' = overtaken
      BY <1>2, <2>3, CompleteEffect
    <3>2. runStatus' = [runStatus EXCEPT ![r] = "completed"]
      BY <2>3 DEF CompleteRun
    <3>3. Moves(r, "completed")
      BY <1>1, <1>2, <3>1, <3>2, AloneLeaves DEF Moves
    <3>4. QED BY <2>0, <3>1, <3>3
  <2>4. CASE RunNextRefused(r, w) \/ ResumeRefused(r, w)
    BY <1>1, <2>0, <2>4, FailMoves DEF RunNextRefused, ResumeRefused
  <2>5. CASE ResumeApproval(r, w)
    BY <1>1, <2>0, <2>5, TargetsTyped, StageMoves DEF ResumeApproval
  <2>6. CASE ResumeToolConfirmation(r, w)
    BY <1>1, <1>2, <2>0, <2>6, StageMoves DEF ResumeToolConfirmation, Stands
  <2>7. QED
    BY <1>2, <1>3, <2>1, <2>2, <2>3, <2>4, <2>5, <2>6
    DEF Worker, FinishAsking, OwnPending, AskAgain, AskingRaises
<1>4. CASE worker[r][w].job = "asking"
  <2>0. runStatus[r] = "waiting_tool_confirmation"
    BY <1>2, <1>4 DEF WorkStatus
  <2>1. CASE FinishAsking(r, w)
    <3>1. worker[r][w].stage = stageOf[r]
      BY <1>2, <1>4 DEF Stands
    <3>2. /\ session'.current = session.current /\ session'.status = "waiting_tool_confirmation"
          /\ session'.latest = stageOf'[r] /\ Leave(r, w)
          /\ recovery' = recovery /\ overtaken' = overtaken
      BY <1>2, <2>1, <3>1, FinishEffect
    <3>3. runStatus' = [runStatus EXCEPT ![r] = "waiting_tool_confirmation"]
      BY <2>1, WaitingStatuses3 DEF FinishAsking, ShowWaiting
    <3>4. Moves(r, "waiting_tool_confirmation")
      BY <1>1, <1>2, <3>2, <3>3, AloneLeaves DEF Moves
    <3>5. QED BY <2>0, <3>2, <3>4
  <2>2. CASE AskAgain(r, w)
    BY <1>1, <2>0, <2>2, FailMoves DEF AskAgain, StageWaits, Requestable, WaitRefused
  <2>3. CASE AskingRaises(r, w)
    BY <1>1, <2>0, <2>3, FailMoves DEF AskingRaises, StageRaises
  <2>4. QED
    BY <1>4, <2>1, <2>2, <2>3
    DEF Worker, RunNextStage, EnterGate, CompleteRun, RunNextRefused, ResumeApproval,
        ResumeToolConfirmation, ResumeRefused
<1>5. QED BY <1>3, <1>4

\* A command moves the session and its current run together as well.
LEMMA CommandMoves ==
  ASSUME QuietInv, NEW r \in Runs,
         ResumeRun(r) \/ (Idle(r) /\ (AnAnswer(r) \/ Interruption(r)))
  PROVE  \/ /\ runStatus[r] \in WaitingStatuses
            /\ UNCHANGED recovery /\ Moves(r, "running")
         \/ /\ runStatus[r] \in ActiveStatuses
            /\ UNCHANGED recovery /\ Moves(r, "terminated")
         \/ /\ runStatus[r] \in {"running"} \union WaitingStatuses
            /\ recovery' = [recovery EXCEPT ![r] = RecoveryOf(r)] /\ Moves(r, "paused")
         \/ /\ runStatus[r] = "paused" /\ UNCHANGED recovery
            /\ recovery[r].run \in {"running"} \union WaitingStatuses
            /\ Moves(r, recovery[r].run)
<1>1. TypeOK /\ QuietState /\ r # 0
  BY DEF QuietInv, GateInv, Runs
<1>2. CASE ResumeRun(r)
  <2>1. /\ runStatus[r] = "paused" /\ UNCHANGED <<recovery, stageOf, worker, overtaken>>
        /\ recovery[r].run \in {"running"} \union WaitingStatuses
        /\ session.current = r /\ session'.current = r /\ session'.status = recovery[r].run
        /\ session'.latest = session.latest /\ session.status = "paused"
        /\ runStatus' = [runStatus EXCEPT ![r] = recovery[r].run]
    BY <1>1, <1>2
    DEF ResumeRun, RecoveryUsable, ActiveContext, ShowStatus, ProjectSessionStatus, workerVars, TypeOK
  <2>2. session.latest = stageOf[r]
    BY <1>1, <2>1 DEF QuietState
  <2>3. \A w \in Workers : worker[r][w].job = "idle"
    BY <1>1, <2>1 DEF QuietState, AtWork, WorkStatus
  <2>4. QED BY <2>1, <2>2, <2>3 DEF Moves
<1>3. ASSUME Idle(r), NEW kind \in WaitKinds, NEW status, NEW row,
             NEW job \in {"reply", "approved", "rejected", "allowed", "denied"},
             Answerable(r, kind), Answer(r, status, row, job)
      PROVE  /\ runStatus[r] \in WaitingStatuses
             /\ UNCHANGED recovery /\ Moves(r, "running")
  <2>1. runStatus[r] \in WaitingStatuses /\ session.current = r /\ session.status \in WaitingStatuses
    BY <1>3, StatusesApart DEF Answerable
  <2>2. session.latest = stageOf[r]
    BY <1>1, <2>1 DEF QuietState, WaitingStatuses
  <2>3. /\ UNCHANGED <<recovery, stageOf>> /\ ResumeAsync(r, job)
        /\ session'.current = r /\ session'.status = "running" /\ session'.latest = session.latest
        /\ runStatus' = [runStatus EXCEPT ![r] = "running"]
    BY <1>1, <1>3, <2>1 DEF Answer, ShowStatus, TypeOK
  <2>4. /\ \A w \in Workers : worker[r][w].job = "idle"
        /\ ~Asking(r)
    BY <1>3 DEF Idle, AtWork, Asking
  <2>5. overtaken' = overtaken
    BY <1>1, <1>3, <2>4 DEF Answer, TypeOK
  <2>6. PICK w \in Workers \ AtWork(r) :
          /\ worker'[r][w] = [job |-> job, ref |-> checkpoint[r], stage |-> stageOf[r]]
          /\ \A u \in Workers \ {w} :
               IF worker[r][u].job = "asking"
               THEN worker'[r][u].job = "answered" /\ worker'[r][u].stage = worker[r][u].stage
               ELSE worker'[r][u] = worker[r][u]
    BY <1>1, <2>3, ResumeAsyncEffect
  <2>7. \A q \in Runs \ {r} : worker'[q] = worker[q]
    BY <1>1, <2>3, ResumeAsyncEffect
  <2>8. worker'[r][w].job = job /\ WorkStatus(job) = "running"
    BY <2>6 DEF WorkStatus
  <2>9. \A u \in Workers : worker'[r][u].job # "idle" => "running" = WorkStatus(worker'[r][u].job)
    BY <2>4, <2>6, <2>8
  <2>10. QED BY <2>1, <2>2, <2>3, <2>5, <2>7, <2>9 DEF Moves
<1>4. ASSUME Idle(r), AnswerClarification(r)
      PROVE  runStatus[r] \in WaitingStatuses /\ UNCHANGED recovery /\ Moves(r, "running")
  BY <1>3, <1>4 DEF AnswerClarification, WaitKinds
<1>5. ASSUME Idle(r), NEW verdict \in {"approved", "rejected"}, SubmitApproval(r, verdict)
      PROVE  runStatus[r] \in WaitingStatuses /\ UNCHANGED recovery /\ Moves(r, "running")
  BY <1>3, <1>5 DEF SubmitApproval, WaitKinds
<1>6. ASSUME Idle(r), NEW verdict \in {"allowed", "denied"}, SubmitToolConfirmation(r, verdict)
      PROVE  runStatus[r] \in WaitingStatuses /\ UNCHANGED recovery /\ Moves(r, "running")
  BY <1>3, <1>6 DEF SubmitToolConfirmation, WaitKinds
<1>7. ASSUME Idle(r), PauseRun(r)
      PROVE  /\ runStatus[r] \in {"running"} \union WaitingStatuses
             /\ recovery' = [recovery EXCEPT ![r] = RecoveryOf(r)] /\ Moves(r, "paused")
  <2>1. /\ runStatus[r] \in {"running"} \union WaitingStatuses
        /\ recovery' = [recovery EXCEPT ![r] = RecoveryOf(r)]
        /\ UNCHANGED <<stageOf, worker, overtaken>>
        /\ session.current = r /\ session'.current = r /\ session'.status = "paused"
        /\ session'.latest = session.latest /\ session.status = runStatus[r]
        /\ runStatus' = [runStatus EXCEPT ![r] = "paused"]
    BY <1>1, <1>7
    DEF PauseRun, ActiveContext, ShowStatus, ProjectSessionStatus, workerVars, TypeOK
  <2>2. session.latest = stageOf[r] /\ \A w \in Workers : worker[r][w].job = "idle"
    BY <1>1, <1>7, <2>1 DEF QuietState, Idle, AtWork, WaitingStatuses
  <2>3. QED BY <2>1, <2>2 DEF Moves
<1>8. ASSUME Idle(r), TerminateRun(r)
      PROVE  runStatus[r] \in ActiveStatuses /\ UNCHANGED recovery /\ Moves(r, "terminated")
  <2>1. /\ runStatus[r] \in ActiveStatuses
        /\ UNCHANGED <<stageOf, worker, overtaken, recovery>>
        /\ session.current = r /\ session'.current = r /\ session'.status = "terminated"
        /\ session'.latest = session.latest /\ session.status = runStatus[r]
        /\ runStatus' = [runStatus EXCEPT ![r] = "terminated"]
    BY <1>1, <1>8
    DEF TerminateRun, ActiveContext, ShowStatus, ProjectSessionStatus, workerVars, TypeOK
  <2>2. session.latest = stageOf[r] /\ \A w \in Workers : worker[r][w].job = "idle"
    BY <1>1, <1>8, <2>1 DEF QuietState, Idle, AtWork, WaitingStatuses, ActiveStatuses
  <2>3. QED BY <2>1, <2>2 DEF Moves
<1>9. QED BY <1>2, <1>4, <1>5, <1>6, <1>7, <1>8 DEF AnAnswer, Interruption

\* What creating a run does to the session in the quiet environment.
LEMMA PublishQuiet ==
  ASSUME QuietInv, NEW r \in Runs, r = session.current + 1, Publish(r),
         session.current # 0 => runStatus[session.current] \in TerminalStatuses
  PROVE  QuietState'
<1>1. TypeOK
  BY DEF QuietInv, GateInv
<1>2. /\ runStatus'[r] = "running" /\ stageOf'[r] = FirstStage /\ overtaken' = overtaken
      /\ \A q \in Runs \ {r} : runStatus'[q] = runStatus[q]
      /\ session'.current = r /\ session'.status = "running" /\ session'.latest = FirstStage
  BY <1>1 DEF Publish, TypeOK
<1>3. PICK w \in Workers : Put(r, w, NextStep)
  BY DEF Publish
<1>4. /\ worker'[r][w] = NextStep
      /\ \A v \in Workers \ {w} : worker'[r][v] = worker[r][v]
      /\ \A q \in Runs \ {r} : worker'[q] = worker[q]
  BY <1>1, <1>3, PutWork
<1>5. \A q \in Runs : q < r => runStatus[q] \in TerminalStatuses
  BY <1>1 DEF QuietInv, QuietState, TypeOK, Runs, TerminalStatuses
<1>6. runStatus[r] = "none" /\ \A v \in Workers : worker[r][v].job = "idle"
  <2>1. runStatus[r] = "none"
    BY <1>1 DEF QuietInv, QuietState, TypeOK, Runs
  <2>2. QED BY <2>1 DEF QuietInv, QuietState, AtWork, WorkStatus
<1>7. ASSUME NEW q \in Runs
      PROVE  /\ q > session'.current => runStatus'[q] = "none"
             /\ q < session'.current => runStatus'[q] \in TerminalStatuses
             /\ \A v \in AtWork(q)' : runStatus'[q] = WorkStatus(worker'[q][v].job)
             /\ Undisturbed(q)'
  <2>1. q > r => runStatus'[q] = "none"
    BY <1>1, <1>2 DEF QuietInv, QuietState, TypeOK, Runs
  <2>2. q < r => runStatus'[q] \in TerminalStatuses
    BY <1>2, <1>5 DEF Runs
  <2>3. ASSUME NEW v \in AtWork(q)' PROVE runStatus'[q] = WorkStatus(worker'[q][v].job)
    <3>1. CASE q = r
      BY <1>2, <1>4, <1>6, <2>3, <3>1 DEF AtWork, NextStep, WorkStatus
    <3>2. CASE q # r
      BY <1>2, <1>4, <2>3, <3>2 DEF AtWork, QuietInv, QuietState
    <3>3. QED BY <3>1, <3>2
  <2>4. Undisturbed(q)'
    BY <1>2 DEF Undisturbed, QuietInv, QuietState
  <2>5. QED BY <1>2, <2>1, <2>2, <2>3, <2>4
<1>8. QED BY <1>2, <1>7 DEF QuietState, Runs

\* QuietInv is inductive in the quiet environment.
LEMMA QuietStep == QuietInv /\ [QuietNext]_vars => QuietInv'
<1> SUFFICES ASSUME QuietInv, [QuietNext]_vars PROVE QuietInv'
  OBVIOUS
<1>1. GateInv'
  BY QuietIsNext, GateStep DEF QuietInv
<1>2. CASE StartFirstRun
  BY <1>1, <1>2, PublishQuiet, ConstantsAssumption DEF StartFirstRun, QuietInv, Runs
<1>3. CASE CreateRerun
  <2>1. RerunnableStatuses \subseteq TerminalStatuses
    BY DEF RerunnableStatuses, TerminalStatuses
  <2>2. QED
    BY <1>1, <1>3, <2>1, PublishQuiet, ConstantsAssumption
    DEF CreateRerun, RerunAllowed, QuietInv, GateInv, TypeOK, Runs
<1>4. ASSUME NEW r \in Runs, ResumeRun(r) \/ (Idle(r) /\ (AnAnswer(r) \/ Interruption(r)))
      PROVE  QuietInv'
  <2>1. \E to \in RunStatuses : Moves(r, to)
    BY <1>4, CommandMoves DEF RunStatuses, ActiveStatuses, TerminalStatuses
  <2>2. QED BY <1>1, <2>1, QuietMove DEF QuietInv
<1>5. ASSUME NEW r \in Runs, NEW w \in Workers, Worker(r, w) PROVE QuietInv'
  <2>1. \E to \in RunStatuses : Moves(r, to)
    BY <1>5, WorkerMoves DEF RunStatuses, ActiveStatuses, TerminalStatuses, WaitingStatuses
  <2>2. QED BY <1>1, <2>1, QuietMove DEF QuietInv
<1>6. CASE Crash
  <2>1. \A q \in Runs : AtWork(q)' = {}
    BY <1>6 DEF Crash, AtWork, NoWork
  <2>2. UNCHANGED <<session, runStatus, stageOf, overtaken>>
    BY <1>6 DEF Crash, runtimeVars
  <2>3. QuietState'
    BY <2>1, <2>2 DEF QuietInv, QuietState, Undisturbed, Runs
  <2>4. QED BY <1>1, <2>3 DEF QuietInv
<1>7. CASE UNCHANGED vars
  BY <1>1, <1>7 DEF vars, QuietInv, QuietState, AtWork, Undisturbed, Runs
<1>8. QED BY <1>2, <1>3, <1>4, <1>5, <1>6, <1>7 DEF QuietNext

LEMMA QuietInit == Init => QuietInv
  BY GateInit DEF Init, QuietInv, QuietState, AtWork, NoWork, Undisturbed, Runs

\* While pause, terminate and answers only meet idle runs, the session shows the
\* status and the stage of its current run, for any number of attempts.
THEOREM QuietSession == QuietSpec => []SessionProjectsRun
<1>1. QuietInv => SessionProjectsRun
  BY DEF QuietInv, QuietState, SessionProjectsRun, ProjectSessionStatus
<1>2. QED BY <1>1, QuietInit, QuietStep, PTL DEF QuietSpec

\* In the same environment no two attempts are ever active, and no worker drives
\* anything but the current one, while it runs or waits for that worker's request.
THEOREM QuietOneActive == QuietSpec => []OneActiveRun
<1>1. QuietInv => OneActiveRun
  BY DEF QuietInv, GateInv, TypeOK, QuietState, OneActiveRun, Active, WorkStatus, Runs,
         ActiveStatuses, WaitingStatuses, TerminalStatuses
<1>2. QED BY <1>1, QuietInit, QuietStep, PTL DEF QuietSpec
-----------------------------------------------------------------------------
(* The quiet environment implements the contract of the state machine       *)

\* The moves the table allows, read by name.
LEMMA ContractTable ==
  /\ Contract!Transitions["running"] =
       Contract!WaitingStatuses \union {"paused"} \union Contract!TerminalStatuses
  /\ \A s \in WaitingStatuses :
       Contract!Transitions[s] = {"running", "paused", "failed", "terminated"}
  /\ Contract!Transitions["paused"] = {"running", "terminated"}
<1>1. /\ "running" \in Contract!RunStatuses \ Contract!WaitingStatuses
      /\ "paused" \in Contract!RunStatuses \ Contract!WaitingStatuses
      /\ \A s \in WaitingStatuses :
            s \in Contract!RunStatuses /\ s \in Contract!WaitingStatuses /\ s # "running"
  BY DEF Contract!RunStatuses, Contract!ActiveStatuses, Contract!WaitingStatuses, WaitingStatuses
<1>2. \A s : s = "running" => Contract!Transitions[s] =
               Contract!WaitingStatuses \union {"paused"} \union Contract!TerminalStatuses
  <2>1. SUFFICES ASSUME NEW s, s = "running"
                 PROVE  Contract!Transitions[s] =
                          Contract!WaitingStatuses \union {"paused"} \union Contract!TerminalStatuses
    OBVIOUS
  <2>2. s \in Contract!RunStatuses /\ s \notin Contract!WaitingStatuses /\ s # "paused"
    BY <1>1, <2>1
  <2>3. QED BY <2>1, <2>2, Zenon DEF Contract!Transitions
<1>3. ASSUME NEW s \in WaitingStatuses
      PROVE  Contract!Transitions[s] = {"running", "paused", "failed", "terminated"}
  BY <1>1, Zenon DEF Contract!Transitions
<1>4. \A s : s = "paused" => Contract!Transitions[s] = {"running", "terminated"}
  <2>1. SUFFICES ASSUME NEW s, s = "paused"
                 PROVE  Contract!Transitions[s] = {"running", "terminated"}
    OBVIOUS
  <2>2. s \in Contract!RunStatuses /\ s \notin Contract!WaitingStatuses /\ s # "running"
    BY <1>1, <2>1
  <2>3. QED BY <2>1, <2>2, Zenon DEF Contract!Transitions
<1>5. QED BY <1>2, <1>3, <1>4

\* A step that moves the current run along the table, other than to PAUSED, is a
\* step of the contract.
LEMMA ContractMove ==
  ASSUME QuietInv, NEW r \in Runs, NEW to, Moves(r, to), UNCHANGED recovery,
         to \in Contract!Transitions[runStatus[r]], to # "paused",
         runStatus[r] = "paused" => to = "terminated"
  PROVE  Contract!Next
<1>1. Contract!Become(r, to) /\ session'.current = session.current
  BY DEF Contract!Become, Contract!ProjectSessionStatus, Moves
<1>2. Contract!Transition(r)
  BY <1>1 DEF Contract!Transition
<1>3. QED BY <1>2 DEF Contract!Next, Contract!Runs, Runs, Moves

\* Every quiet step is a step of the contract or changes nothing it shows.
LEMMA ContractStep ==
  QuietInv /\ [QuietNext]_vars => [Contract!Next]_(Contract!vars)
<1> SUFFICES ASSUME QuietInv, [QuietNext]_vars
             PROVE  Contract!Next \/ UNCHANGED Contract!vars
  OBVIOUS
<1>0. TypeOK /\ QuietState
  BY DEF QuietInv, GateInv
<1>1. ASSUME NEW r \in Runs, r = session.current + 1, Publish(r),
             \/ session.status = "draft" /\ session.current = 0
             \/ /\ session.current \in 1..(MaxRuns - 1)
                /\ runStatus[session.current] \in RerunnableStatuses
                /\ session.status = ProjectSessionStatus(runStatus[session.current])
      PROVE  Contract!Next
  BY <1>0, <1>1
  DEF Publish, Contract!Next, Contract!Start, Contract!Become, Contract!ProjectSessionStatus,
      Contract!RerunnableStatuses, RerunnableStatuses, ProjectSessionStatus
<1>2. CASE StartFirstRun
  BY <1>1, <1>2, ConstantsAssumption DEF StartFirstRun, Runs
<1>3. CASE CreateRerun
  BY <1>0, <1>1, <1>3, ConstantsAssumption DEF CreateRerun, RerunAllowed, Runs
<1>4. ASSUME NEW r \in Runs, NEW w \in Workers, Worker(r, w)
      PROVE  Contract!Next \/ UNCHANGED Contract!vars
  <2>0. UNCHANGED recovery
    BY <1>4, WorkerMoves
  <2>1. ASSUME Moves(r, runStatus[r]) PROVE UNCHANGED Contract!vars
    <3>1. /\ session'.current = session.current /\ session'.status = session.status
          /\ runStatus' = runStatus
      BY <1>0, <2>1 DEF Moves, TypeOK, QuietState, Runs
    <3>2. QED BY <2>0, <3>1 DEF Contract!vars
  <2>2. ASSUME runStatus[r] = "running", NEW to \in {"completed", "failed"} \union WaitingStatuses,
               Moves(r, to)
        PROVE  Contract!Next
    BY <2>0, <2>2, ContractTable, ContractMove
    DEF WaitingStatuses, Contract!WaitingStatuses, Contract!TerminalStatuses
  <2>3. ASSUME runStatus[r] = "waiting_tool_confirmation", Moves(r, "failed")
        PROVE  Contract!Next
    BY <2>0, <2>3, ContractTable, ContractMove DEF WaitingStatuses
  <2>4. QED BY <1>4, <2>1, <2>2, <2>3, WorkerMoves
<1>5. ASSUME NEW r \in Runs, ResumeRun(r) \/ (Idle(r) /\ (AnAnswer(r) \/ Interruption(r)))
      PROVE  Contract!Next
  <2>1. CASE /\ runStatus[r] \in WaitingStatuses
             /\ UNCHANGED recovery /\ Moves(r, "running")
    BY <2>1, ContractTable, ContractMove DEF WaitingStatuses
  <2>2. CASE /\ runStatus[r] \in ActiveStatuses
             /\ UNCHANGED recovery /\ Moves(r, "terminated")
    BY <2>2, ContractTable, ContractMove DEF ActiveStatuses, Contract!TerminalStatuses
  <2>3. CASE /\ runStatus[r] \in {"running"} \union WaitingStatuses
             /\ recovery' = [recovery EXCEPT ![r] = RecoveryOf(r)] /\ Moves(r, "paused")
    <3>1. [q \in Runs |-> recovery'[q].run] = [[q \in Runs |-> recovery[q].run] EXCEPT ![r] = runStatus[r]]
      <4>1. recovery'[r].run = runStatus[r] /\ \A q \in Runs \ {r} : recovery'[q] = recovery[q]
        BY <1>0, <2>3 DEF RecoveryOf, TypeOK
      <4>2. QED BY <4>1
    <3>2. QED
      BY <2>3, <3>1
      DEF Contract!Next, Contract!Pause, Contract!Become, Contract!ProjectSessionStatus,
          Contract!Runs, Contract!WaitingStatuses, WaitingStatuses, Moves, Runs
  <2>4. CASE /\ runStatus[r] = "paused" /\ UNCHANGED recovery
             /\ recovery[r].run \in {"running"} \union WaitingStatuses
             /\ Moves(r, recovery[r].run)
    BY <2>4
    DEF Contract!Next, Contract!Resume, Contract!Become, Contract!ProjectSessionStatus,
        Contract!Runs, Moves, Runs
  <2>5. QED BY <1>5, <2>1, <2>2, <2>3, <2>4, CommandMoves
<1>6. CASE Crash
  BY <1>6 DEF Crash, runtimeVars, Contract!vars
<1>7. CASE UNCHANGED vars
  BY <1>7 DEF vars, Contract!vars
<1>8. QED BY <1>2, <1>3, <1>4, <1>5, <1>6, <1>7 DEF QuietNext

\* In the quiet environment the services implement the contract of the run state
\* machine: every step of a handler or a worker is one of its events, or none.
THEOREM QuietKeepsContract == QuietSpec => KeepsContract
<1>1. Init => Contract!Init
  BY DEF Init, Contract!Init, Contract!Runs, Runs, NoRecovery
<1>2. QED
  BY <1>1, QuietInit, QuietStep, ContractStep, PTL DEF QuietSpec, KeepsContract, Contract!Spec

-----------------------------------------------------------------------------
(* The quiet environment: the chain of stages and the recovery checkpoint   *)

\* The stages in front of stage s.
Before(s) ==
  CASE s = "solution_design" -> {"requirement_analysis"}
    [] s = "code_generation" -> {"requirement_analysis", "solution_design"}
    [] s = "test_generation_execution" -> {"requirement_analysis", "solution_design", "code_generation"}
    [] s = "code_review" -> {"requirement_analysis", "solution_design", "code_generation",
                             "test_generation_execution"}
    [] s = "delivery_integration" -> StageTypes \ {"delivery_integration"}
    [] OTHER -> {}

\* An active run completed every stage in front of its current one, and a paused
\* one has a recovery checkpoint that fits it.
ChainRun(r) ==
  /\ runStatus[r] \in ActiveStatuses =>
       /\ \A s \in Before(stageOf[r]) : rows[r][s] = "completed"
       /\ \A w \in Workers :
            \/ worker[r][w].job = "approved"
            \/ worker[r][w].job = "next" /\ node[r] # FirstStage
            => rows[r][stageOf[r]] = "completed"
  /\ runStatus[r] = "completed" => \A s \in StageTypes : rows[r][s] = "completed"
  /\ runStatus[r] = "paused" => RecoveryUsable(r)

ChainInv == QuietInv /\ \A r \in Runs : ChainRun(r)

\* The graph, seen as a chain: where success, approval and rejection lead.
LEMMA ChainGraph ==
  /\ \A s \in StageTypes : Before(s) \subseteq StageTypes
  /\ Before(FirstStage) = {}
  /\ \A s \in StageTypes : SuccessNode[s] # FirstStage
  /\ \A s \in StageTypes : SuccessNode[s] \in StageTypes =>
        Before(SuccessNode[s]) = Before(s) \union {s}
  /\ \A s \in GatedStages : /\ Before(ApprovedTarget(s)) = Before(s) \union {s}
                            /\ Before(RejectedTarget(s)) \subseteq Before(s)
  /\ StageTypes = Before("delivery_integration") \union {"delivery_integration"}
<1>1. /\ SuccessNode["requirement_analysis"] = "solution_design"
      /\ SuccessNode["solution_design"] = "solution_design.approval_gate"
      /\ SuccessNode["code_generation"] = "test_generation_execution"
      /\ SuccessNode["test_generation_execution"] = "code_review"
      /\ SuccessNode["code_review"] = "code_review.approval_gate"
      /\ SuccessNode["delivery_integration"] = "end"
  BY Zenon DEF SuccessNode, StageTypes
<1>2. /\ Before("requirement_analysis") = {}
      /\ Before("solution_design") = {"requirement_analysis"}
      /\ Before("code_generation") = {"requirement_analysis", "solution_design"}
      /\ Before("test_generation_execution") =
           {"requirement_analysis", "solution_design", "code_generation"}
      /\ Before("code_review") = {"requirement_analysis", "solution_design", "code_generation",
                                  "test_generation_execution"}
      /\ Before("delivery_integration") = StageTypes \ {"delivery_integration"}
  BY Zenon DEF Before
<1>3. QED
  BY <1>1, <1>2 DEF StageTypes, GatedStages, FirstStage, ApprovedTarget, RejectedTarget

\* A step of one run leaves the chains of the others alone.
LEMMA ChainOthers ==
  ASSUME NEW r \in Runs, NEW q \in Runs \ {r}, ChainRun(q), OthersKept(r)
  PROVE  ChainRun(q)'
  BY DEF ChainRun, OthersKept, RecoveryUsable

\* A run that has just failed is no longer part of a chain.
LEMMA ChainFails ==
  ASSUME ChainInv, NEW r \in Runs, NEW w \in AtWork(r),
         FailRolledBack(r, w)
         \/ \E s \in StageTypes, resumed \in BOOLEAN : StageFails(r, w, s, resumed)
  PROVE  ChainRun(r)'
<1>1. TypeOK /\ Moves(r, "failed")
  BY FailMoves DEF ChainInv, QuietInv, GateInv
<1>2. runStatus'[r] = "failed"
  BY <1>1 DEF Moves, TypeOK
<1>3. QED BY <1>2 DEF ChainRun, ActiveStatuses, WaitingStatuses

\* A run that waits, with its stage s entered after all in front of it.
LEMMA ChainWaits ==
  ASSUME NEW r \in Runs, NEW s \in StageTypes, NEW kind \in WaitKinds,
         runStatus'[r] = WaitingStatus(kind), stageOf'[r] = s,
         \A t \in StageTypes \ {s} : rows'[r][t] = rows[r][t],
         \A t \in Before(s) : rows[r][t] = "completed",
         \A v \in Workers : worker'[r][v].job \in {"idle", "asking"}
  PROVE  ChainRun(r)'
<1>1. runStatus'[r] # "completed" /\ runStatus'[r] # "paused"
  BY StatusesApart DEF TerminalStatuses
<1>2. Before(s) \subseteq StageTypes /\ s \notin Before(s)
  BY ChainGraph DEF Before, StageTypes
<1>3. \A t \in Before(stageOf'[r]) : rows'[r][t] = "completed"
  BY <1>2
<1>4. QED BY <1>1, <1>3 DEF ChainRun

\* One stage execution, of a stage whose predecessors completed.
LEMMA ChainStage ==
  ASSUME ChainInv, NEW r \in Runs, NEW w \in AtWork(r), NEW s \in StageTypes, NEW resumed \in BOOLEAN,
         RunStage(r, w, s, resumed),
         \A t \in Before(s) : rows[r][t] = "completed"
  PROVE  ChainRun(r)'
<1>0. /\ QuietInv /\ TypeOK /\ w \in Workers
      /\ \A v \in Workers \ {w} : worker[r][v].job = "idle"
  BY Alone DEF ChainInv
<1>1. CASE StageCompletes(r, w, s, resumed)
  <2>1. /\ runStatus'[r] = "running" /\ stageOf'[r] = s
        /\ rows'[r][s] = "completed" /\ \A t \in StageTypes \ {s} : rows'[r][t] = rows[r][t]
    BY <1>0, <1>1, CompletesEffect
  <2>2. Before(s) \subseteq StageTypes
    BY ChainGraph
  <2>3. \A t \in Before(stageOf'[r]) : rows'[r][t] = "completed"
    BY <2>1, <2>2
  <2>4. QED BY <2>1, <2>3 DEF ChainRun
<1>2. CASE RequestConfirmation(r, w, s)
  <2>1. /\ runStatus'[r] = "waiting_tool_confirmation" /\ stageOf'[r] = s
        /\ \A t \in StageTypes \ {s} : rows'[r][t] = rows[r][t]
        /\ Put(r, w, Asked(s))
    BY <1>0, <1>2, ConfirmationEffect
  <2>2. \A v \in Workers : worker'[r][v].job \in {"idle", "asking"}
    <3>1. worker'[r][w] = Asked(s) /\ \A v \in Workers \ {w} : worker'[r][v] = worker[r][v]
      BY <1>0, <2>1, PutWork
    <3>2. QED BY <1>0, <3>1 DEF Asked
  <2>3. "tool_confirmation" \in WaitKinds /\ runStatus'[r] = WaitingStatus("tool_confirmation")
    BY <2>1, WaitingStatuses3 DEF WaitKinds
  <2>4. QED BY <2>1, <2>2, <2>3, ChainWaits
<1>3. ASSUME NEW kind \in {"clarification", "tool_confirmation"}, StageWaits(r, w, s, kind)
      PROVE  ChainRun(r)'
  <2>0. kind \in WaitKinds
    BY DEF WaitKinds
  <2>1. /\ runStatus'[r] = WaitingStatus(kind) /\ stageOf'[r] = s /\ Leave(r, w)
        /\ \A t \in StageTypes \ {s} : rows'[r][t] = rows[r][t]
    BY <1>0, <1>3, <2>0, WaitsEffect
  <2>2. \A v \in Workers : worker'[r][v].job = "idle"
    BY <1>0, <2>1, AloneLeaves
  <2>3. QED BY <2>0, <2>1, <2>2, ChainWaits
<1>4. CASE FailRolledBack(r, w) \/ StageFails(r, w, s, resumed)
  BY <1>4, ChainFails
<1>5. QED
  BY <1>1, <1>2, <1>3, <1>4 DEF RunStage, WaitRefused, StageRaises

\* Worker steps never leave a stage behind that did not complete.
LEMMA ChainWorker ==
  ASSUME ChainInv, NEW r \in Runs, NEW w \in Workers, Worker(r, w)
  PROVE  \A q \in Runs : ChainRun(q)'
<1>a. w \in AtWork(r)
  BY DEF Worker, RunNextStage, EnterGate, CompleteRun, RunNextRefused, ResumeApproval,
         ResumeToolConfirmation, ResumeRefused, FinishAsking, AskAgain, AskingRaises, OwnPending, AtWork
<1>b. /\ TypeOK /\ GateInv /\ GateRun(r) /\ Followed(r) /\ Stands(r, w) /\ stageOf[r] \in StageTypes
      /\ runStatus[r] = WorkStatus(worker[r][w].job) /\ worker[r][w].job # "answered"
  BY <1>a, Alone DEF ChainInv
<1>0. /\ ChainRun(r) /\ runStatus[r] \in ActiveStatuses
      /\ \A t \in Before(stageOf[r]) : rows[r][t] = "completed"
  BY <1>b DEF ChainInv, ChainRun, WorkStatus, ActiveStatuses, WaitingStatuses
<1>1. ASSUME NEW q \in Runs \ {r} PROVE ChainRun(q)'
  BY <1>b, <1>1, WorkerKeepsOthers, ChainOthers DEF ChainInv
<1>2. CASE RunNextStage(r, w)
  <2>1. \A t \in Before(node[r]) : rows[r][t] = "completed"
    <3>1. CASE node[r] = FirstStage
      BY <3>1, ChainGraph
    <3>2. CASE node[r] # FirstStage
      <4>1. node[r] = SuccessNode[stageOf[r]] /\ node[r] \in StageTypes
        BY <1>b, <1>2, <3>2 DEF RunNextStage, Stands
      <4>2. rows[r][stageOf[r]] = "completed"
        BY <1>0, <1>2, <3>2 DEF RunNextStage, ChainRun
      <4>3. Before(node[r]) = Before(stageOf[r]) \union {stageOf[r]}
        BY <1>b, <4>1, ChainGraph
      <4>4. QED BY <1>0, <4>2, <4>3
    <3>3. QED BY <3>1, <3>2
  <2>2. QED BY <1>a, <1>1, <1>2, <2>1, ChainStage DEF RunNextStage
<1>3. CASE EnterGate(r, w)
  <2>1. GateSource(node[r]) = stageOf[r]
    <3>1. node[r] \in Gates /\ node[r] = SuccessNode[stageOf[r]]
      BY <1>b, <1>3 DEF EnterGate, Stands, Gates, FirstStage
    <3>2. QED BY <1>b, <3>1, GateGraph
  <2>2. /\ runStatus'[r] = "waiting_approval" /\ stageOf'[r] = stageOf[r] /\ Leave(r, w)
        /\ \A t \in StageTypes \ {stageOf[r]} : rows'[r][t] = rows[r][t]
    BY <1>b, <1>3, <2>1, GateEffect
  <2>3. \A v \in Workers : worker'[r][v].job = "idle"
    BY <1>a, <2>2, AloneLeaves DEF ChainInv
  <2>4. "approval" \in WaitKinds /\ runStatus'[r] = WaitingStatus("approval")
    BY <2>2, WaitingStatuses3 DEF WaitKinds
  <2>5. ChainRun(r)'
    BY <1>b, <1>0, <2>2, <2>3, <2>4, ChainWaits
  <2>6. QED BY <1>1, <2>5
<1>4. CASE CompleteRun(r, w)
  <2>1. node[r] = "end" /\ node[r] # FirstStage
    BY <1>4 DEF CompleteRun, FirstStage
  <2>2. stageOf[r] = "delivery_integration"
    BY <1>b, <1>4, <2>1, GateGraph DEF CompleteRun, Stands
  <2>3. \A s \in StageTypes : rows[r][s] = "completed"
    BY <1>0, <1>4, <2>1, <2>2, ChainGraph DEF CompleteRun, ChainRun
  <2>4. runStatus'[r] = "completed" /\ rows' = rows
    BY <1>b, <1>4, CompleteEffect
  <2>5. ChainRun(r)'
    BY <2>3, <2>4 DEF ChainRun, ActiveStatuses, WaitingStatuses
  <2>6. QED BY <1>1, <2>5
<1>5. CASE FailRolledBack(r, w)
  BY <1>a, <1>1, <1>5, ChainFails
<1>6. CASE ResumeApproval(r, w)
  <2>1. PICK target \in StageTypes :
          /\ target = IF worker[r][w].job = "approved" THEN ApprovedTarget(worker[r][w].stage)
                                                       ELSE RejectedTarget(worker[r][w].stage)
          /\ RunStage(r, w, target, TRUE)
    BY <1>6, TargetsTyped DEF ResumeApproval
  <2>2. worker[r][w].stage = stageOf[r] /\ stageOf[r] \in GatedStages
    BY <1>b, <1>6 DEF ResumeApproval, Stands
  <2>3. worker[r][w].job = "approved" => rows[r][stageOf[r]] = "completed"
    BY <1>0 DEF ChainRun
  <2>4. \A t \in Before(target) : rows[r][t] = "completed"
    <3>1. CASE worker[r][w].job = "approved"
      <4>1. Before(target) = Before(stageOf[r]) \union {stageOf[r]}
        BY <2>1, <2>2, <3>1, ChainGraph
      <4>2. QED BY <1>0, <2>3, <3>1, <4>1
    <3>2. CASE worker[r][w].job # "approved"
      <4>1. Before(target) \subseteq Before(stageOf[r])
        BY <2>1, <2>2, <3>2, ChainGraph
      <4>2. QED BY <1>0, <4>1
    <3>3. QED BY <3>1, <3>2
  <2>5. QED BY <1>a, <1>1, <2>1, <2>4, ChainStage
<1>7. CASE ResumeToolConfirmation(r, w)
  <2>1. worker[r][w].stage = stageOf[r] /\ RunStage(r, w, worker[r][w].stage, TRUE)
    BY <1>b, <1>7 DEF ResumeToolConfirmation, Stands
  <2>2. QED BY <1>a, <1>b, <1>0, <1>1, <2>1, ChainStage
<1>8. CASE FinishAsking(r, w)
  <2>1. worker[r][w].stage = stageOf[r]
    BY <1>b, <1>8 DEF FinishAsking, OwnPending, Stands
  <2>2. /\ runStatus'[r] = "waiting_tool_confirmation" /\ stageOf'[r] = stageOf[r] /\ Leave(r, w)
        /\ \A t \in StageTypes \ {stageOf[r]} : rows'[r][t] = rows[r][t]
    BY <1>b, <1>8, <2>1, FinishEffect
  <2>3. \A v \in Workers : worker'[r][v].job = "idle"
    BY <1>a, <2>2, AloneLeaves DEF ChainInv
  <2>4. "tool_confirmation" \in WaitKinds /\ runStatus'[r] = WaitingStatus("tool_confirmation")
    BY <2>2, WaitingStatuses3 DEF WaitKinds
  <2>5. ChainRun(r)'
    BY <1>b, <1>0, <2>2, <2>3, <2>4, ChainWaits
  <2>6. QED BY <1>1, <2>5
<1>9. CASE AskAgain(r, w)
  <2>1. worker[r][w].job = "asking" /\ runStatus[r] # "running"
    BY <1>b, <1>9 DEF AskAgain, WorkStatus
  <2>2. FailRolledBack(r, w)
    BY <1>9, <2>1 DEF AskAgain, StageWaits, Requestable, WaitRefused
  <2>3. QED BY <1>5, <2>2
<1>10. QED
  BY <1>2, <1>3, <1>4, <1>5, <1>6, <1>7, <1>8, <1>9
  DEF Worker, RunNextRefused, ResumeRefused, AskingRaises, StageRaises

\* Quiet commands keep the chain, and a pause writes a checkpoint that can be used.
LEMMA ChainCommand ==
  ASSUME ChainInv, NEW r \in Runs,
         ResumeRun(r) \/ (Idle(r) /\ (AnAnswer(r) \/ Interruption(r)))
  PROVE  \A q \in Runs : ChainRun(q)'
<1>0. TypeOK /\ GateRun(r) /\ ChainRun(r) /\ QuietState
  BY DEF ChainInv, QuietInv, GateInv
<1>1. ASSUME NEW q \in Runs \ {r} PROVE ChainRun(q)'
  BY <1>0, <1>1, CommandKeepsOthers, ChainOthers DEF ChainInv
<1>2. CASE Idle(r) /\ PauseRun(r)
  <2>1. /\ runStatus[r] \in ActiveStatuses /\ runStatus'[r] = "paused"
        /\ UNCHANGED <<stageOf, rows, node, worker>> /\ recovery'[r] = RecoveryOf(r)
        /\ runStatus[r] \in {"running"} \union WaitingStatuses
        /\ session.status = ProjectSessionStatus(runStatus[r])
    BY <1>0, <1>2 DEF PauseRun, workerVars, TypeOK, ActiveStatuses
  <2>2. RecoveryUsable(r)'
    BY <2>1 DEF RecoveryUsable, RecoveryOf
  <2>3. ChainRun(r)'
    BY <1>0, <2>1, <2>2 DEF ChainRun
  <2>4. QED BY <1>1, <2>3
<1>3. CASE ResumeRun(r)
  <2>1. /\ runStatus[r] = "paused"
        /\ runStatus'[r] \in {"running"} \union WaitingStatuses
        /\ UNCHANGED <<stageOf, rows, node, worker>>
    BY <1>0, <1>3 DEF ResumeRun, RecoveryUsable, workerVars, TypeOK
  <2>2. ChainRun(r)'
    BY <1>0, <2>1 DEF ChainRun, ActiveStatuses, WaitingStatuses
  <2>3. QED BY <1>1, <2>2
<1>4. CASE TerminateRun(r)
  <2>1. runStatus'[r] = "terminated"
    BY <1>0, <1>4 DEF TerminateRun, TypeOK
  <2>2. ChainRun(r)'
    BY <2>1 DEF ChainRun, ActiveStatuses, WaitingStatuses
  <2>3. QED BY <1>1, <2>2
<1>5. ASSUME Idle(r), NEW kind \in WaitKinds, NEW status, NEW row,
             NEW job \in {"reply", "approved", "rejected", "allowed", "denied"},
             Answerable(r, kind), Answer(r, status, row, job),
             job = "approved" => row = "completed"
      PROVE  \A q \in Runs : ChainRun(q)'
  <2>1. runStatus[r] \in WaitingStatuses /\ runStatus[r] # "none"
    BY <1>5, StatusesApart DEF Answerable
  <2>2. runStatus[r] \in ActiveStatuses /\ runStatus[r] # "completed"
    BY <2>1 DEF ActiveStatuses, WaitingStatuses
  <2>3. stageOf[r] \in StageTypes
    BY <1>0, <2>1, <2>2 DEF GateRun, Untouched, TypeOK
  <2>4. /\ runStatus'[r] = "running" /\ UNCHANGED stageOf /\ ResumeAsync(r, job)
        /\ rows'[r][stageOf[r]] = row
        /\ \A t \in StageTypes \ {stageOf[r]} : rows'[r][t] = rows[r][t]
    BY <1>0, <1>5, <2>3 DEF Answer, TypeOK
  <2>5. stageOf[r] \notin Before(stageOf[r]) /\ Before(stageOf[r]) \subseteq StageTypes
    BY <2>3, ChainGraph DEF Before, StageTypes
  <2>6. \A t \in Before(stageOf'[r]) : rows'[r][t] = "completed"
    BY <1>0, <2>2, <2>4, <2>5 DEF ChainRun
  <2>7. \A v \in Workers : worker'[r][v].job \in {"approved", "next"} =>
          job = "approved" /\ worker'[r][v].job = job
    <3>1. \A v \in Workers : worker[r][v].job = "idle"
      BY <1>5 DEF Idle, AtWork
    <3>2. PICK w \in Workers \ AtWork(r) :
            /\ worker'[r][w] = [job |-> job, ref |-> checkpoint[r], stage |-> stageOf[r]]
            /\ \A u \in Workers \ {w} :
                 IF worker[r][u].job = "asking"
                 THEN worker'[r][u].job = "answered" /\ worker'[r][u].stage = worker[r][u].stage
                 ELSE worker'[r][u] = worker[r][u]
      BY <1>0, <2>4, ResumeAsyncEffect
    <3>3. worker'[r][w].job = job
      BY <3>2
    <3>4. QED BY <3>1, <3>2, <3>3
  <2>8. ChainRun(r)'
    BY <1>5, <2>4, <2>6, <2>7 DEF ChainRun
  <2>9. QED BY <1>1, <2>8
<1>6. ASSUME Idle(r), AnswerClarification(r) PROVE \A q \in Runs : ChainRun(q)'
  BY <1>5, <1>6 DEF AnswerClarification, WaitKinds
<1>7. ASSUME Idle(r), NEW verdict \in {"approved", "rejected"}, SubmitApproval(r, verdict)
      PROVE  \A q \in Runs : ChainRun(q)'
  BY <1>5, <1>7 DEF SubmitApproval, WaitKinds
<1>8. ASSUME Idle(r), NEW verdict \in {"allowed", "denied"}, SubmitToolConfirmation(r, verdict)
      PROVE  \A q \in Runs : ChainRun(q)'
  BY <1>5, <1>8 DEF SubmitToolConfirmation, WaitKinds
<1>9. QED BY <1>2, <1>3, <1>4, <1>6, <1>7, <1>8 DEF AnAnswer, Interruption

\* ChainInv is inductive in the quiet environment.
LEMMA ChainStep == ChainInv /\ [QuietNext]_vars => ChainInv'
<1> SUFFICES ASSUME ChainInv, [QuietNext]_vars PROVE ChainInv'
  OBVIOUS
<1>0. QuietInv /\ GateInv /\ TypeOK /\ QuietInv'
  BY QuietStep DEF ChainInv, QuietInv, GateInv
<1>1. ASSUME NEW r \in Runs, r = session.current + 1, Publish(r) PROVE ChainInv'
  <2>1. /\ runStatus'[r] = "running" /\ stageOf'[r] = FirstStage /\ node'[r] = FirstStage
        /\ \A q \in Runs \ {r} :
             /\ runStatus'[q] = runStatus[q] /\ stageOf'[q] = stageOf[q] /\ rows'[q] = rows[q]
             /\ recovery' = recovery /\ node' = node
    <3>1. node[r] = FirstStage
      BY <1>0, <1>1 DEF GateInv, GateRun, Untouched, TypeOK, Runs
    <3>2. QED BY <1>0, <1>1, <3>1 DEF Publish, TypeOK
  <2>2. PICK w \in Workers : Put(r, w, NextStep)
    BY <1>1 DEF Publish
  <2>3. /\ worker'[r][w] = NextStep
        /\ \A v \in Workers \ {w} : worker'[r][v] = worker[r][v]
        /\ \A q \in Runs \ {r} : worker'[q] = worker[q]
    BY <1>0, <2>2, PutWork
  <2>4. \A v \in Workers : worker[r][v].job = "idle"
    BY <1>0, <1>1 DEF GateInv, GateRun, Untouched, Idle, AtWork, TypeOK, Runs
  <2>5. \A v \in Workers : worker'[r][v].job \in {"idle", "next"}
    BY <2>3, <2>4 DEF NextStep
  <2>6. ChainRun(r)'
    BY <2>1, <2>5, ChainGraph DEF ChainRun
  <2>7. ASSUME NEW q \in Runs \ {r} PROVE ChainRun(q)'
    BY <2>1, <2>3, <2>7 DEF ChainInv, ChainRun, RecoveryUsable
  <2>8. QED BY <1>0, <2>6, <2>7 DEF ChainInv, Runs
<1>2. CASE StartFirstRun
  BY <1>0, <1>1, <1>2, ConstantsAssumption DEF StartFirstRun, Runs
<1>3. CASE CreateRerun
  BY <1>0, <1>1, <1>3, ConstantsAssumption DEF CreateRerun, TypeOK, Runs
<1>4. CASE Crash
  <2>1. /\ \A q \in Runs, v \in Workers : worker'[q][v].job = "idle"
        /\ UNCHANGED <<runStatus, stageOf, rows, recovery>>
    BY <1>4 DEF Crash, NoWork, runtimeVars
  <2>2. QED BY <1>0, <2>1 DEF ChainInv, ChainRun, RecoveryUsable, Runs
<1>5. ASSUME NEW r \in Runs, ResumeRun(r) \/ (Idle(r) /\ (AnAnswer(r) \/ Interruption(r)))
      PROVE  ChainInv'
  BY <1>0, <1>5, ChainCommand DEF ChainInv, Runs
<1>6. ASSUME NEW r \in Runs, NEW w \in Workers, Worker(r, w) PROVE ChainInv'
  BY <1>0, <1>6, ChainWorker DEF ChainInv, Runs
<1>7. CASE UNCHANGED vars
  BY <1>0, <1>7 DEF vars, ChainInv, ChainRun, RecoveryUsable, Runs
<1>8. QED BY <1>2, <1>3, <1>4, <1>5, <1>6, <1>7 DEF QuietNext

\* The initial state satisfies it.
LEMMA ChainInit == Init => ChainInv
<1>1. ASSUME Init, NEW r \in Runs PROVE ChainRun(r)
  BY <1>1 DEF Init, ChainRun, ActiveStatuses, WaitingStatuses
<1>2. QED BY <1>1, QuietInit DEF ChainInv

\* While pause, terminate and answers only meet idle runs, a paused run can be
\* resumed.
THEOREM PausedCanResume == QuietSpec => []PausedResumable
<1>1. ChainInv => PausedResumable
  <2>1. SUFFICES ASSUME ChainInv, NEW r \in Runs, runStatus[r] = "paused"
                 PROVE  ActiveContext(r) /\ session.status = "paused" /\ RecoveryUsable(r)
    BY DEF PausedResumable
  <2>2. session.current = r
    BY <2>1 DEF ChainInv, QuietInv, QuietState, GateInv, TypeOK, Runs, TerminalStatuses
  <2>3. QED
    BY <2>1, <2>2
    DEF ChainInv, ChainRun, QuietInv, QuietState, GateInv, GateRun, Untouched, ActiveContext, Runs
<1>2. QED BY <1>1, ChainInit, ChainStep, PTL DEF QuietSpec

\* In the same environment a completed run completed all six stages with both
\* gates approved.
THEOREM WholeChain == QuietSpec => []CompletedThroughChain
<1>1. ChainInv /\ WaitInv => CompletedThroughChain
  <2>1. SUFFICES ASSUME ChainInv, WaitInv, NEW r \in Runs, runStatus[r] = "completed"
                 PROVE  \A gate \in GatedStages : decision[r][gate] = "approved"
    BY DEF CompletedThroughChain, ChainInv, ChainRun
  <2>2. stageOf[r] = "none" /\ GateRun(r)
    BY <2>1 DEF WaitInv, WaitRun, Ended, GateInv
  <2>3. QED BY <2>1, <2>2 DEF GateRun, Untouched
<1>2. ChainInv /\ [QuietNext]_vars => [Next]_vars
  BY QuietIsNext DEF ChainInv
<1>3. QED BY <1>1, <1>2, ChainInit, ChainStep, WaitInit, WaitStep, PTL DEF QuietSpec
=============================================================================
