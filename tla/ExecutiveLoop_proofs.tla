------------------------ MODULE ExecutiveLoop_proofs ------------------------
(***************************************************************************)
(* Theorems about ExecutiveLoop for every value of its constants: any      *)
(* number of calls and worlds, any budgets, any recovery plans.            *)
(***************************************************************************)
EXTENDS ExecutiveLoop, TLAPS

USE CallsAssumption, WorldsAssumption, ConfigsAssumption, BudgetAssumption

-----------------------------------------------------------------------------
(* Types                                                                   *)

BagOK(B) == IsABag(B) /\ DOMAIN B \subseteq Worlds \X Calls

Count(B, k) == IF BagIn(k, B) THEN B[k] ELSE 0

\* Adding one failure to the bag counts it for its key and no other.
LEMMA BagAddCounts ==
  ASSUME NEW B, BagOK(B), NEW k \in Worlds \X Calls
  PROVE  /\ BagOK(BagAdd(B, k))
         /\ Count(BagAdd(B, k), k) = Count(B, k) + 1
         /\ \A j : j # k => Count(BagAdd(B, k), j) = Count(B, j)
<1> DEFINE C == BagAdd(B, k)
<1>1. B \in [DOMAIN B -> {n \in Nat : n > 0}]
  BY DEF BagOK, IsABag
<1>2. CASE k \in DOMAIN B
  <2>1. C = [e \in DOMAIN B |-> IF e = k THEN B[e] + 1 ELSE B[e]]
    BY <1>2 DEF BagAdd
  <2>2. QED
    BY <1>1, <1>2, <2>1 DEF BagOK, IsABag, Count, BagIn, BagToSet
<1>3. CASE k \notin DOMAIN B
  <2>1. C = [e \in DOMAIN B \cup {k} |-> IF e = k THEN 1 ELSE B[e]]
    BY <1>3 DEF BagAdd
  <2>2. QED
    BY <1>1, <1>3, <2>1 DEF BagOK, IsABag, Count, BagIn, BagToSet
<1>4. QED
  BY <1>2, <1>3

\* failure_count() is a number, and reads the bag of failures.
LEMMA FailureCountNat ==
  ASSUME HistoryOK
  PROVE  \A w, c : FailureCount(w, c) \in Nat /\ FailureCount(w, c) = Count(fails, <<w, c>>)
<1>1. fails \in [DOMAIN fails -> {n \in Nat : n > 0}]
  BY DEF HistoryOK, IsABag
<1>2. QED
  BY <1>1 DEF FailureCount, Count, BagIn, BagToSet

LEMMA InitTypeOK == Init => TypeOK
<1> SUFFICES ASSUME Init PROVE TypeOK
  OBVIOUS
<1>1. ControlOK
  BY DEF Init, ControlOK, Stages, Outcomes
<1>2. FixedOK
  BY DEF Init, FixedOK
<1>3. BeliefOK /\ CycleOK /\ TrackOK /\ BookOK
  BY DEF Init, BeliefOK, CycleOK, TrackOK, BookOK
<1>4. AdviceOK
  BY DEF Init, AdviceOK
<1>5. HistoryOK
  <2>1. last \in Entries
    BY DEF Init, Entries, Decisions
  <2>2. IsABag(fails) /\ DOMAIN fails \subseteq Worlds \X Calls
    BY DEF Init, EmptyBag, SetToBag, IsABag
  <2>3. QED
    BY <2>1, <2>2 DEF Init, HistoryOK
<1>6. QED
  BY <1>1, <1>2, <1>3, <1>4, <1>5 DEF TypeOK

\* A group of variables that a step leaves alone keeps its types.
LEMMA Kept ==
  /\ FixedOK /\ UNCHANGED fixedVars => FixedOK'
  /\ BeliefOK /\ UNCHANGED beliefVars => BeliefOK'
  /\ CycleOK /\ UNCHANGED cycleVars => CycleOK'
  /\ AdviceOK /\ UNCHANGED adviceVars => AdviceOK'
  /\ TrackOK /\ UNCHANGED nlVars => TrackOK'
  /\ BookOK /\ UNCHANGED bookVars => BookOK'
  /\ HistoryOK /\ UNCHANGED historyVars => HistoryOK'
<1>1. FixedOK /\ UNCHANGED fixedVars => FixedOK'
  BY DEF FixedOK, fixedVars, envVars, ghostVars
<1>2. /\ BeliefOK /\ UNCHANGED beliefVars => BeliefOK'
      /\ AdviceOK /\ UNCHANGED adviceVars => AdviceOK'
      /\ TrackOK /\ UNCHANGED nlVars => TrackOK'
      /\ BookOK /\ UNCHANGED bookVars => BookOK'
  BY DEF BeliefOK, beliefVars, AdviceOK, adviceVars, TrackOK, nlVars, BookOK, bookVars
<1>3. CycleOK /\ UNCHANGED cycleVars => CycleOK'
  BY DEF CycleOK, cycleVars
<1>4. HistoryOK /\ UNCHANGED historyVars => HistoryOK'
  BY DEF HistoryOK, historyVars
<1>5. QED
  BY <1>1, <1>2, <1>3, <1>4

\* The two forms in which a trace entry is appended keep the types.
LEMMA NoteTypeOK ==
  ASSUME HistoryOK, NEW d \in Decisions, NEW f \in SUBSET FaultClasses, Note(d, f)
  PROVE  HistoryOK'
  BY DEF Note, HistoryOK, Entries

LEMMA NoteExecutionTypeOK ==
  ASSUME HistoryOK, BeliefOK, NEW n \in 0 .. MaxPrimitives, NEW s \in BOOLEAN,
         NEW f \in SUBSET FaultClasses, NoteExecution(s, n, f), call \in Calls
  PROVE  HistoryOK'
<1>1. last' \in Entries
  BY DEF NoteExecution, Entries, Decisions
<1>2. recExec' \in Nat /\ recPrim' \in Nat
  BY DEF NoteExecution, HistoryOK
<1>3. BagOK(fails')
  <2>1. BagOK(fails) /\ <<snapshot, call>> \in Worlds \X Calls
    BY DEF HistoryOK, BeliefOK, BagOK
  <2>2. QED
    BY <2>1, BagAddCounts DEF NoteExecution, FailuresAfter
<1>4. QED
  BY <1>1, <1>2, <1>3 DEF HistoryOK, BagOK

LEMMA MaybeFaultHaltTypeOK ==
  ASSUME ControlOK, MaybeFaultHalt
  PROVE  ControlOK' /\ pc' \in {"settle", "done"}
  BY DEF ControlOK, MaybeFaultHalt, Finish, Stages, Outcomes

LEMMA FinishTypeOK ==
  ASSUME NEW o \in Outcomes, Finish(o)
  PROVE  ControlOK' /\ pc' = "done"
  BY DEF ControlOK, Finish, Stages

LEMMA LeaveCycleTypeOK == LeaveCycle => CycleOK'
<1> SUFFICES ASSUME LeaveCycle PROVE CycleOK'
  OBVIOUS
<1>1. plan' = NoPlan /\ call' = NoCall /\ inapplicable' = {}
  BY DEF LeaveCycle
<1>2. rejections' \in Nat /\ acquired' \in BOOLEAN
  BY DEF LeaveCycle
<1>3. QED
  BY <1>1, <1>2 DEF CycleOK

LEMMA SyncTypeOK == FixedOK /\ Sync => BeliefOK'
  BY DEF FixedOK, Sync, BeliefOK

LEMMA InitialObserveTypeOK == FixedOK /\ TrackOK /\ InitialObserve => TrackOK'
  BY DEF FixedOK, TrackOK, InitialObserve, nlVars

LEMMA SpendTypeOK ==
  ASSUME FixedOK, NEW n \in 0 .. MaxPrimitives, NEW w \in Worlds, Spend(n, w)
  PROVE  world' \in Worlds /\ over' \in BOOLEAN /\ reached' \in Nat /\ ran' \in Nat
  BY DEF FixedOK, Spend

\* With the call that stands at the gate, the types are inductive.
TypeInv == TypeOK /\ (pc = "gate" => call \in Calls)

LEMMA TypeInvStep == TypeInv /\ [Next]_vars => TypeInv'
<1> SUFFICES ASSUME TypeInv, [Next]_vars PROVE TypeInv'
  OBVIOUS
<1>0. /\ ControlOK /\ FixedOK /\ BeliefOK /\ CycleOK
      /\ AdviceOK /\ TrackOK /\ BookOK /\ HistoryOK
      /\ pc = "gate" => call \in Calls
  BY DEF TypeInv, TypeOK
<1> DEFINE FC == SUBSET FaultClasses
<1>a. /\ {"early"} \in FC /\ {"observe"} \in FC /\ {"late"} \in FC /\ {} \in FC
      /\ {"late", "observe"} \in FC
  BY DEF FaultClasses
<1>b. {"none", "halt", "replan", "request_proposal"} \subseteq Decisions
  BY DEF Decisions
<1>c. {"goal_reached", "halted_no_plan", "halted_repeated_failure", "faulted",
       "budget_exhausted", "raised"} \subseteq Outcomes
  BY DEF Outcomes
<1> HIDE DEF FC
<1> DEFINE Goal8 == /\ ControlOK' /\ FixedOK' /\ BeliefOK' /\ CycleOK'
                    /\ AdviceOK' /\ TrackOK' /\ BookOK' /\ HistoryOK'
                    /\ (pc' = "gate" => call' \in Calls)
<1> SUFFICES Goal8
  BY DEF TypeInv, TypeOK
<1>1. CASE SyncRaises
  BY <1>0, <1>1, <1>c, FinishTypeOK, Kept DEF SyncRaises
<1>2. CASE InitialObserveFails
  <2>1. HistoryOK'
    BY <1>0, <1>2, <1>a, <1>b, NoteTypeOK DEF InitialObserveFails, FC
  <2>2. BookOK'
    BY <1>0, <1>2 DEF InitialObserveFails, BookOK, FixedOK, HistoryOK, Charged
  <2>3. QED
    BY <1>0, <1>2, <2>1, <2>2, Kept, SyncTypeOK, MaybeFaultHaltTypeOK
       DEF InitialObserveFails
<1>3. CASE GoalReached
  BY <1>0, <1>3, <1>c, Kept, SyncTypeOK, InitialObserveTypeOK, FinishTypeOK
     DEF GoalReached
<1>4. CASE BudgetStops
  BY <1>0, <1>4, <1>c, Kept, SyncTypeOK, InitialObserveTypeOK, FinishTypeOK
     DEF BudgetStops
<1>5. CASE StartCycle
  <2>1. BookOK'
    BY <1>0, <1>5 DEF StartCycle, BookOK, FixedOK, HistoryOK, Charged
  <2>2. CycleOK'
    BY <1>0, <1>5 DEF StartCycle, CycleOK
  <2>3. ControlOK' /\ pc' # "gate"
    BY <1>0, <1>5 DEF StartCycle, ControlOK, Stages
  <2>4. QED
    BY <1>0, <1>5, <2>1, <2>2, <2>3, Kept, SyncTypeOK, InitialObserveTypeOK
       DEF StartCycle
<1>6. CASE PlannerFails
  <2>1. HistoryOK'
    BY <1>0, <1>6, <1>a, <1>b, NoteTypeOK DEF PlannerFails, FC
  <2>2. QED
    BY <1>0, <1>6, <2>1, Kept, MaybeFaultHaltTypeOK DEF PlannerFails
<1>7. CASE PlannerAnswers
  <2>1. CycleOK'
    BY <1>0, <1>7 DEF PlannerAnswers, CycleOK
  <2>2. ControlOK' /\ pc' # "gate"
    BY <1>0, <1>7 DEF PlannerAnswers, ControlOK, Stages
  <2>3. QED
    BY <1>0, <1>7, <2>1, <2>2, Kept DEF PlannerAnswers
<1>8. CASE ProposalFails
  <2>1. HistoryOK'
    BY <1>0, <1>8, <1>a, <1>b, NoteTypeOK DEF ProposalFails, FC
  <2>2. QED
    BY <1>0, <1>8, <2>1, Kept, MaybeFaultHaltTypeOK DEF ProposalFails
<1>9. CASE SelectExecute
  <2>1. Standing => Head(pending) \in Calls
    BY <1>0 DEF AdviceOK, Standing
  <2>2. ~Standing => plan \in Calls
    BY <1>0, <1>9 DEF CycleOK, SelectExecute, Route, RouteAt
  <2>3. call' \in Calls
    BY <1>9, <2>1, <2>2 DEF SelectExecute, Enacted
  <2>4. CycleOK'
    BY <1>0, <1>9, <2>3 DEF SelectExecute, CycleOK, RequestsProposal
  <2>5. ControlOK'
    BY <1>0, <1>9 DEF SelectExecute, ControlOK, Stages
  <2>6. QED
    BY <1>0, <1>9, <2>3, <2>4, <2>5, Kept DEF SelectExecute
<1>10. CASE HaltNoPlan \/ HaltRepeatedFailure \/ HaltWithoutAdvice
  <2>1. Note("halt", {}) /\ \E o \in Outcomes : Finish(o)
    BY <1>10, <1>c DEF HaltNoPlan, HaltRepeatedFailure, HaltWithoutAdvice
  <2>2. HistoryOK'
    BY <1>0, <2>1, <1>a, <1>b, NoteTypeOK DEF FC
  <2>3. ControlOK' /\ pc' = "done"
    BY <2>1, FinishTypeOK
  <2>4. QED
    BY <1>0, <1>10, <2>2, <2>3, Kept
       DEF HaltNoPlan, HaltRepeatedFailure, HaltWithoutAdvice
<1>11. CASE RequestRecovery
  <2>1. PICK advice \in AdviceFor(plan) \ {<<>>} :
          /\ pending' = advice
          /\ advised' = advised \cup {advice[i] : i \in 1 .. Len(advice)}
    BY <1>11 DEF RequestRecovery
  <2>2. advice \in Seq(Calls)
    BY AdvicesAssumption DEF AdviceFor
  <2>3. AdviceOK'
    BY <1>0, <2>1, <2>2 DEF AdviceOK
  <2>4. HistoryOK'
    BY <1>0, <1>11, <1>a, <1>b, NoteTypeOK DEF RequestRecovery, FC
  <2>5. ControlOK' /\ pc' # "gate"
    BY <1>0, <1>11 DEF RequestRecovery, ControlOK
  <2>6. QED
    BY <1>0, <1>11, <2>3, <2>4, <2>5, Kept DEF RequestRecovery
<1>12. CASE Replan
  <2>1. CycleOK'
    BY <1>0, <1>12 DEF Replan, CycleOK
  <2>2. ControlOK' /\ pc' # "gate"
    BY <1>0, <1>12 DEF Replan, ControlOK, Stages
  <2>3. QED
    BY <1>0, <1>12, <2>1, <2>2, Kept DEF Replan
<1>13. CASE RejectionGuard
  <2>1. CycleOK'
    BY <1>0, <1>13 DEF RejectionGuard, CycleOK
  <2>2. HistoryOK'
    BY <1>0, <1>13, <1>a, <1>b, NoteTypeOK DEF RejectionGuard, FC
  <2>3. QED
    BY <1>0, <1>13, <2>1, <2>2, Kept, MaybeFaultHaltTypeOK DEF RejectionGuard
<1>14. CASE GateUngrounded
  <2>1. HistoryOK'
    BY <1>0, <1>14, <1>a, <1>b, NoteTypeOK DEF GateUngrounded, FC
  <2>2. AdviceOK'
    BY <1>0, <1>14 DEF GateUngrounded, AdviceOK
  <2>3. QED
    BY <1>0, <1>14, <2>1, <2>2, Kept, MaybeFaultHaltTypeOK DEF GateUngrounded
<1>15. CASE GateInapplicable
  <2>1. HistoryOK'
    BY <1>0, <1>15, <1>a, <1>b, NoteTypeOK DEF GateInapplicable, FC
  <2>2. AdviceOK'
    BY <1>0, <1>15 DEF GateInapplicable, AdviceOK
  <2>3. ControlOK' /\ pc' # "gate"
    BY <1>0, <1>15 DEF GateInapplicable, ControlOK, Stages
  <2>4. QED
    BY <1>0, <1>15, <2>1, <2>2, <2>3, Kept DEF GateInapplicable
<1>16. ASSUME NEW n \in 0 .. MaxPrimitives, NEW w \in Worlds,
              \/ Completes(n, w) \/ CompletesMonitorFails(n, w)
              \/ CompletesObserveFails(n, w) \/ FaultsWithResult(n, w)
       PROVE  Goal8
  <2> USE DEF Completes, CompletesMonitorFails, CompletesObserveFails, FaultsWithResult
  <2>1. call \in Calls /\ Spend(n, w) /\ SyncPost(w)
    BY <1>0, <1>16 DEF Admitted
  <2>2. \E s \in BOOLEAN, f \in FC : NoteExecution(s, n, f)
    BY <1>16, <1>a
  <2>3. HistoryOK'
    BY <1>0, <2>1, <2>2, NoteExecutionTypeOK DEF FC
  <2>4. BeliefOK'
    BY <1>0, <2>1 DEF SyncPost, BeliefOK
  <2>5. TrackOK'
    <3>1. Observed(w) => TrackOK'
      BY <1>0 DEF Observed, TrackOK
    <3>2. QED
      BY <1>0, <1>16, <3>1, Kept
  <2>6. diagnosed' \subseteq Calls
    BY <1>0, <1>16, <2>1 DEF FixedOK
  <2>7. FixedOK'
    <3>1. UNCHANGED <<config, extraExec, extraPrim, unreported>>
      BY <1>16
    <3>2. QED
      BY <1>0, <2>1, <2>6, <3>1, SpendTypeOK DEF FixedOK
  <2>8. AdviceOK'
    <3>1. Standing => Tail(pending) \in Seq(Calls)
      BY <1>0 DEF AdviceOK, Standing
    <3>2. pending' \in Seq(Calls)
      BY <1>0, <1>16, <3>1 DEF AdviceOK, adviceVars
    <3>3. UNCHANGED advised
      BY <1>16 DEF adviceVars
    <3>4. QED
      BY <1>0, <3>2, <3>3 DEF AdviceOK
  <2>9. CycleOK' /\ BookOK'
    BY <1>0, <1>16, Kept
  <2>10. ControlOK' /\ pc' # "gate"
    <3>1. pc' = "settle" /\ UNCHANGED outcome => ControlOK' /\ pc' # "gate"
      BY <1>0 DEF ControlOK, Stages
    <3>2. QED
      BY <1>0, <1>16, <3>1, MaybeFaultHaltTypeOK
  <2>11. QED
    BY <2>3, <2>4, <2>5, <2>7, <2>8, <2>9, <2>10
<1>17. ASSUME NEW n \in 0 .. MaxPrimitives, NEW w \in Worlds,
              FaultsMidway(n, w) \/ ReturnsOffContract(n, w)
       PROVE  Goal8
  <2> USE DEF FaultsMidway, ReturnsOffContract
  <2>1. HistoryOK'
    BY <1>0, <1>17, <1>a, <1>b, NoteTypeOK DEF FC
  <2>2. extraExec' \in Nat /\ extraPrim' \in Nat /\ unreported' \in Nat
    BY <1>0, <1>17 DEF FixedOK, ChargeCaseC
  <2>3. UNCHANGED <<config, diagnosed>> /\ Spend(n, w)
    BY <1>17
  <2>4. FixedOK'
    BY <1>0, <2>2, <2>3, SpendTypeOK DEF FixedOK
  <2>5. QED
    BY <1>0, <1>17, <2>1, <2>4, Kept, MaybeFaultHaltTypeOK
<1>18. CASE RefusesTerminal \/ ReturnsRejection
  <2> USE DEF RefusesTerminal, ReturnsRejection
  <2>1. HistoryOK'
    BY <1>0, <1>18, <1>a, <1>b, NoteTypeOK DEF FC
  <2>2. QED
    BY <1>0, <1>18, <2>1, Kept, MaybeFaultHaltTypeOK
<1>19. CASE SettleCharged \/ SettleIdle
  <2> USE DEF SettleCharged, SettleIdle
  <2>1. BookOK'
    BY <1>0, <1>19 DEF BookOK
  <2>2. ControlOK' /\ pc' # "gate"
    BY <1>0, <1>19 DEF ControlOK, Stages
  <2>3. QED
    BY <1>0, <1>19, <2>1, <2>2, Kept, LeaveCycleTypeOK
<1>20. CASE LivenessGuard
  <2>1. BookOK'
    BY <1>0, <1>20 DEF LivenessGuard, BookOK
  <2>2. HistoryOK'
    BY <1>0, <1>20, <1>a, <1>b, NoteTypeOK DEF LivenessGuard, FC
  <2>3. QED
    BY <1>0, <1>20, <1>c, <2>1, <2>2, Kept, LeaveCycleTypeOK, FinishTypeOK
       DEF LivenessGuard
<1>21. CASE UNCHANGED vars
  <2>1. /\ UNCHANGED <<pc, outcome>> /\ UNCHANGED fixedVars /\ UNCHANGED beliefVars
        /\ UNCHANGED cycleVars /\ UNCHANGED adviceVars /\ UNCHANGED nlVars
        /\ UNCHANGED bookVars /\ UNCHANGED historyVars
    BY <1>21 DEF vars
  <2>2. ControlOK' /\ call' = call
    BY <1>0, <2>1 DEF ControlOK, cycleVars
  <2>3. QED
    BY <1>0, <2>1, <2>2, Kept
<1>22. CASE Select
  BY <1>22, <1>8, <1>9, <1>10, <1>11, <1>12, <1>13 DEF Select
<1>23. CASE Attempt
  BY <1>23, <1>16, <1>17, <1>18 DEF Attempt
<1>24. QED
  <2> HIDE DEF Goal8
  <2> QED
    BY <1>1, <1>2, <1>3, <1>4, <1>5, <1>6, <1>7, <1>14, <1>15, <1>19, <1>20, <1>21,
       <1>22, <1>23 DEF Next, Terminated

\* Every variable keeps its type: no count is negative, the standing advice stays
\* a sequence of calls, and every trace entry is well formed.
THEOREM TypeCorrect == Spec => []TypeOK
<1>1. Init => TypeInv
  BY InitTypeOK DEF TypeInv, Init
<1>2. TypeInv => TypeOK
  BY DEF TypeInv
<1>3. QED
  BY <1>1, <1>2, TypeInvStep, PTL DEF Spec

-----------------------------------------------------------------------------
(* Charges: what a step does to the books                                  *)

Working == {"plan", "select", "gate"}

\* A step that reaches no executor moves the loop along its cycle.
FreeStep ==
  /\ UNCHANGED <<world, recExec, recPrim, extraExec, extraPrim, reached, ran,
                 unreported>>
  /\ \/ /\ pc = "sync" /\ pc' = "done"
        /\ UNCHANGED bookVars
     \/ /\ pc = "sync" /\ pc' \in {"settle", "done"}
        /\ Sync /\ before' = Charged
        /\ UNCHANGED <<zero, step>>
     \/ /\ pc = "sync" /\ pc' = "plan" /\ ~BudgetExhausted
        /\ Sync /\ before' = Charged
        /\ UNCHANGED <<zero, step>>
     \/ /\ pc \in Working /\ pc' \in Stages \ {"sync"}
        /\ UNCHANGED bookVars /\ UNCHANGED beliefVars
     \/ /\ pc = "settle" /\ pc' = "sync" /\ Charged # before
        /\ zero' = 0 /\ step' = step + 1
        /\ UNCHANGED before
     \/ /\ pc = "settle" /\ pc' = "sync" /\ Charged = before
        /\ zero < MaxRejections
        /\ zero' = zero + 1 /\ step' = step + 1
        /\ UNCHANGED before
     \/ /\ pc = "settle" /\ pc' = "done" /\ Charged = before
        /\ zero >= MaxRejections
        /\ zero' = zero + 1 /\ step' = step + 1
        /\ UNCHANGED before
     \/ UNCHANGED pc /\ UNCHANGED bookVars /\ UNCHANGED beliefVars

\* An attempt is charged one executive step and at most what it ran.
PaidStep ==
  /\ pc = "gate" /\ pc' \in {"settle", "done"}
  /\ UNCHANGED bookVars
  /\ Charged' = Charged + 1 /\ reached' = reached + 1
  /\ \E n \in 0 .. MaxPrimitives :
       /\ ran' = ran + n
       /\ ChargedPrim' + unreported' = ChargedPrim + unreported + n
       /\ ChargedPrim' <= ChargedPrim + n

LEMMA StepShape == TypeInv /\ [Next]_vars => FreeStep \/ PaidStep
<1> SUFFICES ASSUME TypeInv, [Next]_vars PROVE FreeStep \/ PaidStep
  OBVIOUS
<1>0. /\ recExec \in Nat /\ recPrim \in Nat /\ extraExec \in Nat /\ extraPrim \in Nat
      /\ reached \in Nat /\ ran \in Nat /\ unreported \in Nat /\ pc \in Stages
  BY DEF TypeInv, TypeOK, FixedOK, HistoryOK, ControlOK
<1> DEFINE Books == <<world, recExec, recPrim, extraExec, extraPrim, reached, ran,
                      unreported>>
<1>a. UNCHANGED fixedVars /\ UNCHANGED <<recExec, recPrim>> => UNCHANGED Books
  BY DEF fixedVars, envVars, ghostVars
<1>b. MaybeFaultHalt => pc' \in {"settle", "done"}
  BY DEF MaybeFaultHalt, Finish
<1>c. ASSUME NEW d, NEW f, Note(d, f) PROVE UNCHANGED <<recExec, recPrim>>
  BY <1>c DEF Note
<1>d. UNCHANGED historyVars => UNCHANGED <<recExec, recPrim>>
  BY DEF historyVars
<1> HIDE DEF Books
<1>1. CASE SyncRaises \/ GoalReached \/ BudgetStops
  <2>1. UNCHANGED Books
    BY <1>1, <1>a, <1>d DEF SyncRaises, GoalReached, BudgetStops
  <2>2. pc = "sync" /\ pc' = "done" /\ UNCHANGED bookVars
    BY <1>1 DEF SyncRaises, GoalReached, BudgetStops, Finish
  <2>3. QED
    BY <2>1, <2>2 DEF FreeStep, Books
<1>2. CASE InitialObserveFails
  <2>1. UNCHANGED Books
    BY <1>2, <1>a, <1>c DEF InitialObserveFails
  <2>2. QED
    BY <1>2, <1>b, <2>1 DEF FreeStep, Books, InitialObserveFails
<1>3. CASE StartCycle
  <2>1. UNCHANGED Books
    BY <1>3, <1>a, <1>d DEF StartCycle
  <2>2. QED
    BY <1>3, <2>1 DEF FreeStep, Books, StartCycle
<1>4. CASE PlannerAnswers \/ SelectExecute \/ Replan
  <2> USE DEF PlannerAnswers, SelectExecute, Replan
  <2>1. UNCHANGED Books
    BY <1>4, <1>a, <1>d
  <2>2. /\ pc \in Working /\ pc' \in Stages \ {"sync"}
        /\ UNCHANGED bookVars /\ UNCHANGED beliefVars
    BY <1>4 DEF Working, Stages
  <2>3. QED
    BY <2>1, <2>2 DEF FreeStep, Books
<1>5. CASE \/ PlannerFails \/ ProposalFails \/ RejectionGuard \/ GateUngrounded
           \/ RefusesTerminal \/ ReturnsRejection
  <2> USE DEF PlannerFails, ProposalFails, RejectionGuard, GateUngrounded,
              RefusesTerminal, ReturnsRejection, Admitted
  <2>1. UNCHANGED Books
    BY <1>5, <1>a, <1>c
  <2>2. pc \in Working /\ MaybeFaultHalt
    BY <1>5 DEF Working
  <2>3. UNCHANGED bookVars /\ UNCHANGED beliefVars
    BY <1>5
  <2>4. QED
    BY <2>1, <2>2, <2>3, <1>b DEF FreeStep, Books, Stages
<1>6. CASE \/ HaltNoPlan \/ HaltRepeatedFailure \/ HaltWithoutAdvice
           \/ RequestRecovery \/ GateInapplicable
  <2> USE DEF HaltNoPlan, HaltRepeatedFailure, HaltWithoutAdvice, RequestRecovery,
              GateInapplicable
  <2>1. UNCHANGED Books
    BY <1>6, <1>a, <1>c
  <2>2. pc \in Working /\ pc' \in {"select", "settle", "done"}
    BY <1>6 DEF Working, Finish
  <2>3. UNCHANGED bookVars /\ UNCHANGED beliefVars
    BY <1>6
  <2>4. QED
    BY <2>1, <2>2, <2>3 DEF FreeStep, Books, Stages
<1>7. ASSUME NEW n \in 0 .. MaxPrimitives, NEW w \in Worlds,
             \/ Completes(n, w) \/ CompletesMonitorFails(n, w)
             \/ CompletesObserveFails(n, w) \/ FaultsWithResult(n, w)
      PROVE  PaidStep
  <2> USE DEF Completes, CompletesMonitorFails, CompletesObserveFails,
              FaultsWithResult
  <2>1. recExec' = recExec + 1 /\ recPrim' = recPrim + n
    BY <1>7 DEF NoteExecution
  <2>2. /\ pc = "gate" /\ reached' = reached + 1 /\ ran' = ran + n
        /\ UNCHANGED <<extraExec, extraPrim, unreported>> /\ UNCHANGED bookVars
    BY <1>7 DEF Admitted, Spend
  <2>3. pc' \in {"settle", "done"}
    BY <1>7, <1>b
  <2>4. QED
    BY <1>0, <2>1, <2>2, <2>3 DEF PaidStep, Charged, ChargedPrim
<1>8. ASSUME NEW n \in 0 .. MaxPrimitives, NEW w \in Worlds,
             FaultsMidway(n, w) \/ ReturnsOffContract(n, w)
      PROVE  PaidStep
  <2> USE DEF FaultsMidway, ReturnsOffContract
  <2>1. recExec' = recExec /\ recPrim' = recPrim
    BY <1>8, <1>c
  <2>2. /\ extraExec' = extraExec + 1
        /\ \/ extraPrim' = extraPrim + n /\ unreported' = unreported
           \/ extraPrim' = extraPrim + 0 /\ unreported' = unreported + n
    BY <1>8 DEF ChargeCaseC
  <2>3. /\ pc = "gate" /\ reached' = reached + 1 /\ ran' = ran + n
        /\ UNCHANGED bookVars
    BY <1>8 DEF Admitted, Spend
  <2>4. pc' \in {"settle", "done"}
    BY <1>8, <1>b
  <2>5. QED
    BY <1>0, <2>1, <2>2, <2>3, <2>4 DEF PaidStep, Charged, ChargedPrim
<1>9. CASE SettleCharged \/ SettleIdle
  <2> USE DEF SettleCharged, SettleIdle
  <2>1. UNCHANGED Books
    BY <1>9, <1>a, <1>d
  <2>2. QED
    BY <1>9, <2>1 DEF FreeStep, Books
<1>10. CASE LivenessGuard
  <2>1. UNCHANGED Books
    BY <1>10, <1>a, <1>c DEF LivenessGuard
  <2>2. QED
    BY <1>10, <2>1 DEF FreeStep, Books, LivenessGuard, Finish
<1>11. CASE UNCHANGED vars
  <2>1. /\ UNCHANGED fixedVars /\ UNCHANGED historyVars /\ UNCHANGED pc
        /\ UNCHANGED bookVars /\ UNCHANGED beliefVars
    BY <1>11 DEF vars
  <2>2. QED
    BY <2>1, <1>a, <1>d DEF FreeStep, Books
<1>12. QED
  BY <1>1, <1>2, <1>3, <1>4, <1>5, <1>6, <1>7, <1>8, <1>9, <1>10, <1>11
     DEF Next, Select, Attempt, Terminated

-----------------------------------------------------------------------------
(* The budget                                                              *)

\* Before the attempt of a cycle the books are those the budget test passed;
\* after it they hold at most one more charge.  BudgetHolds alone does not say
\* that a second attempt of the same cycle is impossible.
CycleCharge ==
  /\ pc \in Working =>
       Charged = before /\ before < ExecBudget /\ ChargedPrim < PrimBudget
  /\ pc = "settle" => Charged \in {before, before + 1}

ChargeInv == BudgetHolds /\ ChargedIsSpent /\ CycleCharge

LEMMA BooksAreNat ==
  TypeInv => /\ Charged \in Nat /\ ChargedPrim \in Nat /\ before \in Nat
             /\ reached \in Nat /\ ran \in Nat /\ unreported \in Nat
             /\ zero \in Nat /\ step \in Nat /\ pc \in Stages
  BY DEF TypeInv, TypeOK, FixedOK, HistoryOK, BookOK, ControlOK, Charged, ChargedPrim

LEMMA NatSum == \A a, b \in Nat : a + b \in Nat
  OBVIOUS

LEMMA InitChargeInv == Init => ChargeInv
  BY DEF Init, ChargeInv, BudgetHolds, ChargedIsSpent, CycleCharge, Charged,
         ChargedPrim, Working

LEMMA FreeChargeInv == TypeInv /\ ChargeInv /\ FreeStep => ChargeInv'
<1> SUFFICES ASSUME TypeInv, ChargeInv, FreeStep PROVE ChargeInv'
  OBVIOUS
<1>1. /\ Charged' = Charged /\ ChargedPrim' = ChargedPrim
      /\ reached' = reached /\ ran' = ran /\ unreported' = unreported
  BY DEF FreeStep, Charged, ChargedPrim
<1>2. BudgetHolds' /\ ChargedIsSpent'
  BY <1>1 DEF ChargeInv, BudgetHolds, ChargedIsSpent
<1>3. CycleCharge'
  BY <1>1, BooksAreNat
     DEF FreeStep, ChargeInv, CycleCharge, BudgetExhausted, Working, Stages, bookVars
<1>4. QED
  BY <1>2, <1>3 DEF ChargeInv

LEMMA PaidChargeInv == TypeInv /\ TypeInv' /\ ChargeInv /\ PaidStep => ChargeInv'
<1> SUFFICES ASSUME TypeInv, TypeInv', ChargeInv, PaidStep PROVE ChargeInv'
  OBVIOUS
<1>1. PICK n \in 0 .. MaxPrimitives :
        /\ ran' = ran + n
        /\ ChargedPrim' + unreported' = ChargedPrim + unreported + n
        /\ ChargedPrim' <= ChargedPrim + n
  BY DEF PaidStep
<1>2. Charged = before /\ before < ExecBudget /\ ChargedPrim < PrimBudget
  BY DEF PaidStep, ChargeInv, CycleCharge, Working
<1>3. Charged' = Charged + 1 /\ before' = before /\ reached' = reached + 1
  BY DEF PaidStep, bookVars
<1>4. ChargedIsSpent'
  BY <1>1, <1>3, BooksAreNat DEF ChargeInv, ChargedIsSpent
<1>5. Charged' <= ExecBudget
  BY <1>2, <1>3, BooksAreNat
<1>6. CycleCharge'
  BY <1>2, <1>3, BooksAreNat DEF PaidStep, CycleCharge, Working
<1>7. ChargedPrim' < PrimBudget + MaxPrimitives
  <2>1. ChargedPrim \in Nat
    BY BooksAreNat
  <2>2. ChargedPrim' \in Nat
    <3>1. HistoryOK' /\ FixedOK'
      BY DEF TypeInv, TypeOK
    <3>2. recPrim' \in Nat
      BY <3>1 DEF HistoryOK
    <3>3. extraPrim' \in Nat
      BY <3>1 DEF FixedOK
    <3>4. QED
      BY <3>2, <3>3, NatSum DEF ChargedPrim
  <2>3. QED
    BY <1>1, <1>2, <2>1, <2>2
<1>8. QED
  BY <1>4, <1>5, <1>6, <1>7 DEF ChargeInv, BudgetHolds

LEMMA ChargeInvStep == TypeInv /\ ChargeInv /\ [Next]_vars => ChargeInv'
  BY StepShape, FreeChargeInv, PaidChargeInv, TypeInvStep

LEMMA InitTypeInv == Init => TypeInv
  BY InitTypeOK DEF TypeInv, Init

LEMMA ChargesCorrect == Spec => [](TypeInv /\ ChargeInv)
  BY InitTypeInv, InitChargeInv, TypeInvStep, ChargeInvStep, PTL DEF Spec

\* The executive budget is never exceeded and the primitive budget is overrun by
\* less than one attempt, although budgets are tested between cycles only.
THEOREM BudgetCorrect == Spec => []BudgetHolds
<1>1. ChargeInv => BudgetHolds
  BY DEF ChargeInv
<1>2. QED
  BY <1>1, ChargesCorrect, PTL

\* The three-case rule loses no attempt: what the loop charges is what the
\* environment spent, up to the primitives an off-contract return hides.
THEOREM AccountingCorrect == Spec => []ChargedIsSpent
<1>1. ChargeInv => ChargedIsSpent
  BY DEF ChargeInv
<1>2. QED
  BY <1>1, ChargesCorrect, PTL

-----------------------------------------------------------------------------
(* The belief and the world                                                *)

WorldInv == FreshBelief /\ IdleCycleTouchesNothing

LEMMA WorldInvStep == TypeInv /\ ChargeInv /\ WorldInv /\ [Next]_vars => WorldInv'
<1> SUFFICES ASSUME TypeInv, ChargeInv, WorldInv, [Next]_vars PROVE WorldInv'
  OBVIOUS
<1>1. CASE FreeStep
  <2>1. world' = world /\ Charged' = Charged
    BY <1>1 DEF FreeStep, Charged
  <2>2. FreshBelief'
    BY <1>1, <2>1
       DEF FreeStep, WorldInv, FreshBelief, Sync, Working, beliefVars, Stages
  <2>3. IdleCycleTouchesNothing'
    BY <1>1, <2>1
       DEF FreeStep, WorldInv, FreshBelief, IdleCycleTouchesNothing, Sync, Working,
           beliefVars, bookVars
  <2>4. QED
    BY <2>2, <2>3 DEF WorldInv
<1>2. CASE PaidStep
  <2>1. pc' \in {"settle", "done"}
    BY <1>2 DEF PaidStep
  <2>2. Charged' # before'
    <3>1. Charged = before /\ Charged' = Charged + 1 /\ before' = before
      BY <1>2 DEF PaidStep, bookVars, ChargeInv, CycleCharge, Working
    <3>2. QED
      BY <3>1, BooksAreNat
  <2>3. QED
    BY <2>1, <2>2 DEF WorldInv, FreshBelief, IdleCycleTouchesNothing
<1>3. QED
  BY <1>1, <1>2, StepShape

LEMMA WorldsCorrect == Spec => [](TypeInv /\ ChargeInv /\ WorldInv)
<1>1. Init => WorldInv
  BY DEF Init, WorldInv, FreshBelief, IdleCycleTouchesNothing
<1>2. QED
  BY <1>1, InitTypeInv, InitChargeInv, TypeInvStep, ChargeInvStep, WorldInvStep, PTL
     DEF Spec

\* Planning, selection and both gates always judge the present world, whatever
\* faults the attempts before it died of.
THEOREM FreshnessCorrect == Spec => []FreshBelief
<1>1. WorldInv => FreshBelief
  BY DEF WorldInv
<1>2. QED
  BY <1>1, WorldsCorrect, PTL

\* A cycle without a charge did not change the world.
THEOREM IdleCorrect == Spec => []IdleCycleTouchesNothing
<1>1. WorldInv => IdleCycleTouchesNothing
  BY DEF WorldInv
<1>2. QED
  BY <1>1, WorldsCorrect, PTL

-----------------------------------------------------------------------------
(* The number of cycles                                                    *)

\* A budget of c charges allows this many cycles before the next free one.
Allowance(c) == c * (MaxRejections + 1)

LEMMA AllowanceGrows ==
  ASSUME NEW c \in Nat
  PROVE  /\ Allowance(c) \in Nat
         /\ Allowance(c + 1) = Allowance(c) + MaxRejections + 1
         /\ \A d \in Nat : c <= d => Allowance(c) <= Allowance(d)
<1>1. Allowance(c) \in Nat
  BY DEF Allowance
<1>2. Allowance(c + 1) = Allowance(c) + MaxRejections + 1
  BY DEF Allowance
<1>3. ASSUME NEW d \in Nat, c <= d PROVE Allowance(c) <= Allowance(d)
  <2>1. PICK e \in Nat : d = c + e
    <3>1. d - c \in Nat /\ d = c + (d - c)
      BY <1>3
    <3>2. QED
      BY <3>1
  <2>2. Allowance(d) = Allowance(c) + e * (MaxRejections + 1)
    BY <2>1 DEF Allowance
  <2>3. e * (MaxRejections + 1) \in Nat
    OBVIOUS
  <2>4. QED
    BY <1>1, <2>2, <2>3
<1>4. QED
  BY <1>1, <1>2, <1>3

\* Every completed cycle was paid for or is one of the free ones since the last
\* charge; EpisodeBounded alone says nothing of how the count is made up.
CycleCount ==
  /\ pc # "done" => zero <= MaxRejections
  /\ pc = "sync" => step <= Allowance(Charged) + zero
  /\ pc \in Working \cup {"settle"} => step <= Allowance(before) + zero
  /\ pc = "done" => step <= Allowance(ExecBudget + 1)

LEMMA CycleCountStep ==
  TypeInv /\ ChargeInv /\ CycleCount /\ [Next]_vars => CycleCount'
<1> SUFFICES ASSUME TypeInv, ChargeInv, CycleCount, [Next]_vars PROVE CycleCount'
  OBVIOUS
<1>0. /\ Charged \in Nat /\ before \in Nat /\ zero \in Nat /\ step \in Nat
      /\ Charged <= ExecBudget /\ pc \in Stages /\ pc' \in Stages
  BY BooksAreNat, TypeInvStep DEF ChargeInv, BudgetHolds, TypeInv, TypeOK, ControlOK
<1>a. /\ Allowance(Charged) \in Nat /\ Allowance(before) \in Nat
      /\ Allowance(before + 1) = Allowance(before) + MaxRejections + 1
      /\ Allowance(ExecBudget + 1) = Allowance(ExecBudget) + MaxRejections + 1
      /\ Allowance(ExecBudget) \in Nat
      /\ Allowance(Charged) <= Allowance(ExecBudget)
      /\ before <= ExecBudget => Allowance(before) <= Allowance(ExecBudget)
  BY <1>0, AllowanceGrows
<1>b. pc \in Working \cup {"settle"} => before <= ExecBudget
  BY <1>0 DEF ChargeInv, CycleCharge
<1>1. CASE FreeStep
  <2>1. Charged' = Charged
    BY <1>1 DEF FreeStep, Charged
  <2>2. CASE pc = "sync"
    <3>1. /\ UNCHANGED <<zero, step>>
          /\ \/ pc' = "sync" /\ before' = before
             \/ pc' \in {"plan", "settle"} /\ before' = Charged
             \/ pc' = "done"
      BY <1>1, <2>2 DEF FreeStep, Working, bookVars
    <3>2. QED
      BY <1>0, <1>a, <2>1, <2>2, <3>1 DEF CycleCount, Working
  <2>3. CASE pc \in Working
    <3>1. /\ UNCHANGED <<before, zero, step>> /\ pc' # "sync"
      BY <1>1, <2>3 DEF FreeStep, Working, bookVars
    <3>2. QED
      BY <1>0, <1>a, <1>b, <2>1, <2>3, <3>1 DEF CycleCount, Working, Stages
  <2>4. CASE pc = "settle"
    <3>1. CASE pc' = "settle"
      <4>1. UNCHANGED <<before, zero, step>>
        BY <1>1, <2>4, <3>1 DEF FreeStep, Working, bookVars
      <4>2. QED
        BY <2>1, <2>4, <3>1, <4>1 DEF CycleCount, Working
    <3>2. CASE pc' = "sync" /\ Charged # before
      <4>1. zero' = 0 /\ step' = step + 1 /\ Charged = before + 1
        BY <1>0, <1>1, <2>4, <3>2 DEF FreeStep, Working, ChargeInv, CycleCharge
      <4>2. QED
        BY <1>0, <1>a, <2>1, <2>4, <3>2, <4>1 DEF CycleCount, Working
    <3>3. CASE pc' = "sync" /\ Charged = before
      <4>1. zero' = zero + 1 /\ step' = step + 1 /\ zero < MaxRejections
        BY <1>1, <2>4, <3>3 DEF FreeStep, Working
      <4>2. QED
        BY <1>0, <1>a, <2>1, <2>4, <3>3, <4>1 DEF CycleCount, Working
    <3>4. CASE pc' = "done"
      <4>1. zero' = zero + 1 /\ step' = step + 1
        BY <1>1, <2>4, <3>4 DEF FreeStep, Working
      <4>2. QED
        BY <1>0, <1>a, <1>b, <2>4, <3>4, <4>1 DEF CycleCount, Working
    <3>5. QED
      BY <1>1, <2>4, <3>1, <3>2, <3>3, <3>4 DEF FreeStep, Working
  <2>5. CASE pc = "done"
    <3>1. pc' = "done" /\ step' = step
      BY <1>1, <2>5 DEF FreeStep, Working, bookVars
    <3>2. QED
      BY <2>5, <3>1 DEF CycleCount, Working
  <2>6. QED
    BY <1>0, <2>2, <2>3, <2>4, <2>5 DEF Stages, Working
<1>2. CASE PaidStep
  <2>1. pc = "gate" /\ pc' \in {"settle", "done"} /\ UNCHANGED <<before, zero, step>>
    BY <1>2 DEF PaidStep, bookVars
  <2>2. QED
    BY <1>0, <1>a, <1>b, <2>1 DEF CycleCount, Working
<1>3. QED
  BY <1>1, <1>2, StepShape

\* The number of cycles of an episode is bounded by the two budgets together, so
\* no sequence of answers, faults or refusals keeps the loop busy for ever.
THEOREM BoundCorrect == Spec => []EpisodeBounded
<1>1. Init => CycleCount
  <2>1. Allowance(0) \in Nat
    BY AllowanceGrows
  <2>2. QED
    BY <2>1 DEF Init, CycleCount, Working, Charged
<1>2. TypeInv /\ ChargeInv /\ CycleCount => EpisodeBounded
  <2> SUFFICES ASSUME TypeInv, ChargeInv, CycleCount PROVE EpisodeBounded
    OBVIOUS
  <2>1. /\ Charged \in Nat /\ before \in Nat /\ zero \in Nat /\ step \in Nat
        /\ Charged <= ExecBudget /\ pc \in Stages
        /\ pc \in Working \cup {"settle"} => before <= ExecBudget
    BY BooksAreNat DEF ChargeInv, BudgetHolds, CycleCharge
  <2>2. /\ Allowance(Charged) <= Allowance(ExecBudget)
        /\ before <= ExecBudget => Allowance(before) <= Allowance(ExecBudget)
        /\ Allowance(ExecBudget + 1) = Allowance(ExecBudget) + MaxRejections + 1
        /\ Allowance(ExecBudget) \in Nat /\ Allowance(Charged) \in Nat
        /\ Allowance(before) \in Nat
    BY <2>1, AllowanceGrows
  <2>3. step <= Allowance(ExecBudget + 1)
    BY <2>1, <2>2 DEF CycleCount, Working, Stages
  <2>4. QED
    BY <2>3 DEF EpisodeBounded, Allowance
<1>3. QED
  BY <1>1, <1>2, InitTypeInv, InitChargeInv, TypeInvStep, ChargeInvStep,
     CycleCountStep, PTL DEF Spec

-----------------------------------------------------------------------------
(* The contract of an episode                                              *)

\* Free cycles are counted from zero after a charge.
CountRestarts == pc = "sync" /\ Charged # before => zero = 0

LEMMA CountRestartsStep == CountRestarts /\ TypeInv /\ [Next]_vars => CountRestarts'
<1> SUFFICES ASSUME CountRestarts, TypeInv, [Next]_vars PROVE CountRestarts'
  OBVIOUS
<1>1. CASE FreeStep
  <2>1. Charged' = Charged
    BY <1>1 DEF FreeStep, Charged
  <2>2. QED
    BY <1>1, <2>1 DEF FreeStep, CountRestarts, bookVars, Working
<1>2. CASE PaidStep
  BY <1>2 DEF PaidStep, CountRestarts
<1>3. QED
  BY <1>1, <1>2, StepShape

LEMMA ContractStep ==
  TypeInv /\ ChargeInv /\ CycleCount /\ CountRestarts /\ [Next]_vars
    => [Contract!Next]_(Contract!vars)
<1> SUFFICES ASSUME TypeInv, ChargeInv, CycleCount, CountRestarts, [Next]_vars
             PROVE  [Contract!Next]_(Contract!vars)
  OBVIOUS
<1> DEFINE idle == IF Charged # before THEN 0 ELSE zero
<1> USE DEF Contract!Next, Contract!vars, Contract!Pay, Contract!PassFree,
            Contract!GiveUp, Contract!End
<1>1. CASE FreeStep
  <2>1. Charged' = Charged
    BY <1>1 DEF FreeStep, Charged
  <2>2. CASE pc = "sync"
    <3>1. idle' = idle
      BY <1>1, <2>1, <2>2 DEF FreeStep, CountRestarts, bookVars, Working
    <3>2. QED
      BY <2>1, <2>2, <3>1
  <2>3. CASE pc \in Working
    <3>1. UNCHANGED <<before, zero>>
      BY <1>1, <2>3 DEF FreeStep, bookVars, Working
    <3>2. QED
      BY <2>1, <2>3, <3>1 DEF Working
  <2>4. CASE pc = "settle"
    <3>1. CASE pc' = "settle"
      <4>1. UNCHANGED <<before, zero>>
        BY <1>1, <2>4, <3>1 DEF FreeStep, bookVars, Working
      <4>2. QED
        BY <2>1, <2>4, <3>1, <4>1
    <3>2. CASE pc' = "sync" /\ Charged # before
      <4>1. zero' = 0 /\ before' = before
        BY <1>1, <2>4, <3>2 DEF FreeStep, Working
      <4>2. QED
        BY <2>1, <2>4, <3>2, <4>1
    <3>3. CASE pc' = "sync" /\ Charged = before
      <4>1. zero' = zero + 1 /\ zero < MaxRejections /\ before' = before
        BY <1>1, <2>4, <3>3 DEF FreeStep, Working
      <4>2. QED
        BY <2>1, <2>4, <3>3, <4>1
    <3>4. CASE pc' = "done"
      <4>1. /\ zero' = zero + 1 /\ zero >= MaxRejections /\ zero <= MaxRejections
            /\ before' = before /\ Charged = before
        BY <1>1, <2>4, <3>4 DEF FreeStep, Working, CycleCount
      <4>2. zero = MaxRejections
        BY <4>1, BooksAreNat
      <4>3. QED
        BY <2>1, <2>4, <3>4, <4>1, <4>2
    <3>5. QED
      BY <1>1, <2>4, <3>1, <3>2, <3>3, <3>4 DEF FreeStep, Working
  <2>5. CASE pc = "done"
    <3>1. pc' = "done" /\ UNCHANGED <<before, zero>>
      BY <1>1, <2>5 DEF FreeStep, Working, bookVars
    <3>2. QED
      BY <2>1, <2>5, <3>1
  <2>6. QED
    BY BooksAreNat, <2>2, <2>3, <2>4, <2>5 DEF Stages, Working
<1>2. CASE PaidStep
  <2>1. Charged = before /\ before < ExecBudget
    BY <1>2 DEF PaidStep, ChargeInv, CycleCharge, Working
  <2>2. Charged' = Charged + 1 /\ before' = before /\ pc = "gate"
    BY <1>2 DEF PaidStep, bookVars
  <2>3. Charged' # before'
    BY <2>1, <2>2, BooksAreNat
  <2>4. QED
    BY <2>1, <2>2, <2>3
<1>3. QED
  BY <1>1, <1>2, StepShape

\* Every step of the loop is a step of the abstract episode or none at all: a
\* charge pays one attempt, a free cycle is counted, the last one gives up, and
\* nothing is paid after the end.
THEOREM ContractSafe == Spec => Contract!Safe
<1>1. Init => Contract!Init
  BY DEF Init, Contract!Init, Charged
<1>2. Init => CycleCount /\ CountRestarts
  <2>1. Allowance(0) \in Nat
    BY AllowanceGrows
  <2>2. QED
    BY <2>1 DEF Init, CycleCount, CountRestarts, Working, Charged
<1>3. QED
  BY <1>1, <1>2, InitTypeInv, InitChargeInv, TypeInvStep, ChargeInvStep,
     CycleCountStep, CountRestartsStep, ContractStep, PTL DEF Spec, Contract!Safe

-----------------------------------------------------------------------------
(* Escalation                                                              *)

\* A count grows only with the record of a faultless result, so a step never
\* feeds the repeated-failure channel and the fault channel together.
THEOREM ChannelsExclusive == Spec => OneChannel
<1>1. ASSUME [Next]_vars, fails' # fails
      PROVE  last'.faults = {} /\ extraExec' = extraExec
  <2>1. ~UNCHANGED historyVars /\ ~UNCHANGED vars
    BY <1>1 DEF historyVars, vars
  <2>2. ASSUME NEW d, NEW f PROVE ~Note(d, f)
    BY <1>1 DEF Note
  <2>3. ~Select /\ ~RefusesTerminal /\ ~ReturnsRejection
    BY <2>1, <2>2
       DEF Select, ProposalFails, SelectExecute, HaltNoPlan, HaltRepeatedFailure,
           RequestRecovery, HaltWithoutAdvice, Replan, RejectionGuard,
           RefusesTerminal, ReturnsRejection
  <2>4. Attempt
    BY <1>1, <2>1, <2>2, <2>3
       DEF Next, SyncRaises, InitialObserveFails, GoalReached, BudgetStops,
           StartCycle, PlannerFails, PlannerAnswers, GateUngrounded,
           GateInapplicable, SettleCharged, SettleIdle, LivenessGuard, Terminated
  <2>5. PICK n \in 0 .. MaxPrimitives, w \in Worlds :
          \/ Completes(n, w) \/ CompletesMonitorFails(n, w)
          \/ CompletesObserveFails(n, w) \/ FaultsWithResult(n, w)
    BY <2>2, <2>3, <2>4 DEF Attempt, FaultsMidway, ReturnsOffContract
  <2>6. ASSUME NEW s, NEW f, NoteExecution(s, n, f)
        PROVE  f = {} /\ last'.faults = f
    BY <1>1, <2>6 DEF NoteExecution, FailuresAfter
  <2>7. /\ UNCHANGED extraExec
        /\ \E s, f : NoteExecution(s, n, f)
    BY <2>5 DEF Completes, CompletesMonitorFails, CompletesObserveFails,
                FaultsWithResult
  <2>8. QED
    BY <2>6, <2>7
<1>2. QED
  BY <1>1, PTL DEF Spec, OneChannel

\* What NoUnadvisedRepeat needs: standing advice is the advisory policy's, names
\* only advised calls, and the gate lets a call that is at the threshold through
\* only as the head of that advice.
RepeatInv ==
  /\ NoUnadvisedRepeat
  /\ Standing => config.policy = "advisory_two_track"
  /\ \A i \in 1 .. Len(pending) : pending[i] \in advised
  /\ pc = "gate" =>
       \/ FailureCount(snapshot, call) < Threshold
       \/ Standing /\ call = Head(pending)

LEMMA NatOrder ==
  \A a, b \in Nat : (a >= b <=> ~(a < b)) /\ (a + 1 > b => a >= b) /\ ~(0 > b)
  OBVIOUS

LEMMA RepeatInvStep == TypeInv /\ RepeatInv /\ [Next]_vars => RepeatInv'
<1> SUFFICES ASSUME TypeInv, RepeatInv, [Next]_vars PROVE RepeatInv'
  OBVIOUS
<1>0. /\ BagOK(fails) /\ pending \in Seq(Calls)
      /\ advised \subseteq Calls /\ snapshot \in Worlds
      /\ pc = "gate" => call \in Calls
  BY DEF TypeInv, TypeOK, HistoryOK, AdviceOK, BeliefOK, BagOK
<1>n. \A w, c : FailureCount(w, c) \in Nat /\ FailureCount(w, c) = Count(fails, <<w, c>>)
  BY FailureCountNat DEF TypeInv, TypeOK
<1>t. HistoryOK'
  BY TypeInvStep DEF TypeInv, TypeOK
<1>a. config' = config
  BY DEF Next, Select, Attempt, Terminated, fixedVars, vars, SyncRaises,
         InitialObserveFails, GoalReached, BudgetStops, StartCycle, PlannerFails,
         PlannerAnswers, ProposalFails, SelectExecute, HaltNoPlan,
         HaltRepeatedFailure, RequestRecovery, HaltWithoutAdvice, Replan,
         RejectionGuard, GateUngrounded, GateInapplicable, Completes,
         CompletesMonitorFails, CompletesObserveFails, FaultsWithResult,
         FaultsMidway, ReturnsOffContract, RefusesTerminal, ReturnsRejection,
         SettleCharged, SettleIdle, LivenessGuard
<1>b. MaybeFaultHalt => pc' # "gate"
  BY DEF MaybeFaultHalt, Finish
<1>c. ASSUME NEW d, NEW f, Note(d, f) PROVE UNCHANGED fails
  BY <1>c DEF Note
<1>d. ASSUME pc' # "gate", UNCHANGED fails, UNCHANGED adviceVars PROVE RepeatInv'
  BY <1>a, <1>d DEF RepeatInv, NoUnadvisedRepeat, Standing, adviceVars,
         FailureCount
<1>e. ASSUME pc' # "gate", UNCHANGED fails, UNCHANGED advised, pending' = <<>>
      PROVE  RepeatInv'
  <2>1. Len(pending') = 0 /\ 1 .. 0 = {}
    BY <1>e
  <2>2. \A i \in 1 .. Len(pending') : pending'[i] \in advised'
    BY <2>1
  <2>3. NoUnadvisedRepeat'
    BY <1>a, <1>e DEF RepeatInv, NoUnadvisedRepeat, FailureCount
  <2>4. QED
    BY <1>e, <2>2, <2>3 DEF RepeatInv, Standing
<1>1. CASE \/ SyncRaises \/ GoalReached \/ BudgetStops \/ StartCycle
           \/ PlannerAnswers \/ Replan \/ SettleCharged \/ SettleIdle
  <2>1. pc' # "gate" /\ UNCHANGED fails /\ UNCHANGED adviceVars
    BY <1>1 DEF SyncRaises, GoalReached, BudgetStops, StartCycle, PlannerAnswers,
                Replan, SettleCharged, SettleIdle, Finish, historyVars
  <2>2. QED
    BY <1>d, <2>1
<1>2. CASE \/ InitialObserveFails \/ PlannerFails \/ ProposalFails
           \/ RejectionGuard \/ RefusesTerminal \/ ReturnsRejection
           \/ HaltNoPlan \/ HaltRepeatedFailure \/ HaltWithoutAdvice
           \/ LivenessGuard
  <2>1. pc' # "gate" /\ UNCHANGED fails /\ UNCHANGED adviceVars
    BY <1>2, <1>b, <1>c
       DEF InitialObserveFails, PlannerFails, ProposalFails, RejectionGuard,
           RefusesTerminal, ReturnsRejection, HaltNoPlan, HaltRepeatedFailure,
           HaltWithoutAdvice, LivenessGuard, Finish
  <2>2. QED
    BY <1>d, <2>1
<1>3. CASE GateUngrounded \/ GateInapplicable
  <2>1. pc' # "gate" /\ UNCHANGED fails /\ UNCHANGED advised /\ pending' = <<>>
    BY <1>3, <1>b, <1>c DEF GateUngrounded, GateInapplicable
  <2>2. QED
    BY <1>e, <2>1
<1>4. CASE SelectExecute
  <2>1. UNCHANGED fails /\ UNCHANGED adviceVars /\ snapshot' = snapshot
    BY <1>4 DEF SelectExecute, historyVars, beliefVars
  <2>2. Standing => call' = Head(pending)
    BY <1>4 DEF SelectExecute, Enacted
  <2>3. ~Standing => plan \in Calls /\ call' = plan /\ ~(FailureCount(snapshot, plan) >= Threshold)
    BY <1>4 DEF SelectExecute, Enacted, Route, RouteAt, TypeInv, TypeOK, CycleOK
  <2>4. ~Standing => FailureCount(snapshot, call') < Threshold
    <3>1. ~Standing => FailureCount(snapshot, plan) \in Nat
      BY <1>n
    <3>2. Threshold \in Nat
      OBVIOUS
    <3>3. QED
      BY <2>3, <3>1, <3>2, NatOrder
  <2>5. QED
    BY <1>a, <2>1, <2>2, <2>4 DEF RepeatInv, NoUnadvisedRepeat, Standing, adviceVars,
       FailureCount
<1>5. CASE RequestRecovery
  <2>1. PICK advice \in AdviceFor(plan) \ {<<>>} :
          /\ pending' = advice
          /\ advised' = advised \cup {advice[i] : i \in 1 .. Len(advice)}
    BY <1>5 DEF RequestRecovery
  <2>2. /\ config.policy = "advisory_two_track" /\ pc' = "select"
        /\ UNCHANGED fails
    BY <1>5, <1>c DEF RequestRecovery
  <2>3. \A i \in 1 .. Len(pending') : pending'[i] \in advised'
    BY <2>1
  <2>4. NoUnadvisedRepeat'
    BY <1>a, <2>1, <2>2 DEF RepeatInv, NoUnadvisedRepeat, FailureCount
  <2>5. QED
    BY <1>a, <2>2, <2>3, <2>4 DEF RepeatInv
<1>6. ASSUME NEW n \in 0 .. MaxPrimitives, NEW w \in Worlds,
             \/ Completes(n, w) \/ CompletesMonitorFails(n, w)
             \/ CompletesObserveFails(n, w) \/ FaultsWithResult(n, w)
      PROVE  RepeatInv'
  <2> USE DEF Completes, CompletesMonitorFails, CompletesObserveFails,
              FaultsWithResult
  <2>1. pc = "gate" /\ call \in Calls
    BY <1>0, <1>6 DEF Admitted
  <2>2. pc' # "gate"
    BY <1>6, <1>b
  <2>3. advised' = advised
    BY <1>6 DEF adviceVars
  <2>4. pending' = pending \/ (Standing /\ pending' = Tail(pending))
    BY <1>6 DEF adviceVars
  <2>5. \A i \in 1 .. Len(pending') : pending'[i] \in advised'
    <3>1. CASE pending' = pending
      BY <2>3, <3>1 DEF RepeatInv
    <3>2. CASE Standing /\ pending' = Tail(pending)
      <4>1. ASSUME NEW i \in 1 .. Len(Tail(pending))
            PROVE  i + 1 \in 1 .. Len(pending) /\ Tail(pending)[i] = pending[i + 1]
        BY <1>0, <3>2 DEF Standing
      <4>2. QED
        BY <2>3, <3>2, <4>1 DEF RepeatInv
    <3>3. QED
      BY <2>4, <3>1, <3>2
  <2>6. Standing' => config'.policy = "advisory_two_track"
    BY <1>a, <2>4 DEF RepeatInv, Standing
  <2>7. \/ fails' = fails
        \/ fails' = BagAdd(fails, <<snapshot, call>>)
    BY <1>6 DEF NoteExecution, FailuresAfter
  <2>8. FailureCount(snapshot, call) >= Threshold =>
          config.policy = "advisory_two_track" /\ call \in advised
    <3>1. Standing => Head(pending) = pending[1] /\ 1 \in 1 .. Len(pending)
      BY <1>0 DEF Standing
    <3>2. FailureCount(snapshot, call) \in Nat /\ Threshold \in Nat
      BY <1>n
    <3>3. FailureCount(snapshot, call) >= Threshold => ~(FailureCount(snapshot, call) < Threshold)
      BY <3>2, NatOrder
    <3>4. QED
      BY <2>1, <3>1, <3>3 DEF RepeatInv
  <2>9. NoUnadvisedRepeat'
    <3>1. ASSUME NEW v \in Worlds, NEW c \in Calls, FailureCount(v, c)' > Threshold
          PROVE  config.policy = "advisory_two_track" /\ c \in advised
      <4>1. CASE FailureCount(v, c) > Threshold
        BY <4>1 DEF RepeatInv, NoUnadvisedRepeat
      <4>2. CASE ~(FailureCount(v, c) > Threshold)
        <5>1. v = snapshot /\ c = call /\ FailureCount(v, c)' = FailureCount(v, c) + 1
          <6>1. <<snapshot, call>> \in Worlds \X Calls /\ HistoryOK'
            BY <1>0, <1>t, <2>1
          <6>2. FailureCount(v, c)' = Count(fails', <<v, c>>)
            BY <6>1, FailureCountNat DEF FailureCount, Count
          <6>3. FailureCount(v, c) = Count(fails, <<v, c>>)
            BY <1>n
          <6>4. fails' # fails
            BY <3>1, <4>2, <6>2, <6>3
          <6>5. fails' = BagAdd(fails, <<snapshot, call>>)
            BY <2>7, <6>4
          <6>6. CASE <<v, c>> # <<snapshot, call>>
            BY <1>0, <3>1, <4>2, <6>1, <6>2, <6>3, <6>5, <6>6, BagAddCounts
          <6>7. CASE <<v, c>> = <<snapshot, call>>
            BY <1>0, <6>1, <6>2, <6>3, <6>5, <6>7, BagAddCounts
          <6>8. QED
            BY <6>6, <6>7
        <5>2. FailureCount(snapshot, call) >= Threshold
          <6>1. FailureCount(snapshot, call) \in Nat /\ Threshold \in Nat
            BY <1>n
          <6>2. FailureCount(snapshot, call) + 1 > Threshold
            BY <3>1, <5>1
          <6>3. QED
            BY <6>1, <6>2, NatOrder
        <5>3. QED
          BY <2>8, <5>1, <5>2
      <4>3. QED
        BY <4>1, <4>2
    <3>2. QED
      BY <1>a, <2>3, <3>1 DEF NoUnadvisedRepeat
  <2>10. QED
    BY <2>2, <2>5, <2>6, <2>9 DEF RepeatInv
<1>7. ASSUME NEW n \in 0 .. MaxPrimitives, NEW w \in Worlds,
             FaultsMidway(n, w) \/ ReturnsOffContract(n, w)
      PROVE  RepeatInv'
  <2>1. pc' # "gate" /\ UNCHANGED fails /\ UNCHANGED adviceVars
    BY <1>7, <1>b, <1>c DEF FaultsMidway, ReturnsOffContract
  <2>2. QED
    BY <1>d, <2>1
<1>8. CASE UNCHANGED vars
  <2>1. UNCHANGED <<pc, snapshot, call, fails, pending, advised>>
    BY <1>8 DEF vars, beliefVars, cycleVars, historyVars, adviceVars
  <2>2. QED
    BY <1>a, <2>1 DEF RepeatInv, NoUnadvisedRepeat, Standing, FailureCount
<1>9. QED
  BY <1>1, <1>2, <1>3, <1>4, <1>5, <1>6, <1>7, <1>8
     DEF Next, Select, Attempt, Terminated

\* No call fails more than Threshold times in one world unless the advisory policy
\* consulted recovery about it and the advice named the call.
THEOREM RepeatsAreAdvised == Spec => []NoUnadvisedRepeat
<1>1. Init => RepeatInv
  <2>1. ASSUME Init, NEW w \in Worlds, NEW c \in Calls PROVE ~(FailureCount(w, c) > Threshold)
    <3>1. FailureCount(w, c) = 0
      BY <2>1 DEF Init, FailureCount, BagIn, BagToSet, EmptyBag, SetToBag
    <3>2. Threshold \in Nat
      OBVIOUS
    <3>3. QED
      BY <3>1, <3>2, NatOrder
  <2>2. Init => NoUnadvisedRepeat
    BY <2>1 DEF NoUnadvisedRepeat
  <2>3. Init => pending = <<>> /\ pc = "sync"
    BY DEF Init
  <2>4. QED
    BY <2>2, <2>3 DEF RepeatInv, Standing
<1>2. RepeatInv => NoUnadvisedRepeat
  BY DEF RepeatInv
<1>3. QED
  BY <1>1, <1>2, InitTypeInv, TypeInvStep, RepeatInvStep, PTL DEF Spec

-----------------------------------------------------------------------------
(* What a step does to the record                                          *)

\* No step changes the configuration of the episode.
LEMMA ConfigKept == [Next]_vars => config' = config
BY DEF Next, Select, Attempt, Terminated, fixedVars, vars, SyncRaises,
       InitialObserveFails, GoalReached, BudgetStops, StartCycle, PlannerFails,
       PlannerAnswers, ProposalFails, SelectExecute, HaltNoPlan,
       HaltRepeatedFailure, RequestRecovery, HaltWithoutAdvice, Replan,
       RejectionGuard, GateUngrounded, GateInapplicable, Completes,
       CompletesMonitorFails, CompletesObserveFails, FaultsWithResult,
       FaultsMidway, ReturnsOffContract, RefusesTerminal, ReturnsRejection,
       SettleCharged, SettleIdle, LivenessGuard

\* A step leaves all failure counts alone, or completes an attempt whose failure leaves its
\* discrepancy.
Records ==
  \/ fails' = fails
  \/ pc = "gate" /\ fails' = BagAdd(fails, <<snapshot, call>>) /\ call \in diagnosed'

LEMMA StepRecords == TypeInv /\ [Next]_vars => Records /\ diagnosed \subseteq diagnosed'
<1> SUFFICES ASSUME TypeInv, [Next]_vars PROVE Records /\ diagnosed \subseteq diagnosed'
  OBVIOUS
<1>1. ASSUME NEW n \in 0 .. MaxPrimitives, NEW w \in Worlds, Completes(n, w)
      PROVE  Records /\ diagnosed \subseteq diagnosed'
  <2>1. PICK success \in BOOLEAN, discrepant \in BOOLEAN :
          /\ ~success => discrepant
          /\ fails' = FailuresAfter(success, {})
          /\ diagnosed' = IF discrepant THEN diagnosed \cup {call} ELSE diagnosed
    BY <1>1 DEF Completes, NoteExecution
  <2>2. QED
    BY <1>1, <2>1 DEF Records, FailuresAfter, Completes, Admitted
<1>2. ASSUME NEW n \in 0 .. MaxPrimitives, NEW w \in Worlds,
             \/ CompletesMonitorFails(n, w) \/ CompletesObserveFails(n, w)
             \/ FaultsWithResult(n, w)
      PROVE  fails' = fails /\ diagnosed' = diagnosed
  BY <1>2 DEF CompletesMonitorFails, CompletesObserveFails, FaultsWithResult, NoteExecution,
              FailuresAfter
<1>3. ASSUME NEW n \in 0 .. MaxPrimitives, NEW w \in Worlds,
             FaultsMidway(n, w) \/ ReturnsOffContract(n, w)
      PROVE  fails' = fails /\ diagnosed' = diagnosed
  BY <1>3 DEF FaultsMidway, ReturnsOffContract, Note
<1>4. CASE \/ SyncRaises \/ InitialObserveFails \/ GoalReached \/ BudgetStops \/ StartCycle
           \/ PlannerFails \/ PlannerAnswers \/ Select \/ GateUngrounded
           \/ GateInapplicable \/ RefusesTerminal \/ ReturnsRejection
           \/ SettleCharged \/ SettleIdle \/ LivenessGuard \/ UNCHANGED vars
  BY <1>4 DEF Records, Select, fixedVars, historyVars, vars, Note, SyncRaises,
       InitialObserveFails, GoalReached, BudgetStops, StartCycle, PlannerFails,
       PlannerAnswers, ProposalFails, SelectExecute, HaltNoPlan,
       HaltRepeatedFailure, RequestRecovery, HaltWithoutAdvice, Replan,
       RejectionGuard, GateUngrounded, GateInapplicable, RefusesTerminal,
       ReturnsRejection, SettleCharged, SettleIdle, LivenessGuard
<1>5. QED
  BY <1>1, <1>2, <1>3, <1>4 DEF Records, Next, Attempt, Terminated

\* Failure counts never fall, and one that rises is the present call's.
LEMMA CountsGrow ==
  ASSUME TypeInv, TypeInv', Records, NEW w, NEW c
  PROVE  /\ FailureCount(w, c) \in Nat /\ FailureCount(w, c)' \in Nat
         /\ \/ FailureCount(w, c)' = FailureCount(w, c)
            \/ /\ FailureCount(w, c)' = FailureCount(w, c) + 1
               /\ c = call /\ call \in diagnosed'
<1>0. /\ HistoryOK /\ HistoryOK' /\ BagOK(fails) /\ snapshot \in Worlds
      /\ pc = "gate" => call \in Calls
  BY DEF TypeInv, TypeOK, HistoryOK, BeliefOK, BagOK
<1>1. FailureCount(w, c) \in Nat /\ FailureCount(w, c) = Count(fails, <<w, c>>)
  BY <1>0, FailureCountNat
<1>2. FailureCount(w, c)' \in Nat /\ FailureCount(w, c)' = Count(fails', <<w, c>>)
  <2>1. fails' \in [DOMAIN fails' -> {n \in Nat : n > 0}]
    BY <1>0 DEF HistoryOK, IsABag
  <2>2. QED
    BY <2>1 DEF FailureCount, Count, BagIn, BagToSet
<1>3. CASE fails' = fails
  BY <1>1, <1>2, <1>3
<1>4. CASE pc = "gate" /\ fails' = BagAdd(fails, <<snapshot, call>>) /\ call \in diagnosed'
  <2>1. <<snapshot, call>> \in Worlds \X Calls
    BY <1>0, <1>4
  <2>2. CASE <<w, c>> = <<snapshot, call>>
    BY <1>0, <1>1, <1>2, <1>4, <2>1, <2>2, BagAddCounts
  <2>3. CASE <<w, c>> # <<snapshot, call>>
    BY <1>0, <1>1, <1>2, <1>4, <2>1, <2>3, BagAddCounts
  <2>4. QED
    BY <2>2, <2>3
<1>5. QED
  BY <1>3, <1>4 DEF Records

-----------------------------------------------------------------------------
(* Fail-closed                                                             *)

LEMMA FailClosedStep == FailClosed /\ [Next]_vars => FailClosed'
<1> SUFFICES ASSUME FailClosed, [Next]_vars, config.halt_on_fault, pc' # "done"
             PROVE  last'.faults = {} /\ extraExec' = 0
  BY ConfigKept DEF FailClosed
<1>a. ~MaybeFaultHalt
  BY DEF MaybeFaultHalt, Finish
<1>b. ASSUME NEW o, Finish(o) PROVE FALSE
  BY <1>b DEF Finish
<1>c. ASSUME NEW d, Note(d, {}) PROVE last'.faults = {}
  BY <1>c DEF Note
<1>1. CASE \/ SyncRaises \/ InitialObserveFails \/ GoalReached \/ BudgetStops
           \/ PlannerFails \/ ProposalFails \/ HaltNoPlan \/ HaltRepeatedFailure
           \/ HaltWithoutAdvice \/ RejectionGuard \/ GateUngrounded
           \/ RefusesTerminal \/ ReturnsRejection \/ LivenessGuard
  BY <1>1, <1>a, <1>b DEF SyncRaises, InitialObserveFails, GoalReached, BudgetStops,
     PlannerFails, ProposalFails, HaltNoPlan, HaltRepeatedFailure, HaltWithoutAdvice,
     RejectionGuard, GateUngrounded, RefusesTerminal, ReturnsRejection, LivenessGuard
<1>2. ASSUME NEW n \in 0 .. MaxPrimitives, NEW w \in Worlds,
             \/ CompletesMonitorFails(n, w) \/ CompletesObserveFails(n, w)
             \/ FaultsWithResult(n, w) \/ FaultsMidway(n, w) \/ ReturnsOffContract(n, w)
      PROVE  FALSE
  BY <1>2, <1>a DEF CompletesMonitorFails, CompletesObserveFails, FaultsWithResult,
     FaultsMidway, ReturnsOffContract
<1>3. CASE \/ StartCycle \/ PlannerAnswers \/ SelectExecute \/ Replan
           \/ SettleCharged \/ SettleIdle \/ UNCHANGED vars
  <2>1. pc # "done" /\ UNCHANGED <<last, extraExec>>
    BY <1>3 DEF StartCycle, PlannerAnswers, SelectExecute, Replan, SettleCharged,
       SettleIdle, vars, fixedVars, historyVars
  <2>2. QED
    BY <2>1 DEF FailClosed
<1>4. CASE RequestRecovery \/ GateInapplicable
  <2>1. pc # "done" /\ extraExec' = extraExec /\ last'.faults = {}
    BY <1>4, <1>c DEF RequestRecovery, GateInapplicable, fixedVars
  <2>2. QED
    BY <2>1 DEF FailClosed
<1>5. ASSUME NEW n \in 0 .. MaxPrimitives, NEW w \in Worlds, Completes(n, w)
      PROVE  last'.faults = {} /\ extraExec' = 0
  <2>1. pc # "done" /\ extraExec' = extraExec /\ last'.faults = {}
    BY <1>5 DEF Completes, Admitted, NoteExecution
  <2>2. QED
    BY <2>1 DEF FailClosed
<1>6. QED
  BY <1>1, <1>2, <1>3, <1>4, <1>5 DEF Next, Select, Attempt, Terminated

\* With halt_on_infrastructure_fault no cycle, no call and no charge follows a fault in
\* the record (MaybeFaultHalt on every path, with the liveness guard).
THEOREM FailClosedCorrect == Spec => []FailClosed
<1>1. Init => FailClosed
  BY DEF Init, FailClosed
<1>2. QED
  BY <1>1, FailClosedStep, PTL DEF Spec

-----------------------------------------------------------------------------
(* Advice                                                                  *)

\* Every failure that was counted was admitted and reported, so it left a discrepancy.
FailuresDiagnosed == \A w \in Worlds, c \in Calls : FailureCount(w, c) > 0 => c \in diagnosed

LEMMA FailuresDiagnosedStep ==
  TypeInv /\ FailuresDiagnosed /\ [Next]_vars => FailuresDiagnosed'
<1> SUFFICES ASSUME TypeInv, FailuresDiagnosed, [Next]_vars, NEW w \in Worlds, NEW c \in Calls,
                    FailureCount(w, c)' > 0
             PROVE  c \in diagnosed'
  BY DEF FailuresDiagnosed
<1>1. TypeInv' /\ Records /\ diagnosed \subseteq diagnosed'
  BY TypeInvStep, StepRecords
<1>2. QED
  BY <1>1, CountsGrow DEF FailuresDiagnosed

\* Advice that stands was earned when it was asked for.
Earned == \E w \in Worlds, c \in diagnosed : FailureCount(w, c) >= Threshold

LEMMA EarnedStep == TypeInv /\ Earned /\ [Next]_vars => Earned'
<1> SUFFICES ASSUME TypeInv, Earned, [Next]_vars PROVE Earned'
  OBVIOUS
<1>1. TypeInv' /\ Records /\ diagnosed \subseteq diagnosed'
  BY TypeInvStep, StepRecords
<1>2. PICK w \in Worlds, c \in diagnosed : FailureCount(w, c) >= Threshold
  BY DEF Earned
<1>3. FailureCount(w, c)' >= Threshold
  <2>1. \A a, t \in Nat : a >= t => a + 1 >= t
    OBVIOUS
  <2>2. FailureCount(w, c) \in Nat /\ Threshold \in Nat
    BY <1>1, CountsGrow
  <2>3. QED
    BY <1>1, <1>2, <2>1, <2>2, CountsGrow
<1>4. QED
  BY <1>1, <1>2, <1>3 DEF Earned

\* Advice comes to stand only when a call is escalated.
LEMMA AdviceArises ==
  TypeInv /\ [Next]_vars /\ Standing' => Standing \/ RequestRecovery
<1> SUFFICES ASSUME TypeInv, [Next]_vars, pending' # <<>>, ~RequestRecovery PROVE pending # <<>>
  BY DEF Standing
<1>1. ASSUME NEW n \in 0 .. MaxPrimitives, NEW w \in Worlds,
             \/ Completes(n, w) \/ CompletesMonitorFails(n, w)
             \/ CompletesObserveFails(n, w) \/ FaultsWithResult(n, w)
             \/ FaultsMidway(n, w) \/ ReturnsOffContract(n, w)
      PROVE  pending # <<>>
  BY <1>1 DEF Completes, CompletesMonitorFails, CompletesObserveFails, FaultsWithResult,
              FaultsMidway, ReturnsOffContract, adviceVars, Standing
<1>2. CASE \/ SyncRaises \/ InitialObserveFails \/ GoalReached \/ BudgetStops \/ StartCycle
           \/ PlannerFails \/ PlannerAnswers \/ Select \/ GateUngrounded
           \/ GateInapplicable \/ RefusesTerminal \/ ReturnsRejection
           \/ SettleCharged \/ SettleIdle \/ LivenessGuard \/ UNCHANGED vars
  BY <1>2 DEF Select, adviceVars, vars, SyncRaises,
       InitialObserveFails, GoalReached, BudgetStops, StartCycle, PlannerFails,
       PlannerAnswers, ProposalFails, SelectExecute, HaltNoPlan,
       HaltRepeatedFailure, HaltWithoutAdvice, Replan,
       RejectionGuard, GateUngrounded, GateInapplicable, RefusesTerminal,
       ReturnsRejection, SettleCharged, SettleIdle, LivenessGuard
<1>3. QED
  BY <1>1, <1>2 DEF Next, Attempt, Terminated

LEMMA AdviceIsEarnedStep ==
  TypeInv /\ AdviceIsEarned /\ [Next]_vars => AdviceIsEarned'
<1> SUFFICES ASSUME TypeInv, AdviceIsEarned, [Next]_vars, Standing'
             PROVE  config'.policy = "advisory_two_track" /\ Earned'
  BY DEF AdviceIsEarned, Earned
<1>1. config' = config
  BY ConfigKept
<1>2. CASE Standing
  BY <1>1, <1>2, EarnedStep DEF AdviceIsEarned, Earned
<1>3. CASE RequestRecovery /\ ~Standing
  <2>1. config.policy = "advisory_two_track" /\ Route = "escape" /\ plan \in diagnosed
    BY <1>3 DEF RequestRecovery, AdviceFor
  <2>2. FailureCount(snapshot, plan) >= Threshold
    BY <1>3, <2>1 DEF Route, RouteAt
  <2>3. snapshot \in Worlds
    BY DEF TypeInv, TypeOK, BeliefOK
  <2>4. Earned
    BY <2>1, <2>2, <2>3 DEF Earned
  <2>5. QED
    BY <1>1, <2>1, <2>4, EarnedStep
<1>4. QED
  BY <1>2, <1>3, AdviceArises

\* The symbolic plan is overridden only by advice a diagnosed call has earned by failing
\* Threshold times in one world, and only under the advisory policy.
THEOREM AdviceCorrect == Spec => []AdviceIsEarned
<1>1. Init => AdviceIsEarned
  BY DEF Init, AdviceIsEarned, Standing
<1>2. QED
  BY <1>1, InitTypeInv, TypeInvStep, AdviceIsEarnedStep, PTL DEF Spec

-----------------------------------------------------------------------------
(* Outcomes                                                                *)

\* What OutcomeJustified needs: an episode has an outcome once it is done, and then rests.
OutcomeInv ==
  /\ OutcomeJustified
  /\ FailuresDiagnosed
  /\ pc # "done" <=> outcome = "running"

LEMMA OutcomeInvStep ==
  TypeInv /\ WorldInv /\ OutcomeInv /\ [Next]_vars => OutcomeInv'
<1> SUFFICES ASSUME TypeInv, WorldInv, OutcomeInv, [Next]_vars PROVE OutcomeInv'
  OBVIOUS
<1>0. FailuresDiagnosed'
  BY FailuresDiagnosedStep DEF OutcomeInv
<1>a. ASSUME outcome' = "running", pc' # "done" PROVE OutcomeInv'
  BY <1>0, <1>a DEF OutcomeInv, OutcomeJustified
<1>b. ASSUME pc # "done", MaybeFaultHalt, last'.faults # {} PROVE OutcomeInv'
  BY <1>0, <1>b DEF MaybeFaultHalt, Finish, OutcomeInv, OutcomeJustified
<1>c. ASSUME NEW d, NEW f, Note(d, f) PROVE last'.faults = f
  BY <1>c DEF Note
<1>1. CASE SyncRaises
  BY <1>0, <1>1 DEF SyncRaises, Finish, OutcomeInv, OutcomeJustified
<1>2. CASE GoalReached
  BY <1>0, <1>2 DEF GoalReached, Finish, OutcomeInv, OutcomeJustified, fixedVars, envVars
<1>3. CASE BudgetStops
  <2>1. UNCHANGED <<world, recExec, recPrim, extraExec, extraPrim>>
    BY <1>3 DEF BudgetStops, fixedVars, envVars, historyVars
  <2>2. BudgetExhausted' /\ world' \notin Goal /\ pc' = "done" /\ outcome' = "budget_exhausted"
    BY <1>3, <2>1 DEF BudgetStops, BudgetExhausted, Charged, ChargedPrim, Finish
  <2>3. QED
    BY <1>0, <2>2 DEF OutcomeInv, OutcomeJustified
<1>4. CASE \/ InitialObserveFails \/ PlannerFails \/ ProposalFails \/ RejectionGuard
           \/ GateUngrounded \/ RefusesTerminal \/ ReturnsRejection
  <2>1. pc # "done" /\ MaybeFaultHalt /\ last'.faults # {}
    BY <1>4, <1>c DEF InitialObserveFails, PlannerFails, ProposalFails, RejectionGuard,
       GateUngrounded, RefusesTerminal, ReturnsRejection, Admitted
  <2>2. QED
    BY <1>b, <2>1
<1>5. CASE HaltNoPlan
  BY <1>0, <1>5 DEF HaltNoPlan, Finish, OutcomeInv, OutcomeJustified
<1>6. CASE HaltRepeatedFailure \/ HaltWithoutAdvice
  <2>1. /\ pc = "select" /\ Route = "escape" /\ pc' = "done"
        /\ outcome' = "halted_repeated_failure"
        /\ UNCHANGED <<world, plan, diagnosed, fails>>
    BY <1>6, <1>c DEF HaltRepeatedFailure, HaltWithoutAdvice, Finish, Note, fixedVars,
       envVars, cycleVars
  <2>2. plan \in Calls /\ FailureCount(snapshot, plan) >= Threshold
    BY <2>1 DEF Route, RouteAt, TypeInv, TypeOK, CycleOK
  <2>3. snapshot = world /\ world \in Worlds
    BY <2>1 DEF WorldInv, FreshBelief, TypeInv, TypeOK, FixedOK
  <2>4. FailureCount(world, plan) > 0
    <3>1. FailureCount(world, plan) \in Nat /\ Threshold \in Nat \ {0}
      BY FailureCountNat DEF TypeInv, TypeOK
    <3>2. QED
      BY <2>2, <2>3, <3>1
  <2>5. plan \in diagnosed
    BY <2>2, <2>3, <2>4 DEF OutcomeInv, FailuresDiagnosed
  <2>6. FailureCount(world, plan)' >= Threshold /\ plan' \in diagnosed'
    BY <2>1, <2>2, <2>3, <2>5 DEF FailureCount
  <2>7. QED
    BY <1>0, <2>1, <2>6 DEF OutcomeInv, OutcomeJustified
<1>7. CASE \/ StartCycle \/ PlannerAnswers \/ SelectExecute \/ Replan \/ RequestRecovery
           \/ GateInapplicable \/ SettleCharged \/ SettleIdle
  <2>1. pc # "done" /\ outcome' = outcome /\ pc' # "done"
    BY <1>7 DEF StartCycle, PlannerAnswers, SelectExecute, Replan, RequestRecovery,
       GateInapplicable, SettleCharged, SettleIdle
  <2>2. QED
    BY <1>a, <2>1 DEF OutcomeInv
<1>8. ASSUME NEW n \in 0 .. MaxPrimitives, NEW w \in Worlds, Completes(n, w)
      PROVE  OutcomeInv'
  <2>1. pc # "done" /\ outcome' = outcome /\ pc' # "done"
    BY <1>8 DEF Completes, Admitted
  <2>2. QED
    BY <1>a, <2>1 DEF OutcomeInv
<1>9. ASSUME NEW n \in 0 .. MaxPrimitives, NEW w \in Worlds,
             \/ CompletesMonitorFails(n, w) \/ CompletesObserveFails(n, w)
             \/ FaultsWithResult(n, w) \/ FaultsMidway(n, w) \/ ReturnsOffContract(n, w)
      PROVE  OutcomeInv'
  <2>1. pc # "done" /\ MaybeFaultHalt
    BY <1>9 DEF CompletesMonitorFails, CompletesObserveFails, FaultsWithResult,
       FaultsMidway, ReturnsOffContract, Admitted
  <2>2. \E f \in {{"late"}, {"observe"}, {"late", "observe"}} : last'.faults = f
    BY <1>9, <1>c DEF CompletesMonitorFails, CompletesObserveFails, FaultsWithResult,
       FaultsMidway, ReturnsOffContract, NoteExecution
  <2>3. QED
    BY <1>b, <2>1, <2>2
<1>10. CASE LivenessGuard
  <2>1. last'.faults # {} /\ pc' = "done" /\ outcome' = "faulted"
    BY <1>10, <1>c DEF LivenessGuard, Finish
  <2>2. QED
    BY <1>0, <2>1 DEF OutcomeInv, OutcomeJustified
<1>11. CASE UNCHANGED vars
  <2>1. UNCHANGED <<pc, outcome, world, plan, diagnosed, fails, last, recExec, recPrim,
                    extraExec, extraPrim>>
    BY <1>11 DEF vars, fixedVars, envVars, cycleVars, historyVars
  <2>2. OutcomeJustified'
    BY <2>1 DEF OutcomeInv, OutcomeJustified, BudgetExhausted, Charged, ChargedPrim,
       FailureCount
  <2>3. QED
    BY <1>0, <2>1, <2>2 DEF OutcomeInv
<1>12. QED
  BY <1>1, <1>2, <1>3, <1>4, <1>5, <1>6, <1>7, <1>8, <1>9, <1>10, <1>11
     DEF Next, Select, Attempt, Terminated

\* The outcome run() reports is true of the world and of the record at its end: the goal
\* holds, the budget is spent with the goal open, a fault is on record, or a diagnosed
\* call failed Threshold times in this very world.
THEOREM OutcomeCorrect == Spec => []OutcomeJustified
<1>1. Init => OutcomeInv
  <2>1. ASSUME Init, NEW w \in Worlds, NEW c \in Calls PROVE ~(FailureCount(w, c) > 0)
    BY <2>1 DEF Init, FailureCount, BagIn, BagToSet, EmptyBag, SetToBag
  <2>2. QED
    BY <2>1 DEF Init, OutcomeInv, OutcomeJustified, FailuresDiagnosed
<1>2. OutcomeInv => OutcomeJustified
  BY DEF OutcomeInv
<1>3. Spec => [](TypeInv /\ WorldInv)
  BY WorldsCorrect, PTL
<1>4. QED
  BY <1>1, <1>2, <1>3, OutcomeInvStep, PTL DEF Spec

=============================================================================
