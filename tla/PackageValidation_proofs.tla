----------------------- MODULE PackageValidation_proofs -----------------------
(***************************************************************************)
(* Theorems about PackageValidation for every set of packages, with any    *)
(* number of defects, and every layout.                                    *)
(***************************************************************************)
EXTENDS PackageValidation, FiniteSetTheorems, TLAPS

-----------------------------------------------------------------------------
(* What every check does                                                   *)

\* The order of the checks; a lost report stays where the layout is checked.
Rank ==
  [lookup |-> 0, task |-> 1, services |-> 2, track |-> 3, comparator |-> 4,
   environment |-> 5, reasoning |-> 6, reset |-> 7, observe |-> 8, plan |-> 9,
   ungrounded |-> 10, refusal |-> 11, evaluate |-> 12, predict |-> 13, inapplicable |-> 14,
   primary |-> 15, advisory |-> 16, tracked |-> 17, fill |-> 18, layout |-> 19,
   lazy |-> 20, done |-> 21, lost |-> 19]

Past(s) == Rank[stage] > Rank[s]

LEMMA Ranks ==
  /\ Rank["lookup"] = 0 /\ Rank["task"] = 1 /\ Rank["services"] = 2 /\ Rank["track"] = 3
  /\ Rank["comparator"] = 4 /\ Rank["environment"] = 5 /\ Rank["reasoning"] = 6
  /\ Rank["reset"] = 7 /\ Rank["observe"] = 8 /\ Rank["plan"] = 9 /\ Rank["ungrounded"] = 10
  /\ Rank["refusal"] = 11 /\ Rank["evaluate"] = 12 /\ Rank["predict"] = 13
  /\ Rank["inapplicable"] = 14 /\ Rank["primary"] = 15 /\ Rank["advisory"] = 16
  /\ Rank["tracked"] = 17 /\ Rank["fill"] = 18 /\ Rank["layout"] = 19 /\ Rank["lazy"] = 20
  /\ Rank["done"] = 21 /\ Rank["lost"] = 19
BY DEF Rank

\* The answers of a package, field by field.
Shaped(p) ==
  /\ p.entry \in {"registered", "absent", "foreign", "misnamed"}
  /\ p.task \in {"ok", "lacking"}
  /\ p.services \in {"ok", "raises", "lacking"}
  /\ p.track \in {"ok", "raises", "lacking", "unsyncable"}
  /\ p.comparator \in {"ok", "none", "raises", "lacking"}
  /\ p.environment \in {"ok", "raises", "lacking"}
  /\ p.reasoning \in {"ok", "none", "raises", "lacking"}
  /\ p.reset \in {"ok", "raises", "lacking", "unkeyed", "unstable"}
  /\ p.observe \in {"ok", "raises", "same", "state"}
  /\ p.refusal \in {"ok", "raises", "returns", "untold"}
  /\ p.plan \in {"found", "raises", "untyped", "failure", "none", "empty"}
  /\ p.again \in {"ok", "raises", "other"}
  /\ p.head \in {"ok", "lacking", "identity"}
  /\ p.ground \in {"ok", "raises", "unknown"}
  /\ p.version \in {"ok", "other"}
  /\ p.ungrounded \in {"ok", "none", "raises", "accepted"}
  /\ p.evaluate \in {"ok", "raises", "untyped", "inapplicable", "other"}
  /\ p.predict \in {"ok", "raises", "untyped", "keyless"}
  /\ p.inapplicable \in {"ok", "none", "raises", "ungrounded", "accepted"}
  /\ p.primary \in {"ended", "raises", "untyped", "faulted", "repeated"}
  /\ p.advisory \in {"ended", "raises", "untyped", "faulted", "repeated"}
  /\ p.tracked \in {"ended", "raises", "untyped", "faulted", "repeated"}
  /\ p.recovery \in {"ok", "none"}
  /\ p.door \in {"unlisted", "listed", "garbled"}
  /\ p.lazy \in {"ok", "eager", "broken", "unstarted", "garbled"}
  /\ p.directory \in {"ok", "none"}
  /\ p.text \in {"ok", "unparsable"}
  /\ p.goal \in {"open", "reached"}
  /\ p.layout \subseteq Files \X Targets
  /\ p.reasoning = "none" => p.tracked = "ended"

LEMMA PackagesShaped == \A p \in Packages : Shaped(p)
<1> SUFFICES ASSUME NEW p \in Packages PROVE Shaped(p)
  OBVIOUS
<1>1. \A f \in DOMAIN Shapes : p[f] \in {Sound[f]} \cup Shapes[f]
  BY PackagesAssumption
<1>2. /\ p.layout \subseteq Files \X Targets
      /\ p.reasoning = "none" => p.tracked = "ended"
  BY PackagesAssumption
<1>3. QED
  BY <1>1, <1>2 DEF Shapes, Sound, Shaped

-----------------------------------------------------------------------------
(* A check adds findings and fixtures and takes nothing back               *)

Grows ==
  /\ package' = package
  /\ findings \subseteq findings'
  /\ made \subseteq made'
  /\ blocked # NoCode => blocked' = blocked

LEMMA StepGrows == [Next]_vars => Grows
<1> SUFFICES ASSUME [Next]_vars PROVE Grows
  OBVIOUS
<1>1. CASE Lookup
  BY <1>1 DEF Lookup, Check, Grows
<1>2. CASE CheckTask \/ CheckServices \/ CheckTrack \/ CheckEnvironment
  BY <1>2 DEF CheckTask, CheckServices, CheckTrack, CheckEnvironment, Factory, Check, Grows
<1>3. CASE CheckComparator
  BY <1>3 DEF CheckComparator, Factory, Check, Grows
<1>4. CASE CheckReasoning
  BY <1>4 DEF CheckReasoning, Check, Grows
<1>5. CASE CheckReset \/ CheckObserve \/ CheckRefusal
  BY <1>5 DEF CheckReset, CheckObserve, CheckRefusal, Omit, Check, Grows
<1>6. CASE CheckPlan \/ CheckUngrounded
  BY <1>6 DEF CheckPlan, CheckUngrounded, Omit, Check, Grows
<1>7. CASE CheckEvaluate \/ CheckPredict \/ CheckInapplicable
  BY <1>7 DEF CheckEvaluate, CheckPredict, CheckInapplicable, Omit, Check, Grows
<1>8. CASE CheckPrimary \/ CheckAdvisory \/ CheckTracked
  BY <1>8 DEF CheckPrimary, CheckAdvisory, CheckTracked, Omit, Check, Grows
<1>9. CASE FillMissing
  BY <1>9 DEF FillMissing, Grows
<1>10. CASE CheckLayout \/ CheckLazyBackend
  BY <1>10 DEF CheckLayout, CheckLazyBackend, Lose, Omit, Check, Grows
<1>11. CASE UNCHANGED vars
  BY <1>11 DEF vars, Grows
<1>12. QED
  BY <1>1, <1>2, <1>3, <1>4, <1>5, <1>6, <1>7, <1>8, <1>9, <1>10, <1>11 DEF Next

-----------------------------------------------------------------------------
(* Types                                                                   *)

Statuses == {"PASS", "WARN", "FAIL", "SKIPPED"}

LEMMA CodeTypes ==
  /\ {"DK010", "DK011", "DK012", "DK013", "DK014", "DK015", "DK016", "DK017", "DK018",
      "DK020", "DK030", "DK031", "DK032", "DK040", "DK041", "DK042", "DK043", "DK050",
      "DK051", "DK052", "DK060", "DK070", "DK071", "DK090",
      "DK001", "DK002", "DK080", "DK081", "DK082"} \subseteq AllCodes
  /\ \A c \in AllCodes : /\ Pass(c) \in SUBSET (AllCodes \X Statuses)
                         /\ Warn(c) \in SUBSET (AllCodes \X Statuses)
                         /\ Fail(c) \in SUBSET (AllCodes \X Statuses)
                         /\ Skip(c) \in SUBSET (AllCodes \X Statuses)
BY DEF AllCodes, LibraryCodes, CLICodes, Statuses, Pass, Warn, Fail, Skip

LEMMA StepTypes == TypeOK /\ [Next]_vars => TypeOK'
<1> SUFFICES ASSUME TypeOK, [Next]_vars PROVE TypeOK'
  OBVIOUS
<1> USE CodeTypes DEF Judged, Check, TypeOK, Stages, Statuses
<1>1. CASE Lookup
  BY <1>1 DEF Lookup
<1>2. CASE CheckTask \/ CheckServices \/ CheckTrack \/ CheckEnvironment
  <2>1. CASE CheckTask
    BY <2>1 DEF CheckTask, Factory
  <2>2. CASE CheckServices
    BY <2>2 DEF CheckServices, Factory
  <2>3. CASE CheckTrack
    BY <2>3 DEF CheckTrack, Factory
  <2>4. CASE CheckEnvironment
    BY <2>4 DEF CheckEnvironment, Factory
  <2>5. QED
    BY <1>2, <2>1, <2>2, <2>3, <2>4
<1>3. CASE CheckComparator
  BY <1>3 DEF CheckComparator, Factory
<1>4. CASE CheckReasoning
  BY <1>4 DEF CheckReasoning
<1>5. CASE CheckReset \/ CheckObserve \/ CheckRefusal
  BY <1>5 DEF CheckReset, CheckObserve, CheckRefusal, Omit
<1>6. CASE CheckPlan
  <2>1. PlanFindings \in SUBSET (AllCodes \X Statuses)
    BY DEF PlanFindings, HeadFindings, Again
  <2>2. PlanBlocks \in AllCodes \cup {NoCode}
    BY DEF PlanBlocks
  <2>3. QED
    BY <1>6, <2>1, <2>2 DEF CheckPlan, Omit
<1>7. CASE CheckUngrounded
  BY <1>7 DEF CheckUngrounded, Example
<1>8. CASE CheckEvaluate \/ CheckPredict
  BY <1>8 DEF CheckEvaluate, CheckPredict, Omit
<1>9. CASE CheckInapplicable
  BY <1>9 DEF CheckInapplicable, Omit, Example
<1>10. CASE CheckPrimary \/ CheckAdvisory \/ CheckTracked
  BY <1>10 DEF CheckPrimary, CheckAdvisory, CheckTracked, Omit, Episode
<1>11. CASE FillMissing
  BY <1>11 DEF FillMissing, AllCodes
<1>12. CASE CheckLayout \/ CheckLazyBackend
  <2>1. ASSUME NEW here, Lose(here) PROVE TypeOK'
    BY <2>1 DEF Lose, Omit
  <2>2. CASE CheckLayout
    BY <2>1, <2>2 DEF CheckLayout
  <2>3. CASE CheckLazyBackend
    BY <2>1, <2>3 DEF CheckLazyBackend
  <2>4. QED
    BY <1>12, <2>2, <2>3
<1>13. CASE UNCHANGED vars
  BY <1>13 DEF vars
<1>14. QED
  BY <1>1, <1>2, <1>3, <1>4, <1>5, <1>6, <1>7, <1>8, <1>9, <1>10, <1>11, <1>12, <1>13 DEF Next

\* The stages of each check.
Order ==
  /\ Lookup => stage = "lookup" /\ stage' \in {"task", "done"}
  /\ Lookup /\ package.entry \notin {"absent", "foreign"} => stage' = "task"
  /\ CheckTask => stage = "task" /\ stage' = "services"
  /\ CheckServices => stage = "services" /\ stage' = "track"
  /\ CheckTrack => stage = "track" /\ stage' = "comparator"
  /\ CheckComparator => stage = "comparator" /\ stage' = "environment"
  /\ CheckEnvironment => stage = "environment" /\ stage' = "reasoning"
  /\ CheckReasoning => stage = "reasoning" /\ stage' = "reset"
  /\ CheckReset => stage = "reset" /\ stage' = "observe"
  /\ CheckObserve => stage = "observe" /\ stage' = "plan"
  /\ CheckPlan => stage = "plan" /\ stage' \in {"ungrounded", "refusal"}
  /\ CheckUngrounded => stage = "ungrounded" /\ stage' = "refusal"
  /\ CheckRefusal => stage = "refusal" /\ stage' = "evaluate"
  /\ CheckEvaluate => stage = "evaluate" /\ stage' \in {"predict", "inapplicable"}
  /\ CheckPredict => stage = "predict" /\ stage' = "inapplicable"
  /\ CheckInapplicable => stage = "inapplicable" /\ stage' = "primary"
  /\ CheckPrimary => stage = "primary" /\ stage' \in {"advisory", "fill"}
  /\ CheckAdvisory => stage = "advisory" /\ stage' = "tracked"
  /\ CheckTracked => stage = "tracked" /\ stage' = "fill"
  /\ FillMissing => stage = "fill" /\ stage' = "layout"
  /\ CheckLayout => stage = "layout" /\ stage' \in {"lazy", "lost"}
  /\ CheckLazyBackend => stage = "lazy" /\ stage' \in {"done", "lost"}

LEMMA ChecksOrdered == Order
<1>1. /\ Lookup => stage = "lookup" /\ stage' \in {"task", "done"}
      /\ Lookup /\ package.entry \notin {"absent", "foreign"} => stage' = "task"
      /\ CheckTask => stage = "task" /\ stage' = "services"
      /\ CheckServices => stage = "services" /\ stage' = "track"
      /\ CheckTrack => stage = "track" /\ stage' = "comparator"
      /\ CheckComparator => stage = "comparator" /\ stage' = "environment"
      /\ CheckEnvironment => stage = "environment" /\ stage' = "reasoning"
      /\ CheckReasoning => stage = "reasoning" /\ stage' = "reset"
  BY DEF Lookup, CheckTask, CheckServices, CheckTrack, CheckComparator, CheckEnvironment,
         CheckReasoning, Factory, Check
<1>2. /\ CheckReset => stage = "reset" /\ stage' = "observe"
      /\ CheckObserve => stage = "observe" /\ stage' = "plan"
      /\ CheckPlan => stage = "plan" /\ stage' \in {"ungrounded", "refusal"}
      /\ CheckUngrounded => stage = "ungrounded" /\ stage' = "refusal"
      /\ CheckRefusal => stage = "refusal" /\ stage' = "evaluate"
      /\ CheckEvaluate => stage = "evaluate" /\ stage' \in {"predict", "inapplicable"}
      /\ CheckPredict => stage = "predict" /\ stage' = "inapplicable"
  BY DEF CheckReset, CheckObserve, CheckPlan, CheckUngrounded, CheckRefusal, CheckEvaluate,
         CheckPredict, Omit, Check
<1>3. /\ CheckInapplicable => stage = "inapplicable" /\ stage' = "primary"
      /\ CheckPrimary => stage = "primary" /\ stage' \in {"advisory", "fill"}
      /\ CheckAdvisory => stage = "advisory" /\ stage' = "tracked"
      /\ CheckTracked => stage = "tracked" /\ stage' = "fill"
      /\ FillMissing => stage = "fill" /\ stage' = "layout"
      /\ CheckLayout => stage = "layout" /\ stage' \in {"lazy", "lost"}
      /\ CheckLazyBackend => stage = "lazy" /\ stage' \in {"done", "lost"}
  BY DEF CheckInapplicable, CheckPrimary, CheckAdvisory, CheckTracked, FillMissing, CheckLayout,
         CheckLazyBackend, Lose, Omit, Check
<1>4. QED
  BY <1>1, <1>2, <1>3 DEF Order

\* A stage of a found package is passed by its own check, or by the one that omits it.
LEMMA PassedBy ==
  ASSUME [Next]_vars, package.entry \notin {"absent", "foreign"}
  PROVE  /\ Past("services")' => Past("services") \/ CheckServices
         /\ Past("track")' => Past("track") \/ CheckTrack
         /\ Past("environment")' => Past("environment") \/ CheckEnvironment
         /\ Past("reasoning")' => Past("reasoning") \/ CheckReasoning
         /\ Past("tracked")' => \/ Past("tracked") \/ CheckTracked
                                \/ CheckPrimary /\ stage' = "fill"
BY ChecksOrdered, Ranks DEF Order, Past, Next, vars

-----------------------------------------------------------------------------
(* The first broken contract is among the failures                         *)

Named(code) == code # NoCode => <<code, "FAIL">> \in findings

BlockInv == Named(blocked) /\ Named(reason)

LEMMA CheckBlocks ==
  ASSUME BlockInv, NEW here, NEW there, NEW found, NEW blocks, NEW fixtures,
         Check(here, there, found, blocks, fixtures),
         blocks # NoCode => <<blocks, "FAIL">> \in found
  PROVE  BlockInv'
BY DEF Check, BlockInv, Named

LEMMA BlockStep == BlockInv /\ [Next]_vars => BlockInv'
<1> SUFFICES ASSUME BlockInv, [Next]_vars PROVE BlockInv'
  OBVIOUS
<1> USE DEF Check, BlockInv, Named, Fail
<1>1. CASE Lookup
  BY <1>1 DEF Lookup
<1>2. CASE CheckTask \/ CheckServices \/ CheckTrack \/ CheckEnvironment
  BY <1>2 DEF CheckTask, CheckServices, CheckTrack, CheckEnvironment, Factory, Judged
<1>3. CASE CheckComparator
  BY <1>3 DEF CheckComparator, Factory, Judged
<1>4. CASE CheckReasoning
  BY <1>4 DEF CheckReasoning, Judged
<1>5. CASE CheckReset \/ CheckObserve \/ CheckRefusal
  BY <1>5 DEF CheckReset, CheckObserve, CheckRefusal, Omit
<1>6. CASE CheckPlan
  <2>1. PlanBlocks # NoCode => <<PlanBlocks, "FAIL">> \in PlanFindings
    <3>1. CASE package.track = "unsyncable" \/ package.plan \notin {"untyped", "found"}
      BY <3>1 DEF PlanBlocks
    <3>2. CASE package.track # "unsyncable" /\ package.plan = "untyped"
      BY <3>2 DEF PlanBlocks, PlanFindings
    <3>3. CASE package.track # "unsyncable" /\ package.plan = "found"
      <4>1. PlanFindings = Pass("DK040") \cup HeadFindings
        BY <3>3 DEF PlanFindings
      <4>2. package.head = "lacking" => HeadFindings = Fail("DK016")
        BY DEF HeadFindings
      <4>3. package.head = "identity" => HeadFindings = Pass("DK016") \cup Fail("DK018")
        BY DEF HeadFindings
      <4>4. QED
        BY <3>3, <4>1, <4>2, <4>3 DEF PlanBlocks
    <3>4. QED
      BY <3>1, <3>2, <3>3
  <2>2. QED
    BY <1>6, <2>1 DEF CheckPlan, Omit
<1>7. CASE CheckUngrounded \/ CheckPredict \/ CheckInapplicable
  BY <1>7 DEF CheckUngrounded, CheckPredict, CheckInapplicable, Omit
<1>8. CASE CheckEvaluate
  BY <1>8 DEF CheckEvaluate, Omit, Judged
<1>9. CASE CheckPrimary \/ CheckAdvisory \/ CheckTracked
  BY <1>9 DEF CheckPrimary, CheckAdvisory, CheckTracked, Omit
<1>10. CASE FillMissing
  BY <1>10 DEF FillMissing
<1>11. CASE CheckLayout \/ CheckLazyBackend
  BY <1>11 DEF CheckLayout, CheckLazyBackend, Lose, Omit
<1>12. CASE UNCHANGED vars
  BY <1>12 DEF vars
<1>13. QED
  BY <1>1, <1>2, <1>3, <1>4, <1>5, <1>6, <1>7, <1>8, <1>9, <1>10, <1>11, <1>12 DEF Next

-----------------------------------------------------------------------------
(* What a check that found no fault has shown of the package               *)

Told(code) == \E f \in findings : f[1] = code

\* What check s, when it found no fault, shows of the package, reports and leaves behind.
Shows(s) ==
  /\ s = "lookup" => package.entry = "registered" /\ Told("DK001") /\ Told("DK002")
  /\ s = "task" => package.task = "ok" /\ Told("DK014")
  /\ s = "services" => package.services = "ok" /\ "services" \in made /\ Told("DK010")
  /\ s = "track" =>
       package.track \in {"ok", "unsyncable"} /\ "track" \in made /\ Told("DK011")
  /\ s = "comparator" => package.comparator \in {"ok", "none"} /\ Told("DK012")
  /\ s = "environment" => package.environment = "ok" /\ "environment" \in made /\ Told("DK013")
  /\ s = "reasoning" => package.reasoning \in {"ok", "none"} /\ Told("DK017") /\ Told("DK020")
  /\ s = "reset" => package.reset = "ok" /\ "state" \in made /\ Told("DK015") /\ Told("DK030")
  /\ s = "observe" => package.observe = "ok" /\ Told("DK031")
  /\ s = "plan" =>
       /\ package.track = "ok" /\ package.again = "ok" /\ Told("DK040") /\ Told("DK042")
       /\ \/ package.plan \in {"none", "empty"} /\ <<"DK041", "WARN">> \in findings
          \/ /\ package.plan = "found" /\ "head" \in made
             /\ package.head = "ok" /\ package.ground = "ok" /\ package.version = "ok"
             /\ Told("DK016") /\ Told("DK018") /\ Told("DK041") /\ Told("DK090")
  /\ s = "ungrounded" => package.ungrounded \in {"ok", "none"} /\ Told("DK043")
  /\ s = "refusal" /\ package.plan = "found" => package.refusal = "ok" /\ Told("DK032")
  /\ s = "evaluate" /\ package.plan = "found" =>
       package.evaluate = "ok" /\ Told("DK050") /\ Told("DK051")
  /\ s = "predict" /\ package.plan = "found" =>
       package.predict \in {"ok", "keyless"} /\ Told("DK060")
  /\ s = "inapplicable" => package.inapplicable \in {"ok", "none"} /\ Told("DK052")
  /\ s = "primary" => package.primary \in {"ended", "repeated"} /\ Told("DK070")
  /\ s = "advisory" => package.advisory \in {"ended", "repeated"}
  /\ s = "tracked" => package.tracked \in {"ended", "repeated"} /\ Told("DK071")
  /\ s = "lazy" => package.directory = "none" \/ package.lazy \in {"ok", "unstarted"}

Faultless == \A f \in findings : f[2] # "FAIL"

CleanInv == Faultless => blocked = NoCode /\ \A s \in Stages : Past(s) => Shows(s)

LEMMA ShowsStays == \A s : Grows /\ Shows(s) => Shows(s)'
<1> SUFFICES ASSUME NEW s, Grows, Shows(s) PROVE Shows(s)'
  OBVIOUS
<1>1. \A code : Told(code) => Told(code)'
  BY DEF Told, Grows
<1>2. QED
  BY <1>1 DEF Shows, Grows


\* What a step to a report without a FAIL has found.
LEMMA Verdicts ==
  \A c : /\ Fail(c) \subseteq findings' => ~Faultless'
         /\ \/ Pass(c) \subseteq findings' \/ Warn(c) \subseteq findings'
            \/ Skip(c) \subseteq findings'
            => Told(c)'
<1> SUFFICES ASSUME NEW c
             PROVE  /\ Fail(c) \subseteq findings' => ~Faultless'
                    /\ \/ Pass(c) \subseteq findings' \/ Warn(c) \subseteq findings'
                       \/ Skip(c) \subseteq findings'
                       => Told(c)'
  OBVIOUS
<1>1. /\ <<c, "FAIL">>[2] = "FAIL" /\ <<c, "PASS">>[1] = c /\ <<c, "WARN">>[1] = c
      /\ <<c, "SKIPPED">>[1] = c
  OBVIOUS
<1>2. QED
  BY <1>1 DEF Fail, Pass, Warn, Skip, Faultless, Told

LEMMA CleanStep == TypeOK /\ CleanInv /\ [Next]_vars => CleanInv'
<1> SUFFICES ASSUME TypeOK, CleanInv, [Next]_vars PROVE CleanInv'
  OBVIOUS
<1>1. Grows
  BY StepGrows
<1>2. /\ package \in Packages /\ Shaped(package)
      /\ Faultless' => Faultless
      /\ Faultless' => blocked = NoCode
      /\ Faultless' => \A s \in Stages : Past(s) => Shows(s)
  BY <1>1, PackagesShaped DEF TypeOK, CleanInv, Faultless, Grows
<1>a. CASE Lookup
  <2>1. Faultless' => Shows("lookup")' /\ stage' = "task"
    BY <1>a, Verdicts DEF Lookup, Check, Judged, Shows
  <2>2. Faultless' => blocked' = blocked
    BY <1>a DEF Lookup, Check
  <2>3. Faultless' => \A s \in Stages : Past(s)' => Past(s) \/ s = "lookup"
    BY <2>1, Ranks DEF Past, Stages
  <2>4. QED
    BY <1>1, <1>2, <2>1, <2>2, <2>3, ShowsStays DEF CleanInv
<1>b. CASE CheckTask
  <2>1. Faultless' => Shows("task")' /\ blocked' = blocked
    BY <1>2, <1>b, Verdicts DEF CheckTask, Factory, Check, Judged, Shaped, Shows
  <2>2. stage = "task" /\ stage' = "services"
    BY <1>b DEF CheckTask, Factory, Check, Judged, Pass, Fail, Shaped
  <2>3. QED
    BY <1>1, <1>2, <2>1, <2>2, ShowsStays, Ranks DEF CleanInv, Past, Stages
<1>c. CASE CheckServices
  <2>1. Faultless' => Shows("services")' /\ blocked' = blocked
    BY <1>2, <1>c, Verdicts DEF CheckServices, Factory, Check, Judged, Shaped, Shows
  <2>2. stage = "services" /\ stage' = "track"
    BY <1>c DEF CheckServices, Factory, Check, Judged, Pass, Fail, Shaped
  <2>3. QED
    BY <1>1, <1>2, <2>1, <2>2, ShowsStays, Ranks DEF CleanInv, Past, Stages
<1>d. CASE CheckTrack
  <2>1. Faultless' => Shows("track")' /\ blocked' = blocked
    BY <1>2, <1>d, Verdicts DEF CheckTrack, Factory, Check, Judged, Shaped, Shows
  <2>2. stage = "track" /\ stage' = "comparator"
    BY <1>d DEF CheckTrack, Factory, Check, Judged, Pass, Fail, Shaped
  <2>3. QED
    BY <1>1, <1>2, <2>1, <2>2, ShowsStays, Ranks DEF CleanInv, Past, Stages
<1>e. CASE CheckComparator
  <2>1. Faultless' => Shows("comparator")' /\ blocked' = blocked
    BY <1>2, <1>e, Verdicts DEF CheckComparator, Factory, Check, Judged, Shaped, Shows
  <2>2. stage = "comparator" /\ stage' = "environment"
    BY <1>e DEF CheckComparator, Factory, Check, Judged, Pass, Fail, Skip, Shaped
  <2>3. QED
    BY <1>1, <1>2, <2>1, <2>2, ShowsStays, Ranks DEF CleanInv, Past, Stages
<1>f. CASE CheckEnvironment
  <2>1. Faultless' => Shows("environment")' /\ blocked' = blocked
    BY <1>2, <1>f, Verdicts DEF CheckEnvironment, Factory, Check, Judged, Shaped, Shows
  <2>2. stage = "environment" /\ stage' = "reasoning"
    BY <1>f DEF CheckEnvironment, Factory, Check, Judged, Pass, Fail, Shaped
  <2>3. QED
    BY <1>1, <1>2, <2>1, <2>2, ShowsStays, Ranks DEF CleanInv, Past, Stages
<1>g. CASE CheckReasoning
  <2>1. Faultless' => Shows("reasoning")' /\ blocked' = blocked
    BY <1>2, <1>g, Verdicts DEF CheckReasoning, Check, Judged, Shaped, Shows
  <2>2. stage = "reasoning" /\ stage' = "reset"
    BY <1>g DEF CheckReasoning, Check, Judged, Pass, Fail, Skip, Shaped
  <2>3. QED
    BY <1>1, <1>2, <2>1, <2>2, ShowsStays, Ranks DEF CleanInv, Past, Stages
<1>j. CASE CheckUngrounded
  <2>1. Faultless' => Shows("ungrounded")' /\ blocked' = blocked
    BY <1>2, <1>j, Verdicts DEF CheckUngrounded, Check, Example, Judged, Shows
  <2>2. stage = "ungrounded" /\ stage' = "refusal"
    BY <1>j DEF CheckUngrounded, Check, Example, Judged, Warn, Pass, Fail
  <2>3. QED
    BY <1>1, <1>2, <2>1, <2>2, ShowsStays, Ranks DEF CleanInv, Past, Stages
<1>p. CASE CheckAdvisory
  <2>1. Faultless' => Shows("advisory")' /\ blocked' = blocked
    BY <1>2, <1>p, Verdicts DEF CheckAdvisory, Check, Episode, Shaped, Shows
  <2>2. stage = "advisory" /\ stage' = "tracked"
    BY <1>p DEF CheckAdvisory, Check, Episode, Warn, Pass, Fail, Shaped
  <2>3. QED
    BY <1>1, <1>2, <2>1, <2>2, ShowsStays, Ranks DEF CleanInv, Past, Stages
<1>q. CASE CheckTracked
  <2>1. Faultless' => Shows("tracked")' /\ blocked' = blocked
    BY <1>2, <1>q, Verdicts DEF CheckTracked, Check, Episode, Shaped, Shows
  <2>2. stage = "tracked" /\ stage' = "fill"
    BY <1>q DEF CheckTracked, Check, Episode, Warn, Pass, Fail, Skip, Shaped
  <2>3. QED
    BY <1>1, <1>2, <2>1, <2>2, ShowsStays, Ranks DEF CleanInv, Past, Stages
<1>s. CASE CheckPredict
  <2>1. Faultless' => Shows("predict")' /\ blocked' = blocked
    BY <1>2, <1>s, Verdicts DEF CheckPredict, Check, Judged, Shows
  <2>2. stage = "predict" /\ stage' = "inapplicable"
    BY <1>s DEF CheckPredict, Check, Judged, Warn, Pass, Fail
  <2>3. QED
    BY <1>1, <1>2, <2>1, <2>2, ShowsStays, Ranks DEF CleanInv, Past, Stages
<1>h. CASE CheckReset
  <2>1. stage = "reset"
    BY <1>h DEF CheckReset, Omit, Check
  <2>2. Faultless' => "environment" \in made /\ blocked # "DK013"
    BY <1>2, <2>1, Ranks, NoCodeAssumption
    DEF Past, Stages, Shows, AllCodes, LibraryCodes
  <2>3. Faultless' => Shows("reset")' /\ blocked' = blocked /\ stage' = "observe"
    BY <1>2, <1>h, <2>2, Verdicts DEF CheckReset, Check, Judged, Shaped, Shows
  <2>4. QED
    BY <1>1, <1>2, <2>1, <2>3, ShowsStays, Ranks DEF CleanInv, Past, Stages
<1>i. CASE CheckObserve
  <2>1. stage = "observe"
    BY <1>i DEF CheckObserve, Omit, Check
  <2>2. Faultless' => "state" \in made
    BY <1>2, <2>1, Ranks DEF Past, Stages, Shows
  <2>3. Faultless' => Shows("observe")' /\ blocked' = blocked /\ stage' = "plan"
    BY <1>2, <1>i, <2>2, Verdicts DEF CheckObserve, Check, Judged, Shows
  <2>4. QED
    BY <1>1, <1>2, <2>1, <2>3, ShowsStays, Ranks DEF CleanInv, Past, Stages
<1>k. CASE CheckPlan
  <2>1. stage = "plan"
    BY <1>k DEF CheckPlan, Omit, Check
  <2>2. Faultless' => {"services", "track", "state"} \subseteq made
    BY <1>2, <2>1, Ranks DEF Past, Stages, Shows
  <2> SUFFICES ASSUME Faultless'
               PROVE  Shows("plan")' /\ blocked' = blocked /\ stage' = "ungrounded"
    BY <1>1, <1>2, <2>1, ShowsStays, Ranks DEF CleanInv, Past, Stages
  <2>3. /\ PlanFindings \subseteq findings' /\ stage' = "ungrounded" /\ blocked' = PlanBlocks
        /\ <<"DK041", "PASS">> \in PlanFindings => "head" \in made'
    BY <1>2, <1>k, <2>2 DEF CheckPlan, Check
  <2>4. /\ package.track # "unsyncable" /\ package.plan \notin {"raises", "untyped"}
        /\ Told("DK040")'
    BY <2>3, Verdicts DEF PlanFindings
  <2>5. package.track = "ok"
    BY <1>2, <2>1, <2>4, Ranks DEF Past, Stages, Shows
  <2>6. CASE package.plan = "found"
    <3>1. HeadFindings \subseteq PlanFindings
      BY <2>4, <2>6 DEF PlanFindings
    <3>2. package.head = "ok"
      BY <1>2, <2>3, <3>1, Verdicts DEF HeadFindings, Shaped
    <3> DEFINE rest == CASE package.ground = "raises"  -> Fail("DK040")
                         [] package.ground = "unknown" -> Fail("DK041")
                         [] OTHER -> Pass("DK041") \cup Judged("DK090", package.version = "ok")
    <3>3. Pass("DK016") \cup Pass("DK018") \cup Again(rest) \subseteq findings'
      BY <2>3, <3>1, <3>2 DEF HeadFindings
    <3>4. Told("DK016")' /\ Told("DK018")'
      BY <3>3, Verdicts
    <3>5. package.again = "ok" /\ Told("DK042")' /\ rest \subseteq findings'
      <4> HIDE DEF rest
      <4>1. QED
        BY <1>2, <3>3, Verdicts DEF Again, Judged, Shaped
    <3>6. package.ground = "ok"
      BY <1>2, <3>5, Verdicts DEF Shaped
    <3>7. package.version = "ok" /\ Told("DK041")' /\ Told("DK090")'
      BY <1>2, <3>5, <3>6, Verdicts DEF Judged, Shaped
    <3>8. <<"DK041", "PASS">> \in PlanFindings
      BY <3>1, <3>2, <3>5, <3>6 DEF HeadFindings, Again, Pass
    <3>9. PlanBlocks = NoCode
      BY <2>4, <2>6, <3>2 DEF PlanBlocks
    <3>10. QED
      BY <1>1, <1>2, <2>3, <2>4, <2>5, <2>6, <3>2, <3>4, <3>5, <3>6, <3>7, <3>8, <3>9
      DEF Shows, Grows
  <2>7. CASE package.plan # "found"
    <3>1. package.plan \in {"none", "empty"}
      BY <1>2, <2>3, <2>4, <2>7, Verdicts DEF PlanFindings, Shaped
    <3>2. Again(Warn("DK041")) \subseteq findings'
      BY <2>3, <2>4, <3>1 DEF PlanFindings
    <3>3. package.again = "ok" /\ Told("DK042")' /\ <<"DK041", "WARN">> \in findings'
      BY <1>2, <3>2, Verdicts DEF Again, Judged, Shaped, Warn
    <3>4. PlanBlocks = NoCode
      BY <2>4, <3>1 DEF PlanBlocks
    <3>5. QED
      BY <1>1, <1>2, <2>3, <2>4, <2>5, <3>1, <3>3, <3>4 DEF Shows, Grows
  <2>8. QED
    BY <2>6, <2>7
<1>l. CASE CheckRefusal
  <2>1. stage = "refusal" /\ stage' = "evaluate" /\ blocked' = blocked
    BY <1>l DEF CheckRefusal, Omit, Check
  <2>2. Faultless' /\ package.plan = "found" => "head" \in made
    BY <1>2, <2>1, Ranks DEF Past, Stages, Shows
  <2>3. Faultless' => Shows("refusal")'
    BY <1>1, <1>l, <2>2, Verdicts DEF CheckRefusal, Check, Judged, Shows, Grows
  <2>4. QED
    BY <1>1, <1>2, <2>1, <2>3, ShowsStays, Ranks DEF CleanInv, Past, Stages
<1>m. CASE CheckEvaluate
  <2>1. stage = "evaluate"
    BY <1>m DEF CheckEvaluate, Omit, Check
  <2>2. Faultless' /\ package.plan = "found" => "head" \in made
    BY <1>2, <2>1, Ranks DEF Past, Stages, Shows
  <2>3. CASE "head" \in made
    <3>1. Faultless' => Shows("evaluate")' /\ blocked' = blocked /\ stage' = "predict"
      BY <1>2, <1>m, <2>3, Verdicts DEF CheckEvaluate, Check, Judged, Shaped, Shows
    <3>2. QED
      BY <1>1, <1>2, <2>1, <3>1, ShowsStays, Ranks DEF CleanInv, Past, Stages
  <2>4. CASE "head" \notin made
    <3>1. blocked' = blocked /\ stage' = "inapplicable"
      BY <1>m, <2>4 DEF CheckEvaluate, Omit, Check
    <3>2. Faultless' => Shows("evaluate")' /\ Shows("predict")'
      BY <1>1, <2>2, <2>4 DEF Shows, Grows
    <3>3. QED
      BY <1>1, <1>2, <2>1, <3>1, <3>2, ShowsStays, Ranks DEF CleanInv, Past, Stages
  <2>5. QED
    BY <2>3, <2>4
<1>n. CASE CheckInapplicable
  <2>1. stage = "inapplicable"
    BY <1>n DEF CheckInapplicable, Omit, Check
  <2>2. Faultless' => {"services", "track", "state"} \subseteq made /\ package.track = "ok"
    BY <1>2, <2>1, Ranks DEF Past, Stages, Shows
  <2>3. Faultless' => Shows("inapplicable")' /\ blocked' = blocked /\ stage' = "primary"
    BY <1>2, <1>n, <2>2, Verdicts DEF CheckInapplicable, Check, Example, Judged, Shows
  <2>4. QED
    BY <1>1, <1>2, <2>1, <2>3, ShowsStays, Ranks DEF CleanInv, Past, Stages
<1>o. CASE CheckPrimary
  <2>1. stage = "primary"
    BY <1>o DEF CheckPrimary, Omit, Check
  <2>2. Faultless' => Executable
    BY <1>2, <2>1, Ranks DEF Past, Stages, Shows, Executable
  <2>3. Faultless' => Shows("primary")' /\ blocked' = blocked /\ stage' = "advisory"
    BY <1>2, <1>o, <2>2, Verdicts DEF CheckPrimary, Check, Episode, Shaped, Shows
  <2>4. QED
    BY <1>1, <1>2, <2>1, <2>3, ShowsStays, Ranks DEF CleanInv, Past, Stages
<1>r. CASE FillMissing \/ CheckLayout
  <2>1. /\ \/ stage = "fill" /\ stage' = "layout"
           \/ stage = "layout" /\ stage' \in {"lazy", "lost"}
        /\ blocked' = blocked
    BY <1>r DEF FillMissing, CheckLayout, Lose, Omit, Check
  <2>2. Shows("fill")' /\ Shows("layout")' /\ Shows("lost")'
    BY DEF Shows
  <2>3. QED
    BY <1>1, <1>2, <2>1, <2>2, ShowsStays, Ranks DEF CleanInv, Past, Stages
<1>t. CASE CheckLazyBackend
  <2>1. stage = "lazy" /\ blocked' = blocked
    BY <1>t DEF CheckLazyBackend, Lose, Omit, Check
  <2>2. CASE stage' = "lost"
    BY <1>1, <1>2, <2>1, <2>2, ShowsStays, Ranks DEF CleanInv, Past, Stages
  <2>3. CASE stage' # "lost"
    <3>1. stage' = "done" /\ (Faultless' => Shows("lazy")')
      BY <1>2, <1>t, <2>3, Verdicts
      DEF CheckLazyBackend, Lose, Omit, Check, Judged, Shaped, Shows
    <3>2. QED
      BY <1>1, <1>2, <2>1, <3>1, ShowsStays, Ranks DEF CleanInv, Past, Stages
  <2>4. QED
    BY <2>2, <2>3
<1>u. CASE UNCHANGED vars
  <2>1. Faultless' => blocked' = blocked /\ stage' = stage
    BY <1>u DEF vars
  <2>2. QED
    BY <1>1, <1>2, <2>1, ShowsStays DEF CleanInv, Past
<1> QED
  BY <1>a, <1>b, <1>c, <1>d, <1>e, <1>f, <1>g, <1>h, <1>i, <1>j, <1>k, <1>l, <1>m, <1>n, <1>o,
     <1>p, <1>q, <1>r, <1>s, <1>t, <1>u DEF Next

-----------------------------------------------------------------------------
(* Skipped checks                                                          *)

\* Findings of the checks between the registry and the completion of the report: nothing
\* of the layout, and nothing skipped that is not optional.
Regular(found) ==
  \A f \in found : f[1] # "DK080" /\ (f[2] = "SKIPPED" => f[1] \in Optional)

LEMMA RegularFindings ==
  /\ \A c : c # "DK080" => Regular(Pass(c)) /\ Regular(Warn(c)) /\ Regular(Fail(c))
  /\ \A c \in Optional : Regular(Skip(c))
  /\ \A f, g : Regular(f) /\ Regular(g) => Regular(f \cup g)
  /\ Regular({})
<1>1. ASSUME NEW c PROVE /\ <<c, "FAIL">>[2] = "FAIL" /\ <<c, "FAIL">>[1] = c
                         /\ <<c, "PASS">>[2] = "PASS" /\ <<c, "PASS">>[1] = c
                         /\ <<c, "WARN">>[2] = "WARN" /\ <<c, "WARN">>[1] = c
                         /\ <<c, "SKIPPED">>[2] = "SKIPPED" /\ <<c, "SKIPPED">>[1] = c
  OBVIOUS
<1>2. QED
  BY <1>1 DEF Regular, Pass, Warn, Fail, Skip, Optional

\* A step of one of these checks, from a stage of theirs to another or to the completion.
RegularStep ==
  /\ stage \notin {"lookup", "fill", "layout", "lazy", "done", "lost"}
  /\ stage' \notin {"lookup", "layout", "lazy", "done", "lost"}
  /\ Regular(findings' \ findings)
  /\ UNCHANGED reason

LEMMA CheckRegular ==
  ASSUME NEW here, NEW there, NEW found, NEW blocks, NEW fixtures,
         Check(here, there, found, blocks, fixtures),
         here \notin {"lookup", "fill", "layout", "lazy", "done", "lost"},
         there \notin {"lookup", "layout", "lazy", "done", "lost"},
         Regular(found)
  PROVE  RegularStep
BY DEF Check, RegularStep, Regular

LEMMA Steps ==
  [Next]_vars =>
    Lookup \/ FillMissing \/ CheckLayout \/ CheckLazyBackend \/ UNCHANGED vars \/ RegularStep
<1> USE RegularFindings, CheckRegular
<1>1. CheckTask \/ CheckServices \/ CheckTrack \/ CheckEnvironment => RegularStep
  BY DEF CheckTask, CheckServices, CheckTrack, CheckEnvironment, Factory, Judged
<1>2. CheckComparator => RegularStep
  BY DEF CheckComparator, Factory, Judged, Optional
<1>3. CheckReasoning => RegularStep
  BY DEF CheckReasoning, Judged, Optional
<1>4. CheckReset => RegularStep
  BY DEF CheckReset, Omit, Judged
<1>5. CheckObserve \/ CheckRefusal => RegularStep
  BY DEF CheckObserve, CheckRefusal, Omit, Judged
<1>6. CheckPlan => RegularStep
  <2>1. Regular(PlanFindings)
    <3> DEFINE rest == CASE package.ground = "raises"  -> Fail("DK040")
                         [] package.ground = "unknown" -> Fail("DK041")
                         [] OTHER -> Pass("DK041") \cup Judged("DK090", package.version = "ok")
    <3>1. Regular(rest)
      BY DEF Judged
    <3> HIDE DEF rest
    <3>2. Regular(Again(rest)) /\ Regular(Again(Warn("DK041")))
      BY <3>1 DEF Again, Judged
    <3>3. Regular(HeadFindings)
      BY <3>2 DEF HeadFindings, rest
    <3>4. QED
      BY <3>2, <3>3 DEF PlanFindings
  <2>2. QED
    BY <2>1 DEF CheckPlan, Omit
<1>7. CheckUngrounded \/ CheckPredict => RegularStep
  BY DEF CheckUngrounded, CheckPredict, Example, Judged
<1>8. CheckEvaluate => RegularStep
  BY DEF CheckEvaluate, Omit, Judged
<1>9. CheckInapplicable => RegularStep
  BY DEF CheckInapplicable, Omit, Example, Judged
<1>10. CheckPrimary \/ CheckAdvisory \/ CheckTracked => RegularStep
  BY DEF CheckPrimary, CheckAdvisory, CheckTracked, Omit, Episode, Optional
<1>11. QED
  BY <1>1, <1>2, <1>3, <1>4, <1>5, <1>6, <1>7, <1>8, <1>9, <1>10 DEF Next

\* Every code is reported by the check that owns it or, the library's, at the end.
ToldInv ==
  package.entry \notin {"absent", "foreign"} =>
    /\ Past("lookup") => Told("DK001") /\ Told("DK002")
    /\ Past("fill") => \A c \in LibraryCodes : Told(c)
    /\ Past("layout") => Told("DK080") /\ Told("DK081")
    /\ Past("lazy") => Told("DK082")

LEMMA ToldStep == TypeOK /\ ToldInv /\ [Next]_vars => ToldInv'
<1> SUFFICES ASSUME TypeOK, ToldInv, [Next]_vars PROVE ToldInv'
  OBVIOUS
<1>1. Grows /\ TypeOK' /\ \A c : Told(c) => Told(c)'
  BY StepGrows, StepTypes DEF Grows, Told
<1>2. \A c : Fail(c) \subseteq findings' => Told(c)'
  <2>1. \A c : <<c, "FAIL">>[1] = c
    OBVIOUS
  <2>2. QED
    BY <2>1 DEF Fail, Told
<1>3. CASE Lookup
  <2>1. stage = "lookup" /\ (package.entry \notin {"absent", "foreign"} => stage' = "task")
    BY <1>3 DEF Lookup, Check
  <2>2. package.entry \notin {"absent", "foreign"} => Told("DK001")' /\ Told("DK002")'
    BY <1>2, <1>3, Verdicts DEF Lookup, Check, Judged
  <2>3. QED
    BY <1>1, <2>1, <2>2, Ranks DEF ToldInv, Past, Grows
<1>4. CASE FillMissing
  <2>1. stage = "fill" /\ stage' = "layout"
    BY <1>4 DEF FillMissing
  <2>2. ASSUME NEW c \in LibraryCodes PROVE Told(c)'
    <3>1. <<c, "SKIPPED">>[1] = c
      OBVIOUS
    <3>2. CASE c \in {f[1] : f \in findings}
      BY <1>1, <3>2 DEF Told
    <3>3. CASE c \notin {f[1] : f \in findings}
      BY <1>4, <3>1, <3>3 DEF FillMissing, Told
    <3>4. QED
      BY <3>2, <3>3
  <2>3. QED
    BY <1>1, <2>1, <2>2, Ranks DEF ToldInv, Past, Grows
<1>5. CASE CheckLayout
  <2>1. stage = "layout" /\ stage' \in {"lazy", "lost"}
    BY <1>5, ChecksOrdered DEF Order
  <2>2. stage' = "lazy" => Told("DK080")' /\ Told("DK081")'
    BY <1>2, <1>5, Verdicts DEF CheckLayout, Lose, Omit, Check, Judged
  <2>3. QED
    BY <1>1, <2>1, <2>2, Ranks DEF ToldInv, Past, Grows
<1>6. CASE CheckLazyBackend
  <2>1. stage = "lazy" /\ stage' \in {"done", "lost"}
    BY <1>6, ChecksOrdered DEF Order
  <2>2. stage' = "done" => Told("DK082")'
    BY <1>2, <1>6, Verdicts DEF CheckLazyBackend, Lose, Omit, Check, Judged
  <2>3. QED
    BY <1>1, <2>1, <2>2, Ranks DEF ToldInv, Past, Grows
<1>7. CASE UNCHANGED vars
  BY <1>1, <1>7 DEF vars, ToldInv, Past
<1>8. CASE RegularStep
  BY <1>1, <1>8, Ranks DEF RegularStep, TypeOK, Stages, ToldInv, Past, Grows
<1>9. QED
  BY <1>3, <1>4, <1>5, <1>6, <1>7, <1>8, Steps

\* As long as no check fails and there is a plan, only an optional check is skipped.
SkipInv ==
  Faultless /\ <<"DK041", "WARN">> \notin findings =>
    \A f \in findings : f[2] = "SKIPPED" => f[1] \in Optional \cup CLICodes

LEMMA SkipStep == TypeOK /\ CleanInv /\ SkipInv /\ [Next]_vars => SkipInv'
<1> SUFFICES ASSUME TypeOK, CleanInv, SkipInv, [Next]_vars,
                    Faultless', <<"DK041", "WARN">> \notin findings',
                    NEW f \in findings', f[2] = "SKIPPED"
             PROVE  f[1] \in Optional \cup CLICodes
  BY DEF SkipInv
<1>1. Grows
  BY StepGrows
<1>2. CASE f \in findings
  BY <1>1, <1>2 DEF SkipInv, Faultless, Grows
<1>3. CASE f \notin findings
  <2>1. \A c : /\ <<c, "FAIL">>[2] = "FAIL" /\ <<c, "PASS">>[2] = "PASS"
               /\ <<c, "SKIPPED">>[1] = c
    OBVIOUS
  <2>2. CASE Lookup
    BY <1>3, <2>1, <2>2 DEF Lookup, Check, Judged, Pass, Fail
  <2>3. CASE FillMissing
    <3>1. stage = "fill"
      BY <2>3 DEF FillMissing
    <3>2. \A s \in Stages : Past(s) => Shows(s)
      BY <1>1 DEF CleanInv, Faultless, Grows
    <3>3. package.plan = "found"
      BY <1>1, <3>1, <3>2, Ranks DEF Past, Stages, Shows, Grows
    <3>4. \A c \in LibraryCodes : Told(c)
      BY <3>1, <3>2, <3>3, Ranks DEF Past, Stages, Shows, LibraryCodes
    <3>5. \A c \in LibraryCodes : c \in {g[1] : g \in findings}
      BY <3>4 DEF Told
    <3>6. QED
      BY <1>3, <2>3, <3>5 DEF FillMissing
  <2>4. CASE CheckLayout
    BY <1>3, <2>1, <2>4 DEF CheckLayout, Lose, Omit, Check, Judged, Pass, Fail, Skip, CLICodes
  <2>5. CASE CheckLazyBackend
    BY <1>3, <2>1, <2>5
    DEF CheckLazyBackend, Lose, Omit, Check, Judged, Pass, Fail, Skip, CLICodes
  <2>6. CASE UNCHANGED vars
    BY <1>3, <2>6 DEF vars
  <2>7. CASE RegularStep
    BY <1>3, <2>7 DEF RegularStep, Regular
  <2>8. QED
    BY <2>2, <2>3, <2>4, <2>5, <2>6, <2>7, Steps
<1>4. QED
  BY <1>2, <1>3

-----------------------------------------------------------------------------
(* The seal of the layout                                                  *)

\* What a symbolic file may come to import as long as it does not name __init__.py.
Inner == Symbolic \cup {"stdlib", "shared"}

LEMMA InnerStays ==
  ASSUME NEW layout \in SUBSET (Files \X Targets), Problems(layout) = {},
         NEW seen, seen \subseteq Inner, "__init__" \notin Further(layout, seen)
  PROVE  Further(layout, seen) \subseteq Inner
<1> SUFFICES ASSUME NEW x \in layout, x[1] \in seen PROVE x[2] \in Inner
  BY DEF Further
<1>1. x[2] # "__init__"
  BY DEF Further
<1>2. x[1] \in Files /\ x[2] \in Targets /\ x[1] \in Inner
  OBVIOUS
<1>3. x[1] \in Symbolic
  BY <1>2 DEF Inner, Files
<1>4. ~Banned(x[1], x[2])
  BY DEF Problems
<1>5. ~Composes(x[1]) /\ ~Binds(x[1])
  BY <1>3 DEF Symbolic, Composes, Binds
<1>6. /\ x[2] \notin {"dynamic", "never", "backend", "composition", "package", "domains",
                      "third_party", "environment"}
  BY <1>4, <1>5 DEF Banned, SiblingBanned, Files
<1>7. QED
  BY <1>1, <1>2, <1>6 DEF Inner, Symbolic, Files, Targets, Outside

LEMMA LayoutSealsFiles ==
  ASSUME NEW layout \in SUBSET (Files \X Targets), Problems(layout) = {},
         NEW file \in Symbolic
  PROVE  "__init__" \in Brings(layout, file) \/ Brings(layout, file) \subseteq Inner
<1> DEFINE one   == Further(layout, {file})
           two   == Further(layout, one)
           three == Further(layout, two)
           four  == Further(layout, three)
<1>1. Brings(layout, file) = four \ {file}
  BY DEF Brings
<1>2. file # "__init__" /\ {file} \subseteq Inner
  BY DEF Symbolic, Inner
<1>3. one \subseteq two /\ two \subseteq three /\ three \subseteq four
  BY DEF Further
<1> HIDE DEF four, three, two
<1>4. SUFFICES ASSUME "__init__" \notin four PROVE four \subseteq Inner
  BY <1>1, <1>2
<1>5. one \subseteq Inner
  BY <1>2, <1>3, <1>4, InnerStays
<1> HIDE DEF one
<1>6. two \subseteq Inner
  BY <1>3, <1>4, <1>5, InnerStays DEF two
<1>7. three \subseteq Inner
  BY <1>3, <1>4, <1>6, InnerStays DEF three
<1>8. QED
  BY <1>4, <1>7, InnerStays DEF four

\* DK080 passes only when no import is banned.
SealInv == <<"DK080", "PASS">> \in findings => Problems(package.layout) = {}

LEMMA SealStep == SealInv /\ [Next]_vars => SealInv'
<1> SUFFICES ASSUME SealInv, [Next]_vars, <<"DK080", "PASS">> \in findings',
                    <<"DK080", "PASS">> \notin findings
             PROVE  Problems(package.layout) = {}
  BY StepGrows DEF SealInv, Grows
<1>1. CASE Lookup
  BY <1>1 DEF Lookup, Check, Judged, Pass, Fail
<1>2. CASE FillMissing
  BY <1>2 DEF FillMissing
<1>3. CASE CheckLayout
  BY <1>3 DEF CheckLayout, Lose, Omit, Check, Judged, Pass, Fail, Skip
<1>4. CASE CheckLazyBackend
  BY <1>4 DEF CheckLazyBackend, Lose, Omit, Check, Judged, Pass, Fail, Skip
<1>5. CASE UNCHANGED vars
  BY <1>5 DEF vars
<1>6. CASE RegularStep
  <2>1. <<"DK080", "PASS">>[1] = "DK080"
    OBVIOUS
  <2>2. QED
    BY <1>6, <2>1 DEF RegularStep, Regular
<1>7. QED
  BY <1>1, <1>2, <1>3, <1>4, <1>5, <1>6, Steps

-----------------------------------------------------------------------------
(* Which defect a failure is due to                                        *)

\* The check that meets defect d, and the later ones that meet it again.
Meets(d, code) ==
  \/ d = "entry"       /\ code = "DK002"
  \/ d = "task"        /\ code = "DK014"
  \/ d = "services"    /\ \/ code = "DK010"
                          \/ code = "DK052" /\ package.services = "raises"
  \/ d = "track"       /\ IF package.track = "unsyncable"
                          THEN code \in {"DK040", "DK052", "DK070", "DK071"}
                          ELSE code = "DK011"
  \/ d = "comparator"  /\ \/ code = "DK012"
                          \/ code \in {"DK070", "DK071"} /\ package.comparator = "raises"
  \/ d = "environment" /\ code = "DK013"
  \/ d = "reasoning"   /\ \/ code = "DK017"
                          \/ code = "DK071" /\ package.reasoning = "raises"
  \/ d = "reset"       /\ \/ code = "DK015" /\ package.reset = "lacking"
                          \/ code = "DK030" /\ package.reset # "lacking"
                          \/ code \in {"DK070", "DK071"} /\ package.reset = "raises"
  \/ d = "observe"     /\ code = "DK031"
  \/ d = "refusal"     /\ code = "DK032"
  \/ d = "plan"        /\ \/ code = IF package.plan = "failure" THEN "DK041" ELSE "DK040"
                          \/ code \in {"DK070", "DK071"}
  \/ d = "again"       /\ code = IF package.again = "raises" THEN "DK040" ELSE "DK042"
  \/ d = "head"        /\ code = IF package.head = "lacking" THEN "DK016" ELSE "DK018"
  \/ d = "ground"      /\ \/ code = IF package.ground = "raises" THEN "DK040" ELSE "DK041"
                          \/ code \in {"DK070", "DK071"}
  \/ d = "version"     /\ code = "DK090"
  \/ d = "ungrounded"  /\ code = "DK043"
  \/ d = "evaluate"    /\ \/ code = IF package.evaluate \in {"raises", "untyped"} THEN "DK050"
                                    ELSE "DK051"
                          \/ code \in {"DK070", "DK071"}
  \/ d = "predict"     /\ code \in {"DK060", "DK070", "DK071"}
  \/ d = "inapplicable" /\ code = "DK052"
  \/ d \in {"primary", "advisory"} /\ code = "DK070"
  \/ d = "tracked"     /\ code = "DK071"
  \/ d = "lazy"        /\ code = "DK082"

\* Each failure of a found package whose imports are allowed is due to one of its defects.
BlameInv ==
  package.entry \notin {"absent", "foreign"} /\ package.layout = {} =>
    \A f \in findings : f[2] = "FAIL" => \E d \in Defects : Meets(d, f[1])

\* The defects, field by field.
DefectsAre ==
  \A d : d \in Defects <=>
    \/ d = "entry" /\ package.entry # "registered"
    \/ d = "task" /\ package.task # "ok"
    \/ d = "services" /\ package.services # "ok"
    \/ d = "track" /\ package.track # "ok"
    \/ d = "comparator" /\ package.comparator \notin {"ok", "none"}
    \/ d = "environment" /\ package.environment # "ok"
    \/ d = "reasoning" /\ package.reasoning \notin {"ok", "none"}
    \/ d = "reset" /\ package.reset # "ok"
    \/ d = "observe" /\ package.observe # "ok"
    \/ d = "refusal" /\ package.refusal # "ok"
    \/ d = "plan" /\ package.plan \notin {"found", "none"}
    \/ d = "again" /\ package.again # "ok"
    \/ d = "head" /\ package.head # "ok"
    \/ d = "ground" /\ package.ground # "ok"
    \/ d = "version" /\ package.version # "ok"
    \/ d = "ungrounded" /\ package.ungrounded \notin {"ok", "none"}
    \/ d = "evaluate" /\ package.evaluate # "ok"
    \/ d = "predict" /\ package.predict \notin {"ok", "keyless"}
    \/ d = "inapplicable" /\ package.inapplicable \notin {"ok", "none"}
    \/ d = "primary" /\ package.primary \notin {"ended", "repeated"}
    \/ d = "advisory" /\ package.advisory \notin {"ended", "repeated"}
    \/ d = "tracked" /\ package.tracked \notin {"ended", "repeated"}
    \/ d = "lazy" /\ package.lazy \notin {"ok", "unstarted"} /\ package.directory # "none"

LEMMA DefectsFields == TypeOK => DefectsAre
<1> SUFFICES ASSUME package \in Packages, Shaped(package) PROVE DefectsAre
  BY PackagesShaped DEF TypeOK
<1> DEFINE Fields == DOMAIN Sound \ {"layout", "door", "recovery", "directory", "text", "goal"}
           Wrong(f) == /\ package[f] # Sound[f]
                       /\ package[f] \notin {"none", "repeated", "unstarted", "keyless"}
                       /\ f = "lazy" => package.directory # "none"
<1>1. \A d : d \in Defects <=> d \in Fields /\ Wrong(d)
  BY DEF Defects
<1>2. Fields = {"entry", "task", "services", "track", "comparator", "environment", "reasoning",
                "reset", "observe", "refusal", "plan", "again", "head", "ground", "version",
                "ungrounded", "evaluate", "predict", "inapplicable", "primary", "advisory",
                "tracked", "lazy"}
  BY DEF Sound
<1>3. /\ Wrong("entry") <=> package.entry # "registered"
      /\ Wrong("task") <=> package.task # "ok"
      /\ Wrong("services") <=> package.services # "ok"
      /\ Wrong("track") <=> package.track # "ok"
      /\ Wrong("comparator") <=> package.comparator \notin {"ok", "none"}
      /\ Wrong("environment") <=> package.environment # "ok"
      /\ Wrong("reasoning") <=> package.reasoning \notin {"ok", "none"}
      /\ Wrong("reset") <=> package.reset # "ok"
      /\ Wrong("observe") <=> package.observe # "ok"
      /\ Wrong("refusal") <=> package.refusal # "ok"
      /\ Wrong("plan") <=> package.plan \notin {"found", "none"}
      /\ Wrong("again") <=> package.again # "ok"
  BY DEF Sound, Shaped
<1>4. /\ Wrong("head") <=> package.head # "ok"
      /\ Wrong("ground") <=> package.ground # "ok"
      /\ Wrong("version") <=> package.version # "ok"
      /\ Wrong("ungrounded") <=> package.ungrounded \notin {"ok", "none"}
      /\ Wrong("evaluate") <=> package.evaluate # "ok"
      /\ Wrong("predict") <=> package.predict \notin {"ok", "keyless"}
      /\ Wrong("inapplicable") <=> package.inapplicable \notin {"ok", "none"}
      /\ Wrong("primary") <=> package.primary \notin {"ended", "repeated"}
      /\ Wrong("advisory") <=> package.advisory \notin {"ended", "repeated"}
      /\ Wrong("tracked") <=> package.tracked \notin {"ended", "repeated"}
      /\ Wrong("lazy") <=> package.lazy \notin {"ok", "unstarted"} /\ package.directory # "none"
  BY DEF Sound, Shaped
<1> HIDE DEF Wrong, Fields
<1>5. QED
  BY <1>1, <1>2, <1>3, <1>4 DEF DefectsAre

Due(code) == \E d \in Defects : Meets(d, code)

\* What is due to the answers of the package, field by field.
Dues ==
  /\ package.entry # "registered" => Due("DK002")
  /\ package.task # "ok" => Due("DK014")
  /\ package.services # "ok" => Due("DK010")
  /\ package.services = "raises" => Due("DK052")
  /\ package.track \notin {"ok", "unsyncable"} => Due("DK011")
  /\ package.track = "unsyncable" =>
       Due("DK040") /\ Due("DK052") /\ Due("DK070") /\ Due("DK071")
  /\ package.comparator \notin {"ok", "none"} => Due("DK012")
  /\ package.comparator = "raises" => Due("DK070") /\ Due("DK071")
  /\ package.environment # "ok" => Due("DK013")
  /\ package.reasoning \notin {"ok", "none"} => Due("DK017")
  /\ package.reasoning = "raises" => Due("DK071")
  /\ package.reset = "lacking" => Due("DK015")
  /\ package.reset \notin {"ok", "lacking"} => Due("DK030")
  /\ package.reset = "raises" => Due("DK070") /\ Due("DK071")
  /\ package.observe # "ok" => Due("DK031")
  /\ package.refusal # "ok" => Due("DK032")
  /\ package.plan = "failure" => Due("DK041")
  /\ package.plan \in {"raises", "untyped"} => Due("DK040")
  /\ package.plan \in {"raises", "untyped", "failure"} => Due("DK070") /\ Due("DK071")
  /\ package.again = "raises" => Due("DK040")
  /\ package.again \notin {"ok", "raises"} => Due("DK042")
  /\ package.head = "lacking" => Due("DK016")
  /\ package.head \notin {"ok", "lacking"} => Due("DK018")
  /\ package.ground = "raises" => Due("DK040")
  /\ package.ground \notin {"ok", "raises"} => Due("DK041")
  /\ package.ground # "ok" => Due("DK070") /\ Due("DK071")
  /\ package.version # "ok" => Due("DK090")
  /\ package.ungrounded \notin {"ok", "none"} => Due("DK043")
  /\ package.evaluate \in {"raises", "untyped"} => Due("DK050")
  /\ package.evaluate \notin {"ok", "raises", "untyped"} => Due("DK051")
  /\ package.evaluate # "ok" => Due("DK070") /\ Due("DK071")
  /\ package.predict \notin {"ok", "keyless"} => Due("DK060") /\ Due("DK070") /\ Due("DK071")
  /\ package.inapplicable \notin {"ok", "none"} => Due("DK052")
  /\ package.primary \notin {"ended", "repeated"} => Due("DK070")
  /\ package.advisory \notin {"ended", "repeated"} => Due("DK070")
  /\ package.tracked \notin {"ended", "repeated"} => Due("DK071")
  /\ package.lazy \notin {"ok", "unstarted"} /\ package.directory # "none" => Due("DK082")

LEMMA PackageDues == TypeOK => Dues
<1> SUFFICES ASSUME DefectsAre PROVE Dues
  BY DefectsFields
<1>1. \A d, c : d \in Defects /\ Meets(d, c) => Due(c)
  BY DEF Due
<1>2. package.entry # "registered" => Due("DK002")
  <2>1. package.entry # "registered" => "entry" \in Defects
    BY DEF DefectsAre
  <2>2. QED
    BY <1>1, <2>1 DEF Meets
<1>3. package.task # "ok" => Due("DK014")
  <2>1. package.task # "ok" => "task" \in Defects
    BY DEF DefectsAre
  <2>2. QED
    BY <1>1, <2>1 DEF Meets
<1>4. /\ package.services # "ok" => Due("DK010")
      /\ package.services = "raises" => Due("DK052")
  <2>1. package.services # "ok" => "services" \in Defects
    BY DEF DefectsAre
  <2>2. QED
    BY <1>1, <2>1 DEF Meets
<1>5. /\ package.track \notin {"ok", "unsyncable"} => Due("DK011")
      /\ package.track = "unsyncable" =>
           Due("DK040") /\ Due("DK052") /\ Due("DK070") /\ Due("DK071")
  <2>1. package.track # "ok" => "track" \in Defects
    BY DEF DefectsAre
  <2>2. QED
    BY <1>1, <2>1 DEF Meets
<1>6. /\ package.comparator \notin {"ok", "none"} => Due("DK012")
      /\ package.comparator = "raises" => Due("DK070") /\ Due("DK071")
  <2>1. package.comparator \notin {"ok", "none"} => "comparator" \in Defects
    BY DEF DefectsAre
  <2>2. QED
    BY <1>1, <2>1 DEF Meets
<1>7. package.environment # "ok" => Due("DK013")
  <2>1. package.environment # "ok" => "environment" \in Defects
    BY DEF DefectsAre
  <2>2. QED
    BY <1>1, <2>1 DEF Meets
<1>8. /\ package.reasoning \notin {"ok", "none"} => Due("DK017")
      /\ package.reasoning = "raises" => Due("DK071")
  <2>1. package.reasoning \notin {"ok", "none"} => "reasoning" \in Defects
    BY DEF DefectsAre
  <2>2. QED
    BY <1>1, <2>1 DEF Meets
<1>9. /\ package.reset = "lacking" => Due("DK015")
      /\ package.reset \notin {"ok", "lacking"} => Due("DK030")
      /\ package.reset = "raises" => Due("DK070") /\ Due("DK071")
  <2>1. package.reset # "ok" => "reset" \in Defects
    BY DEF DefectsAre
  <2>2. QED
    BY <1>1, <2>1 DEF Meets
<1>10. package.observe # "ok" => Due("DK031")
  <2>1. package.observe # "ok" => "observe" \in Defects
    BY DEF DefectsAre
  <2>2. QED
    BY <1>1, <2>1 DEF Meets
<1>11. package.refusal # "ok" => Due("DK032")
  <2>1. package.refusal # "ok" => "refusal" \in Defects
    BY DEF DefectsAre
  <2>2. QED
    BY <1>1, <2>1 DEF Meets
<1>12. /\ package.plan = "failure" => Due("DK041")
       /\ package.plan \in {"raises", "untyped"} => Due("DK040")
       /\ package.plan \in {"raises", "untyped", "failure"} => Due("DK070") /\ Due("DK071")
  <2>1. package.plan \notin {"found", "none"} => "plan" \in Defects
    BY DEF DefectsAre
  <2>2. QED
    BY <1>1, <2>1 DEF Meets
<1>13. /\ package.again = "raises" => Due("DK040")
       /\ package.again \notin {"ok", "raises"} => Due("DK042")
  <2>1. package.again # "ok" => "again" \in Defects
    BY DEF DefectsAre
  <2>2. QED
    BY <1>1, <2>1 DEF Meets
<1>14. /\ package.head = "lacking" => Due("DK016")
       /\ package.head \notin {"ok", "lacking"} => Due("DK018")
  <2>1. package.head # "ok" => "head" \in Defects
    BY DEF DefectsAre
  <2>2. QED
    BY <1>1, <2>1 DEF Meets
<1>15. /\ package.ground = "raises" => Due("DK040")
       /\ package.ground \notin {"ok", "raises"} => Due("DK041")
       /\ package.ground # "ok" => Due("DK070") /\ Due("DK071")
  <2>1. package.ground # "ok" => "ground" \in Defects
    BY DEF DefectsAre
  <2>2. QED
    BY <1>1, <2>1 DEF Meets
<1>16. package.version # "ok" => Due("DK090")
  <2>1. package.version # "ok" => "version" \in Defects
    BY DEF DefectsAre
  <2>2. QED
    BY <1>1, <2>1 DEF Meets
<1>17. package.ungrounded \notin {"ok", "none"} => Due("DK043")
  <2>1. package.ungrounded \notin {"ok", "none"} => "ungrounded" \in Defects
    BY DEF DefectsAre
  <2>2. QED
    BY <1>1, <2>1 DEF Meets
<1>18. /\ package.evaluate \in {"raises", "untyped"} => Due("DK050")
       /\ package.evaluate \notin {"ok", "raises", "untyped"} => Due("DK051")
       /\ package.evaluate # "ok" => Due("DK070") /\ Due("DK071")
  <2>1. package.evaluate # "ok" => "evaluate" \in Defects
    BY DEF DefectsAre
  <2>2. QED
    BY <1>1, <2>1 DEF Meets
<1>19. package.predict \notin {"ok", "keyless"} =>
         Due("DK060") /\ Due("DK070") /\ Due("DK071")
  <2>1. package.predict \notin {"ok", "keyless"} => "predict" \in Defects
    BY DEF DefectsAre
  <2>2. QED
    BY <1>1, <2>1 DEF Meets
<1>20. package.inapplicable \notin {"ok", "none"} => Due("DK052")
  <2>1. package.inapplicable \notin {"ok", "none"} => "inapplicable" \in Defects
    BY DEF DefectsAre
  <2>2. QED
    BY <1>1, <2>1 DEF Meets
<1>21. package.primary \notin {"ended", "repeated"} => Due("DK070")
  <2>1. package.primary \notin {"ended", "repeated"} => "primary" \in Defects
    BY DEF DefectsAre
  <2>2. QED
    BY <1>1, <2>1 DEF Meets
<1>22. package.advisory \notin {"ended", "repeated"} => Due("DK070")
  <2>1. package.advisory \notin {"ended", "repeated"} => "advisory" \in Defects
    BY DEF DefectsAre
  <2>2. QED
    BY <1>1, <2>1 DEF Meets
<1>23. package.tracked \notin {"ended", "repeated"} => Due("DK071")
  <2>1. package.tracked \notin {"ended", "repeated"} => "tracked" \in Defects
    BY DEF DefectsAre
  <2>2. QED
    BY <1>1, <2>1 DEF Meets
<1>24. package.lazy \notin {"ok", "unstarted"} /\ package.directory # "none" => Due("DK082")
  <2>1. package.lazy \notin {"ok", "unstarted"} /\ package.directory # "none" => "lazy" \in Defects
    BY DEF DefectsAre
  <2>2. QED
    BY <1>1, <2>1 DEF Meets
<1>25. QED
  BY <1>2, <1>3, <1>4, <1>5, <1>6, <1>7, <1>8, <1>9, <1>10, <1>11, <1>12, <1>13,
     <1>14, <1>15, <1>16, <1>17, <1>18, <1>19, <1>20, <1>21, <1>22, <1>23, <1>24 DEF Dues

\* A loop's crash is due to what the loop builds again or asks for again.
LEMMA CrashDues ==
  ASSUME Dues
  PROVE  /\ Crashes(FALSE) => Due("DK070")
         /\ Crashes(TRUE) => Due("DK071")
<1>1. FirstCycleFails => Due("DK070") /\ Due("DK071")
  BY DEF Dues, FirstCycleFails
<1>2. QED
  BY <1>1 DEF Dues, Crashes

Blamed(found) == \A f \in found : f[2] = "FAIL" => Due(f[1])

LEMMA BlamedFindings ==
  /\ \A c : Blamed(Pass(c)) /\ Blamed(Warn(c)) /\ Blamed(Skip(c))
  /\ \A c : Due(c) => Blamed(Fail(c))
  /\ \A f, g : Blamed(f) /\ Blamed(g) => Blamed(f \cup g)
  /\ Blamed({})
<1>1. ASSUME NEW c PROVE /\ <<c, "FAIL">>[1] = c
                         /\ <<c, "PASS">>[2] = "PASS" /\ <<c, "WARN">>[2] = "WARN"
                         /\ <<c, "SKIPPED">>[2] = "SKIPPED"
  OBVIOUS
<1>2. QED
  BY <1>1 DEF Blamed, Pass, Warn, Fail, Skip

LEMMA CheckBlamed ==
  ASSUME NEW here, NEW there, NEW found, NEW blocks, NEW fixtures,
         Check(here, there, found, blocks, fixtures), Blamed(found)
  PROVE  Blamed(findings' \ findings)
BY DEF Check, Blamed

\* Services that were not built raised.
ServicesInv ==
  package.entry \notin {"absent", "foreign"} /\ Past("services") /\ "services" \notin made =>
    package.services = "raises"

LEMMA ServicesStep == TypeOK /\ ServicesInv /\ [Next]_vars => ServicesInv'
<1> SUFFICES ASSUME TypeOK, ServicesInv, [Next]_vars PROVE ServicesInv'
  OBVIOUS
<1>1. Grows
  BY StepGrows
<1>2. CASE CheckServices
  BY <1>1, <1>2 DEF CheckServices, Factory, Check, ServicesInv, Grows
<1>3. CASE ~CheckServices
  BY <1>1, <1>3, PassedBy DEF ServicesInv, Grows
<1>4. QED
  BY <1>2, <1>3

LEMMA BlameStep == TypeOK /\ BlameInv /\ ServicesInv /\ [Next]_vars => BlameInv'
<1> SUFFICES ASSUME TypeOK, ServicesInv, [Next]_vars,
                    package.entry \notin {"absent", "foreign"}, package.layout = {}
             PROVE  Blamed(findings' \ findings)
  BY StepGrows DEF BlameInv, Blamed, Due, Grows, Defects, Meets
<1>1. Dues /\ Shaped(package)
  BY PackageDues, PackagesShaped DEF TypeOK
<1> USE BlamedFindings, CheckBlamed
<1>2. CASE Lookup
  BY <1>1, <1>2 DEF Dues, Lookup, Judged
<1>3. CASE CheckTask \/ CheckServices \/ CheckTrack \/ CheckEnvironment
  BY <1>1, <1>3
  DEF Dues, Shaped, CheckTask, CheckServices, CheckTrack, CheckEnvironment, Factory, Judged
<1>4. CASE CheckComparator
  BY <1>1, <1>4 DEF Dues, Shaped, CheckComparator, Factory, Judged
<1>5. CASE CheckReasoning
  BY <1>1, <1>5 DEF Dues, CheckReasoning, Judged
<1>6. CASE CheckReset
  BY <1>1, <1>6 DEF Dues, CheckReset, Omit, Judged
<1>7. CASE CheckObserve
  BY <1>1, <1>7 DEF Dues, CheckObserve, Omit, Judged
<1>8. CASE CheckRefusal
  BY <1>1, <1>8 DEF Dues, CheckRefusal, Omit, Judged
<1>9. CASE CheckPlan
  <2>1. Blamed(PlanFindings)
    <3> DEFINE rest == CASE package.ground = "raises"  -> Fail("DK040")
                         [] package.ground = "unknown" -> Fail("DK041")
                         [] OTHER -> Pass("DK041") \cup Judged("DK090", package.version = "ok")
    <3>1. Blamed(rest)
      BY <1>1 DEF Dues, Judged
    <3> HIDE DEF rest
    <3>2. Blamed(Again(rest)) /\ Blamed(Again(Warn("DK041")))
      BY <1>1, <3>1 DEF Dues, Again, Judged
    <3>3. Blamed(HeadFindings)
      BY <1>1, <3>2 DEF Dues, HeadFindings, rest
    <3>4. QED
      BY <1>1, <3>2, <3>3 DEF Dues, PlanFindings
  <2>2. QED
    BY <1>9, <2>1 DEF CheckPlan, Omit
<1>10. CASE CheckUngrounded
  BY <1>1, <1>10 DEF Dues, CheckUngrounded, Example, Judged
<1>11. CASE CheckPredict
  BY <1>1, <1>11 DEF Dues, CheckPredict, Example, Judged
<1>12. CASE CheckEvaluate
  BY <1>1, <1>12 DEF Dues, CheckEvaluate, Omit, Judged
<1>13. CASE CheckInapplicable
  <2>1. stage = "inapplicable"
    BY <1>13 DEF CheckInapplicable, Omit, Check
  <2>2. "services" \notin made => package.services = "raises"
    BY <2>1, Ranks DEF ServicesInv, Past
  <2>3. QED
    BY <1>1, <1>13, <2>2 DEF Dues, CheckInapplicable, Omit, Example, Judged
<1>14. CASE CheckPrimary
  BY <1>1, <1>14, CrashDues DEF Dues, Shaped, CheckPrimary, Omit, Episode
<1>15. CASE CheckAdvisory
  BY <1>1, <1>15, CrashDues DEF Dues, Shaped, CheckAdvisory, Episode
<1>16. CASE CheckTracked
  BY <1>1, <1>16, CrashDues DEF Dues, Shaped, CheckTracked, Episode
<1>17. CASE FillMissing
  BY <1>17 DEF FillMissing, Blamed
<1>18. CASE CheckLayout
  <2>1. Problems(package.layout) = {} /\ ~NeedsDoor(package.layout)
    BY DEF Problems, NeedsDoor
  <2>2. QED
    BY <1>18, <2>1 DEF CheckLayout, Lose, Omit, Judged
<1>19. CASE CheckLazyBackend
  BY <1>1, <1>19 DEF Dues, CheckLazyBackend, Lose, Omit, Judged
<1>20. CASE UNCHANGED vars
  BY <1>20 DEF vars
<1>21. QED
  BY <1>2, <1>3, <1>4, <1>5, <1>6, <1>7, <1>8, <1>9, <1>10, <1>11, <1>12, <1>13, <1>14, <1>15,
     <1>16, <1>17, <1>18, <1>19, <1>20 DEF Next

-----------------------------------------------------------------------------
(* The checks that ask again come late                                     *)

Late == {"DK052", "DK070", "DK071"}

\* Findings of none of them and not of the other check that wants an example.
Plain(found) == \A f \in found : f[1] \notin Late \cup {"DK043"}

LEMMA PlainFindings ==
  /\ \A c : c \notin Late \cup {"DK043"} =>
       Plain(Pass(c)) /\ Plain(Warn(c)) /\ Plain(Fail(c)) /\ Plain(Skip(c))
  /\ \A f, g : Plain(f) /\ Plain(g) => Plain(f \cup g)
  /\ Plain({})
<1>1. ASSUME NEW c PROVE /\ <<c, "FAIL">>[1] = c /\ <<c, "PASS">>[1] = c
                         /\ <<c, "WARN">>[1] = c /\ <<c, "SKIPPED">>[1] = c
  OBVIOUS
<1>2. QED
  BY <1>1 DEF Plain, Pass, Warn, Fail, Skip

PlainStep == Plain(findings' \ findings)

LEMMA CheckPlain ==
  ASSUME NEW here, NEW there, NEW found, NEW blocks, NEW fixtures,
         Check(here, there, found, blocks, fixtures), Plain(found)
  PROVE  PlainStep
BY DEF Check, PlainStep, Plain

LEMMA PlainSteps ==
  [Next]_vars =>
    \/ PlainStep \/ CheckUngrounded \/ CheckInapplicable \/ CheckPrimary
    \/ CheckAdvisory \/ CheckTracked \/ FillMissing
<1> USE PlainFindings, CheckPlain DEF Late
<1>1. Lookup => PlainStep
  BY DEF Lookup, Judged
<1>2. CheckTask \/ CheckServices \/ CheckTrack \/ CheckEnvironment => PlainStep
  BY DEF CheckTask, CheckServices, CheckTrack, CheckEnvironment, Factory, Judged
<1>3. CheckComparator => PlainStep
  BY DEF CheckComparator, Factory, Judged
<1>4. CheckReasoning => PlainStep
  BY DEF CheckReasoning, Judged
<1>5. CheckReset => PlainStep
  BY DEF CheckReset, Omit, Judged
<1>6. CheckObserve \/ CheckRefusal => PlainStep
  BY DEF CheckObserve, CheckRefusal, Omit, Judged
<1>7. CheckPlan => PlainStep
  <2>1. Plain(PlanFindings)
    <3> DEFINE rest == CASE package.ground = "raises"  -> Fail("DK040")
                         [] package.ground = "unknown" -> Fail("DK041")
                         [] OTHER -> Pass("DK041") \cup Judged("DK090", package.version = "ok")
    <3>1. Plain(rest)
      BY DEF Judged
    <3> HIDE DEF rest
    <3>2. Plain(Again(rest)) /\ Plain(Again(Warn("DK041")))
      BY <3>1 DEF Again, Judged
    <3>3. Plain(HeadFindings)
      BY <3>2 DEF HeadFindings, rest
    <3>4. QED
      BY <3>2, <3>3 DEF PlanFindings
  <2>2. QED
    BY <2>1 DEF CheckPlan, Omit
<1>8. CheckEvaluate => PlainStep
  BY DEF CheckEvaluate, Omit, Judged
<1>9. CheckPredict => PlainStep
  BY DEF CheckPredict, Judged
<1>10. CheckLayout \/ CheckLazyBackend => PlainStep
  BY DEF CheckLayout, CheckLazyBackend, Lose, Omit, Judged
<1>11. UNCHANGED vars => PlainStep
  BY DEF vars, PlainStep, Plain
<1>12. QED
  BY <1>1, <1>2, <1>3, <1>4, <1>5, <1>6, <1>7, <1>8, <1>9, <1>10, <1>11 DEF Next

\* A check without its example does not pass.
AbsentInv == \A c \in Absent : <<c, "PASS">> \notin findings

LEMMA AbsentStep == AbsentInv /\ [Next]_vars => AbsentInv'
<1> SUFFICES ASSUME AbsentInv, [Next]_vars, NEW c \in Absent, <<c, "PASS">> \in findings',
                    <<c, "PASS">> \notin findings
             PROVE  FALSE
  BY StepGrows DEF AbsentInv, Absent, Grows
<1>1. /\ c \in {"DK043", "DK052"} /\ <<c, "PASS">>[1] = c
      /\ c = "DK043" => package.ungrounded = "none"
      /\ c = "DK052" => package.inapplicable = "none"
  BY DEF Absent
<1>2. ~PlainStep
  BY <1>1 DEF PlainStep, Plain, Late
<1>3. CASE CheckUngrounded
  BY <1>1, <1>3 DEF CheckUngrounded, Check, Example, Judged, Pass, Warn, Fail
<1>4. CASE CheckInapplicable
  BY <1>1, <1>4 DEF CheckInapplicable, Omit, Check, Example, Judged, Pass, Warn, Fail
<1>5. CASE CheckPrimary \/ CheckAdvisory \/ CheckTracked
  <2>1. \A code : /\ <<code, "PASS">>[1] = code /\ <<code, "WARN">>[1] = code
                  /\ <<code, "FAIL">>[1] = code /\ <<code, "SKIPPED">>[1] = code
    OBVIOUS
  <2>2. /\ \A f \in Episode("DK070", package.primary, FALSE, FALSE) : f[1] = "DK070"
        /\ \A f \in Episode("DK070", package.advisory, TRUE, FALSE) : f[1] = "DK070"
        /\ \A f \in Episode("DK071", package.tracked, TRUE, TRUE) : f[1] = "DK071"
        /\ \A f \in Skip("DK071") : f[1] = "DK071"
    BY <2>1 DEF Episode, Pass, Warn, Fail, Skip
  <2>3. \A f \in findings' \ findings : f[1] \in {"DK070", "DK071"}
    BY <1>5, <2>2 DEF CheckPrimary, CheckAdvisory, CheckTracked, Omit, Check
  <2>4. QED
    BY <1>1, <2>3
<1>6. CASE FillMissing
  BY <1>6 DEF FillMissing
<1>7. QED
  BY <1>2, <1>3, <1>4, <1>5, <1>6, PlainSteps

\* Up to the first check that asks again there is no finding of one.
NotYetInv == Rank[stage] <= Rank["inapplicable"] => \A f \in findings : f[1] \notin Late

LEMMA NotYetStep == TypeOK /\ NotYetInv /\ [Next]_vars => NotYetInv'
<1> SUFFICES ASSUME TypeOK, NotYetInv, [Next]_vars, Rank[stage'] <= Rank["inapplicable"]
             PROVE  \A f \in findings' : f[1] \notin Late
  BY Ranks DEF NotYetInv
<1>1. Rank[stage] <= Rank["inapplicable"]
  BY ChecksOrdered, Ranks DEF Order, Next, vars
<1>2. ~CheckInapplicable /\ ~CheckPrimary /\ ~CheckAdvisory /\ ~CheckTracked /\ ~FillMissing
  BY ChecksOrdered, Ranks DEF Order
<1>3. \A f \in findings' \ findings : f[1] \notin Late
  <2>1. CASE PlainStep
    BY <2>1 DEF PlainStep, Plain
  <2>2. CASE CheckUngrounded
    <3>1. \A f \in findings' \ findings : f[1] = "DK043"
      <4>1. /\ <<"DK043", "FAIL">>[1] = "DK043" /\ <<"DK043", "PASS">>[1] = "DK043"
            /\ <<"DK043", "WARN">>[1] = "DK043"
        OBVIOUS
      <4>2. QED
        BY <2>2, <4>1 DEF CheckUngrounded, Check, Example, Judged, Pass, Warn, Fail
    <3>2. QED
      BY <3>1 DEF Late
  <2>3. QED
    BY <1>2, <2>1, <2>2, PlainSteps
<1>4. QED
  BY <1>1, <1>3 DEF NotYetInv

\* No check has failed but those that ask again.
Spared == \A f \in findings : f[2] = "FAIL" => f[1] \in Late

Early == {s \in Stages : Rank[s] < Rank["inapplicable"]}

\* Then what the checks before them show is shown all the same.
SparedInv == Spared => \A s \in Early : Past(s) => Shows(s)

LEMMA SparedStep ==
  TypeOK /\ CleanInv /\ NotYetInv /\ SparedInv /\ [Next]_vars => SparedInv'
<1> SUFFICES ASSUME TypeOK, CleanInv, NotYetInv, SparedInv, [Next]_vars, Spared',
                    NEW s \in Early, Past(s)'
             PROVE  Shows(s)'
  BY DEF SparedInv, Early
<1>1. Grows /\ CleanInv' /\ NotYetInv' /\ s \in Stages
  BY StepGrows, CleanStep, NotYetStep DEF Early
<1>2. CASE Rank[stage'] <= Rank["inapplicable"]
  <2>1. Faultless'
    BY <1>1, <1>2 DEF NotYetInv, Spared, Faultless
  <2>2. QED
    BY <1>1, <2>1 DEF CleanInv
<1>3. CASE ~(Rank[stage'] <= Rank["inapplicable"]) /\ ~Lookup
  <2>1. Rank[stage] >= Rank["inapplicable"]
    <3>1. CASE UNCHANGED vars
      BY <1>3, <3>1, Ranks DEF vars, TypeOK, Stages
    <3>2. CASE Next
      BY <1>3, <3>2, ChecksOrdered, Ranks DEF Order, Next
    <3>3. QED
      BY <3>1, <3>2
  <2>2. Past(s)
    BY <2>1, Ranks DEF Past, Early, Stages, TypeOK
  <2>3. QED
    BY <1>1, <2>2, ShowsStays DEF SparedInv, Spared, Grows
<1>4. CASE Lookup /\ stage' = "done"
  <2>1. package.entry \in {"absent", "foreign"}
    BY <1>4 DEF Lookup, Check
  <2>2. /\ <<"DK001", "FAIL">>[1] = "DK001" /\ <<"DK001", "FAIL">>[2] = "FAIL"
        /\ <<"DK002", "FAIL">>[1] = "DK002" /\ <<"DK002", "FAIL">>[2] = "FAIL"
    OBVIOUS
  <2>3. <<"DK001", "FAIL">> \in findings' \/ <<"DK002", "FAIL">> \in findings'
    BY <1>4, <2>1 DEF Lookup, Check, Judged, Fail
  <2>4. QED
    BY <2>2, <2>3 DEF Spared, Late
<1>5. QED
  BY <1>2, <1>3, <1>4, ChecksOrdered, Ranks DEF Order

-----------------------------------------------------------------------------
(* The theorems                                                            *)

\* The inductive invariant: what the checks passed have shown, also when only a check that
\* asks again failed, where every failure comes from, and what the report holds so far.
ValidationInv ==
  /\ TypeOK /\ BlockInv /\ CleanInv /\ ToldInv /\ SkipInv /\ SealInv
  /\ ServicesInv /\ BlameInv /\ AbsentInv /\ NotYetInv /\ SparedInv

LEMMA InvInit == Init => ValidationInv
<1> SUFFICES ASSUME Init PROVE ValidationInv
  OBVIOUS
<1>1. TypeOK
  BY DEF Init, TypeOK, Stages
<1>2. \A s \in Stages : ~Past(s)
  BY Ranks DEF Init, Past, Stages
<1>3. BlockInv /\ CleanInv /\ SkipInv /\ SealInv /\ BlameInv
  BY <1>2 DEF Init, BlockInv, Named, CleanInv, SkipInv, SealInv, BlameInv
<1>4. ToldInv /\ ServicesInv /\ AbsentInv /\ NotYetInv /\ SparedInv
  BY <1>2 DEF Init, Stages, ToldInv, ServicesInv, AbsentInv, NotYetInv, SparedInv, Early
<1>5. QED
  BY <1>1, <1>3, <1>4 DEF ValidationInv

LEMMA InvStep == ValidationInv /\ [Next]_vars => ValidationInv'
BY StepTypes, BlockStep, CleanStep, ToldStep, SkipStep, SealStep, ServicesStep, BlameStep,
   AbsentStep, NotYetStep, SparedStep DEF ValidationInv

\* The types of a validation (validation.py).
THEOREM ValidationTypes == Spec => []TypeOK
<1>1. ValidationInv => TypeOK
  BY DEF ValidationInv
<1>2. QED
  BY <1>1, InvInit, InvStep, PTL DEF Spec

LEMMA CodesOf ==
  ASSUME TypeOK, NEW c, NEW status
  PROVE  c \in Codes(status) <=> <<c, status>> \in findings
<1>1. <<c, status>>[1] = c /\ <<c, status>>[2] = status
  OBVIOUS
<1>2. \A f \in findings : f = <<f[1], f[2]>>
  BY DEF TypeOK
<1>3. QED
  BY <1>1, <1>2 DEF Codes

LEMMA FaultlessCodes == TypeOK => (Faultless <=> Codes("FAIL") = {})
BY DEF Faultless, Codes

\* What a report without a FAIL has shown, check by check.
LEMMA AllShown ==
  ASSUME ValidationInv, stage = "done", Faultless
  PROVE  \A s \in Stages \ {"done"} : Shows(s)
BY Ranks DEF ValidationInv, CleanInv, Past, Stages

LEMMA SkipsFromInv == ValidationInv => SkipsHaveCause
<1> SUFFICES ASSUME ValidationInv, Reported
             PROVE  /\ AllCodes = {f[1] : f \in findings}
                    /\ Absent \cap Codes("PASS") = {}
                    /\ reason # NoCode => reason \in Codes("FAIL")
                    /\ (Codes("SKIPPED") \cap LibraryCodes) \ Optional # {} =>
                         Codes("FAIL") # {} \/ "DK041" \in Codes("WARN")
  BY DEF SkipsHaveCause
<1> USE DEF ValidationInv
<1>1. \A c \in AllCodes : Told(c)
  <2>1. Past("lookup") /\ Past("fill") /\ Past("layout") /\ Past("lazy")
    BY Ranks DEF Reported, Past
  <2>2. QED
    BY <2>1 DEF Reported, ToldInv, AllCodes, CLICodes
<1>2. AllCodes = {f[1] : f \in findings}
  <2>1. AllCodes \subseteq {f[1] : f \in findings}
    BY <1>1 DEF Told
  <2>2. {f[1] : f \in findings} \subseteq AllCodes
    BY DEF TypeOK
  <2>3. QED
    BY <2>1, <2>2
<1>3. reason # NoCode => reason \in Codes("FAIL")
  BY CodesOf DEF BlockInv, Named
<1>4. ASSUME Codes("FAIL") = {}, "DK041" \notin Codes("WARN")
      PROVE  (Codes("SKIPPED") \cap LibraryCodes) \ Optional = {}
  <2>1. Faultless /\ <<"DK041", "WARN">> \notin findings
    BY <1>4, CodesOf, FaultlessCodes
  <2>2. \A c \in Codes("SKIPPED") : c \in Optional \cup CLICodes
    BY <2>1 DEF SkipInv, Codes
  <2>3. CLICodes \cap LibraryCodes = {}
    BY DEF CLICodes, LibraryCodes
  <2>4. QED
    BY <2>2, <2>3
<1>5. Absent \cap Codes("PASS") = {}
  BY CodesOf DEF AbsentInv
<1>6. QED
  BY <1>2, <1>3, <1>4, <1>5

\* For every set of packages, a report that comes out is complete, passes no check without
\* its example and says why a check was skipped.
THEOREM SkipsCorrect == Spec => []SkipsHaveCause
<1>1. QED
  BY SkipsFromInv, InvInit, InvStep, PTL DEF Spec

LEMMA SoundFromInv == ValidationInv => OkIsSound
<1> SUFFICES ASSUME ValidationInv, Reported, Codes("FAIL") = {} PROVE OkIsSound
  BY DEF OkIsSound
<1>1. TypeOK /\ DefectsAre /\ Faultless
  BY DefectsFields, FaultlessCodes DEF ValidationInv
<1>2. \A s \in Stages \ {"done"} : Shows(s)
  BY <1>1, AllShown DEF Reported
<1>3. /\ package.entry = "registered" /\ package.task = "ok" /\ package.services = "ok"
      /\ package.comparator \in {"ok", "none"} /\ package.environment = "ok"
      /\ package.reasoning \in {"ok", "none"} /\ package.reset = "ok"
      /\ package.observe = "ok" /\ package.track = "ok" /\ package.again = "ok"
  BY <1>2 DEF Shows, Stages
<1>4. /\ package.ungrounded \in {"ok", "none"} /\ package.inapplicable \in {"ok", "none"}
      /\ package.primary \in {"ended", "repeated"}
      /\ package.advisory \in {"ended", "repeated"}
      /\ package.tracked \in {"ended", "repeated"}
      /\ package.directory = "none" \/ package.lazy \in {"ok", "unstarted"}
  BY <1>2 DEF Shows, Stages
<1>5. \/ /\ package.plan \in {"none", "empty"} /\ <<"DK041", "WARN">> \in findings
      \/ /\ package.plan = "found" /\ package.head = "ok" /\ package.ground = "ok"
         /\ package.version = "ok" /\ package.refusal = "ok" /\ package.evaluate = "ok"
         /\ package.predict \in {"ok", "keyless"}
  BY <1>2 DEF Shows, Stages
<1>6. CASE package.plan = "found"
  <2>1. Defects \subseteq {"plan"}
    BY <1>1, <1>3, <1>4, <1>5, <1>6 DEF DefectsAre
  <2>2. QED
    BY <2>1 DEF OkIsSound
<1>7. CASE package.plan \in {"none", "empty"} /\ <<"DK041", "WARN">> \in findings
  <2>1. Defects \subseteq {"plan", "refusal", "head", "ground", "version", "evaluate", "predict"}
    BY <1>1, <1>3, <1>4, <1>7 DEF DefectsAre
  <2>2. "DK041" \in Codes("WARN")
    BY <1>1, <1>7, CodesOf
  <2>3. QED
    BY <1>7, <2>1, <2>2 DEF OkIsSound
<1>8. QED
  BY <1>5, <1>6, <1>7

\* For every set of packages, with however many defects, a report without a FAIL overlooks
\* none but what a planner without a plan leaves unasked.
THEOREM OkCorrect == Spec => []OkIsSound
<1>1. QED
  BY SoundFromInv, InvInit, InvStep, PTL DEF Spec

LEMMA OneFailFromInv == ValidationInv => OneFaultOneFail
<1> SUFFICES ASSUME ValidationInv, Reported, package.layout = {},
                    package.plan \notin {"none", "empty"},
                    NEW d \in DOMAIN Sound, Defects = {d}
             PROVE  Cardinality(Codes("FAIL") \ AskedAgain(d)) = 1
  BY DEF OneFaultOneFail
<1> DEFINE own == Codes("FAIL") \ AskedAgain(d)
<1>1. DefectsAre /\ TypeOK /\ Shaped(package) /\ d \in Defects
  BY DefectsFields, PackagesShaped DEF ValidationInv, TypeOK
<1>2. ASSUME NEW c \in Codes("FAIL") PROVE Meets(d, c)
  <2>1. <<c, "FAIL">> \in findings /\ <<c, "FAIL">>[1] = c /\ <<c, "FAIL">>[2] = "FAIL"
    BY <1>1, CodesOf
  <2>2. \E e \in Defects : Meets(e, c)
    BY <2>1 DEF ValidationInv, BlameInv, Reported
  <2>3. QED
    BY <2>2
<1>3. \A c, e \in own : c = e
  <2> SUFFICES ASSUME NEW c \in own, NEW e \in own PROVE c = e
    OBVIOUS
  <2>1. Meets(d, c) /\ Meets(d, e) /\ c \notin AskedAgain(d) /\ e \notin AskedAgain(d)
    BY <1>2
  <2>2. CASE d \in {"services", "track", "reasoning"}
    BY <2>1, <2>2 DEF Meets, AskedAgain
  <2>3. CASE d \in {"comparator", "reset", "plan", "ground", "evaluate", "predict"}
    BY <2>1, <2>3 DEF Meets, AskedAgain
  <2>4. CASE d \notin {"services", "track", "reasoning", "comparator", "reset", "plan",
                       "ground", "evaluate", "predict"}
    BY <2>1, <2>4 DEF Meets
  <2>5. QED
    BY <2>2, <2>3, <2>4
<1>4. own # {}
  <2> SUFFICES ASSUME own = {} PROVE FALSE
    OBVIOUS
  <2>1. \A s \in Early : Shows(s)
    <3>1. Codes("FAIL") \subseteq Late
      BY DEF AskedAgain, Late
    <3>2. Spared
      BY <1>1, <3>1 DEF Spared, Codes
    <3>3. QED
      BY <3>2, Ranks DEF ValidationInv, SparedInv, Early, Past, Reported, Stages
  <2>2. {"services", "track", "comparator", "reasoning", "reset", "plan", "evaluate", "predict"}
          \subseteq Early
    BY Ranks DEF Early, Stages
  <2>3. /\ package.services = "ok" /\ package.track = "ok"
        /\ package.comparator \in {"ok", "none"} /\ package.reasoning \in {"ok", "none"}
        /\ package.reset = "ok" /\ package.plan = "found" /\ package.ground = "ok"
        /\ package.evaluate = "ok" /\ package.predict \in {"ok", "keyless"}
    BY <2>1, <2>2 DEF Shows
  <2>4. d \notin {"services", "track", "reasoning", "comparator", "reset", "plan", "ground",
                  "evaluate", "predict"}
    BY <1>1, <2>3 DEF DefectsAre
  <2>5. Codes("FAIL") = {}
    BY <2>4 DEF AskedAgain
  <2>6. Defects \subseteq {"plan"}
    BY <2>5, SoundFromInv DEF OkIsSound
  <2>7. QED
    BY <1>1, <2>4, <2>6
<1>5. PICK c : own = {c}
  BY <1>3, <1>4
<1>6. QED
  BY <1>5, FS_Singleton

\* For every set of packages, a package with a single wrong answer gets the single FAIL of
\* the check that owns it, and no other but of the later checks that ask for it again.
THEOREM OneFaultCorrect == Spec => []OneFaultOneFail
<1>1. QED
  BY OneFailFromInv, InvInit, InvStep, PTL DEF Spec

LEMMA SealsFromInv == ValidationInv => LayoutSeals
<1> SUFFICES ASSUME ValidationInv, "DK080" \in Codes("PASS"), NEW file \in Symbolic,
                    "__init__" \notin Brings(package.layout, file)
             PROVE  Brings(package.layout, file) \cap
                      {"environment", "backend", "never", "composition", "package",
                       "domains", "dynamic"} = {}
  BY DEF LayoutSeals
<1>1. Problems(package.layout) = {}
  BY CodesOf DEF ValidationInv, SealInv
<1>2. package.layout \in SUBSET (Files \X Targets)
  BY PackagesShaped DEF ValidationInv, TypeOK, Shaped
<1>3. Brings(package.layout, file) \subseteq Inner
  BY <1>1, <1>2, LayoutSealsFiles
<1>4. QED
  BY <1>3 DEF Inner, Symbolic, Files

\* For every layout, when DK080 passes the symbolic files are sealed off.
THEOREM LayoutCorrect == Spec => []LayoutSeals
<1>1. QED
  BY SealsFromInv, InvInit, InvStep, PTL DEF Spec
=============================================================================
