-------------------------- MODULE PackageValidation --------------------------
(***************************************************************************)
(* `maaos validate-domain` (app/validation.py): the checks an author runs  *)
(* over a domain package.  Each check of a component runs under its own    *)
(* guard, an exception in it being its FAIL; later checks use what earlier *)
(* ones built (`made`) and the first broken contract (`blocked`) keeps     *)
(* them from running; what did not run is SKIPPED at the end.  The checks  *)
(* of the package directory have no guard.                                 *)
(*                                                                         *)
(* A package is what the checks can tell of it: for each component and     *)
(* answer one of the shapes below.  An answer is the same whenever it is   *)
(* asked for; what only an episode asks for (the task's test, skills, the  *)
(* monitor, later plans) is told by how the episode ends.                  *)
(***************************************************************************)
EXTENDS DomainLayout, FiniteSets

CONSTANTS
  Packages,   \* the packages an author may bring
  NoCode

VARIABLES
  package,    \* the package under validation
  stage,      \* the check that is next
  findings,   \* <<code, status>> of every finding so far
  blocked,    \* the first broken contract (_Checks.blocked_by)
  made,       \* the fixtures earlier checks left: services, track, environment, state, head
  reason      \* what the skipped checks are told to wait for

vars == <<package, stage, findings, blocked, made, reason>>

\* A package that passes every check, and the shapes it may deviate to.
Sound ==
  [entry |-> "registered", task |-> "ok", services |-> "ok", track |-> "ok",
   comparator |-> "ok", environment |-> "ok", reasoning |-> "ok", reset |-> "ok",
   observe |-> "ok", refusal |-> "ok", plan |-> "found", again |-> "ok", head |-> "ok",
   ground |-> "ok", version |-> "ok", ungrounded |-> "ok", evaluate |-> "ok",
   predict |-> "ok", inapplicable |-> "ok", primary |-> "ended", advisory |-> "ended",
   tracked |-> "ended", recovery |-> "ok", layout |-> {}, door |-> "unlisted",
   lazy |-> "ok", directory |-> "ok", text |-> "ok", goal |-> "open"]

Shapes ==
  [entry |-> {"absent", "foreign", "misnamed"}, task |-> {"lacking"},
   services |-> {"raises", "lacking"}, track |-> {"raises", "lacking", "unsyncable"},
   comparator |-> {"none", "raises", "lacking"}, environment |-> {"raises", "lacking"},
   reasoning |-> {"none", "raises", "lacking"},
   reset |-> {"raises", "lacking", "unkeyed", "unstable"},
   observe |-> {"raises", "same", "state"}, refusal |-> {"raises", "returns", "untold"},
   plan |-> {"raises", "untyped", "failure", "none", "empty"},
   again |-> {"raises", "other"}, head |-> {"lacking", "identity"},
   ground |-> {"raises", "unknown"}, version |-> {"other"},
   ungrounded |-> {"none", "raises", "accepted"},
   evaluate |-> {"raises", "untyped", "inapplicable", "other"},
   predict |-> {"raises", "untyped", "keyless"},
   inapplicable |-> {"none", "raises", "ungrounded", "accepted"},
   primary |-> {"raises", "untyped", "faulted", "repeated"},
   advisory |-> {"raises", "untyped", "faulted", "repeated"},
   tracked |-> {"raises", "untyped", "faulted", "repeated"},
   recovery |-> {"none"}, door |-> {"listed", "garbled"},
   lazy |-> {"eager", "broken", "unstarted", "garbled"}, directory |-> {"none"},
   text |-> {"unparsable"}, goal |-> {"reached"}]

\* DomainPackage lets no tracked episode differ where there is no reasoning track.
ASSUME PackagesAssumption ==
  \A p \in Packages :
    /\ \A f \in DOMAIN Shapes : p[f] \in {Sound[f]} \cup Shapes[f]
    /\ p.layout \subseteq Files \X Targets
    /\ p.reasoning = "none" => p.tracked = "ended"

LibraryCodes ==
  {"DK010", "DK011", "DK012", "DK013", "DK014", "DK015", "DK016", "DK017", "DK018",
   "DK020", "DK030", "DK031", "DK032", "DK040", "DK041", "DK042", "DK043", "DK050",
   "DK051", "DK052", "DK060", "DK070", "DK071", "DK090"}

CLICodes == {"DK001", "DK002", "DK080", "DK081", "DK082"}

AllCodes == LibraryCodes \cup CLICodes

ASSUME NoCodeAssumption == NoCode \notin AllCodes

Stages ==
  {"lookup", "task", "services", "track", "comparator", "environment", "reasoning", "reset",
   "observe", "plan", "ungrounded", "refusal", "evaluate", "predict", "inapplicable",
   "primary", "advisory", "tracked", "fill", "layout", "lazy", "done", "lost"}

TypeOK ==
  /\ package \in Packages
  /\ stage \in Stages
  /\ findings \subseteq AllCodes \X {"PASS", "WARN", "FAIL", "SKIPPED"}
  /\ {blocked, reason} \subseteq AllCodes \cup {NoCode}
  /\ made \subseteq {"services", "track", "environment", "state", "head"}

-----------------------------------------------------------------------------
(* The check runner                                                        *)

Pass(code) == {<<code, "PASS">>}
Warn(code) == {<<code, "WARN">>}
Fail(code) == {<<code, "FAIL">>}
Skip(code) == {<<code, "SKIPPED">>}

Judged(code, sound) == IF sound THEN Pass(code) ELSE Fail(code)

Check(here, there, found, blocks, fixtures) ==
  /\ stage = here
  /\ stage' = there
  /\ findings' = findings \cup found
  /\ blocked' = IF blocked = NoCode THEN blocks ELSE blocked
  /\ made' = made \cup fixtures
  /\ UNCHANGED <<package, reason>>

Omit(here, there) == Check(here, there, {}, NoCode, {})

\* Mutant: the guard swallows the exception.
FactorySwallows(here, there, code, shape, fixtures) ==
  Check(here, there, IF shape = "raises" THEN {} ELSE Judged(code, shape # "lacking"),
        IF shape = "lacking" THEN code ELSE NoCode,
        IF shape = "raises" THEN {} ELSE fixtures)

\* A factory that raises leaves its FAIL and no fixture, but blocks nothing; a component
\* that lacks a member of its contract is kept and blocks what depends on it.
Factory(here, there, code, shape, fixtures) ==
  Check(here, there, Judged(code, shape \notin {"raises", "lacking"}),
        IF shape = "lacking" THEN code ELSE NoCode,
        IF shape = "raises" THEN {} ELSE fixtures)

-----------------------------------------------------------------------------
(* The registry                                                            *)

Init ==
  /\ package \in Packages
  /\ stage = "lookup"
  /\ findings = {}
  /\ blocked = NoCode
  /\ made = {}
  /\ reason = NoCode

\* An unknown name, and a value that is no package, end the validation here.
Lookup ==
  LET end   == IF package.entry \in {"absent", "foreign"} THEN "done" ELSE "task"
      found == IF package.entry = "absent" THEN Fail("DK001")
               ELSE Pass("DK001") \cup Judged("DK002", package.entry = "registered")
  IN  Check("lookup", end, found, NoCode, {})

-----------------------------------------------------------------------------
(* DK010 - DK020: contracts                                                *)

CheckTask        == Factory("task", "services", "DK014", package.task, {})
CheckServices    == Factory("services", "track", "DK010", package.services, {"services"})
CheckTrack       == Factory("track", "comparator", "DK011", package.track, {"track"})
CheckEnvironment == Factory("environment", "reasoning", "DK013", package.environment,
                            {"environment"})

CheckComparator ==
  IF package.comparator = "none"
    THEN Check("comparator", "environment", Skip("DK012"), NoCode, {})
    ELSE Factory("comparator", "environment", "DK012", package.comparator, {})

CheckReasoning ==
  /\ stage = "reasoning"
  /\ LET shape == package.reasoning
         found == Pass("DK020") \cup
                  IF shape = "none" THEN Skip("DK017")
                  ELSE Judged("DK017", shape = "ok")
     IN  Check("reasoning", "reset", found, IF shape = "lacking" THEN "DK017" ELSE NoCode, {})

-----------------------------------------------------------------------------
(* DK030 - DK032: environment                                              *)

CheckReset ==
  IF "environment" \notin made \/ blocked = "DK013" THEN Omit("reset", "observe")
  ELSE LET shape == package.reset
           found == CASE shape = "raises"  -> Fail("DK030")
                      [] shape = "lacking" -> Fail("DK015")
                      [] OTHER             -> Pass("DK015") \cup Judged("DK030", shape = "ok")
       IN  Check("reset", "observe", found, IF shape = "lacking" THEN "DK015" ELSE NoCode,
                 IF shape = "raises" THEN {} ELSE {"state"})

CheckObserve ==
  IF "state" \notin made THEN Omit("observe", "plan")
  ELSE Check("observe", "plan", Judged("DK031", package.observe = "ok"), NoCode, {})

CheckRefusal ==
  IF "head" \notin made THEN Omit("refusal", "evaluate")
  ELSE Check("refusal", "evaluate", Judged("DK032", package.refusal = "ok"), NoCode, {})

-----------------------------------------------------------------------------
(* DK040 - DK043, DK090: plan                                              *)

\* Planning a second time; if that raises, the guard of DK040 takes it and the rest of the
\* check is lost.
Again(rest) ==
  IF package.again = "raises" THEN Fail("DK040")
  ELSE Judged("DK042", package.again = "ok") \cup rest

HeadFindings ==
  CASE package.head = "lacking"   -> Fail("DK016")
    [] package.head = "identity"  -> Pass("DK016") \cup Fail("DK018")
    [] OTHER ->
         Pass("DK016") \cup Pass("DK018") \cup
         Again(CASE package.ground = "raises"  -> Fail("DK040")
                 [] package.ground = "unknown" -> Fail("DK041")
                 [] OTHER -> Pass("DK041") \cup Judged("DK090", package.version = "ok"))

\* Only a plan has a head to go on with.
PlanFindings ==
  IF package.track = "unsyncable" \/ package.plan \in {"raises", "untyped"} THEN Fail("DK040")
  ELSE Pass("DK040") \cup
       CASE package.plan = "failure"         -> Fail("DK041")
         [] package.plan \in {"none", "empty"} -> Again(Warn("DK041"))
         [] OTHER                            -> HeadFindings

PlanBlocks ==
  IF package.track = "unsyncable" THEN NoCode
  ELSE CASE package.plan = "untyped" -> "DK040"
         [] package.plan = "found" /\ package.head = "lacking"  -> "DK016"
         [] package.plan = "found" /\ package.head = "identity" -> "DK018"
         [] OTHER -> NoCode

CheckPlan ==
  IF ~({"services", "track", "state"} \subseteq made) \/ blocked # NoCode
    THEN Omit("plan", "refusal")
    ELSE Check("plan", "ungrounded", PlanFindings, PlanBlocks,
               IF <<"DK041", "PASS">> \in PlanFindings THEN {"head"} ELSE {})

Example(code, shape) ==
  IF shape = "none" THEN Warn(code) ELSE Judged(code, shape = "ok")

CheckUngrounded ==
  Check("ungrounded", "refusal", Example("DK043", package.ungrounded), NoCode, {})

-----------------------------------------------------------------------------
(* DK050 - DK060: evaluate, predict                                        *)

CheckEvaluate ==
  IF "head" \notin made THEN Omit("evaluate", "inapplicable")
  ELSE LET shape == package.evaluate
           found == IF shape \in {"raises", "untyped"} THEN Fail("DK050")
                    ELSE Pass("DK050") \cup Judged("DK051", shape = "ok")
           blocks == CASE shape = "untyped"      -> "DK050"
                       [] shape = "inapplicable" -> "DK051"
                       [] OTHER                  -> NoCode
       IN  Check("evaluate", "predict", found, blocks, {})

CheckPredict ==
  Check("predict", "inapplicable",
        IF package.predict = "keyless" THEN Warn("DK060")
        ELSE Judged("DK060", package.predict = "ok"), NoCode, {})

\* The one check that asks for track and state but not for the services it calls.
CheckInapplicable ==
  IF ~({"track", "state"} \subseteq made) \/ blocked # NoCode
    THEN Omit("inapplicable", "primary")
    ELSE LET unable == "services" \notin made \/ package.track = "unsyncable"
         IN  Check("inapplicable", "primary",
                   IF package.inapplicable # "none" /\ unable THEN Fail("DK052")
                   ELSE Example("DK052", package.inapplicable), NoCode, {})

-----------------------------------------------------------------------------
(* DK070, DK071: execution                                                 *)

\* The first cycle asks the services again, unless the goal is reached: what they raise
\* escapes the loop, and a planner's failure, an unknown identity or a head that stays
\* inapplicable ends the episode FAULTED.  Without a plan it halts.  An untyped verdict of
\* evaluate() may be one the trace takes (None): the episode's own shape tells.
FirstCycleFails ==
  /\ package.goal = "open"
  /\ \/ package.plan \in {"raises", "untyped", "failure"}
     \/ /\ package.plan = "found"
        /\ \/ package.ground # "ok"
           \/ package.evaluate \in {"raises", "inapplicable"}
           \/ package.predict \in {"raises", "untyped"}

\* Mutant: the reasoning track is attached to every loop.
CrashesAlways(tracked) ==
  \/ package.comparator = "raises" \/ package.reset = "raises" \/ package.track = "unsyncable"
  \/ package.reasoning = "raises" \/ FirstCycleFails

\* Assembling a loop builds everything again; its run resets, syncs and plans.
Crashes(tracked) ==
  \/ package.comparator = "raises" \/ package.reset = "raises" \/ package.track = "unsyncable"
  \/ tracked /\ package.reasoning = "raises"
  \/ FirstCycleFails

Episode(code, shape, unrecovered, tracked) ==
  IF Crashes(tracked) \/ shape \in {"raises", "untyped", "faulted"} THEN Fail(code)
  ELSE IF shape = "repeated" /\ unrecovered /\ package.recovery = "none" THEN Warn(code)
  ELSE Pass(code)

Executable ==
  {"environment", "services", "track"} \subseteq made /\ blocked = NoCode

CheckPrimary ==
  IF ~Executable THEN Omit("primary", "fill")
  ELSE Check("primary", "advisory", Episode("DK070", package.primary, FALSE, FALSE), NoCode, {})

CheckAdvisory ==
  Check("advisory", "tracked", Episode("DK070", package.advisory, TRUE, FALSE), NoCode, {})

CheckTracked ==
  Check("tracked", "fill",
        IF package.reasoning = "none" THEN Skip("DK071")
        ELSE Episode("DK071", package.tracked, TRUE, TRUE), NoCode, {})

\* Mutant: only a report with a broken contract is completed.
FillBlocked ==
  /\ stage = "fill"
  /\ stage' = "layout"
  /\ findings' = IF blocked = NoCode THEN findings ELSE findings \cup
       {<<code, "SKIPPED">> : code \in LibraryCodes \ {f[1] : f \in findings}}
  /\ reason' = blocked
  /\ UNCHANGED <<package, blocked, made>>

FillMissing ==
  /\ stage = "fill"
  /\ stage' = "layout"
  /\ findings' = findings \cup
       {<<code, "SKIPPED">> : code \in LibraryCodes \ {f[1] : f \in findings}}
  /\ reason' = blocked
  /\ UNCHANGED <<package, blocked, made>>

-----------------------------------------------------------------------------
(* DK080 - DK082: the package directory                                    *)

\* Nothing guards these two: an exception takes the report with it.
Lose(here) == Omit(here, "lost")

\* A file that cannot be read and parsed; the import guard's own file is read only for a door.
Unreadable ==
  \/ package.text = "unparsable"
  \/ NeedsDoor(package.layout) /\ package.door = "garbled"

CheckLayout ==
  IF package.directory # "none" /\ Unreadable THEN Lose("layout")
  ELSE LET found == IF package.directory = "none" THEN Skip("DK080") \cup Skip("DK081")
                    ELSE Judged("DK080", Problems(package.layout) = {}) \cup
                         Judged("DK081", NeedsDoor(package.layout) => package.door = "listed")
       IN  Check("layout", "lazy", found, NoCode, {})

\* A fresh interpreter whose last line is not the list asked for is not caught either.
CheckLazyBackend ==
  IF package.directory # "none" /\ package.lazy = "garbled" THEN Lose("lazy")
  ELSE LET found == IF package.directory = "none" \/ package.lazy = "unstarted"
                    THEN Skip("DK082") ELSE Judged("DK082", package.lazy = "ok")
       IN  Check("lazy", "done", found, NoCode, {})

Next ==
  \/ Lookup \/ CheckTask \/ CheckServices \/ CheckTrack \/ CheckComparator
  \/ CheckEnvironment \/ CheckReasoning \/ CheckReset \/ CheckObserve \/ CheckPlan
  \/ CheckUngrounded \/ CheckRefusal \/ CheckEvaluate \/ CheckPredict
  \/ CheckInapplicable \/ CheckPrimary \/ CheckAdvisory \/ CheckTracked \/ FillMissing
  \/ CheckLayout \/ CheckLazyBackend

Spec == Init /\ [][Next]_vars

-----------------------------------------------------------------------------
(* Properties                                                              *)

Codes(status) == {f[1] : f \in {g \in findings : g[2] = status}}

Reported == stage = "done" /\ package.entry \notin {"absent", "foreign"}

Optional == {"DK012", "DK017", "DK071"}

\* The checks whose example the author did not supply.
Absent ==
  {code \in {"DK043", "DK052"} :
     (IF code = "DK043" THEN package.ungrounded ELSE package.inapplicable) = "none"}

\* Every code of the catalogue is in every report that comes out for a package that was
\* found (fill_missing), and a check without its example never passes.  Any other check that
\* is not optional is skipped only after a FAIL, the one the report tells the author to fix
\* first among them, or because the planner had no plan for the initial state; in that last
\* case the report's "an earlier check failed" is not so.
SkipsHaveCause ==
  Reported =>
    /\ AllCodes = {f[1] : f \in findings}
    /\ Absent \cap Codes("PASS") = {}
    /\ reason # NoCode => reason \in Codes("FAIL")
    /\ (Codes("SKIPPED") \cap LibraryCodes) \ (Optional \cup Absent) # {} =>
         Codes("FAIL") # {} \/ "DK041" \in Codes("WARN")

\* The answers a package gets wrong.
Defects ==
  {f \in DOMAIN Sound \ {"layout", "door", "recovery", "directory", "text", "goal"} :
     /\ package[f] # Sound[f] /\ package[f] \notin {"none", "repeated", "unstarted", "keyless"}
     /\ f = "lazy" => package.directory # "none"}

\* A report without a FAIL (exit status 0) overlooks no defect, however many there are,
\* except in what only a plan's first call is asked, when there is no plan.
OkIsSound ==
  Reported /\ Codes("FAIL") = {} =>
    \/ Defects \subseteq {"plan"}
    \/ /\ package.plan \in {"none", "empty"} /\ "DK041" \in Codes("WARN")
       /\ Defects \subseteq
            {"plan", "refusal", "head", "ground", "version", "evaluate", "predict"}

\* The later checks that ask for an answer again: an episode builds every component, resets,
\* syncs and runs the services; only the tracked one builds the reasoning track; DK052 calls
\* the services and reads the track's state.
AskedAgain(f) ==
  CASE f = "services"  -> {"DK052"}
    [] f = "track"     -> {"DK052", "DK070", "DK071"}
    [] f = "reasoning" -> {"DK071"}
    [] f \in {"comparator", "reset", "plan", "ground", "evaluate", "predict"} ->
         {"DK070", "DK071"}
    [] OTHER           -> {}

\* "one broken component never hides the others": a package with a single wrong answer gets
\* a FAIL of the check that owns it and, but for the later checks that ask for that answer
\* again, no other.
OneFaultOneFail ==
  Reported /\ package.layout = {} /\ package.plan \notin {"none", "empty"} =>
    \A f \in DOMAIN Sound :
      Defects = {f} => Cardinality(Codes("FAIL") \ AskedAgain(f)) = 1

\* When the layout passes, nothing that the symbolic files import, directly or through
\* another, is the environment, a backend or the runtime, unless it names __init__.py, which
\* counts as a sibling.
LayoutSeals ==
  "DK080" \in Codes("PASS") =>
    \A file \in Symbolic :
      LET brought == Brings(package.layout, file)
      IN  "__init__" \in brought \/
          brought \cap {"environment", "backend", "never", "composition", "package",
                        "domains", "dynamic"} = {}

=============================================================================
