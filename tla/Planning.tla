------------------------------ MODULE Planning ------------------------------
(***************************************************************************)
(* Planning before and behind the planner: a document is cut into windows  *)
(* that fit the budget of a request (PlanningWindows), and the plan of a   *)
(* window is made into chunks (PlanMaterializer).  A behaviour is one of   *)
(* the two; the other stays where it begins.                               *)
(***************************************************************************)
EXTENDS PlanningWindows

CONSTANTS RowsOf, PlanOps, Contexts, MaxOps, MaxItems    \* as in PlanMaterializer

VARIABLES
    part,                                     \* "windows" or "plan"
    verdict, items, full, ranges, chunks      \* PlanMaterializer, verdict is its phase

Plan == INSTANCE PlanMaterializer WITH phase <- verdict

ASSUME PlanAssumption == Plan!InputsAssumption

planVars == <<verdict, items, full, ranges, chunks>>
allVars == <<part, vars, planVars>>

PlanningInit == part \in {"windows", "plan"} /\ Init /\ Plan!Init

WindowsStep == part = "windows" /\ Next /\ UNCHANGED <<part, planVars>>
PlanStep == part = "plan" /\ Plan!Next /\ UNCHANGED <<part, vars>>
WindowsDone == part = "windows" /\ phase # "splitting" /\ UNCHANGED allVars

PlanningSpec == PlanningInit /\ [][WindowsStep \/ PlanStep \/ WindowsDone]_allVars

\* The recursion of windows() is a loop of one thread.
PlanningFairSpec == PlanningSpec /\ WF_allVars(WindowsStep)

\* Whatever the plan says, the chunks hold every unit and every row of the window
\* once and in order, and name as context only what a reader has seen before
\* (PlanMaterializer!ResultRight).
ResultRight == Plan!ResultRight

\* A plan that keeps the source order is never thrown away for what it leaves out
\* (PlanMaterializer!GapsRepaired).
GapsRepaired == Plan!GapsRepaired

\* windows() returns, or a counter raised.
WindowsReturn == part = "windows" => Returns

=============================================================================
