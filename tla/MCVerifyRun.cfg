CONSTANTS
    N = 2
    Ladders <- MCLadders
    run_budget_ms = 2
    property_budget_ms = 1
    Designs <- MCDesigns
    MaxNow = 2
    Unbounded = Unbounded
    None = None
    Word = 4
SPECIFICATION Spec
INVARIANTS SoundReport DecidedRowsShip BreadcrumbTrue PairOnlyStale
PROPERTY BudgetExact
