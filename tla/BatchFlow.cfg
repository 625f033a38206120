SPECIFICATION Spec
CONSTANTS
    Prompts = 4
    N = 2
    AgentWorkers = 2
    RewardWorkers = 4
    DpSize = 2
    SpSize = 2
    MiniPrompts = 2
    MaxTokens = 5
    InferTokens = 8
    MicroRows = 1
    Epochs = 2
    LossScale = 3
    Inputs <- MCInputs
INVARIANTS
    SharesAreFair
    RowsInPlace
    AdvantagesCentred
    GradientOfWholeBatch
    RanksGoOn
\* The batch is done.
CHECK_DEADLOCK FALSE
