CONSTANT Programs <- AllPrograms
SPECIFICATION FairSpec
INVARIANTS  TailCallsConstant
PROPERTY EvaluationEnds
