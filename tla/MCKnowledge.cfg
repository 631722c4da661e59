\* Every request ends: the system stops when all have.
CHECK_DEADLOCK FALSE
SPECIFICATION MCSpec
CONSTANTS
    None = None
    MaxRequests = 3
    OnlyKinds = {"collect", "decide", "evaluate", "generate", "monitor"}
    Requests <- MCRequests
    Mentions <- MCMentions
    TrendInputs <- MCTrendInputs
    Judgements <- MCJudgements
    Verdicts <- MCVerdicts
INVARIANTS
    TypeOK
    HistoryIsKept
PROPERTIES
    NamesStayTogether
    EventsAreMoves
