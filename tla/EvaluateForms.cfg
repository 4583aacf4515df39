SPECIFICATION Spec
CONSTANTS
    Names <- MCNames
    Keywords <- MCKeywords
    Procedures <- MCProcedures
    Leaves <- MCLeaves
    Contexts <- MCContexts
    Toplevels <- MCToplevels
    MaxSize = 4
    Literals <- MCLiterals
    Patterns <- MCPatterns
    RuleTemplates <- MCRuleTemplates
    Operands <- MCOperands
    Templates <- MCTemplates
    Values <- MCValues
    HeapCells <- MCObjects
INVARIANTS
    EvaluationAgrees
    ExpansionExact
    QuasiquoteExact
CHECK_DEADLOCK FALSE
