SPECIFICATION Spec
CONSTANTS
  Corpora <- MCCorpora
  Budgets <- MCBudgets
  MakeCalls <- MCCalls
  CallLists <- MCCallLists
  Gates <- MCGates
  Comparisons <- MCComparisons
  Policies <- MCPolicies
INVARIANTS SelectionIsGreedy GateIsEarned VerdictIsFair FirstAnswerWins
CHECK_DEADLOCK FALSE
