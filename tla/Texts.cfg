SPECIFICATION Spec
CONSTANTS
  Palettes <- MCPalettes
  RuleVariables = {"ARGS", "TX", "XML"}
  XPathVariables = {"XML", "JSON"}
  Operators = {"rx", "eq"}
  Collections <- MCCollections
  Actions = {"id", "deny", "msg"}
INVARIANTS EscapesDecoded NormalFormsSettle PathsResolved ConditionAsWritten ActionsAsWritten MacrosExpanded
CHECK_DEADLOCK FALSE
