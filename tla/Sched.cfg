CONSTANTS
  Env = {e1, e2, e3, e4}
  NULL = NULL
SPECIFICATION SchedSpec
INVARIANTS PromptOnlyWhenIdle
PROPERTIES RoundRobin NoStarvation
