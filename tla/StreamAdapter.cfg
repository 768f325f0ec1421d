SPECIFICATION Spec
CONSTANTS
  Answers <- MCAnswers
  Providers = {"swiftlm", "vllm", "llamacpp"}
  None = None
CHECK_DEADLOCK FALSE
INVARIANTS
  ClientStream
  AnswerText
  UsageRecorded
