SPECIFICATION Spec
CONSTANTS
  MaxCases = 2
  MaxEvals = 3
  MaxDeaths = 1
  Groups = {2}
  Listed = {0, 1, 2, 3}
  Facts <- SomeFacts
  MaxReruns = 2
  MaxFaults = 1
  MaxForward = 3
  MaxStatements = 4
  Values = {0, 1, 8192, 8193}
  MaxValue = 9000
  MaxSize = 2
  MaxCompared = 2
  MaxOps = 2
  Descs <- SomeDescs
  Reasons = {"short", "fits", "long"}
  RoundEnds = {"KEEP", "FAIL"}
  MaxItems = 3
  MaxPlans = 2
  Leads <- SomeLeads
  Tails <- SomeTails
  MaxRounds = 4
  FailThreshold = 2
  DiagCap = 1
  PlanSizes = {3}
  Slots = 2
  Overlaps = 1
  GatePlans = 2
  GateRounds = 3
  Logic = {"kernel", "host"}
  Fixed = {"cmake"}
  Contents <- SomeContents
  Retries = 1
  MaxAnswers = 2
  MaxKills = 1
  MaxResumes = 2
  Impls = {"triton_ascend_impl", "triton_optimized"}
  InputGroups = {0, 2}
  Kernels <- SomeKernels
  Framework <- SomeFramework
  Overhead = 5
  Given = {0, 4}
INVARIANTS
  EvaluationIsTrue
  ReportIsTrue
  ShownCaseFailed
  GatesAreOrdered
  SourceVerdictsAreTrue
  ComparisonsAreTrue
  
  GuidanceIsAllowed
  EditHasItem
  CandidateIsWhole
  BenchmarkIsTrue
PROPERTIES
  TextIsPlan
CHECK_DEADLOCK FALSE
