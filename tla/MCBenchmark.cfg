SPECIFICATION Spec
CONSTANTS
  Missing = missing
  Systems = {s1, s2}
  Exams <- AllExams
  Routine <- RoutineExam
  MaxHistory = 1
  MaxFrames = 4
  MaxRuns = 7
SYMMETRY Symmetric
INVARIANTS
  PairsAreTheNearest
  StrataAddUp
  VerdictsAgreeWithSamples
  ListedResultsAreKept
