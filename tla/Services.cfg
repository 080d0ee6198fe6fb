\* Small, large and refused objects, the program's operations in any order.
SPECIFICATION Spec
CONSTANTS
  small = small
  large = large
  huge = huge
  Objects = {small, large, huge}
  NoObject = NoObject
  SizeOf <- MCSizeOf
  GrowthSize = 1048576
  BeginGap = 24
PROPERTIES
  AnswersGoWrong
  ImplementsCollector
  WaitReturns
