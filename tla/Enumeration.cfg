SPECIFICATION EnumSpec
CONSTANT
  Lengths = {16, 32, 64, 255}
INVARIANTS
  WholeAnswers
  NamedIsAnswered
  ToldAsSetUp
