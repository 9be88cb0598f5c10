CONSTANTS
  Thread = {t1, t2}
  Ids <- MCIds
  Datas <- MCDatas
  MaxTexts = 3
SPECIFICATION Spec
SYMMETRY Symmetry
INVARIANTS ParsedAloneIsKept NeverTakenForNull
CHECK_DEADLOCK FALSE
