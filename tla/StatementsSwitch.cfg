SPECIFICATION CodeSpec
CONSTANTS
  Parts = {"deep"}
  WordBits = 16
  LimbBytes = 2
  LimbDigits = 4
  JS_ATOM_END = 70
  OpSize <- Opcodes
  OpAtom = {1, 2}
  WriterAtoms <- Atoms1
  ReaderAtoms <- Atoms2
  Inputs <- AllInputs
CHECK_DEADLOCK FALSE
INVARIANT
    LegalAccepted
