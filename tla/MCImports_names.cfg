CONSTANTS
  lib = lib
  aux = aux
  fa = fa
  fb = fb
  fc = fc
  None = None
  Modules = {lib, aux}
  Std = {aux}
  Names = {fa, fb, fc}
  Contents <- ModuleContents
  OwnContents <- ProgramContents
  MaxArgs = 1
  MaxUses = 3
SPECIFICATION Spec
INVARIANTS SameCallee OneMeaning Builds FoundAlike
PROPERTY PrivateStaysPrivate
CHECK_DEADLOCK FALSE
