CONSTANTS
  lib = lib
  aux = aux
  fa = fa
  fb = fb
  fc = fc
  None = None
  Modules = {lib, aux}
  Std = {aux}
  Names = {fa, fb, fc}
  Contents <- ModuleContents
  OwnContents <- ProgramContents
  MaxArgs = 1
  MaxUses = 1
SPECIFICATION Spec
INVARIANT EarlyCallsAreFound
CHECK_DEADLOCK FALSE
