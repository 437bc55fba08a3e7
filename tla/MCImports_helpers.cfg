CONSTANTS
  lib = lib
  aux = aux
  fa = fa
  fb = fb
  fc = fc
  None = None
  Modules = {lib, aux}
  Std = {aux}
  Names = {fa, fb, fc}
  Contents <- ModuleContents
  OwnContents <- ProgramContents
  MaxArgs = 1
  MaxUses = 2
SPECIFICATION Spec
INVARIANT HelpersAreFound
CHECK_DEADLOCK FALSE
