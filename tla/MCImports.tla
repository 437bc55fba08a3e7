----------------------------- MODULE MCImports -----------------------------
(* Imports with two modules that share names, one of the standard library.  *)
EXTENDS Imports, TLC

CONSTANTS lib, aux, fa, fb, fc

Def(pub, params, required, calls) ==
  [pub |-> pub, params |-> params, required |-> required, calls |-> calls]

Pub == Def(TRUE, 0, 0, None)
Private == Def(FALSE, 0, 0, None)
Optional == Def(TRUE, 1, 0, None)
Asks(m, n) == Def(TRUE, 0, 0, [module |-> m, name |-> n, args |-> 0])

Holds(textF, textG, textH) == fa :> textF @@ fb :> textG @@ fc :> textH

\* A pub function beside a private one it may call, functions that call one of
\* their own, of another file, or of none, and names that a specific import may
\* take from them.
ModuleContents ==
  {Holds(Asks(None, fb), Private, None), Holds(Asks(aux, fb), None, None),
   Holds(None, Asks(None, fc), Pub), Holds(Optional, None, Pub),
   Holds(Asks(None, fc), None, None)}

ProgramContents ==
  {Holds(None, None, None), Holds(Asks(lib, fb), Optional, None)}
=============================================================================
