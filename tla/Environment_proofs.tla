-------------------------- MODULE Environment_proofs --------------------------
(***************************************************************************)
(* Proofs about what the interpreter stores values in.  Environment, for   *)
(* any names, data, signatures and bounds, of programs that use every name *)
(* for one thing (TidySpec); then DictObj, for any keys and values.        *)
(***************************************************************************)
EXTENDS Environment, DictObj, TLAPS, SequenceTheorems, WellFoundedInduction

-----------------------------------------------------------------------------
(* The invariant.                                                          *)

EnvsOK ==
  /\ envs \in Seq(Env) /\ Len(envs) \in 1 .. MaxEnvs
  /\ \A e \in DOMAIN envs : {Global, e} \subseteq envs[e].scope
                            /\ envs[e].scope \subseteq 1 .. e

\* What encloses an environment of a scope is in that scope.
Chains ==
  \A e \in DOMAIN envs : \A d \in envs[e].scope :
    envs[d].scope = envs[e].scope \cap (1 .. d)

\* A variable with a type has a value, and no environment inside of its own
\* has another variable of that name.
TypedOnce ==
  \A d \in DOMAIN envs : \A n \in Names :
    envs[d].types[n] # None =>
      /\ n \in VarNames
      /\ envs[d].store[n] # None
      /\ \A c \in DOMAIN envs : d \in envs[c].scope /\ c # d => envs[c].store[n] = None

ConstsTyped ==
  \A d \in DOMAIN envs : \A n \in envs[d].consts : envs[d].types[n] # None

EInv == EnvsOK /\ Chains /\ TypedOnce /\ ConstsTyped /\ TypedKeepsType

FramesOK ==
  /\ frames \in Seq(Frame) /\ frames # << >>
  /\ \A i \in DOMAIN frames : frames[i].env \in DOMAIN envs

\* A call is evaluated in a newer environment than its caller.
Stack ==
  \A i, j \in DOMAIN frames : i < j => frames[j].env < frames[i].env

GoodTarget(t) ==
  /\ t \in Target
  /\ t.kind \in {"assign", "compound", "typed", "const"} => t.name \in VarNames
  /\ t.kind = "bind" => t.name \in BoundNames
  /\ t.kind \in {"typed", "const"} => t.type \in Declared

\* What was found before a call still holds when it returns: the variable that
\* the caller will assign is no const yet.
Pending ==
  \A i \in DOMAIN frames :
    /\ GoodTarget(frames[i].goes)
    /\ frames[i].goes.kind \in {"assign", "compound"} /\ i + 1 \in DOMAIN frames =>
         ~IsConst(frames[i + 1].env, frames[i].goes.name)

\* Only the innermost call binds parameters, in the newest environment, and
\* none of the environments around has a variable of that name.
Todo ==
  /\ \A i \in DOMAIN frames : frames[i].todo # << >> => i = 1
  /\ ~InBody =>
       /\ Here = Len(envs)
       /\ \A i \in DOMAIN Head(frames).todo : \A c \in envs[Here].scope :
            c # Here => envs[c].store[Head(frames).todo[i].name] = None

\* A function can be called without its parameters meeting a variable.
Good(v) ==
  /\ v \in Value
  /\ v \notin Data =>
       /\ v.env \in DOMAIN envs
       /\ ~InBody => v.env # Len(envs)
       /\ FreshParams(v.env, v.says)

Held ==
  /\ \A d \in DOMAIN envs : \A n \in Names : \A v \in Value :
       envs[d].store[n] = v => Good(v)
  /\ \A i \in DOMAIN Head(frames).todo : \A v \in Value :
       Head(frames).todo[i].value = v => Good(v)

IInv ==
  /\ NamesDisjoint
  /\ EInv
  /\ FramesOK /\ Stack /\ Pending /\ Todo
  /\ Held

-----------------------------------------------------------------------------
(* Innermost environments.                                                 *)

LEMMA Maximum ==
  ASSUME NEW k \in Nat, NEW S, S \subseteq 1 .. k, S # {}
  PROVE  \E d \in S : \A c \in S : c =< d
<1> DEFINE T == {k - d : d \in S}
           R == {ss \in Nat \X Nat : ss[1] < ss[2]}
<1>1. IsWellFoundedOn(R, Nat)
  BY NatLessThanWellFounded DEF OpToRel
<1>2. T \subseteq Nat /\ T # {}
  <2>1. PICK d \in S : TRUE
    OBVIOUS
  <2>2. k - d \in T
    BY <2>1
  <2>3. ASSUME NEW c \in S
        PROVE  k - c \in Nat
    <3>1. c \in 1 .. k
      OBVIOUS
    <3>2. QED BY <3>1
  <2>4. QED BY <2>2, <2>3
<1>3. PICK x \in T : \A y \in T : ~ (<<y, x>> \in R)
  BY <1>1, <1>2, WFMin
<1>4. PICK d \in S : x = k - d
  OBVIOUS
<1>5. ASSUME NEW c \in S
      PROVE  c =< d
  <2>1. ~ (<<k - c, x>> \in R)
    BY <1>3
  <2>2. ~ (k - c < x)
    BY <1>2, <2>1
  <2>3. QED BY <1>4, <2>2
<1>6. QED BY <1>5

LEMMA InnermostIn ==
  ASSUME NEW k \in Nat, NEW S, S \subseteq 1 .. k, S # {}
  PROVE  Innermost(S) \in S /\ \A c \in S : c =< Innermost(S)
BY Maximum DEF Innermost

LEMMA InnermostIs ==
  ASSUME NEW k \in Nat, NEW S, S \subseteq 1 .. k,
         NEW d \in S, \A c \in S : c =< d
  PROVE  Innermost(S) = d
<1>1. Innermost(S) \in S /\ \A c \in S : c =< Innermost(S)
  BY InnermostIn
<1>2. Innermost(S) \in Nat /\ d \in Nat
  <2>1. \A c \in 1 .. k : c \in Nat
    OBVIOUS
  <2>2. QED BY <1>1, <2>1
<1>3. Innermost(S) =< d /\ d =< Innermost(S)
  BY <1>1
<1>4. QED BY <1>2, <1>3

LEMMA EnvParts ==
  ASSUME EnvsOK, NEW e \in DOMAIN envs
  PROVE  /\ Len(envs) \in Nat /\ DOMAIN envs = 1 .. Len(envs) /\ e \in Nat
         /\ envs[e] = [store |-> envs[e].store, types |-> envs[e].types,
                       consts |-> envs[e].consts, scope |-> envs[e].scope]
         /\ envs[e].store \in [Names -> Value \cup {None}]
         /\ envs[e].types \in [Names -> Types \cup {None}]
         /\ envs[e].consts \subseteq Names
         /\ envs[e].scope \subseteq 1 .. MaxEnvs
         /\ envs[e].scope \subseteq 1 .. e
         /\ envs[e].scope \subseteq DOMAIN envs
         /\ e \in envs[e].scope
<1>1. /\ Len(envs) \in Nat /\ DOMAIN envs = 1 .. Len(envs)
      /\ envs[e] \in Env
      /\ envs[e].scope \subseteq 1 .. e /\ e \in envs[e].scope
  BY DEF EnvsOK
<1>2. QED BY <1>1 DEF Env

LEMMA HomeFacts ==
  ASSUME EnvsOK, NEW e \in DOMAIN envs, NEW n
  PROVE  /\ Home(e, n) \in envs[e].scope
         /\ Home(e, n) \in DOMAIN envs
         /\ Visible(e, n) => /\ envs[Home(e, n)].store[n] # None
                             /\ \A c \in envs[e].scope :
                                  envs[c].store[n] # None => c =< Home(e, n)
         /\ ~Visible(e, n) => /\ Home(e, n) = e
                              /\ \A c \in envs[e].scope : envs[c].store[n] = None
<1>1. e \in Nat /\ envs[e].scope \subseteq 1 .. e /\ envs[e].scope \subseteq DOMAIN envs
      /\ e \in envs[e].scope
  BY EnvParts
<1>2. CASE Visible(e, n)
  <2>1. Holders(e, n) \subseteq 1 .. e /\ Holders(e, n) # {}
    BY <1>1, <1>2 DEF Visible, Holders
  <2>2. Home(e, n) \in Holders(e, n) /\ \A c \in Holders(e, n) : c =< Home(e, n)
    BY <1>1, <1>2, <2>1, InnermostIn DEF Home
  <2>3. QED BY <1>1, <1>2, <2>2 DEF Holders
<1>3. CASE ~Visible(e, n)
  BY <1>1, <1>3 DEF Visible, Holders, Home
<1>4. QED BY <1>2, <1>3

\* Where one environment of a scope holds n and none inside of it does.
LEMMA HomeIs ==
  ASSUME EnvsOK, NEW e \in DOMAIN envs, NEW n, NEW d \in envs[e].scope,
         envs[d].store[n] # None,
         \A c \in envs[e].scope : envs[c].store[n] # None => c =< d
  PROVE  Home(e, n) = d /\ Visible(e, n)
<1>1. e \in Nat /\ envs[e].scope \subseteq 1 .. e
  BY EnvParts
<1>2. Holders(e, n) \subseteq 1 .. e /\ d \in Holders(e, n)
      /\ \A c \in Holders(e, n) : c =< d
  BY <1>1 DEF Holders
<1>3. QED BY <1>1, <1>2, InnermostIs DEF Home, Visible

\* The checks are those of the variable that is written.
LEMMA ChecksAreTheBindings ==
  ASSUME EInv
  PROVE  ChecksFollowBinding
<1> SUFFICES ASSUME NEW e \in DOMAIN envs, NEW n \in Names, Visible(e, n)
             PROVE  /\ GetType(e, n) = envs[Home(e, n)].types[n]
                    /\ IsConst(e, n) <=> n \in envs[Home(e, n)].consts
  BY DEF ChecksFollowBinding
<1> DEFINE h == Home(e, n)
<1>1. EnvsOK /\ Chains /\ TypedOnce /\ ConstsTyped
  BY DEF EInv
<1>2. /\ h \in envs[e].scope /\ h \in DOMAIN envs
      /\ envs[h].store[n] # None
      /\ \A c \in envs[e].scope : envs[c].store[n] # None => c =< h
  BY <1>1, HomeFacts
<1>3. e \in Nat /\ envs[e].scope \subseteq 1 .. e /\ envs[e].scope \subseteq DOMAIN envs
  BY <1>1, EnvParts
<1>4. ASSUME NEW d \in envs[e].scope, envs[d].types[n] # None
      PROVE  d = h
  <2>1. d \in DOMAIN envs /\ d \in 1 .. e /\ h \in 1 .. e
    BY <1>2, <1>3
  <2>2. envs[d].store[n] # None
    BY <1>1, <1>4, <2>1 DEF TypedOnce
  <2>3. d =< h
    BY <1>2, <2>2
  <2>4. d \in envs[h].scope
    <3>1. envs[h].scope = envs[e].scope \cap (1 .. h)
      BY <1>1, <1>2 DEF Chains
    <3>2. d \in 1 .. h
      BY <1>3, <2>1, <2>3
    <3>3. QED BY <3>1, <3>2
  <2>5. QED BY <1>1, <1>2, <1>4, <2>1, <2>4 DEF TypedOnce
<1>5. GetType(e, n) = envs[h].types[n]
  <2>1. CASE Typers(e, n) = {}
    BY <1>2, <2>1 DEF GetType, Typers
  <2>2. CASE Typers(e, n) # {}
    <3>1. Typers(e, n) \subseteq 1 .. e
      BY <1>3 DEF Typers
    <3>2. Innermost(Typers(e, n)) \in Typers(e, n)
      BY <1>3, <2>2, <3>1, InnermostIn
    <3>3. Innermost(Typers(e, n)) = h
      BY <1>4, <3>2 DEF Typers
    <3>4. QED BY <2>2, <3>3 DEF GetType
  <2>3. QED BY <2>1, <2>2
<1>6. IsConst(e, n) <=> n \in envs[h].consts
  BY <1>1, <1>2, <1>3, <1>4 DEF IsConst, ConstsTyped
<1>7. QED BY <1>5, <1>6

-----------------------------------------------------------------------------
(* The three writes.                                                       *)

SameShape ==
  /\ envs' \in Seq(Env) /\ Len(envs') = Len(envs) /\ DOMAIN envs' = DOMAIN envs
  /\ \A c \in DOMAIN envs : envs'[c].scope = envs[c].scope

\* The only place that changes is n of environment h.
StoresAt(h, n, v) ==
  \A c \in DOMAIN envs : \A m \in Names :
    envs'[c].store[m] = IF c = h /\ m = n THEN v ELSE envs[c].store[m]

ChecksSame ==
  \A c \in DOMAIN envs :
    envs'[c].types = envs[c].types /\ envs'[c].consts = envs[c].consts

DeclaresAt(h, n, ty) ==
  \A c \in DOMAIN envs :
    /\ \A m \in Names :
         envs'[c].types[m] = IF c = h /\ m = n THEN ty ELSE envs[c].types[m]
    /\ envs'[c].consts \subseteq envs[c].consts \cup (IF c = h THEN {n} ELSE {})
    /\ envs[c].consts \subseteq envs'[c].consts

\* The same of two values of envs, for writes of one field each.
Alike(es, fs) ==
  /\ fs \in Seq(Env) /\ Len(fs) = Len(es) /\ DOMAIN fs = DOMAIN es
  /\ \A c \in DOMAIN es : fs[c].scope = es[c].scope

StoreSet(es, h, n, v) == [es EXCEPT ![h].store[n] = v]
TypeSet(es, h, n, ty) == [es EXCEPT ![h].types[n] = ty]
ConstAdded(es, h, n) == [es EXCEPT ![h].consts = @ \cup {n}]

LEMMA StoreWrite ==
  ASSUME NEW es \in Seq(Env), NEW h \in DOMAIN es, NEW n \in Names, NEW v \in Value,
         NEW fs, fs = StoreSet(es, h, n, v)
  PROVE  /\ Alike(es, fs)
         /\ \A c \in DOMAIN es : fs[c].types = es[c].types /\ fs[c].consts = es[c].consts
         /\ \A c \in DOMAIN es : \A m \in Names :
              fs[c].store[m] = IF c = h /\ m = n THEN v ELSE es[c].store[m]
<1> DEFINE new == [es[h] EXCEPT !.store[n] = v]
<1>1. fs = [es EXCEPT ![h] = new] /\ DOMAIN fs = DOMAIN es
  BY DEF StoreSet
<1>2. /\ new.types = es[h].types /\ new.consts = es[h].consts
      /\ new.scope = es[h].scope
      /\ new.store = [es[h].store EXCEPT ![n] = v]
      /\ new \in Env /\ es[h].store \in [Names -> Value \cup {None}]
  <2>1. es[h] \in Env
    OBVIOUS
  <2>2. QED BY <2>1 DEF Env
<1> HIDE DEF new
<1>3. fs \in Seq(Env) /\ Len(fs) = Len(es)
  BY <1>1, <1>2
<1>4. QED BY <1>1, <1>2, <1>3 DEF Alike

LEMMA TypeWrite ==
  ASSUME NEW es \in Seq(Env), NEW h \in DOMAIN es, NEW n \in Names, NEW ty \in Types,
         NEW fs, fs = TypeSet(es, h, n, ty)
  PROVE  /\ Alike(es, fs)
         /\ \A c \in DOMAIN es : fs[c].store = es[c].store /\ fs[c].consts = es[c].consts
         /\ \A c \in DOMAIN es : \A m \in Names :
              fs[c].types[m] = IF c = h /\ m = n THEN ty ELSE es[c].types[m]
<1> DEFINE new == [es[h] EXCEPT !.types[n] = ty]
<1>1. fs = [es EXCEPT ![h] = new] /\ DOMAIN fs = DOMAIN es
  BY DEF TypeSet
<1>2. /\ new.store = es[h].store /\ new.consts = es[h].consts
      /\ new.scope = es[h].scope
      /\ new.types = [es[h].types EXCEPT ![n] = ty]
      /\ new \in Env /\ es[h].types \in [Names -> Types \cup {None}]
  <2>1. es[h] \in Env
    OBVIOUS
  <2>2. QED BY <2>1 DEF Env
<1> HIDE DEF new
<1>3. fs \in Seq(Env) /\ Len(fs) = Len(es)
  BY <1>1, <1>2
<1>4. QED BY <1>1, <1>2, <1>3 DEF Alike

LEMMA ConstWrite ==
  ASSUME NEW es \in Seq(Env), NEW h \in DOMAIN es, NEW n \in Names,
         NEW fs, fs = ConstAdded(es, h, n)
  PROVE  /\ Alike(es, fs)
         /\ \A c \in DOMAIN es : fs[c].store = es[c].store /\ fs[c].types = es[c].types
         /\ \A c \in DOMAIN es :
              fs[c].consts = es[c].consts \cup (IF c = h THEN {n} ELSE {})
<1> DEFINE new == [es[h] EXCEPT !.consts = es[h].consts \cup {n}]
<1>1. fs = [es EXCEPT ![h] = new] /\ DOMAIN fs = DOMAIN es
  BY DEF ConstAdded
<1>2. /\ new.store = es[h].store /\ new.types = es[h].types
      /\ new.scope = es[h].scope
      /\ new.consts = es[h].consts \cup {n}
      /\ new \in Env
  <2>1. es[h] \in Env
    OBVIOUS
  <2>2. QED BY <2>1 DEF Env
<1> HIDE DEF new
<1>3. fs \in Seq(Env) /\ Len(fs) = Len(es)
  BY <1>1, <1>2
<1>4. QED BY <1>1, <1>2, <1>3 DEF Alike

LEMMA SetWrites ==
  ASSUME EnvsOK, NEW h \in DOMAIN envs, NEW n \in Names, NEW v \in Value,
         envs' = [envs EXCEPT ![h].store[n] = v]
  PROVE  SameShape /\ StoresAt(h, n, v) /\ ChecksSame
<1>1. envs \in Seq(Env)
  BY DEF EnvsOK
<1>2. /\ Alike(envs, envs')
      /\ \A c \in DOMAIN envs : envs'[c].types = envs[c].types /\ envs'[c].consts = envs[c].consts
      /\ \A c \in DOMAIN envs : \A m \in Names :
           envs'[c].store[m] = IF c = h /\ m = n THEN v ELSE envs[c].store[m]
  <2> DEFINE fs == StoreSet(envs, h, n, v)
  <2>1. envs' = fs
    BY DEF StoreSet
  <2>2. /\ Alike(envs, fs)
        /\ \A c \in DOMAIN envs : fs[c].types = envs[c].types /\ fs[c].consts = envs[c].consts
        /\ \A c \in DOMAIN envs : \A m \in Names :
             fs[c].store[m] = IF c = h /\ m = n THEN v ELSE envs[c].store[m]
    BY <1>1, StoreWrite
  <2> HIDE DEF fs
  <2>3. Alike(envs, envs')
    BY <2>1, <2>2
  <2>4. \A c \in DOMAIN envs : envs'[c].types = envs[c].types /\ envs'[c].consts = envs[c].consts
    BY <2>1, <2>2
  <2>5. ASSUME NEW c \in DOMAIN envs, NEW m \in Names
        PROVE  envs'[c].store[m] = IF c = h /\ m = n THEN v ELSE envs[c].store[m]
    <3>1. fs[c].store[m] = IF c = h /\ m = n THEN v ELSE envs[c].store[m]
      BY <2>2
    <3>2. QED BY <2>1, <3>1, Zenon
  <2>6. QED BY <2>3, <2>4, <2>5, Zenon
<1>3. QED BY <1>2 DEF Alike, SameShape, StoresAt, ChecksSame

LEMMA DeclarationWrites ==
  ASSUME EnvsOK, NEW h \in DOMAIN envs, NEW n \in Names, NEW v \in Value,
         NEW ty \in Types,
         envs' = SetTyped(h, n, ty, v) \/ envs' = SetConst(h, n, ty, v)
  PROVE  SameShape /\ StoresAt(h, n, v) /\ DeclaresAt(h, n, ty)
<1> DEFINE mid == StoreSet(envs, h, n, v)
           end == TypeSet(mid, h, n, ty)
           all == ConstAdded(end, h, n)
<1>1. envs' = end \/ envs' = all
  BY DEF SetTyped, SetConst, StoreSet, TypeSet, ConstAdded
<1>2. /\ Alike(envs, mid)
      /\ \A c \in DOMAIN envs : mid[c].types = envs[c].types /\ mid[c].consts = envs[c].consts
      /\ \A c \in DOMAIN envs : \A m \in Names :
           mid[c].store[m] = IF c = h /\ m = n THEN v ELSE envs[c].store[m]
  <2>1. envs \in Seq(Env)
    BY DEF EnvsOK
  <2>2. QED BY <2>1, StoreWrite
<1>3. mid \in Seq(Env) /\ h \in DOMAIN mid
  BY <1>2 DEF Alike
<1> HIDE DEF mid
<1>4. /\ Alike(mid, end)
      /\ \A c \in DOMAIN mid : end[c].store = mid[c].store /\ end[c].consts = mid[c].consts
      /\ \A c \in DOMAIN mid : \A m \in Names :
           end[c].types[m] = IF c = h /\ m = n THEN ty ELSE mid[c].types[m]
  BY <1>3, TypeWrite
<1>5. end \in Seq(Env) /\ h \in DOMAIN end
  BY <1>3, <1>4 DEF Alike
<1> HIDE DEF end
<1>6. /\ Alike(end, all)
      /\ \A c \in DOMAIN end : all[c].store = end[c].store /\ all[c].types = end[c].types
      /\ \A c \in DOMAIN end :
           all[c].consts = end[c].consts \cup (IF c = h THEN {n} ELSE {})
  BY <1>5, ConstWrite
<1> HIDE DEF all
<1>7. SameShape
  BY <1>1, <1>2, <1>4, <1>6 DEF SameShape, Alike
<1>8. StoresAt(h, n, v)
  BY <1>1, <1>2, <1>4, <1>6 DEF StoresAt, Alike
<1>9. DeclaresAt(h, n, ty)
  BY <1>1, <1>2, <1>4, <1>6 DEF DeclaresAt, Alike
<1>10. QED BY <1>7, <1>8, <1>9

-----------------------------------------------------------------------------
(* What writes preserve.                                                   *)

ConstsStay ==
  \A d \in DOMAIN envs : \A n \in envs[d].consts :
    envs'[d].store[n] = envs[d].store[n]

NamesStay ==
  \A e \in DOMAIN envs : \A n \in Names :
    Visible(e, n) => Home(e, n)' = Home(e, n)

LEMMA ValuesAreThere ==
  ASSUME NEW v \in Value
  PROVE  v # None
BY NoneAssumption, ClosureAssumption DEF Value

LEMMA ShapeKept ==
  ASSUME EnvsOK, Chains, SameShape
  PROVE  EnvsOK' /\ Chains'
<1>1. EnvsOK'
  BY DEF EnvsOK, SameShape
<1>2. \A e \in DOMAIN envs : envs[e].scope \subseteq DOMAIN envs
  BY EnvParts
<1>3. Chains'
  BY <1>2 DEF Chains, SameShape
<1>4. QED BY <1>1, <1>3

\* A new holder that is not inside of the one a name stands for changes
\* nothing about what names stand for.
LEMMA HomesStay ==
  ASSUME EnvsOK, SameShape, NEW h \in DOMAIN envs, NEW n \in Names, NEW v \in Value,
         StoresAt(h, n, v),
         \A c \in DOMAIN envs :
           h \in envs[c].scope /\ Visible(c, n) => h =< Home(c, n)
  PROVE  NamesStay
<1> SUFFICES ASSUME NEW c \in DOMAIN envs, NEW m \in Names, Visible(c, m)
             PROVE  Home(c, m)' = Home(c, m)
  BY DEF NamesStay
<1> DEFINE D == Home(c, m)
           S == {d \in envs[c].scope : envs'[d].store[m] # None}
<1>1. /\ D \in envs[c].scope /\ D \in DOMAIN envs
      /\ envs[D].store[m] # None
      /\ \A d \in envs[c].scope : envs[d].store[m] # None => d =< D
  BY HomeFacts
<1>2. c \in Nat /\ envs[c].scope \subseteq 1 .. c /\ envs[c].scope \subseteq DOMAIN envs
  BY EnvParts
<1>3. envs'[c].scope = envs[c].scope
  BY DEF SameShape
<1>4. D \in S
  <2>1. envs'[D].store[m] # None
    BY <1>1, ValuesAreThere DEF StoresAt
  <2>2. QED BY <1>1, <2>1
<1>5. \A d \in S : d =< D
  <2>1. ASSUME NEW d \in S
        PROVE  d =< D
    <3>1. d \in DOMAIN envs
      BY <1>2
    <3>2. CASE d = h /\ m = n
      BY <3>2
    <3>3. CASE ~(d = h /\ m = n)
      BY <1>1, <3>1, <3>3 DEF StoresAt
    <3>4. QED BY <3>2, <3>3
  <2>2. QED BY <2>1
<1>6. S \subseteq 1 .. c
  BY <1>2
<1> HIDE DEF S, D
<1>7. Innermost(S) = D
  BY <1>2, <1>4, <1>5, <1>6, InnermostIs
<1>8. Holders(c, m)' = S
  BY <1>3 DEF Holders, S
<1>9. Home(c, m)' = Innermost(S)
  BY <1>4, <1>8 DEF Home, Visible
<1>10. QED BY <1>7, <1>9 DEF D

LEMMA SetKeeps ==
  ASSUME EInv, NEW e \in DOMAIN envs, NEW n \in Names, NEW v \in Value,
         n \in VarNames => ~IsConst(e, n) /\ GetType(e, n) \in {None, TypeOf(v)},
         envs' = Set(e, n, v)
  PROVE  /\ EInv' /\ ConstsStay /\ NamesStay
         /\ SameShape /\ StoresAt(Home(e, n), n, v) /\ ChecksSame
         /\ Home(e, n) \in envs[e].scope
<1> DEFINE h == Home(e, n)
<1>1. EnvsOK /\ Chains /\ TypedOnce /\ ConstsTyped /\ TypedKeepsType
  BY DEF EInv
<1>2. /\ h \in envs[e].scope /\ h \in DOMAIN envs
      /\ Visible(e, n) => envs[h].store[n] # None
      /\ ~Visible(e, n) => /\ h = e
                           /\ \A c \in envs[e].scope : envs[c].store[n] = None
  BY <1>1, HomeFacts
<1>3. SameShape /\ StoresAt(h, n, v) /\ ChecksSame
  BY <1>1, <1>2, SetWrites DEF Set
<1>4. v # None
  BY ValuesAreThere
<1>5. /\ e \in Nat /\ envs[e].scope \subseteq 1 .. e /\ envs[e].scope \subseteq DOMAIN envs
      /\ envs[h].scope = envs[e].scope \cap (1 .. h)
  BY <1>1, <1>2, EnvParts DEF Chains
<1>6. ASSUME NEW d \in envs[e].scope, envs[d].store[n] # None
      PROVE  Visible(e, n)
  BY <1>6 DEF Visible, Holders
<1> HIDE DEF h
<1>7. DOMAIN envs' = DOMAIN envs
  BY <1>3 DEF SameShape
<1>8. TypedOnce'
  <2> SUFFICES ASSUME NEW d \in DOMAIN envs, NEW m \in Names, envs[d].types[m] # None
               PROVE  /\ m \in VarNames
                      /\ envs'[d].store[m] # None
                      /\ \A c \in DOMAIN envs :
                           d \in envs[c].scope /\ c # d => envs'[c].store[m] = None
    BY <1>3, <1>7 DEF TypedOnce, SameShape, ChecksSame
  <2>1. m \in VarNames /\ envs[d].store[m] # None
    BY <1>1 DEF TypedOnce
  <2>2. envs'[d].store[m] # None
    BY <1>3, <1>4, <2>1 DEF StoresAt
  <2>3. ASSUME NEW c \in DOMAIN envs, d \in envs[c].scope, c # d
        PROVE  envs'[c].store[m] = None
    <3>1. envs[c].store[m] = None
      BY <1>1, <2>3 DEF TypedOnce
    <3>2. ~(c = h /\ m = n)
      <4>1. SUFFICES ASSUME c = h, m = n PROVE FALSE
        OBVIOUS
      <4>2. d \in envs[e].scope
        BY <1>5, <2>3, <4>1
      <4>3. Visible(e, n)
        BY <1>6, <2>1, <4>1, <4>2
      <4>4. QED BY <1>2, <3>1, <4>1, <4>3 DEF h
    <3>3. QED BY <1>3, <3>1, <3>2 DEF StoresAt
  <2>4. QED BY <2>1, <2>2, <2>3
<1>9. ConstsTyped'
  BY <1>1, <1>3, <1>7 DEF ConstsTyped, ChecksSame
<1>10. TypedKeepsType'
  <2> SUFFICES ASSUME NEW d \in DOMAIN envs, NEW m \in Names, envs[d].types[m] # None
               PROVE  TypeOf(envs'[d].store[m]) = envs[d].types[m]
    BY <1>3, <1>7 DEF TypedKeepsType, ChecksSame, TypeOf
  <2>1. CASE d = h /\ m = n
    <3>1. n \in VarNames /\ envs[h].store[n] # None
      BY <1>1, <2>1 DEF TypedOnce
    <3>2. Visible(e, n)
      BY <1>2, <1>6, <3>1
    <3>3. GetType(e, n) = envs[h].types[n]
      BY <3>2, ChecksAreTheBindings DEF ChecksFollowBinding, h
    <3>4. TypeOf(v) = envs[h].types[n]
      BY <2>1, <3>1, <3>3
    <3>5. QED BY <1>3, <2>1, <3>4 DEF StoresAt
  <2>2. CASE ~(d = h /\ m = n)
    <3>1. envs'[d].store[m] = envs[d].store[m]
      BY <1>3, <2>2 DEF StoresAt
    <3>2. QED BY <1>1, <3>1 DEF TypedKeepsType
  <2>3. QED BY <2>1, <2>2
<1>11. ConstsStay
  <2> SUFFICES ASSUME NEW d \in DOMAIN envs, NEW m \in envs[d].consts
               PROVE  envs'[d].store[m] = envs[d].store[m]
    BY DEF ConstsStay
  <2>1. m \in Names /\ envs[d].types[m] # None
    BY <1>1, EnvParts DEF ConstsTyped
  <2>2. m \in VarNames
    BY <1>1, <2>1 DEF TypedOnce
  <2>3. ~(d = h /\ m = n)
    BY <1>2, <2>2 DEF IsConst, h
  <2>4. QED BY <1>3, <2>1, <2>3 DEF StoresAt
<1>12. NamesStay
  <2>1. ASSUME NEW c \in DOMAIN envs, h \in envs[c].scope, Visible(c, n)
        PROVE  h =< Home(c, n)
    <3>1. /\ Home(c, n) \in envs[c].scope
          /\ envs[Home(c, n)].store[n] # None
          /\ \A d \in envs[c].scope : envs[d].store[n] # None => d =< Home(c, n)
      BY <1>1, <2>1, HomeFacts
    <3>2. CASE Visible(e, n)
      BY <1>2, <2>1, <3>1, <3>2 DEF h
    <3>3. CASE ~Visible(e, n)
      <4>1. h = e /\ \A d \in envs[e].scope : envs[d].store[n] = None
        BY <1>2, <3>3 DEF h
      <4>2. envs[e].scope = envs[c].scope \cap (1 .. e)
        BY <1>1, <2>1, <4>1 DEF Chains
      <4>3. Home(c, n) \notin 1 .. e
        BY <3>1, <4>1, <4>2
      <4>4. c \in Nat /\ Home(c, n) \in 1 .. c
        BY <1>1, <3>1, EnvParts
      <4>5. QED BY <1>5, <4>1, <4>3, <4>4
    <3>4. QED BY <3>2, <3>3
  <2>2. QED BY <1>1, <1>2, <1>3, <2>1, HomesStay DEF h
<1>13. EInv'
  BY <1>1, <1>3, <1>8, <1>9, <1>10, ShapeKept DEF EInv
<1>14. QED BY <1>2, <1>3, <1>11, <1>12, <1>13 DEF h

LEMMA DeclarationKeeps ==
  ASSUME EInv, NEW e \in DOMAIN envs, NEW n \in VarNames, NEW v \in Value,
         NEW ty \in Types, TypeOf(v) = ty,
         \A d \in DOMAIN envs : Related(d, e) => envs[d].store[n] = None,
         envs' = SetTyped(e, n, ty, v) \/ envs' = SetConst(e, n, ty, v)
  PROVE  /\ EInv' /\ ConstsStay /\ NamesStay
         /\ SameShape /\ StoresAt(e, n, v) /\ DeclaresAt(e, n, ty)
<1>1. EnvsOK /\ Chains /\ TypedOnce /\ ConstsTyped /\ TypedKeepsType /\ n \in Names
  BY DEF EInv, Names
<1>2. SameShape /\ StoresAt(e, n, v) /\ DeclaresAt(e, n, ty)
  BY <1>1, DeclarationWrites
<1>3. v # None /\ ty # None
  BY ValuesAreThere, NoneAssumption
<1>4. e \in Nat /\ e \in envs[e].scope /\ envs[e].scope \subseteq DOMAIN envs
  BY <1>1, EnvParts
<1>5. DOMAIN envs' = DOMAIN envs
  BY <1>2 DEF SameShape
<1>6. envs[e].store[n] = None /\ envs[e].types[n] = None
  BY <1>1, <1>4 DEF Related, TypedOnce
<1>7. TypedOnce'
  <2> SUFFICES ASSUME NEW d \in DOMAIN envs, NEW m \in Names, envs'[d].types[m] # None
               PROVE  /\ m \in VarNames
                      /\ envs'[d].store[m] # None
                      /\ \A c \in DOMAIN envs :
                           d \in envs[c].scope /\ c # d => envs'[c].store[m] = None
    BY <1>2, <1>5 DEF TypedOnce, SameShape
  <2>1. CASE d = e /\ m = n
    <3>1. ASSUME NEW c \in DOMAIN envs, d \in envs[c].scope, c # d
          PROVE  envs'[c].store[m] = None
      <4>1. envs[c].store[n] = None
        BY <2>1, <3>1 DEF Related
      <4>2. QED BY <1>2, <2>1, <3>1, <4>1 DEF StoresAt
    <3>2. QED BY <1>2, <1>3, <2>1, <3>1 DEF StoresAt
  <2>2. CASE ~(d = e /\ m = n)
    <3>1. envs[d].types[m] # None /\ envs'[d].store[m] = envs[d].store[m]
      BY <1>2, <2>2 DEF StoresAt, DeclaresAt
    <3>2. m \in VarNames /\ envs[d].store[m] # None
      BY <1>1, <3>1 DEF TypedOnce
    <3>3. ASSUME NEW c \in DOMAIN envs, d \in envs[c].scope, c # d
          PROVE  envs'[c].store[m] = None
      <4>1. envs[c].store[m] = None
        BY <1>1, <3>1, <3>3 DEF TypedOnce
      <4>2. ~(c = e /\ m = n)
        BY <3>2, <3>3 DEF Related
      <4>3. QED BY <1>2, <4>1, <4>2 DEF StoresAt
    <3>4. QED BY <3>1, <3>2, <3>3
  <2>3. QED BY <2>1, <2>2
<1>8. ConstsTyped'
  <2> SUFFICES ASSUME NEW d \in DOMAIN envs, NEW m \in envs'[d].consts
               PROVE  envs'[d].types[m] # None
    BY <1>5 DEF ConstsTyped
  <2>1. m \in envs[d].consts \/ (d = e /\ m = n)
    BY <1>2 DEF DeclaresAt
  <2>2. CASE d = e /\ m = n
    BY <1>1, <1>2, <1>3, <2>2 DEF DeclaresAt
  <2>3. CASE m \in envs[d].consts /\ ~(d = e /\ m = n)
    <3>1. m \in Names /\ envs[d].types[m] # None
      BY <1>1, <2>3, EnvParts DEF ConstsTyped
    <3>2. QED BY <1>2, <2>3, <3>1 DEF DeclaresAt
  <2>4. QED BY <2>1, <2>2, <2>3
<1>9. TypedKeepsType'
  <2> SUFFICES ASSUME NEW d \in DOMAIN envs, NEW m \in Names, envs'[d].types[m] # None
               PROVE  TypeOf(envs'[d].store[m]) = envs'[d].types[m]
    BY <1>5 DEF TypedKeepsType, TypeOf
  <2>1. CASE d = e /\ m = n
    <3>1. envs'[d].store[m] = v /\ envs'[d].types[m] = ty
      BY <1>2, <2>1 DEF StoresAt, DeclaresAt
    <3>2. QED BY <3>1
  <2>2. CASE ~(d = e /\ m = n)
    <3>1. envs'[d].types[m] = envs[d].types[m] /\ envs'[d].store[m] = envs[d].store[m]
      BY <1>2, <2>2 DEF StoresAt, DeclaresAt
    <3>2. QED BY <1>1, <3>1 DEF TypedKeepsType
  <2>3. QED BY <2>1, <2>2
<1>10. ConstsStay
  <2> SUFFICES ASSUME NEW d \in DOMAIN envs, NEW m \in envs[d].consts
               PROVE  envs'[d].store[m] = envs[d].store[m]
    BY DEF ConstsStay
  <2>1. m \in Names /\ envs[d].types[m] # None
    BY <1>1, EnvParts DEF ConstsTyped
  <2>2. ~(d = e /\ m = n)
    BY <1>6, <2>1
  <2>3. QED BY <1>2, <2>1, <2>2 DEF StoresAt
<1>11. NamesStay
  <2>1. ASSUME NEW c \in DOMAIN envs, e \in envs[c].scope, Visible(c, n)
        PROVE  FALSE
    <3> DEFINE d == Home(c, n)
    <3>1. d \in envs[c].scope /\ d \in DOMAIN envs /\ envs[d].store[n] # None
      BY <1>1, <2>1, HomeFacts
    <3>2. /\ envs[e].scope = envs[c].scope \cap (1 .. e)
          /\ envs[d].scope = envs[c].scope \cap (1 .. d)
      BY <1>1, <2>1, <3>1 DEF Chains
    <3>3. c \in Nat /\ d \in 1 .. c /\ e \in 1 .. c
      BY <1>1, <2>1, <3>1, EnvParts
    <3>4. CASE d =< e
      <4>1. d \in 1 .. e
        BY <3>3, <3>4
      <4>2. QED BY <3>1, <3>2, <4>1 DEF Related
    <3>5. CASE e =< d
      <4>1. e \in 1 .. d
        BY <3>3, <3>5
      <4>2. QED BY <2>1, <3>1, <3>2, <4>1 DEF Related
    <3>6. QED BY <3>3, <3>4, <3>5
  <2>2. QED BY <1>1, <1>2, <2>1, HomesStay
<1>12. EInv'
  BY <1>1, <1>2, <1>7, <1>8, <1>9, ShapeKept DEF EInv
<1>13. QED BY <1>2, <1>10, <1>11, <1>12

-----------------------------------------------------------------------------
(* Frames and values.                                                      *)

LEMMA FrameParts ==
  ASSUME FramesOK
  PROVE  /\ Len(frames) \in Nat /\ Len(frames) >= 1 /\ DOMAIN frames = 1 .. Len(frames)
         /\ Head(frames) = frames[1]
         /\ Here = frames[1].env /\ Here \in DOMAIN envs
         /\ \A i \in DOMAIN frames : frames[i] \in Frame
BY DEF FramesOK, Here

LEMMA ParamNamesOf ==
  ASSUME NEW s \in Signatures \cup Lambdas
  PROVE  /\ ParamsOf(s) \subseteq ParamNames
         /\ \A i \in DOMAIN s.params : s.params[i].name \in ParamsOf(s)
<1>1. s \in Signature
  BY SignatureAssumption
<1>2. s.params \in Seq(Param)
  BY <1>1 DEF Signature
<1>3. ASSUME NEW i \in DOMAIN s.params
      PROVE  s.params[i].name \in ParamNames
  <2>1. s.params[i] \in Param
    BY <1>2
  <2>2. QED BY <2>1 DEF Param
<1>4. ParamsOf(s) = {s.params[i].name : i \in DOMAIN s.params}
  BY DEF ParamsOf, Range
<1>5. QED BY <1>3, <1>4

\* A value stays good while parameters around its environment stay unbound.
LEMMA GoodStays ==
  ASSUME EnvsOK, NEW v, Good(v),
         DOMAIN envs \subseteq DOMAIN envs',
         \A c \in DOMAIN envs : envs'[c].scope = envs[c].scope,
         v \notin Data => \A c \in envs[v.env].scope : \A p \in ParamNames :
           envs[c].store[p] = None => envs'[c].store[p] = None,
         v \notin Data /\ ~InBody' => v.env # Len(envs')
  PROVE  Good(v)'
<1>1. CASE v \in Data
  BY <1>1 DEF Good
<1>2. CASE v \notin Data
  <2>1. v.env \in DOMAIN envs /\ FreshParams(v.env, v.says) /\ v.says \in Signatures \cup Lambdas
    BY <1>2 DEF Good, Value, Closure
  <2>2. v.env \in DOMAIN envs'
    BY <2>1
  <2>3. FreshParams(v.env, v.says)'
    <3>1. ASSUME NEW p \in ParamsOf(v.says)
          PROVE  Holders(v.env, p)' = {}
      <4>1. p \in ParamNames
        BY <2>1, ParamNamesOf
      <4>2. \A c \in envs[v.env].scope : envs[c].store[p] = None
        BY <2>1 DEF FreshParams, Visible, Holders
      <4>3. QED BY <1>2, <2>1, <4>1, <4>2 DEF Holders
    <3>2. QED BY <3>1 DEF FreshParams, Visible
  <2>4. QED BY <1>2, <2>2, <2>3 DEF Good
<1>3. QED BY <1>1, <1>2

\* What the body of a function can name or make is good, if the program is tidy.
LEMMA TidyIsGood ==
  ASSUME IInv, InBody, NEW v \in Values(Here), TidyValue(v)
  PROVE  Good(v)
<1>1. PICK e \in DOMAIN envs : e = Here
  BY FrameParts DEF IInv
<1>2. EnvsOK /\ Held
  BY DEF IInv, EInv
<1>3. CASE v \in Data
  BY <1>3 DEF Good, Value
<1>4. CASE \E n \in Names : Visible(e, n) /\ v = Get(e, n)
  <2>1. PICK n \in Names : Visible(e, n) /\ v = Get(e, n)
    BY <1>4
  <2>2. Home(e, n) \in DOMAIN envs /\ v # None /\ v = envs[Home(e, n)].store[n]
    BY <1>2, <2>1, HomeFacts DEF Get
  <2>3. v \in Value
    BY <1>2, <2>2, EnvParts
  <2>4. QED BY <1>2, <2>2, <2>3 DEF Held
<1>5. CASE \E l \in Lambdas : v = [env |-> e, says |-> l]
  <2>1. e \in 1 .. MaxEnvs
    BY <1>1, <1>2, EnvParts DEF EnvsOK
  <2>2. v \in Value /\ v.env = e
    BY <1>5, <2>1 DEF Value, Closure
  <2>3. QED BY <1>1, <2>2 DEF Good, TidyValue
<1>6. QED BY <1>1, <1>3, <1>4, <1>5 DEF Values
-----------------------------------------------------------------------------
(* Steps that keep the environments: a value is stored, a frame ends.      *)

ParamsSame ==
  \A c \in DOMAIN envs : \A p \in ParamNames : envs'[c].store[p] = envs[c].store[p]

OnlyNew(w) ==
  \A c \in DOMAIN envs : \A m \in Names : envs'[c].store[m] \in {envs[c].store[m], w}

ConstsOnlyAt(e) ==
  \A c \in DOMAIN envs : c # e => envs'[c].consts = envs[c].consts

\* What a write to the environments from environment e may do.
Kept(e, w) ==
  /\ EInv' /\ ConstsStay /\ NamesStay
  /\ SameShape /\ ParamsSame /\ OnlyNew(w) /\ ConstsOnlyAt(e)

LEMMA NothingWritten ==
  ASSUME EInv, UNCHANGED envs, NEW e, NEW w
  PROVE  Kept(e, w)
<1>1. EInv'
  BY DEF EInv, EnvsOK, Chains, TypedOnce, ConstsTyped, TypedKeepsType, TypeOf
<1>2. NamesStay
  BY DEF NamesStay, Home, Visible, Holders
<1>3. SameShape /\ ConstsStay /\ ParamsSame /\ OnlyNew(w) /\ ConstsOnlyAt(e)
  BY DEF SameShape, ConstsStay, ParamsSame, OnlyNew, ConstsOnlyAt, EInv, EnvsOK
<1>4. QED BY <1>1, <1>2, <1>3 DEF Kept

LEMMA SetIsKept ==
  ASSUME NamesDisjoint, EInv, NEW e \in DOMAIN envs, NEW n \in Names, NEW w \in Value,
         n \notin ParamNames,
         n \in VarNames => ~IsConst(e, n) /\ GetType(e, n) \in {None, TypeOf(w)},
         envs' = Set(e, n, w)
  PROVE  Kept(e, w)
<1> DEFINE h == Home(e, n)
<1>1. /\ EInv' /\ ConstsStay /\ NamesStay
      /\ SameShape /\ StoresAt(h, n, w) /\ ChecksSame
  BY SetKeeps
<1> HIDE DEF h
<1>2. ParamsSame
  BY <1>1 DEF ParamsSame, StoresAt, Names
<1>3. OnlyNew(w) /\ ConstsOnlyAt(e)
  BY <1>1 DEF OnlyNew, StoresAt, ConstsOnlyAt, ChecksSame
<1>4. QED BY <1>1, <1>2, <1>3 DEF Kept

LEMMA StoredKeeps ==
  ASSUME NamesDisjoint, EInv, NEW e \in DOMAIN envs, NEW t, GoodTarget(t),
         NEW w \in Value, Fits(e, t, w), TidyTarget(e, t),
         t.kind \in {"assign", "compound"} => ~IsConst(e, t.name),
         envs' = Stored(e, t, w)
  PROVE  Kept(e, w)
<1> DEFINE n == t.name
<1>1. t.kind \in {"assign", "compound", "typed", "const", "bind", "drop"}
  BY DEF GoodTarget, Target
<1>2. CASE t.kind \in {"assign", "compound"}
  <2>1. n \in VarNames /\ n \in Names /\ n \notin ParamNames
    BY <1>2 DEF GoodTarget, Names, NamesDisjoint
  <2>2. GetType(e, n) \in {None, TypeOf(w)} /\ ~IsConst(e, n)
    BY <1>2 DEF Fits
  <2>3. envs' = Set(e, n, w)
    BY <1>2 DEF Stored
  <2>4. QED BY <2>1, <2>2, <2>3, SetIsKept
<1>3. CASE t.kind = "bind"
  <2>1. n \in Names /\ n \notin ParamNames /\ n \notin VarNames
    BY <1>3 DEF GoodTarget, Names, NamesDisjoint
  <2>2. envs' = Set(e, n, w)
    BY <1>3 DEF Stored
  <2>3. QED BY <2>1, <2>2, SetIsKept
<1>4. CASE t.kind \in {"typed", "const"}
  <2>1. n \in VarNames /\ n \in Names /\ n \notin ParamNames
    BY <1>4 DEF GoodTarget, Names, NamesDisjoint
  <2>2. t.type \in Types /\ TypeOf(w) = t.type
    BY <1>4, DeclaredAssumption DEF GoodTarget, Fits
  <2>3. \A d \in DOMAIN envs : Related(d, e) => envs[d].store[n] = None
    BY <1>4 DEF TidyTarget
  <2>4. envs' = SetTyped(e, n, t.type, w) \/ envs' = SetConst(e, n, t.type, w)
    BY <1>4 DEF Stored
  <2>5. /\ EInv' /\ ConstsStay /\ NamesStay
        /\ SameShape /\ StoresAt(e, n, w) /\ DeclaresAt(e, n, t.type)
    BY <2>1, <2>2, <2>3, <2>4, DeclarationKeeps
  <2> HIDE DEF n
  <2>6. ParamsSame
    BY <2>1, <2>5 DEF ParamsSame, StoresAt, Names
  <2>7. OnlyNew(w)
    BY <2>5, Zenon DEF OnlyNew, StoresAt
  <2>8. ConstsOnlyAt(e)
    <3>1. ASSUME NEW c \in DOMAIN envs, c # e PROVE envs'[c].consts = envs[c].consts
      BY <2>5, <3>1 DEF DeclaresAt
    <3>2. QED BY <3>1 DEF ConstsOnlyAt
  <2>9. QED BY <2>5, <2>6, <2>7, <2>8 DEF Kept
<1>5. CASE t.kind = "drop"
  <2>1. UNCHANGED envs
    BY <1>5 DEF Stored
  <2>2. QED BY <2>1, NothingWritten
<1>6. QED BY <1>1, <1>2, <1>3, <1>4, <1>5

\* The consts that the environments outside of e see are the same as before.
LEMMA ConstsOutside ==
  ASSUME EnvsOK, SameShape, NEW e \in DOMAIN envs, ConstsOnlyAt(e),
         NEW c \in DOMAIN envs, c < e, NEW n, ~IsConst(c, n)
  PROVE  ~IsConst(c, n)'
<1>1. /\ c \in Nat /\ e \in Nat
      /\ envs[c].scope \subseteq 1 .. c /\ envs[c].scope \subseteq DOMAIN envs
  BY EnvParts
<1>2. envs'[c].scope = envs[c].scope
  BY DEF SameShape
<1>3. ASSUME NEW d \in envs[c].scope
      PROVE  envs'[d].consts = envs[d].consts
  <2>1. d \in 1 .. c /\ d \in DOMAIN envs
    BY <1>1
  <2>2. d # e
    BY <1>1, <2>1
  <2>3. QED BY <2>1, <2>2 DEF ConstsOnlyAt
<1>4. QED BY <1>2, <1>3 DEF IsConst

\* The values stay good, once the body of a call goes on.
LEMMA HeldStays ==
  ASSUME EInv, Held, SameShape, ParamsSame, InBody',
         NEW w, OnlyNew(w), Good(w)
  PROVE  Held'
<1>1. EnvsOK
  BY DEF EInv
<1>2. DOMAIN envs' = DOMAIN envs /\ \A c \in DOMAIN envs : envs'[c].scope = envs[c].scope
  BY DEF SameShape
<1>3. ASSUME NEW v, Good(v)
      PROVE  Good(v)'
  <2>1. v \notin Data => envs[v.env].scope \subseteq DOMAIN envs
    BY <1>1, <1>3, EnvParts DEF Good
  <2>2. v \notin Data => \A c \in envs[v.env].scope : \A p \in ParamNames :
          envs[c].store[p] = None => envs'[c].store[p] = None
    BY <2>1 DEF ParamsSame
  <2>3. QED BY <1>1, <1>2, <1>3, <2>2, GoodStays
<1>4. ASSUME NEW d \in DOMAIN envs, NEW n \in Names, NEW v \in Value,
             envs'[d].store[n] = v
      PROVE  Good(v)'
  <2>1. Good(v)
    BY <1>4 DEF OnlyNew, Held
  <2>2. QED BY <1>3, <2>1
<1>5. ASSUME NEW i \in DOMAIN Head(frames').todo
      PROVE  FALSE
  BY <1>5 DEF InBody
<1>6. QED BY <1>2, <1>4, <1>5 DEF Held

-----------------------------------------------------------------------------
(* The steps.                                                              *)

LEMMA TargetsAreGood ==
  ASSUME NEW t \in Targets
  PROVE  GoodTarget(t)
<1>1. None \in Names \cup {None} /\ None \in Types \cup {None} /\ None \in Value \cup {None}
  OBVIOUS
<1>2. CASE \E k \in {"assign", "compound"}, n \in VarNames : t = To(k, n, None)
  BY <1>1, <1>2 DEF GoodTarget, Target, To, Names
<1>3. CASE \E k \in {"typed", "const"}, n \in VarNames, ty \in Declared : t = To(k, n, ty)
  BY <1>1, <1>3, DeclaredAssumption DEF GoodTarget, Target, To, Names
<1>4. CASE \E n \in BoundNames : t = To("bind", n, None)
  BY <1>1, <1>4 DEF GoodTarget, Target, To, Names
<1>5. CASE t = To("drop", None, None)
  BY <1>1, <1>5 DEF GoodTarget, Target, To
<1>6. QED BY <1>2, <1>3, <1>4, <1>5 DEF Targets

LEMMA BegunIsGood ==
  ASSUME EnvsOK, NEW e \in DOMAIN envs, NEW t \in Targets, ~Refused(e, t)
  PROVE  /\ GoodTarget(Begun(e, t))
         /\ Begun(e, t).kind = t.kind /\ Begun(e, t).name = t.name
<1>1. GoodTarget(t)
  BY TargetsAreGood
<1>2. CASE t.kind = "compound"
  <2>1. t.name \in Names /\ Visible(e, t.name)
    BY <1>1, <1>2 DEF Refused, GoodTarget, Names
  <2>2. Get(e, t.name) \in Value
    <3>1. /\ Home(e, t.name) \in DOMAIN envs
          /\ envs[Home(e, t.name)].store[t.name] # None
      BY <2>1, HomeFacts
    <3>2. QED BY <2>1, <3>1, EnvParts DEF Get
  <2>3. Begun(e, t) = [t EXCEPT !.left = Get(e, t.name)]
    BY <1>2 DEF Begun
  <2>4. QED BY <1>1, <2>2, <2>3 DEF GoodTarget, Target
<1>3. CASE t.kind # "compound"
  BY <1>1, <1>3 DEF Begun
<1>4. QED BY <1>2, <1>3

LEMMA OutcomesAreGood ==
  ASSUME NEW v, Good(v), NEW t, NEW w \in Outcomes(t, v)
  PROVE  Good(w)
<1>1. w = v \/ w \in Data
  BY DEF Outcomes, Results
<1>2. QED BY <1>1 DEF Good, Value

\* A step of a body that only writes to the environments.
LEMMA FramesSame ==
  ASSUME IInv, InBody, UNCHANGED frames, NEW w, Good(w),
         NEW e \in DOMAIN envs, e = Here, Kept(e, w)
  PROVE  IInv'
<1>1. EInv /\ EnvsOK /\ FramesOK /\ Stack /\ Pending /\ Todo /\ Held /\ NamesDisjoint
  BY DEF IInv, EInv
<1>2. EInv' /\ SameShape /\ ParamsSame /\ OnlyNew(w) /\ ConstsOnlyAt(e)
  BY DEF Kept
<1>3. InBody'
  BY DEF InBody
<1>4. FramesOK'
  BY <1>1, <1>2 DEF FramesOK, SameShape
<1>5. Stack'
  BY <1>1 DEF Stack
<1>6. Todo'
  BY <1>1, <1>3 DEF Todo
<1>7. Pending'
  <2> SUFFICES ASSUME NEW i \in DOMAIN frames
               PROVE  /\ GoodTarget(frames[i].goes)
                      /\ /\ frames[i].goes.kind \in {"assign", "compound"}
                         /\ i + 1 \in DOMAIN frames
                         => ~IsConst(frames[i + 1].env, frames[i].goes.name)'
    BY DEF Pending, GoodTarget
  <2>1. GoodTarget(frames[i].goes)
    BY <1>1 DEF Pending
  <2>2. ASSUME frames[i].goes.kind \in {"assign", "compound"}, i + 1 \in DOMAIN frames
        PROVE  ~IsConst(frames[i + 1].env, frames[i].goes.name)'
    <3>1. /\ DOMAIN frames = 1 .. Len(frames) /\ Len(frames) \in Nat
          /\ e = frames[1].env /\ 1 \in DOMAIN frames
      BY <1>1, FrameParts
    <3>2. PICK c \in DOMAIN envs : c = frames[i + 1].env
      BY <1>1, <2>2 DEF FramesOK
    <3>3. c < e
      <4>1. 1 < i + 1
        BY <3>1
      <4>2. QED BY <1>1, <2>2, <3>1, <3>2, <4>1 DEF Stack
    <3>4. ~IsConst(c, frames[i].goes.name)
      BY <1>1, <2>2, <3>2 DEF Pending
    <3>5. ~IsConst(c, frames[i].goes.name)'
      BY <1>1, <1>2, <3>3, <3>4, ConstsOutside
    <3>6. frames'[i + 1].env = c /\ frames'[i].goes.name = frames[i].goes.name
      BY <3>2
    <3>7. QED BY <3>2, <3>5
  <2>3. QED BY <2>1, <2>2
<1>8. Held'
  BY <1>1, <1>2, <1>3, HeldStays
<1>9. NamesDisjoint'
  BY <1>1 DEF NamesDisjoint
<1>10. QED BY <1>2, <1>4, <1>5, <1>6, <1>7, <1>8, <1>9 DEF IInv

\* What a step of a program may not do.
Keeps == IInv' /\ ConstsStay /\ NamesStay

LEMMA StoreStep ==
  ASSUME IInv, InBody, NEW t \in Targets, NEW v \in Values(Here),
         TidyTarget(Here, t), TidyValue(v), Store(t, v)
  PROVE  Keeps
<1>1. PICK e \in DOMAIN envs : e = Here
  BY FrameParts DEF IInv
<1>2. PICK w \in Outcomes(Begun(e, t), v) : Fits(e, t, w) /\ envs' = Stored(e, t, w)
  BY <1>1 DEF Store
<1>3. Good(w)
  BY TidyIsGood, OutcomesAreGood
<1>4. GoodTarget(t)
  BY TargetsAreGood
<1>5. t.kind \in {"assign", "compound"} => ~IsConst(e, t.name)
  BY <1>1 DEF Store, Refused
<1>6. Kept(e, w)
  <2>1. w \in Value /\ TidyTarget(e, t) /\ EInv /\ NamesDisjoint
    BY <1>1, <1>3 DEF Good, IInv
  <2>2. QED BY <1>2, <1>4, <1>5, <2>1, StoredKeeps
<1>7. UNCHANGED frames
  BY DEF Store
<1>8. IInv'
  BY <1>1, <1>3, <1>6, <1>7, FramesSame
<1>9. QED BY <1>6, <1>8 DEF Kept, Keeps

LEMMA FuncDefStep ==
  ASSUME IInv, InBody, NEW n \in FuncNames, NEW s \in Signatures,
         FreshParams(Here, s), FuncDef(n, s)
  PROVE  Keeps
<1>1. PICK e \in DOMAIN envs : e = Here
  BY FrameParts DEF IInv
<1> DEFINE w == [env |-> e, says |-> s]
<1>2. e \in 1 .. MaxEnvs
  BY EnvParts DEF IInv, EInv, EnvsOK
<1>3. w \in Value /\ w.env = e /\ w.says = s
  BY <1>2 DEF Value, Closure
<1>4. Good(w)
  BY <1>1, <1>3 DEF Good
<1>5. n \in Names /\ n \notin ParamNames /\ n \notin VarNames
  BY DEF IInv, NamesDisjoint, Names
<1>6. envs' = Set(e, n, w)
  BY <1>1 DEF FuncDef
<1> HIDE DEF w
<1>7. Kept(e, w)
  BY <1>3, <1>5, <1>6, SetIsKept DEF IInv
<1>8. UNCHANGED frames
  BY DEF FuncDef
<1>9. IInv'
  BY <1>1, <1>4, <1>7, <1>8, FramesSame
<1>10. QED BY <1>7, <1>9 DEF Kept, Keeps

LEMMA ReturnStep ==
  ASSUME IInv, InBody, NEW v \in Values(Here),
         Len(frames) > 1 => TidyTarget(frames[2].env, Head(frames).goes),
         TidyValue(v), Return(v)
  PROVE  Keeps
<1>1. EInv /\ EnvsOK /\ FramesOK /\ Stack /\ Pending /\ Todo /\ Held /\ NamesDisjoint
  BY DEF IInv, EInv
<1>2. /\ Len(frames) \in Nat /\ Len(frames) > 1 /\ DOMAIN frames = 1 .. Len(frames)
      /\ Head(frames) = frames[1] /\ frames \in Seq(Frame)
  BY <1>1, FrameParts DEF Return, FramesOK
<1>3. /\ frames' \in Seq(Frame) /\ frames' # << >>
      /\ Len(frames') = Len(frames) - 1 /\ DOMAIN frames' = 1 .. Len(frames) - 1
      /\ \A i \in DOMAIN frames' : frames'[i] = frames[i + 1] /\ i + 1 \in DOMAIN frames
  <2>1. frames' = Tail(frames) /\ frames # << >>
    BY <1>2 DEF Return
  <2>2. /\ frames' \in Seq(Frame) /\ Len(frames') = Len(frames) - 1
        /\ \A i \in 1 .. Len(frames) - 1 : frames'[i] = frames[i + 1]
    BY <1>2, <2>1, HeadTailProperties
  <2>3. DOMAIN frames' = 1 .. Len(frames) - 1
    BY <2>2
  <2>4. \A i \in DOMAIN frames' : i + 1 \in DOMAIN frames
    BY <1>2, <2>3
  <2>5. frames' # << >>
    BY <1>2, <2>2
  <2>6. QED BY <2>2, <2>3, <2>4, <2>5
<1>4. PICK e \in DOMAIN envs : e = frames[2].env
  BY <1>1, <1>2 DEF FramesOK
<1> DEFINE t == frames[1].goes
<1>5. PICK w \in Outcomes(t, v) : Fits(e, t, w) /\ envs' = Stored(e, t, w)
  BY <1>2, <1>4 DEF Return
<1>6. Good(w)
  BY TidyIsGood, OutcomesAreGood
<1>7. /\ GoodTarget(t)
      /\ t.kind \in {"assign", "compound"} => ~IsConst(e, t.name)
  <2>1. 1 \in DOMAIN frames /\ 1 + 1 \in DOMAIN frames
    BY <1>2
  <2>2. QED BY <1>1, <1>4, <2>1 DEF Pending
<1>8. Kept(e, w)
  <2>1. w \in Value /\ TidyTarget(e, t)
    BY <1>2, <1>4, <1>6 DEF Good
  <2>2. QED BY <1>1, <1>5, <1>7, <2>1, StoredKeeps
<1> HIDE DEF t
<1>9. EInv' /\ SameShape /\ ParamsSame /\ OnlyNew(w) /\ ConstsOnlyAt(e)
  BY <1>8 DEF Kept
<1>10. FramesOK'
  BY <1>1, <1>3, <1>9 DEF FramesOK, SameShape
<1>11. Stack'
  <2> SUFFICES ASSUME NEW i \in DOMAIN frames', NEW j \in DOMAIN frames', i < j
               PROVE  frames'[j].env < frames'[i].env
    BY DEF Stack
  <2>1. i + 1 \in DOMAIN frames /\ j + 1 \in DOMAIN frames /\ i + 1 < j + 1
    BY <1>2, <1>3
  <2>2. QED BY <1>1, <1>3, <2>1 DEF Stack
<1>12. \A i \in DOMAIN frames' : frames'[i].todo = << >>
  <2> SUFFICES ASSUME NEW i \in DOMAIN frames'
               PROVE  frames'[i].todo = << >>
    OBVIOUS
  <2>1. i + 1 \in DOMAIN frames /\ i + 1 # 1
    BY <1>2, <1>3
  <2>2. QED BY <1>1, <1>3, <2>1 DEF Todo
<1>13. InBody'
  <2>1. 1 \in DOMAIN frames' /\ Head(frames') = frames'[1]
    BY <1>2, <1>3
  <2>2. QED BY <1>12, <2>1 DEF InBody
<1>14. Todo'
  BY <1>12, <1>13 DEF Todo
<1>15. Pending'
  <2> SUFFICES ASSUME NEW i \in DOMAIN frames'
               PROVE  /\ GoodTarget(frames'[i].goes)
                      /\ /\ frames'[i].goes.kind \in {"assign", "compound"}
                         /\ i + 1 \in DOMAIN frames'
                         => ~IsConst(frames[i + 1].env, frames[i].goes.name)'
    BY DEF Pending, GoodTarget
  <2>1. i + 1 \in DOMAIN frames /\ frames'[i] = frames[i + 1]
    BY <1>3
  <2>2. GoodTarget(frames'[i].goes)
    BY <1>1, <2>1 DEF Pending
  <2>3. ASSUME frames'[i].goes.kind \in {"assign", "compound"}, i + 1 \in DOMAIN frames'
        PROVE  ~IsConst(frames[i + 1].env, frames[i].goes.name)'
    <3>1. (i + 1) + 1 \in DOMAIN frames /\ frames'[i + 1] = frames[(i + 1) + 1]
      BY <1>3, <2>3
    <3>2. PICK c \in DOMAIN envs : c = frames[(i + 1) + 1].env
      BY <1>1, <3>1 DEF FramesOK
    <3>3. c < e
      <4>1. 2 < (i + 1) + 1 /\ 2 \in DOMAIN frames
        BY <1>2, <1>3
      <4>2. QED BY <1>1, <1>4, <3>1, <3>2, <4>1 DEF Stack
    <3>4. PICK n : n = frames[i + 1].goes.name
      OBVIOUS
    <3>5. ~IsConst(c, n)
      BY <1>1, <2>1, <2>3, <3>1, <3>2, <3>4 DEF Pending
    <3>6. ~IsConst(c, n)'
      BY <1>1, <1>9, <3>3, <3>5, ConstsOutside
    <3>7. QED BY <2>1, <3>1, <3>2, <3>4, <3>6 DEF IsConst
  <2>4. QED BY <2>2, <2>3
<1>16. Held'
  BY <1>1, <1>6, <1>9, <1>13, HeldStays
<1>17. NamesDisjoint'
  BY <1>1 DEF NamesDisjoint
<1>18. QED BY <1>8, <1>9, <1>10, <1>11, <1>14, <1>15, <1>16, <1>17 DEF IInv, Kept, Keeps

LEMMA ProgramIsFrame ==
  ASSUME EnvsOK
  PROVE  /\ Program \in Frame /\ Program.env = 1 /\ 1 \in DOMAIN envs
         /\ GoodTarget(Program.goes) /\ Program.goes.kind = "drop"
         /\ Program.todo = << >>
<1>1. Len(envs) \in 1 .. MaxEnvs /\ envs \in Seq(Env) /\ MaxEnvs \in Nat
  BY BoundsAssumption DEF EnvsOK
<1>2. 1 \in 1 .. MaxEnvs /\ 1 \in DOMAIN envs
  BY <1>1
<1>3. To("drop", None, None) \in Target /\ To("drop", None, None).kind = "drop"
  BY DEF To, Target
<1>4. GoodTarget(To("drop", None, None))
  BY <1>3 DEF GoodTarget
<1>5. << >> \in Seq(Binding) /\ {} \in SUBSET Types
  OBVIOUS
<1>6. QED BY <1>2, <1>3, <1>4, <1>5 DEF Program, Frame, Global

LEMMA RuntimeErrorStep ==
  ASSUME IInv, RuntimeError
  PROVE  Keeps
<1>1. EInv /\ EnvsOK /\ FramesOK /\ Held /\ NamesDisjoint
  BY DEF IInv, EInv
<1>2. UNCHANGED envs /\ frames' = <<Program>>
  BY DEF RuntimeError
<1>3. /\ Program \in Frame /\ Program.env = 1 /\ 1 \in DOMAIN envs
      /\ GoodTarget(Program.goes) /\ Program.goes.kind = "drop"
      /\ Program.todo = << >>
  BY <1>1, ProgramIsFrame
<1>4. DOMAIN frames' = {1} /\ frames'[1] = Program /\ Head(frames') = Program
      /\ frames' \in Seq(Frame) /\ frames' # << >>
  BY <1>2, <1>3
<1>5. InBody'
  BY <1>3, <1>4 DEF InBody
<1>6. ASSUME NEW w \in Value, Good(w)
      PROVE  Good(w)'
  BY <1>2, <1>5, <1>6 DEF Good, FreshParams, Visible, Holders
<1>7. Kept(1, None)
  BY <1>1, <1>2, NothingWritten
<1>8. Held'
  BY <1>1, <1>2, <1>3, <1>4, <1>6 DEF Held
<1>9. FramesOK' /\ Stack'
  BY <1>1, <1>2, <1>3, <1>4 DEF FramesOK, Stack
<1>10. Todo'
  BY <1>3, <1>4, <1>5 DEF Todo
<1>11. Pending'
  BY <1>3, <1>4 DEF Pending, GoodTarget
<1>12. NamesDisjoint'
  BY <1>1 DEF NamesDisjoint
<1>13. QED BY <1>7, <1>8, <1>9, <1>10, <1>11, <1>12 DEF IInv, Kept, Keeps

\* A call writes a parameter where no variable of its surroundings is met.
LEMMA ParamIsNew ==
  ASSUME IInv, ~InBody, NEW b, b = Head(Head(frames).todo)
  PROVE  /\ b \in Binding /\ Good(b.value)
         /\ Here = Len(envs) /\ Here \in DOMAIN envs /\ Home(Here, b.name) = Here
<1>1. EInv /\ EnvsOK /\ FramesOK /\ Todo /\ Held
  BY DEF IInv, EInv
<1>2. PICK e \in DOMAIN envs : e = Here
  BY <1>1, FrameParts
<1>3. Head(frames) = frames[1] /\ frames[1] \in Frame
  BY <1>1, FrameParts DEF FramesOK
<1> DEFINE bindings == frames[1].todo
<1>4. bindings \in Seq(Binding) /\ bindings # << >>
  BY <1>3 DEF Frame, InBody
<1>5. 1 \in DOMAIN bindings /\ b = bindings[1] /\ bindings[1] \in Binding
  BY <1>3, <1>4
<1>6. e = Len(envs) /\ \A c \in envs[e].scope : c # e => envs[c].store[b.name] = None
  BY <1>1, <1>2, <1>3, <1>5 DEF Todo
<1>7. b.value \in Value
  BY <1>5 DEF Binding
<1>8. Good(b.value)
  BY <1>1, <1>3, <1>5, <1>7 DEF Held
<1>9. Home(e, b.name) = e
  BY <1>1, <1>6, HomeFacts
<1>10. QED BY <1>2, <1>5, <1>6, <1>8, <1>9

LEMMA BindParamStep ==
  ASSUME IInv, BindParam
  PROVE  /\ Keeps
         /\ \A d \in 1 .. Len(envs) - 1 : envs'[d] = envs[d]
<1>1. EInv /\ EnvsOK /\ FramesOK /\ Stack /\ Pending /\ Todo /\ Held /\ NamesDisjoint
  BY DEF IInv, EInv
<1>2. PICK b : b = Head(Head(frames).todo)
  OBVIOUS
<1>3. ~InBody /\ b \in Binding /\ Good(b.value)
  BY <1>2, ParamIsNew DEF BindParam
<1>4. PICK e \in DOMAIN envs : e = Here /\ e = Len(envs) /\ Home(e, b.name) = e
  BY <1>2, <1>3, ParamIsNew
<1> DEFINE n == b.name
           bindings == frames[1].todo
           new == [frames[1] EXCEPT !.todo = Tail(bindings)]
<1>5. n \in ParamNames /\ n \in Names /\ n \notin VarNames /\ b.value \in Value
  BY <1>1, <1>3 DEF Binding, Names, NamesDisjoint
<1>6. envs' = Set(e, n, b.value) /\ envs' = [envs EXCEPT ![e].store[n] = b.value]
  BY <1>2, <1>4 DEF BindParam, Set
<1>7. /\ EInv' /\ ConstsStay /\ NamesStay
      /\ SameShape /\ StoresAt(e, n, b.value) /\ ChecksSame
  <2>1. PICK m \in Names, v \in Value : m = n /\ v = b.value
    BY <1>5
  <2>2. /\ EInv' /\ ConstsStay /\ NamesStay
        /\ SameShape /\ StoresAt(Home(e, m), m, v) /\ ChecksSame
    <3>1. envs' = Set(e, m, v) /\ m \notin VarNames
      BY <1>5, <1>6, <2>1
    <3>2. QED BY <1>1, <3>1, SetKeeps
  <2>3. QED BY <1>4, <2>1, <2>2
<1>8. /\ Len(frames) \in Nat /\ 1 \in DOMAIN frames /\ DOMAIN frames = 1 .. Len(frames)
      /\ Head(frames) = frames[1] /\ frames[1] \in Frame /\ frames \in Seq(Frame)
      /\ e = frames[1].env
  BY <1>1, <1>4, FrameParts DEF FramesOK
<1>9. bindings \in Seq(Binding) /\ bindings # << >>
  BY <1>3, <1>8 DEF Frame, InBody
<1>10. /\ Tail(bindings) \in Seq(Binding)
       /\ \A i \in DOMAIN Tail(bindings) : i + 1 \in DOMAIN bindings /\ Tail(bindings)[i] = bindings[i + 1]
  <2>1. Len(bindings) \in Nat /\ DOMAIN bindings = 1 .. Len(bindings)
    BY <1>9
  <2>2. /\ Tail(bindings) \in Seq(Binding) /\ Len(Tail(bindings)) = Len(bindings) - 1
        /\ \A i \in 1 .. Len(Tail(bindings)) : Tail(bindings)[i] = bindings[i + 1]
    BY <1>9, <2>1, HeadTailProperties
  <2>3. DOMAIN Tail(bindings) = 1 .. Len(bindings) - 1
    BY <2>2
  <2>4. QED BY <2>1, <2>2, <2>3
<1>11. /\ new \in Frame /\ new.env = e /\ new.goes = frames[1].goes
       /\ new.todo = Tail(bindings)
  BY <1>8, <1>10 DEF Frame
<1>12. frames' = [frames EXCEPT ![1] = new]
  BY DEF BindParam
<1> HIDE DEF new
<1>13. /\ frames' \in Seq(Frame) /\ frames' # << >> /\ DOMAIN frames' = DOMAIN frames
       /\ Head(frames') = frames'[1] /\ frames'[1] = new
       /\ \A i \in DOMAIN frames : i # 1 => frames'[i] = frames[i]
  BY <1>8, <1>11, <1>12
<1>14. \A i \in DOMAIN frames : frames'[i].env = frames[i].env /\ frames'[i].goes = frames[i].goes
  BY <1>8, <1>11, <1>13
<1> HIDE DEF bindings, n
<1>15. /\ DOMAIN envs' = DOMAIN envs /\ Len(envs') = Len(envs)
       /\ \A c \in DOMAIN envs : envs'[c].scope = envs[c].scope
  BY <1>7 DEF SameShape
<1>16. ASSUME NEW v, Good(v)
       PROVE  Good(v)'
  <2>1. CASE v \in Data
    BY <2>1 DEF Good, Value
  <2>2. CASE v \notin Data
    <3>1. v.env \in DOMAIN envs /\ v.env # e
      BY <1>3, <1>4, <1>16, <2>2 DEF Good
    <3>2. /\ e \in Nat /\ v.env \in 1 .. e /\ envs[v.env].scope \subseteq 1 .. v.env
          /\ envs[v.env].scope \subseteq DOMAIN envs
      BY <1>1, <1>4, <3>1, EnvParts
    <3>3. ASSUME NEW c \in envs[v.env].scope, NEW p \in ParamNames
          PROVE  envs'[c].store[p] = envs[c].store[p]
      <4>1. c \in DOMAIN envs /\ c \in 1 .. v.env
        BY <3>2
      <4>2. c # e
        BY <3>1, <3>2, <4>1
      <4>3. QED BY <1>7, <4>1, <4>2 DEF StoresAt, Names
    <3>4. v.env # Len(envs')
      BY <1>4, <1>15, <3>1
    <3>5. QED BY <1>1, <1>15, <1>16, <3>3, <3>4, GoodStays
  <2>3. QED BY <2>1, <2>2
<1>17. Held'
  <2>1. ASSUME NEW d \in DOMAIN envs, NEW m \in Names, NEW v \in Value,
               envs'[d].store[m] = v
        PROVE  Good(v)'
    <3>1. v = b.value \/ envs[d].store[m] = v
      BY <1>7, <2>1 DEF StoresAt
    <3>2. Good(v)
      BY <1>1, <1>3, <3>1 DEF Held
    <3>3. QED BY <1>16, <3>2
  <2>2. ASSUME NEW i \in DOMAIN Tail(bindings), NEW v \in Value, Tail(bindings)[i].value = v
        PROVE  Good(v)'
    <3>1. i + 1 \in DOMAIN bindings /\ bindings[i + 1].value = v
      BY <1>10, <2>2
    <3>2. Good(v)
      BY <1>1, <1>8, <3>1 DEF Held, bindings
    <3>3. QED BY <1>16, <3>2
  <2>3. Head(frames').todo = Tail(bindings)
    BY <1>11, <1>13
  <2>4. QED BY <1>15, <2>1, <2>2, <2>3 DEF Held
<1>18. Todo'
  <2>1. \A i \in DOMAIN frames' : frames'[i].todo # << >> => i = 1
    BY <1>1, <1>13 DEF Todo
  <2>2. Here' = e /\ e = Len(envs') /\ Head(frames').todo = Tail(bindings)
    BY <1>4, <1>11, <1>13, <1>15 DEF Here
  <2>3. ASSUME NEW i \in DOMAIN Tail(bindings), NEW c \in envs'[e].scope, c # e
        PROVE  envs'[c].store[Tail(bindings)[i].name] = None
    <3>1. c \in envs[e].scope /\ c \in DOMAIN envs
      BY <1>1, <1>15, EnvParts
    <3>2. i + 1 \in DOMAIN bindings /\ Tail(bindings)[i] = bindings[i + 1]
      BY <1>10
    <3>3. bindings[i + 1] \in Binding
      BY <1>9, <3>2
    <3>4. bindings[i + 1].name \in Names
      BY <3>3 DEF Binding, Names
    <3>5. envs[c].store[bindings[i + 1].name] = None
      BY <1>1, <1>3, <1>4, <1>8, <2>3, <3>1, <3>2 DEF Todo, bindings
    <3>6. QED BY <1>7, <2>3, <3>1, <3>2, <3>4, <3>5 DEF StoresAt
  <2>4. QED BY <2>1, <2>2, <2>3 DEF Todo
<1>19. Pending'
  <2>1. ASSUME NEW c \in DOMAIN envs, NEW m
        PROVE  IsConst(c, m)' <=> IsConst(c, m)
    BY <1>1, <1>7, <1>15, EnvParts DEF IsConst, ChecksSame
  <2>2. ASSUME NEW i \in DOMAIN frames
        PROVE  /\ GoodTarget(frames[i].goes)
               /\ /\ frames[i].goes.kind \in {"assign", "compound"}
                  /\ i + 1 \in DOMAIN frames
                  => ~ \E d \in envs'[frames[i + 1].env].scope :
                         frames[i].goes.name \in envs'[d].consts
    <3>1. GoodTarget(frames[i].goes)
      BY <1>1 DEF Pending
    <3>2. ASSUME frames[i].goes.kind \in {"assign", "compound"}, i + 1 \in DOMAIN frames
          PROVE  ~ \E d \in envs'[frames[i + 1].env].scope :
                    frames[i].goes.name \in envs'[d].consts
      <4>1. PICK c \in DOMAIN envs : c = frames[i + 1].env
        BY <1>1, <3>2 DEF FramesOK
      <4>2. PICK m : m = frames[i].goes.name
        OBVIOUS
      <4>3. ~IsConst(c, m)
        BY <1>1, <3>2, <4>1, <4>2 DEF Pending
      <4>4. ~IsConst(c, m)'
        BY <2>1, <4>3
      <4>5. QED BY <4>1, <4>2, <4>4 DEF IsConst
    <3>3. QED BY <3>1, <3>2
  <2>3. QED BY <1>13, <1>14, <2>2 DEF Pending, IsConst, GoodTarget
<1>20. FramesOK' /\ Stack'
  BY <1>1, <1>13, <1>14, <1>15 DEF FramesOK, Stack
<1>21. NamesDisjoint'
  BY <1>1 DEF NamesDisjoint
<1>22. \A d \in 1 .. Len(envs) - 1 : envs'[d] = envs[d]
  BY <1>1, <1>4, <1>6, EnvParts
<1>23. QED BY <1>7, <1>17, <1>18, <1>19, <1>20, <1>21, <1>22 DEF IInv, Keeps

\* What a new environment inside of environment p does to the others.
Grown(p) ==
  LET l == Len(envs) + 1 IN
  /\ envs' \in Seq(Env) /\ Len(envs') = l /\ DOMAIN envs' = 1 .. l
  /\ \A d \in DOMAIN envs : envs'[d] = envs[d]
  /\ envs'[l].scope = envs[p].scope \cup {l}
  /\ envs'[l].consts = {}
  /\ \A n \in Names : envs'[l].store[n] = None /\ envs'[l].types[n] = None

LEMMA EnterGrows ==
  ASSUME EnvsOK, NEW p \in DOMAIN envs, Len(envs) < MaxEnvs,
         envs' = Append(envs, NewEnv(envs[p].scope \cup {Len(envs) + 1}))
  PROVE  Grown(p)
<1> DEFINE l == Len(envs) + 1
           new == NewEnv(envs[p].scope \cup {l})
<1>1. /\ envs \in Seq(Env) /\ Len(envs) \in Nat /\ DOMAIN envs = 1 .. Len(envs)
      /\ MaxEnvs \in Nat /\ l \in 1 .. MaxEnvs
  BY BoundsAssumption, EnvParts DEF EnvsOK
<1>2. envs[p].scope \cup {l} \in SUBSET (1 .. MaxEnvs)
  BY <1>1, EnvParts
<1>3. /\ new \in Env
      /\ new.scope = envs[p].scope \cup {l} /\ new.consts = {}
      /\ \A n \in Names : new.store[n] = None /\ new.types[n] = None
  BY <1>2 DEF NewEnv, Env
<1> HIDE DEF new
<1>4. /\ envs' \in Seq(Env) /\ Len(envs') = l /\ envs'[l] = new
      /\ \A d \in 1 .. Len(envs) : envs'[d] = envs[d]
  BY <1>1, <1>3, AppendProperties DEF new
<1>5. DOMAIN envs' = 1 .. l
  BY <1>4
<1>6. QED BY <1>1, <1>3, <1>4, <1>5 DEF Grown

LEMMA GrownKeeps ==
  ASSUME EInv, NEW p \in DOMAIN envs, Len(envs) < MaxEnvs, Grown(p)
  PROVE  EInv' /\ ConstsStay /\ NamesStay
<1> DEFINE l == Len(envs) + 1
<1>1. /\ EnvsOK /\ Chains /\ TypedOnce /\ ConstsTyped /\ TypedKeepsType
      /\ Len(envs) \in Nat /\ MaxEnvs \in Nat /\ DOMAIN envs = 1 .. Len(envs)
      /\ p \in Nat /\ envs[p].scope \subseteq DOMAIN envs
      /\ envs[p].scope \subseteq 1 .. p /\ {1, p} \subseteq envs[p].scope
  BY BoundsAssumption, EnvParts DEF EInv, EnvsOK, Global
<1>2. /\ envs' \in Seq(Env) /\ Len(envs') = l /\ DOMAIN envs' = 1 .. l
      /\ \A d \in DOMAIN envs : envs'[d] = envs[d]
      /\ envs'[l].scope = envs[p].scope \cup {l} /\ envs'[l].consts = {}
      /\ \A n \in Names : envs'[l].store[n] = None /\ envs'[l].types[n] = None
  BY DEF Grown
<1>3. l \in Nat /\ l \notin DOMAIN envs /\ DOMAIN envs \subseteq DOMAIN envs'
      /\ l \in DOMAIN envs' /\ l \in 1 .. MaxEnvs
      /\ \A d \in DOMAIN envs' : d = l \/ d \in DOMAIN envs
  BY <1>1, <1>2
<1> HIDE DEF l
<1>4. \A d \in DOMAIN envs : envs[d].scope \subseteq DOMAIN envs
  BY <1>1, EnvParts
<1>5. EnvsOK'
  <2>1. {1, l} \subseteq envs'[l].scope /\ envs'[l].scope \subseteq 1 .. l
    BY <1>1, <1>2, <1>3 DEF l
  <2>2. ASSUME NEW d \in DOMAIN envs'
        PROVE  {Global, d} \subseteq envs'[d].scope /\ envs'[d].scope \subseteq 1 .. d
    BY <1>1, <1>2, <1>3, <2>1 DEF EnvsOK, Global
  <2>3. QED BY <1>2, <1>3, <2>2 DEF EnvsOK
<1>6. Chains'
  <2> SUFFICES ASSUME NEW c \in DOMAIN envs', NEW d \in envs'[c].scope
               PROVE  envs'[d].scope = envs'[c].scope \cap (1 .. d)
    BY DEF Chains
  <2>1. CASE c \in DOMAIN envs
    BY <1>1, <1>2, <1>4, <2>1 DEF Chains
  <2>2. CASE c = l /\ d = l
    <3>1. envs'[l].scope \subseteq 1 .. l
      BY <1>3, <1>5 DEF EnvsOK
    <3>2. QED BY <2>2, <3>1
  <2>3. CASE c = l /\ d \in envs[p].scope
    <3>1. d \in DOMAIN envs /\ envs[d].scope = envs[p].scope \cap (1 .. d)
      BY <1>1, <2>3 DEF Chains
    <3>2. l \notin 1 .. d
      BY <1>1, <3>1 DEF l
    <3>3. QED BY <1>2, <2>3, <3>1, <3>2
  <2>4. QED BY <1>2, <1>3, <2>1, <2>2, <2>3
<1>7. TypedOnce'
  <2> SUFFICES ASSUME NEW d \in DOMAIN envs', NEW n \in Names, envs'[d].types[n] # None
               PROVE  /\ n \in VarNames
                      /\ envs'[d].store[n] # None
                      /\ \A c \in DOMAIN envs' :
                           d \in envs'[c].scope /\ c # d => envs'[c].store[n] = None
    BY DEF TypedOnce
  <2>1. d \in DOMAIN envs /\ envs[d].types[n] # None
    BY <1>2, <1>3
  <2>2. n \in VarNames /\ envs'[d].store[n] # None
    BY <1>1, <1>2, <2>1 DEF TypedOnce
  <2>3. ASSUME NEW c \in DOMAIN envs', d \in envs'[c].scope, c # d
        PROVE  envs'[c].store[n] = None
    BY <1>1, <1>2, <1>3, <2>1, <2>3 DEF TypedOnce
  <2>4. QED BY <2>2, <2>3
<1>8. ConstsTyped'
  BY <1>1, <1>2, <1>3 DEF ConstsTyped
<1>9. TypedKeepsType'
  <2> SUFFICES ASSUME NEW d \in DOMAIN envs', NEW n \in Names, envs'[d].types[n] # None
               PROVE  TypeOf(envs'[d].store[n]) = envs'[d].types[n]
    BY DEF TypedKeepsType, TypeOf
  <2>1. d \in DOMAIN envs /\ envs'[d] = envs[d]
    BY <1>2, <1>3
  <2>2. QED BY <1>1, <2>1 DEF TypedKeepsType
<1>10. ConstsStay
  BY <1>2 DEF ConstsStay
<1>11. NamesStay
  <2> SUFFICES ASSUME NEW e \in DOMAIN envs, NEW n \in Names
               PROVE  Home(e, n)' = Home(e, n)
    BY DEF NamesStay
  <2>1. Holders(e, n)' = Holders(e, n)
    BY <1>2, <1>4 DEF Holders
  <2>2. QED BY <2>1 DEF Home, Visible
<1>12. QED BY <1>5, <1>6, <1>7, <1>8, <1>9, <1>10, <1>11 DEF EInv

LEMMA EnterStep ==
  ASSUME IInv, InBody, NEW f, Good(f), f \notin Data,
         NEW bindings \in Seq(Binding),
         \A i \in DOMAIN bindings :
           bindings[i].name \in ParamsOf(f.says) /\ Good(bindings[i].value),
         NEW returns \in SUBSET Types, NEW t, GoodTarget(t),
         t.kind \in {"assign", "compound"} => ~IsConst(Here, t.name),
         Enter(f, bindings, returns, t)
  PROVE  Keeps
<1>1. EInv /\ EnvsOK /\ FramesOK /\ Stack /\ Pending /\ Todo /\ Held /\ NamesDisjoint
  BY DEF IInv, EInv
<1>2. /\ Len(envs) < MaxEnvs /\ f.env \in DOMAIN envs
      /\ FreshParams(f.env, f.says)
      /\ envs' = Append(envs, NewEnv(envs[f.env].scope \cup {Len(envs) + 1}))
  BY DEF Enter, Enclosing, Good
<1> DEFINE l == Len(envs) + 1
           new == [env |-> l, todo |-> bindings, returns |-> returns, goes |-> t]
<1>3. Grown(f.env)
  BY <1>1, <1>2, EnterGrows
<1>4. EInv' /\ ConstsStay /\ NamesStay
  BY <1>1, <1>2, <1>3, GrownKeeps
<1>5. /\ Len(envs') = l /\ DOMAIN envs' = 1 .. l
      /\ \A d \in DOMAIN envs : envs'[d] = envs[d]
      /\ envs'[l].scope = envs[f.env].scope \cup {l}
      /\ \A n \in Names : envs'[l].store[n] = None
  BY <1>3 DEF Grown
<1>6. /\ l \in Nat /\ l \notin DOMAIN envs /\ DOMAIN envs \subseteq DOMAIN envs'
      /\ l \in DOMAIN envs' /\ l \in 1 .. MaxEnvs
      /\ \A d \in DOMAIN envs' : d = l \/ d \in DOMAIN envs
      /\ \A d \in DOMAIN envs : d < l /\ envs[d].scope \subseteq DOMAIN envs
  <2>1. Len(envs) \in Nat /\ MaxEnvs \in Nat /\ DOMAIN envs = 1 .. Len(envs)
    BY <1>1, <1>2, BoundsAssumption, EnvParts
  <2>2. QED BY <1>1, <1>2, <1>5, <2>1, EnvParts
<1>7. new \in Frame
  BY <1>6 DEF Frame, GoodTarget
<1>8. /\ Len(frames) \in Nat /\ 1 \in DOMAIN frames /\ DOMAIN frames = 1 .. Len(frames)
      /\ frames \in Seq(Frame) /\ Here = frames[1].env
  BY <1>1, FrameParts DEF FramesOK
<1>9. /\ new.env = l /\ new.todo = bindings /\ new.goes = t
      /\ frames' = <<new>> \o frames
  BY DEF Enter
<1> HIDE DEF new, l
<1>10. /\ frames' \in Seq(Frame) /\ frames' # << >>
       /\ Len(frames') = Len(frames) + 1 /\ DOMAIN frames' = 1 .. Len(frames) + 1
       /\ Head(frames') = new /\ frames'[1] = new
       /\ \A i \in DOMAIN frames' : i # 1 => i - 1 \in DOMAIN frames /\ frames'[i] = frames[i - 1]
  <2>1. <<new>> \in Seq(Frame) /\ Len(<<new>>) = 1 /\ <<new>>[1] = new
    BY <1>7
  <2>2. /\ frames' \in Seq(Frame) /\ Len(frames') = Len(frames) + 1
        /\ frames'[1] = new
        /\ \A i \in 1 .. Len(frames) + 1 : i # 1 => frames'[i] = frames[i - 1]
    BY <1>8, <1>9, <2>1, ConcatProperties
  <2>3. DOMAIN frames' = 1 .. Len(frames) + 1 /\ frames' # << >> /\ Head(frames') = new
    BY <1>8, <2>2
  <2>4. \A i \in DOMAIN frames' : i # 1 => i - 1 \in DOMAIN frames
    BY <1>8, <2>3
  <2>5. QED BY <2>2, <2>3, <2>4
<1>11. FramesOK'
  <2>1. ASSUME NEW i \in DOMAIN frames'
        PROVE  frames'[i].env \in DOMAIN envs'
    BY <1>1, <1>6, <1>9, <1>10 DEF FramesOK
  <2>2. QED BY <1>10, <2>1 DEF FramesOK
<1>12. Stack'
  <2> SUFFICES ASSUME NEW i \in DOMAIN frames', NEW j \in DOMAIN frames', i < j
               PROVE  frames'[j].env < frames'[i].env
    BY DEF Stack
  <2>1. j # 1 /\ j - 1 \in DOMAIN frames /\ frames'[j] = frames[j - 1]
    BY <1>8, <1>10
  <2>2. CASE i = 1
    BY <1>1, <1>6, <1>9, <1>10, <2>1, <2>2 DEF FramesOK
  <2>3. CASE i # 1
    <3>1. i - 1 \in DOMAIN frames /\ frames'[i] = frames[i - 1] /\ i - 1 < j - 1
      BY <1>8, <1>10, <2>1, <2>3
    <3>2. QED BY <1>1, <2>1, <3>1 DEF Stack
  <2>4. QED BY <2>2, <2>3
<1>13. ASSUME NEW i \in DOMAIN frames
       PROVE  frames[i].todo = << >>
  <2>1. Head(frames) = frames[1]
    BY <1>1, FrameParts
  <2>2. QED BY <1>1, <1>13, <2>1 DEF Todo, InBody
<1>14. ASSUME NEW i \in DOMAIN bindings, NEW c \in envs'[l].scope, c # l
       PROVE  envs'[c].store[bindings[i].name] = None
  <2>1. c \in envs[f.env].scope /\ c \in DOMAIN envs
    BY <1>2, <1>5, <1>6, <1>14
  <2>2. ~Visible(f.env, bindings[i].name)
    BY <1>2 DEF FreshParams
  <2>3. QED BY <1>5, <2>1, <2>2 DEF Visible, Holders
<1>15. Todo'
  <2>1. \A i \in DOMAIN frames' : frames'[i].todo # << >> => i = 1
    BY <1>10, <1>13
  <2>2. Here' = l /\ Head(frames').todo = bindings
    BY <1>9, <1>10 DEF Here
  <2>3. QED BY <1>5, <1>14, <2>1, <2>2 DEF Todo
<1>16. Pending'
  <2>1. ASSUME NEW c \in DOMAIN envs, NEW m, ~IsConst(c, m)
        PROVE  ~ \E d \in envs'[c].scope : m \in envs'[d].consts
    BY <1>5, <1>6, <2>1 DEF IsConst
  <2>2. ASSUME NEW i \in DOMAIN frames'
        PROVE  /\ GoodTarget(frames'[i].goes)
               /\ /\ frames'[i].goes.kind \in {"assign", "compound"}
                  /\ i + 1 \in DOMAIN frames'
                  => ~ \E d \in envs'[frames'[i + 1].env].scope :
                         frames'[i].goes.name \in envs'[d].consts
    <3>1. CASE i = 1
      <4>1. i + 1 \in DOMAIN frames' => frames'[i + 1] = frames[1]
        <5>1. i + 1 = 2 /\ 2 # 1 /\ 2 - 1 = 1
          BY <3>1
        <5>2. QED BY <1>10, <5>1
      <4>2. PICK c \in DOMAIN envs : c = frames[1].env
        BY <1>1, <1>8 DEF FramesOK
      <4>3. t.kind \in {"assign", "compound"} => ~IsConst(c, t.name)
        BY <1>8, <4>2
      <4>4. frames'[i].goes = t
        BY <1>9, <1>10, <3>1
      <4>5. QED BY <2>1, <4>1, <4>2, <4>3, <4>4
    <3>2. CASE i # 1
      <4>1. i - 1 \in DOMAIN frames /\ frames'[i] = frames[i - 1]
        BY <1>10, <3>2
      <4>2. i + 1 \in DOMAIN frames' =>
              (i - 1) + 1 \in DOMAIN frames /\ frames'[i + 1] = frames[(i - 1) + 1]
        <5>1. SUFFICES ASSUME i + 1 \in DOMAIN frames'
              PROVE  (i - 1) + 1 \in DOMAIN frames /\ frames'[i + 1] = frames[(i - 1) + 1]
          OBVIOUS
        <5>2. i \in Nat /\ (i - 1) + 1 = (i + 1) - 1 /\ i + 1 # 1
          BY <1>8, <1>10
        <5>3. QED BY <1>10, <5>1, <5>2
      <4>3. GoodTarget(frames[i - 1].goes)
        BY <1>1, <4>1 DEF Pending
      <4>4. ASSUME frames'[i].goes.kind \in {"assign", "compound"}, i + 1 \in DOMAIN frames'
            PROVE  ~ \E d \in envs'[frames'[i + 1].env].scope :
                      frames'[i].goes.name \in envs'[d].consts
        <5>1. (i - 1) + 1 \in DOMAIN frames /\ frames'[i + 1] = frames[(i - 1) + 1]
          BY <4>2, <4>4
        <5>2. PICK c \in DOMAIN envs : c = frames[(i - 1) + 1].env
          BY <1>1, <5>1 DEF FramesOK
        <5>3. ~IsConst(c, frames[i - 1].goes.name)
          BY <1>1, <4>1, <4>4, <5>1, <5>2 DEF Pending
        <5>4. QED BY <2>1, <4>1, <5>1, <5>2, <5>3
      <4>5. QED BY <4>1, <4>3, <4>4
    <3>3. QED BY <3>1, <3>2
  <2>3. QED BY <2>2 DEF Pending, IsConst, GoodTarget
<1>17. ASSUME NEW v, Good(v)
       PROVE  Good(v)'
  <2>1. v \notin Data =>
          /\ v.env \in DOMAIN envs /\ v.env # Len(envs')
          /\ \A c \in envs[v.env].scope : c \in DOMAIN envs
    BY <1>5, <1>6, <1>17 DEF Good
  <2>2. QED BY <1>1, <1>5, <1>6, <1>17, <2>1, GoodStays
<1>18. Held'
  <2>1. ASSUME NEW d \in DOMAIN envs', NEW n \in Names, NEW v \in Value,
               envs'[d].store[n] = v
        PROVE  Good(v)'
    <3>1. d \in DOMAIN envs
      BY <1>5, <1>6, <2>1, ValuesAreThere
    <3>2. Good(v)
      BY <1>1, <1>5, <2>1, <3>1 DEF Held
    <3>3. QED BY <1>17, <3>2
  <2>2. ASSUME NEW i \in DOMAIN bindings, NEW v \in Value, bindings[i].value = v
        PROVE  Good(v)'
    BY <1>17, <2>2
  <2>3. Head(frames').todo = bindings
    BY <1>9, <1>10
  <2>4. QED BY <2>1, <2>2, <2>3 DEF Held
<1>19. NamesDisjoint'
  BY <1>1 DEF NamesDisjoint
<1>20. QED BY <1>4, <1>11, <1>12, <1>15, <1>16, <1>18, <1>19 DEF IInv, Keeps

LEMMA CalledIsGood ==
  ASSUME IInv, NEW n \in Callable(Here)
  PROVE  Good(Get(Here, n)) /\ Get(Here, n) \notin Data
<1>1. EnvsOK /\ FramesOK /\ Held
  BY DEF IInv, EInv
<1>2. PICK e \in DOMAIN envs : e = Here
  BY <1>1, FrameParts
<1>3. n \in Names /\ Visible(e, n) /\ Get(e, n) \notin Data
  BY <1>2 DEF Callable
<1>4. PICK d \in DOMAIN envs : d = Home(e, n) /\ envs[d].store[n] # None
  BY <1>1, <1>3, HomeFacts
<1>5. Get(e, n) = envs[d].store[n] /\ Get(e, n) \in Value
  BY <1>1, <1>3, <1>4, EnvParts DEF Get
<1>6. Good(Get(e, n))
  BY <1>1, <1>3, <1>5 DEF Held
<1>7. QED BY <1>2, <1>3, <1>6

LEMMA SaysIsSignature ==
  ASSUME NEW f, Good(f), f \notin Data
  PROVE  /\ f.says \in Signatures \cup Lambdas
         /\ f.says.params \in Seq(Param) /\ f.says.returns \in SUBSET Types
         /\ Len(f.says.params) \in Nat
         /\ DOMAIN f.says.params = 1 .. Len(f.says.params)
         /\ \A i \in 1 .. Len(f.says.params) : f.says.params[i] \in Param
<1>1. f.says \in Signatures \cup Lambdas
  BY DEF Good, Value, Closure
<1>2. f.says \in Signature
  BY <1>1, SignatureAssumption
<1>3. f.says.params \in Seq(Param) /\ f.says.returns \in SUBSET Types
  BY <1>2 DEF Signature
<1>4. QED BY <1>1, <1>3

\* A binding of parameter i of f.
LEMMA BindingIsGood ==
  ASSUME NEW f, Good(f), f \notin Data, NEW i \in 1 .. Len(f.says.params),
         NEW ty, ty \in {f.says.params[i].type, None}, NEW v, Good(v)
  PROVE  /\ [name |-> f.says.params[i].name, type |-> ty, value |-> v] \in Binding
         /\ f.says.params[i].name \in ParamsOf(f.says)
<1>1. f.says.params[i] \in Param /\ i \in DOMAIN f.says.params
      /\ f.says \in Signatures \cup Lambdas
  BY SaysIsSignature
<1>2. f.says.params[i].name \in ParamNames /\ f.says.params[i].type \in Types \cup {None}
  BY <1>1 DEF Param
<1>3. f.says.params[i].name \in ParamsOf(f.says)
  BY <1>1, ParamNamesOf
<1>4. v \in Value
  BY DEF Good
<1>5. QED BY <1>2, <1>3, <1>4 DEF Binding

LEMMA CallStep ==
  ASSUME IInv, InBody, NEW n \in Callable(Here),
         NEW args \in Arguments(Here, Get(Here, n).says), NEW t \in Targets,
         \A v \in Range(args) : TidyValue(v), Call(n, args, t)
  PROVE  Keeps
<1> DEFINE f == Get(Here, n)
           p == f.says.params
           bindings == Checked(f.says, args)
           u == Begun(Here, t)
<1>1. Good(f) /\ f \notin Data
  BY CalledIsGood
<1>2. PICK k \in 0 .. Len(p) : args \in [1 .. k -> Values(Here)] /\ ArityFits(f.says, args)
  BY DEF Arguments
<1> HIDE DEF f
<1>3. /\ Len(p) \in Nat /\ f.says.returns \in SUBSET Types
      /\ \A i \in 1 .. Len(p) : p[i] \in Param
  BY <1>1, SaysIsSignature
<1>4. k \in Nat /\ Len(args) = k
  BY <1>2, <1>3
<1>5. ASSUME NEW i \in 1 .. k
      PROVE  Good(args[i])
  <2>1. args[i] \in Values(Here) /\ args[i] \in Range(args)
    BY <1>2 DEF Range
  <2>2. QED BY <2>1, TidyIsGood
<1>6. ASSUME NEW i \in 1 .. Len(p), i > k
      PROVE  Good(p[i].default)
  <2>1. i \in Len(args) + 1 .. Len(p)
    BY <1>3, <1>4, <1>6
  <2>2. p[i].default # None
    BY <1>2, <2>1 DEF ArityFits
  <2>3. p[i].default \in Data
    BY <1>3, <2>2 DEF Param
  <2>4. QED BY <2>3 DEF Good, Value
<1>7. ASSUME NEW i \in 1 .. Len(p)
      PROVE  /\ bindings[i] \in Binding
             /\ bindings[i].name \in ParamsOf(f.says) /\ Good(bindings[i].value)
  <2>1. PICK v : v = IF i =< Len(args) THEN args[i] ELSE p[i].default
    OBVIOUS
  <2>2. Good(v)
    BY <1>3, <1>4, <1>5, <1>6, <2>1
  <2>3. bindings[i] = [name |-> p[i].name, type |-> p[i].type, value |-> v]
    BY <2>1 DEF Checked
  <2> HIDE DEF bindings
  <2>4. PICK ty : ty = p[i].type
    OBVIOUS
  <2>5. /\ [name |-> p[i].name, type |-> ty, value |-> v] \in Binding
        /\ p[i].name \in ParamsOf(f.says)
    BY <1>1, <2>2, <2>4, BindingIsGood
  <2>6. QED BY <2>2, <2>3, <2>4, <2>5
<1>8. DOMAIN bindings = 1 .. Len(p) /\ bindings \in Seq(Binding)
  <2>1. DOMAIN bindings = 1 .. Len(p)
    BY DEF Checked
  <2>2. bindings \in [1 .. Len(p) -> Binding]
    BY <1>7 DEF Checked
  <2>3. QED BY <1>3, <2>1, <2>2, SeqDef
<1>9. PICK e \in DOMAIN envs : e = Here
  BY FrameParts DEF IInv
<1>10. ~Refused(e, t) /\ Enter(f, bindings, f.says.returns, u)
  BY <1>9 DEF Call, f
<1>11. GoodTarget(u) /\ u.kind = t.kind /\ u.name = t.name
  BY <1>9, <1>10, BegunIsGood DEF IInv, EInv
<1>12. u.kind \in {"assign", "compound"} => ~IsConst(Here, u.name)
  BY <1>9, <1>10, <1>11 DEF Refused
<1> HIDE DEF u, bindings, p
<1>13. QED BY <1>1, <1>3, <1>7, <1>8, <1>10, <1>11, <1>12, EnterStep

LEMMA CallBackStep ==
  ASSUME IInv, InBody, NEW f \in Values(Here) \ Data,
         NEW args \in BuiltinArguments(Here, f.says),
         \A v \in Range(args) \cup {f} : TidyValue(v), CallBack(f, args)
  PROVE  Keeps
<1> DEFINE p == f.says.params
           bindings == Unchecked(f.says, args)
           m == IF Len(args) < Len(p) THEN Len(args) ELSE Len(p)
           u == To("drop", None, None)
<1>1. Good(f) /\ f \notin Data
  BY TidyIsGood
<1>2. PICK k \in 1 .. 2 : args \in [1 .. k -> Values(Here)]
  <2>1. PICK k \in 1 .. (IF Len(p) > 1 THEN 2 ELSE 1) : args \in [1 .. k -> Values(Here)]
    BY DEF BuiltinArguments
  <2>2. k \in 1 .. 2
    OBVIOUS
  <2>3. QED BY <2>1, <2>2
<1>3. Len(p) \in Nat /\ \A i \in 1 .. Len(p) : p[i] \in Param
  BY <1>1, SaysIsSignature
<1>4. Len(args) = k
  BY <1>2
<1>5. m \in Nat /\ \A i \in 1 .. m : i \in 1 .. Len(p) /\ i \in 1 .. k
  BY <1>3, <1>4
<1>6. ASSUME NEW i \in 1 .. k
      PROVE  Good(args[i])
  <2>1. args[i] \in Values(Here) /\ args[i] \in Range(args)
    BY <1>2 DEF Range
  <2>2. QED BY <2>1, TidyIsGood
<1>7. ASSUME NEW i \in 1 .. m
      PROVE  /\ bindings[i] \in Binding
             /\ bindings[i].name \in ParamsOf(f.says) /\ Good(bindings[i].value)
  <2>1. i \in 1 .. Len(p) /\ Good(args[i])
    BY <1>5, <1>6
  <2>2. bindings[i] = [name |-> p[i].name, type |-> None, value |-> args[i]]
    BY DEF Unchecked
  <2>3. QED BY <1>1, <2>1, <2>2, BindingIsGood
<1>8. DOMAIN bindings = 1 .. m /\ bindings \in Seq(Binding)
  <2>1. DOMAIN bindings = 1 .. m
    BY DEF Unchecked
  <2>2. bindings \in [1 .. m -> Binding]
    BY <1>7 DEF Unchecked
  <2>3. QED BY <1>5, <2>1, <2>2, SeqDef
<1>9. GoodTarget(u) /\ u.kind = "drop"
  BY DEF GoodTarget, Target, To
<1>10. Enter(f, bindings, {}, u) /\ {} \in SUBSET Types
  BY DEF CallBack
<1> HIDE DEF u, bindings, p, m
<1>11. QED BY <1>1, <1>7, <1>8, <1>9, <1>10, EnterStep

-----------------------------------------------------------------------------
(* The theorems.                                                           *)

LEMMA InitHolds ==
  ASSUME Init, NamesDisjoint
  PROVE  IInv
<1> DEFINE new == NewEnv({Global})
<1>1. 1 \in 1 .. MaxEnvs
  BY BoundsAssumption
<1>2. /\ new \in Env /\ new.scope = {1} /\ new.consts = {}
      /\ \A n \in Names : new.store[n] = None /\ new.types[n] = None
  BY <1>1 DEF NewEnv, Env, Global
<1>3. envs = <<new>>
  BY DEF Init
<1> HIDE DEF new
<1>4. /\ envs \in Seq(Env) /\ Len(envs) = 1 /\ DOMAIN envs = {1} /\ envs[1] = new
  BY <1>2, <1>3
<1>5. EnvsOK
  BY <1>1, <1>2, <1>4 DEF EnvsOK, Global
<1>6. Chains /\ TypedOnce /\ ConstsTyped /\ TypedKeepsType
  BY <1>2, <1>4 DEF Chains, TypedOnce, ConstsTyped, TypedKeepsType
<1>7. /\ Program \in Frame /\ Program.env = 1 /\ 1 \in DOMAIN envs
      /\ GoodTarget(Program.goes) /\ Program.goes.kind = "drop"
      /\ Program.todo = << >>
  BY <1>5, ProgramIsFrame
<1>8. /\ frames = <<Program>> /\ DOMAIN frames = {1} /\ frames[1] = Program
      /\ Head(frames) = Program /\ frames \in Seq(Frame) /\ frames # << >>
  BY <1>7 DEF Init
<1>9. InBody
  BY <1>7, <1>8 DEF InBody
<1>10. FramesOK /\ Stack /\ Pending /\ Todo
  BY <1>7, <1>8, <1>9 DEF FramesOK, Stack, Pending, Todo
<1>11. Held
  BY <1>2, <1>4, <1>7, <1>8, ValuesAreThere DEF Held
<1>12. QED BY <1>5, <1>6, <1>10, <1>11 DEF IInv, EInv

LEMMA StepKeeps ==
  ASSUME IInv, TidyNext
  PROVE  Keeps
<1>1. CASE InBody /\ \E t \in Targets : \E v \in Values(Here) :
             TidyTarget(Here, t) /\ TidyValue(v) /\ Store(t, v)
  BY <1>1, StoreStep
<1>2. CASE InBody /\ \E n \in FuncNames, s \in Signatures :
             FreshParams(Here, s) /\ FuncDef(n, s)
  BY <1>2, FuncDefStep
<1>3. CASE InBody /\ \E n \in Callable(Here) :
             \E args \in Arguments(Here, Get(Here, n).says), t \in Targets :
               (\A v \in Range(args) : TidyValue(v)) /\ Call(n, args, t)
  BY <1>3, CallStep
<1>4. CASE InBody /\ \E f \in Values(Here) \ Data :
             \E args \in BuiltinArguments(Here, f.says) :
               /\ \A v \in Range(args) \cup {f} : TidyValue(v)
               /\ CallBack(f, args)
  BY <1>4, CallBackStep
<1>5. CASE InBody /\ \E v \in Values(Here) :
             /\ Len(frames) > 1 => TidyTarget(frames[2].env, Head(frames).goes)
             /\ TidyValue(v) /\ Return(v)
  BY <1>5, ReturnStep
<1>6. CASE BindParam
  BY <1>6, BindParamStep
<1>7. CASE RuntimeError
  BY <1>7, RuntimeErrorStep
<1>8. QED BY <1>1, <1>2, <1>3, <1>4, <1>5, <1>6, <1>7 DEF TidyNext

LEMMA StutterKeeps ==
  ASSUME IInv, UNCHANGED vars
  PROVE  Keeps
<1>1. UNCHANGED envs /\ UNCHANGED frames
  BY DEF vars
<1>2. Kept(1, None)
  BY <1>1, NothingWritten DEF IInv
<1>3. NamesDisjoint' /\ FramesOK' /\ Stack' /\ Todo'
  BY <1>1 DEF IInv, NamesDisjoint, FramesOK, Stack, Todo, InBody, Here
<1>4. Pending'
  BY <1>1 DEF IInv, Pending, GoodTarget, IsConst
<1>5. Held'
  BY <1>1 DEF IInv, Held, Good, InBody, FreshParams, Visible, Holders
<1>6. QED BY <1>2, <1>3, <1>4, <1>5 DEF IInv, Kept, Keeps

THEOREM InvariantHolds == TidySpec => []IInv
<1>1. Init /\ NamesDisjoint => IInv
  BY InitHolds
<1>2. IInv /\ [TidyNext]_vars => IInv'
  BY StepKeeps, StutterKeeps DEF Keeps
<1>3. QED BY <1>1, <1>2, PTL DEF TidySpec

\* The variables have their types, scopes are chains upwards to the global
\* environment, and every call in progress has an environment.
THEOREM TypesHold == TidySpec => []TypeOK
<1>1. IInv => TypeOK
  BY DEF IInv, EInv, EnvsOK, FramesOK, TypeOK
<1>2. QED BY <1>1, InvariantHolds, PTL

\* A variable declared with a type holds a value of that type, whichever
\* call, loop, catch, closure or parameter was bound since.
THEOREM DeclaredTypesHold == TidySpec => []TypedKeepsType
<1>1. IInv => TypedKeepsType
  BY DEF IInv, EInv
<1>2. QED BY <1>1, InvariantHolds, PTL

\* The type and the const flag that an assignment is checked against are
\* those of the variable that it writes.
THEOREM ChecksAreRight == TidySpec => []ChecksFollowBinding
<1>1. IInv => ChecksFollowBinding
  BY ChecksAreTheBindings DEF IInv
<1>2. QED BY <1>1, InvariantHolds, PTL

\* What a const declaration stored stays, also when the variable became a
\* const while the value of an earlier assignment was still being computed.
THEOREM ConstsHold == TidySpec => ConstNeverChanges
<1>1. IInv /\ [TidyNext]_vars =>
        [\A d \in DOMAIN envs : \A n \in envs[d].consts :
           envs'[d].store[n] = envs[d].store[n]]_vars
  BY StepKeeps, StutterKeeps DEF Keeps, ConstsStay
<1>2. QED BY <1>1, InvariantHolds, PTL DEF TidySpec, ConstNeverChanges

\* A name that stands for a variable in an environment never comes to stand
\* for a nearer one.
THEOREM NamesHold == TidySpec => NamesStayBound
<1>1. IInv /\ [TidyNext]_vars =>
        [\A e \in DOMAIN envs : \A n \in Names :
           Visible(e, n) => Home(e, n)' = Home(e, n)]_vars
  BY StepKeeps, StutterKeeps DEF Keeps, NamesStay
<1>2. QED BY <1>1, InvariantHolds, PTL DEF TidySpec, NamesStayBound

\* Binding the parameters of a call writes no variable of another environment.
THEOREM ParametersAreLocal == TidySpec => ParamsAreLocal
<1>1. IInv /\ [TidyNext]_vars =>
        [~InBody => \A d \in 1 .. Len(envs) - 1 : envs'[d] = envs[d]]_vars
  <2> SUFFICES ASSUME IInv, TidyNext, ~InBody
               PROVE  \A d \in 1 .. Len(envs) - 1 : envs'[d] = envs[d]
    OBVIOUS
  <2>1. CASE BindParam
    BY <2>1, BindParamStep
  <2>2. CASE RuntimeError
    BY <2>2 DEF RuntimeError
  <2>3. QED BY <2>1, <2>2 DEF TidyNext
<1>2. QED BY <1>1, InvariantHolds, PTL DEF TidySpec, ParamsAreLocal

-----------------------------------------------------------------------------
(* The dictionary of the interpreter, for every set of keys, values and     *)
(* literals, as long as no literal repeats a key (KeysAreThePairs is false  *)
(* without).  The invariant is the property itself with the types of  *)
(* a running merge; with it each statement is one step of the ordered map,  *)
(* a merge a step per key.                                                  *)

NoneRepeats ==
  \A lit \in Literals : \A i, j \in DOMAIN lit : lit[i].key = lit[j].key => i = j

PairsInv ==
  /\ DictTypeOK
  /\ KeysAreThePairs
  /\ \A i \in DOMAIN todo : from[todo[i]] \in Vals

-----------------------------------------------------------------------------
(* The literals, and the two changes of a dictionary.                      *)

LEMMA LiteralParts ==
  ASSUME NEW lit \in Literals, NoneRepeats
  PROVE  /\ KeyListOf(lit) \in Seq(Keys)
         /\ DOMAIN KeyListOf(lit) = DOMAIN lit
         /\ \A i \in DOMAIN lit : KeyListOf(lit)[i] = lit[i].key
         /\ DOMAIN PairsOf(lit) = {lit[i].key : i \in DOMAIN lit}
         /\ \A i \in DOMAIN lit : PairsOf(lit)[lit[i].key] \in Vals
<1>1. lit \in Seq(Entry)
  BY LiteralsAssumption
<1>2. /\ DOMAIN lit = 1 .. Len(lit) /\ Len(lit) \in Nat
      /\ \A i \in DOMAIN lit : lit[i].key \in Keys /\ lit[i].value \in Vals
  <2>1. /\ DOMAIN lit = 1 .. Len(lit) /\ Len(lit) \in Nat
        /\ \A i \in DOMAIN lit : lit[i] \in Entry
    BY <1>1
  <2>2. \A e \in Entry : e.key \in Keys /\ e.value \in Vals
    BY DEF Entry
  <2>3. QED BY <2>1, <2>2
<1>3. KeyListOf(lit) \in Seq(Keys)
  BY <1>2, IsASeq DEF KeyListOf
<1>4. ASSUME NEW i \in DOMAIN lit
      PROVE  PairsOf(lit)[lit[i].key] \in Vals
  <2> DEFINE IsLast(m) == /\ lit[m].key = lit[i].key
                          /\ \A j \in DOMAIN lit : lit[j].key = lit[i].key => j <= m
  <2>1. IsLast(i)
    BY <1>2 DEF NoneRepeats
  <2>2. PICK m \in DOMAIN lit : m = CHOOSE n \in DOMAIN lit : IsLast(n)
    BY <2>1
  <2>3. PairsOf(lit)[lit[i].key] = lit[m].value
    BY <2>2 DEF PairsOf, KeysOf
  <2>4. QED BY <1>2, <2>3
<1>5. QED BY <1>2, <1>3, <1>4 DEF KeyListOf, PairsOf, KeysOf

\* A key that is written is in both, once, and the others stay as they were.
LEMMA WriteInStep ==
  ASSUME DictTypeOK, KeysAreThePairs, NEW k \in Keys, NEW v \in Vals,
         keys' = Remembered(k), pairs' = WithPair(pairs, k, v)
  PROVE  /\ DOMAIN pairs' \subseteq Keys
         /\ \A j \in DOMAIN pairs' : pairs'[j] \in Vals
         /\ keys' \in Seq(Keys)
         /\ KeysAreThePairs'
<1> USE DEF DictTypeOK
<1>1. DOMAIN pairs' = DOMAIN pairs \cup {k}
  BY DEF WithPair
<1>2. \A j \in DOMAIN pairs' : pairs'[j] \in Vals
  BY DEF WithPair
<1>3. CASE k \in DOMAIN pairs
  BY <1>1, <1>2, <1>3 DEF Remembered, KeysAreThePairs
<1>4. CASE k \notin DOMAIN pairs
  <2>1. keys' = Append(keys, k)
    BY <1>4 DEF Remembered
  <2>2. /\ keys' \in Seq(Keys)
        /\ DOMAIN keys = 1 .. Len(keys) /\ Len(keys) \in Nat
        /\ DOMAIN keys' = 1 .. Len(keys) + 1
        /\ \A i \in 1 .. Len(keys) : keys'[i] = keys[i]
        /\ keys'[Len(keys) + 1] = k
    BY <2>1, AppendProperties
  <2>3. \A j \in Keys : j \in DOMAIN pairs' <=> \E i \in DOMAIN keys' : keys'[i] = j
    BY <1>1, <2>2 DEF KeysAreThePairs
  <2>4. ASSUME NEW i \in DOMAIN keys', NEW j \in DOMAIN keys', keys'[i] = keys'[j]
        PROVE  i = j
    <3>1. \A n \in DOMAIN keys : keys[n] # k
      BY <1>4 DEF KeysAreThePairs
    <3>2. \A n \in 1 .. Len(keys) : keys'[n] # k
      BY <2>2, <3>1
    <3>3. CASE i \in 1 .. Len(keys) /\ j \in 1 .. Len(keys)
      <4>1. keys[i] = keys[j] /\ i \in DOMAIN keys /\ j \in DOMAIN keys
        BY <2>2, <2>4, <3>3
      <4>2. QED BY <4>1 DEF KeysAreThePairs
    <3>4. i \in 1 .. Len(keys) \/ i = Len(keys) + 1
      BY <2>2
    <3>5. j \in 1 .. Len(keys) \/ j = Len(keys) + 1
      BY <2>2
    <3>6. keys'[i] = k => i = Len(keys) + 1
      BY <3>2, <3>4
    <3>7. keys'[j] = k => j = Len(keys) + 1
      BY <3>2, <3>5
    <3>8. QED BY <2>2, <2>4, <3>3, <3>4, <3>5, <3>6, <3>7
  <2>5. QED BY <1>1, <1>2, <2>2, <2>3, <2>4 DEF KeysAreThePairs
<1>5. QED BY <1>3, <1>4

\* What is left of the keys when one is deleted.
LEMMA WithoutKey ==
  ASSUME keys \in Seq(Keys), NEW i \in DOMAIN keys
  PROVE  /\ KeysWithout(i) \in Seq(Keys)
         /\ DOMAIN KeysWithout(i) = 1 .. Len(keys) - 1
         /\ Len(KeysWithout(i)) = Len(keys) - 1
         /\ \A j \in 1 .. Len(keys) - 1 :
              KeysWithout(i)[j] = IF j < i THEN keys[j] ELSE keys[j + 1]
<1>1. /\ DOMAIN keys = 1 .. Len(keys) /\ Len(keys) - 1 \in Nat
      /\ \A j \in 1 .. Len(keys) : keys[j] \in Keys
  BY SMT
<1>2. \A j \in 1 .. Len(keys) - 1 : KeysWithout(i)[j] \in Keys
  BY <1>1 DEF KeysWithout
<1>3. KeysWithout(i) \in Seq(Keys) /\ Len(KeysWithout(i)) = Len(keys) - 1
  BY <1>1, <1>2, IsASeq DEF KeysWithout
<1>4. QED BY <1>3 DEF KeysWithout

LEMMA DeleteInStep ==
  ASSUME DictTypeOK, KeysAreThePairs, NEW k \in Keys, Delete(k)
  PROVE  DictTypeOK' /\ KeysAreThePairs'
<1>1. PICK i \in DOMAIN keys : keys[i] = k /\ keys' = KeysWithout(i)
  BY DEF Delete
<1>2. DOMAIN pairs' = DOMAIN pairs \ {k} /\ \A j \in DOMAIN pairs' : pairs'[j] = pairs[j]
  BY DEF Delete
<1>3. /\ keys \in Seq(Keys)
      /\ DOMAIN keys = 1 .. Len(keys) /\ Len(keys) \in Nat
  BY DEF DictTypeOK
<1>4. /\ keys' \in Seq(Keys)
      /\ DOMAIN keys' = 1 .. Len(keys) - 1
      /\ \A j \in DOMAIN keys' : keys'[j] = IF j < i THEN keys[j] ELSE keys[j + 1]
  BY <1>1, <1>3, WithoutKey
<1>5. DictTypeOK'
  BY <1>2, <1>4 DEF DictTypeOK, Delete
<1>6. ASSUME NEW m \in Keys
      PROVE  m \in DOMAIN pairs' <=> \E n \in DOMAIN keys' : keys'[n] = m
  <2>1. ASSUME NEW n \in DOMAIN keys', keys'[n] = m
        PROVE  m \in DOMAIN pairs'
    <3>1. PICK p \in DOMAIN keys : p # i /\ keys[p] = m
      BY <1>3, <1>4, <2>1
    <3>2. QED BY <1>1, <1>2, <3>1 DEF KeysAreThePairs
  <2>2. ASSUME m \in DOMAIN pairs'
        PROVE  \E n \in DOMAIN keys' : keys'[n] = m
    <3>1. m \in DOMAIN pairs /\ m # k
      BY <1>2, <2>2
    <3>2. PICK p \in DOMAIN keys : keys[p] = m
      BY <3>1 DEF KeysAreThePairs
    <3>3. CASE p < i
      BY <1>3, <1>4, <3>2, <3>3
    <3>4. CASE p > i
      <4>1. p - 1 \in DOMAIN keys' /\ keys'[p - 1] = m
        BY <1>3, <1>4, <3>2, <3>4
      <4>2. QED BY <4>1
    <3>5. QED BY <1>1, <1>3, <3>1, <3>2, <3>3, <3>4
  <2>3. QED BY <2>1, <2>2
<1>7. ASSUME NEW m \in DOMAIN keys', NEW n \in DOMAIN keys', keys'[m] = keys'[n]
      PROVE  m = n
  <2> DEFINE Old(j) == IF j < i THEN j ELSE j + 1
  <2>1. m \in 1 .. Len(keys) - 1 /\ n \in 1 .. Len(keys) - 1 /\ i \in Nat
    BY <1>3, <1>4
  <2>2. Old(m) \in DOMAIN keys /\ Old(n) \in DOMAIN keys
    BY <1>3, <2>1
  <2>3. keys[Old(m)] = keys'[m] /\ keys[Old(n)] = keys'[n]
    BY <1>4, <2>1
  <2>4. Old(m) = Old(n)
    <3> HIDE DEF Old
    <3> QED BY <1>7, <2>2, <2>3 DEF KeysAreThePairs
  <2>5. QED BY <1>3, <2>1, <2>4
<1>8. QED BY <1>5, <1>6, <1>7 DEF KeysAreThePairs

-----------------------------------------------------------------------------
(* The invariant.                                                          *)

LEMMA PairsInvInit ==
  ASSUME NoneRepeats, InitDict
  PROVE  PairsInv
<1>1. PICK lit \in Literals : pairs = PairsOf(lit) /\ keys = KeyListOf(lit)
  BY DEF InitDict
<1>2. todo = << >>
  BY DEF InitDict
<1>3. /\ keys \in Seq(Keys)
      /\ DOMAIN keys = DOMAIN lit
      /\ \A i \in DOMAIN lit : keys[i] = lit[i].key
      /\ DOMAIN pairs = {lit[i].key : i \in DOMAIN lit}
      /\ \A i \in DOMAIN lit : pairs[lit[i].key] \in Vals
  BY <1>1, LiteralParts
<1>4. DictTypeOK
  <2>1. \A i \in DOMAIN keys : keys[i] \in Keys
    BY <1>3, ElementOfSeq
  <2>2. DOMAIN pairs \subseteq Keys
    BY <1>3, <2>1
  <2>3. \A k \in DOMAIN pairs : pairs[k] \in Vals
    BY <1>3
  <2>4. QED BY <1>2, <1>3, <2>2, <2>3 DEF DictTypeOK
<1>5. KeysAreThePairs
  BY <1>3 DEF KeysAreThePairs, NoneRepeats
<1>6. QED BY <1>2, <1>4, <1>5 DEF PairsInv

LEMMA PairsInvNext ==
  ASSUME NoneRepeats, PairsInv, [DictNext]_dictVars
  PROVE  PairsInv'
<1>1. ASSUME NEW k \in Keys, NEW v \in Vals, IndexAssign(k, v)
      PROVE  PairsInv'
  BY <1>1, WriteInStep DEF IndexAssign, PairsInv, DictTypeOK
<1>2. ASSUME NEW k \in Keys, Delete(k)
      PROVE  PairsInv'
  BY <1>2, DeleteInStep DEF Delete, PairsInv
<1>3. ASSUME NEW lit \in Literals, Merge(lit)
      PROVE  PairsInv'
  <2>1. todo' \in Seq(Keys)
    BY <1>3, LiteralParts DEF Merge
  <2>2. /\ DOMAIN todo' = DOMAIN lit
        /\ \A i \in DOMAIN lit : todo'[i] = lit[i].key
        /\ DOMAIN from' = {lit[i].key : i \in DOMAIN lit}
        /\ \A i \in DOMAIN lit : from'[lit[i].key] \in Vals
    BY <1>3, LiteralParts DEF Merge
  <2>3. UNCHANGED <<pairs, keys>>
    BY <1>3 DEF Merge
  <2>4. QED BY <2>1, <2>2, <2>3 DEF PairsInv, DictTypeOK, KeysAreThePairs
<1>4. ASSUME MergeKey
      PROVE  PairsInv'
  <2>1. /\ todo \in Seq(Keys) /\ todo # << >>
        /\ todo' = Tail(todo)
        /\ Head(todo) \in Keys /\ from[Head(todo)] \in Vals
    BY <1>4 DEF MergeKey, PairsInv, DictTypeOK
  <2>2. /\ todo' \in Seq(Keys)
        /\ DOMAIN todo' = 1 .. Len(todo) - 1
        /\ \A i \in DOMAIN todo' : i + 1 \in DOMAIN todo /\ todo'[i] = todo[i + 1]
    BY <2>1, HeadTailProperties
  <2>3. /\ \A i \in DOMAIN todo' : todo'[i] \in DOMAIN from'
        /\ \A i \in DOMAIN todo' : from'[todo'[i]] \in Vals
    BY <1>4, <2>1, <2>2 DEF MergeKey, PairsInv, DictTypeOK
  <2>4. /\ DOMAIN pairs' \subseteq Keys
        /\ \A j \in DOMAIN pairs' : pairs'[j] \in Vals
        /\ keys' \in Seq(Keys)
        /\ KeysAreThePairs'
    BY <1>4, <2>1, WriteInStep DEF MergeKey, PairsInv
  <2>5. QED BY <2>2, <2>3, <2>4 DEF PairsInv, DictTypeOK
<1>5. CASE UNCHANGED dictVars
  BY <1>5 DEF dictVars, PairsInv, DictTypeOK, KeysAreThePairs
<1>6. QED BY <1>1, <1>2, <1>3, <1>4, <1>5 DEF DictNext

(* The invariant holds in every reachable state: Pairs and Keys are changed *)
(* apart by every statement, and agree after each.                          *)
THEOREM PairsInvHolds ==
  ASSUME NoneRepeats
  PROVE  DictSpec => []PairsInv
<1>1. InitDict => PairsInv
  BY PairsInvInit
<1>2. PairsInv /\ [DictNext]_dictVars => PairsInv'
  BY PairsInvNext
<1>3. QED BY <1>1, <1>2, PTL DEF DictSpec

(* Keys lists every key of Pairs once, and nothing else, for every program  *)
(* whose literals repeat no key.                                            *)
THEOREM PairsInStep ==
  ASSUME NoneRepeats
  PROVE  DictSpec => []KeysAreThePairs
<1>1. PairsInv => KeysAreThePairs
  BY DEF PairsInv
<1>2. QED BY <1>1, PairsInvHolds, PTL

-----------------------------------------------------------------------------
(* The refinement: what keys(), values() and a for loop see is the map.     *)

LEMMA EntriesSeenType ==
  ASSUME DictTypeOK, KeysAreThePairs
  PROVE  /\ EntriesSeen \in Seq(Entry)
         /\ DOMAIN EntriesSeen = DOMAIN keys
         /\ DOMAIN keys = 1 .. Len(keys) /\ Len(keys) \in Nat
         /\ Len(EntriesSeen) = Len(keys)
         /\ \A i \in DOMAIN keys : EntriesSeen[i] = [key |-> keys[i], value |-> pairs[keys[i]]]
<1>1. /\ DOMAIN keys = 1 .. Len(keys) /\ Len(keys) \in Nat
      /\ \A i \in DOMAIN keys : keys[i] \in Keys
  BY DEF DictTypeOK
<1>2. \A i \in DOMAIN keys : pairs[keys[i]] \in Vals
  BY <1>1 DEF DictTypeOK, KeysAreThePairs
<1>3. \A i \in 1 .. Len(keys) : [key |-> keys[i], value |-> pairs[keys[i]]] \in Entry
  BY <1>1, <1>2 DEF Entry
<1>4. /\ EntriesSeen \in Seq(Entry)
      /\ Len(EntriesSeen) = Len(keys)
  BY <1>1, <1>3, IsASeq DEF EntriesSeen
<1>5. QED BY <1>1, <1>4 DEF EntriesSeen

\* A write is the map's Put.
LEMMA WriteIsPut ==
  ASSUME DictTypeOK, KeysAreThePairs, DictTypeOK', KeysAreThePairs',
         NEW k \in Keys, NEW v \in Vals,
         keys' = Remembered(k), pairs' = WithPair(pairs, k, v)
  PROVE  Promise!Put(k, v)
<1> DEFINE E == EntriesSeen
<1>1. /\ E \in Seq(Entry) /\ DOMAIN E = DOMAIN keys
      /\ DOMAIN keys = 1 .. Len(keys) /\ Len(keys) \in Nat /\ Len(E) = Len(keys)
      /\ \A i \in DOMAIN keys : E[i] = [key |-> keys[i], value |-> pairs[keys[i]]]
  BY EntriesSeenType
<1>2. /\ E' = [i \in DOMAIN keys' |-> [key |-> keys'[i], value |-> pairs'[keys'[i]]]]
  BY DEF EntriesSeen
<1>3. \A j \in Keys : pairs'[j] = IF j = k THEN v
                                  ELSE IF j \in DOMAIN pairs THEN pairs[j] ELSE pairs'[j]
  BY DEF WithPair
<1>4. Promise!PositionsOf(k) = {i \in DOMAIN keys : keys[i] = k}
  BY <1>1 DEF Promise!PositionsOf
<1>5. CASE k \in DOMAIN pairs
  <2>1. PICK i \in DOMAIN keys : keys[i] = k
    BY <1>5 DEF KeysAreThePairs
  <2>2. keys' = keys
    BY <1>5 DEF Remembered
  <2>3. \A j \in DOMAIN keys : j # i => keys[j] # k /\ keys[j] \in DOMAIN pairs
    BY <2>1 DEF KeysAreThePairs, DictTypeOK
  <2>4. \A j \in DOMAIN keys : E'[j] = IF j = i THEN [key |-> k, value |-> v] ELSE E[j]
    BY <1>1, <1>2, <2>1, <2>2, <2>3 DEF WithPair
  <2>5. [E[i] EXCEPT !.value = v] = [key |-> k, value |-> v]
    BY <1>1, <2>1
  <2>6. E' = [E EXCEPT ![i].value = v]
    BY <1>1, <1>2, <2>1, <2>2, <2>4, <2>5
  <2>7. i \in Promise!PositionsOf(k)
    BY <1>4, <2>1
  <2>8. QED BY <2>6, <2>7 DEF Promise!Put
<1>6. CASE k \notin DOMAIN pairs
  <2>1. \A i \in DOMAIN keys : keys[i] \in DOMAIN pairs /\ keys[i] # k
    BY <1>6 DEF KeysAreThePairs, DictTypeOK
  <2>2. Promise!PositionsOf(k) = {}
    BY <1>4, <2>1
  <2>3. /\ keys' = Append(keys, k)
        /\ DOMAIN keys' = 1 .. Len(keys) + 1
        /\ \A i \in 1 .. Len(keys) : keys'[i] = keys[i]
        /\ keys'[Len(keys) + 1] = k
    BY <1>6, AppendProperties DEF Remembered, DictTypeOK
  <2>4. ASSUME NEW i \in 1 .. Len(keys)
        PROVE  E'[i] = E[i]
    <3>1. i \in DOMAIN keys /\ i \in DOMAIN keys' /\ keys'[i] = keys[i]
      BY <1>1, <2>3
    <3>2. keys[i] \in DOMAIN pairs /\ keys[i] # k
      BY <2>1, <3>1
    <3>3. pairs'[keys[i]] = pairs[keys[i]]
      BY <3>2 DEF WithPair
    <3>4. QED BY <1>1, <1>2, <3>1, <3>3
  <2>5. E'[Len(keys) + 1] = [key |-> k, value |-> v]
    BY <1>1, <1>2, <2>3 DEF WithPair
  <2>6. [key |-> k, value |-> v] \in Entry
    BY DEF Entry
  <2> DEFINE A == Append(E, [key |-> k, value |-> v])
  <2>7. /\ A = [i \in 1 .. Len(keys) + 1 |-> A[i]]
        /\ \A i \in 1 .. Len(keys) : A[i] = E[i]
        /\ A[Len(keys) + 1] = [key |-> k, value |-> v]
    BY <1>1, <2>6
  <2>8. E' = [i \in 1 .. Len(keys) + 1 |-> E'[i]]
    BY <1>2, <2>3
  <2>9. ASSUME NEW i \in 1 .. Len(keys) + 1
        PROVE  E'[i] = A[i]
    <3>1. i \in 1 .. Len(keys) \/ i = Len(keys) + 1
      BY <1>1
    <3> HIDE DEF E, A
    <3>2. QED BY <2>4, <2>5, <2>7, <3>1
  <2>10. E' = A
    BY <2>7, <2>8, <2>9
  <2>11. QED BY <2>2, <2>10 DEF Promise!Put
<1>7. QED BY <1>5, <1>6

\* dict_delete is the map's Remove.
LEMMA DeleteIsRemove ==
  ASSUME DictTypeOK, KeysAreThePairs, NEW k \in Keys, Delete(k)
  PROVE  Promise!Remove(k)
<1> DEFINE E == EntriesSeen
<1>1. /\ DOMAIN E = DOMAIN keys
      /\ DOMAIN keys = 1 .. Len(keys) /\ Len(keys) \in Nat /\ Len(E) = Len(keys)
      /\ \A i \in DOMAIN keys : E[i] = [key |-> keys[i], value |-> pairs[keys[i]]]
  BY EntriesSeenType
<1>2. PICK i \in DOMAIN keys : keys[i] = k /\ keys' = KeysWithout(i)
  BY DEF Delete
<1>3. /\ DOMAIN keys' = 1 .. Len(keys) - 1
      /\ \A j \in 1 .. Len(keys) - 1 : keys'[j] = IF j < i THEN keys[j] ELSE keys[j + 1]
  BY <1>2, WithoutKey DEF DictTypeOK
<1>4. \A j \in DOMAIN keys : j # i => keys[j] # k /\ keys[j] \in DOMAIN pairs
  BY <1>2 DEF KeysAreThePairs, DictTypeOK
<1>5. \A j \in DOMAIN pairs : j # k => pairs'[j] = pairs[j]
  BY DEF Delete
<1>6. E' = [j \in 1 .. Len(keys) - 1 |-> [key |-> keys'[j], value |-> pairs'[keys'[j]]]]
  BY <1>3 DEF EntriesSeen
<1>7. \A j \in 1 .. Len(keys) - 1 :
        [key |-> keys'[j], value |-> pairs'[keys'[j]]] = IF j < i THEN E[j] ELSE E[j + 1]
  <2> TAKE j \in 1 .. Len(keys) - 1
  <2>1. CASE j < i
    BY <1>1, <1>3, <1>4, <1>5, <2>1
  <2>2. CASE ~(j < i)
    <3>1. j + 1 \in DOMAIN keys /\ j + 1 # i
      BY <1>1, <2>2
    <3>2. QED BY <1>1, <1>3, <1>4, <1>5, <2>2, <3>1
  <2>3. QED BY <2>1, <2>2
<1>8. E' = Promise!Without(i)
  BY <1>1, <1>6, <1>7 DEF Promise!Without
<1>9. i \in Promise!PositionsOf(k)
  BY <1>1, <1>2 DEF Promise!PositionsOf
<1>10. QED BY <1>8, <1>9 DEF Promise!Remove

LEMMA PairsRefineInit ==
  ASSUME PairsInv
  PROVE  Promise!Init
<1>1. /\ EntriesSeen \in Seq(Entry)
      /\ DOMAIN EntriesSeen = DOMAIN keys
      /\ \A i \in DOMAIN keys : EntriesSeen[i].key = keys[i]
  BY EntriesSeenType DEF PairsInv
<1>2. Promise!TypeOK
  BY <1>1 DEF Promise!TypeOK, Promise!Entry, Entry
<1>3. Promise!KeysDistinct
  BY <1>1 DEF Promise!KeysDistinct, PairsInv, KeysAreThePairs
<1>4. QED BY <1>2, <1>3 DEF Promise!Init

LEMMA PairsRefineStep ==
  ASSUME PairsInv, PairsInv', [DictNext]_dictVars
  PROVE  [Promise!Next]_EntriesSeen
<1>1. ASSUME NEW k \in Keys, NEW v \in Vals, IndexAssign(k, v)
      PROVE  Promise!Next
  <2>1. Promise!Put(k, v)
    BY <1>1, WriteIsPut DEF IndexAssign, PairsInv
  <2>2. QED BY <2>1 DEF Promise!Next
<1>2. ASSUME NEW k \in Keys, Delete(k)
      PROVE  Promise!Next
  BY <1>2, DeleteIsRemove DEF PairsInv, Promise!Next
<1>3. ASSUME NEW lit \in Literals, Merge(lit)
      PROVE  UNCHANGED EntriesSeen
  BY <1>3 DEF Merge, EntriesSeen
<1>4. ASSUME MergeKey
      PROVE  Promise!Next
  <2>1. Head(todo) \in Keys /\ from[Head(todo)] \in Vals
    BY <1>4 DEF MergeKey, PairsInv, DictTypeOK
  <2>2. Promise!Put(Head(todo), from[Head(todo)])
    BY <1>4, <2>1, WriteIsPut DEF MergeKey, PairsInv
  <2>3. QED BY <2>1, <2>2 DEF Promise!Next
<1>5. CASE UNCHANGED dictVars
  BY <1>5 DEF dictVars, EntriesSeen
<1>6. QED BY <1>1, <1>2, <1>3, <1>4, <1>5 DEF DictNext

(* The interpreter's dictionary is an insertion-ordered map, for every      *)
(* program whose literals repeat no key: an assignment and each turn of a   *)
(* merge is one Put, a deletion one Remove, starting a merge a stutter.     *)
THEOREM PairsRefineMap ==
  ASSUME NoneRepeats
  PROVE  DictSpec => ImplementsOrderedMap
<1>1. InitDict => Promise!Init
  BY PairsInvInit, PairsRefineInit
<1>2. PairsInv /\ PairsInv' /\ [DictNext]_dictVars => [Promise!Next]_EntriesSeen
  BY PairsRefineStep
<1>3. QED BY <1>1, <1>2, PairsInvHolds, PTL DEF DictSpec, ImplementsOrderedMap, Promise!Spec
=============================================================================
