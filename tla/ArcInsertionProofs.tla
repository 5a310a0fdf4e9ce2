------------------------- MODULE ArcInsertionProofs -------------------------
(***************************************************************************)
(* The code that the checker inserts into a function body touches no dead  *)
(* object and, before the function returns, releases every object and runs *)
(* every deferred block, for bodies of any length with any locals.         *)
(*                                                                         *)
(* The argument has two halves: what the code is that the checker has      *)
(* emitted, whichever statements it met, and what has happened when the    *)
(* function is at some instruction of such code.                           *)
(***************************************************************************)
EXTENDS ArcInsertion, FiniteSetTheorems, TLAPS

-----------------------------------------------------------------------------
(* The code emitted.                                                       *)

Releasing == {"release", "releaseSlot"}
Binding == {"new", "bind"}

\* Bodies whose locals are bound on every path to their uses, those that also
\* release them on every path, and those whose defer statements are all met.
Plain == forms \cap {"var", "conditional"} = {}
Tidy == Plain /\ forms \cap {"returns nothing", "implicit return"} = {}
Ordered == forms \cap {"conditional", "defer, no return"} = {}

\* The number of defer statements before the instruction i.
DefersIn(c, i) == Cardinality({j \in 1..(i - 1) : c[j].op = "defer"})
Reached(i) == DefersIn(code, i)

\* The instruction i is not behind one of ops.
Begins(i, ops) == i = 1 \/ code[i - 1].op \notin ops

LetAt(j) == code[j].op \in Binding /\ decl[code[j].v] = "let"

\* The checker's tables.
TablesAgree ==
  /\ \A v \in Local : decl[v] = "var" => "var" \in forms
  /\ \A i \in 1..Len(cleanups) : cleanups[i] \in Declared
  /\ \A i, j \in 1..Len(cleanups) : cleanups[i] = cleanups[j] => i = j
  /\ \A v \in Declared : \E i \in 1..Len(cleanups) : cleanups[i] = v
  /\ \A i \in 1..Len(defers) : defers[i] # None => "defer uses class" \in forms

\* They are about the code.
LocalsAreBound ==
  \A v \in Declared : \E i \in 1..Len(code) : code[i].op \in Binding /\ code[i].v = v
DefersAreReached == Ordered => Len(defers) = Reached(Len(code) + 1)

BlocksAgree ==
  /\ block = "then" => open \in 1..Len(code) /\ code[open].op = "if"
  /\ block = "body" => open = 0
  /\ phase # "check" => block = "body" /\ ended
  /\ ended => Len(code) > 0 /\ code[Len(code)].op = "ret"

\* Until the function runs nothing has happened.
Idle ==
  /\ pc = 1 /\ slot = [v \in Local |-> None] /\ refs = [v \in Local |-> 0]
  /\ result = None /\ pending = << >> /\ released = << >> /\ wild = FALSE

\* The instruction i has its operands.
HasOperands(i) ==
  LET c == code[i]
  IN  /\ c.op \in {"new", "retain", "bind", "release", "releaseSlot", "use"}
           => c.v \in Local
      /\ c.op = "bind" => c.w \in Local
      /\ c.op \in {"defer", "runDeferred", "eval"} => c.v \in Local \cup {None}
      /\ c.op = "if" => c.v \in Nat

\* From the instruction i on there are n releases, or n deferred blocks, and
\* then the rest of the exit.
ReleasesFrom(i, n) ==
  /\ i + n <= Len(code)
  /\ code[i + n].op \in {"runDeferred", "ret"}
  /\ \A k \in 0..(n - 1) :
       /\ code[i + k].op = IF decl[cleanups[n - k]] = "var" THEN "releaseSlot" ELSE "release"
       /\ code[i + k].v = cleanups[n - k]

BlocksFrom(i, n) ==
  /\ i + n <= Len(code)
  /\ code[i + n].op = "ret"
  /\ \A k \in 0..(n - 1) :
       code[i + k].op = "runDeferred" /\ code[i + k].v = defers[n - k]

\* An exit runs through.  The first of its releases, or the first instruction
\* where it has none, is behind everything there is to release, and likewise
\* for the deferred blocks.  What is returned is evaluated in front, and
\* directly in front of the end unless it is that of a return statement.
ReleaseSound(i) ==
  code[i].op \in Releasing =>
    \E n \in 1..Len(cleanups) :
      /\ ReleasesFrom(i, n)
      /\ Plain /\ Begins(i, Releasing) =>
           \A j \in 1..(i - 1) : LetAt(j) => \E m \in 1..n : cleanups[m] = code[j].v

BlockSound(i) ==
  code[i].op = "runDeferred" =>
    \E n \in 1..Len(defers) :
      BlocksFrom(i, n) /\ (Ordered /\ Begins(i, {"runDeferred"}) => n = Reached(i))

ExitSound(i) ==
  /\ Tidy /\ code[i].op \in {"runDeferred", "ret"}
       /\ Begins(i, Releasing \cup {"runDeferred"})
     => \A j \in 1..(i - 1) : ~LetAt(j)
  /\ Ordered /\ code[i].op = "ret" /\ Begins(i, {"runDeferred"}) => Reached(i) = 0
  /\ code[i].op = "eval" =>
       /\ i < Len(code) /\ code[i + 1].op \in Releasing \cup {"runDeferred", "ret"}
       /\ code[i].v # None /\ "returns class" \notin forms => code[i + 1].op = "ret"

\* Whether the instruction c needs a local to be bound.
Needs(c) ==
  \/ c.op \in Releasing \cup {"use", "retain"}
  \/ c.op = "eval" /\ c.v # None

\* A local is bound once, in front of what uses it, from a new object or a
\* reference just retained; one without a name to a new object only.
BindingSound(i) ==
  /\ code[i].op \in Binding => decl[code[i].v] # "not"
  /\ code[i].op = "bind" => decl[code[i].v] # "temporary"
  /\ code[i].op = "retain" =>
       i < Len(code) /\ code[i + 1].op = "bind" /\ code[i + 1].w = code[i].v
  /\ Plain /\ code[i].op = "bind" => i > 1 /\ code[i - 1].op = "retain"
  /\ Plain /\ code[i].op \in Binding =>
       \A j \in 1..Len(code) :
         code[j].op \in Binding /\ code[j].v = code[i].v => j = i
  /\ Plain /\ Needs(code[i]) =>
       \E j \in 1..(i - 1) : LetAt(j) /\ code[j].v = code[i].v

DeferSound(i) ==
  Ordered /\ code[i].op = "defer" =>
    Reached(i) < Len(defers) /\ defers[Reached(i) + 1] = code[i].v

\* A branch leads behind what is conditional, which binds no local and defers
\* nothing, and not into an exit or between a retain and its copy.
IfSound(i) ==
  code[i].op = "if" =>
    /\ i # open =>
         /\ code[i].v \in (i + 1)..(Len(code) + 1)
         /\ ended /\ block = "body" => code[i].v <= Len(code)
         /\ Begins(code[i].v, Releasing \cup {"runDeferred", "retain"})
    /\ Plain => \A j \in (i + 1)..Len(code) : LetAt(j) => i # open /\ j >= code[i].v
    /\ Ordered => Reached(IF i = open THEN Len(code) + 1 ELSE code[i].v) = Reached(i)

CodeIsSound ==
  \A i \in 1..Len(code) :
    /\ HasOperands(i)
    /\ ReleaseSound(i) /\ BlockSound(i) /\ ExitSound(i)
    /\ BindingSound(i) /\ DeferSound(i) /\ IfSound(i)

CheckInv ==
  /\ TablesAgree /\ LocalsAreBound /\ DefersAreReached /\ BlocksAgree
  /\ CodeIsSound /\ (phase = "check" => Idle)

-----------------------------------------------------------------------------
(* The function at an instruction.                                         *)

Given == {released[k] : k \in 1..Len(released)}

\* The references to an object, and the one that a retain is about to hand over.
Owners(o) == {v \in Local : slot[v] = o /\ v \notin Given}
InTransit(o) ==
  IF ~Begins(pc, {"retain"}) /\ slot[code[pc - 1].v] = o THEN 1 ELSE 0

PcIsSound ==
  /\ phase = "run" => pc <= Len(code)
  /\ phase = "returned" => pc <= Len(code) /\ code[pc].op = "ret"

\* Releases are part of an exit and go down the cleanups.
ReleasesRun ==
  /\ released # << >> => ~Begins(pc, Releasing \cup {"runDeferred"})
  /\ Plain /\ ~Begins(pc, Releasing) => released # << >>
  /\ \A k \in 1..Len(released) : \E m \in 1..Len(cleanups) :
       /\ cleanups[m] = released[k]
       /\ phase # "check" /\ code[pc].op \in Releasing =>
            \E n \in 1..(m - 1) : cleanups[n] = code[pc].v

\* A plain body releases all its locals, from the last one on.
ReleasesRunOn ==
  Plain /\ released # << >> =>
    \E m \in 1..Len(cleanups) :
      /\ Len(released) <= m
      /\ \A k \in 1..Len(released) : released[k] = cleanups[(m + 1) - k]
      /\ \A v \in Local : slot[v] # None /\ decl[v] = "let" =>
           \E n \in 1..m : cleanups[n] = v
      /\ IF code[pc].op \in Releasing
         THEN Len(released) < m /\ code[pc].v = cleanups[m - Len(released)]
         ELSE Len(released) = m

\* What is bound, and how often it is counted.
SlotsAreBound ==
  Plain =>
    /\ \A v \in Local : slot[v] # None =>
         /\ \E j \in 1..(pc - 1) : code[j].op \in Binding /\ code[j].v = v
         /\ \E j \in 1..(pc - 1) : code[j].op = "new" /\ code[j].v = slot[v]
    /\ \A j \in 1..(pc - 1) : LetAt(j) => slot[code[j].v] # None

\* A local without a name refers to its own object.
TemporariesKeep ==
  Plain => \A v \in Local : decl[v] = "temporary" /\ slot[v] # None => slot[v] = v

CountsAreRight ==
  Plain => \A o \in Local : refs[o] = Cardinality(Owners(o)) + InTransit(o)

WildIsDeferred == Plain /\ wild => "defer uses class" \in forms

\* An exit that released nothing found nothing bound.
NothingIsBound ==
  Tidy /\ released = << >> /\ ~Begins(pc, {"runDeferred"}) =>
    \A v \in Local : decl[v] = "let" => slot[v] = None

\* What is returned is held by a local; releases follow in a return only.
ResultIsHeld ==
  result # None =>
    /\ phase # "check"
    /\ code[pc].op \in Releasing \cup {"runDeferred", "ret"}
    /\ "returns class" \notin forms => code[pc].op = "ret" /\ released = << >>
    /\ Plain => \E v \in Local : slot[v] = result

\* The blocks that are due are those reached, less those that have run.
BlocksAreDue ==
  Ordered => \E n \in 0..Len(defers) :
    /\ pending = SubSeq(defers, 1, n)
    /\ IF Begins(pc, {"runDeferred"}) THEN n = Reached(pc) ELSE BlocksFrom(pc, n)

RunInv ==
  /\ PcIsSound /\ ReleasesRun /\ ReleasedInReverse /\ ReleasesRunOn
  /\ SlotsAreBound /\ TemporariesKeep /\ CountsAreRight /\ WildIsDeferred
  /\ NothingIsBound /\ ResultIsHeld /\ BlocksAreDue

IInv == TypeOK /\ CheckInv /\ RunInv

-----------------------------------------------------------------------------
(* Counting defer statements.                                              *)

LEMMA DefersFinite ==
  ASSUME NEW c, NEW i \in Nat \ {0}
  PROVE  /\ IsFiniteSet({j \in 1..(i - 1) : c[j].op = "defer"})
         /\ DefersIn(c, i) \in Nat
  <1>1. IsFiniteSet(1..(i - 1))
    BY FS_Interval
  <1>2. IsFiniteSet({j \in 1..(i - 1) : c[j].op = "defer"})
    BY <1>1, FS_Subset
  <1> QED BY <1>2, FS_CardinalityType DEF DefersIn

LEMMA DefersNext ==
  ASSUME NEW c, NEW i \in Nat \ {0}
  PROVE  DefersIn(c, i + 1) = DefersIn(c, i) + (IF c[i].op = "defer" THEN 1 ELSE 0)
  <1> DEFINE D == {j \in 1..(i - 1) : c[j].op = "defer"}
             E == {j \in 1..((i + 1) - 1) : c[j].op = "defer"}
  <1>1. IsFiniteSet(D) /\ DefersIn(c, i) \in Nat
    BY DefersFinite
  <1>2. CASE c[i].op = "defer"
    <2>1. E = D \cup {i} /\ i \notin D
      BY <1>2
    <2> HIDE DEF D, E
    <2>2. Cardinality(E) = Cardinality(D) + 1
      BY <1>1, <2>1, FS_AddElement
    <2> QED BY <1>2, <2>2 DEF DefersIn, D, E
  <1>3. CASE c[i].op # "defer"
    <2>1. E = D
      BY <1>3
    <2>2. DefersIn(c, i + 1) = Cardinality(E) /\ DefersIn(c, i) = Cardinality(D)
      BY DEF DefersIn
    <2> HIDE DEF D, E
    <2> QED BY <1>1, <1>3, <2>1, <2>2
  <1> QED BY <1>2, <1>3

LEMMA DefersNone ==
  ASSUME NEW c
  PROVE  DefersIn(c, 1) = 0
  <1>1. {j \in 1..(1 - 1) : c[j].op = "defer"} = {}
    OBVIOUS
  <1> QED BY <1>1, FS_EmptySet DEF DefersIn

LEMMA DefersSame ==
  ASSUME NEW c, NEW d, NEW i \in Nat \ {0},
         \A j \in 1..(i - 1) : d[j].op = c[j].op
  PROVE  DefersIn(d, i) = DefersIn(c, i)
  <1>1. {j \in 1..(i - 1) : d[j].op = "defer"} = {j \in 1..(i - 1) : c[j].op = "defer"}
    OBVIOUS
  <1> QED BY <1>1 DEF DefersIn

\* Where nothing is deferred the number stays.
LEMMA DefersStay ==
  ASSUME NEW c, NEW i \in Nat \ {0}, NEW k \in Nat, i <= k,
         \A j \in i..(k - 1) : c[j].op # "defer"
  PROVE  DefersIn(c, k) = DefersIn(c, i)
  <1>1. {j \in 1..(k - 1) : c[j].op = "defer"} = {j \in 1..(i - 1) : c[j].op = "defer"}
    OBVIOUS
  <1> QED BY <1>1 DEF DefersIn

-----------------------------------------------------------------------------
(* What the rest of the exit is from one instruction on.                   *)

LEMMA ReleasesNext ==
  ASSUME NEW i \in Nat, NEW n \in Nat \ {0}, ReleasesFrom(i, n)
  PROVE  /\ ReleasesFrom(i + 1, n - 1)
         /\ code[i].op = IF decl[cleanups[n]] = "var" THEN "releaseSlot" ELSE "release"
         /\ code[i].v = cleanups[n]
  <1>1. ASSUME NEW k \in 0..((n - 1) - 1)
        PROVE  k + 1 \in 0..(n - 1) /\ n - (k + 1) = (n - 1) - k /\ i + (k + 1) = (i + 1) + k
    OBVIOUS
  <1>2. 0 \in 0..(n - 1) /\ i + 0 = i /\ n - 0 = n /\ (i + 1) + (n - 1) = i + n
    OBVIOUS
  <1>3. ASSUME NEW k \in 0..((n - 1) - 1)
        PROVE  /\ code[(i + 1) + k].op = IF decl[cleanups[(n - 1) - k]] = "var" THEN "releaseSlot" ELSE "release"
               /\ code[(i + 1) + k].v = cleanups[(n - 1) - k]
    <2>1. k + 1 \in 0..(n - 1) /\ n - (k + 1) = (n - 1) - k /\ i + (k + 1) = (i + 1) + k
      BY <1>1
    <2>2. /\ code[i + (k + 1)].op =
               IF decl[cleanups[n - (k + 1)]] = "var" THEN "releaseSlot" ELSE "release"
          /\ code[i + (k + 1)].v = cleanups[n - (k + 1)]
      BY <2>1 DEF ReleasesFrom
    <2> QED BY <2>1, <2>2
  <1>4. /\ code[i].op = IF decl[cleanups[n]] = "var" THEN "releaseSlot" ELSE "release"
        /\ code[i].v = cleanups[n]
    BY <1>2 DEF ReleasesFrom
  <1> QED BY <1>2, <1>3, <1>4 DEF ReleasesFrom

LEMMA BlocksNext ==
  ASSUME NEW i \in Nat, NEW n \in Nat \ {0}, BlocksFrom(i, n)
  PROVE  /\ BlocksFrom(i + 1, n - 1)
         /\ code[i].op = "runDeferred" /\ code[i].v = defers[n]
  <1>1. ASSUME NEW k \in 0..((n - 1) - 1)
        PROVE  k + 1 \in 0..(n - 1) /\ n - (k + 1) = (n - 1) - k /\ i + (k + 1) = (i + 1) + k
    OBVIOUS
  <1>2. 0 \in 0..(n - 1) /\ i + 0 = i /\ n - 0 = n /\ (i + 1) + (n - 1) = i + n
    OBVIOUS
  <1>3. ASSUME NEW k \in 0..((n - 1) - 1)
        PROVE  code[(i + 1) + k].op = "runDeferred" /\ code[(i + 1) + k].v = defers[(n - 1) - k]
    BY <1>1 DEF BlocksFrom
  <1>4. code[i].op = "runDeferred" /\ code[i].v = defers[n]
    BY <1>2 DEF BlocksFrom
  <1> QED BY <1>2, <1>3, <1>4 DEF BlocksFrom

-----------------------------------------------------------------------------
(* A statement adds to the code.                                           *)

\* What a step of the checker leaves of the code and its tables: a branch may
\* get its target, and a local that is bound is a new one.
Extends ==
  /\ code' \in Seq(Instr) /\ Len(code) <= Len(code')
  /\ \A i \in 1..Len(code) :
       code'[i].op = code[i].op /\ (code[i].op # "if" => code'[i] = code[i])
  /\ Len(cleanups') \in Nat /\ Len(cleanups) <= Len(cleanups')
  /\ \A i \in 1..Len(cleanups) : cleanups'[i] = cleanups[i]
  /\ Len(defers') \in Nat /\ Len(defers) <= Len(defers')
  /\ \A i \in 1..Len(defers) : defers'[i] = defers[i]
  /\ \A v \in Local : decl[v] # "not" => decl'[v] = decl[v]
  /\ forms \subseteq forms'
  /\ Plain' => \A j \in (Len(code) + 1)..Len(code') :
                 code'[j].op \in Binding => decl[code'[j].v] = "not"

LEMMA Lengths ==
  ASSUME TypeOK
  PROVE  Len(code) \in Nat /\ Len(cleanups) \in Nat /\ Len(defers) \in Nat
         /\ Len(released) \in Nat /\ Len(pending) \in Nat
  BY DEF TypeOK

\* The instructions that were there mean what they meant.
LEMMA OldMeaning ==
  ASSUME TypeOK, CheckInv, Extends
  PROVE  /\ \A j \in 1..Len(code) : LetAt(j)' <=> LetAt(j)
         /\ \A i \in 1..(Len(code) + 1) : \A ops : Begins(i, ops)' <=> Begins(i, ops)
         /\ \A i \in 1..(Len(code) + 1) : Reached(i)' = Reached(i)
         /\ \A i \in 1..Len(code), n \in 1..Len(cleanups) :
              ReleasesFrom(i, n) => ReleasesFrom(i, n)'
         /\ \A i \in 1..Len(code), n \in 1..Len(defers) :
              BlocksFrom(i, n) => BlocksFrom(i, n)'
         /\ (Plain' => Plain) /\ (Tidy' => Tidy) /\ (Ordered' => Ordered)
  <1>1. /\ Len(code) \in Nat /\ Len(cleanups) \in Nat /\ Len(defers) \in Nat
        /\ Len(code') \in Nat
    BY Lengths DEF Extends
  <1>2. \A j \in 1..Len(code) : LetAt(j)' <=> LetAt(j)
    <2> SUFFICES ASSUME NEW j \in 1..Len(code) PROVE LetAt(j)' <=> LetAt(j)
      OBVIOUS
    <2>1. code'[j].op = code[j].op
      BY DEF Extends
    <2>2. CASE code[j].op \in Binding
      <3>1. code'[j] = code[j]
        BY <2>2 DEF Extends, Binding
      <3>2. code[j].v \in Local /\ decl[code[j].v] # "not"
        BY <2>2 DEF CheckInv, CodeIsSound, HasOperands, BindingSound, Binding
      <3>3. decl'[code[j].v] = decl[code[j].v]
        BY <3>2 DEF Extends
      <3> QED BY <3>1, <3>3 DEF LetAt
    <2> QED BY <2>1, <2>2 DEF LetAt
  <1>3. ASSUME NEW i \in 1..(Len(code) + 1), NEW ops
        PROVE  Begins(i, ops)' <=> Begins(i, ops)
    <2>1. i = 1 \/ i - 1 \in 1..Len(code)
      BY <1>1
    <2> QED BY <2>1 DEF Begins, Extends
  <1>4. ASSUME NEW i \in 1..(Len(code) + 1) PROVE Reached(i)' = Reached(i)
    <2>1. \A j \in 1..(i - 1) : code'[j].op = code[j].op
      BY <1>1 DEF Extends
    <2> QED BY <1>1, <2>1, DefersSame DEF Reached
  <1>5. ASSUME NEW i \in 1..Len(code), NEW n \in 1..Len(cleanups), ReleasesFrom(i, n)
        PROVE  ReleasesFrom(i, n)'
    <2>1. ASSUME NEW k \in 0..(n - 1)
          PROVE  /\ code'[i + k].op = IF decl'[cleanups'[n - k]] = "var" THEN "releaseSlot" ELSE "release"
                 /\ code'[i + k].v = cleanups'[n - k]
      <3>1. i + k \in 1..Len(code) /\ n - k \in 1..Len(cleanups)
        BY <1>1, <1>5 DEF ReleasesFrom
      <3>2. cleanups'[n - k] = cleanups[n - k]
        BY <3>1 DEF Extends
      <3>3. cleanups[n - k] \in Local /\ decl[cleanups[n - k]] # "not"
        BY <3>1 DEF CheckInv, TablesAgree, Declared
      <3>4. decl'[cleanups[n - k]] = decl[cleanups[n - k]]
        BY <3>3 DEF Extends
      <3>5. /\ code[i + k].op = IF decl[cleanups[n - k]] = "var" THEN "releaseSlot" ELSE "release"
            /\ code[i + k].v = cleanups[n - k]
        BY <1>5 DEF ReleasesFrom
      <3>6. code'[i + k] = code[i + k]
        BY <3>1, <3>5 DEF Extends
      <3> QED BY <3>2, <3>4, <3>5, <3>6
    <2>2. i + n \in 1..Len(code) /\ i + n <= Len(code')
      BY <1>1, <1>5 DEF ReleasesFrom, Extends
    <2>3. code'[i + n].op \in {"runDeferred", "ret"}
      BY <1>5, <2>2 DEF ReleasesFrom, Extends
    <2> QED BY <2>1, <2>2, <2>3 DEF ReleasesFrom
  <1>6. ASSUME NEW i \in 1..Len(code), NEW n \in 1..Len(defers), BlocksFrom(i, n)
        PROVE  BlocksFrom(i, n)'
    <2>1. ASSUME NEW k \in 0..(n - 1)
          PROVE  code'[i + k].op = "runDeferred" /\ code'[i + k].v = defers'[n - k]
      <3>1. i + k \in 1..Len(code) /\ n - k \in 1..Len(defers)
        BY <1>1, <1>6 DEF BlocksFrom
      <3>2. defers'[n - k] = defers[n - k]
        BY <3>1 DEF Extends
      <3>3. code[i + k].op = "runDeferred" /\ code[i + k].v = defers[n - k]
        BY <1>6 DEF BlocksFrom
      <3>4. code'[i + k] = code[i + k]
        BY <3>1, <3>3 DEF Extends
      <3> QED BY <3>2, <3>3, <3>4
    <2>2. i + n \in 1..Len(code) /\ i + n <= Len(code')
      BY <1>1, <1>6 DEF BlocksFrom, Extends
    <2>3. code'[i + n].op = "ret"
      BY <1>6, <2>2 DEF BlocksFrom, Extends
    <2> QED BY <2>1, <2>2, <2>3 DEF BlocksFrom
  <1>7. (Plain' => Plain) /\ (Tidy' => Tidy) /\ (Ordered' => Ordered)
    BY DEF Extends, Plain, Tidy, Ordered
  <1> QED BY <1>2, <1>3, <1>4, <1>5, <1>6, <1>7

\* and stay sound.
LEMMA OldSound ==
  ASSUME TypeOK, CheckInv, Extends, NEW i \in 1..Len(code)
  PROVE  /\ ReleaseSound(i)' /\ BlockSound(i)' /\ ExitSound(i)'
         /\ BindingSound(i)' /\ DeferSound(i)'
         /\ code[i].op # "if" => HasOperands(i)'
  <1>1. /\ Len(code) \in Nat /\ Len(cleanups) \in Nat /\ Len(defers) \in Nat
        /\ Len(code') \in Nat /\ Len(code) <= Len(code')
        /\ Len(cleanups) <= Len(cleanups') /\ Len(defers) <= Len(defers')
        /\ Len(cleanups') \in Nat /\ Len(defers') \in Nat
    BY Lengths DEF Extends
  <1>2. code'[i].op = code[i].op /\ (code[i].op # "if" => code'[i] = code[i])
    BY DEF Extends
  <1>3. /\ HasOperands(i) /\ ReleaseSound(i) /\ BlockSound(i) /\ ExitSound(i)
        /\ BindingSound(i) /\ DeferSound(i)
    BY DEF CheckInv, CodeIsSound
  <1>4. (Plain' => Plain) /\ (Tidy' => Tidy) /\ (Ordered' => Ordered)
    BY OldMeaning
  <1>5. \A ops : Begins(i, ops)' <=> Begins(i, ops)
    BY <1>1, OldMeaning
  <1>6. \A j \in 1..(i - 1) : j \in 1..Len(code) /\ (LetAt(j)' <=> LetAt(j)) /\ (LetAt(j) => code'[j] = code[j])
    BY <1>1, OldMeaning DEF LetAt, Binding, Extends
  <1>7. Reached(i)' = Reached(i)
    BY <1>1, OldMeaning
  <1>8. ReleaseSound(i)'
    <2> SUFFICES ASSUME code'[i].op \in Releasing PROVE
          \E n \in 1..Len(cleanups') :
            /\ ReleasesFrom(i, n)'
            /\ (Plain /\ Begins(i, Releasing) =>
                 \A j \in 1..(i - 1) : LetAt(j) => \E m \in 1..n : cleanups[m] = code[j].v)'
      BY DEF ReleaseSound, Releasing
    <2>1. PICK n \in 1..Len(cleanups) :
            /\ ReleasesFrom(i, n)
            /\ Plain /\ Begins(i, Releasing) =>
                 \A j \in 1..(i - 1) : LetAt(j) => \E m \in 1..n : cleanups[m] = code[j].v
      BY <1>2, <1>3 DEF ReleaseSound, Releasing
    <2>2. ReleasesFrom(i, n)' /\ n \in 1..Len(cleanups')
      BY <1>1, <2>1, OldMeaning
    <2>3. \A m \in 1..n : cleanups'[m] = cleanups[m]
      BY <1>1 DEF Extends
    <2>4. ASSUME Plain', Begins(i, Releasing)', NEW j \in 1..(i - 1), LetAt(j)'
          PROVE  \E m \in 1..n : cleanups'[m] = code'[j].v
      <3>1. Plain /\ Begins(i, Releasing) /\ LetAt(j) /\ code'[j] = code[j]
        BY <1>4, <1>5, <1>6, <2>4 DEF Begins, Releasing
      <3> QED BY <2>1, <2>3, <3>1
    <2> QED BY <2>2, <2>4
  <1>9. BlockSound(i)'
    <2> SUFFICES ASSUME code'[i].op = "runDeferred"
                 PROVE \E n \in 1..Len(defers') :
                         BlocksFrom(i, n)' /\ (Ordered' /\ Begins(i, {"runDeferred"})' => n = Reached(i)')
      BY DEF BlockSound
    <2>1. PICK n \in 1..Len(defers) :
            BlocksFrom(i, n) /\ (Ordered /\ Begins(i, {"runDeferred"}) => n = Reached(i))
      BY <1>2, <1>3 DEF BlockSound
    <2>2. BlocksFrom(i, n)' /\ n \in 1..Len(defers')
      BY <1>1, <2>1, OldMeaning
    <2>3. Begins(i, {"runDeferred"})' <=> Begins(i, {"runDeferred"})
      BY <1>5
    <2> QED BY <1>4, <1>7, <2>1, <2>2, <2>3
  <1>10. ExitSound(i)'
    <2>1. /\ Begins(i, {"runDeferred"})' <=> Begins(i, {"runDeferred"})
          /\ Begins(i, Releasing \cup {"runDeferred"})' <=> Begins(i, Releasing \cup {"runDeferred"})
      BY <1>5 DEF Begins
    <2>2. ASSUME code'[i].op = "eval"
          PROVE  /\ i < Len(code') /\ code'[i + 1].op \in Releasing \cup {"runDeferred", "ret"}
                 /\ code'[i].v # None /\ "returns class" \notin forms' => code'[i + 1].op = "ret"
      <3>1. code'[i] = code[i] /\ code[i].op = "eval" /\ forms \subseteq forms'
        BY <1>2, <2>2 DEF Extends
      <3>2. i < Len(code) /\ code[i + 1].op \in Releasing \cup {"runDeferred", "ret"}
            /\ (code[i].v # None /\ "returns class" \notin forms => code[i + 1].op = "ret")
        BY <1>3, <3>1 DEF ExitSound
      <3>3. i + 1 \in 1..Len(code) /\ i < Len(code')
        <4>1. i < Len(code)
          BY <3>2
        <4> QED BY <1>1, <4>1
      <3>4. code'[i + 1].op = code[i + 1].op
        BY <3>3 DEF Extends
      <3>5. "returns class" \notin forms' => "returns class" \notin forms
        BY <3>1
      <3> QED BY <3>1, <3>2, <3>3, <3>4, <3>5
    <2>3. (Releasing \cup {"runDeferred", "ret"})' = Releasing \cup {"runDeferred", "ret"}
      BY DEF Releasing
    <2> QED BY <1>2, <1>3, <1>4, <1>6, <1>7, <2>1, <2>2, <2>3 DEF ExitSound
  <1>11. BindingSound(i)'
    <2>1. code'[i].op \in Binding => decl'[code'[i].v] # "not"
      <3> SUFFICES ASSUME code[i].op \in Binding PROVE decl'[code[i].v] # "not"
        BY <1>2 DEF Binding
      <3>1. code[i].v \in Local /\ decl[code[i].v] # "not"
        BY <1>3 DEF HasOperands, BindingSound, Binding
      <3> QED BY <3>1 DEF Extends
    <2>2. code'[i].op = "retain" =>
            i < Len(code') /\ code'[i + 1].op = "bind" /\ code'[i + 1].w = code'[i].v
      BY <1>1, <1>2, <1>3 DEF BindingSound, Extends
    <2>3. Plain' /\ code'[i].op = "bind" => i > 1 /\ code'[i - 1].op = "retain"
      BY <1>1, <1>2, <1>3, <1>4 DEF BindingSound, Extends
    <2>4. ASSUME Plain', code'[i].op \in Binding, NEW j \in 1..Len(code'),
                 code'[j].op \in Binding, code'[j].v = code'[i].v
          PROVE  j = i
      <3>1. code'[i] = code[i] /\ decl[code[i].v] # "not"
        BY <1>2, <1>3, <2>4 DEF Binding, BindingSound
      <3>2. CASE j \in 1..Len(code)
        <4>1. code'[j] = code[j]
          BY <2>4, <3>2 DEF Extends, Binding
        <4> QED BY <1>3, <1>4, <2>4, <3>1, <3>2, <4>1 DEF BindingSound
      <3>3. CASE j \in (Len(code) + 1)..Len(code')
        BY <2>4, <3>1, <3>3 DEF Extends
      <3> QED BY <1>1, <3>2, <3>3
    <2>5. ASSUME Plain', Needs(code'[i])
          PROVE  \E j \in 1..(i - 1) : LetAt(j)' /\ code'[j].v = code'[i].v
      <3>1. code'[i] = code[i] /\ Plain
        BY <1>2, <1>4, <2>5 DEF Needs, Releasing
      <3>2. PICK j \in 1..(i - 1) : LetAt(j) /\ code[j].v = code[i].v
        BY <1>3, <2>5, <3>1 DEF BindingSound
      <3> QED BY <1>6, <3>1, <3>2
    <2>6. code'[i].op = "bind" => decl'[code'[i].v] # "temporary"
      <3> SUFFICES ASSUME code[i].op = "bind" PROVE decl'[code[i].v] # "temporary"
        BY <1>2
      <3>1. code[i].v \in Local /\ decl[code[i].v] \notin {"not", "temporary"}
        BY <1>3 DEF HasOperands, BindingSound, Binding
      <3> QED BY <3>1 DEF Extends
    <2> QED BY <2>1, <2>2, <2>3, <2>4, <2>5, <2>6 DEF BindingSound, Binding, Needs
  <1>12. DeferSound(i)'
    <2> SUFFICES ASSUME Ordered', code'[i].op = "defer"
                 PROVE  Reached(i)' < Len(defers') /\ defers'[Reached(i)' + 1] = code'[i].v
      BY DEF DeferSound
    <2>1. Reached(i) < Len(defers) /\ defers[Reached(i) + 1] = code[i].v /\ code'[i] = code[i]
      BY <1>2, <1>3, <1>4 DEF DeferSound
    <2>2. Reached(i) \in Nat
      <3>1. i \in Nat \ {0}
        BY <1>1
      <3>2. DefersIn(code, i) \in Nat
        BY <3>1, DefersFinite
      <3> QED BY <3>2 DEF Reached
    <2>3. Reached(i) + 1 \in 1..Len(defers)
      BY <1>1, <2>1, <2>2
    <2>4. defers'[Reached(i) + 1] = defers[Reached(i) + 1]
      BY <2>3 DEF Extends
    <2> QED BY <1>1, <1>7, <2>1, <2>2, <2>4
  <1>13. code[i].op # "if" => HasOperands(i)'
    BY <1>2, <1>3 DEF HasOperands
  <1> QED BY <1>8, <1>9, <1>10, <1>11, <1>12, <1>13

\* A branch that stays as it is stays sound, if what is added is not
\* conditional, or neither binds a local nor defers anything.
LEMMA OldIf ==
  ASSUME TypeOK, CheckInv, Extends, \A j \in 1..Len(code) : code'[j] = code[j],
         NEW i \in 1..Len(code), i = open' <=> i = open,
         ended' /\ block' = "body" =>
           Len(code) < Len(code') \/ (ended /\ block = "body"),
         i = open => \A j \in (Len(code) + 1)..Len(code') :
                       (Plain' => ~LetAt(j)') /\ (Ordered' => code'[j].op # "defer")
  PROVE  HasOperands(i)' /\ IfSound(i)'
  <1>1. /\ Len(code) \in Nat /\ Len(code') \in Nat /\ Len(code) <= Len(code')
        /\ code'[i] = code[i]
    BY Lengths DEF Extends
  <1>2. HasOperands(i) /\ IfSound(i)
    BY DEF CheckInv, CodeIsSound
  <1>3. (Plain' => Plain) /\ (Ordered' => Ordered)
    BY OldMeaning
  <1>4. HasOperands(i)'
    BY <1>1, <1>2 DEF HasOperands
  <1> SUFFICES ASSUME code[i].op = "if" PROVE IfSound(i)'
    BY <1>1, <1>4 DEF IfSound
  <1> DEFINE t == code[i].v
  <1>5. i # open => t \in (i + 1)..(Len(code) + 1)
    BY <1>2 DEF IfSound
  <1>6. i # open' =>
          /\ code'[i].v \in (i + 1)..(Len(code') + 1)
          /\ ended' /\ block' = "body" => code'[i].v <= Len(code')
          /\ Begins(code[i].v, Releasing \cup {"runDeferred", "retain"})'
    <2> SUFFICES ASSUME i # open
                 PROVE  /\ t \in (i + 1)..(Len(code') + 1)
                        /\ ended' /\ block' = "body" => t <= Len(code')
                        /\ Begins(t, Releasing \cup {"runDeferred", "retain"})'
      BY <1>1
    <2>1. Begins(t, Releasing \cup {"runDeferred", "retain"})
      BY <1>2 DEF IfSound
    <2>2. t \in 1..(Len(code) + 1)
      BY <1>1, <1>5
    <2>3. Begins(t, Releasing \cup {"runDeferred", "retain"})'
      BY <2>1, <2>2, OldMeaning
    <2>4. ended /\ block = "body" => t <= Len(code)
      BY <1>2 DEF IfSound
    <2> QED BY <1>1, <1>5, <2>3, <2>4
  <1>7. ASSUME Plain', NEW j \in (i + 1)..Len(code'), LetAt(j)'
        PROVE  i # open' /\ j >= code'[i].v
    <2>1. CASE j \in 1..Len(code)
      <3>1. LetAt(j)
        BY <1>7, <2>1, OldMeaning
      <3> QED BY <1>1, <1>2, <1>3, <1>7, <2>1, <3>1 DEF IfSound
    <2>2. CASE j \in (Len(code) + 1)..Len(code')
      BY <1>1, <1>5, <1>7, <2>2
    <2> QED BY <1>1, <2>1, <2>2
  <1>8. ASSUME Ordered'
        PROVE  Reached(IF i = open THEN Len(code) + 1 ELSE code[i].v)' =
                 Reached(i)
    <2>1. CASE i = open
      <3>1. \A j \in (Len(code) + 1)..(Len(code') + 1 - 1) : code'[j].op # "defer"
        BY <1>1, <1>8, <2>1
      <3>2. DefersIn(code', Len(code') + 1) = DefersIn(code', Len(code) + 1)
        BY <1>1, <3>1, DefersStay
      <3>3. Reached(Len(code) + 1) = Reached(i)
        BY <1>2, <1>3, <1>8, <2>1 DEF IfSound
      <3>4. DefersIn(code', Len(code) + 1) = DefersIn(code, Len(code) + 1)
        BY <1>1, OldMeaning DEF Reached
      <3> QED BY <2>1, <3>2, <3>3, <3>4 DEF Reached
    <2>2. CASE i # open
      <3>1. Reached(t) = Reached(i)
        BY <1>2, <1>3, <1>8, <2>2 DEF IfSound
      <3>2. t \in 1..(Len(code) + 1)
        BY <1>1, <1>5, <2>2
      <3>3. Reached(t)' = Reached(t)
        BY <3>2, OldMeaning
      <3> QED BY <1>1, <2>2, <3>1, <3>3 DEF Reached
    <2> QED BY <2>1, <2>2
  <1>9. Reached(i)' = Reached(i)
    BY <1>1, OldMeaning
  <1> QED BY <1>1, <1>6, <1>7, <1>8, <1>9 DEF IfSound

-----------------------------------------------------------------------------
(* The statements.                                                         *)

\* In a plain body every local that has a name is bound.
LEMMA DeclaredIsBound ==
  ASSUME TypeOK, CheckInv, Plain, NEW v \in Declared
  PROVE  \E j \in 1..Len(code) : LetAt(j) /\ code[j].v = v
  <1>1. PICK j \in 1..Len(code) : code[j].op \in Binding /\ code[j].v = v
    BY DEF CheckInv, LocalsAreBound
  <1>2. v \in Local /\ decl[v] \in {"let", "var"}
    BY DEF Declared
  <1>3. decl[v] # "var"
    BY <1>2 DEF CheckInv, TablesAgree, Plain
  <1> QED BY <1>1, <1>2, <1>3 DEF LetAt

\* Most statements leave the tables, or change little of them.
LEMMA StatementFacts ==
  ASSUME TypeOK, CheckInv, Statement
  PROVE  /\ ~ended /\ phase = "check" /\ phase' = "check" /\ stmts' \in 0..MaxStmts
         /\ Idle' /\ UNCHANGED running
  <1>1. stmts' \in 0..MaxStmts
    BY FiniteAssumption DEF Statement, TypeOK
  <1>2. Idle'
    BY DEF Statement, CheckInv, Idle, running
  <1> QED BY <1>1, <1>2 DEF Statement

\* One instruction x is added.
AddsOne(x, n) ==
  x \in Instr /\ code' = Append(code, x) /\ n = Len(code) + 1

LEMMA OneMore ==
  ASSUME TypeOK, NEW x, NEW n, AddsOne(x, n)
  PROVE  /\ code' \in Seq(Instr) /\ Len(code') = n /\ n \in Nat \ {0}
         /\ code'[n] = x /\ Len(code) \in Nat /\ Len(code) = n - 1
         /\ Len(code) < Len(code') /\ 1..Len(code') = 1..Len(code) \cup {n}
         /\ (Len(code) + 1)..Len(code') = {n}
         /\ \A i \in 1..Len(code) : code'[i] = code[i]
  <1>1. code \in Seq(Instr) /\ x \in Instr /\ code' = Append(code, x) /\ n = Len(code) + 1
    BY DEF AddsOne, TypeOK
  <1> QED BY <1>1

\* What was sound before stays so when something is added behind it.
LEMMA AddSome ==
  ASSUME TypeOK, CheckInv, Extends, Len(code) < Len(code'),
         \A j \in 1..Len(code) : code'[j] = code[j],
         open' = open \/ (block = "body" /\ open' = Len(code) + 1),
         \* what is conditional binds no local and defers nothing
         block = "then" => \A j \in (Len(code) + 1)..Len(code') :
                             (Plain' => ~LetAt(j)') /\ (Ordered' => code'[j].op # "defer"),
         \A j \in (Len(code) + 1)..Len(code') :
           /\ HasOperands(j)' /\ ReleaseSound(j)' /\ BlockSound(j)' /\ ExitSound(j)'
           /\ BindingSound(j)' /\ DeferSound(j)' /\ IfSound(j)'
  PROVE  CodeIsSound'
  <1>1. Len(code) \in Nat /\ Len(code') \in Nat
    BY Lengths DEF Extends
  <1>2. ASSUME NEW i \in 1..Len(code)
        PROVE  /\ HasOperands(i)'
               /\ ReleaseSound(i)' /\ BlockSound(i)' /\ ExitSound(i)'
               /\ BindingSound(i)' /\ DeferSound(i)' /\ IfSound(i)'
    <2>1. (i = open' <=> i = open) /\ (i = open => block = "then")
      BY <1>1 DEF CheckInv, BlocksAgree, TypeOK
    <2>2. HasOperands(i)' /\ IfSound(i)'
      BY <2>1, OldIf
    <2> QED BY <2>2, OldSound
  <1>3. \A i \in 1..Len(code') : i \in 1..Len(code) \/ i \in (Len(code) + 1)..Len(code')
    BY <1>1
  <1> QED BY <1>2, <1>3 DEF CodeIsSound

\* What is left to show of a statement that adds one instruction.
Added(x, n) ==
  /\ Reached(n)' = Reached(n) /\ Reached(n) \in Nat
  /\ DefersIn(code', n + 1) = Reached(n) + (IF x.op = "defer" THEN 1 ELSE 0)
  /\ \A j \in 1..(n - 1) : (LetAt(j)' <=> LetAt(j)) /\ code'[j] = code[j]
  /\ (\A w \in Declared' : w \in Declared \/ (x.op \in Binding /\ x.v = w))
       => LocalsAreBound'
  /\ Len(defers') = Len(defers) + (IF x.op = "defer" THEN 1 ELSE 0)
       => DefersAreReached'
  /\ /\ HasOperands(n)' /\ ReleaseSound(n)' /\ BlockSound(n)'
     /\ ExitSound(n)' /\ BindingSound(n)' /\ DeferSound(n)' /\ IfSound(n)'
     => CodeIsSound'

LEMMA AddOne ==
  ASSUME TypeOK, CheckInv, Extends, NEW x, NEW n, AddsOne(x, n),
         open' = IF x.op = "if" THEN n ELSE open, x.op = "if" => block = "body",
         \* what is conditional binds no local and defers nothing
         block = "then" => /\ Plain' => ~LetAt(n)'
                           /\ Ordered' => x.op # "defer"
  PROVE  Added(x, n)
  <1>1. /\ code' \in Seq(Instr) /\ Len(code') = n /\ n \in Nat \ {0}
        /\ code'[n] = x /\ Len(code) \in Nat /\ Len(code) = n - 1
        /\ Len(code) < Len(code') /\ 1..Len(code') = 1..Len(code) \cup {n}
        /\ (Len(code) + 1)..Len(code') = {n}
        /\ \A i \in 1..Len(code) : code'[i] = code[i]
    BY OneMore
  <1>2. n \in 1..(Len(code) + 1)
    BY <1>1
  <1>3. Reached(n)' = Reached(n)
    BY <1>2, OldMeaning
  <1>4. Reached(n) \in Nat
    BY <1>1, DefersFinite DEF Reached
  <1>5. DefersIn(code', n + 1) = Reached(n) + (IF x.op = "defer" THEN 1 ELSE 0)
    <2>1. DefersIn(code', n + 1) = DefersIn(code', n) + (IF code'[n].op = "defer" THEN 1 ELSE 0)
      BY <1>1, DefersNext
    <2> QED BY <1>1, <1>3, <2>1 DEF Reached
  <1>6. \A j \in 1..(n - 1) : (LetAt(j)' <=> LetAt(j)) /\ code'[j] = code[j]
    BY <1>1, OldMeaning
  <1>8. ASSUME HasOperands(n)', ReleaseSound(n)', BlockSound(n)', ExitSound(n)',
               BindingSound(n)', DeferSound(n)', IfSound(n)'
        PROVE  CodeIsSound'
    <2>1. \A j \in (Len(code) + 1)..Len(code') : j = n
      BY <1>1
    <2> QED BY <1>1, <1>8, <2>1, AddSome
  <1>9. (\A w \in Declared' : w \in Declared \/ (x.op \in Binding /\ x.v = w))
          => LocalsAreBound'
    <2> SUFFICES ASSUME \A w \in Declared' : w \in Declared \/ (x.op \in Binding /\ x.v = w),
                        NEW w \in Declared'
                 PROVE  \E i \in 1..Len(code') : code'[i].op \in Binding /\ code'[i].v = w
      BY DEF LocalsAreBound
    <2>1. CASE w \in Declared
      <3>1. PICK i \in 1..Len(code) : code[i].op \in Binding /\ code[i].v = w
        BY <2>1 DEF CheckInv, LocalsAreBound
      <3>2. i \in 1..Len(code')
        BY <1>1
      <3>3. code'[i].op \in Binding /\ code'[i].v = w
        BY <1>1, <3>1
      <3> QED BY <3>2, <3>3
    <2>2. CASE w \notin Declared
      <3>1. n \in 1..Len(code') /\ code'[n].op \in Binding /\ code'[n].v = w
        BY <1>1, <2>2
      <3> QED BY <3>1
    <2> QED BY <2>1, <2>2
  <1>10. ASSUME Len(defers') = Len(defers) + (IF x.op = "defer" THEN 1 ELSE 0)
         PROVE  DefersAreReached'
    <2> SUFFICES ASSUME Ordered' PROVE Len(defers') = DefersIn(code', Len(code') + 1)
      BY DEF DefersAreReached, Reached
    <2>1. Len(defers) = Reached(Len(code) + 1)
      BY OldMeaning DEF CheckInv, DefersAreReached
    <2>2. Len(code) + 1 = n
      BY <1>1
    <2> QED BY <1>1, <1>5, <1>10, <2>1, <2>2
  <1> QED BY <1>3, <1>4, <1>5, <1>6, <1>8, <1>9, <1>10 DEF Added

LEMMA TablesStay ==
  ASSUME TablesAgree, UNCHANGED <<decl, cleanups, defers>>, forms \subseteq forms'
  PROVE  TablesAgree' /\ Declared' = Declared
  BY DEF TablesAgree, Declared

\* A statement that reads a field of v.
LEMMA UseStep ==
  ASSUME TypeOK, CheckInv, NEW v \in Local, Use(v)
  PROVE  TypeOK' /\ CheckInv'
  <1> DEFINE x == I("use", v, None)
  <1>0. PICK n : n = Len(code) + 1
    OBVIOUS
  <1>1. /\ ~ended /\ phase = "check" /\ phase' = "check" /\ stmts' \in 0..MaxStmts
        /\ Idle' /\ UNCHANGED running
    BY StatementFacts DEF Use
  <1>2. /\ v \in Declared
        /\ UNCHANGED <<block, ended, decl, cleanups, defers, open, forms>>
    BY DEF Use
  <1>3. x \in Instr /\ x.op = "use" /\ x.v = v
    BY DEF I, Instr
  <1>4. AddsOne(x, n)
    BY <1>0, <1>3 DEF Use, AddsOne
  <1> HIDE DEF x
  <1>5. /\ code' \in Seq(Instr) /\ Len(code') = n /\ n \in Nat \ {0}
        /\ code'[n] = x /\ Len(code) \in Nat /\ Len(code) = n - 1
        /\ Len(code) < Len(code') /\ 1..Len(code') = 1..Len(code) \cup {n}
        /\ (Len(code) + 1)..Len(code') = {n}
        /\ \A i \in 1..Len(code) : code'[i] = code[i]
    BY <1>4, OneMore
  <1>6. TypeOK'
    BY <1>1, <1>2, <1>5 DEF TypeOK, running
  <1>7. Extends
    BY <1>2, <1>3, <1>5, Lengths DEF Extends, Binding
  <1>8. Added(x, n)
    BY <1>2, <1>3, <1>4, <1>5, <1>7, AddOne DEF LetAt, Binding
  <1>9. TablesAgree' /\ Declared' = Declared
    BY <1>2, TablesStay DEF CheckInv
  <1>10. LocalsAreBound' /\ DefersAreReached'
    BY <1>2, <1>3, <1>8, <1>9, Lengths DEF Added
  <1>11. BlocksAgree'
    BY <1>1, <1>2, <1>5 DEF CheckInv, BlocksAgree
  <1>12. /\ HasOperands(n)' /\ ReleaseSound(n)' /\ BlockSound(n)' /\ ExitSound(n)'
         /\ DeferSound(n)' /\ IfSound(n)'
    BY <1>3, <1>5 DEF HasOperands, ReleaseSound, BlockSound, ExitSound, DeferSound,
                      IfSound, Releasing
  <1>13. BindingSound(n)'
    <2>1. ASSUME Plain' PROVE \E j \in 1..(n - 1) : LetAt(j)' /\ code'[j].v = v
      <3>1. PICK j \in 1..Len(code) : LetAt(j) /\ code[j].v = v
        BY <1>2, <2>1, DeclaredIsBound DEF Plain
      <3> QED BY <1>5, <1>8, <3>1 DEF Added
    <2> QED BY <1>3, <1>5, <2>1 DEF BindingSound, Binding
  <1>14. CodeIsSound'
    BY <1>8, <1>12, <1>13 DEF Added
  <1> QED BY <1>1, <1>6, <1>9, <1>10, <1>11, <1>14 DEF CheckInv

\* `v = w` of a var, after which the body is no plain one.
LEMMA AssignStep ==
  ASSUME TypeOK, CheckInv, NEW v \in Local, NEW w \in Local, Assign(v, w)
  PROVE  TypeOK' /\ CheckInv'
  <1> DEFINE x == I("bind", v, w)
  <1>0. PICK n : n = Len(code) + 1
    OBVIOUS
  <1>1. /\ ~ended /\ phase = "check" /\ phase' = "check" /\ stmts' \in 0..MaxStmts
        /\ Idle' /\ UNCHANGED running
    BY StatementFacts DEF Assign
  <1>2. /\ decl[v] = "var"
        /\ UNCHANGED <<block, ended, decl, cleanups, defers, open, forms>>
    BY DEF Assign
  <1>3. x \in Instr /\ x.op = "bind" /\ x.v = v /\ x.w = w
    BY DEF I, Instr
  <1>4. AddsOne(x, n)
    BY <1>0, <1>3 DEF Assign, AddsOne
  <1> HIDE DEF x
  <1>5. /\ code' \in Seq(Instr) /\ Len(code') = n /\ n \in Nat \ {0}
        /\ code'[n] = x /\ Len(code) \in Nat /\ Len(code) = n - 1
        /\ Len(code) < Len(code') /\ 1..Len(code') = 1..Len(code) \cup {n}
        /\ (Len(code) + 1)..Len(code') = {n}
        /\ \A i \in 1..Len(code) : code'[i] = code[i]
    BY <1>4, OneMore
  <1>6. TypeOK'
    BY <1>1, <1>2, <1>5 DEF TypeOK, running
  <1>7. ~Plain'
    BY <1>2 DEF Plain, CheckInv, TablesAgree
  <1>8. Extends
    BY <1>2, <1>3, <1>5, <1>7, Lengths DEF Extends
  <1>9. Added(x, n)
    BY <1>2, <1>3, <1>4, <1>7, <1>8, AddOne
  <1>10. TablesAgree' /\ Declared' = Declared
    BY <1>2, TablesStay DEF CheckInv
  <1>11. LocalsAreBound' /\ DefersAreReached'
    BY <1>2, <1>3, <1>9, <1>10, Lengths DEF Added
  <1>12. BlocksAgree'
    BY <1>1, <1>2, <1>5 DEF CheckInv, BlocksAgree
  <1>13. /\ HasOperands(n)' /\ ReleaseSound(n)' /\ BlockSound(n)' /\ ExitSound(n)'
         /\ DeferSound(n)' /\ IfSound(n)'
    BY <1>3, <1>5 DEF HasOperands, ReleaseSound, BlockSound, ExitSound, DeferSound,
                      IfSound, Releasing
  <1>14. BindingSound(n)'
    BY <1>2, <1>3, <1>5, <1>7 DEF BindingSound
  <1>15. CodeIsSound'
    BY <1>9, <1>13, <1>14 DEF Added
  <1> QED BY <1>1, <1>6, <1>10, <1>11, <1>12, <1>15 DEF CheckInv

\* The discarded `C()`: a temporary gets the object.
LEMMA DiscardStep ==
  ASSUME TypeOK, CheckInv, NEW v \in Local, Discard(v)
  PROVE  TypeOK' /\ CheckInv'
  <1> DEFINE x == I("new", v, None)
  <1>0. PICK n : n = Len(code) + 1
    OBVIOUS
  <1>1. /\ ~ended /\ phase = "check" /\ phase' = "check" /\ stmts' \in 0..MaxStmts
        /\ Idle' /\ UNCHANGED running
    BY StatementFacts DEF Discard
  <1>2. /\ decl[v] = "not" /\ decl' = [decl EXCEPT ![v] = "temporary"]
        /\ UNCHANGED <<block, ended, cleanups, defers, open, forms>>
    BY DEF Discard
  <1>3. x \in Instr /\ x.op = "new" /\ x.v = v
    BY DEF I, Instr
  <1>4. AddsOne(x, n)
    BY <1>0, <1>3 DEF Discard, AddsOne
  <1> HIDE DEF x
  <1>5. /\ code' \in Seq(Instr) /\ Len(code') = n /\ n \in Nat \ {0}
        /\ code'[n] = x /\ Len(code) \in Nat /\ Len(code) = n - 1
        /\ Len(code) < Len(code') /\ 1..Len(code') = 1..Len(code) \cup {n}
        /\ (Len(code) + 1)..Len(code') = {n}
        /\ \A i \in 1..Len(code) : code'[i] = code[i]
    BY <1>4, OneMore
  <1>6. TypeOK'
    <2>1. decl' \in [Local -> {"not", "let", "var", "temporary"}] /\ forms' \subseteq Form
      BY <1>2 DEF TypeOK, Form
    <2> QED BY <1>1, <1>2, <1>5, <2>1 DEF TypeOK, running
  <1>7. decl \in [Local -> {"not", "let", "var", "temporary"}]
    BY DEF TypeOK
  <1>8. decl'[v] = "temporary" /\ \A u \in Local : u # v => decl'[u] = decl[u]
    BY <1>2, <1>7
  <1>9. Extends
    BY <1>2, <1>3, <1>5, <1>8, Lengths DEF Extends
  <1>10. Added(x, n)
    BY <1>2, <1>3, <1>4, <1>5, <1>8, <1>9, AddOne DEF LetAt
  <1>11. Declared' = Declared
    BY <1>2, <1>8 DEF Declared
  <1>12. TablesAgree'
    BY <1>2, <1>8, <1>11 DEF CheckInv, TablesAgree
  <1>13. LocalsAreBound' /\ DefersAreReached'
    BY <1>2, <1>3, <1>10, <1>11, Lengths DEF Added
  <1>14. BlocksAgree'
    BY <1>1, <1>2, <1>5 DEF CheckInv, BlocksAgree
  <1>15. /\ HasOperands(n)' /\ ReleaseSound(n)' /\ BlockSound(n)' /\ ExitSound(n)'
         /\ DeferSound(n)' /\ IfSound(n)'
    BY <1>3, <1>5 DEF HasOperands, ReleaseSound, BlockSound, ExitSound, DeferSound,
                      IfSound, Releasing
  <1>16. BindingSound(n)'
    <2>1. ASSUME NEW j \in 1..Len(code), code[j].op \in Binding PROVE code[j].v # v
      BY <1>2, <2>1 DEF CheckInv, CodeIsSound, BindingSound
    <2>2. ASSUME NEW j \in 1..Len(code'), code'[j].op \in Binding, code'[j].v = v
          PROVE  j = n
      BY <1>5, <2>1, <2>2
    <2> QED BY <1>3, <1>5, <1>8, <2>2 DEF BindingSound, Needs, Releasing
  <1>17. CodeIsSound'
    BY <1>10, <1>15, <1>16 DEF Added
  <1> QED BY <1>1, <1>6, <1>12, <1>13, <1>14, <1>17 DEF CheckInv

\* `defer { ... }`
LEMMA DeferStep ==
  ASSUME TypeOK, CheckInv, NEW v \in Local \cup {None}, Defer(v)
  PROVE  TypeOK' /\ CheckInv'
  <1> DEFINE x == I("defer", v, None)
  <1>0. PICK n : n = Len(code) + 1
    OBVIOUS
  <1>1. /\ ~ended /\ phase = "check" /\ phase' = "check" /\ stmts' \in 0..MaxStmts
        /\ Idle' /\ UNCHANGED running
    BY StatementFacts DEF Defer
  <1>2. /\ UNCHANGED <<block, ended, decl, cleanups, open>>
        /\ defers' = Append(defers, v)
        /\ forms' = forms \cup Used(v # None, "defer uses class")
                          \cup Used(block = "then", "conditional")
    BY DEF Defer
  <1>3. x \in Instr /\ x.op = "defer" /\ x.v = v
    BY DEF I, Instr
  <1>4. AddsOne(x, n)
    BY <1>0, <1>3 DEF Defer, AddsOne
  <1> HIDE DEF x
  <1>5. /\ code' \in Seq(Instr) /\ Len(code') = n /\ n \in Nat \ {0}
        /\ code'[n] = x /\ Len(code) \in Nat /\ Len(code) = n - 1
        /\ Len(code) < Len(code') /\ 1..Len(code') = 1..Len(code) \cup {n}
        /\ (Len(code) + 1)..Len(code') = {n}
        /\ \A i \in 1..Len(code) : code'[i] = code[i]
    BY <1>4, OneMore
  <1>6. /\ defers' \in Seq(Local \cup {None}) /\ Len(defers) \in Nat
        /\ Len(defers') = Len(defers) + 1 /\ defers'[Len(defers) + 1] = v
        /\ \A i \in 1..Len(defers) : defers'[i] = defers[i]
        /\ 1..Len(defers') = 1..Len(defers) \cup {Len(defers) + 1}
    <2>1. defers \in Seq(Local \cup {None}) /\ defers' = Append(defers, v)
      BY <1>2 DEF TypeOK
    <2> QED BY <2>1
  <1>7. TypeOK'
    <2>1. forms' \subseteq Form
      <3>1. forms \subseteq Form /\ Used(v # None, "defer uses class") \subseteq Form
            /\ Used(block = "then", "conditional") \subseteq Form
        BY DEF TypeOK, Form, Used
      <3> QED BY <1>2, <3>1
    <2>2. UNCHANGED <<block, ended, decl, cleanups, open>> /\ defers' \in Seq(Local \cup {None})
      BY <1>2, <1>6
    <2> QED BY <1>1, <1>5, <2>1, <2>2 DEF TypeOK, running
  <1>8. /\ forms \subseteq forms' /\ (v # None => "defer uses class" \in forms')
        /\ (block = "then" => ~Ordered')
    BY <1>2 DEF Used, Ordered
  <1>9. Extends
    <2>1. Len(defers') \in Nat /\ Len(defers) <= Len(defers')
      BY <1>6
    <2>2. UNCHANGED <<block, ended, decl, cleanups, open>> /\ \A i \in 1..Len(defers) : defers'[i] = defers[i]
      BY <1>2, <1>6
    <2>3. \A j \in (Len(code) + 1)..Len(code') : code'[j].op \notin Binding
      BY <1>3, <1>5 DEF Binding
    <2>4. \A i \in 1..Len(code) : code'[i].op = code[i].op
      BY <1>5
    <2>5. forms \subseteq forms'
      BY <1>8
    <2> QED BY <1>5, <2>1, <2>2, <2>3, <2>4, <2>5, Lengths DEF Extends
  <1>10. Added(x, n)
    BY <1>2, <1>3, <1>4, <1>5, <1>8, <1>9, AddOne DEF LetAt, Binding
  <1>11. TablesAgree' /\ Declared' = Declared
    <2>1. Declared' = Declared
      BY <1>2 DEF Declared
    <2>2. ASSUME NEW i \in 1..Len(defers'), defers'[i] # None
          PROVE  "defer uses class" \in forms'
      <3>1. CASE i \in 1..Len(defers)
        BY <1>6, <1>8, <2>2, <3>1 DEF CheckInv, TablesAgree
      <3>2. CASE i = Len(defers) + 1
        <4>1. defers'[i] = v
          BY <1>6, <3>2
        <4> QED BY <1>8, <2>2, <4>1
      <3> QED BY <1>6, <3>1, <3>2
    <2> QED BY <1>2, <1>8, <2>1, <2>2 DEF CheckInv, TablesAgree
  <1>12. LocalsAreBound' /\ DefersAreReached'
    BY <1>3, <1>6, <1>10, <1>11 DEF Added
  <1>13. BlocksAgree'
    BY <1>1, <1>2, <1>5 DEF CheckInv, BlocksAgree
  <1>14. /\ HasOperands(n)' /\ ReleaseSound(n)' /\ BlockSound(n)' /\ ExitSound(n)'
         /\ BindingSound(n)' /\ IfSound(n)'
    BY <1>3, <1>5 DEF HasOperands, ReleaseSound, BlockSound, ExitSound, BindingSound,
                      Needs, IfSound, Releasing, Binding
  <1>15. DeferSound(n)'
    <2> SUFFICES ASSUME Ordered'
                 PROVE  Reached(n)' < Len(defers') /\ defers'[Reached(n)' + 1] = v
      BY <1>3, <1>5 DEF DeferSound
    <2>1. Len(defers) = Reached(Len(code) + 1)
      BY <1>8, <1>9, OldMeaning DEF CheckInv, DefersAreReached
    <2>2. Reached(n)' = Len(defers)
      BY <1>0, <1>10, <2>1 DEF Added
    <2> QED BY <1>6, <2>2
  <1>16. CodeIsSound'
    BY <1>10, <1>14, <1>15 DEF Added
  <1> QED BY <1>1, <1>7, <1>11, <1>12, <1>13, <1>16 DEF CheckInv

\* `if c {`
LEMMA BeginIfStep ==
  ASSUME TypeOK, CheckInv, BeginIf
  PROVE  TypeOK' /\ CheckInv'
  <1> DEFINE x == I("if", 0, None)
  <1>0. PICK n : n = Len(code) + 1
    OBVIOUS
  <1>1. /\ ~ended /\ phase = "check" /\ phase' = "check" /\ stmts' \in 0..MaxStmts
        /\ Idle' /\ UNCHANGED running
    BY StatementFacts DEF BeginIf
  <1>2. /\ UNCHANGED <<ended, decl, cleanups, defers, forms>>
        /\ block = "body" /\ block' = "then" /\ open' = n
    BY <1>0 DEF BeginIf
  <1>3. x \in Instr /\ x.op = "if" /\ x.v = 0
    BY DEF I, Instr
  <1>4. AddsOne(x, n)
    BY <1>0, <1>3 DEF BeginIf, AddsOne
  <1> HIDE DEF x
  <1>5. /\ code' \in Seq(Instr) /\ Len(code') = n /\ n \in Nat \ {0}
        /\ code'[n] = x /\ Len(code) \in Nat /\ Len(code) = n - 1
        /\ Len(code) < Len(code') /\ 1..Len(code') = 1..Len(code) \cup {n}
        /\ (Len(code) + 1)..Len(code') = {n}
        /\ \A i \in 1..Len(code) : code'[i] = code[i]
    BY <1>4, OneMore
  <1>6. TypeOK'
    BY <1>1, <1>2, <1>5 DEF TypeOK, running
  <1>7. Extends
    BY <1>2, <1>3, <1>5, Lengths DEF Extends, Binding
  <1>8. Added(x, n)
    BY <1>2, <1>3, <1>4, <1>7, AddOne
  <1>9. TablesAgree' /\ Declared' = Declared
    BY <1>2, TablesStay DEF CheckInv
  <1>10. LocalsAreBound' /\ DefersAreReached'
    BY <1>2, <1>3, <1>8, <1>9, Lengths DEF Added
  <1>11. BlocksAgree'
    BY <1>1, <1>2, <1>3, <1>5 DEF BlocksAgree
  <1>12. /\ HasOperands(n)' /\ ReleaseSound(n)' /\ BlockSound(n)' /\ ExitSound(n)'
         /\ BindingSound(n)' /\ DeferSound(n)'
    <2>1. code'[n].op = "if" /\ code'[n].v \in Nat
      BY <1>3, <1>5
    <2> QED BY <2>1 DEF HasOperands, ReleaseSound, BlockSound, ExitSound, BindingSound,
                        Needs, DeferSound, Releasing, Binding
  <1>13. IfSound(n)'
    <2>1. DefersIn(code', Len(code') + 1) = DefersIn(code', n)
      BY <1>3, <1>5, <1>8 DEF Added, Reached
    <2>2. \A j \in (n + 1)..Len(code') : FALSE
      BY <1>5
    <2> QED BY <1>2, <1>5, <2>1, <2>2 DEF IfSound, Reached
  <1>14. CodeIsSound'
    BY <1>8, <1>12, <1>13 DEF Added
  <1> QED BY <1>1, <1>6, <1>9, <1>10, <1>11, <1>14 DEF CheckInv

\* A declaration enters its local in the tables.
LEMMA TablesDeclare ==
  ASSUME TypeOK, CheckInv, NEW v \in Local, NEW kind \in {"let", "var"},
         decl[v] = "not", decl' = [decl EXCEPT ![v] = kind],
         cleanups' = Append(cleanups, v), UNCHANGED defers,
         forms' = forms \cup Used(kind = "var", "var")
                        \cup Used(block = "then", "conditional")
  PROVE  /\ TablesAgree'
         /\ decl' \in [Local -> {"not", "let", "var", "temporary"}]
         /\ cleanups' \in Seq(Local) /\ forms \subseteq forms' /\ forms' \subseteq Form
         /\ Len(cleanups') = Len(cleanups) + 1
         /\ \A i \in 1..Len(cleanups) : cleanups'[i] = cleanups[i]
         /\ decl'[v] = kind /\ \A u \in Local : u # v => decl'[u] = decl[u]
         /\ Declared' = Declared \cup {v}
         /\ (block = "then" => ~Plain') /\ (Plain' => kind = "let")
  <1>1. decl \in [Local -> {"not", "let", "var", "temporary"}] /\ cleanups \in Seq(Local)
    BY DEF TypeOK
  <1>2. /\ decl' \in [Local -> {"not", "let", "var", "temporary"}]
        /\ decl'[v] = kind /\ \A u \in Local : u # v => decl'[u] = decl[u]
    BY <1>1
  <1>3. /\ cleanups' \in Seq(Local) /\ Len(cleanups') = Len(cleanups) + 1 /\ Len(cleanups) \in Nat
        /\ cleanups'[Len(cleanups) + 1] = v
        /\ \A i \in 1..Len(cleanups) : cleanups'[i] = cleanups[i]
        /\ 1..Len(cleanups') = 1..Len(cleanups) \cup {Len(cleanups) + 1}
    BY <1>1
  <1>4. forms \subseteq forms' /\ (kind = "var" => "var" \in forms')
    BY DEF Used
  <1>5. forms' \subseteq Form
    <2>1. forms \subseteq Form /\ Used(kind = "var", "var") \subseteq Form
          /\ Used(block = "then", "conditional") \subseteq Form
      BY DEF TypeOK, Form, Used
    <2> QED BY <2>1
  <1>6. (block = "then" => ~Plain') /\ (Plain' => kind = "let")
    BY DEF Used, Plain
  <1>7. Declared' = Declared \cup {v} /\ v \notin Declared
    BY <1>2 DEF Declared
  <1>8. TablesAgree'
    <2>1. TablesAgree
      BY DEF CheckInv
    <2>2. \A u \in Local : decl'[u] = "var" => "var" \in forms'
      BY <1>2, <1>4, <2>1 DEF TablesAgree
    <2>3. ASSUME NEW i \in 1..Len(cleanups')
          PROVE  cleanups'[i] \in Declared'
      <3>1. CASE i \in 1..Len(cleanups)
        <4>1. cleanups[i] \in Declared
          BY <2>1, <3>1 DEF TablesAgree
        <4> QED BY <1>3, <1>7, <3>1, <4>1
      <3>2. CASE i = Len(cleanups) + 1
        BY <1>3, <1>7, <3>2
      <3> QED BY <1>3, <3>1, <3>2
    <2>4. ASSUME NEW i \in 1..Len(cleanups'), NEW j \in 1..Len(cleanups'),
                 cleanups'[i] = cleanups'[j]
          PROVE  i = j
      <3>1. \A k \in 1..Len(cleanups) : cleanups[k] # v
        <4>1. \A k \in 1..Len(cleanups) : cleanups[k] \in Declared
          BY <2>1 DEF TablesAgree
        <4> QED BY <1>7, <4>1
      <3>2. \A k, m \in 1..Len(cleanups) : cleanups[k] = cleanups[m] => k = m
        BY <2>1 DEF TablesAgree
      <3>3. CASE i \in 1..Len(cleanups) /\ j \in 1..Len(cleanups)
        <4>1. cleanups'[i] = cleanups[i] /\ cleanups'[j] = cleanups[j]
          BY <1>3, <3>3
        <4> QED BY <2>4, <3>2, <3>3, <4>1
      <3>4. CASE i \in 1..Len(cleanups) /\ j = Len(cleanups) + 1
        <4>1. cleanups'[i] = cleanups[i] /\ cleanups'[j] = v
          BY <1>3, <3>4
        <4> QED BY <2>4, <3>1, <3>4, <4>1
      <3>5. CASE i = Len(cleanups) + 1 /\ j \in 1..Len(cleanups)
        <4>1. cleanups'[j] = cleanups[j] /\ cleanups'[i] = v
          BY <1>3, <3>5
        <4> QED BY <2>4, <3>1, <3>5, <4>1
      <3> QED BY <1>3, <3>3, <3>4, <3>5
    <2>5. ASSUME NEW u \in Declared'
          PROVE  \E i \in 1..Len(cleanups') : cleanups'[i] = u
      <3>1. CASE u = v
        BY <1>3, <3>1
      <3>2. CASE u \in Declared
        <4>1. PICK i \in 1..Len(cleanups) : cleanups[i] = u
          BY <2>1, <3>2 DEF TablesAgree
        <4> QED BY <1>3, <4>1
      <3> QED BY <1>7, <3>1, <3>2
    <2>6. \A i \in 1..Len(defers') : defers'[i] # None => "defer uses class" \in forms'
      BY <1>4, <2>1 DEF TablesAgree
    <2> QED BY <2>2, <2>3, <2>4, <2>5, <2>6 DEF TablesAgree
  <1> QED BY <1>2, <1>3, <1>4, <1>5, <1>6, <1>7, <1>8

\* `let v = C()` and `var v = C()`.
LEMMA DeclareNewStep ==
  ASSUME TypeOK, CheckInv, NEW v \in Local, NEW kind \in {"let", "var"},
         Declare(v, None, kind)
  PROVE  TypeOK' /\ CheckInv'
  <1> DEFINE x == I("new", v, None)
  <1>0. PICK n : n = Len(code) + 1
    OBVIOUS
  <1>1. /\ ~ended /\ phase = "check" /\ phase' = "check" /\ stmts' \in 0..MaxStmts
        /\ Idle' /\ UNCHANGED running
    BY StatementFacts DEF Declare
  <1>2. UNCHANGED <<block, ended, defers, open>> /\ decl[v] = "not"
    BY DEF Declare
  <1>3. x \in Instr /\ x.op = "new" /\ x.v = v
    BY DEF I, Instr
  <1>4. AddsOne(x, n)
    <2>1. code' = code \o <<x>> /\ code \in Seq(Instr)
      BY DEF Declare, InitCode, TypeOK
    <2> HIDE DEF x
    <2>2. code \o <<x>> = Append(code, x)
      BY <1>3, <2>1
    <2> QED BY <1>0, <1>3, <2>1, <2>2 DEF AddsOne
  <1> HIDE DEF x
  <1>5. /\ code' \in Seq(Instr) /\ Len(code') = n /\ n \in Nat \ {0}
        /\ code'[n] = x /\ Len(code) \in Nat /\ Len(code) = n - 1
        /\ Len(code) < Len(code') /\ 1..Len(code') = 1..Len(code) \cup {n}
        /\ (Len(code) + 1)..Len(code') = {n}
        /\ \A i \in 1..Len(code) : code'[i] = code[i]
    BY <1>4, OneMore
  <1>6. /\ TablesAgree'
        /\ decl' \in [Local -> {"not", "let", "var", "temporary"}]
        /\ cleanups' \in Seq(Local) /\ forms \subseteq forms' /\ forms' \subseteq Form
        /\ Len(cleanups') = Len(cleanups) + 1
        /\ \A i \in 1..Len(cleanups) : cleanups'[i] = cleanups[i]
        /\ decl'[v] = kind /\ \A u \in Local : u # v => decl'[u] = decl[u]
        /\ Declared' = Declared \cup {v}
        /\ (block = "then" => ~Plain') /\ (Plain' => kind = "let")
    BY TablesDeclare DEF Declare, AddClassCleanup
  <1>7. TypeOK'
    BY <1>1, <1>2, <1>5, <1>6 DEF TypeOK, running
  <1>8. Extends
    <2>1. forms \subseteq forms' /\ \A u \in Local : u # v => decl'[u] = decl[u]
      BY <1>6
    <2>2. /\ Len(cleanups') = Len(cleanups) + 1
          /\ \A i \in 1..Len(cleanups) : cleanups'[i] = cleanups[i]
      BY <1>6
    <2> QED BY <1>2, <1>3, <1>5, <2>1, <2>2, Lengths DEF Extends
  <1>9. Added(x, n)
    <2>1. block = "then" => (Plain' => ~LetAt(n)') /\ (Ordered' => x.op # "defer")
      BY <1>3, <1>6
    <2>2. open' = (IF x.op = "if" THEN n ELSE open) /\ (x.op = "if" => block = "body")
      BY <1>2, <1>3
    <2> QED BY <1>4, <1>8, <2>1, <2>2, AddOne
  <1>10. LocalsAreBound' /\ DefersAreReached'
    <2>1. LocalsAreBound'
      BY <1>3, <1>6, <1>9 DEF Added, Binding
    <2>2. DefersAreReached'
      BY <1>2, <1>3, <1>9, Lengths DEF Added
    <2> QED BY <2>1, <2>2
  <1>11. BlocksAgree'
    BY <1>1, <1>2, <1>5 DEF CheckInv, BlocksAgree
  <1>12. /\ HasOperands(n)' /\ ReleaseSound(n)' /\ BlockSound(n)' /\ ExitSound(n)'
         /\ DeferSound(n)' /\ IfSound(n)'
    BY <1>3, <1>5 DEF HasOperands, ReleaseSound, BlockSound, ExitSound, DeferSound,
                      IfSound, Releasing
  <1>13. BindingSound(n)'
    <2>1. ASSUME NEW j \in 1..Len(code), code[j].op \in Binding PROVE code[j].v # v
      BY <1>2, <2>1 DEF CheckInv, CodeIsSound, BindingSound
    <2>2. ASSUME NEW j \in 1..Len(code'), code'[j].op \in Binding, code'[j].v = v
          PROVE  j = n
      BY <1>5, <2>1, <2>2
    <2>3. decl'[v] # "not"
      BY <1>6
    <2> QED BY <1>3, <1>5, <2>2, <2>3 DEF BindingSound, Needs, Releasing
  <1>14. CodeIsSound'
    BY <1>9, <1>12, <1>13 DEF Added
  <1> QED BY <1>1, <1>6, <1>7, <1>10, <1>11, <1>14 DEF CheckInv


\* `let v = w` and `var v = w`: a retain, and then the copy.
LEMMA DeclareCopyStep ==
  ASSUME TypeOK, CheckInv, NEW v \in Local, NEW w \in Local, NEW kind \in {"let", "var"},
         Declare(v, w, kind)
  PROVE  TypeOK' /\ CheckInv'
  <1> DEFINE x == I("retain", w, None)
             y == I("bind", v, w)
  <1>0. PICK n : n = Len(code) + 1
    OBVIOUS
  <1>1. /\ ~ended /\ phase = "check" /\ phase' = "check" /\ stmts' \in 0..MaxStmts
        /\ Idle' /\ UNCHANGED running
    BY StatementFacts DEF Declare
  <1>2. UNCHANGED <<block, ended, defers, open>> /\ decl[v] = "not" /\ w \in Declared
    BY NoneAssumption DEF Declare
  <1>3. /\ x \in Instr /\ x.op = "retain" /\ x.v = w
        /\ y \in Instr /\ y.op = "bind" /\ y.v = v /\ y.w = w
    BY DEF I, Instr
  <1>4. code' = code \o <<x, y>> /\ code \in Seq(Instr)
    BY NoneAssumption DEF Declare, InitCode, TypeOK
  <1> HIDE DEF x, y
  <1>5. /\ code' \in Seq(Instr) /\ Len(code') = n + 1 /\ n \in Nat \ {0}
        /\ code'[n] = x /\ code'[n + 1] = y /\ Len(code) \in Nat /\ Len(code) = n - 1
        /\ Len(code) < Len(code') /\ 1..Len(code') = 1..Len(code) \cup {n, n + 1}
        /\ (Len(code) + 1)..Len(code') = {n, n + 1}
        /\ \A i \in 1..Len(code) : code'[i] = code[i]
    <2>1. <<x, y>> \in Seq(Instr) /\ Len(<<x, y>>) = 2
      BY <1>3
    <2>2. code' \in Seq(Instr) /\ Len(code') = Len(code) + 2 /\ Len(code) \in Nat
      BY <1>4, <2>1
    <2>3. code'[n] = x /\ code'[n + 1] = y
      BY <1>0, <1>4, <2>1, <2>2
    <2>4. \A i \in 1..Len(code) : code'[i] = code[i]
      BY <1>4, <2>1, <2>2
    <2> QED BY <1>0, <2>2, <2>3, <2>4
  <1>6. /\ TablesAgree'
        /\ decl' \in [Local -> {"not", "let", "var", "temporary"}]
        /\ cleanups' \in Seq(Local) /\ forms \subseteq forms' /\ forms' \subseteq Form
        /\ Len(cleanups') = Len(cleanups) + 1
        /\ \A i \in 1..Len(cleanups) : cleanups'[i] = cleanups[i]
        /\ decl'[v] = kind /\ \A u \in Local : u # v => decl'[u] = decl[u]
        /\ Declared' = Declared \cup {v}
        /\ (block = "then" => ~Plain') /\ (Plain' => kind = "let")
    BY TablesDeclare DEF Declare, AddClassCleanup
  <1>7. TypeOK'
    BY <1>1, <1>2, <1>5, <1>6 DEF TypeOK, running
  <1>8. Extends
    <2>1. forms \subseteq forms' /\ \A u \in Local : u # v => decl'[u] = decl[u]
      BY <1>6
    <2>2. /\ Len(cleanups') = Len(cleanups) + 1
          /\ \A i \in 1..Len(cleanups) : cleanups'[i] = cleanups[i]
      BY <1>6
    <2>3. \A j \in (Len(code) + 1)..Len(code') :
             code'[j].op \in Binding => decl[code'[j].v] = "not"
      BY <1>2, <1>3, <1>5 DEF Binding
    <2>4. \A u \in Local : decl[u] # "not" => decl'[u] = decl[u]
      BY <1>2, <2>1
    <2>5. code' \in Seq(Instr) /\ Len(code) <= Len(code')
          /\ \A i \in 1..Len(code) : code'[i] = code[i]
      BY <1>5
    <2>6. /\ Len(cleanups') \in Nat /\ Len(cleanups) <= Len(cleanups')
          /\ Len(defers') \in Nat /\ Len(defers) <= Len(defers') /\ defers' = defers
      BY <1>2, <2>2, Lengths
    <2>7. forms \subseteq forms'
      BY <2>1
    <2> QED BY <2>2, <2>3, <2>4, <2>5, <2>6, <2>7 DEF Extends
  <1>9. \A j \in 1..Len(code) : (LetAt(j)' <=> LetAt(j)) /\ code'[j] = code[j]
    BY <1>5, <1>8, OldMeaning
  <1>10. LocalsAreBound'
    <2> SUFFICES ASSUME NEW u \in Declared'
                 PROVE  \E i \in 1..Len(code') : code'[i].op \in Binding /\ code'[i].v = u
      BY DEF LocalsAreBound
    <2>1. CASE u = v
      BY <1>3, <1>5, <2>1 DEF Binding
    <2>2. CASE u \in Declared
      <3>1. PICK i \in 1..Len(code) : code[i].op \in Binding /\ code[i].v = u
        BY <2>2 DEF CheckInv, LocalsAreBound
      <3> QED BY <1>5, <3>1
    <2> QED BY <1>6, <2>1, <2>2
  <1>11. DefersAreReached'
    <2> SUFFICES ASSUME Ordered' PROVE Len(defers') = DefersIn(code', Len(code') + 1)
      BY DEF DefersAreReached, Reached
    <2>1. Len(defers) = Reached(n)
      BY <1>0, <1>8, OldMeaning DEF CheckInv, DefersAreReached
    <2>2. Reached(n)' = Reached(n)
      BY <1>5, <1>8, OldMeaning
    <2>3. \A j \in n..((Len(code') + 1) - 1) : code'[j].op # "defer"
      BY <1>3, <1>5
    <2>4. DefersIn(code', Len(code') + 1) = DefersIn(code', n)
      BY <1>5, <2>3, DefersStay
    <2> QED BY <1>2, <2>1, <2>2, <2>4 DEF Reached
  <1>12. BlocksAgree'
    BY <1>1, <1>2, <1>5 DEF CheckInv, BlocksAgree
  <1>13. /\ HasOperands(n)' /\ ReleaseSound(n)' /\ BlockSound(n)' /\ ExitSound(n)'
         /\ DeferSound(n)' /\ IfSound(n)'
    BY <1>3, <1>5 DEF HasOperands, ReleaseSound, BlockSound, ExitSound, DeferSound,
                      IfSound, Releasing
  <1>14. /\ HasOperands(n + 1)' /\ ReleaseSound(n + 1)' /\ BlockSound(n + 1)' /\ ExitSound(n + 1)'
         /\ DeferSound(n + 1)' /\ IfSound(n + 1)'
    BY <1>3, <1>5 DEF HasOperands, ReleaseSound, BlockSound, ExitSound, DeferSound,
                      IfSound, Releasing
  <1>15. BindingSound(n)'
    <2>1. ASSUME Plain' PROVE \E j \in 1..(n - 1) : LetAt(j)' /\ code'[j].v = w
      <3>1. Plain
        BY <1>8, <2>1, OldMeaning
      <3>2. PICK j \in 1..Len(code) : LetAt(j) /\ code[j].v = w
        BY <1>2, <3>1, DeclaredIsBound
      <3> QED BY <1>5, <1>9, <3>2
    <2>2. n < Len(code') /\ code'[n + 1].op = "bind" /\ code'[n + 1].w = code'[n].v
      BY <1>3, <1>5
    <2> QED BY <1>3, <1>5, <2>1, <2>2 DEF BindingSound, Binding
  <1>16. BindingSound(n + 1)'
    <2>1. ASSUME NEW j \in 1..Len(code), code[j].op \in Binding PROVE code[j].v # v
      BY <1>2, <2>1 DEF CheckInv, CodeIsSound, BindingSound
    <2>2. ASSUME NEW j \in 1..Len(code'), code'[j].op \in Binding, code'[j].v = v
          PROVE  j = n + 1
      BY <1>3, <1>5, <2>1, <2>2 DEF Binding
    <2>3. decl'[v] \notin {"not", "temporary"}
      BY <1>6
    <2>4. n + 1 > 1 /\ code'[(n + 1) - 1].op = "retain"
      BY <1>3, <1>5
    <2> QED BY <1>3, <1>5, <2>2, <2>3, <2>4 DEF BindingSound, Needs, Releasing
  <1>17. CodeIsSound'
    <2>1. \A j \in (Len(code) + 1)..Len(code') : j = n \/ j = n + 1
      BY <1>5
    <2>2. block = "then" => \A j \in (Len(code) + 1)..Len(code') :
                             (Plain' => ~LetAt(j)') /\ (Ordered' => code'[j].op # "defer")
      BY <1>3, <1>6, <2>1, <1>5
    <2>3. \A j \in (Len(code) + 1)..Len(code') :
           /\ HasOperands(j)' /\ ReleaseSound(j)' /\ BlockSound(j)' /\ ExitSound(j)'
           /\ BindingSound(j)' /\ DeferSound(j)' /\ IfSound(j)'
      BY <1>13, <1>14, <1>15, <1>16, <2>1
    <2> QED BY <1>2, <1>5, <1>8, <2>2, <2>3, AddSome
  <1> QED BY <1>1, <1>6, <1>7, <1>10, <1>11, <1>12, <1>17 DEF CheckInv

\* The last instruction is no part of an exit but its end, and no retain.
LEMMA LastIsNoExit ==
  ASSUME TypeOK, CheckInv, Len(code) > 0
  PROVE  code[Len(code)].op \notin Releasing \cup {"runDeferred", "retain"}
  <1>1. Len(code) \in Nat /\ Len(code) \in 1..Len(code)
    BY Lengths
  <1>2. /\ ReleaseSound(Len(code)) /\ BlockSound(Len(code)) /\ BindingSound(Len(code))
    BY <1>1 DEF CheckInv, CodeIsSound
  <1>3. code[Len(code)].op \notin Releasing
    <2>1. ASSUME NEW n \in 1..Len(cleanups), ReleasesFrom(Len(code), n) PROVE FALSE
      BY <1>1, <2>1 DEF ReleasesFrom
    <2> QED BY <1>2, <2>1 DEF ReleaseSound, Releasing
  <1>4. code[Len(code)].op # "runDeferred"
    <2>1. ASSUME NEW n \in 1..Len(defers), BlocksFrom(Len(code), n) PROVE FALSE
      BY <1>1, <2>1 DEF BlocksFrom
    <2> QED BY <1>2, <2>1 DEF BlockSound
  <1>5. code[Len(code)].op # "retain"
    BY <1>1, <1>2 DEF BindingSound
  <1> QED BY <1>3, <1>4, <1>5

\* `}`: the branch gets its target.
LEMMA EndIfStep ==
  ASSUME TypeOK, CheckInv, EndIf
  PROVE  TypeOK' /\ CheckInv'
  <1>0. PICK n : n = Len(code) + 1
    OBVIOUS
  <1>1. /\ phase = "check" /\ phase' = "check" /\ block = "then" /\ block' = "body"
        /\ ended' = FALSE /\ open' = 0
        /\ UNCHANGED <<stmts, decl, cleanups, defers, forms, running>>
    BY DEF EndIf
  <1>2. open \in 1..Len(code) /\ code[open].op = "if" /\ Len(code) \in Nat
    BY <1>1, Lengths DEF CheckInv, BlocksAgree
  <1>3. /\ code' \in Seq(Instr) /\ Len(code') = Len(code)
        /\ \A i \in 1..Len(code) : code'[i].op = code[i].op /\ (i # open => code'[i] = code[i])
        /\ code'[open].v = n
    <2>1. code \in Seq(Instr) /\ code' = [code EXCEPT ![open].v = n]
      BY <1>0 DEF EndIf, TypeOK
    <2>2. code[open] \in Instr /\ n \in Nat
      BY <1>0, <1>2, <2>1
    <2>3. [code[open] EXCEPT !.v = n] \in Instr /\ [code[open] EXCEPT !.v = n].op = code[open].op
          /\ [code[open] EXCEPT !.v = n].v = n
      BY <2>2 DEF Instr
    <2>4. code' = [code EXCEPT ![open] = [code[open] EXCEPT !.v = n]]
      BY <2>1
    <2>5. code' \in Seq(Instr) /\ Len(code') = Len(code)
      BY <1>2, <2>1, <2>3, <2>4
    <2>6. code'[open] = [code[open] EXCEPT !.v = n]
      BY <1>2, <2>1, <2>4
    <2>7. \A i \in 1..Len(code) : i # open => code'[i] = code[i]
      BY <2>1, <2>4
    <2> QED BY <2>3, <2>5, <2>6, <2>7
  <1>4. TypeOK'
    <2>1. code' \in Seq(Instr) /\ open' \in 0..Len(code') /\ pc' \in 1..(Len(code') + 1)
      BY <1>1, <1>2, <1>3 DEF TypeOK, running
    <2> QED BY <1>1, <2>1 DEF TypeOK, running
  <1>5. Extends
    <2>1. \A i \in 1..Len(code) : code'[i].op = code[i].op /\ (code[i].op # "if" => code'[i] = code[i])
      BY <1>2, <1>3
    <2>2. \A j \in (Len(code) + 1)..Len(code') : FALSE
      BY <1>2, <1>3
    <2> QED BY <1>1, <1>2, <1>3, <2>1, <2>2, Lengths DEF Extends
  <1>6. /\ (Plain' => Plain) /\ (Ordered' => Ordered)
        /\ \A i \in 1..(Len(code) + 1) : Reached(i)' = Reached(i)
        /\ \A j \in 1..Len(code) : LetAt(j)' <=> LetAt(j)
    BY <1>5, OldMeaning
  <1>7. TablesAgree' /\ Declared' = Declared
    BY <1>1, TablesStay DEF CheckInv
  <1>8. LocalsAreBound'
    <2>1. \A i \in 1..Len(code) : code[i].op \in Binding => code'[i] = code[i]
      BY <1>2, <1>3 DEF Binding
    <2> QED BY <1>3, <1>7, <2>1 DEF CheckInv, LocalsAreBound
  <1>9. DefersAreReached'
    <2> SUFFICES ASSUME Ordered' PROVE Len(defers') = DefersIn(code', Len(code') + 1)
      BY DEF DefersAreReached, Reached
    <2>1. Reached(n)' = Reached(n)
      BY <1>0, <1>2, <1>6
    <2>2. Len(defers) = Reached(n)
      BY <1>0, <1>6 DEF CheckInv, DefersAreReached
    <2> QED BY <1>0, <1>1, <1>3, <2>1, <2>2 DEF Reached
  <1>10. BlocksAgree'
    BY <1>1 DEF BlocksAgree
  <1>11. ASSUME NEW i \in 1..Len(code), code[i].op = "if"
         PROVE  HasOperands(i)' /\ IfSound(i)'
    <2>1. HasOperands(i) /\ IfSound(i)
      BY DEF CheckInv, CodeIsSound
    <2>2. code'[i].op = "if" /\ i # open'
      BY <1>1, <1>2, <1>3, <1>11
    <2>3. CASE i = open
      <3>1. code'[i].v = n /\ n \in Nat
        BY <1>0, <1>2, <1>3, <2>3
      <3>2. n \in (i + 1)..(Len(code') + 1)
        BY <1>0, <1>2, <1>3, <2>3
      <3>3. Begins(n, Releasing \cup {"runDeferred", "retain"})'
        <4>1. code[Len(code)].op \notin Releasing \cup {"runDeferred", "retain"}
          BY <1>2, LastIsNoExit
        <4>2. code'[Len(code)].op = code[Len(code)].op /\ n - 1 = Len(code)
          BY <1>0, <1>2, <1>3
        <4> QED BY <4>1, <4>2 DEF Begins, Releasing
      <3>4. ASSUME Plain', NEW j \in (i + 1)..Len(code'), LetAt(j)' PROVE FALSE
        <4>1. j \in 1..Len(code) /\ j \in (i + 1)..Len(code)
          BY <1>2, <1>3
        <4>2. LetAt(j) /\ Plain
          BY <1>6, <3>4, <4>1
        <4> QED BY <1>11, <2>1, <2>3, <4>1, <4>2 DEF IfSound
      <3>5. ASSUME Ordered' PROVE Reached(n)' = Reached(i)'
        <4>1. Reached(n) = Reached(i)
          BY <1>0, <1>6, <1>11, <2>1, <2>3, <3>5 DEF IfSound
        <4> QED BY <1>0, <1>2, <1>6, <4>1
      <3>6. code'[i].v \in (i + 1)..(Len(code') + 1) /\ ~ended'
        BY <1>1, <3>1, <3>2
      <3>7. HasOperands(i)'
        BY <2>2, <3>1 DEF HasOperands
      <3> QED BY <2>2, <3>1, <3>3, <3>4, <3>5, <3>6, <3>7 DEF IfSound
    <2>4. CASE i # open
      <3>0. PICK t : t = code[i].v
        OBVIOUS
      <3>1. code'[i] = code[i] /\ code'[i].v = t
        BY <1>3, <2>4, <3>0
      <3>2. t \in (i + 1)..(Len(code) + 1)
        BY <1>11, <2>1, <2>4, <3>0 DEF IfSound
      <3>3. Begins(t, Releasing \cup {"runDeferred", "retain"})'
        <4>1. Begins(t, Releasing \cup {"runDeferred", "retain"})
          BY <1>11, <2>1, <2>4, <3>0 DEF IfSound
        <4>2. t \in 1..(Len(code) + 1)
          BY <1>2, <3>2
        <4> QED BY <1>5, <4>1, <4>2, OldMeaning
      <3>4. ASSUME Plain', NEW j \in (i + 1)..Len(code'), LetAt(j)' PROVE j >= t
        <4>1. j \in 1..Len(code) /\ j \in (i + 1)..Len(code)
          BY <1>2, <1>3
        <4>2. LetAt(j) /\ Plain
          BY <1>6, <3>4, <4>1
        <4> QED BY <1>11, <2>1, <3>0, <4>1, <4>2 DEF IfSound
      <3>5. ASSUME Ordered' PROVE Reached(t)' = Reached(i)'
        <4>1. Reached(t) = Reached(i)
          BY <1>6, <1>11, <2>1, <2>4, <3>0, <3>5 DEF IfSound
        <4>2. t \in 1..(Len(code) + 1) /\ i \in 1..(Len(code) + 1)
          BY <1>2, <3>2
        <4> QED BY <1>6, <4>1, <4>2
      <3>6. ~ended' /\ code'[i].v \in (i + 1)..(Len(code') + 1)
        BY <1>1, <1>3, <3>1, <3>2
      <3>7. HasOperands(i)'
        BY <2>1, <3>1 DEF HasOperands
      <3> QED BY <2>2, <3>1, <3>3, <3>4, <3>5, <3>6, <3>7 DEF IfSound
    <2> QED BY <2>3, <2>4
  <1>12. CodeIsSound'
    <2>1. ASSUME NEW i \in 1..Len(code')
          PROVE  /\ HasOperands(i)'
                 /\ ReleaseSound(i)' /\ BlockSound(i)' /\ ExitSound(i)'
                 /\ BindingSound(i)' /\ DeferSound(i)' /\ IfSound(i)'
      <3>1. i \in 1..Len(code)
        BY <1>3
      <3>2. /\ ReleaseSound(i)' /\ BlockSound(i)' /\ ExitSound(i)'
            /\ BindingSound(i)' /\ DeferSound(i)'
            /\ (code[i].op # "if" => HasOperands(i)')
        BY <1>5, <3>1, OldSound
      <3>3. code[i].op # "if" => IfSound(i)'
        BY <1>3, <3>1 DEF IfSound
      <3> QED BY <1>11, <3>1, <3>2, <3>3
    <2> QED BY <2>1 DEF CodeIsSound
  <1>13. Idle'
    BY <1>1 DEF CheckInv, Idle, running
  <1> QED BY <1>1, <1>4, <1>7, <1>8, <1>9, <1>10, <1>12, <1>13 DEF CheckInv

-----------------------------------------------------------------------------
(* The ways out of the function.                                           *)

\* The value of an expression, a local's if the exit is that of a return or
\* has no other part.
Evaluates(c, alone) ==
  /\ c.op = "eval" /\ c.v \in Declared \cup {None}
  /\ c.v # None => alone \/ "returns class" \in forms'

\* An exit is added: from the instruction b + 1 on the value of an expression,
\* if p is not b; from p + 1 the releases; from q + 1 the deferred blocks; and
\* the return, which is the instruction m.
AddsExit(b, p, q, m) ==
  /\ b = Len(code) /\ p \in {b, b + 1} /\ q \in {p, p + Len(cleanups)}
  /\ m \in {q + 1, q + Len(defers) + 1}
  /\ code' \in Seq(Instr) /\ Len(code') = m
  /\ \A i \in 1..b : code'[i] = code[i]
  /\ p # b => Evaluates(code'[p], m = p + 1)
  /\ \A j \in (p + 1)..q :
       /\ code'[j].op = IF decl[cleanups[(q + 1) - j]] = "var" THEN "releaseSlot" ELSE "release"
       /\ code'[j].v = cleanups[(q + 1) - j]
  /\ \A j \in (q + 1)..(m - 1) : code'[j].op = "runDeferred" /\ code'[j].v = defers[m - j]
  /\ code'[m].op = "ret"

\* What an exit does to the code.
LEMMA ExitExtends ==
  ASSUME TypeOK, CheckInv, NEW b, NEW p, NEW q, NEW m, AddsExit(b, p, q, m),
         UNCHANGED <<decl, cleanups, defers>>, forms \subseteq forms'
  PROVE  /\ b \in Nat /\ p \in Nat /\ q \in Nat /\ m \in Nat
         /\ b <= p /\ p <= b + 1 /\ p <= q /\ q < m
         /\ \A j \in (b + 1)..m : code'[j].op \in Releasing \cup {"eval", "runDeferred", "ret"}
         /\ \A j \in (b + 1)..m : \/ p = b + 1 /\ j = p
                                  \/ j \in (p + 1)..q
                                  \/ j \in (q + 1)..(m - 1)
                                  \/ j = m
         /\ Extends
  <1>1. Len(code) \in Nat /\ Len(cleanups) \in Nat /\ Len(defers) \in Nat
    BY Lengths
  <1>2. /\ b \in Nat /\ p \in Nat /\ q \in Nat /\ m \in Nat
        /\ b <= p /\ p <= b + 1 /\ p <= q /\ q < m
    BY <1>1 DEF AddsExit
  <1>3. \A j \in (b + 1)..m : \/ p = b + 1 /\ j = p
                              \/ j \in (p + 1)..q
                              \/ j \in (q + 1)..(m - 1)
                              \/ j = m
    BY <1>2
  <1>4. ASSUME NEW j \in (b + 1)..m
        PROVE  code'[j].op \in Releasing \cup {"eval", "runDeferred", "ret"}
    <2>1. CASE p = b + 1 /\ j = p
      <3>1. p # b
        BY <1>2, <2>1
      <3>2. Evaluates(code'[p], m = p + 1)
        BY <3>1 DEF AddsExit
      <3> QED BY <2>1, <3>2 DEF Evaluates
    <2>2. CASE j \in (p + 1)..q
      <3>1. code'[j].op = IF decl[cleanups[(q + 1) - j]] = "var" THEN "releaseSlot" ELSE "release"
        BY <2>2 DEF AddsExit
      <3> QED BY <3>1 DEF Releasing
    <2>3. CASE j \in (q + 1)..(m - 1)
      BY <2>3 DEF AddsExit
    <2>4. CASE j = m
      BY <2>4 DEF AddsExit
    <2> QED BY <1>3, <2>1, <2>2, <2>3, <2>4
  <1>5. Extends
    <2>1. b = Len(code) /\ Len(code') = m /\ code' \in Seq(Instr) /\ \A i \in 1..b : code'[i] = code[i]
      BY DEF AddsExit
    <2>2. \A j \in (Len(code) + 1)..Len(code') : code'[j].op \notin Binding
      BY <1>4, <2>1 DEF Binding, Releasing
    <2> QED BY <1>1, <1>2, <2>1, <2>2 DEF Extends
  <1> QED BY <1>2, <1>3, <1>4, <1>5

\* An exit is sound, and so is the code that has got it.
LEMMA ExitIsSound ==
  ASSUME TypeOK, CheckInv, NEW b, NEW p, NEW q, NEW m, AddsExit(b, p, q, m),
         UNCHANGED <<decl, cleanups, defers, open>>, forms \subseteq forms',
         Tidy' => q = p + Len(cleanups), Ordered' => m = q + Len(defers) + 1
  PROVE  /\ CodeIsSound' /\ TablesAgree' /\ LocalsAreBound' /\ DefersAreReached'
         /\ code' \in Seq(Instr) /\ Len(code) < Len(code') /\ Len(code') \in Nat
         /\ code'[Len(code')].op = "ret"
  <1>1. Len(code) \in Nat /\ Len(cleanups) \in Nat /\ Len(defers) \in Nat
    BY Lengths
  <1>2. /\ b \in Nat /\ p \in Nat /\ q \in Nat /\ m \in Nat
        /\ b <= p /\ p <= b + 1 /\ p <= q /\ q < m
    BY ExitExtends
  <1>3. \A j \in (b + 1)..m : code'[j].op \in Releasing \cup {"eval", "runDeferred", "ret"}
    BY ExitExtends
  <1>4. \A j \in (b + 1)..m : \/ p = b + 1 /\ j = p
                              \/ j \in (p + 1)..q
                              \/ j \in (q + 1)..(m - 1)
                              \/ j = m
    BY ExitExtends
  <1>5. Extends
    BY ExitExtends
  <1>6. /\ code' \in Seq(Instr) /\ b = Len(code) /\ Len(code') = m /\ code'[m].op = "ret"
        /\ \A i \in 1..b : code'[i] = code[i]
    BY DEF AddsExit
  <1>7. /\ \A j \in 1..b : LetAt(j)' <=> LetAt(j)
        /\ \A i \in 1..(b + 1) : Reached(i)' = Reached(i)
        /\ (Plain' => Plain) /\ (Ordered' => Ordered)
    BY <1>5, <1>6, OldMeaning
  <1>8. TablesAgree' /\ Declared' = Declared
    BY TablesStay DEF CheckInv
  <1>9. LocalsAreBound'
    BY <1>1, <1>2, <1>6, <1>8 DEF CheckInv, LocalsAreBound
  \* Nothing is bound or deferred there.
  <1>10. ASSUME NEW i \in 1..m, LetAt(i)'
         PROVE  /\ i \in 1..b /\ LetAt(i) /\ code'[i].v = code[i].v
                /\ \E k \in 1..Len(cleanups) : cleanups[k] = code[i].v
    <2>1. i \in 1..b
      <3>1. i \notin (b + 1)..m
        BY <1>3, <1>10 DEF LetAt, Binding, Releasing
      <3> QED BY <1>2, <3>1
    <2>2. LetAt(i) /\ code'[i].v = code[i].v
      BY <1>6, <1>7, <1>10, <2>1
    <2>3. code[i].v \in Declared
      <3>1. code[i].v \in Local
        BY <1>6, <2>1, <2>2 DEF CheckInv, CodeIsSound, HasOperands, LetAt, Binding
      <3> QED BY <2>2, <3>1 DEF LetAt, Declared
    <2> QED BY <2>1, <2>2, <2>3 DEF CheckInv, TablesAgree
  <1>11. ASSUME NEW j \in (b + 1)..(m + 1), Ordered'
         PROVE  DefersIn(code', j) = Len(defers)
    <2>1. \A i \in (b + 1)..(j - 1) : code'[i].op # "defer"
      BY <1>2, <1>3 DEF Releasing
    <2>2. DefersIn(code', j) = DefersIn(code', b + 1)
      BY <1>2, <2>1, DefersStay
    <2>3. Reached(b + 1)' = Reached(b + 1)
      BY <1>2, <1>7
    <2>4. Len(defers) = Reached(b + 1)
      BY <1>6, <1>7, <1>11 DEF CheckInv, DefersAreReached
    <2> QED BY <2>2, <2>3, <2>4 DEF Reached
  <1>12. DefersAreReached'
    <2>1. m + 1 \in (b + 1)..(m + 1)
      BY <1>2
    <2> QED BY <1>6, <1>11, <2>1 DEF DefersAreReached, Reached
  \* The evaluation of the expression.
  <1>13. ASSUME NEW j, j = p, p = b + 1
         PROVE  /\ HasOperands(j)' /\ ReleaseSound(j)' /\ BlockSound(j)' /\ ExitSound(j)'
                /\ BindingSound(j)' /\ DeferSound(j)' /\ IfSound(j)'
    <2>1. /\ code'[j].op = "eval" /\ code'[j].v \in Declared \cup {None}
          /\ code'[j].v # None => m = j + 1 \/ "returns class" \in forms'
      <3>1. p # b
        BY <1>2, <1>13
      <3>2. Evaluates(code'[p], m = p + 1)
        BY <3>1 DEF AddsExit
      <3> QED BY <1>13, <3>2 DEF Evaluates
    <2>2. ExitSound(j)'
      <3>1. j \in Nat /\ j = b + 1 /\ j < m /\ j + 1 \in (b + 1)..m /\ j + 1 # j
        BY <1>2, <1>13
      <3>2. code'[j + 1].op \in Releasing \cup {"runDeferred", "ret"}
        <4>1. CASE j + 1 \in (p + 1)..q
          BY <4>1 DEF AddsExit, Releasing
        <4>2. CASE j + 1 \in (q + 1)..(m - 1)
          BY <4>2 DEF AddsExit
        <4>3. CASE j + 1 = m
          BY <1>6, <4>3
        <4> QED BY <1>2, <1>4, <1>13, <3>1, <4>1, <4>2, <4>3
      <3>3. m = j + 1 => code'[j + 1].op = "ret"
        BY <1>6
      <3> QED BY <1>6, <2>1, <3>1, <3>2, <3>3 DEF ExitSound, Releasing
    <2>3. ASSUME Plain', Needs(code'[j])
          PROVE  \E i \in 1..(j - 1) : LetAt(i)' /\ code'[i].v = code'[j].v
      <3>1. code'[j].v \in Declared /\ Plain
        BY <1>7, <2>1, <2>3 DEF Needs, Releasing
      <3>2. PICK i \in 1..Len(code) : LetAt(i) /\ code[i].v = code'[j].v
        BY <3>1, DeclaredIsBound
      <3> QED BY <1>2, <1>6, <1>7, <1>13, <3>2
    <2>4. BindingSound(j)'
      BY <2>1, <2>3 DEF BindingSound, Binding
    <2>5. HasOperands(j)' /\ ReleaseSound(j)' /\ BlockSound(j)' /\ DeferSound(j)' /\ IfSound(j)'
      BY <2>1 DEF HasOperands, ReleaseSound, BlockSound, DeferSound, IfSound, Releasing,
                  Declared
    <2> QED BY <2>2, <2>4, <2>5
  \* The releases.
  <1>14. ASSUME NEW j \in (p + 1)..q
         PROVE  /\ HasOperands(j)' /\ ReleaseSound(j)' /\ BlockSound(j)' /\ ExitSound(j)'
                /\ BindingSound(j)' /\ DeferSound(j)' /\ IfSound(j)'
    <2>0. PICK n : n = (q + 1) - j
      OBVIOUS
    <2>1. q = p + Len(cleanups) /\ n \in 1..Len(cleanups) /\ j \in Nat /\ j \in 1..m
      <3>1. q \in {p, p + Len(cleanups)}
        BY DEF AddsExit
      <3>2. p < j /\ j <= q /\ j \in Nat
        BY <1>2
      <3>3. q = p + Len(cleanups)
        BY <1>2, <3>1, <3>2
      <3> QED BY <1>1, <1>2, <2>0, <3>2, <3>3
    <2>2. /\ code'[j].op = IF decl[cleanups[n]] = "var" THEN "releaseSlot" ELSE "release"
          /\ code'[j].v = cleanups[n] /\ cleanups[n] \in Declared
      BY <2>0, <2>1 DEF AddsExit, CheckInv, TablesAgree
    <2>3. code'[j].op \in Releasing /\ cleanups[n] \in Local
      BY <2>2 DEF Releasing, Declared
    <2>4. ReleasesFrom(j, n)'
      <3>1. j + n = q + 1 /\ j + n <= m
        BY <1>2, <2>0, <2>1
      <3>2. code'[q + 1].op \in {"runDeferred", "ret"}
        <4>1. CASE q + 1 = m
          BY <1>6, <4>1
        <4>2. CASE q + 1 # m
          <5>1. q + 1 \in (q + 1)..(m - 1)
            BY <1>2, <4>2
          <5> QED BY <5>1 DEF AddsExit
        <4> QED BY <4>1, <4>2
      <3>3. ASSUME NEW k \in 0..(n - 1)
            PROVE  /\ code'[j + k].op = IF decl[cleanups[n - k]] = "var" THEN "releaseSlot" ELSE "release"
                   /\ code'[j + k].v = cleanups[n - k]
        <4>1. j + k \in (p + 1)..q /\ (q + 1) - (j + k) = n - k
          BY <1>2, <2>0, <2>1
        <4>2. /\ code'[j + k].op =
                   IF decl[cleanups[(q + 1) - (j + k)]] = "var" THEN "releaseSlot" ELSE "release"
              /\ code'[j + k].v = cleanups[(q + 1) - (j + k)]
          BY <4>1 DEF AddsExit
        <4> QED BY <4>1, <4>2
      <3>4. j + n <= Len(code') /\ code'[j + n].op \in {"runDeferred", "ret"}
        BY <1>6, <3>1, <3>2
      <3> QED BY <3>3, <3>4 DEF ReleasesFrom
    <2>5. ASSUME Begins(j, Releasing)', NEW i \in 1..(j - 1), LetAt(i)'
          PROVE  \E k \in 1..n : cleanups[k] = code'[i].v
      <3>1. j = p + 1
        <4> SUFFICES ASSUME j # p + 1 PROVE FALSE
          OBVIOUS
        <4>1. j - 1 \in (p + 1)..q /\ j - 1 \in (b + 1)..m /\ j # 1
          BY <1>2, <2>1
        <4>2. code'[j - 1].op \in Releasing
          BY <4>1 DEF AddsExit, Releasing
        <4> QED BY <2>5, <4>1, <4>2 DEF Begins, Releasing
      <3>2. n = Len(cleanups)
        BY <1>1, <1>2, <2>0, <2>1, <3>1
      <3>3. i \in 1..m
        BY <1>2, <2>1
      <3> QED BY <1>10, <2>5, <3>2, <3>3
    <2>6. ReleaseSound(j)'
      BY <2>1, <2>4, <2>5 DEF ReleaseSound, Releasing
    <2>7. BindingSound(j)'
      <3>1. ASSUME Plain' PROVE \E i \in 1..(j - 1) : LetAt(i)' /\ code'[i].v = code'[j].v
        <4>1. PICK i \in 1..b : LetAt(i) /\ code[i].v = cleanups[n]
          BY <1>6, <1>7, <2>2, <3>1, DeclaredIsBound
        <4>2. i \in 1..(j - 1) /\ LetAt(i)' /\ code'[i] = code[i]
          BY <1>2, <1>6, <1>7, <2>1, <4>1
        <4> QED BY <2>2, <4>1, <4>2
      <3> QED BY <2>3, <3>1 DEF BindingSound, Binding, Releasing
    <2>8. HasOperands(j)'
      BY <2>2, <2>3 DEF HasOperands, Releasing
    <2>9. BlockSound(j)' /\ ExitSound(j)' /\ DeferSound(j)' /\ IfSound(j)'
      BY <2>3 DEF BlockSound, ExitSound, DeferSound, IfSound, Releasing
    <2> QED BY <2>6, <2>7, <2>8, <2>9
  \* Where there are neither releases nor deferred blocks in front, the body
  \* has no local to release.
  <1>15. ASSUME NEW j \in (q + 1)..m, Tidy', Begins(j, Releasing \cup {"runDeferred"})'
         PROVE  \A i \in 1..(j - 1) : ~LetAt(i)'
    <2>1. j = q + 1
      <3> SUFFICES ASSUME j # q + 1 PROVE FALSE
        OBVIOUS
      <3>1. j - 1 \in (q + 1)..(m - 1) /\ j # 1
        BY <1>2
      <3>2. code'[j - 1].op = "runDeferred"
        BY <3>1 DEF AddsExit
      <3> QED BY <1>15, <3>1, <3>2 DEF Begins
    <2>2. p = q
      <3> SUFFICES ASSUME p # q PROVE FALSE
        OBVIOUS
      <3>1. q \in (p + 1)..q /\ j # 1 /\ j - 1 = q
        BY <1>2, <2>1
      <3>2. code'[q].op \in Releasing
        BY <3>1 DEF AddsExit, Releasing
      <3> QED BY <1>15, <3>1, <3>2 DEF Begins, Releasing
    <2>3. Len(cleanups) = 0
      BY <1>1, <1>2, <1>15, <2>2
    <2>4. ASSUME NEW i \in 1..(j - 1), LetAt(i)' PROVE FALSE
      <3>1. i \in 1..m
        BY <1>2
      <3>2. \E k \in 1..Len(cleanups) : cleanups[k] = code[i].v
        BY <1>10, <2>4, <3>1
      <3> QED BY <2>3, <3>2
    <2> QED BY <2>4
  \* The deferred blocks.
  <1>16. ASSUME NEW j \in (q + 1)..(m - 1)
         PROVE  /\ HasOperands(j)' /\ ReleaseSound(j)' /\ BlockSound(j)' /\ ExitSound(j)'
                /\ BindingSound(j)' /\ DeferSound(j)' /\ IfSound(j)'
    <2>0. PICK n : n = m - j
      OBVIOUS
    <2>1. /\ m = q + Len(defers) + 1 /\ n \in 1..Len(defers) /\ j \in Nat
          /\ j \in (b + 1)..(m + 1) /\ j \in (q + 1)..m
      BY <1>1, <1>2, <2>0 DEF AddsExit
    <2>2. code'[j].op = "runDeferred" /\ code'[j].v = defers[n]
      BY <2>0 DEF AddsExit
    <2>3. defers[n] \in Local \cup {None}
      BY <2>1 DEF TypeOK
    <2>4. BlocksFrom(j, n)'
      <3>1. ASSUME NEW k \in 0..(n - 1)
            PROVE  code'[j + k].op = "runDeferred" /\ code'[j + k].v = defers[n - k]
        <4>1. j + k \in (q + 1)..(m - 1) /\ m - (j + k) = n - k
          BY <1>2, <2>0, <2>1
        <4> QED BY <4>1 DEF AddsExit
      <3>2. j + n <= Len(code') /\ code'[j + n].op = "ret"
        BY <1>2, <1>6, <2>0, <2>1
      <3> QED BY <3>1, <3>2 DEF BlocksFrom
    <2>5. ASSUME Ordered', Begins(j, {"runDeferred"})' PROVE n = Reached(j)'
      <3>1. j = q + 1
        <4> SUFFICES ASSUME j # q + 1 PROVE FALSE
          OBVIOUS
        <4>1. j - 1 \in (q + 1)..(m - 1) /\ j # 1
          BY <1>2
        <4>2. code'[j - 1].op = "runDeferred"
          BY <4>1 DEF AddsExit
        <4> QED BY <2>5, <4>1, <4>2 DEF Begins
      <3>2. n = Len(defers)
        BY <1>1, <1>2, <2>0, <2>1, <3>1
      <3>3. DefersIn(code', j) = Len(defers)
        BY <1>11, <2>1, <2>5
      <3> QED BY <3>2, <3>3 DEF Reached
    <2>6. BlockSound(j)'
      BY <2>1, <2>4, <2>5 DEF BlockSound
    <2>7. ExitSound(j)'
      BY <1>15, <2>1, <2>2 DEF ExitSound
    <2>8. HasOperands(j)'
      BY <2>2, <2>3 DEF HasOperands
    <2>9. ReleaseSound(j)' /\ BindingSound(j)' /\ DeferSound(j)' /\ IfSound(j)'
      BY <2>2 DEF ReleaseSound, BindingSound, Needs, DeferSound, IfSound, Releasing, Binding
    <2> QED BY <2>6, <2>7, <2>8, <2>9
  \* The return.
  <1>17. /\ HasOperands(m)' /\ ReleaseSound(m)' /\ BlockSound(m)' /\ ExitSound(m)'
         /\ BindingSound(m)' /\ DeferSound(m)' /\ IfSound(m)'
    <2>1. code'[m].op = "ret" /\ m \in (q + 1)..m /\ m \in (b + 1)..(m + 1)
      BY <1>2, <1>6
    <2>2. ASSUME Ordered', Begins(m, {"runDeferred"})' PROVE Reached(m)' = 0
      <3>1. m = q + 1
        <4> SUFFICES ASSUME m # q + 1 PROVE FALSE
          OBVIOUS
        <4>1. m - 1 \in (q + 1)..(m - 1) /\ m # 1
          BY <1>2
        <4>2. code'[m - 1].op = "runDeferred"
          BY <4>1 DEF AddsExit
        <4> QED BY <2>2, <4>1, <4>2 DEF Begins
      <3>2. Len(defers) = 0
        BY <1>1, <1>2, <2>2, <3>1
      <3> QED BY <1>11, <2>1, <2>2, <3>2 DEF Reached
    <2>3. ExitSound(m)'
      BY <1>15, <2>1, <2>2 DEF ExitSound
    <2>4. HasOperands(m)' /\ ReleaseSound(m)' /\ BlockSound(m)' /\ BindingSound(m)'
          /\ DeferSound(m)' /\ IfSound(m)'
      BY <2>1 DEF HasOperands, ReleaseSound, BlockSound, BindingSound, Needs, DeferSound,
                  IfSound, Releasing, Binding
    <2> QED BY <2>3, <2>4
  <1>18. CodeIsSound'
    <2>1. ASSUME NEW j \in (b + 1)..m
          PROVE  /\ HasOperands(j)' /\ ReleaseSound(j)' /\ BlockSound(j)' /\ ExitSound(j)'
                 /\ BindingSound(j)' /\ DeferSound(j)' /\ IfSound(j)'
      BY <1>4, <1>13, <1>14, <1>16, <1>17
    <2>2. \A j \in (b + 1)..m : (Plain' => ~LetAt(j)') /\ (Ordered' => code'[j].op # "defer")
      BY <1>3 DEF LetAt, Binding, Releasing
    <2>3. Len(code) < Len(code') /\ open' = open
      BY <1>2, <1>6
    <2> QED BY <1>5, <1>6, <2>1, <2>2, <2>3, AddSome
  <1> QED BY <1>2, <1>6, <1>8, <1>9, <1>12, <1>18

-----------------------------------------------------------------------------
(* The statements that leave the function.                                 *)

LEMMA Cat ==
  ASSUME NEW S, NEW s \in Seq(S), NEW t \in Seq(S)
  PROVE  /\ s \o t \in Seq(S) /\ Len(s \o t) = Len(s) + Len(t)
         /\ \A i \in 1..Len(s) : (s \o t)[i] = s[i]
         /\ \A i \in 1..Len(t) : (s \o t)[Len(s) + i] = t[i]
  OBVIOUS

\* The code in front of an exit, the four parts of the exit.
Parts(c, e, r, d, x) == (((c \o e) \o r) \o d) \o <<x>>

\* f are the parts, which end at p, at q and at m.
Joined(S, c, e, r, d, x, f, p, q, m) ==
  /\ f = Parts(c, e, r, d, x)
  /\ p = Len(c) + Len(e) /\ q = p + Len(r) /\ m = q + Len(d) + 1
  /\ f \in Seq(S) /\ Len(f) = m /\ f[m] = x
  /\ \A i \in 1..Len(c) : f[i] = c[i]
  /\ \A i \in 1..Len(e) : f[Len(c) + i] = e[i]
  /\ \A i \in 1..Len(r) : f[p + i] = r[i]
  /\ \A i \in 1..Len(d) : f[q + i] = d[i]

LEMMA PartsAre ==
  ASSUME NEW S, NEW c \in Seq(S), NEW e \in Seq(S), NEW r \in Seq(S), NEW d \in Seq(S),
         NEW x \in S
  PROVE  \E f, p, q, m : Joined(S, c, e, r, d, x, f, p, q, m)
  <1>1. PICK c1 : c1 = c \o e
    OBVIOUS
  <1>2. c1 \in Seq(S) /\ Len(c1) = Len(c) + Len(e)
        /\ (\A i \in 1..Len(c) : c1[i] = c[i])
        /\ \A i \in 1..Len(e) : c1[Len(c) + i] = e[i]
    BY <1>1, Cat
  <1>3. PICK p : p = Len(c1)
    OBVIOUS
  <1>4. PICK c2 : c2 = c1 \o r
    OBVIOUS
  <1>5. c2 \in Seq(S) /\ Len(c2) = p + Len(r)
        /\ (\A i \in 1..p : c2[i] = c1[i])
        /\ \A i \in 1..Len(r) : c2[p + i] = r[i]
    <2>1. c1 \in Seq(S)
      BY <1>2
    <2>2. c1 \o r \in Seq(S) /\ Len(c1 \o r) = Len(c1) + Len(r)
          /\ (\A i \in 1..Len(c1) : (c1 \o r)[i] = c1[i])
          /\ \A i \in 1..Len(r) : (c1 \o r)[Len(c1) + i] = r[i]
      BY <2>1, Cat
    <2> QED BY <1>3, <1>4, <2>2
  <1>6. PICK q : q = Len(c2)
    OBVIOUS
  <1>7. PICK c3 : c3 = c2 \o d
    OBVIOUS
  <1>8. c3 \in Seq(S) /\ Len(c3) = q + Len(d)
        /\ (\A i \in 1..q : c3[i] = c2[i])
        /\ \A i \in 1..Len(d) : c3[q + i] = d[i]
    <2>1. c2 \in Seq(S)
      BY <1>5
    <2>2. c2 \o d \in Seq(S) /\ Len(c2 \o d) = Len(c2) + Len(d)
          /\ (\A i \in 1..Len(c2) : (c2 \o d)[i] = c2[i])
          /\ \A i \in 1..Len(d) : (c2 \o d)[Len(c2) + i] = d[i]
      BY <2>1, Cat
    <2> QED BY <1>6, <1>7, <2>2
  <1>9. PICK f : f = Append(c3, x)
    OBVIOUS
  <1>10. PICK m : m = q + Len(d) + 1
    OBVIOUS
  <1>11. Len(c) \in Nat /\ Len(e) \in Nat /\ Len(r) \in Nat /\ Len(d) \in Nat
    OBVIOUS
  <1>12. p = Len(c) + Len(e) /\ q = p + Len(r)
    BY <1>2, <1>3, <1>5, <1>6
  <1>13. p \in Nat /\ q \in Nat /\ m \in Nat /\ m - 1 = q + Len(d)
    BY <1>10, <1>11, <1>12
  <1>14. f \in Seq(S) /\ Len(f) = m /\ f[m] = x
         /\ \A i \in 1..(m - 1) : f[i] = c3[i]
    <2>1. c3 \in Seq(S) /\ Len(c3) = m - 1
      BY <1>8, <1>13
    <2> QED BY <1>9, <1>13, <2>1
  <1>15. f = Parts(c, e, r, d, x)
    <2>1. c3 \in Seq(S)
      BY <1>8
    <2>2. c3 \o <<x>> = Append(c3, x)
      BY <2>1
    <2> QED BY <1>1, <1>4, <1>7, <1>9, <2>2 DEF Parts
  <1>16. \A i \in 1..Len(c) : f[i] = c[i]
    BY <1>2, <1>5, <1>8, <1>11, <1>12, <1>13, <1>14
  <1>17. \A i \in 1..Len(e) : f[Len(c) + i] = e[i]
    <2> SUFFICES ASSUME NEW i \in 1..Len(e) PROVE f[Len(c) + i] = e[i]
      OBVIOUS
    <2>1. PICK j : j = Len(c) + i
      OBVIOUS
    <2>2. j \in 1..p /\ j \in 1..q /\ j \in 1..(m - 1)
      BY <1>11, <1>12, <1>13, <2>1
    <2>3. c1[j] = e[i]
      BY <1>2, <2>1
    <2> QED BY <1>5, <1>8, <1>14, <2>1, <2>2, <2>3
  <1>18. \A i \in 1..Len(r) : f[p + i] = r[i]
    <2> SUFFICES ASSUME NEW i \in 1..Len(r) PROVE f[p + i] = r[i]
      OBVIOUS
    <2>1. PICK j : j = p + i
      OBVIOUS
    <2>2. j \in 1..q /\ j \in 1..(m - 1)
      BY <1>11, <1>12, <1>13, <2>1
    <2>3. c2[j] = r[i]
      BY <1>5, <2>1
    <2> QED BY <1>8, <1>14, <2>1, <2>2, <2>3
  <1>19. \A i \in 1..Len(d) : f[q + i] = d[i]
    <2> SUFFICES ASSUME NEW i \in 1..Len(d) PROVE f[q + i] = d[i]
      OBVIOUS
    <2>1. PICK j : j = q + i
      OBVIOUS
    <2>2. j \in 1..(m - 1)
      BY <1>11, <1>13, <2>1
    <2>3. c3[j] = d[i]
      BY <1>8, <2>1
    <2> QED BY <1>14, <2>1, <2>2, <2>3
  <1>20. q = p + Len(r) /\ p = Len(c) + Len(e)
    BY <1>12
  <1>21. Joined(S, c, e, r, d, x, f, p, q, m)
    BY <1>10, <1>14, <1>15, <1>16, <1>17, <1>18, <1>19, <1>20, Zenon DEF Joined
  <1> QED BY <1>21

LEMMA ReleasesAre ==
  ASSUME TypeOK
  PROVE  /\ Releases \in Seq(Instr) /\ Len(Releases) = Len(cleanups)
         /\ \A i \in 1..Len(cleanups) :
              /\ Releases[i].op = IF decl[cleanups[(Len(cleanups) + 1) - i]] = "var"
                                  THEN "releaseSlot" ELSE "release"
              /\ Releases[i].v = cleanups[(Len(cleanups) + 1) - i]
  <1> DEFINE last == Reverse(cleanups)
             x(i) == I(IF decl[last[i]] = "var" THEN "releaseSlot" ELSE "release", last[i], None)
  <1>1. cleanups \in Seq(Local) /\ Len(cleanups) \in Nat
    BY DEF TypeOK
  <1>2. DOMAIN last = 1..Len(cleanups)
        /\ \A i \in 1..Len(cleanups) : last[i] = cleanups[(Len(cleanups) - i) + 1]
    BY <1>1 DEF Reverse
  <1>3. \A i \in 1..Len(cleanups) : last[i] \in Local /\ last[i] = cleanups[(Len(cleanups) + 1) - i]
    BY <1>1, <1>2
  <1>4. Releases = [i \in 1..Len(cleanups) |-> x(i)]
    BY <1>2 DEF Releases
  <1> HIDE DEF last
  <1>5. ASSUME NEW i \in 1..Len(cleanups)
        PROVE  /\ x(i) \in Instr /\ x(i).v = last[i]
               /\ x(i).op = IF decl[last[i]] = "var" THEN "releaseSlot" ELSE "release"
    BY <1>3 DEF I, Instr
  <1> HIDE DEF x
  <1>6. Releases \in Seq(Instr) /\ Len(Releases) = Len(cleanups)
    BY <1>1, <1>4, <1>5
  <1>7. \A i \in 1..Len(cleanups) : Releases[i] = x(i)
    BY <1>4
  <1> QED BY <1>3, <1>5, <1>6, <1>7

LEMMA DeferredAre ==
  ASSUME TypeOK
  PROVE  /\ Deferred \in Seq(Instr) /\ Len(Deferred) = Len(defers)
         /\ \A i \in 1..Len(defers) :
              /\ Deferred[i].op = "runDeferred"
              /\ Deferred[i].v = defers[(Len(defers) + 1) - i]
  <1> DEFINE last == Reverse(defers)
             x(i) == I("runDeferred", last[i], None)
  <1>1. defers \in Seq(Local \cup {None}) /\ Len(defers) \in Nat
    BY DEF TypeOK
  <1>2. DOMAIN last = 1..Len(defers)
        /\ \A i \in 1..Len(defers) : last[i] = defers[(Len(defers) - i) + 1]
    BY <1>1 DEF Reverse
  <1>3. \A i \in 1..Len(defers) :
          last[i] \in Local \cup {None} /\ last[i] = defers[(Len(defers) + 1) - i]
    BY <1>1, <1>2
  <1>4. Deferred = [i \in 1..Len(defers) |-> x(i)]
    BY <1>2 DEF Deferred
  <1> HIDE DEF last
  <1>5. ASSUME NEW i \in 1..Len(defers)
        PROVE  x(i) \in Instr /\ x(i).v = last[i] /\ x(i).op = "runDeferred"
    BY <1>3 DEF I, Instr
  <1> HIDE DEF x
  <1>6. Deferred \in Seq(Instr) /\ Len(Deferred) = Len(defers)
    BY <1>1, <1>4, <1>5
  <1>7. \A i \in 1..Len(defers) : Deferred[i] = x(i)
    BY <1>4
  <1> QED BY <1>3, <1>5, <1>6, <1>7

\* The four parts of an exit, of which all but the last may be empty.
IsExit(e, r, d, x) ==
  /\ e \in Seq(Instr) /\ r \in Seq(Instr) /\ d \in Seq(Instr) /\ x \in Instr
  /\ e = << >> \/ (Len(e) = 1 /\ Evaluates(e[1], r = << >> /\ d = << >>))
  /\ r = << >> \/ r = Releases
  /\ d = << >> \/ d = Deferred
  /\ x.op = "ret"

LEMMA ExitCode ==
  ASSUME TypeOK, NEW e, NEW r, NEW d, NEW x, IsExit(e, r, d, x),
         code' = Parts(code, e, r, d, x)
  PROVE  \E p, q, m :
           /\ AddsExit(Len(code), p, q, m)
           /\ (r = Releases => q = p + Len(cleanups)) /\ (d = Deferred => m = q + Len(defers) + 1)
  <1>1. PICK f, p, q, m : Joined(Instr, code, e, r, d, x, f, p, q, m)
    BY PartsAre DEF TypeOK, IsExit
  <1>2. PICK b : b = Len(code)
    OBVIOUS
  <1>3. /\ code' \in Seq(Instr) /\ Len(code') = m /\ code'[m] = x
        /\ \A i \in 1..b : code'[i] = code[i]
        /\ \A i \in 1..Len(e) : code'[b + i] = e[i]
        /\ \A i \in 1..Len(r) : code'[p + i] = r[i]
        /\ \A i \in 1..Len(d) : code'[q + i] = d[i]
    BY <1>1, <1>2 DEF Joined
  <1>4. PICK le, lr, ld : le = Len(e) /\ lr = Len(r) /\ ld = Len(d)
    OBVIOUS
  <1>5. /\ p = b + le /\ q = p + lr /\ m = q + ld + 1
        /\ b \in Nat /\ Len(cleanups) \in Nat /\ Len(defers) \in Nat
    BY <1>1, <1>2, <1>4, Lengths DEF Joined
  <1>6. /\ le \in {0, 1} /\ lr \in {0, Len(cleanups)} /\ ld \in {0, Len(defers)}
        /\ (r = Releases => lr = Len(cleanups)) /\ (d = Deferred => ld = Len(defers))
    <2>1. Len(<< >>) = 0
      OBVIOUS
    <2>2. Len(Releases) = Len(cleanups) /\ Len(Deferred) = Len(defers)
      BY ReleasesAre, DeferredAre
    <2> QED BY <1>4, <2>1, <2>2 DEF IsExit
  <1>7. /\ p \in {b, b + 1} /\ p \in Nat /\ q \in Nat /\ m \in Nat /\ p <= q /\ q < m
        /\ q \in {p, p + Len(cleanups)} /\ m \in {q + 1, q + Len(defers) + 1}
        /\ (lr = Len(cleanups) => q = p + Len(cleanups))
        /\ (ld = Len(defers) => m = q + Len(defers) + 1)
    BY <1>5, <1>6
  <1>8. ASSUME p # b PROVE Evaluates(code'[p], m = p + 1)
    <2>1. p = b + 1 /\ le = 1
      BY <1>5, <1>6, <1>8
    <2>2. code'[p] = e[1]
      BY <1>3, <1>4, <2>1
    <2>3. e # << >>
      <3> SUFFICES ASSUME e = << >> PROVE FALSE
        OBVIOUS
      <3>1. Len(e) = 0
        OBVIOUS
      <3> QED BY <1>4, <2>1, <3>1
    <2>4. Evaluates(e[1], r = << >> /\ d = << >>)
      BY <2>3 DEF IsExit
    <2>5. r = << >> /\ d = << >> => m = p + 1
      <3>1. Len(<< >>) = 0
        OBVIOUS
      <3> QED BY <1>4, <1>5, <1>7, <3>1
    <2> QED BY <2>2, <2>4, <2>5 DEF Evaluates
  <1>9. ASSUME NEW j \in (p + 1)..q
         PROVE  /\ code'[j].op = IF decl[cleanups[(q + 1) - j]] = "var" THEN "releaseSlot" ELSE "release"
                /\ code'[j].v = cleanups[(q + 1) - j]
    <2>1. PICK i : i = j - p
      OBVIOUS
    <2>2. i \in 1..lr /\ j = p + i
      BY <1>5, <1>6, <1>7, <2>1
    <2>3. code'[j] = r[i]
      BY <1>3, <1>4, <2>2
    <2>4. r = Releases /\ lr = Len(cleanups)
      <3>1. r = << >> => Len(r) = 0
        OBVIOUS
      <3>2. r = Releases
        BY <1>4, <2>2, <3>1 DEF IsExit
      <3> QED BY <1>6, <3>2
    <2>5. (Len(cleanups) + 1) - i = (q + 1) - j
      <3>1. PICK n : n = Len(cleanups)
        OBVIOUS
      <3>2. n \in Nat /\ p \in Nat /\ i \in Nat /\ j = p + i /\ q = p + n
        BY <1>5, <1>7, <2>2, <2>4, <3>1
      <3> QED BY <3>1, <3>2
    <2>6. /\ Releases[i].op = IF decl[cleanups[(Len(cleanups) + 1) - i]] = "var" THEN "releaseSlot" ELSE "release"
          /\ Releases[i].v = cleanups[(Len(cleanups) + 1) - i]
      BY <1>4, <2>2, <2>4, ReleasesAre
    <2> QED BY <2>3, <2>4, <2>5, <2>6
  <1>10. ASSUME NEW j \in (q + 1)..(m - 1)
         PROVE  code'[j].op = "runDeferred" /\ code'[j].v = defers[m - j]
    <2>1. PICK i : i = j - q
      OBVIOUS
    <2>2. i \in 1..ld /\ j = q + i
      BY <1>5, <1>6, <1>7, <2>1
    <2>3. code'[j] = d[i]
      BY <1>3, <1>4, <2>2
    <2>4. d = Deferred /\ ld = Len(defers)
      <3>1. d = << >> => Len(d) = 0
        OBVIOUS
      <3>2. d = Deferred
        BY <1>4, <2>2, <3>1 DEF IsExit
      <3> QED BY <1>6, <3>2
    <2>5. (Len(defers) + 1) - i = m - j
      <3>1. PICK n : n = Len(defers)
        OBVIOUS
      <3>2. n \in Nat /\ q \in Nat /\ i \in Nat /\ j = q + i /\ m = q + n + 1
        BY <1>5, <1>7, <2>2, <2>4, <3>1
      <3> QED BY <3>1, <3>2
    <2>6. Deferred[i].op = "runDeferred" /\ Deferred[i].v = defers[(Len(defers) + 1) - i]
      BY <1>4, <2>2, <2>4, DeferredAre
    <2> QED BY <2>3, <2>4, <2>5, <2>6
  <1>11. AddsExit(b, p, q, m)
    BY <1>2, <1>3, <1>7, <1>8, <1>9, <1>10 DEF AddsExit, IsExit
  <1> QED BY <1>2, <1>6, <1>7, <1>11

\* `return e`.
LEMMA ReturnStep ==
  ASSUME TypeOK, CheckInv, NEW e \in Local \cup {None}, Return(e)
  PROVE  TypeOK' /\ CheckInv'
  <1> DEFINE x == I("eval", e, None)
             y == I("ret", None, None)
  <1>1. /\ ~ended /\ phase = "check" /\ phase' = "check" /\ stmts' \in 0..MaxStmts
        /\ Idle' /\ UNCHANGED running
    BY StatementFacts DEF Return
  <1>2. /\ ended' = TRUE /\ UNCHANGED <<block, decl, cleanups, defers, open>>
    BY DEF Return
  <1>3. /\ x \in Instr /\ x.op = "eval" /\ x.v = e
        /\ y \in Instr /\ y.op = "ret"
    BY DEF I, Instr
  <1>4. code' = Parts(code, <<x>>, Releases, Deferred, y)
    BY DEF Return, Parts, ReturnReleases
  <1> HIDE DEF x, y
  <1>5. IsExit(<<x>>, Releases, Deferred, y)
    <2>1. e \in Declared \cup {None} /\ (e # None => "returns class" \in forms')
      BY DEF Return, Used
    <2>2. Evaluates(x, Releases = << >> /\ Deferred = << >>)
      BY <1>3, <2>1 DEF Evaluates
    <2> QED BY <1>3, <2>2, ReleasesAre, DeferredAre DEF IsExit
  <1>6. PICK p, q, m : /\ AddsExit(Len(code), p, q, m)
                       /\ q = p + Len(cleanups) /\ m = q + Len(defers) + 1
    BY <1>4, <1>5, ExitCode
  <1>7. forms \subseteq forms' /\ forms' \subseteq Form
    <2>1. forms \subseteq Form /\ Used(e # None, "returns class") \subseteq Form
      BY DEF TypeOK, Form, Used
    <2> QED BY <2>1 DEF Return
  <1>8. /\ CodeIsSound' /\ TablesAgree' /\ LocalsAreBound' /\ DefersAreReached'
        /\ code' \in Seq(Instr) /\ Len(code) < Len(code') /\ Len(code') \in Nat
        /\ code'[Len(code')].op = "ret"
    BY <1>2, <1>6, <1>7, ExitIsSound
  <1>9. TypeOK'
    <2>1. open \in 0..Len(code') /\ pc \in 1..(Len(code') + 1)
      BY <1>8, Lengths DEF TypeOK
    <2> QED BY <1>1, <1>2, <1>7, <1>8, <2>1 DEF TypeOK, running
  <1>10. BlocksAgree'
    <2>1. block = "then" => open \in 1..Len(code') /\ code'[open].op = "if"
      BY <1>6, <1>8, Lengths DEF CheckInv, BlocksAgree, AddsExit
    <2> QED BY <1>1, <1>2, <1>8, <2>1, Lengths DEF CheckInv, BlocksAgree
  <1> QED BY <1>1, <1>8, <1>9, <1>10 DEF CheckInv

\* `return` without an expression.
LEMMA ReturnNothingStep ==
  ASSUME TypeOK, CheckInv, ReturnNothing
  PROVE  TypeOK' /\ CheckInv'
  <1> DEFINE y == I("ret", None, None)
  <1>1. /\ ~ended /\ phase = "check" /\ phase' = "check" /\ stmts' \in 0..MaxStmts
        /\ Idle' /\ UNCHANGED running
    BY StatementFacts DEF ReturnNothing
  <1>2. /\ ended' = TRUE /\ UNCHANGED <<block, decl, cleanups, defers, open>>
    BY DEF ReturnNothing
  <1>3. y \in Instr /\ y.op = "ret"
    BY DEF I, Instr
  <1>4. code' = Parts(code, << >>, << >>, Deferred, y)
    <2>1. code \in Seq(Instr) /\ Deferred \in Seq(Instr)
      BY DeferredAre DEF TypeOK
    <2>2. code \o << >> = code
      BY <2>1
    <2> QED BY <2>2 DEF ReturnNothing, Parts
  <1> HIDE DEF y
  <1>5. IsExit(<< >>, << >>, Deferred, y)
    BY <1>3, DeferredAre DEF IsExit
  <1>6. PICK p, q, m : AddsExit(Len(code), p, q, m) /\ m = q + Len(defers) + 1
    BY <1>4, <1>5, ExitCode
  <1>7. forms \subseteq forms' /\ forms' \subseteq Form /\ ~Tidy'
    BY DEF ReturnNothing, TypeOK, Form, Tidy
  <1>8. /\ CodeIsSound' /\ TablesAgree' /\ LocalsAreBound' /\ DefersAreReached'
        /\ code' \in Seq(Instr) /\ Len(code) < Len(code') /\ Len(code') \in Nat
        /\ code'[Len(code')].op = "ret"
    BY <1>2, <1>6, <1>7, ExitIsSound
  <1>9. TypeOK'
    <2>1. open \in 0..Len(code') /\ pc \in 1..(Len(code') + 1)
      BY <1>8, Lengths DEF TypeOK
    <2> QED BY <1>1, <1>2, <1>7, <1>8, <2>1 DEF TypeOK, running
  <1>10. BlocksAgree'
    <2>1. block = "then" => open \in 1..Len(code') /\ code'[open].op = "if"
      BY <1>6, <1>8, Lengths DEF CheckInv, BlocksAgree, AddsExit
    <2> QED BY <1>1, <1>2, <1>8, <2>1, Lengths DEF CheckInv, BlocksAgree
  <1> QED BY <1>1, <1>8, <1>9, <1>10 DEF CheckInv

\* The end of the body, behind a return or with an exit of its own.
LEMMA EndBodyStep ==
  ASSUME TypeOK, CheckInv, NEW implicit \in BOOLEAN, NEW e \in Local \cup {None},
         EndBody(implicit, e)
  PROVE  TypeOK' /\ CheckInv' /\ Idle' /\ Len(code') > 0
  <1> DEFINE x == I("eval", e, None)
             y == I("ret", None, None)
  <1>1. /\ phase = "check" /\ block = "body" /\ phase' = "run" /\ ended' = TRUE
        /\ UNCHANGED <<stmts, block, decl, cleanups, defers, open, running>>
    BY DEF EndBody
  <1>2. forms' = forms \cup Used(implicit, "implicit return")
                       \cup Used(~ended /\ defers # << >>, "defer, no return")
    BY DEF EndBody
  <1>3. Idle'
    BY <1>1 DEF CheckInv, Idle, running
  <1>4. forms \subseteq forms' /\ forms' \subseteq Form
    <2>1. /\ forms \subseteq Form /\ Used(implicit, "implicit return") \subseteq Form
          /\ Used(~ended /\ defers # << >>, "defer, no return") \subseteq Form
      BY DEF TypeOK, Form, Used
    <2> QED BY <1>2, <2>1
  <1>5. CASE ended
    <2>1. code' = code
      <3>1. code \in Seq(Instr) /\ code' = code \o << >>
        BY <1>5 DEF TypeOK, EndBody
      <3> QED BY <3>1
    <2>2. Len(code') = Len(code) /\ Len(code) \in Nat /\ Len(code) > 0 /\ code[Len(code)].op = "ret"
      BY <1>5, <2>1, Lengths DEF CheckInv, BlocksAgree
    <2>3. TypeOK'
      BY <1>1, <1>4, <2>1 DEF TypeOK, running
    <2>4. Extends
      BY <1>1, <1>4, <2>1, <2>2, Lengths DEF Extends, TypeOK
    <2>5. ASSUME NEW i \in 1..Len(code')
          PROVE  /\ HasOperands(i)'
                 /\ ReleaseSound(i)' /\ BlockSound(i)' /\ ExitSound(i)'
                 /\ BindingSound(i)' /\ DeferSound(i)' /\ IfSound(i)'
      <3>1. i \in 1..Len(code)
        BY <2>2
      <3>2. HasOperands(i)' /\ IfSound(i)'
        <4>1. \A j \in 1..Len(code) : code'[j] = code[j]
          BY <2>1
        <4>2. i # open
          BY <1>1, <2>2 DEF CheckInv, BlocksAgree
        <4> QED BY <1>1, <1>5, <2>4, <3>1, <4>1, <4>2, OldIf
      <3> QED BY <2>4, <3>1, <3>2, OldSound
    <2>6. CodeIsSound'
      BY <2>5 DEF CodeIsSound
    <2>7. TablesAgree' /\ Declared' = Declared
      BY <1>1, <1>4, TablesStay DEF CheckInv
    <2>8. LocalsAreBound'
      BY <2>1, <2>7 DEF CheckInv, LocalsAreBound
    <2>9. DefersAreReached'
      <3>1. Ordered' => Ordered
        BY <1>4 DEF Ordered
      <3> QED BY <1>1, <2>1, <3>1 DEF CheckInv, DefersAreReached, Reached
    <2>10. BlocksAgree'
      BY <1>1, <2>1, <2>2 DEF CheckInv, BlocksAgree
    <2> QED BY <1>1, <1>3, <2>2, <2>3, <2>6, <2>7, <2>8, <2>9, <2>10 DEF CheckInv
  <1>6. CASE ~ended
    <2>1. /\ x \in Instr /\ x.op = "eval" /\ x.v = e
          /\ y \in Instr /\ y.op = "ret"
      BY DEF I, Instr
    <2>2. PICK f, r : /\ f = (IF implicit THEN <<x>> ELSE << >>)
                      /\ r = (IF implicit THEN << >> ELSE Releases)
      OBVIOUS
    <2>3. code' = Parts(code, f, r, << >>, y)
      <3>1. code \in Seq(Instr) /\ Releases \in Seq(Instr)
        BY ReleasesAre DEF TypeOK
      <3>2. code' = code \o ((IF implicit THEN <<x>> ELSE Releases) \o <<y>>)
        <4>1. code' = code \o ((IF implicit THEN <<x>> ELSE << >>)
                                 \o (IF implicit THEN << >> ELSE Releases) \o <<y>>)
          BY <1>6 DEF EndBody, EndReleases
        <4>2. /\ <<x>> \in Seq(Instr) /\ <<y>> \in Seq(Instr)
              /\ <<x>> \o << >> = <<x>> /\ << >> \o Releases = Releases
          BY <2>1, <3>1
        <4> HIDE DEF x, y
        <4> QED BY <4>1, <4>2
      <3> HIDE DEF x, y
      <3>3. CASE implicit
        <4>1. code' = code \o (<<x>> \o <<y>>)
          BY <3>2, <3>3
        <4>2. <<x>> \in Seq(Instr) /\ <<y>> \in Seq(Instr)
          BY <2>1
        <4>3. code \o (<<x>> \o <<y>>) = (((code \o <<x>>) \o << >>) \o << >>) \o <<y>>
          BY <3>1, <4>2
        <4> QED BY <2>2, <3>3, <4>1, <4>3 DEF Parts
      <3>4. CASE ~implicit
        <4>1. code' = code \o (Releases \o <<y>>)
          BY <3>2, <3>4
        <4>2. <<y>> \in Seq(Instr)
          BY <2>1
        <4>3. code \o (Releases \o <<y>>) = (((code \o << >>) \o Releases) \o << >>) \o <<y>>
          BY <3>1, <4>2
        <4> QED BY <2>2, <3>4, <4>1, <4>3 DEF Parts
      <3> QED BY <3>3, <3>4
    <2> HIDE DEF x, y
    <2>4. IsExit(f, r, << >>, y)
      <3>1. implicit => e \in Declared \cup {None}
        BY DEF EndBody
      <3>2. implicit => Evaluates(x, r = << >> /\ << >> = << >>)
        BY <2>1, <2>2, <3>1 DEF Evaluates
      <3> QED BY <2>1, <2>2, <3>2, ReleasesAre DEF IsExit
    <2>5. PICK p, q, m : /\ AddsExit(Len(code), p, q, m)
                         /\ (r = Releases => q = p + Len(cleanups))
                         /\ (<< >> = Deferred => m = q + Len(defers) + 1)
      BY <2>3, <2>4, ExitCode
    <2>6. Tidy' => q = p + Len(cleanups)
      <3>1. Tidy' => ~implicit
        BY <1>2 DEF Tidy, Used
      <3> QED BY <2>2, <2>5, <3>1
    <2>7. ASSUME Ordered' PROVE m = q + Len(defers) + 1
      <3>1. defers = << >>
        BY <1>6, <1>2, <2>7 DEF Ordered, Used
      <3>2. Len(defers) = 0
        BY <3>1
      <3>3. Deferred = << >>
        <4>1. Deferred \in Seq(Instr) /\ Len(Deferred) = 0
          BY <3>2, DeferredAre
        <4> QED BY <4>1
      <3> QED BY <2>5, <3>3
    <2>8. /\ CodeIsSound' /\ TablesAgree' /\ LocalsAreBound' /\ DefersAreReached'
          /\ code' \in Seq(Instr) /\ Len(code) < Len(code') /\ Len(code') \in Nat
          /\ code'[Len(code')].op = "ret"
      BY <1>1, <1>4, <2>5, <2>6, <2>7, ExitIsSound
    <2>9. TypeOK'
      BY <1>1, <1>4, <2>8, Lengths DEF TypeOK, running
    <2>10. BlocksAgree'
      BY <1>1, <2>8, Lengths DEF CheckInv, BlocksAgree
    <2> QED BY <1>1, <1>3, <2>8, <2>9, <2>10, Lengths DEF CheckInv
  <1> QED BY <1>5, <1>6

-----------------------------------------------------------------------------
(* Nothing has happened yet.                                               *)

LEMMA NothingRan ==
  ASSUME Idle', phase' # "returned", phase' = "run" => Len(code') > 0,
         Len(code') \in Nat
  PROVE  RunInv'
  <1>1. /\ pc' = 1 /\ slot' = [v \in Local |-> None] /\ refs' = [v \in Local |-> 0]
        /\ result' = None /\ pending' = << >> /\ released' = << >> /\ wild' = FALSE
    BY DEF Idle
  <1>2. \A ops : Begins(1, ops)'
    BY DEF Begins
  <1>3. \A v \in Local : slot'[v] = None /\ refs'[v] = 0
    BY <1>1
  <1>4. Len(released') = 0 /\ 1..Len(released') = {} /\ DOMAIN released' = {}
    BY <1>1
  <1>5. Begins(pc, {"runDeferred"})' /\ Begins(pc, {"retain"})' /\ Begins(pc, Releasing)'
        /\ Begins(pc, Releasing \cup {"runDeferred"})'
    BY <1>1 DEF Begins
  <1>6. PcIsSound'
    BY <1>1 DEF PcIsSound
  <1>7. ReleasesRun' /\ ReleasedInReverse' /\ ReleasesRunOn'
    BY <1>1, <1>4, <1>5 DEF ReleasesRun, ReleasedInReverse, ReleasesRunOn
  <1>8. SlotsAreBound'
    BY <1>1, <1>3 DEF SlotsAreBound
  <1>9. CountsAreRight'
    <2>1. ASSUME NEW o \in Local
          PROVE  refs'[o] = Cardinality(Owners(o)') + InTransit(o)'
      <3>1. Cardinality(Owners(o)') = 0
        <4>1. Owners(o)' = {}
          BY <1>3, NoneAssumption DEF Owners
        <4> QED BY <4>1, FS_EmptySet
      <3>2. InTransit(o)' = 0
        BY <1>5 DEF InTransit
      <3> QED BY <1>3, <3>1, <3>2
    <2> QED BY <2>1 DEF CountsAreRight
  <1>10. WildIsDeferred' /\ NothingIsBound' /\ TemporariesKeep' /\ ResultIsHeld'
    BY <1>1, <1>3 DEF WildIsDeferred, NothingIsBound, TemporariesKeep, ResultIsHeld
  <1>11. BlocksAreDue'
    <2>1. Reached(pc)' = 0
      BY <1>1, DefersNone DEF Reached
    <2>2. pending' = SubSeq(defers', 1, 0)
      BY <1>1
    <2>3. CASE Len(defers') \in Nat
      <3>1. 0 \in 0..Len(defers')
        BY <2>3
      <3> QED BY <1>5, <2>1, <2>2, <3>1 DEF BlocksAreDue
    <2> QED BY <2>3
  <1> QED BY <1>6, <1>7, <1>8, <1>9, <1>10, <1>11 DEF RunInv

LEMMA CheckSteps ==
  ASSUME IInv, Check
  PROVE  IInv'
  <1> USE DEF IInv
  <1>1. ASSUME TypeOK', CheckInv', phase' = "check"
        PROVE  IInv'
    <2>1. Idle' /\ Len(code') \in Nat
      BY <1>1 DEF CheckInv, TypeOK
    <2> QED BY <1>1, <2>1, NothingRan
  <1>2. ASSUME NEW v \in Local, NEW w \in Local \cup {None}, NEW kind \in {"let", "var"},
               Declare(v, w, kind)
        PROVE  IInv'
    <2>1. phase' = "check"
      BY <1>2 DEF Declare, Statement
    <2>2. CASE w = None
      BY <1>1, <1>2, <2>1, <2>2, DeclareNewStep
    <2>3. CASE w \in Local
      BY <1>1, <1>2, <2>1, <2>3, DeclareCopyStep
    <2> QED BY <2>2, <2>3
  <1>3. ASSUME NEW v \in Local, NEW w \in Local, Assign(v, w) PROVE IInv'
    BY <1>1, <1>3, AssignStep DEF Assign, Statement
  <1>4. ASSUME NEW v \in Local, Discard(v) PROVE IInv'
    BY <1>1, <1>4, DiscardStep DEF Discard, Statement
  <1>5. ASSUME NEW v \in Local, Use(v) PROVE IInv'
    BY <1>1, <1>5, UseStep DEF Use, Statement
  <1>6. ASSUME NEW v \in Local \cup {None}, Defer(v) PROVE IInv'
    BY <1>1, <1>6, DeferStep DEF Defer, Statement
  <1>7. ASSUME NEW v \in Local \cup {None}, Return(v) PROVE IInv'
    BY <1>1, <1>7, ReturnStep DEF Return, Statement
  <1>8. ASSUME BeginIf PROVE IInv'
    BY <1>1, <1>8, BeginIfStep DEF BeginIf, Statement
  <1>9. ASSUME EndIf PROVE IInv'
    BY <1>1, <1>9, EndIfStep DEF EndIf
  <1>10. ASSUME ReturnNothing PROVE IInv'
    BY <1>1, <1>10, ReturnNothingStep DEF ReturnNothing, Statement
  <1>11. ASSUME NEW implicit \in BOOLEAN, NEW e \in Local \cup {None}, EndBody(implicit, e)
         PROVE  IInv'
    <2>1. TypeOK' /\ CheckInv' /\ Idle' /\ Len(code') > 0
      BY <1>11, EndBodyStep
    <2>2. phase' = "run"
      BY <1>11 DEF EndBody
    <2>3. code' \in Seq(Instr)
      BY <2>1 DEF TypeOK
    <2>4. Len(code') \in Nat
      BY <2>3
    <2> QED BY <2>1, <2>2, <2>4, NothingRan
  <1> QED BY <1>2, <1>3, <1>4, <1>5, <1>6, <1>7, <1>8, <1>9, <1>10, <1>11 DEF Check

-----------------------------------------------------------------------------
(* The function runs: the code and the tables stay.                        *)

LEMMA Same ==
  ASSUME UNCHANGED checking
  PROVE  /\ Plain' = Plain /\ Tidy' = Tidy /\ Ordered' = Ordered
         /\ \A j : LetAt(j)' = LetAt(j)
         /\ \A j, ops : Begins(j, ops)' = Begins(j, ops)
         /\ \A j : Reached(j)' = Reached(j)
         /\ \A j, n : ReleasesFrom(j, n)' = ReleasesFrom(j, n)
         /\ \A j, n : BlocksFrom(j, n)' = BlocksFrom(j, n)
         /\ Declared' = Declared
  <1>1. UNCHANGED <<decl, cleanups, defers, code, open, forms>>
    BY DEF checking
  <1>2. Plain' = Plain /\ Tidy' = Tidy /\ Ordered' = Ordered
    BY <1>1 DEF Plain, Tidy, Ordered
  <1>3. \A j : LetAt(j)' = LetAt(j)
    BY <1>1 DEF LetAt
  <1>4. \A j, ops : Begins(j, ops)' = Begins(j, ops)
    BY <1>1 DEF Begins
  <1>5. \A j : Reached(j)' = Reached(j)
    BY <1>1 DEF Reached
  <1>6. \A j, n : ReleasesFrom(j, n)' = ReleasesFrom(j, n)
    BY <1>1 DEF ReleasesFrom
  <1>7. \A j, n : BlocksFrom(j, n)' = BlocksFrom(j, n)
    BY <1>1 DEF BlocksFrom
  <1>8. Declared' = Declared
    BY <1>1 DEF Declared
  <1> QED BY <1>2, <1>3, <1>4, <1>5, <1>6, <1>7, <1>8

LEMMA CodeStays ==
  ASSUME CodeIsSound, UNCHANGED checking
  PROVE  CodeIsSound'
  <1>1. UNCHANGED <<decl, cleanups, defers, code, open, forms, block, ended>>
    BY DEF checking
  <1>2. /\ (Plain' <=> Plain) /\ (Tidy' <=> Tidy) /\ (Ordered' <=> Ordered)
        /\ \A j : LetAt(j)' <=> LetAt(j)
        /\ \A j, ops : Begins(j, ops)' <=> Begins(j, ops)
        /\ \A j : Reached(j)' = Reached(j)
        /\ \A j, n : ReleasesFrom(j, n)' <=> ReleasesFrom(j, n)
        /\ \A j, n : BlocksFrom(j, n)' <=> BlocksFrom(j, n)
    BY Same
  <1>3. ASSUME NEW i \in 1..Len(code)
        PROVE  /\ HasOperands(i)' /\ ReleaseSound(i)' /\ BlockSound(i)' /\ ExitSound(i)'
               /\ BindingSound(i)' /\ DeferSound(i)' /\ IfSound(i)'
    <2>1. /\ HasOperands(i) /\ ReleaseSound(i) /\ BlockSound(i) /\ ExitSound(i)
          /\ BindingSound(i) /\ DeferSound(i) /\ IfSound(i)
      BY DEF CodeIsSound
    <2>2. HasOperands(i)' /\ BindingSound(i)'
      BY <1>1, <2>1 DEF HasOperands, BindingSound, Plain, LetAt
    <2>3. ReleaseSound(i)'
      BY <1>1, <1>2, <2>1 DEF ReleaseSound
    <2>4. BlockSound(i)' /\ DeferSound(i)'
      BY <1>1, <1>2, <2>1 DEF BlockSound, DeferSound
    <2>5. ExitSound(i)'
      BY <1>1, <1>2, <2>1 DEF ExitSound
    <2>6. IfSound(i)'
      BY <1>1, <1>2, <2>1 DEF IfSound
    <2> QED BY <2>2, <2>3, <2>4, <2>5, <2>6
  <1> QED BY <1>1, <1>3 DEF CodeIsSound

LEMMA CheckedStays ==
  ASSUME CheckInv, UNCHANGED checking, phase # "check", phase' # "check"
  PROVE  CheckInv'
  <1>1. UNCHANGED <<block, ended, decl, cleanups, defers, code, open, forms>>
    BY DEF checking
  <1>2. TablesAgree'
    BY <1>1 DEF CheckInv, TablesAgree, Declared
  <1>3. LocalsAreBound'
    BY <1>1 DEF CheckInv, LocalsAreBound, Declared
  <1>4. DefersAreReached'
    BY <1>1 DEF CheckInv, DefersAreReached, Ordered, Reached
  <1>5. BlocksAgree'
    BY <1>1 DEF CheckInv, BlocksAgree
  <1>6. CodeIsSound'
    BY CodeStays DEF CheckInv
  <1> QED BY <1>2, <1>3, <1>4, <1>5, <1>6 DEF CheckInv

\* The instruction that runs.
LEMMA AtPc ==
  ASSUME IInv, phase = "run"
  PROVE  /\ Len(code) \in Nat /\ pc \in 1..Len(code) /\ code[pc] \in Instr
         /\ HasOperands(pc) /\ ReleaseSound(pc) /\ BlockSound(pc) /\ ExitSound(pc)
         /\ BindingSound(pc) /\ DeferSound(pc) /\ IfSound(pc)
         /\ ended /\ block = "body" /\ open = 0
         /\ code[pc].op # "ret" => pc + 1 \in 1..Len(code)
  <1>1. code \in Seq(Instr) /\ Len(code) \in Nat /\ pc \in Nat /\ pc >= 1 /\ pc <= Len(code)
    BY DEF IInv, TypeOK, RunInv, PcIsSound
  <1>2. pc \in 1..Len(code)
    BY <1>1
  <1>3. /\ HasOperands(pc) /\ ReleaseSound(pc) /\ BlockSound(pc) /\ ExitSound(pc)
        /\ BindingSound(pc) /\ DeferSound(pc) /\ IfSound(pc)
    BY <1>2 DEF IInv, CheckInv, CodeIsSound
  <1>4. ended /\ block = "body" /\ open = 0 /\ code[Len(code)].op = "ret"
    BY DEF IInv, CheckInv, BlocksAgree
  <1>5. code[pc] \in Instr
    BY <1>1, <1>2
  <1> QED BY <1>1, <1>2, <1>3, <1>4, <1>5

\* What comes behind a release, a deferred block and a retain.
LEMMA Follows ==
  ASSUME TypeOK, CheckInv, NEW i \in 1..Len(code)
  PROVE  /\ code[i].op \in Releasing =>
              /\ i + 1 \in 1..Len(code)
              /\ code[i + 1].op \in Releasing \cup {"runDeferred", "ret"}
         /\ code[i].op = "runDeferred" =>
              i + 1 \in 1..Len(code) /\ code[i + 1].op \in {"runDeferred", "ret"}
         /\ code[i].op = "retain" =>
              i + 1 \in 1..Len(code) /\ code[i + 1].op = "bind"
  <1>1. Len(code) \in Nat /\ Len(cleanups) \in Nat /\ Len(defers) \in Nat
    BY Lengths
  <1>2. ReleaseSound(i) /\ BlockSound(i) /\ BindingSound(i)
    BY DEF CheckInv, CodeIsSound
  <1>3. ASSUME code[i].op \in Releasing
        PROVE  i + 1 \in 1..Len(code) /\ code[i + 1].op \in Releasing \cup {"runDeferred", "ret"}
    <2>1. PICK n \in 1..Len(cleanups) : ReleasesFrom(i, n)
      BY <1>2, <1>3 DEF ReleaseSound, Releasing
    <2>2. ReleasesFrom(i + 1, n - 1)
      BY <1>1, <2>1, ReleasesNext
    <2>3. i + 1 \in 1..Len(code)
      BY <1>1, <2>1, <2>2 DEF ReleasesFrom
    <2>4. CASE n = 1
      <3>1. (i + 1) + (n - 1) = i + 1
        BY <1>1, <2>4
      <3> QED BY <2>2, <2>3, <3>1 DEF ReleasesFrom
    <2>5. CASE n # 1
      <3>1. n - 1 \in Nat \ {0}
        BY <1>1, <2>5
      <3>2. code[i + 1].op = IF decl[cleanups[n - 1]] = "var" THEN "releaseSlot" ELSE "release"
        BY <2>2, <2>3, <3>1, ReleasesNext
      <3> QED BY <2>3, <3>2 DEF Releasing
    <2> QED BY <2>4, <2>5
  <1>4. ASSUME code[i].op = "runDeferred"
        PROVE  i + 1 \in 1..Len(code) /\ code[i + 1].op \in {"runDeferred", "ret"}
    <2>1. PICK n \in 1..Len(defers) : BlocksFrom(i, n)
      BY <1>2, <1>4 DEF BlockSound
    <2>2. BlocksFrom(i + 1, n - 1)
      BY <1>1, <2>1, BlocksNext
    <2>3. i + 1 \in 1..Len(code)
      BY <1>1, <2>1, <2>2 DEF BlocksFrom
    <2>4. CASE n = 1
      <3>1. (i + 1) + (n - 1) = i + 1
        BY <1>1, <2>4
      <3> QED BY <2>2, <2>3, <3>1 DEF BlocksFrom
    <2>5. CASE n # 1
      <3>1. n - 1 \in Nat \ {0}
        BY <1>1, <2>5
      <3>2. code[i + 1].op = "runDeferred"
        BY <2>2, <2>3, <3>1, BlocksNext
      <3> QED BY <2>3, <3>2
    <2> QED BY <2>4, <2>5
  <1>5. code[i].op = "retain" => i + 1 \in 1..Len(code) /\ code[i + 1].op = "bind"
    BY <1>1, <1>2 DEF BindingSound
  <1> QED BY <1>3, <1>4, <1>5

\* and what does not come in front of other instructions.
LEMMA Before ==
  ASSUME TypeOK, CheckInv, NEW i \in 1..Len(code)
  PROVE  /\ code[i].op \notin Releasing \cup {"runDeferred", "ret"} =>
              /\ Begins(i, Releasing \cup {"runDeferred"})
              /\ Begins(i, {"runDeferred"}) /\ Begins(i, Releasing)
         /\ code[i].op \in Releasing => Begins(i, {"runDeferred"})
         /\ code[i].op # "bind" => Begins(i, {"retain"})
  <1>1. Len(code) \in Nat
    BY Lengths
  <1>2. CASE i = 1
    BY <1>2 DEF Begins
  <1>3. CASE i # 1
    <2>1. i - 1 \in 1..Len(code) /\ (i - 1) + 1 = i
      BY <1>1, <1>3
    <2>2. /\ code[i - 1].op \in Releasing => code[i].op \in Releasing \cup {"runDeferred", "ret"}
          /\ code[i - 1].op = "runDeferred" => code[i].op \in {"runDeferred", "ret"}
          /\ code[i - 1].op = "retain" => code[i].op = "bind"
      BY <2>1, Follows
    <2> QED BY <2>2 DEF Begins, Releasing
  <1> QED BY <1>2, <1>3

-----------------------------------------------------------------------------
(* The bookkeeping of a step that is no part of an exit.                   *)

\* The next instruction is the one behind or, for a branch, its target.
Goes == pc' = pc + 1 \/ (code[pc].op = "if" /\ pc' = code[pc].v)

Ordinary == code[pc].op \notin Releasing \cup {"runDeferred", "ret"}

LEMMA OrdinaryGoes ==
  ASSUME IInv, phase = "run", Ordinary, Goes
  PROVE  /\ pc' \in 1..Len(code) /\ pc' > pc
         /\ Begins(pc', Releasing \cup {"runDeferred"}) /\ Begins(pc', Releasing)
         /\ Begins(pc', {"runDeferred"})
         /\ code[pc].op # "retain" => Begins(pc', {"retain"})
         /\ Plain => \A j \in (pc + 1)..(pc' - 1) : ~LetAt(j)
         /\ Ordered => DefersIn(code, pc') =
                         Reached(pc) + (IF code[pc].op = "defer" THEN 1 ELSE 0)
  <1>1. /\ Len(code) \in Nat /\ pc \in 1..Len(code) /\ IfSound(pc)
        /\ ended /\ block = "body" /\ open = 0
        /\ code[pc].op # "ret" => pc + 1 \in 1..Len(code)
    BY AtPc
  <1>2. PICK t : t = pc'
    OBVIOUS
  <1>3. CASE t = pc + 1
    <2>1. t \in 1..Len(code) /\ t - 1 = pc /\ t > pc
      BY <1>1, <1>3 DEF Ordinary
    <2>2. /\ Begins(t, Releasing \cup {"runDeferred"}) /\ Begins(t, Releasing)
          /\ Begins(t, {"runDeferred"}) /\ (code[pc].op # "retain" => Begins(t, {"retain"}))
      BY <2>1 DEF Begins, Ordinary, Releasing
    <2>3. DefersIn(code, t) = Reached(pc) + (IF code[pc].op = "defer" THEN 1 ELSE 0)
      BY <1>1, <1>3, DefersNext DEF Reached
    <2>4. \A j \in (pc + 1)..(t - 1) : FALSE
      BY <1>1, <2>1
    <2> QED BY <1>2, <2>1, <2>2, <2>3, <2>4
  <1>4. CASE code[pc].op = "if" /\ t = code[pc].v
    <2>1. /\ t \in (pc + 1)..(Len(code) + 1) /\ t <= Len(code)
          /\ Begins(t, Releasing \cup {"runDeferred", "retain"})
          /\ Plain => \A j \in (pc + 1)..Len(code) : LetAt(j) => j >= t
          /\ Ordered => Reached(t) = Reached(pc)
      BY <1>1, <1>4 DEF IfSound
    <2>2. t \in 1..Len(code) /\ t > pc
      BY <1>1, <2>1
    <2>3. /\ Begins(t, Releasing \cup {"runDeferred"}) /\ Begins(t, Releasing)
          /\ Begins(t, {"runDeferred"}) /\ Begins(t, {"retain"})
      BY <2>1 DEF Begins
    <2>4. ASSUME Plain, NEW j \in (pc + 1)..(t - 1) PROVE ~LetAt(j)
      <3>1. j \in (pc + 1)..Len(code) /\ ~(j >= t)
        BY <1>1, <2>2
      <3> QED BY <2>1, <2>4, <3>1
    <2>5. Ordered => DefersIn(code, t) = Reached(pc) + (IF code[pc].op = "defer" THEN 1 ELSE 0)
      <3>1. DefersIn(code, pc) \in Nat
        <4>1. pc \in Nat \ {0}
          BY <1>1
        <4> QED BY <4>1, DefersFinite
      <3> QED BY <1>4, <2>1, <3>1 DEF Reached
    <2> QED BY <1>2, <2>2, <2>3, <2>4, <2>5
  <1> QED BY <1>2, <1>3, <1>4 DEF Goes

LEMMA Prefix ==
  ASSUME NEW S, NEW s \in Seq(S), NEW n \in 0..Len(s)
  PROVE  /\ SubSeq(s, 1, n) \in Seq(S) /\ Len(SubSeq(s, 1, n)) = n
         /\ \A i \in 1..n : SubSeq(s, 1, n)[i] = s[i]
  OBVIOUS

LEMMA PrefixNext ==
  ASSUME NEW S, NEW s \in Seq(S), NEW n \in 0..Len(s), n < Len(s)
  PROVE  /\ n + 1 \in 0..Len(s)
         /\ Append(SubSeq(s, 1, n), s[n + 1]) = SubSeq(s, 1, n + 1)
  <1>1. n + 1 \in 0..Len(s) /\ n + 1 \in 1..Len(s) /\ n \in Nat
    OBVIOUS
  <1>2. PICK a : a = SubSeq(s, 1, n)
    OBVIOUS
  <1>3. PICK b : b = SubSeq(s, 1, n + 1)
    OBVIOUS
  <1>4. a \in Seq(S) /\ Len(a) = n /\ \A i \in 1..n : a[i] = s[i]
    BY <1>2, Prefix
  <1>5. b \in Seq(S) /\ Len(b) = n + 1 /\ \A i \in 1..(n + 1) : b[i] = s[i]
    BY <1>1, <1>3, Prefix
  <1>6. s[n + 1] \in S
    BY <1>1
  <1>7. Append(a, s[n + 1]) = b
    BY <1>1, <1>4, <1>5, <1>6
  <1> QED BY <1>1, <1>2, <1>3, <1>7

LEMMA PrefixLast ==
  ASSUME NEW S, NEW s \in Seq(S), NEW n \in 1..Len(s)
  PROVE  /\ SubSeq(s, 1, n) # << >> /\ Last(SubSeq(s, 1, n)) = s[n]
         /\ Front(SubSeq(s, 1, n)) = SubSeq(s, 1, n - 1)
  <1>1. PICK a : a = SubSeq(s, 1, n)
    OBVIOUS
  <1>2. n \in 0..Len(s) /\ n - 1 \in 0..Len(s) /\ Len(s) \in Nat
    OBVIOUS
  <1>3. a \in Seq(S) /\ Len(a) = n /\ \A i \in 1..n : a[i] = s[i]
    BY <1>1, <1>2, Prefix
  <1>4. a # << >>
    <2> SUFFICES ASSUME a = << >> PROVE FALSE
      OBVIOUS
    <2>1. Len(a) = 0
      OBVIOUS
    <2> QED BY <1>3, <2>1
  <1>5. Last(a) = s[n]
    BY <1>3 DEF Last
  <1>6. PICK b : b = SubSeq(s, 1, n - 1)
    OBVIOUS
  <1>7. b \in Seq(S) /\ Len(b) = n - 1 /\ \A i \in 1..(n - 1) : b[i] = s[i]
    BY <1>2, <1>6, Prefix
  <1>8. PICK c : c = SubSeq(a, 1, n - 1)
    OBVIOUS
  <1>9. c \in Seq(S) /\ Len(c) = n - 1 /\ \A i \in 1..(n - 1) : c[i] = a[i]
    <2>1. a \in Seq(S) /\ n - 1 \in 0..Len(a)
      BY <1>2, <1>3
    <2> QED BY <1>8, <2>1, Prefix
  <1>10. c = b
    <2>1. \A i \in 1..(n - 1) : b[i] = c[i]
      BY <1>2, <1>3, <1>7, <1>9
    <2> QED BY <1>2, <1>7, <1>9, <2>1
  <1>11. Front(a) = c
    BY <1>3, <1>8 DEF Front
  <1> QED BY <1>1, <1>4, <1>5, <1>6, <1>10, <1>11

LEMMA OrdinaryStep ==
  ASSUME IInv, phase = "run", phase' = "run", UNCHANGED checking, UNCHANGED released,
         Ordinary, Goes, Plain => ~wild',
         pending' = IF code[pc].op = "defer" THEN Append(pending, code[pc].v) ELSE pending
  PROVE  /\ CheckInv' /\ PcIsSound' /\ ReleasesRun' /\ ReleasedInReverse' /\ ReleasesRunOn'
         /\ WildIsDeferred' /\ NothingIsBound' /\ BlocksAreDue'
         /\ released = << >> /\ released' = << >>
  <1>1. PICK t : t = pc'
    OBVIOUS
  <1>2. /\ t \in 1..Len(code) /\ t > pc
        /\ Begins(t, Releasing \cup {"runDeferred"}) /\ Begins(t, Releasing)
        /\ Begins(t, {"runDeferred"})
        /\ Ordered => DefersIn(code, t) =
                        Reached(pc) + (IF code[pc].op = "defer" THEN 1 ELSE 0)
    BY <1>1, OrdinaryGoes
  <1>3. CheckInv'
    BY CheckedStays DEF IInv
  <1>4. UNCHANGED <<decl, cleanups, defers, code, open, forms>> /\ (Plain' <=> Plain) /\ (Ordered' <=> Ordered)
    BY Same DEF checking
  <1>5. /\ Begins(pc, Releasing \cup {"runDeferred"})' /\ Begins(pc, Releasing)'
        /\ Begins(pc, {"runDeferred"})'
    BY <1>1, <1>2, <1>4 DEF Begins
  <1>6. /\ Len(code) \in Nat /\ pc \in 1..Len(code) /\ DeferSound(pc)
    BY AtPc
  <1>7. released = << >> /\ released' = << >> /\ Len(released') = 0
    <2>1. Begins(pc, Releasing \cup {"runDeferred"})
      BY <1>6, Before DEF IInv, Ordinary
    <2>2. released = << >>
      BY <2>1 DEF IInv, RunInv, ReleasesRun
    <2> QED BY <2>2
  <1>8. PcIsSound'
    BY <1>1, <1>2, <1>4, <1>6 DEF PcIsSound
  <1>9. ReleasesRun' /\ ReleasedInReverse' /\ ReleasesRunOn'
    BY <1>5, <1>7 DEF ReleasesRun, ReleasedInReverse, ReleasesRunOn
  <1>10. WildIsDeferred' /\ NothingIsBound'
    BY <1>4, <1>5 DEF WildIsDeferred, NothingIsBound
  <1>11. BlocksAreDue'
    <2> SUFFICES ASSUME Ordered
                 PROVE  \E n \in 0..Len(defers) :
                          pending' = SubSeq(defers, 1, n) /\ n = DefersIn(code, t)
      BY <1>1, <1>4, <1>5 DEF BlocksAreDue, Reached
    <2>1. Begins(pc, {"runDeferred"})
      BY <1>6, Before DEF IInv, Ordinary
    <2>2. PICK n \in 0..Len(defers) : pending = SubSeq(defers, 1, n) /\ n = Reached(pc)
      BY <2>1 DEF IInv, RunInv, BlocksAreDue
    <2>3. defers \in Seq(Local \cup {None})
      BY DEF IInv, TypeOK
    <2>4. CASE code[pc].op = "defer"
      <3>1. n < Len(defers) /\ defers[n + 1] = code[pc].v
        BY <1>6, <2>2, <2>4 DEF DeferSound
      <3>2. n + 1 \in 0..Len(defers) /\ Append(SubSeq(defers, 1, n), defers[n + 1]) = SubSeq(defers, 1, n + 1)
        BY <2>3, <3>1, PrefixNext
      <3> QED BY <1>2, <2>2, <2>4, <3>1, <3>2
    <2>5. CASE code[pc].op # "defer"
      BY <1>2, <2>2, <2>5
    <2> QED BY <2>4, <2>5
  <1> QED BY <1>3, <1>7, <1>8, <1>9, <1>10, <1>11

-----------------------------------------------------------------------------
(* What is bound and how often it is counted.                              *)

LEMMA OwnersFinite ==
  ASSUME NEW o
  PROVE  IsFiniteSet(Owners(o)) /\ Cardinality(Owners(o)) \in Nat
  <1>1. IsFiniteSet(Owners(o))
    BY FiniteAssumption, FS_Subset DEF Owners
  <1> QED BY <1>1, FS_CardinalityType

\* What an instruction uses is bound, and alive unless it was released.
LEMMA IsBound ==
  ASSUME IInv, phase = "run", Plain, code[pc].op \in Releasing \cup {"use", "retain"}
  PROVE  /\ code[pc].v \in Local /\ decl[code[pc].v] = "let" /\ slot[code[pc].v] \in Local
         /\ \E j \in 1..(pc - 1) : LetAt(j) /\ code[j].v = code[pc].v
         /\ code[pc].v \notin Given => refs[slot[code[pc].v]] > 0
  <1>1. pc \in 1..Len(code) /\ Len(code) \in Nat /\ HasOperands(pc) /\ BindingSound(pc)
    BY AtPc
  <1>2. code[pc].v \in Local
    BY <1>1 DEF HasOperands, Releasing
  <1>3. PICK j \in 1..(pc - 1) : LetAt(j) /\ code[j].v = code[pc].v
    BY <1>1 DEF BindingSound, Needs, Releasing
  <1>4. slot[code[pc].v] # None /\ decl[code[pc].v] = "let"
    BY <1>3 DEF IInv, RunInv, SlotsAreBound, LetAt
  <1>5. slot[code[pc].v] \in Local
    BY <1>2, <1>4 DEF IInv, TypeOK
  <1>6. ASSUME code[pc].v \notin Given PROVE refs[slot[code[pc].v]] > 0
    <2>1. PICK v, o : v = code[pc].v /\ o = slot[v]
      OBVIOUS
    <2>2. v \in Owners(o) /\ o \in Local
      BY <1>2, <1>5, <1>6, <2>1 DEF Owners
    <2>3. IsFiniteSet(Owners(o)) /\ Cardinality(Owners(o)) \in Nat
      BY OwnersFinite
    <2>4. Cardinality(Owners(o)) # 0
      BY <2>2, <2>3, FS_EmptySet
    <2>5. refs[o] = Cardinality(Owners(o)) + InTransit(o) /\ InTransit(o) \in {0, 1}
      BY <2>2 DEF IInv, RunInv, CountsAreRight, InTransit
    <2> QED BY <2>1, <2>3, <2>4, <2>5
  <1> QED BY <1>2, <1>3, <1>4, <1>5, <1>6

\* What is bound next was not bound, and no local refers to a new object.
LEMMA NotBound ==
  ASSUME IInv, phase = "run", Plain, code[pc].op \in Binding
  PROVE  /\ code[pc].v \in Local /\ slot[code[pc].v] = None
         /\ code[pc].op = "new" => \A u \in Local : slot[u] # code[pc].v
  <1>1. pc \in 1..Len(code) /\ Len(code) \in Nat /\ HasOperands(pc) /\ BindingSound(pc)
    BY AtPc
  <1>2. code[pc].v \in Local
    BY <1>1 DEF HasOperands, Binding
  <1>3. \A j \in 1..(pc - 1) : ~(code[j].op \in Binding /\ code[j].v = code[pc].v)
    <2> SUFFICES ASSUME NEW j \in 1..(pc - 1), code[j].op \in Binding, code[j].v = code[pc].v
                 PROVE  FALSE
      OBVIOUS
    <2>1. j \in 1..Len(code) /\ j # pc
      BY <1>1
    <2> QED BY <1>1, <2>1 DEF BindingSound
  <1>4. \A u \in Local : slot[u] # None =>
          /\ \E j \in 1..(pc - 1) : code[j].op \in Binding /\ code[j].v = u
          /\ \E j \in 1..(pc - 1) : code[j].op = "new" /\ code[j].v = slot[u]
    BY DEF IInv, RunInv, SlotsAreBound
  <1>5. slot[code[pc].v] = None
    BY <1>2, <1>3, <1>4
  <1>6. ASSUME NEW u \in Local, slot[u] = code[pc].v PROVE FALSE
    <2>1. slot[u] # None
      BY <1>2, <1>6, NoneAssumption
    <2>2. PICK j \in 1..(pc - 1) : code[j].op = "new" /\ code[j].v = slot[u]
      BY <1>4, <2>1
    <2> QED BY <1>3, <1>6, <2>2 DEF Binding
  <1> QED BY <1>2, <1>5, <1>6

LEMMA SlotsStay ==
  ASSUME IInv, phase = "run", UNCHANGED checking, UNCHANGED slot, code[pc].op \notin Binding,
         pc' \in 1..Len(code), pc' > pc, Plain => \A j \in (pc + 1)..(pc' - 1) : ~LetAt(j)
  PROVE  SlotsAreBound'
  <1>1. PICK t : t = pc'
    OBVIOUS
  <1>2. t \in 1..Len(code) /\ t > pc /\ (Plain => \A j \in (pc + 1)..(t - 1) : ~LetAt(j))
    BY <1>1
  <1>3. UNCHANGED <<decl, code>> /\ (Plain' => Plain) /\ \A j : LetAt(j)' = LetAt(j)
    BY Same DEF checking
  <1>4. pc \in 1..Len(code) /\ Len(code) \in Nat
    BY AtPc
  <1> SUFFICES ASSUME Plain
               PROVE  /\ \A v \in Local : slot[v] # None =>
                           /\ \E j \in 1..(t - 1) : code[j].op \in Binding /\ code[j].v = v
                           /\ \E j \in 1..(t - 1) : code[j].op = "new" /\ code[j].v = slot[v]
                      /\ \A j \in 1..(t - 1) : LetAt(j) => slot[code[j].v] # None
    BY <1>1, <1>3 DEF SlotsAreBound
  <1>5. /\ \A v \in Local : slot[v] # None =>
             /\ \E j \in 1..(pc - 1) : code[j].op \in Binding /\ code[j].v = v
             /\ \E j \in 1..(pc - 1) : code[j].op = "new" /\ code[j].v = slot[v]
        /\ \A j \in 1..(pc - 1) : LetAt(j) => slot[code[j].v] # None
    BY DEF IInv, RunInv, SlotsAreBound
  <1>6. \A j \in 1..(pc - 1) : j \in 1..(t - 1)
    BY <1>2, <1>4
  <1>7. ASSUME NEW j \in 1..(t - 1), LetAt(j) PROVE slot[code[j].v] # None
    <2>1. j \in 1..(pc - 1) \/ j = pc \/ j \in (pc + 1)..(t - 1)
      BY <1>2, <1>4
    <2>2. ~LetAt(pc)
      BY DEF LetAt
    <2> QED BY <1>2, <1>5, <1>7, <2>1, <2>2
  <1> QED BY <1>5, <1>6, <1>7

LEMMA CountsStay ==
  ASSUME IInv, phase = "run", UNCHANGED checking, UNCHANGED <<slot, refs, released>>,
         Begins(pc, {"retain"}), Begins(pc', {"retain"})
  PROVE  CountsAreRight'
  <1>1. UNCHANGED code /\ (Plain' => Plain)
    BY Same DEF checking
  <1>2. ASSUME NEW o \in Local, Plain PROVE refs'[o] = Cardinality(Owners(o)') + InTransit(o)'
    <2>1. Owners(o)' = Owners(o)
      BY DEF Owners, Given
    <2>2. InTransit(o) = 0 /\ InTransit(o)' = 0
      BY <1>1 DEF InTransit, Begins
    <2>3. refs[o] = Cardinality(Owners(o)) + InTransit(o)
      BY <1>2 DEF IInv, RunInv, CountsAreRight
    <2> QED BY <2>1, <2>2, <2>3
  <1> QED BY <1>1, <1>2 DEF CountsAreRight

\* A step that binds a local, to a new object or to the one just retained.
LEMMA BindStep ==
  ASSUME IInv, phase = "run", UNCHANGED checking, UNCHANGED released, released = << >>,
         code[pc].op \in Binding, pc' = pc + 1, NEW o \in Local,
         slot' = [slot EXCEPT ![code[pc].v] = o],
         Plain => \E j \in 1..pc : code[j].op = "new" /\ code[j].v = o,
         Plain => \A u \in Local : refs'[u] + (IF u = o THEN InTransit(u) ELSE 0) =
                    refs[u] + (IF u = o THEN 1 ELSE 0),
         Plain => \A u \in Local : u # o => InTransit(u) = 0,
         refs' \in [Local -> Nat]
  PROVE  SlotsAreBound' /\ CountsAreRight'
  <1>1. PICK t, v : t = pc' /\ v = code[pc].v
    OBVIOUS
  <1>2. UNCHANGED <<decl, code>> /\ (Plain' <=> Plain) /\ \A j : LetAt(j)' = LetAt(j)
    BY Same DEF checking
  <1>3. pc \in 1..Len(code) /\ Len(code) \in Nat /\ t = pc + 1
    BY <1>1, AtPc
  <1>4. ASSUME Plain
        PROVE  /\ v \in Local /\ slot[v] = None /\ slot'[v] = o
               /\ \A u \in Local : u # v => slot'[u] = slot[u]
    <2>1. v \in Local /\ slot[v] = None
      BY <1>1, <1>4, NotBound
    <2>2. slot \in [Local -> Local \cup {None}]
      BY DEF IInv, TypeOK
    <2> QED BY <1>1, <2>1, <2>2
  <1>5. SlotsAreBound'
    <2> SUFFICES ASSUME Plain
                 PROVE  /\ \A u \in Local : slot'[u] # None =>
                             /\ \E j \in 1..(t - 1) : code[j].op \in Binding /\ code[j].v = u
                             /\ \E j \in 1..(t - 1) : code[j].op = "new" /\ code[j].v = slot'[u]
                        /\ \A j \in 1..(t - 1) : LetAt(j) => slot'[code[j].v] # None
      BY <1>1, <1>2 DEF SlotsAreBound
    <2>1. /\ \A u \in Local : slot[u] # None =>
               /\ \E j \in 1..(pc - 1) : code[j].op \in Binding /\ code[j].v = u
               /\ \E j \in 1..(pc - 1) : code[j].op = "new" /\ code[j].v = slot[u]
          /\ \A j \in 1..(pc - 1) : LetAt(j) => slot[code[j].v] # None
      BY DEF IInv, RunInv, SlotsAreBound
    <2>2. 1..(t - 1) = 1..(pc - 1) \cup {pc}
      BY <1>3
    <2>3. ASSUME NEW u \in Local, slot'[u] # None
          PROVE  /\ \E j \in 1..(t - 1) : code[j].op \in Binding /\ code[j].v = u
                 /\ \E j \in 1..(t - 1) : code[j].op = "new" /\ code[j].v = slot'[u]
      <3>1. CASE u = v
        <4>1. slot'[u] = o /\ 1..(t - 1) = 1..pc
          BY <1>3, <1>4, <3>1
        <4> QED BY <1>1, <2>2, <3>1, <4>1
      <3>2. CASE u # v
        <4>1. slot'[u] = slot[u]
          BY <1>4, <3>2
        <4> QED BY <2>1, <2>2, <2>3, <4>1
      <3> QED BY <3>1, <3>2
    <2>4. ASSUME NEW j \in 1..(t - 1), LetAt(j) PROVE slot'[code[j].v] # None
      <3>1. j \in 1..Len(code)
        BY <1>3
      <3>2. code[j].v \in Local
        BY <2>4, <3>1 DEF IInv, CheckInv, CodeIsSound, HasOperands, LetAt, Binding
      <3>3. CASE code[j].v = v
        BY <1>4, <3>3, NoneAssumption
      <3>4. CASE code[j].v # v
        <4>1. j # pc /\ slot'[code[j].v] = slot[code[j].v]
          BY <1>1, <1>4, <3>2, <3>4
        <4> QED BY <2>1, <2>2, <2>4, <4>1
      <3> QED BY <3>3, <3>4
    <2> QED BY <2>3, <2>4
  <1>6. CountsAreRight'
    <2> SUFFICES ASSUME Plain, NEW u \in Local
                 PROVE  refs'[u] = Cardinality(Owners(u)') + InTransit(u)'
      BY <1>2 DEF CountsAreRight
    <2>1. InTransit(u)' = 0
      <3>1. code[pc].op # "retain" /\ t - 1 = pc
        BY <1>3 DEF Binding
      <3> QED BY <1>1, <1>2, <3>1 DEF InTransit, Begins
    <2>2. refs[u] = Cardinality(Owners(u)) + InTransit(u) /\ InTransit(u) \in {0, 1}
      BY DEF IInv, RunInv, CountsAreRight, InTransit
    <2>3. IsFiniteSet(Owners(u)) /\ Cardinality(Owners(u)) \in Nat
      BY OwnersFinite
    <2>4. Given = {} /\ Given' = {}
      <3>1. 1..Len(released) = {} /\ released' = released
        OBVIOUS
      <3> QED BY <3>1 DEF Given
    <2>5. refs[u] \in Nat /\ refs'[u] \in Nat
      BY DEF IInv, TypeOK
    <2>6. CASE u = o
      <3>1. Owners(u)' = Owners(u) \cup {v} /\ v \notin Owners(u)
        BY <1>4, <2>4, <2>6, NoneAssumption DEF Owners
      <3>2. Cardinality(Owners(u) \cup {v}) = Cardinality(Owners(u)) + 1
        BY <2>3, <3>1, FS_AddElement
      <3>3. refs'[u] + InTransit(u) = refs[u] + 1
        BY <2>6
      <3> QED BY <2>1, <2>2, <2>3, <2>5, <3>1, <3>2, <3>3
    <2>7. CASE u # o
      <3>1. Owners(u)' = Owners(u)
        BY <1>4, <2>4, <2>7, NoneAssumption DEF Owners
      <3>2. InTransit(u) = 0 /\ refs'[u] = refs[u]
        BY <2>5, <2>7
      <3> QED BY <2>1, <2>2, <2>3, <3>1, <3>2
    <2> QED BY <2>6, <2>7
  <1> QED BY <1>5, <1>6

-----------------------------------------------------------------------------
(* The instructions that are no part of an exit.                           *)

LEMMA TypeStays ==
  ASSUME TypeOK, UNCHANGED checking, phase' \in {"run", "returned"},
         pc' \in 1..(Len(code) + 1),
         slot' \in [Local -> Local \cup {None}], refs' \in [Local -> Nat],
         result' \in Local \cup {None}, pending' \in Seq(Local \cup {None}),
         released' \in Seq(Local), wild' \in BOOLEAN
  PROVE  TypeOK'
  <1>1. UNCHANGED <<stmts, block, ended, decl, cleanups, defers, code, open, forms>>
    BY DEF checking
  <1> QED BY <1>1 DEF TypeOK

LEMMA TemporariesStay ==
  ASSUME IInv, UNCHANGED checking, UNCHANGED slot
  PROVE  TemporariesKeep'
  <1>1. UNCHANGED decl /\ (Plain' => Plain)
    BY Same DEF checking
  <1> QED BY <1>1 DEF IInv, RunInv, TemporariesKeep

\* Nothing is handed over before the exit,
LEMMA NoResult ==
  ASSUME IInv, phase = "run", Ordinary
  PROVE  result = None /\ (result' = None => ResultIsHeld')
  BY DEF IInv, RunInv, ResultIsHeld, Ordinary

\* and it stays in a local until the caller has it.
LEMMA ResultStays ==
  ASSUME IInv, phase = "run", UNCHANGED checking, UNCHANGED <<slot, result>>,
         phase' = "run", code[pc].op \in Releasing \cup {"runDeferred"}, pc' = pc + 1
  PROVE  ResultIsHeld'
  <1>1. UNCHANGED <<code, forms>> /\ (Plain' => Plain)
    BY Same DEF checking
  <1>2. pc \in 1..Len(code)
    BY AtPc
  <1>3. code[pc + 1].op \in Releasing \cup {"runDeferred", "ret"}
    BY <1>2, Follows DEF IInv
  <1>4. code[pc].op # "ret"
    BY DEF Releasing
  <1> QED BY <1>1, <1>3, <1>4 DEF IInv, RunInv, ResultIsHeld

LEMMA NewStep ==
  ASSUME IInv, New
  PROVE  IInv'
  <1>1. /\ phase = "run" /\ phase' = "run" /\ code[pc].op = "new" /\ pc' = pc + 1
        /\ ~wild /\ UNCHANGED checking
        /\ UNCHANGED <<result, pending, released, wild>>
    BY DEF New
  <1>2. PICK v : v = code[pc].v
    OBVIOUS
  <1>3. slot' = [slot EXCEPT ![v] = v] /\ refs' = [refs EXCEPT ![v] = 1]
    BY <1>2 DEF New
  <1>4. /\ Len(code) \in Nat /\ pc \in 1..Len(code) /\ HasOperands(pc)
        /\ pc + 1 \in 1..Len(code)
    BY <1>1, AtPc
  <1>5. v \in Local
    BY <1>1, <1>2, <1>4 DEF HasOperands
  <1>6. slot \in [Local -> Local \cup {None}] /\ refs \in [Local -> Nat]
    BY DEF IInv, TypeOK
  <1>7. slot' \in [Local -> Local \cup {None}] /\ refs' \in [Local -> Nat]
    BY <1>3, <1>5, <1>6
  <1>8. TypeOK'
    <2>1. /\ result' \in Local \cup {None} /\ pending' \in Seq(Local \cup {None})
          /\ released' \in Seq(Local) /\ wild' \in BOOLEAN /\ TypeOK
      BY <1>1 DEF IInv, TypeOK
    <2>2. pc' \in 1..(Len(code) + 1)
      BY <1>1, <1>4
    <2> QED BY <1>1, <1>7, <2>1, <2>2, TypeStays
  <1>9. Ordinary /\ Goes
    BY <1>1 DEF Ordinary, Goes, Releasing
  <1>10. /\ CheckInv' /\ PcIsSound' /\ ReleasesRun' /\ ReleasedInReverse' /\ ReleasesRunOn'
         /\ WildIsDeferred' /\ NothingIsBound' /\ BlocksAreDue' /\ released = << >>
    BY <1>1, <1>9, OrdinaryStep
  <1>11. Begins(pc, {"retain"})
    BY <1>1, <1>4, Before DEF IInv
  <1>12. \A u : InTransit(u) = 0
    BY <1>11 DEF InTransit
  <1>13. ASSUME Plain
         PROVE  /\ refs[v] = 0 /\ refs'[v] = 1 /\ \A u \in Local : u # v => refs'[u] = refs[u]
    <2>1. \A u \in Local : slot[u] # v
      BY <1>1, <1>2, <1>13, NotBound DEF Binding
    <2>2. Owners(v) = {}
      BY <2>1 DEF Owners
    <2>3. refs[v] = Cardinality(Owners(v)) + InTransit(v)
      BY <1>5, <1>13 DEF IInv, RunInv, CountsAreRight
    <2>4. refs[v] = 0
      BY <1>12, <2>2, <2>3, FS_EmptySet
    <2> QED BY <1>3, <1>5, <1>6, <2>4
  <1>14. Plain => \A u \in Local : refs'[u] + (IF u = v THEN InTransit(u) ELSE 0) =
                     refs[u] + (IF u = v THEN 1 ELSE 0)
    BY <1>6, <1>7, <1>12, <1>13
  <1>15. Plain => \A u \in Local : u # v => InTransit(u) = 0
    BY <1>12
  <1>16. Plain => \E j \in 1..pc : code[j].op = "new" /\ code[j].v = v
    BY <1>1, <1>2, <1>4
  <1>17. code[pc].op \in Binding /\ slot' = [slot EXCEPT ![code[pc].v] = v]
    BY <1>1, <1>2, <1>3 DEF Binding
  <1>18. SlotsAreBound' /\ CountsAreRight'
    BY <1>1, <1>5, <1>7, <1>10, <1>14, <1>15, <1>16, <1>17, BindStep
  <1>19. TemporariesKeep'
    <2>1. UNCHANGED decl /\ (Plain' => Plain)
      BY <1>1, Same DEF checking
    <2>2. \A u \in Local : slot'[u] = IF u = v THEN v ELSE slot[u]
      BY <1>3, <1>5, <1>6
    <2> QED BY <2>1, <2>2 DEF IInv, RunInv, TemporariesKeep
  <1>20. ResultIsHeld'
    BY <1>1, <1>9, NoResult
  <1> QED BY <1>8, <1>10, <1>18, <1>19, <1>20 DEF IInv, RunInv

LEMMA RetainStep ==
  ASSUME IInv, Retain
  PROVE  IInv'
  <1>1. PICK v, o : v = code[pc].v /\ o = slot[v]
    OBVIOUS
  <1>2. /\ phase = "run" /\ phase' = "run" /\ code[pc].op = "retain" /\ pc' = pc + 1
        /\ wild' = ~Live(o) /\ UNCHANGED checking
        /\ refs' = (IF Live(o) THEN [refs EXCEPT ![o] = @ + 1] ELSE refs)
        /\ UNCHANGED <<slot, result, pending, released>>
    BY <1>1 DEF Retain, Step
  <1>3. /\ Len(code) \in Nat /\ pc \in 1..Len(code) /\ HasOperands(pc)
        /\ pc + 1 \in 1..Len(code)
    BY <1>2, AtPc
  <1>4. v \in Local
    BY <1>1, <1>2, <1>3 DEF HasOperands
  <1>5. slot \in [Local -> Local \cup {None}] /\ refs \in [Local -> Nat]
    BY DEF IInv, TypeOK
  <1>6. refs' \in [Local -> Nat] /\ wild' \in BOOLEAN
    <2>1. CASE Live(o)
      <3>1. o \in Local /\ refs' = [refs EXCEPT ![o] = refs[o] + 1] /\ refs[o] + 1 \in Nat
        BY <1>1, <1>2, <1>4, <1>5, <2>1 DEF Live
      <3> QED BY <1>2, <1>5, <3>1
    <2>2. CASE ~Live(o)
      BY <1>2, <1>5, <2>2
    <2> QED BY <2>1, <2>2
  <1>7. TypeOK'
    <2>1. /\ result' \in Local \cup {None} /\ pending' \in Seq(Local \cup {None})
          /\ released' \in Seq(Local) /\ TypeOK /\ slot' \in [Local -> Local \cup {None}]
      BY <1>2 DEF IInv, TypeOK
    <2>2. pc' \in 1..(Len(code) + 1)
      BY <1>2, <1>3
    <2> QED BY <1>2, <1>6, <2>1, <2>2, TypeStays
  <1>8. Ordinary /\ Goes
    BY <1>2 DEF Ordinary, Goes, Releasing
  <1>9. released = << >> /\ Given = {} /\ Given' = {}
    <2>1. Begins(pc, Releasing \cup {"runDeferred"})
      BY <1>3, <1>8, Before DEF IInv, Ordinary
    <2>2. released = << >>
      BY <2>1 DEF IInv, RunInv, ReleasesRun
    <2>3. 1..Len(released) = {} /\ released' = released
      BY <1>2, <2>2
    <2> QED BY <2>2, <2>3 DEF Given
  <1>10. Plain => Live(o) /\ o \in Local
    <2> SUFFICES ASSUME Plain PROVE o \in Local /\ refs[o] > 0
      BY NoneAssumption DEF Live
    <2>1. slot[code[pc].v] \in Local /\ (code[pc].v \notin Given => refs[slot[code[pc].v]] > 0)
      BY <1>2, IsBound
    <2> QED BY <1>1, <1>9, <2>1
  <1>11. Plain => ~wild'
    BY <1>2, <1>10
  <1>12. /\ CheckInv' /\ PcIsSound' /\ ReleasesRun' /\ ReleasedInReverse' /\ ReleasesRunOn'
         /\ WildIsDeferred' /\ NothingIsBound' /\ BlocksAreDue'
    BY <1>2, <1>8, <1>11, OrdinaryStep
  <1>13. SlotsAreBound'
    <2>1. /\ pc' \in 1..Len(code) /\ pc' > pc
          /\ Plain => \A j \in (pc + 1)..(pc' - 1) : ~LetAt(j)
      BY <1>2, <1>8, OrdinaryGoes
    <2>2. code[pc].op \notin Binding
      BY <1>2 DEF Binding
    <2> QED BY <1>2, <2>1, <2>2, SlotsStay
  <1>14. CountsAreRight'
    <2>1. UNCHANGED code /\ (Plain' <=> Plain)
      BY <1>2, Same DEF checking
    <2> SUFFICES ASSUME Plain, NEW u \in Local
                 PROVE  refs'[u] = Cardinality(Owners(u)') + InTransit(u)'
      BY <2>1 DEF CountsAreRight
    <2>2. Begins(pc, {"retain"})
      BY <1>2, <1>3, Before DEF IInv
    <2>3. InTransit(u) = 0
      BY <2>2 DEF InTransit
    <2>4. InTransit(u)' = IF o = u THEN 1 ELSE 0
      <3>1. (pc + 1) - 1 = pc /\ pc + 1 # 1
        BY <1>3
      <3> QED BY <1>1, <1>2, <2>1, <3>1 DEF InTransit, Begins
    <2>5. Owners(u)' = Owners(u)
      BY <1>2, <1>9 DEF Owners
    <2>6. refs[u] = Cardinality(Owners(u)) + InTransit(u) /\ Cardinality(Owners(u)) \in Nat
      BY OwnersFinite DEF IInv, RunInv, CountsAreRight
    <2>7. refs'[u] = refs[u] + (IF o = u THEN 1 ELSE 0)
      BY <1>2, <1>5, <1>10, <2>6
    <2> QED BY <2>3, <2>4, <2>5, <2>6, <2>7
  <1>15. TemporariesKeep' /\ ResultIsHeld'
    BY <1>2, <1>8, TemporariesStay, NoResult
  <1> QED BY <1>7, <1>12, <1>13, <1>14, <1>15 DEF IInv, RunInv

LEMMA ReadFieldStep ==
  ASSUME IInv, ReadField
  PROVE  IInv'
  <1>1. PICK v, o : v = code[pc].v /\ o = slot[v]
    OBVIOUS
  <1>2. /\ phase = "run" /\ phase' = "run" /\ code[pc].op = "use" /\ pc' = pc + 1
        /\ wild' = ~Live(o) /\ UNCHANGED checking
        /\ UNCHANGED <<slot, refs, result, pending, released>>
    BY <1>1 DEF ReadField, Step
  <1>3. /\ Len(code) \in Nat /\ pc \in 1..Len(code) /\ HasOperands(pc)
        /\ pc + 1 \in 1..Len(code)
    BY <1>2, AtPc
  <1>4. TypeOK'
    <2>1. /\ result' \in Local \cup {None} /\ pending' \in Seq(Local \cup {None})
          /\ TypeOK /\ slot' \in [Local -> Local \cup {None}] /\ refs' \in [Local -> Nat]
          /\ released' \in Seq(Local)
      BY <1>2 DEF IInv, TypeOK
    <2>2. pc' \in 1..(Len(code) + 1) /\ wild' \in BOOLEAN
      BY <1>2, <1>3
    <2> QED BY <1>2, <2>1, <2>2, TypeStays
  <1>5. Ordinary /\ Goes
    BY <1>2 DEF Ordinary, Goes, Releasing
  <1>6. Given = {}
    <2>1. Begins(pc, Releasing \cup {"runDeferred"})
      BY <1>3, <1>5, Before DEF IInv, Ordinary
    <2>2. released = << >>
      BY <2>1 DEF IInv, RunInv, ReleasesRun
    <2>3. 1..Len(released) = {}
      BY <2>2
    <2> QED BY <2>3 DEF Given
  <1>7. Plain => ~wild'
    <2> SUFFICES ASSUME Plain PROVE o \in Local /\ refs[o] > 0
      BY <1>2, NoneAssumption DEF Live
    <2>1. slot[code[pc].v] \in Local /\ (code[pc].v \notin Given => refs[slot[code[pc].v]] > 0)
      BY <1>2, IsBound
    <2> QED BY <1>1, <1>6, <2>1
  <1>8. /\ CheckInv' /\ PcIsSound' /\ ReleasesRun' /\ ReleasedInReverse' /\ ReleasesRunOn'
        /\ WildIsDeferred' /\ NothingIsBound' /\ BlocksAreDue'
    BY <1>2, <1>5, <1>7, OrdinaryStep
  <1>9. /\ pc' \in 1..Len(code) /\ pc' > pc /\ Begins(pc', {"retain"})
        /\ Plain => \A j \in (pc + 1)..(pc' - 1) : ~LetAt(j)
    BY <1>2, <1>5, OrdinaryGoes
  <1>10. SlotsAreBound'
    BY <1>2, <1>9, SlotsStay DEF Binding
  <1>11. CountsAreRight'
    <2>1. Begins(pc, {"retain"})
      BY <1>2, <1>3, Before DEF IInv
    <2> QED BY <1>2, <1>9, <2>1, CountsStay
  <1>12. TemporariesKeep' /\ ResultIsHeld'
    BY <1>2, <1>5, TemporariesStay, NoResult
  <1> QED BY <1>4, <1>8, <1>10, <1>11, <1>12 DEF IInv, RunInv

LEMMA OtherStep ==
  ASSUME IInv, Other
  PROVE  IInv'
  <1>1. PICK v, w : v = code[pc].v /\ w = code[pc].w
    OBVIOUS
  <1>2. /\ phase = "run" /\ phase' = "run" /\ code[pc].op \in {"bind", "defer", "if", "eval"}
        /\ wild' = FALSE /\ UNCHANGED checking /\ UNCHANGED <<refs, released>>
    BY DEF Other
  <1>3. /\ slot' = (IF code[pc].op = "bind" THEN [slot EXCEPT ![v] = slot[w]] ELSE slot)
        /\ pending' = (IF code[pc].op = "defer" THEN Append(pending, code[pc].v) ELSE pending)
        /\ result' = (IF code[pc].op = "eval" /\ v # None THEN slot[v] ELSE result)
    BY <1>1 DEF Other
  <1>4. Ordinary /\ Goes
    BY <1>2 DEF Other, Ordinary, Goes, Releasing
  <1>5. /\ Len(code) \in Nat /\ pc \in 1..Len(code) /\ HasOperands(pc) /\ BindingSound(pc)
    BY <1>2, AtPc
  <1>6. /\ pc' \in 1..Len(code) /\ pc' > pc
        /\ code[pc].op # "retain" => Begins(pc', {"retain"})
        /\ Plain => \A j \in (pc + 1)..(pc' - 1) : ~LetAt(j)
    BY <1>2, <1>4, OrdinaryGoes
  <1>7. /\ slot \in [Local -> Local \cup {None}] /\ refs \in [Local -> Nat]
        /\ result \in Local \cup {None} /\ pending \in Seq(Local \cup {None})
    BY DEF IInv, TypeOK
  <1>8. TypeOK'
    <2>1. slot' \in [Local -> Local \cup {None}]
      <3>1. code[pc].op = "bind" => v \in Local /\ w \in Local
        BY <1>1, <1>5 DEF HasOperands
      <3> QED BY <1>3, <1>7, <3>1
    <2>2. pending' \in Seq(Local \cup {None})
      <3>1. code[pc].op = "defer" => v \in Local \cup {None}
        BY <1>1, <1>5 DEF HasOperands
      <3> QED BY <1>1, <1>3, <1>7, <3>1
    <2>3. result' \in Local \cup {None}
      <3>1. code[pc].op = "eval" => v \in Local \cup {None}
        BY <1>1, <1>5 DEF HasOperands
      <3> QED BY <1>3, <1>7, <3>1
    <2>4. pc' \in 1..(Len(code) + 1)
      BY <1>5, <1>6
    <2>5. released' \in Seq(Local) /\ TypeOK
      BY <1>2 DEF IInv, TypeOK
    <2> QED BY <1>2, <1>7, <2>1, <2>2, <2>3, <2>4, <2>5, TypeStays
  <1>9. /\ CheckInv' /\ PcIsSound' /\ ReleasesRun' /\ ReleasedInReverse' /\ ReleasesRunOn'
        /\ WildIsDeferred' /\ NothingIsBound' /\ BlocksAreDue' /\ released = << >>
    BY <1>2, <1>3, <1>4, OrdinaryStep
  <1>10. CASE code[pc].op = "bind"
    <2>1. UNCHANGED decl /\ (Plain' => Plain)
      BY <1>2, Same DEF checking
    <2>2. TemporariesKeep'
      <3>1. decl[v] # "temporary"
        BY <1>1, <1>5, <1>10 DEF BindingSound
      <3>2. \A u \in Local : u # v => slot'[u] = slot[u]
        BY <1>3, <1>7
      <3> QED BY <2>1, <3>1, <3>2 DEF IInv, RunInv, TemporariesKeep
    <2>3. ResultIsHeld'
      BY <1>2, <1>3, <1>4, <1>10, NoResult
    <2>4. CASE ~Plain
      <3>1. SlotsAreBound' /\ CountsAreRight'
        BY <2>1, <2>4 DEF SlotsAreBound, CountsAreRight
      <3> QED BY <1>8, <1>9, <2>2, <2>3, <3>1 DEF IInv, RunInv
    <2>5. CASE Plain
      <3>1. PICK o : o = slot[w]
        OBVIOUS
      <3>2. pc > 1 /\ code[pc - 1].op = "retain"
        BY <1>5, <1>10, <2>5 DEF BindingSound
      <3>3. pc - 1 \in 1..Len(code) /\ (pc - 1) + 1 = pc
        BY <1>5, <3>2
      <3>4. /\ code[pc].w = code[pc - 1].v
            /\ \E j \in 1..((pc - 1) - 1) : LetAt(j) /\ code[j].v = code[pc - 1].v
        <4>1. BindingSound(pc - 1)
          BY <3>3 DEF IInv, CheckInv, CodeIsSound
        <4> QED BY <2>5, <3>2, <3>3, <4>1 DEF BindingSound, Needs
      <3>5. w \in Local
        BY <1>1, <1>5, <1>10 DEF HasOperands
      <3>6. o \in Local
        <4>1. PICK j \in 1..((pc - 1) - 1) : LetAt(j) /\ code[j].v = w
          BY <1>1, <3>4
        <4>2. j \in 1..(pc - 1)
          BY <1>5, <4>1
        <4>3. slot[w] # None
          BY <2>5, <4>1, <4>2 DEF IInv, RunInv, SlotsAreBound
        <4> QED BY <1>7, <3>1, <3>5, <4>3
      <3>7. \E j \in 1..pc : code[j].op = "new" /\ code[j].v = o
        <4>1. PICK j \in 1..(pc - 1) : code[j].op = "new" /\ code[j].v = slot[w]
          BY <2>5, <3>1, <3>5, <3>6, NoneAssumption DEF IInv, RunInv, SlotsAreBound
        <4>2. j \in 1..pc
          BY <1>5, <4>1
        <4> QED BY <3>1, <4>1, <4>2
      <3>8. \A u \in Local : InTransit(u) = IF u = o THEN 1 ELSE 0
        BY <1>1, <3>1, <3>2, <3>4 DEF InTransit, Begins
      <3>9. \A u \in Local : refs'[u] + (IF u = o THEN InTransit(u) ELSE 0) =
              refs[u] + (IF u = o THEN 1 ELSE 0)
        BY <1>2, <1>7, <3>8
      <3>10. \A u \in Local : u # o => InTransit(u) = 0
        BY <3>8
      <3>11. slot' = [slot EXCEPT ![code[pc].v] = o] /\ pc' = pc + 1
             /\ code[pc].op \in Binding /\ refs' \in [Local -> Nat]
        BY <1>1, <1>2, <1>3, <1>4, <1>7, <1>10, <3>1 DEF Goes, Binding
      <3>12. SlotsAreBound' /\ CountsAreRight'
        BY <1>2, <1>9, <3>6, <3>7, <3>9, <3>10, <3>11, BindStep
      <3> QED BY <1>8, <1>9, <2>2, <2>3, <3>12 DEF IInv, RunInv
    <2> QED BY <2>4, <2>5
  <1>11. CASE code[pc].op # "bind"
    <2>1. slot' = slot /\ code[pc].op \notin Binding /\ code[pc].op # "retain"
      BY <1>2, <1>3, <1>11 DEF Binding
    <2>2. SlotsAreBound'
      BY <1>2, <1>6, <2>1, SlotsStay
    <2>3. Begins(pc, {"retain"})
      BY <1>5, <1>11, Before DEF IInv
    <2>4. CountsAreRight'
      BY <1>2, <1>6, <2>1, <2>3, CountsStay
    <2>5. TemporariesKeep'
      BY <1>2, <2>1, TemporariesStay
    <2>6. ResultIsHeld'
      <3>1. CASE code[pc].op = "eval" /\ v # None
        <4>1. UNCHANGED <<code, forms, decl>> /\ (Plain' => Plain)
          BY <1>2, Same DEF checking
        <4>2. /\ code[pc + 1].op \in Releasing \cup {"runDeferred", "ret"}
              /\ "returns class" \notin forms => code[pc + 1].op = "ret"
          BY <1>1, <1>2, <3>1, AtPc DEF ExitSound
        <4>3. pc' = pc + 1 /\ released' = << >>
          BY <1>2, <1>4, <1>9, <3>1 DEF Goes
        <4>4. v \in Local /\ slot'[v] = result'
          BY <1>1, <1>3, <1>5, <2>1, <3>1 DEF HasOperands
        <4> QED BY <1>2, <4>1, <4>2, <4>3, <4>4 DEF ResultIsHeld
      <3>2. CASE ~(code[pc].op = "eval" /\ v # None)
        BY <1>2, <1>3, <1>4, <3>2, NoResult
      <3> QED BY <3>1, <3>2
    <2> QED BY <1>8, <1>9, <2>2, <2>4, <2>5, <2>6 DEF IInv, RunInv
  <1> QED BY <1>10, <1>11

-----------------------------------------------------------------------------
(* The exit.                                                               *)

\* A release, of which there are n to come with this one.
LEMMA ReleaseFacts ==
  ASSUME IInv, phase = "run", code[pc].op \in Releasing, UNCHANGED checking, pc' = pc + 1,
         phase' = "run"
  PROVE  \E n \in 1..Len(cleanups) :
           /\ code[pc].v = cleanups[n]
           /\ code[pc].op = IF decl[cleanups[n]] = "var" THEN "releaseSlot" ELSE "release"
           /\ code[pc'].op \in Releasing <=> n > 1
           /\ n > 1 => code[pc'].v = cleanups[n - 1]
           /\ pc' \in 1..Len(code)
           /\ Plain /\ Begins(pc, Releasing) =>
                \A j \in 1..(pc - 1) : LetAt(j) => \E m \in 1..n : cleanups[m] = code[j].v
  <1>1. /\ Len(code) \in Nat /\ pc \in 1..Len(code) /\ ReleaseSound(pc)
        /\ pc + 1 \in 1..Len(code)
    BY AtPc DEF Releasing
  <1>2. Len(cleanups) \in Nat
    BY Lengths DEF IInv
  <1>3. PICK n \in 1..Len(cleanups) :
          /\ ReleasesFrom(pc, n)
          /\ Plain /\ Begins(pc, Releasing) =>
               \A j \in 1..(pc - 1) : LetAt(j) => \E m \in 1..n : cleanups[m] = code[j].v
    BY <1>1 DEF ReleaseSound, Releasing
  <1>4. /\ ReleasesFrom(pc + 1, n - 1) /\ code[pc].v = cleanups[n]
        /\ code[pc].op = IF decl[cleanups[n]] = "var" THEN "releaseSlot" ELSE "release"
    BY <1>1, <1>2, <1>3, ReleasesNext
  <1>5. CASE n = 1
    <2>1. (pc + 1) + (n - 1) = pc + 1
      BY <1>1, <1>5
    <2>2. code[pc + 1].op \in {"runDeferred", "ret"}
      BY <1>4, <2>1 DEF ReleasesFrom
    <2> QED BY <1>1, <1>3, <1>4, <1>5, <2>2 DEF Releasing
  <1>6. CASE n > 1
    <2>1. n - 1 \in Nat \ {0} /\ pc + 1 \in Nat
      BY <1>1, <1>2, <1>6
    <2>2. /\ code[pc + 1].op = IF decl[cleanups[n - 1]] = "var" THEN "releaseSlot" ELSE "release"
          /\ code[pc + 1].v = cleanups[n - 1]
      BY <1>4, <2>1, ReleasesNext
    <2> QED BY <1>1, <1>3, <1>4, <1>6, <2>2 DEF Releasing
  <1> QED BY <1>2, <1>5, <1>6

\* What every release does, of a let or of a var.
LEMMA ReleasingStep ==
  ASSUME IInv, phase = "run", code[pc].op \in Releasing, UNCHANGED checking, pc' = pc + 1,
         phase' = "run", UNCHANGED <<slot, pending>>,
         released' = IF code[pc].op = "release" THEN Append(released, code[pc].v) ELSE released
  PROVE  /\ CheckInv' /\ PcIsSound' /\ ReleasesRun' /\ ReleasedInReverse' /\ ReleasesRunOn'
         /\ SlotsAreBound' /\ NothingIsBound' /\ BlocksAreDue'
         /\ (code[pc].op # "release" => ~Plain)
         /\ (Plain => code[pc].v \notin Given)
  <1>1. PICK t, v : t = pc' /\ v = code[pc].v
    OBVIOUS
  <1>2. PICK N \in 1..Len(cleanups) :
           /\ v = cleanups[N]
           /\ code[pc].op = IF decl[cleanups[N]] = "var" THEN "releaseSlot" ELSE "release"
           /\ code[t].op \in Releasing <=> N > 1
           /\ N > 1 => code[t].v = cleanups[N - 1]
           /\ t \in 1..Len(code)
           /\ Plain /\ Begins(pc, Releasing) =>
                \A j \in 1..(pc - 1) : LetAt(j) => \E m \in 1..N : cleanups[m] = code[j].v
    BY <1>1, ReleaseFacts
  <1>3. /\ Len(code) \in Nat /\ pc \in 1..Len(code) /\ Len(cleanups) \in Nat
        /\ Len(released) \in Nat /\ released \in Seq(Local)
    BY AtPc, Lengths DEF IInv, TypeOK
  <1>4. /\ UNCHANGED <<decl, cleanups, defers, code, open, forms>>
        /\ (Plain' <=> Plain) /\ (Tidy' <=> Tidy) /\ (Ordered' <=> Ordered)
        /\ \A j : LetAt(j)' = LetAt(j)
    BY Same DEF checking
  <1>5. t = pc + 1 /\ t - 1 = pc /\ t # 1 /\ t > pc
    BY <1>1, <1>3
  <1>6. /\ ~Begins(pc, Releasing)' /\ ~Begins(pc, Releasing \cup {"runDeferred"})'
        /\ Begins(pc, {"runDeferred"})'
    BY <1>1, <1>4, <1>5 DEF Begins, Releasing
  <1>7. v \in Local /\ cleanups[N] \in Declared
    <2>1. cleanups[N] \in Declared
      BY <1>2 DEF IInv, CheckInv, TablesAgree
    <2> QED BY <1>2, <2>1 DEF Declared
  <1>8. code[pc].op # "release" => ~Plain
    <2> SUFFICES ASSUME code[pc].op # "release" PROVE "var" \in forms
      BY DEF Plain
    <2>1. decl[v] = "var"
      BY <1>2
    <2> QED BY <1>7, <2>1 DEF IInv, CheckInv, TablesAgree
  <1>9. \A i, j \in 1..Len(cleanups) : cleanups[i] = cleanups[j] => i = j
    BY DEF IInv, CheckInv, TablesAgree
  <1>10. /\ Len(released') \in Nat /\ Len(released) <= Len(released')
         /\ Len(released') <= Len(released) + 1
         /\ \A k \in 1..Len(released) : released'[k] = released[k]
         /\ \A k \in 1..Len(released') : k \in 1..Len(released) \/ k = Len(released) + 1
         /\ Len(released) + 1 \in 1..Len(released') => released'[Len(released) + 1] = v
         /\ code[pc].op = "release" => Len(released') = Len(released) + 1
         /\ code[pc].op # "release" => released' = released
    <2>1. CASE code[pc].op = "release"
      <3>1. released' = Append(released, v)
        BY <1>1, <2>1
      <3>2. Len(released') = Len(released) + 1 /\ released'[Len(released) + 1] = v
            /\ \A k \in 1..Len(released) : released'[k] = released[k]
        BY <1>3, <1>7, <3>1
      <3> QED BY <1>3, <2>1, <3>2
    <2>2. CASE code[pc].op # "release"
      BY <1>3, <2>2
    <2> QED BY <2>1, <2>2
  <1>11. CheckInv' /\ PcIsSound'
    <2>1. CheckInv'
      BY CheckedStays DEF IInv
    <2> QED BY <1>1, <1>2, <1>3, <1>4, <2>1 DEF PcIsSound
  \* What was released lies above the local that is released now.
  <1>12. \A k \in 1..Len(released) : \E m \in 1..Len(cleanups) :
           cleanups[m] = released[k] /\ N < m
    <2> SUFFICES ASSUME NEW k \in 1..Len(released)
                 PROVE  \E m \in 1..Len(cleanups) : cleanups[m] = released[k] /\ N < m
      OBVIOUS
    <2>1. PICK m \in 1..Len(cleanups) :
            cleanups[m] = released[k] /\ \E n \in 1..(m - 1) : cleanups[n] = v
      BY <1>1 DEF IInv, RunInv, ReleasesRun
    <2>2. PICK n \in 1..(m - 1) : cleanups[n] = v
      BY <2>1
    <2>3. n \in 1..Len(cleanups) /\ n < m
      BY <1>3
    <2>4. n = N
      BY <1>2, <1>9, <2>2, <2>3
    <2> QED BY <2>1, <2>3, <2>4
  <1>13. v \notin Given
    <2> SUFFICES ASSUME NEW k \in 1..Len(released), released[k] = v PROVE FALSE
      BY DEF Given
    <2>1. PICK m \in 1..Len(cleanups) : cleanups[m] = released[k] /\ N < m
      BY <1>12
    <2>2. m = N
      BY <1>2, <1>9, <2>1
    <2> QED BY <1>3, <2>1, <2>2
  <1>14. ReleasesRun'
    <2>1. Plain => Len(released') # 0
      BY <1>3, <1>8, <1>10
    <2>2. Plain => released' # << >>
      BY <2>1
    <2>3. ASSUME NEW k \in 1..Len(released')
          PROVE  \E m \in 1..Len(cleanups) :
                   /\ cleanups[m] = released'[k]
                   /\ code[t].op \in Releasing => \E n \in 1..(m - 1) : cleanups[n] = code[t].v
      <3>1. PICK m \in 1..Len(cleanups) : cleanups[m] = released'[k] /\ N <= m
        <4>1. CASE k \in 1..Len(released)
          BY <1>3, <1>10, <1>12, <4>1
        <4>2. CASE k = Len(released) + 1
          <5>1. released'[k] = v
            BY <1>10, <2>3, <4>2
          <5> QED BY <1>2, <1>3, <5>1
        <4> QED BY <1>10, <2>3, <4>1, <4>2
      <3>2. ASSUME code[t].op \in Releasing PROVE \E n \in 1..(m - 1) : cleanups[n] = code[t].v
        <4>1. N - 1 \in 1..(m - 1) /\ code[t].v = cleanups[N - 1]
          BY <1>2, <1>3, <3>1, <3>2
        <4> QED BY <4>1
      <3> QED BY <3>1, <3>2
    <2> QED BY <1>1, <1>4, <1>6, <2>2, <2>3 DEF ReleasesRun
  <1>15. ReleasedInReverse'
    <2> SUFFICES ASSUME NEW i \in DOMAIN released', NEW j \in DOMAIN released', i < j
                 PROVE  \E m, n \in DOMAIN cleanups :
                          m > n /\ cleanups[m] = released'[i] /\ cleanups[n] = released'[j]
      BY <1>4 DEF ReleasedInReverse
    <2>1. /\ DOMAIN released' = 1..Len(released') /\ DOMAIN released = 1..Len(released)
          /\ DOMAIN cleanups = 1..Len(cleanups)
      <3>1. released' \in Seq(Local) /\ cleanups \in Seq(Local)
        BY <1>1, <1>3, <1>7 DEF IInv, TypeOK
      <3> QED BY <1>3, <3>1
    <2>2. i \in 1..Len(released) /\ released'[i] = released[i]
      <3>1. /\ i \in 1..Len(released') /\ j \in 1..Len(released')
            /\ Len(released') <= Len(released) + 1 /\ Len(released') \in Nat
        BY <1>10, <2>1
      <3>2. i \in 1..Len(released)
        BY <1>3, <3>1
      <3> QED BY <1>10, <3>2
    <2>3. CASE j \in 1..Len(released)
      <3>1. released'[j] = released[j] /\ j \in DOMAIN released /\ i \in DOMAIN released
        BY <1>10, <2>1, <2>2, <2>3
      <3> QED BY <2>2, <3>1 DEF IInv, RunInv, ReleasedInReverse
    <2>4. CASE j = Len(released) + 1
      <3>1. released'[j] = v
        BY <1>10, <2>1, <2>4
      <3>2. PICK m \in 1..Len(cleanups) : cleanups[m] = released[i] /\ N < m
        BY <1>12, <2>2
      <3> QED BY <1>2, <1>3, <2>1, <2>2, <3>1, <3>2
    <2> QED BY <1>10, <2>1, <2>3, <2>4
  <1>16. ReleasesRunOn'
    <2> SUFFICES ASSUME Plain
                 PROVE  \E m \in 1..Len(cleanups) :
                          /\ Len(released') <= m
                          /\ \A k \in 1..Len(released') : released'[k] = cleanups[(m + 1) - k]
                          /\ \A u \in Local : slot[u] # None /\ decl[u] = "let" =>
                               \E n \in 1..m : cleanups[n] = u
                          /\ IF code[t].op \in Releasing
                             THEN Len(released') < m /\ code[t].v = cleanups[m - Len(released')]
                             ELSE Len(released') = m
      BY <1>1, <1>4 DEF ReleasesRunOn
    <2>1. Len(released') = Len(released) + 1
      BY <1>8, <1>10
    <2>2. CASE released = << >>
      <3>1. Len(released) = 0
        BY <2>2
      <3>2. Begins(pc, Releasing)
        BY <2>2 DEF IInv, RunInv, ReleasesRun
      <3>3. ASSUME NEW u \in Local, slot[u] # None, decl[u] = "let"
            PROVE  \E n \in 1..N : cleanups[n] = u
        <4>1. PICK j \in 1..(pc - 1) : code[j].op \in Binding /\ code[j].v = u
          BY <3>3 DEF IInv, RunInv, SlotsAreBound
        <4>2. LetAt(j)
          BY <3>3, <4>1 DEF LetAt
        <4> QED BY <1>2, <3>2, <4>1, <4>2
      <3>4. \A k \in 1..Len(released') : released'[k] = cleanups[(N + 1) - k]
        BY <1>2, <1>3, <1>10, <2>1, <3>1
      <3>5. IF code[t].op \in Releasing
            THEN Len(released') < N /\ code[t].v = cleanups[N - Len(released')]
            ELSE Len(released') = N
        BY <1>2, <1>3, <2>1, <3>1
      <3> QED BY <1>2, <1>3, <2>1, <3>1, <3>3, <3>4, <3>5
    <2>3. CASE released # << >>
      <3>1. PICK m \in 1..Len(cleanups) :
              /\ Len(released) <= m
              /\ \A k \in 1..Len(released) : released[k] = cleanups[(m + 1) - k]
              /\ \A u \in Local : slot[u] # None /\ decl[u] = "let" =>
                   \E n \in 1..m : cleanups[n] = u
              /\ Len(released) < m /\ v = cleanups[m - Len(released)]
        BY <1>1, <2>3 DEF IInv, RunInv, ReleasesRunOn
      <3>2. m - Len(released) \in 1..Len(cleanups)
        BY <1>3, <3>1
      <3>3. N = m - Len(released)
        BY <1>2, <1>9, <3>1, <3>2
      <3>4. ASSUME NEW k \in 1..Len(released') PROVE released'[k] = cleanups[(m + 1) - k]
        <4>1. CASE k \in 1..Len(released)
          BY <1>10, <3>1, <4>1
        <4>2. CASE k = Len(released) + 1
          <5>1. (m + 1) - k = N
            BY <1>3, <3>3, <4>2
          <5> QED BY <1>2, <1>10, <4>2, <5>1
        <4> QED BY <1>10, <4>1, <4>2
      <3>5. IF code[t].op \in Releasing
            THEN Len(released') < m /\ code[t].v = cleanups[m - Len(released')]
            ELSE Len(released') = m
        <4>1. m - Len(released') = N - 1
          BY <1>3, <2>1, <3>3
        <4> QED BY <1>2, <1>3, <2>1, <3>3, <4>1
      <3>6. Len(released') <= m
        BY <1>3, <2>1, <3>1
      <3> QED BY <3>1, <3>4, <3>5, <3>6
    <2> QED BY <2>2, <2>3
  <1>17. SlotsAreBound'
    <2>1. code[pc].op \notin Binding
      BY DEF Releasing, Binding
    <2>2. \A j \in (pc + 1)..(t - 1) : FALSE
      BY <1>3, <1>5
    <2> QED BY <1>1, <1>2, <1>5, <2>1, <2>2, SlotsStay
  <1>18. NothingIsBound'
    BY <1>6 DEF NothingIsBound
  <1>19. BlocksAreDue'
    <2> SUFFICES ASSUME Ordered
                 PROVE  \E n \in 0..Len(defers) :
                          pending = SubSeq(defers, 1, n) /\ n = DefersIn(code, t)
      BY <1>1, <1>4, <1>6 DEF BlocksAreDue, Reached
    <2>1. Begins(pc, {"runDeferred"})
      BY <1>3, Before DEF IInv
    <2>2. PICK n \in 0..Len(defers) : pending = SubSeq(defers, 1, n) /\ n = Reached(pc)
      BY <2>1 DEF IInv, RunInv, BlocksAreDue
    <2>3. DefersIn(code, t) = Reached(pc)
      <3>1. pc \in Nat \ {0} /\ code[pc].op # "defer"
        BY <1>3 DEF Releasing
      <3>2. DefersIn(code, pc + 1) = DefersIn(code, pc) + 0 /\ DefersIn(code, pc) \in Nat
        BY <3>1, DefersNext, DefersFinite
      <3> QED BY <1>5, <3>2 DEF Reached
    <2> QED BY <2>2, <2>3
  <1> QED BY <1>1, <1>8, <1>11, <1>13, <1>14, <1>15, <1>16, <1>17, <1>18, <1>19

LEMMA ReleaseStep ==
  ASSUME IInv, Release
  PROVE  IInv'
  <1>1. PICK v, o : v = code[pc].v /\ o = slot[v]
    OBVIOUS
  <1>2. /\ phase = "run" /\ phase' = "run" /\ code[pc].op = "release" /\ pc' = pc + 1
        /\ wild' = ~Live(o) /\ UNCHANGED checking
        /\ refs' = (IF Live(o) THEN [refs EXCEPT ![o] = @ - 1] ELSE refs)
        /\ released' = Append(released, v)
        /\ UNCHANGED <<slot, result, pending>>
    BY <1>1 DEF Release, Step
  <1>3. /\ Len(code) \in Nat /\ pc \in 1..Len(code) /\ HasOperands(pc)
        /\ pc + 1 \in 1..Len(code)
    BY <1>2, AtPc
  <1>4. v \in Local
    BY <1>1, <1>2, <1>3 DEF HasOperands
  <1>5. slot \in [Local -> Local \cup {None}] /\ refs \in [Local -> Nat]
        /\ released \in Seq(Local) /\ Len(released) \in Nat
    BY DEF IInv, TypeOK
  <1>6. refs' \in [Local -> Nat] /\ wild' \in BOOLEAN
    <2>1. CASE Live(o)
      <3>1. o \in Local /\ refs' = [refs EXCEPT ![o] = refs[o] - 1] /\ refs[o] - 1 \in Nat
        BY <1>1, <1>2, <1>4, <1>5, <2>1 DEF Live
      <3> QED BY <1>2, <1>5, <3>1
    <2>2. CASE ~Live(o)
      BY <1>2, <1>5, <2>2
    <2> QED BY <2>1, <2>2
  <1>7. TypeOK'
    <2>1. /\ result' \in Local \cup {None} /\ pending' \in Seq(Local \cup {None})
          /\ TypeOK /\ slot' \in [Local -> Local \cup {None}]
      BY <1>2 DEF IInv, TypeOK
    <2>2. pc' \in 1..(Len(code) + 1) /\ released' \in Seq(Local)
      BY <1>2, <1>3, <1>4, <1>5
    <2> QED BY <1>2, <1>6, <2>1, <2>2, TypeStays
  <1>8. /\ CheckInv' /\ PcIsSound' /\ ReleasesRun' /\ ReleasedInReverse' /\ ReleasesRunOn'
        /\ SlotsAreBound' /\ NothingIsBound' /\ BlocksAreDue'
        /\ (Plain => v \notin Given)
    <2>1. code[pc].op \in Releasing
      BY <1>2 DEF Releasing
    <2>2. released' = IF code[pc].op = "release" THEN Append(released, code[pc].v) ELSE released
      BY <1>1, <1>2
    <2> QED BY <1>1, <1>2, <2>1, <2>2, ReleasingStep
  <1>9. UNCHANGED code /\ (Plain' <=> Plain)
    BY <1>2, Same DEF checking
  <1>10. Plain => Live(o) /\ o \in Local
    <2> SUFFICES ASSUME Plain PROVE o \in Local /\ refs[o] > 0
      BY NoneAssumption DEF Live
    <2>1. slot[code[pc].v] \in Local /\ (code[pc].v \notin Given => refs[slot[code[pc].v]] > 0)
      BY <1>2, IsBound DEF Releasing
    <2> QED BY <1>1, <1>8, <2>1
  <1>11. WildIsDeferred'
    BY <1>2, <1>9, <1>10 DEF WildIsDeferred
  <1>12. CountsAreRight'
    <2> SUFFICES ASSUME Plain, NEW u \in Local
                 PROVE  refs'[u] = Cardinality(Owners(u)') + InTransit(u)'
      BY <1>9 DEF CountsAreRight
    <2>1. Begins(pc, {"retain"})
      BY <1>2, <1>3, Before DEF IInv
    <2>2. InTransit(u) = 0
      BY <2>1 DEF InTransit
    <2>3. InTransit(u)' = 0
      <3>1. (pc + 1) - 1 = pc
        BY <1>3
      <3> QED BY <1>2, <1>9, <3>1 DEF InTransit, Begins
    <2>4. /\ refs[u] = Cardinality(Owners(u)) + InTransit(u)
          /\ IsFiniteSet(Owners(u)) /\ Cardinality(Owners(u)) \in Nat
      BY OwnersFinite DEF IInv, RunInv, CountsAreRight
    <2>5. Given' = Given \cup {v}
      <3>1. /\ Len(released') = Len(released) + 1 /\ released'[Len(released) + 1] = v
            /\ \A k \in 1..Len(released) : released'[k] = released[k]
        BY <1>2, <1>4, <1>5
      <3>2. 1..Len(released') = 1..Len(released) \cup {Len(released) + 1}
        BY <1>5, <3>1
      <3> QED BY <3>1, <3>2 DEF Given
    <2>6. CASE u = o
      <3>1. Owners(u)' = Owners(u) \ {v} /\ v \in Owners(u)
        BY <1>1, <1>2, <1>4, <1>8, <2>5, <2>6 DEF Owners
      <3>2. Cardinality(Owners(u) \ {v}) = Cardinality(Owners(u)) - 1
        BY <2>4, <3>1, FS_RemoveElement
      <3>3. refs'[u] = refs[u] - 1
        BY <1>2, <1>5, <1>10, <2>6
      <3> QED BY <2>2, <2>3, <2>4, <3>1, <3>2, <3>3
    <2>7. CASE u # o
      <3>1. Owners(u)' = Owners(u)
        BY <1>1, <1>2, <2>5, <2>7 DEF Owners
      <3>2. refs'[u] = refs[u]
        BY <1>2, <1>5, <1>10, <2>7
      <3> QED BY <2>2, <2>3, <2>4, <3>1, <3>2
    <2> QED BY <2>6, <2>7
  <1>13. TemporariesKeep' /\ ResultIsHeld'
    BY <1>2, TemporariesStay, ResultStays DEF Releasing
  <1> QED BY <1>7, <1>8, <1>11, <1>12, <1>13 DEF IInv, RunInv

LEMMA ReleaseSlotStep ==
  ASSUME IInv, ReleaseSlot
  PROVE  IInv'
  <1>1. /\ phase = "run" /\ phase' = "run" /\ code[pc].op = "releaseSlot" /\ pc' = pc + 1
        /\ UNCHANGED checking /\ UNCHANGED <<slot, refs, result, pending, released>>
        /\ wild' \in BOOLEAN
    BY DEF ReleaseSlot, Step
  <1>2. /\ Len(code) \in Nat /\ pc \in 1..Len(code) /\ pc + 1 \in 1..Len(code)
    BY <1>1, AtPc
  <1>3. TypeOK'
    <2>1. /\ result' \in Local \cup {None} /\ pending' \in Seq(Local \cup {None})
          /\ TypeOK /\ slot' \in [Local -> Local \cup {None}] /\ refs' \in [Local -> Nat]
          /\ released' \in Seq(Local)
      BY <1>1 DEF IInv, TypeOK
    <2>2. pc' \in 1..(Len(code) + 1)
      BY <1>1, <1>2
    <2> QED BY <1>1, <2>1, <2>2, TypeStays
  <1>4. /\ CheckInv' /\ PcIsSound' /\ ReleasesRun' /\ ReleasedInReverse' /\ ReleasesRunOn'
        /\ SlotsAreBound' /\ NothingIsBound' /\ BlocksAreDue' /\ ~Plain
    <2>1. code[pc].op \in Releasing /\ code[pc].op # "release"
      BY <1>1 DEF Releasing
    <2>2. released' = IF code[pc].op = "release" THEN Append(released, code[pc].v) ELSE released
      BY <1>1
    <2> QED BY <1>1, <2>1, <2>2, ReleasingStep
  <1>5. ~Plain'
    BY <1>1, <1>4, Same
  <1>6. WildIsDeferred' /\ CountsAreRight'
    BY <1>5 DEF WildIsDeferred, CountsAreRight
  <1>7. TemporariesKeep' /\ ResultIsHeld'
    BY <1>1, TemporariesStay, ResultStays DEF Releasing
  <1> QED BY <1>3, <1>4, <1>6, <1>7 DEF IInv, RunInv

LEMMA RunDeferredStep ==
  ASSUME IInv, RunDeferred
  PROVE  IInv'
  <1>1. PICK v : v = code[pc].v
    OBVIOUS
  <1>2. /\ phase = "run" /\ phase' = "run" /\ code[pc].op = "runDeferred" /\ pc' = pc + 1
        /\ wild' = (v # None /\ ~Live(slot[v]))
        /\ pending' = (IF pending # << >> /\ Last(pending) = v
                       THEN Front(pending) ELSE Append(pending, v))
        /\ UNCHANGED checking /\ UNCHANGED <<slot, refs, result, released>>
    BY <1>1 DEF RunDeferred
  <1>3. /\ Len(code) \in Nat /\ pc \in 1..Len(code) /\ HasOperands(pc) /\ BlockSound(pc)
        /\ ExitSound(pc) /\ pc + 1 \in 1..Len(code)
    BY <1>2, AtPc
  <1>4. PICK t : t = pc' /\ t = pc + 1
    BY <1>2
  <1>5. t \in 1..Len(code) /\ t - 1 = pc /\ t # 1 /\ t > pc
    BY <1>3, <1>4
  <1>6. code[t].op \in {"runDeferred", "ret"}
    BY <1>2, <1>3, <1>4, Follows DEF IInv
  <1>7. /\ UNCHANGED <<decl, cleanups, defers, code, open, forms>>
        /\ (Plain' <=> Plain) /\ (Tidy' <=> Tidy) /\ (Ordered' <=> Ordered)
    BY <1>2, Same DEF checking
  <1>8. /\ ~Begins(pc, {"runDeferred"})' /\ ~Begins(pc, Releasing \cup {"runDeferred"})'
        /\ Begins(pc, Releasing)' /\ Begins(t, {"retain"})
    BY <1>2, <1>4, <1>5, <1>7 DEF Begins, Releasing
  <1>9. PICK N \in 1..Len(defers) :
          BlocksFrom(pc, N) /\ (Ordered /\ Begins(pc, {"runDeferred"}) => N = Reached(pc))
    BY <1>2, <1>3 DEF BlockSound
  <1>10. Len(defers) \in Nat /\ defers \in Seq(Local \cup {None}) /\ pending \in Seq(Local \cup {None})
         /\ pc \in Nat
    BY <1>3, Lengths DEF IInv, TypeOK
  <1>11. v \in Local \cup {None}
    BY <1>1, <1>2, <1>3 DEF HasOperands
  <1>12. TypeOK'
    <2>1. /\ result' \in Local \cup {None} /\ TypeOK /\ released' \in Seq(Local)
          /\ slot' \in [Local -> Local \cup {None}] /\ refs' \in [Local -> Nat]
      BY <1>2 DEF IInv, TypeOK
    <2>2. pc' \in 1..(Len(code) + 1) /\ wild' \in BOOLEAN
      BY <1>2, <1>3
    <2>3. pending' \in Seq(Local \cup {None})
      <3>1. pending # << >> => Front(pending) \in Seq(Local \cup {None})
        <4> SUFFICES ASSUME pending # << >> PROVE SubSeq(pending, 1, Len(pending) - 1) \in Seq(Local \cup {None})
          BY DEF Front
        <4>1. Len(pending) - 1 \in 0..Len(pending)
          <5>1. Len(pending) \in Nat /\ Len(pending) # 0
            BY <1>10
          <5> QED BY <5>1
        <4> QED BY <1>10, <4>1, Prefix
      <3>2. Append(pending, v) \in Seq(Local \cup {None})
        BY <1>10, <1>11
      <3> QED BY <1>2, <3>1, <3>2
    <2> QED BY <1>2, <2>1, <2>2, <2>3, TypeStays
  <1>13. CheckInv' /\ PcIsSound'
    <2>1. CheckInv'
      BY <1>2, CheckedStays DEF IInv
    <2> QED BY <1>2, <1>4, <1>5, <1>7, <2>1 DEF PcIsSound
  <1>14. ReleasesRun' /\ ReleasedInReverse'
    <2>1. code[t].op \notin Releasing
      BY <1>6 DEF Releasing
    <2>2. ReleasesRun'
      BY <1>2, <1>4, <1>7, <1>8, <2>1 DEF IInv, RunInv, ReleasesRun
    <2> QED BY <1>2, <1>7, <2>2 DEF IInv, RunInv, ReleasedInReverse
  <1>15. ReleasesRunOn'
    <2>1. code[t].op \notin Releasing /\ code[pc].op \notin Releasing
      BY <1>2, <1>6 DEF Releasing
    <2> SUFFICES ASSUME Plain, released # << >>
                 PROVE  \E m \in 1..Len(cleanups) :
                          /\ Len(released) <= m
                          /\ \A k \in 1..Len(released) : released[k] = cleanups[(m + 1) - k]
                          /\ \A u \in Local : slot[u] # None /\ decl[u] = "let" =>
                               \E n \in 1..m : cleanups[n] = u
                          /\ Len(released) = m
      BY <1>2, <1>4, <1>7, <2>1 DEF ReleasesRunOn
    <2> QED BY <2>1 DEF IInv, RunInv, ReleasesRunOn
  <1>16. SlotsAreBound'
    <2>1. code[pc].op \notin Binding /\ \A j \in (pc + 1)..(t - 1) : FALSE
      BY <1>2, <1>3, <1>5 DEF Binding
    <2> QED BY <1>2, <1>4, <1>5, <2>1, SlotsStay
  <1>17. CountsAreRight'
    <2>1. Begins(pc, {"retain"})
      BY <1>2, <1>3, Before DEF IInv
    <2>2. Begins(pc', {"retain"})
      BY <1>4, <1>8
    <2> QED BY <1>2, <2>1, <2>2, CountsStay
  <1>18. WildIsDeferred'
    <2> SUFFICES ASSUME wild' PROVE "defer uses class" \in forms
      BY <1>7 DEF WildIsDeferred
    <2>1. v # None
      BY <1>2
    <2>2. v = defers[N]
      BY <1>1, <1>9, <1>10, BlocksNext
    <2> QED BY <2>1, <2>2 DEF IInv, CheckInv, TablesAgree
  <1>19. NothingIsBound'
    <2> SUFFICES ASSUME Tidy, released = << >>, NEW u \in Local, decl[u] = "let"
                 PROVE  slot[u] = None
      BY <1>2, <1>7 DEF NothingIsBound
    <2>1. CASE ~Begins(pc, {"runDeferred"})
      BY <2>1 DEF IInv, RunInv, NothingIsBound
    <2>2. CASE Begins(pc, {"runDeferred"})
      <3>1. Plain
        BY DEF Tidy
      <3>2. Begins(pc, Releasing)
        BY <3>1 DEF IInv, RunInv, ReleasesRun
      <3>3. Begins(pc, Releasing \cup {"runDeferred"})
        BY <2>2, <3>2 DEF Begins
      <3>4. \A j \in 1..(pc - 1) : ~LetAt(j)
        BY <1>2, <1>3, <3>3 DEF ExitSound
      <3>5. ASSUME slot[u] # None PROVE FALSE
        <4>1. PICK j \in 1..(pc - 1) : code[j].op \in Binding /\ code[j].v = u
          BY <3>1, <3>5 DEF IInv, RunInv, SlotsAreBound
        <4> QED BY <3>4, <4>1 DEF LetAt
      <3> QED BY <3>5
    <2> QED BY <2>1, <2>2
  <1>20. BlocksAreDue'
    <2> SUFFICES ASSUME Ordered
                 PROVE  \E n \in 0..Len(defers) : pending' = SubSeq(defers, 1, n) /\ BlocksFrom(t, n)'
      BY <1>4, <1>7, <1>8 DEF BlocksAreDue
    <2>1. PICK n \in 0..Len(defers) : pending = SubSeq(defers, 1, n) /\ BlocksFrom(pc, n)
      <3>1. PICK n \in 0..Len(defers) :
              /\ pending = SubSeq(defers, 1, n)
              /\ IF Begins(pc, {"runDeferred"}) THEN n = Reached(pc) ELSE BlocksFrom(pc, n)
        BY DEF IInv, RunInv, BlocksAreDue
      <3> QED BY <1>9, <3>1
    <2>2. n # 0
      <3> SUFFICES ASSUME n = 0 PROVE FALSE
        OBVIOUS
      <3>1. code[pc + 0].op = "ret" /\ pc + 0 = pc
        BY <1>10, <2>1 DEF BlocksFrom
      <3> QED BY <1>2, <3>1
    <2>3. n \in Nat \ {0} /\ n \in 1..Len(defers) /\ n - 1 \in 0..Len(defers)
      BY <1>10, <2>2
    <2>4. BlocksFrom(t, n - 1) /\ v = defers[n]
      BY <1>1, <1>4, <1>10, <2>1, <2>3, BlocksNext
    <2>5. /\ pending # << >> /\ Last(pending) = v /\ Front(pending) = SubSeq(defers, 1, n - 1)
      BY <1>10, <2>1, <2>3, <2>4, PrefixLast
    <2>6. BlocksFrom(t, n - 1)'
      BY <1>7, <2>4 DEF BlocksFrom
    <2> QED BY <1>2, <2>3, <2>5, <2>6
  <1>21. TemporariesKeep' /\ ResultIsHeld'
    BY <1>2, TemporariesStay, ResultStays
  <1> QED BY <1>12, <1>13, <1>14, <1>15, <1>16, <1>17, <1>18, <1>19, <1>20, <1>21
          DEF IInv, RunInv

LEMMA RetStep ==
  ASSUME IInv, Ret
  PROVE  IInv'
  <1>1. /\ phase = "run" /\ phase' = "returned" /\ code[pc].op = "ret"
        /\ UNCHANGED checking /\ UNCHANGED running
    BY DEF Ret
  <1>2. UNCHANGED <<pc, slot, refs, result, pending, released, wild>>
    BY <1>1 DEF running
  <1>3. TypeOK'
    BY <1>1, <1>2, TypeStays DEF IInv, TypeOK
  <1>4. CheckInv'
    BY <1>1, CheckedStays DEF IInv
  <1>5. /\ UNCHANGED <<decl, cleanups, defers, code, open, forms>>
        /\ (Plain' <=> Plain) /\ (Tidy' <=> Tidy) /\ (Ordered' <=> Ordered)
    BY <1>1, Same DEF checking
  <1>6. PcIsSound'
    BY <1>1, <1>2, <1>5 DEF IInv, RunInv, PcIsSound
  <1>7. ReleasesRun' /\ ReleasedInReverse'
    <2>1. ReleasesRun'
      BY <1>1, <1>2, <1>5 DEF IInv, RunInv, ReleasesRun, Begins
    <2> QED BY <1>2, <1>5, <2>1 DEF IInv, RunInv, ReleasedInReverse
  <1>8. ReleasesRunOn'
    BY <1>2, <1>5 DEF IInv, RunInv, ReleasesRunOn
  <1>9. SlotsAreBound' /\ WildIsDeferred'
    BY <1>2, <1>5 DEF IInv, RunInv, SlotsAreBound, LetAt, WildIsDeferred
  <1>10. CountsAreRight'
    BY <1>2, <1>5 DEF IInv, RunInv, CountsAreRight, Owners, Given, InTransit, Begins
  <1>11. NothingIsBound'
    BY <1>2, <1>5 DEF IInv, RunInv, NothingIsBound, Begins
  <1>12. BlocksAreDue'
    BY <1>2, <1>5 DEF IInv, RunInv, BlocksAreDue, Begins, Reached, BlocksFrom
  <1>13. TemporariesKeep'
    BY <1>1, <1>2, TemporariesStay
  <1>14. ResultIsHeld'
    BY <1>1, <1>2, <1>5 DEF IInv, RunInv, ResultIsHeld
  <1> QED BY <1>3, <1>4, <1>6, <1>7, <1>8, <1>9, <1>10, <1>11, <1>12, <1>13, <1>14
          DEF IInv, RunInv

-----------------------------------------------------------------------------
(* The invariant.                                                          *)

LEMMA InitInv ==
  ASSUME Init
  PROVE  IInv
  <1>1. /\ phase = "check" /\ stmts = 0 /\ block = "body" /\ ended = FALSE
        /\ decl = [v \in Local |-> "not"] /\ cleanups = << >> /\ defers = << >>
        /\ code = << >> /\ open = 0 /\ forms = {}
    BY DEF Init
  <1>2. /\ pc = 1 /\ slot = [v \in Local |-> None] /\ refs = [v \in Local |-> 0]
        /\ result = None /\ pending = << >> /\ released = << >> /\ wild = FALSE
    BY DEF Init
  <1>3. /\ Len(code) = 0 /\ Len(cleanups) = 0 /\ Len(defers) = 0 /\ Len(released) = 0
        /\ \A v \in Local : slot[v] = None /\ refs[v] = 0 /\ decl[v] = "not"
    BY <1>1, <1>2
  <1>4. /\ code \in Seq(Instr) /\ cleanups \in Seq(Local) /\ released \in Seq(Local)
        /\ defers \in Seq(Local \cup {None}) /\ pending \in Seq(Local \cup {None})
    BY <1>1, <1>2
  <1>5. TypeOK
    <2>1. stmts \in 0..MaxStmts /\ open \in 0..Len(code) /\ pc \in 1..(Len(code) + 1)
      BY <1>1, <1>2, <1>3, FiniteAssumption
    <2> QED BY <1>1, <1>2, <1>4, <2>1 DEF TypeOK
  <1>6. CheckInv
    <2>1. Declared = {}
      BY <1>3 DEF Declared
    <2>2. TablesAgree
      BY <1>3, <2>1 DEF TablesAgree
    <2>3. LocalsAreBound /\ CodeIsSound
      BY <1>3, <2>1 DEF LocalsAreBound, CodeIsSound
    <2>4. DefersAreReached
      <3>1. Len(code) + 1 = 1
        BY <1>3
      <3> QED BY <1>3, <3>1, DefersNone DEF DefersAreReached, Reached
    <2>5. BlocksAgree /\ Idle
      BY <1>1, <1>2 DEF BlocksAgree, Idle
    <2> QED BY <2>2, <2>3, <2>4, <2>5 DEF CheckInv
  <1>7. /\ Begins(pc, {"runDeferred"}) /\ Begins(pc, {"retain"}) /\ Begins(pc, Releasing)
        /\ Begins(pc, Releasing \cup {"runDeferred"})
    BY <1>2 DEF Begins
  <1>8. PcIsSound /\ ReleasesRun /\ ReleasedInReverse /\ ReleasesRunOn
    <2>1. 1..Len(released) = {} /\ DOMAIN released = {}
      BY <1>2, <1>3
    <2> QED BY <1>1, <1>2, <1>7, <2>1
            DEF PcIsSound, ReleasesRun, ReleasedInReverse, ReleasesRunOn
  <1>9. SlotsAreBound /\ WildIsDeferred /\ NothingIsBound
    <2>1. \A j \in 1..(pc - 1) : FALSE
      BY <1>2
    <2>2. SlotsAreBound
      BY <1>3, <2>1 DEF SlotsAreBound
    <2>3. WildIsDeferred /\ NothingIsBound
      BY <1>2, <1>3 DEF WildIsDeferred, NothingIsBound
    <2> QED BY <2>2, <2>3
  <1>10. CountsAreRight
    <2>1. ASSUME NEW o \in Local
          PROVE  refs[o] = Cardinality(Owners(o)) + InTransit(o)
      <3>1. Owners(o) = {}
        BY <1>3, NoneAssumption DEF Owners
      <3>2. Cardinality(Owners(o)) = 0
        BY <3>1, FS_EmptySet
      <3>3. InTransit(o) = 0
        BY <1>7 DEF InTransit
      <3> QED BY <1>3, <3>2, <3>3
    <2> QED BY <2>1 DEF CountsAreRight
  <1>11. BlocksAreDue
    <2>1. Reached(pc) = 0
      BY <1>2, DefersNone DEF Reached
    <2>2. pending = SubSeq(defers, 1, 0) /\ 0 \in 0..Len(defers)
      BY <1>1, <1>2, <1>3
    <2> QED BY <1>7, <2>1, <2>2 DEF BlocksAreDue
  <1>12. TemporariesKeep /\ ResultIsHeld
    BY <1>2, <1>3 DEF TemporariesKeep, ResultIsHeld
  <1> QED BY <1>5, <1>6, <1>8, <1>9, <1>10, <1>11, <1>12 DEF IInv, RunInv

LEMMA Stuttering ==
  ASSUME IInv, UNCHANGED vars
  PROVE  IInv'
  <1>1. phase' = phase /\ UNCHANGED checking /\ UNCHANGED running
    BY DEF vars
  <1>2. UNCHANGED <<stmts, block, ended, decl, cleanups, defers, code, open, forms>>
    BY <1>1 DEF checking
  <1>3. UNCHANGED <<pc, slot, refs, result, pending, released, wild>>
    BY <1>1 DEF running
  <1>4. TypeOK'
    BY <1>1, <1>2, <1>3 DEF IInv, TypeOK
  <1>5. (Plain' <=> Plain) /\ (Tidy' <=> Tidy) /\ (Ordered' <=> Ordered)
    BY <1>1, Same
  <1>6. RunInv'
    <2>1. PcIsSound' /\ ReleasesRun'
      BY <1>1, <1>2, <1>3, <1>5 DEF IInv, RunInv, PcIsSound, ReleasesRun, Begins
    <2>2. ReleasedInReverse' /\ ReleasesRunOn'
      BY <1>2, <1>3, <1>5 DEF IInv, RunInv, ReleasedInReverse, ReleasesRunOn
    <2>3. SlotsAreBound' /\ WildIsDeferred'
      BY <1>2, <1>3, <1>5 DEF IInv, RunInv, SlotsAreBound, LetAt, WildIsDeferred
    <2>4. CountsAreRight'
      BY <1>2, <1>3, <1>5 DEF IInv, RunInv, CountsAreRight, Owners, Given, InTransit, Begins
    <2>5. NothingIsBound'
      BY <1>2, <1>3, <1>5 DEF IInv, RunInv, NothingIsBound, Begins
    <2>6. BlocksAreDue'
      BY <1>2, <1>3, <1>5 DEF IInv, RunInv, BlocksAreDue, Begins, Reached, BlocksFrom
    <2>7. TemporariesKeep'
      BY <1>1, <1>3, TemporariesStay
    <2>8. ResultIsHeld'
      BY <1>1, <1>2, <1>3, <1>5 DEF IInv, RunInv, ResultIsHeld
    <2> QED BY <2>1, <2>2, <2>3, <2>4, <2>5, <2>6, <2>7, <2>8 DEF RunInv
  <1>7. CASE phase = "check"
    <2>1. Idle'
      BY <1>3, <1>7 DEF IInv, CheckInv, Idle
    <2>2. TablesAgree' /\ LocalsAreBound' /\ DefersAreReached' /\ BlocksAgree'
      <3>1. TablesAgree'
        BY <1>2 DEF IInv, CheckInv, TablesAgree, Declared
      <3>2. LocalsAreBound'
        BY <1>2 DEF IInv, CheckInv, LocalsAreBound, Declared
      <3>3. DefersAreReached'
        BY <1>2, <1>5 DEF IInv, CheckInv, DefersAreReached, Reached
      <3>4. BlocksAgree'
        BY <1>1, <1>2 DEF IInv, CheckInv, BlocksAgree
      <3> QED BY <3>1, <3>2, <3>3, <3>4
    <2>3. CodeIsSound'
      BY <1>1, CodeStays DEF IInv, CheckInv
    <2> QED BY <1>4, <1>6, <2>1, <2>2, <2>3 DEF IInv, CheckInv
  <1>8. CASE phase # "check"
    <2>1. CheckInv'
      BY <1>1, <1>8, CheckedStays DEF IInv
    <2> QED BY <1>4, <1>6, <2>1 DEF IInv
  <1> QED BY <1>7, <1>8

LEMMA Inductive ==
  ASSUME IInv, [Next]_vars
  PROVE  IInv'
  <1>1. CASE Check
    BY <1>1, CheckSteps
  <1>2. CASE New
    BY <1>2, NewStep
  <1>3. CASE Retain
    BY <1>3, RetainStep
  <1>4. CASE Release
    BY <1>4, ReleaseStep
  <1>5. CASE ReleaseSlot
    BY <1>5, ReleaseSlotStep
  <1>6. CASE ReadField
    BY <1>6, ReadFieldStep
  <1>7. CASE RunDeferred
    BY <1>7, RunDeferredStep
  <1>8. CASE Other
    BY <1>8, OtherStep
  <1>9. CASE Ret
    BY <1>9, RetStep
  <1>10. CASE UNCHANGED vars
    BY <1>10, Stuttering
  <1> QED BY <1>1, <1>2, <1>3, <1>4, <1>5, <1>6, <1>7, <1>8, <1>9, <1>10 DEF Next, Run

-----------------------------------------------------------------------------
(* What the invariant says of the function when it returns.                *)

LEMMA AtRet ==
  ASSUME IInv, phase = "returned"
  PROVE  /\ Len(code) \in Nat /\ pc \in 1..Len(code) /\ code[pc].op = "ret"
         /\ ExitSound(pc) /\ Begins(pc, {"retain"})
  <1>1. Len(code) \in Nat /\ pc \in 1..Len(code) /\ code[pc].op = "ret"
    <2>1. Len(code) \in Nat
      BY Lengths DEF IInv
    <2> QED BY <2>1 DEF IInv, TypeOK, RunInv, PcIsSound
  <1>2. ExitSound(pc)
    BY <1>1 DEF IInv, CheckInv, CodeIsSound
  <1>3. Begins(pc, {"retain"})
    BY <1>1, Before DEF IInv
  <1> QED BY <1>1, <1>2, <1>3

\* Whatever a local refers to, the local was released, if any local was, or if
\* no exit is without releases.
LEMMA AllReleased ==
  ASSUME IInv, phase = "returned", Plain, released # << >> \/ Tidy,
         NEW v \in Local, slot[v] # None, decl[v] # "temporary"
  PROVE  v \in Given
  <1>1. /\ Len(code) \in Nat /\ pc \in 1..Len(code) /\ code[pc].op = "ret" /\ ExitSound(pc)
    BY AtRet
  <1>2. PICK j \in 1..(pc - 1) : code[j].op \in Binding /\ code[j].v = v
    BY DEF IInv, RunInv, SlotsAreBound
  <1>3. decl[v] = "let"
    <2>1. j \in 1..Len(code)
      BY <1>1
    <2>2. BindingSound(j)
      BY <2>1 DEF IInv, CheckInv, CodeIsSound
    <2>3. decl[v] # "not"
      BY <1>2, <2>2 DEF BindingSound
    <2>4. decl[v] # "var"
      BY DEF IInv, CheckInv, TablesAgree, Plain
    <2>5. decl[v] \in {"not", "let", "var", "temporary"}
      BY DEF IInv, TypeOK
    <2> QED BY <2>3, <2>4, <2>5
  <1>4. CASE released # << >>
    <2>1. PICK m \in 1..Len(cleanups) :
            /\ \A k \in 1..Len(released) : released[k] = cleanups[(m + 1) - k]
            /\ \E n \in 1..m : cleanups[n] = v
            /\ Len(released) = m
      <3>1. code[pc].op \notin Releasing
        BY <1>1 DEF Releasing
      <3> QED BY <1>3, <1>4, <3>1 DEF IInv, RunInv, ReleasesRunOn
    <2>2. PICK n \in 1..m : cleanups[n] = v
      BY <2>1
    <2>3. PICK k : k = (m + 1) - n
      OBVIOUS
    <2>4. Len(cleanups) \in Nat
      BY Lengths DEF IInv
    <2>5. k \in 1..Len(released) /\ (m + 1) - k = n
      BY <2>1, <2>3, <2>4
    <2>6. released[k] = v
      BY <2>1, <2>2, <2>5
    <2> QED BY <2>5, <2>6 DEF Given
  <1>5. CASE released = << >>
    <2>1. Tidy
      BY <1>5
    <2>2. Begins(pc, Releasing)
      BY <1>5 DEF IInv, RunInv, ReleasesRun
    <2>3. Begins(pc, {"runDeferred"})
      BY <1>3, <1>5, <2>1 DEF IInv, RunInv, NothingIsBound
    <2>4. Begins(pc, Releasing \cup {"runDeferred"})
      BY <2>2, <2>3 DEF Begins
    <2>5. ~LetAt(j)
      BY <1>1, <1>2, <2>1, <2>4 DEF ExitSound
    <2> QED BY <1>2, <1>3, <2>5 DEF LetAt
  <1> QED BY <1>4, <1>5

LEMMA LeaksNothing ==
  ASSUME IInv
  PROVE  NothingLeaks
  <1> SUFFICES ASSUME phase = "returned", Plain, released # << >> \/ Tidy,
                      NEW o \in Local, decl[o] # "temporary"
               PROVE  refs[o] = 0
    <2>1. ~Plain => forms \cap {"var", "conditional"} # {}
      BY DEF Plain
    <2>2. Plain /\ ~Tidy => forms \cap {"returns nothing", "implicit return"} # {}
      BY DEF Tidy
    <2> QED BY <2>1, <2>2 DEF NothingLeaks
  <1>1. Owners(o) = {}
    <2> SUFFICES ASSUME NEW v \in Local, v \notin Given, slot[v] = o
                 PROVE  FALSE
      BY DEF Owners
    <2>1. slot[v] # None
      BY NoneAssumption
    <2>2. decl[v] # "temporary"
      BY <2>1 DEF IInv, RunInv, TemporariesKeep
    <2> QED BY <2>1, <2>2, AllReleased
  <1>2. Cardinality(Owners(o)) = 0
    BY <1>1, FS_EmptySet
  <1>3. InTransit(o) = 0
    BY AtRet DEF InTransit
  <1>4. refs[o] = Cardinality(Owners(o)) + InTransit(o)
    BY DEF IInv, RunInv, CountsAreRight
  <1> QED BY <1>2, <1>3, <1>4

\* What the caller gets is alive, because a local that was not released still
\* refers to it.
LEMMA ResultLives ==
  ASSUME IInv
  PROVE  ResultIsAlive
  <1> SUFFICES ASSUME phase = "returned", result # None, Plain,
                      ~(released # << >> /\ "returns class" \in forms)
               PROVE  refs[result] > 0
    BY DEF ResultIsAlive, Plain
  <1>1. released = << >>
    BY DEF IInv, RunInv, ResultIsHeld
  <1>2. PICK v \in Local : slot[v] = result
    BY DEF IInv, RunInv, ResultIsHeld
  <1>3. Given = {}
    <2>1. 1..Len(released) = {}
      BY <1>1
    <2> QED BY <2>1 DEF Given
  <1>4. v \in Owners(result)
    BY <1>2, <1>3 DEF Owners
  <1>5. IsFiniteSet(Owners(result)) /\ Cardinality(Owners(result)) \in Nat
    BY OwnersFinite
  <1>6. Cardinality(Owners(result)) # 0
    BY <1>4, <1>5, FS_EmptySet
  <1>7. InTransit(result) = 0
    BY AtRet DEF InTransit
  <1>8. result \in Local
    BY DEF IInv, TypeOK
  <1>9. refs[result] = Cardinality(Owners(result)) + InTransit(result)
    BY <1>8 DEF IInv, RunInv, CountsAreRight
  <1> QED BY ONLY <1>5, <1>6, <1>7, <1>9

LEMMA BlocksHaveRun ==
  ASSUME IInv
  PROVE  DefersHaveRun
  <1> SUFFICES ASSUME phase = "returned", Ordered
               PROVE  pending = << >>
    <2>1. ~Ordered => forms \cap {"conditional", "defer, no return"} # {}
      BY DEF Ordered
    <2> QED BY <2>1 DEF DefersHaveRun
  <1>1. /\ Len(code) \in Nat /\ pc \in 1..Len(code) /\ code[pc].op = "ret" /\ ExitSound(pc)
    BY AtRet
  <1>2. Len(defers) \in Nat /\ defers \in Seq(Local \cup {None})
    BY Lengths DEF IInv, TypeOK
  <1>3. PICK n \in 0..Len(defers) :
          /\ pending = SubSeq(defers, 1, n)
          /\ IF Begins(pc, {"runDeferred"}) THEN n = Reached(pc) ELSE BlocksFrom(pc, n)
    BY DEF IInv, RunInv, BlocksAreDue
  <1>4. n = 0
    <2>1. CASE Begins(pc, {"runDeferred"})
      BY <1>1, <1>3, <2>1 DEF ExitSound
    <2>2. CASE ~Begins(pc, {"runDeferred"})
      <3>1. ASSUME n # 0 PROVE FALSE
        <4>1. n \in Nat \ {0} /\ pc \in Nat /\ BlocksFrom(pc, n)
          BY <1>1, <1>2, <1>3, <2>2, <3>1
        <4>2. code[pc].op = "runDeferred"
          BY <4>1, BlocksNext
        <4> QED BY <1>1, <4>2
      <3> QED BY <3>1
    <2> QED BY <2>1, <2>2
  <1>5. Len(pending) = 0 /\ pending \in Seq(Local \cup {None})
    BY <1>2, <1>3, <1>4, Prefix
  <1> QED BY <1>5

LEMMA Implied ==
  ASSUME IInv
  PROVE  TypeOK /\ SafeAccess /\ CleanupIsComplete
  <1>1. TypeOK
    BY DEF IInv
  <1>2. SafeAccess
    BY DEF IInv, RunInv, WildIsDeferred, Plain, SafeAccess
  <1>3. CleanupIsComplete
    BY <1>1, LeaksNothing, ResultLives, BlocksHaveRun DEF CleanupIsComplete, IInv, RunInv
  <1> QED BY <1>1, <1>2, <1>3

-----------------------------------------------------------------------------
\* The tables that the checker keeps, the code that it emits and the state of
\* the function that runs it have their types: every instruction has an
\* operand of the kind its operation takes, the program counter stays in the
\* code, and no count goes below zero.
THEOREM TypeCorrect == Spec => []TypeOK
  <1>1. Init => IInv
    BY InitInv
  <1>2. IInv /\ [Next]_vars => IInv'
    BY Inductive
  <1>3. IInv => TypeOK
    BY Implied
  <1> QED BY <1>1, <1>2, <1>3, PTL DEF Spec

\* For any body, however long and over any locals, that declares no class-typed
\* var, declares and defers nothing in a branch and has no deferred block that
\* uses a local, the function touches no object that is not alive, whichever
\* way it leaves.
THEOREM AccessCorrect == Spec => []SafeAccess
  <1>1. Init => IInv
    BY InitInv
  <1>2. IInv /\ [Next]_vars => IInv'
    BY Inductive
  <1>3. IInv => SafeAccess
    BY Implied
  <1> QED BY <1>1, <1>2, <1>3, PTL DEF Spec

\* For any body, when the function returns every object but the one it hands
\* over has been released by each of its copies, the locals in the reverse
\* order of their declarations, the one it hands over is alive, and every
\* deferred block that was reached has run, with the exceptions that the
\* properties name: the exits that release nothing, and a `return v`, which
\* releases v.
THEOREM CleanupCorrect == Spec => []CleanupIsComplete
  <1>1. Init => IInv
    BY InitInv
  <1>2. IInv /\ [Next]_vars => IInv'
    BY Inductive
  <1>3. IInv => CleanupIsComplete
    BY Implied
  <1> QED BY <1>1, <1>2, <1>3, PTL DEF Spec
=============================================================================
