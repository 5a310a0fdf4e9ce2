------------------------------ MODULE Lowering ------------------------------
(***************************************************************************)
(* What the SIL of straight code does once it is lowered                   *)
(* (src/toolchain/lower/lower.cpp) and runs with the runtime               *)
(* (src/runtime/tinyswift_runtime.c).                                      *)
(*                                                                         *)
(* A value has a width, that of its LLVM type: i1, i64, f64, ptr or agg.   *)
(* Memory is a sequence of objects, each of a family: stack storage, an    *)
(* array, a string, a dynamic array, a dictionary, a set, an instance.  A  *)
(* pointer is an object and the path to a part of it.  Doubles are counted *)
(* in halves.                                                              *)
(*                                                                         *)
(* m.bad gathers what no program should do: an instruction that lost an    *)
(* operand, a call with arguments of other widths than the function has, a *)
(* store that does not fit, a runtime function that is handed an object of *)
(* another family, an access LLVM gives no meaning.                        *)
(***************************************************************************)
EXTENDS SilGen

CONSTANT Width  \* of Int, in bits

Val(w, n) == [w |-> w, n |-> n, parts |-> <<>>]
NoVal == Val("none", 0)
Agg(parts) == [w |-> "agg", n |-> 0, parts |-> parts]
Ptr(object, path) ==
  [w |-> "ptr", n |-> object,
   parts |-> [i \in DOMAIN path |-> Val("i64", path[i])]]
I64(n) == Val("i64", n)
I1(b) == Val("i1", IF b THEN 1 ELSE 0)

Object(fam, eq, data) == [fam |-> fam, eq |-> eq, data |-> data]

\* i1 is Bool, i64 Int; a reference of any kind is a ptr.
WidthOf(type) ==
  CASE type = "Int" -> "i64" [] type = "Bool" -> "i1"
    [] type = "Double" -> "f64"
    [] type \in {"String", "Closure"} \/ Kind(type) \in {"class", "pointer"} ->
         "ptr"
    [] IsOptional(type) \/ Kind(type) \in {"struct", "enum", "tuple"} -> "agg"
    [] OTHER -> "i64"

Wrap(n) == Then(n % 2^Width, LAMBDA low :
           IF low >= 2^(Width - 1) THEN low - 2^Width ELSE low)

-----------------------------------------------------------------------------
(* The state of the program that runs. *)

Value(m, id) == IF id = None THEN NoVal ELSE m.vals[id]
Def(m, v) == [m EXCEPT !.vals = Append(@, v)]
Bad(m, what) == [m EXCEPT !.bad = @ \cup {what}]
Lost(m) == Def(Bad(m, "lost"), NoVal)
Undefined(m, what) == Def(Bad(m, what), NoVal)
Alloc(m, object) == Def([m EXCEPT !.heap = Append(@, object)],
                        Ptr(Len(m.heap) + 1, <<0>>))

Is(m, v, fam) == v.w = "ptr" /\ v.n \in DOMAIN m.heap /\ m.heap[v.n].fam = fam
Data(m, v) == m.heap[v.n].data
WithData(m, v, data) == [m EXCEPT !.heap[v.n].data = data]
Text(m, v) == [i \in DOMAIN Data(m, v) |-> Data(m, v)[i].n]
Chars(s) == [i \in DOMAIN s |-> Val("i8", s[i])]
NewString(m, s) == Alloc(m, Object("string", "", Chars(s)))

\* What is at the end of a path: the element, then field by field.
RECURSIVE PartOf(_, _)
PartOf(v, path) ==
  IF path = <<>> THEN v
  ELSE IF v.w # "agg" \/ Head(path) + 1 > Len(v.parts) THEN NoVal
  ELSE PartOf(v.parts[Head(path) + 1], Tail(path))
RECURSIVE WithPart(_, _, _)
WithPart(v, path, x) ==
  IF path = <<>> THEN x
  ELSE [v EXCEPT !.parts[Head(path) + 1] = WithPart(@, Tail(path), x)]

PathOf(v) == [i \in DOMAIN v.parts |-> v.parts[i].n]
InBounds(m, v) ==
  /\ v.w = "ptr" /\ v.n \in DOMAIN m.heap
  /\ m.heap[v.n].fam \in {"stack", "array", "object", "raw"}
  /\ Head(PathOf(v)) + 1 \in DOMAIN m.heap[v.n].data

LoadFrom(m, v) ==
  IF ~InBounds(m, v) THEN NoVal
  ELSE PartOf(Data(m, v)[Head(PathOf(v)) + 1], Tail(PathOf(v)))

\* What has the size of the storage fits, and is read as what it holds.
Byte(w) == IF w = "i1" THEN 1 ELSE 8
RECURSIVE Fits(_, _)
Fits(x, like) ==
  IF x.w = "agg" \/ like.w = "agg"
  THEN /\ x.w = like.w /\ Len(x.parts) = Len(like.parts)
       /\ \A i \in DOMAIN x.parts : Fits(x.parts[i], like.parts[i])
  ELSE Byte(x.w) = Byte(like.w)
RECURSIVE Recast(_, _)
Recast(x, like) ==
  IF x.w = "agg"
  THEN Agg([i \in DOMAIN x.parts |-> Recast(x.parts[i], like.parts[i])])
  ELSE [x EXCEPT !.w = like.w]

StoreTo(m, v, x) ==
  LET at == Head(PathOf(v)) + 1
  IN Then(LoadFrom(m, v), LAMBDA old :
     LET new == WithPart(Data(m, v)[at], Tail(PathOf(v)), Recast(x, old))
     IN IF ~InBounds(m, v) \/ old.w = "none" THEN Bad(m, "family")
        ELSE IF ~Fits(x, old) THEN Bad(m, "width")
        ELSE [m EXCEPT !.heap[v.n].data[at] = new])

\* Storage that was not stored to holds a zero of its type.
RECURSIVE Blank(_)
Blank(type) ==
  LET w == WidthOf(type)
      inner == IF IsOptional(type) THEN <<"Bool", Optionals[type]>>
               ELSE IF type \in DOMAIN Types
               THEN [i \in DOMAIN Types[type].fields |->
                       Types[type].fields[i].type]
               ELSE <<>>
  IN IF w = "agg" THEN Agg([i \in DOMAIN inner |-> Blank(inner[i])])
     ELSE Val(w, 0)

-----------------------------------------------------------------------------
(* Integers, floats and conversions. *)

Sign(n) == IF n < 0 THEN -1 ELSE 1
SDiv(a, b) == Sign(a) * Sign(b) * ((a * Sign(a)) \div (b * Sign(b)))
Bits(n) == n % 2^Width
BitOf(n, i) == (Bits(n) \div 2^i) % 2
Bitwise2(F(_, _), a, b) ==
  Wrap(FoldLeft(LAMBDA s, i : s + 2^i * F(BitOf(a, i), BitOf(b, i)), 0,
                [i \in 1..Width |-> i - 1]))

IntResult(name, a, b) ==
  CASE name = "add_Int64" -> Wrap(a + b)
    [] name = "sub_Int64" -> Wrap(a - b)
    [] name = "mul_Int64" -> Wrap(a * b)
    [] name = "sdiv_Int64" -> Wrap(SDiv(a, b))
    [] name = "srem_Int64" -> a - b * SDiv(a, b)
    [] name = "and_Int64" -> Bitwise2(LAMBDA x, y : x * y, a, b)
    [] name = "or_Int64" -> Bitwise2(LAMBDA x, y : x + y - x * y, a, b)
    [] name = "xor_Int64" -> Bitwise2(LAMBDA x, y : (x + y) % 2, a, b)
    [] name = "shl_Int64" -> Wrap(a * 2^b)
    [] name = "ashr_Int64" -> a \div 2^b

Compare(name, a, b) ==
  CASE name \in {"cmp_eq_Int64", "fcmp_oeq"} -> a = b
    [] name \in {"cmp_ne_Int64", "fcmp_one"} -> a # b
    [] name \in {"cmp_slt_Int64", "fcmp_olt"} -> a < b
    [] name \in {"cmp_sgt_Int64", "fcmp_ogt"} -> a > b
    [] name \in {"cmp_sle_Int64", "fcmp_ole"} -> a <= b
    [] name \in {"cmp_sge_Int64", "fcmp_oge"} -> a >= b

IntArithmetic == {"add_Int64", "sub_Int64", "mul_Int64", "sdiv_Int64",
                  "srem_Int64", "and_Int64", "or_Int64", "xor_Int64",
                  "shl_Int64", "ashr_Int64"}
IntComparison == {"cmp_eq_Int64", "cmp_ne_Int64", "cmp_slt_Int64",
                  "cmp_sgt_Int64", "cmp_sle_Int64", "cmp_sge_Int64"}
FloatArithmetic == {"fadd", "fsub", "fmul", "fdiv"}
FloatComparison == {"fcmp_oeq", "fcmp_one", "fcmp_olt", "fcmp_ogt",
                    "fcmp_ole", "fcmp_oge"}
UnaryNumeric == {"neg_Int64", "not_Int64", "fneg", "xor_Int1", "sitofp",
                 "fptosi"}

\* LLVM has no meaning for a division by zero, nor for a shift too far.
IntBinary(m, name, a, b) ==
  LET zero == name \in {"sdiv_Int64", "srem_Int64"} /\ b.n = 0
      far == name \in {"shl_Int64", "ashr_Int64"} /\ b.n \notin 0..Width - 1
  IN CASE a.w # b.w \/ a.w \notin {"i64", "i1"} -> Undefined(m, "width")
       [] a.w = b.w /\ a.w \in {"i64", "i1"} /\ (zero \/ far) ->
            Undefined(m, "undefined")
       [] OTHER -> Def(m, Val(a.w, IntResult(name, a.n, b.n)))
IntCompare(m, name, a, b) ==
  IF a.w # b.w \/ a.w \notin {"i64", "i1"} THEN Undefined(m, "width")
  ELSE Def(m, I1(Compare(name, a.n, b.n)))

FloatBinary(m, name, a, b) ==
  LET n == CASE name = "fadd" -> a.n + b.n [] name = "fsub" -> a.n - b.n
             [] name = "fmul" -> (a.n * b.n) \div 2
             [] name = "fdiv" -> SDiv(2 * a.n, b.n)
  IN IF a.w # "f64" \/ b.w # "f64" THEN Undefined(m, "width")
     ELSE IF name = "fdiv" /\ b.n = 0 THEN Undefined(m, "undefined")
     ELSE Def(m, Val("f64", n))
FloatCompare(m, name, a, b) ==
  IF a.w # "f64" \/ b.w # "f64" THEN Undefined(m, "width")
  ELSE Def(m, I1(Compare(name, a.n, b.n)))

\* xor_Int1 is the exclusive or with a one of one bit.
NumericUnary(m, name, a) ==
  LET wanted == CASE name \in {"neg_Int64", "not_Int64", "sitofp"} -> "i64"
                  [] name \in {"fneg", "fptosi"} -> "f64"
                  [] name = "xor_Int1" -> "i1"
  IN IF a.w # wanted THEN Undefined(m, "width")
     ELSE Def(m, CASE name = "neg_Int64" -> I64(Wrap(-a.n))
                   [] name = "not_Int64" -> I64(-a.n - 1)
                   [] name = "fneg" -> Val("f64", -a.n)
                   [] name = "xor_Int1" -> I1(a.n = 0)
                   [] name = "sitofp" -> Val("f64", 2 * a.n)
                   [] name = "fptosi" -> I64(SDiv(a.n, 2)))

\* The widening of what is printed or converted is signed.
Widened(v) == IF v.w = "i1" /\ v.n = 1 THEN I64(-1) ELSE I64(v.n)

Digits[n \in Nat] ==
  IF n < 10 THEN <<48 + n>> ELSE Append(Digits[n \div 10], 48 + (n % 10))
Decimal(n) == IF n < 0 THEN <<45>> \o Digits[-n] ELSE Digits[n]

-----------------------------------------------------------------------------
(* Strings. *)

Space == 32
Upper(ch) == IF ch \in 97..122 THEN ch - 32 ELSE ch
Lower(ch) == IF ch \in 65..90 THEN ch + 32 ELSE ch
Trimmed(s) ==
  LET solid == {i \in DOMAIN s : s[i] # Space}
  IN IF solid = {} THEN <<>>
     ELSE SubSeq(s, CHOOSE i \in solid : \A j \in solid : i <= j,
                 CHOOSE i \in solid : \A j \in solid : i >= j)

\* A test comes out as i64, called as if it gave i1.
StringTest(m, b) == Def(m, I64(IF b THEN 1 ELSE 0))
StringSearch(m, name, a, b) ==
  StringTest(m, CASE name = "string_has_prefix" -> IsPrefix(b, a)
                  [] name = "string_has_suffix" -> IsSuffix(b, a)
                  [] name = "string_contains" ->
                       \E i \in 0..Len(a) - Len(b) :
                         SubSeq(a, i + 1, i + Len(b)) = b)

StringBuiltin(m, name, ops) ==
  LET a == Text(m, ops[1])
      b == Text(m, ops[2])
  IN IF \E i \in DOMAIN ops : ~Is(m, ops[i], "string")
     THEN Undefined(m, "family")
     ELSE CASE name = "string_concat" -> NewString(m, a \o b)
            [] name = "string_len" -> Def(m, I64(Len(a)))
            [] name = "string_uppercased" ->
                 NewString(m, [i \in DOMAIN a |-> Upper(a[i])])
            [] name = "string_lowercased" ->
                 NewString(m, [i \in DOMAIN a |-> Lower(a[i])])
            [] name = "string_trimmed" -> NewString(m, Trimmed(a))
            [] name = "string_eq" -> StringTest(m, a = b)
            [] name = "string_neq" -> StringTest(m, a # b)
            [] OTHER -> StringSearch(m, name, a, b)
=============================================================================
