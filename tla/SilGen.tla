------------------------------- MODULE SilGen -------------------------------
(***************************************************************************)
(* SIL generation of straight code                                         *)
(* (src/toolchain/tiny_sil_gen/sil_gen.cpp): each instruction of SemIR     *)
(* becomes SIL instructions whose operands are the values its own operands *)
(* became.  An operand that became none is left out of a list, and is an   *)
(* operand without a value elsewhere; nobody is told.                      *)
(*                                                                         *)
(* g.sil holds the SIL, g.vals says which SIL value a SemIR instruction    *)
(* became; a SIL value is named by the index of its instruction.           *)
(***************************************************************************)
EXTENDS Calls

SilInst(k, ops, list, type) ==
  [k |-> k, ops |-> ops, list |-> list, type |-> type, data |-> <<>>,
   name |-> "", of |-> ""]

GetValue(g, id) == IF id \in DOMAIN g.vals THEN g.vals[id] ELSE None
Values(g, ids) == [i \in DOMAIN ids |-> GetValue(g, ids[i])]
Valid(g, ids) == Filled(Values(g, ids))

Emit(g, inst) == [g EXCEPT !.sil = Append(@, inst)]
SetValue(g, id, value) ==
  IF value = None THEN g ELSE [g EXCEPT !.vals = Put(@, id, value)]
EmitValue(g, id, inst) == SetValue(Emit(g, inst), id, Len(g.sil) + 1)

-----------------------------------------------------------------------------
(* SemIR instructions that become one builtin with the same operands. *)

IntBuiltins ==
  [IntAdd |-> "add_Int64", IntSub |-> "sub_Int64", IntMul |-> "mul_Int64",
   IntDiv |-> "sdiv_Int64", IntMod |-> "srem_Int64",
   IntNegate |-> "neg_Int64", IntBitwiseAnd |-> "and_Int64",
   IntBitwiseOr |-> "or_Int64", IntBitwiseXor |-> "xor_Int64",
   IntBitwiseNot |-> "not_Int64", IntShiftLeft |-> "shl_Int64",
   IntShiftRight |-> "ashr_Int64", IntEq |-> "cmp_eq_Int64",
   IntNeq |-> "cmp_ne_Int64", IntLess |-> "cmp_slt_Int64",
   IntGreater |-> "cmp_sgt_Int64", IntLessEq |-> "cmp_sle_Int64",
   IntGreaterEq |-> "cmp_sge_Int64"]
FloatBuiltins ==
  [FloatAdd |-> "fadd", FloatSub |-> "fsub", FloatMul |-> "fmul",
   FloatDiv |-> "fdiv", FloatNegate |-> "fneg", FloatEq |-> "fcmp_oeq",
   FloatNeq |-> "fcmp_one", FloatLess |-> "fcmp_olt",
   FloatGreater |-> "fcmp_ogt", FloatLessEq |-> "fcmp_ole",
   FloatGreaterEq |-> "fcmp_oge"]
ConversionBuiltins ==
  [BoolNot |-> "xor_Int1", IntToFloat |-> "sitofp", FloatToInt |-> "fptosi",
   StringConcat |-> "string_concat"]
TextBuiltins ==
  [StringEq |-> "string_eq", StringNeq |-> "string_neq",
   StringLen |-> "string_len", StringUppercased |-> "string_uppercased",
   StringLowercased |-> "string_lowercased",
   StringTrimmed |-> "string_trimmed",
   StringHasPrefix |-> "string_has_prefix",
   StringHasSuffix |-> "string_has_suffix",
   StringContains |-> "string_contains"]
TableBuiltins ==
  [DictCount |-> "hashmap_count", DictContains |-> "hashmap_contains",
   DictRemove |-> "hashmap_remove", SetCreate |-> "hashset_create",
   SetInsert |-> "hashset_insert", SetContains |-> "hashset_contains",
   SetCount |-> "hashset_count", SetRemove |-> "hashset_remove"]
ListBuiltins ==
  [DynamicArrayInit |-> "dynarray_create",
   DynamicArrayAppend |-> "dynarray_append",
   DynamicArrayCount |-> "dynarray_count",
   DynamicArrayAccess |-> "dynarray_access"]
PointerBuiltins ==
  [UnsafePtrAllocate |-> "unsafe_ptr_allocate",
   UnsafePtrDeallocate |-> "unsafe_ptr_deallocate",
   UnsafePtrSubscript |-> "unsafe_ptr_subscript",
   UnsafePtrSubscriptAddr |-> "unsafe_ptr_subscript_addr"]
FileBuiltins ==
  [ReadLine |-> "readline", FileGetCwd |-> "file_getcwd",
   FileReadAll |-> "file_read_all", FileExists |-> "file_exists",
   FileRemove |-> "file_remove", FileWriteAll |-> "file_write_all",
   FileAppendAll |-> "file_append_all"]
OsBuiltins ==
  [ProcessGetArgs |-> "process_get_args", ProcessExit |-> "process_exit",
   EnvGet |-> "env_get", EnvSet |-> "env_set", FsMkdir |-> "fs_mkdir",
   FsListDir |-> "fs_listdir", FsIsDir |-> "fs_is_dir",
   FsCopy |-> "fs_copy"]
NetBuiltins ==
  [TcpConnect |-> "tcp_connect", TcpListen |-> "tcp_listen",
   TcpAccept |-> "tcp_accept", TcpRead |-> "tcp_read",
   TcpWrite |-> "tcp_write", TcpClose |-> "tcp_close"]
SystemBuiltins == FileBuiltins @@ OsBuiltins @@ NetBuiltins

BuiltinOf(op) ==
  LET tables == {IntBuiltins, FloatBuiltins, ConversionBuiltins, TextBuiltins,
                 TableBuiltins, ListBuiltins, PointerBuiltins, SystemBuiltins}
      named == {t \in tables : op \in DOMAIN t}
  IN IF named = {} THEN "" ELSE (CHOOSE t \in named : TRUE)[op]
VoidOps == {"DictRemove", "SetInsert", "SetRemove"}

\* The operands keep their places, valued or not.
EmitBuiltin(g, id, x) ==
  LET inst == [SilInst(BuiltinOf(x.op), Values(g, x.args), <<>>, x.type)
                 EXCEPT !.data = x.data]
  IN IF x.op \in VoidOps THEN Emit(g, inst) ELSE EmitValue(g, id, inst)

-----------------------------------------------------------------------------
(* Names, variables and assignments. *)

Forward(g, id, of) == SetValue(g, id, GetValue(g, of))
EmitLoad(g, id, of, type) ==
  IF GetValue(g, of) = None THEN g
  ELSE EmitValue(g, id, SilInst("load", <<GetValue(g, of)>>, <<>>, type))
FunctionRef(name, type) ==
  [SilInst("function_ref", <<>>, <<>>, type) EXCEPT !.name = name]

\* The name of a variable is a load of it, but a variable that stands for an
\* array literal has no value.
EmitNameRef(g, insts, id) ==
  LET x == insts[id]
      of == x.args[1]
      op == insts[of].op
  IN CASE op \in {"VarStorage", "InoutParam"} ->
            IF of \in g.arrayVars THEN g ELSE EmitLoad(g, id, of, x.type)
       [] op = "FunctionDecl" ->
            EmitValue(g, id, FunctionRef(insts[of].name, x.type))
       [] OTHER -> Forward(g, id, of)

EmitCaptureRef(g, insts, id) ==
  LET of == insts[id].args[1]
  IN IF insts[of].op = "VarStorage"
     THEN EmitLoad(g, id, of, insts[id].type) ELSE Forward(g, id, of)

\* Where a left side is stored: a named variable, or the address it is.
StoreAddr(insts, lhs) ==
  IF insts[lhs].op = "NameRef"
     /\ insts[insts[lhs].args[1]].op \in {"VarStorage", "InoutParam"}
  THEN insts[lhs].args[1] ELSE lhs

\* An array literal is not stored: the variable stands for it from now on.
\* A store that lacks a side is not made.
EmitAssign(g, insts, id) ==
  LET lhs == IF insts[id].args[1] = None THEN None
             ELSE StoreAddr(insts, insts[id].args[1])
      rhs == insts[id].args[2]
      isArray == /\ rhs # None /\ insts[rhs].op = "ArrayLiteralInit"
                 /\ lhs # None /\ insts[lhs].op = "VarStorage"
  IN IF isArray THEN [g EXCEPT !.arrayVars = @ \cup {lhs}]
     ELSE IF None \in {GetValue(g, lhs), GetValue(g, rhs)} THEN g
     ELSE Emit(g, SilInst("store", <<GetValue(g, rhs), GetValue(g, lhs)>>,
                          <<>>, ""))

-----------------------------------------------------------------------------
(* Calls and closures. *)

\* A function, or the value a parameter or a closure has.
EmitCall(g, insts, id) ==
  LET x == insts[id]
      ref == Emit(g, FunctionRef(x.name, x.type))
  IN EmitValue(ref, id, SilInst("apply", <<Len(ref.sil)>>, Valid(g, x.args),
                                x.type))

\* Only a closure that is named by a let, or stands there, is found.
EmitApply(g, insts, id) ==
  LET x == insts[id]
      callee == x.args[1]
      ref == IF callee = None THEN None
             ELSE IF insts[callee].op = "NameRef" THEN insts[callee].args[1]
             ELSE callee
      closure == IF ref = None THEN None
                 ELSE IF insts[ref].op = "ValueBinding"
                 THEN insts[ref].args[1] ELSE ref
      known == closure # None
               /\ insts[closure].op \in {"ClosureExpr", "ValueParam"}
      unknown == Emit(g, FunctionRef("<unknown_callee>", x.type))
  IN IF known
     THEN EmitValue(g, id, SilInst("apply", <<GetValue(g, closure)>>,
                                   Valid(g, Tail(x.args)), x.type))
     ELSE EmitValue(unknown, id,
                    SilInst("apply", <<Len(unknown.sil)>>,
                            Valid(g, Tail(x.args)), x.type))

EmitClosure(g, insts, id) ==
  LET x == insts[id]
  IN EmitValue(g, id, [SilInst("partial_apply", <<>>, Valid(g, x.args), x.type)
                         EXCEPT !.data = x.data])

-----------------------------------------------------------------------------
(* Aggregates, optionals, enums, and what is printed. *)

\* What is missing in a list moves the rest of it up.
EmitList(g, insts, id, k) ==
  LET x == insts[id]
  IN EmitValue(g, id, [SilInst(k, <<>>, Valid(g, x.args), x.type)
                         EXCEPT !.data = <<Len(x.args)>>])

Extract(g, insts, id, k) ==
  LET x == insts[id]
  IN EmitValue(g, id, [SilInst(k, Values(g, x.args), <<>>, x.type)
                         EXCEPT !.data = x.data,
                                !.of = GetInstType([insts |-> insts],
                                                   x.args[1])])

Flag(b) == [SilInst("integer_literal", <<>>, <<>>, "Bool")
              EXCEPT !.data = <<b>>]
\* Optional<T> is {i1, T}; the type of a literal nil is not known.
EmitOptionalNone(g, insts, id) ==
  LET type == insts[id].type
      inner == IF IsOptional(type) THEN Optionals[type] ELSE type
      zero == [SilInst("integer_literal", <<>>, <<>>, inner)
                 EXCEPT !.data = <<0>>]
      parts == Emit(Emit(g, Flag(0)), zero)
  IN EmitValue(parts, id,
               SilInst("tuple", <<>>, <<Len(g.sil) + 1, Len(g.sil) + 2>>, type))
EmitOptionalSome(g, insts, id) ==
  LET x == insts[id]
  IN EmitValue(Emit(g, Flag(1)), id,
               SilInst("tuple", <<>>,
                       <<Len(g.sil) + 1>> \o Valid(g, x.args), x.type))

\* A dictionary literal lists its pairs; what is set in one later is a list
\* too.
EmitDictSet(g, insts, id) ==
  LET x == insts[id]
  IN Emit(g, SilInst("hashmap_set", <<GetValue(g, x.args[1])>>,
                     Valid(g, Tail(x.args)), ""))
EmitDict(g, insts, id, k) ==
  EmitValue(g, id, SilInst(k, Values(g, insts[id].args), <<>>, insts[id].type))

PrintBuiltin(type) ==
  CASE type = "String" -> "print_string" [] type = "Bool" -> "print_bool"
    [] OTHER -> "print_int"
EmitPrint(g, insts, id) ==
  LET arg == insts[id].args[1]
  IN Emit(g, SilInst(PrintBuiltin(GetInstType([insts |-> insts], arg)),
                     <<GetValue(g, arg)>>, <<>>, ""))

-----------------------------------------------------------------------------

\* Types, declarations, errors and what waited for a call leave nothing.
Skipped == {"FunctionDecl", "StructType", "ClassType", "EnumDecl",
            "EnumCaseWithPayload", "BoundMethod", "ErrorInst",
            "StringMethodRef", "DictMethodRef", "SetMethodRef",
            "DynamicArrayMethodRef", "UnsafePtrMethodRef"}

Literal(g, insts, id, k) ==
  EmitValue(g, id, [SilInst(k, <<>>, <<>>, insts[id].type)
                      EXCEPT !.data = insts[id].data])

EmitInst(g, insts, id) ==
  LET x == insts[id]
  IN CASE x.op \in Skipped -> g
       [] x.op \in {"IntValue", "BoolLiteral"} ->
            Literal(g, insts, id, "integer_literal")
       [] x.op = "FloatValue" -> Literal(g, insts, id, "float_literal")
       [] x.op = "StringLiteral" -> Literal(g, insts, id, "string_literal")
       [] x.op = "VarStorage" -> Literal(g, insts, id, "alloc_stack")
       [] x.op = "NameRef" -> EmitNameRef(g, insts, id)
       [] x.op \in {"ValueBinding", "AddressOf"} -> Forward(g, id, x.args[1])
       [] x.op = "CaptureRef" -> EmitCaptureRef(g, insts, id)
       [] x.op = "Assign" -> EmitAssign(g, insts, id)
       [] BuiltinOf(x.op) # "" -> EmitBuiltin(g, id, x)
       [] x.op = "Call" -> EmitCall(g, insts, id)
       [] x.op = "Apply" -> EmitApply(g, insts, id)
       [] x.op = "ClosureExpr" -> EmitClosure(g, insts, id)
       [] x.op = "StructInit" -> EmitList(g, insts, id, "struct")
       [] x.op = "TupleInit" -> EmitList(g, insts, id, "tuple")
       [] x.op = "ArrayLiteralInit" ->
            EmitList(g, insts, id, "array_literal_init")
       [] x.op = "AllocClass" -> EmitList(g, insts, id, "alloc_class")
       [] x.op = "DictInit" -> EmitList(g, insts, id, "dict_init")
       [] x.op = "FieldAccess" -> Extract(g, insts, id, "struct_extract")
       [] x.op = "FieldAddr" -> Extract(g, insts, id, "struct_element_addr")
       [] x.op = "TupleAccess" -> Extract(g, insts, id, "tuple_extract")
       [] x.op = "EnumInit" -> Literal(g, insts, id, "enum")
       [] x.op = "ArrayAccess" -> EmitDict(g, insts, id, "array_access")
       [] x.op = "ArrayElementAddr" ->
            EmitDict(g, insts, id, "array_element_addr")
       [] x.op = "OptionalNone" -> EmitOptionalNone(g, insts, id)
       [] x.op = "OptionalSome" -> EmitOptionalSome(g, insts, id)
       [] x.op = "DictCreate" -> EmitDict(g, insts, id, "hashmap_create")
       [] x.op = "DictGet" -> EmitDict(g, insts, id, "hashmap_get")
       [] x.op = "DictSet" -> EmitDictSet(g, insts, id)
       [] x.op = "IntToString" -> EmitDict(g, insts, id, "int_to_string")
       [] x.op = "Retain" -> EmitDict(g, insts, id, "retain")
       [] x.op = "choose" -> EmitDict(g, insts, id, "choose")
       [] x.op = "PrintValue" -> EmitPrint(g, insts, id)

Generated(insts) ==
  FoldLeft(LAMBDA g, id : EmitInst(g, insts, id),
           [sil |-> <<>>, vals |-> <<>>, arrayVars |-> {}],
           [i \in 1..Len(insts) |-> i])
=============================================================================
