----------------------------- MODULE Execution ------------------------------
(***************************************************************************)
(* The rest of what lowered code does: aggregates, calls, arrays, tables   *)
(* and the system (src/toolchain/lower/lower.cpp and                       *)
(* src/runtime/tinyswift_runtime.c).  What a function of the program does  *)
(* is its own; here it is one of a few things that tell its arguments      *)
(* apart, and it leaves them in the trace.                                 *)
(***************************************************************************)
EXTENDS Lowering

\* What can be seen of a value: numbers, texts, and the fields of the rest.
RECURSIVE Seen(_, _)
Seen(m, v) ==
  LET parts == IF v.w = "agg" THEN v.parts
               ELSE IF v.w = "ptr" /\ v.n \in DOMAIN m.heap
               THEN Data(m, v) ELSE <<>>
  IN IF v.w \in {"agg", "ptr"}
     THEN FlattenSeq([i \in DOMAIN parts |-> Seen(m, parts[i])]) ELSE <<v.n>>
SeenAll(m, vs) == [i \in DOMAIN vs |-> Seen(m, vs[i])]
Event(what, v) == [what |-> what, v |-> v]
Trace(m, what, vs) == [m EXCEPT !.out = Append(@, Event(what, SeenAll(m, vs)))]

-----------------------------------------------------------------------------
(* Aggregates and memory. *)

\* A struct or tuple takes its declared type; a tuple of unknown type is
\* what its elements make it.
Aggregate(m, type, parts) ==
  LET like == Blank(type)
      shaped == /\ Len(parts) = Len(like.parts)
                /\ \A i \in DOMAIN parts : parts[i].w = like.parts[i].w
  IN IF like.w = "agg" /\ ~shaped THEN Undefined(m, "width")
     ELSE Def(m, Agg(parts))

TupleExtract(m, base, i) ==
  IF base.w # "agg" \/ i \notin DOMAIN base.parts THEN Undefined(m, "undefined")
  ELSE Def(m, base.parts[i])

\* The field of an instance is read where the pointer points.
StructExtract(m, base, i) ==
  IF base.w # "ptr" THEN TupleExtract(m, base, i)
  ELSE IF ~Is(m, base, "object") \/ i \notin DOMAIN Data(m, base)
  THEN Undefined(m, "family")
  ELSE Def(m, Data(m, base)[i])

\* The address of a field is an offset from that of the variable, also when
\* the variable holds a pointer to an instance.
StructElementAddr(m, base, of, i) ==
  IF base.w # "ptr" THEN Undefined(m, "family")
  ELSE Def(m, Ptr(base.n, IF Kind(of) = "class" THEN <<i - 1>>
                          ELSE Append(PathOf(base), i - 1)))

LoadInst(m, at, type) ==
  Then(LoadFrom(m, at), LAMBDA v :
  IF v.w = "none" THEN Undefined(m, "undefined")
  ELSE IF ~Fits(v, Blank(type)) THEN Undefined(m, "width")
  ELSE Def(m, Recast(v, Blank(type))))

\* An element is read at an offset that nobody compares with the length.
ElementAddr(array, index) == Ptr(array.n, <<Head(PathOf(array)) + index.n>>)
ArrayBuiltin(m, name, ops, type) ==
  LET at == ElementAddr(ops[1], ops[2])
  IN IF ops[1].w # "ptr" \/ ops[2].w # "i64" THEN Undefined(m, "width")
     ELSE IF ~Is(m, ops[1], "array") THEN Undefined(m, "family")
     ELSE IF name = "array_element_addr" THEN Def(m, at)
     ELSE LoadInst(m, at, type)

\* The branches of ?? and ?. store into one variable and read it back.
Choose(m, ops, type) ==
  LET v == IF ops[1].n # 0 THEN ops[2] ELSE ops[3]
  IN IF ~Fits(v, Blank(type)) THEN Undefined(m, "width")
     ELSE Def(m, Recast(v, Blank(type)))

-----------------------------------------------------------------------------
(* Calls. *)

\* A function of the program: its arguments have the widths of its
\* parameters, or there is no such call.
SelfWidths(fn) ==
  IF Functions[fn].self = "" THEN <<>>
  ELSE <<IF Functions[fn].mutating THEN "ptr"
         ELSE WidthOf(Functions[fn].self)>>
ParamWidths(fn) ==
  SelfWidths(fn) \o [i \in DOMAIN Functions[fn].params |->
                       WidthOf(Functions[fn].params[i].type)]
WidthsOf(vs) == [i \in DOMAIN vs |-> vs[i].w]

SumOf(ns) == FoldLeft(LAMBDA s, n : s + n, 0, ns)
Room(n) == [i \in 1..n |-> I64(0)]
FunctionResult(m, fn, args) ==
  LET f == Functions[fn]
      at == Ptr(args[1].n, Append(PathOf(args[1]), 0))
      old == LoadFrom(m, at)
  IN CASE f.body = "pack" -> Def(m, Agg(args))
       [] f.body = "sum" ->
            Def(m, I64(Wrap(SumOf(FlattenSeq(SeenAll(m, args))))))
       [] f.body = "not" -> Def(m, I1(Seen(m, args[1]) = <<0>>))
       [] f.body = "bump" ->
            Def(StoreTo(m, at, I64(Wrap(old.n + args[2].n))), NoVal)
       [] f.body = "raw" -> Alloc(m, Object("raw", "", Room(args[1].n)))
CallUser(m, fn, args) ==
  IF WidthsOf(args) # ParamWidths(fn) THEN Undefined(m, "signature")
  ELSE FunctionResult(Trace(m, fn, args), fn, args)

\* A closure gets what it captured before its arguments; its body is the
\* sum of the captured and given values at the places its data names.
CallClosure(m, closure, args) ==
  LET all == closure[1].parts \o args
      at == [i \in DOMAIN closure[2].parts |-> closure[2].parts[i].n]
      used == [i \in DOMAIN at |-> all[at[i]]]
  IN IF \E i \in DOMAIN at : at[i] \notin DOMAIN all
     THEN Undefined(m, "signature")
     ELSE IF \E i \in DOMAIN used : used[i].w # "i64"
     THEN Undefined(m, "width")
     ELSE Def(Trace(m, "closure", args),
              I64(Wrap(SumOf([i \in DOMAIN used |-> used[i].n]))))

Apply(m, callee, args) ==
  IF Is(m, callee, "closure") THEN CallClosure(m, Data(m, callee), args)
  ELSE IF Is(m, callee, "function") /\ m.heap[callee.n].eq \in DOMAIN Functions
  THEN CallUser(m, m.heap[callee.n].eq, args)
  ELSE Undefined(m, "signature")

-----------------------------------------------------------------------------
(* Dynamic arrays. *)

ListBuiltin(m, name, ops, type) ==
  LET list == m.heap[ops[1].n]
      at == ops[2].n + 1
  IN CASE name = "dynarray_create" ->
            Alloc(m, Object("list", WidthOf(type), <<>>))
       [] name # "dynarray_create" /\ ~Is(m, ops[1], "list") ->
            Undefined(m, "family")
       [] name # "dynarray_create" /\ Is(m, ops[1], "list") ->
            CASE name = "dynarray_count" -> Def(m, I64(Len(list.data)))
              [] name = "dynarray_append" ->
                   IF Byte(ops[2].w) # Byte(list.eq) \/ ops[2].w = "agg"
                   THEN Undefined(m, "width")
                   ELSE Def(WithData(m, ops[1],
                                     Append(list.data,
                                            [ops[2] EXCEPT !.w = list.eq])),
                            NoVal)
              [] name = "dynarray_access" ->
                   IF at \notin DOMAIN list.data
                   THEN [Def(m, NoVal) EXCEPT !.halted = TRUE]
                   ELSE Def(m, [list.data[at] EXCEPT !.w = WidthOf(type)])

-----------------------------------------------------------------------------
(* Dictionaries and sets.  The keys of a table are compared as its type    *)
(* was when it was made, and hashed as the key of the operation is.        *)

EqOf(w) == CASE w = "ptr" -> "string" [] w = "i1" -> "bool"
             [] w = "f64" -> "double" [] OTHER -> "int"

SameKey(m, eq, a, b) ==
  IF eq = "string" THEN Text(m, a) = Text(m, b) ELSE a = b
\* A table of strings must not be asked for a number.
KeyFits(m, eq, key) == eq = "string" => Is(m, key, "string")
KeyAt(m, table, key, step) ==
  Then({i \in DOMAIN table.data :
          i % step = 1 % step /\ SameKey(m, table.eq, table.data[i], key)},
       LAMBDA at :
  IF at = {} THEN 0 ELSE CHOOSE i \in at : TRUE)
Without(data, at, step) ==
  SubSeq(data, 1, at - 1) \o SubSeq(data, at + step, Len(data))

PutPair(m, ptr, key, val) ==
  LET dict == m.heap[ptr.n]
      at == KeyAt(m, dict, key, 2)
  IN IF ~KeyFits(m, dict.eq, key) THEN Bad(m, "family")
     ELSE IF at = 0 THEN WithData(m, ptr, dict.data \o <<key, val>>)
     ELSE WithData(m, ptr, [dict.data EXCEPT ![at + 1] = val])

\* Whatever the type of the values is, the one found is read as an Int.
DictGetBuiltin(m, dict, key) ==
  LET at == KeyAt(m, dict, key, 2)
      val == dict.data[at + 1]
  IN IF at = 0 THEN Def(m, Agg(<<I1(FALSE), I64(0)>>))
     ELSE IF val.w \in {"i1", "agg"} THEN Undefined(m, "width")
     ELSE Def(m, Agg(<<I1(TRUE), I64(val.n)>>))

DictBuiltin(m, name, ops) ==
  LET dict == m.heap[ops[1].n]
      key == ops[2]
      at == KeyAt(m, dict, key, 2)
  IN IF ~Is(m, ops[1], "dict") \/ (Len(ops) > 1 /\ ~KeyFits(m, dict.eq, key))
     THEN Undefined(m, "family")
     ELSE CASE name = "hashmap_count" -> Def(m, I64(Len(dict.data) \div 2))
            [] name = "hashmap_contains" ->
                 Def(m, I64(IF at = 0 THEN 0 ELSE 1))
            [] name = "hashmap_get" -> DictGetBuiltin(m, dict, key)
            [] name = "hashmap_set" -> Def(PutPair(m, ops[1], key, ops[3]), NoVal)
            [] name = "hashmap_remove" ->
                 Def(IF at = 0 THEN m
                     ELSE WithData(m, ops[1], Without(dict.data, at, 2)), NoVal)

\* A literal is a new table and its pairs, one after the other.
DictInitBuiltin(m, list) ==
  LET eq == IF list[1].w = "ptr" THEN "string" ELSE "int"
      made == Alloc(m, Object("dict", eq, <<>>))
  IN FoldLeft(LAMBDA s, i : PutPair(s, Ptr(Len(made.heap), <<0>>),
                                    list[2 * i - 1], list[2 * i]),
              made, [i \in 1..Len(list) \div 2 |-> i])

SetBuiltin(m, name, ops, type) ==
  LET set == m.heap[ops[1].n]
      elem == ops[2]
      at == KeyAt(m, set, elem, 1)
  IN IF name = "hashset_create"
     THEN Alloc(m, Object("set", EqOf(WidthOf(type)), <<>>))
     ELSE IF ~Is(m, ops[1], "set") \/ (Len(ops) > 1 /\ ~KeyFits(m, set.eq, elem))
     THEN Undefined(m, "family")
     ELSE CASE name = "hashset_count" -> Def(m, I64(Len(set.data)))
            [] name = "hashset_contains" ->
                 Def(m, I64(IF at = 0 THEN 0 ELSE 1))
            [] name = "hashset_insert" ->
                 Def(IF at = 0 THEN WithData(m, ops[1], Append(set.data, elem))
                     ELSE m, NoVal)
            [] name = "hashset_remove" ->
                 Def(IF at = 0 THEN m
                     ELSE WithData(m, ops[1], Without(set.data, at, 1)), NoVal)

-----------------------------------------------------------------------------
(* Pointers, printing and the system. *)

PointerBuiltin(m, name, ops) ==
  LET at == ElementAddr(ops[1], ops[2])
  IN IF name = "unsafe_ptr_allocate"
     THEN Alloc(m, Object("raw", "", Room(ops[1].n)))
     ELSE IF ~Is(m, ops[1], "raw") THEN Undefined(m, "family")
     ELSE CASE name = "unsafe_ptr_deallocate" ->
                 Def([m EXCEPT !.heap[ops[1].n].fam = "freed"], NoVal)
            [] name = "unsafe_ptr_subscript" -> LoadInst(m, at, "Int")
            [] name = "unsafe_ptr_subscript_addr" -> Def(m, at)

PrintOut(m, name, v) ==
  IF name = "print_string"
  THEN IF Is(m, v, "string") THEN Def(Trace(m, "string", <<v>>), NoVal)
       ELSE Undefined(m, "family")
  ELSE IF v.w \notin {"i1", "i64"} THEN Undefined(m, "width")
  ELSE IF name = "print_bool"
  THEN Def(Trace(m, "bool", <<I1(Widened(v).n # 0)>>), NoVal)
  ELSE Def(Trace(m, "int", <<Widened(v)>>), NoVal)

\* What the operating system is asked, and what it is asked with.
SystemParams ==
  [n \in {"readline", "file_getcwd", "process_get_args", "file_read_all",
          "file_exists", "file_remove", "env_get", "fs_mkdir", "fs_listdir",
          "fs_is_dir", "file_write_all", "file_append_all", "env_set",
          "fs_copy", "tcp_connect", "tcp_listen", "tcp_accept", "tcp_close",
          "tcp_read", "tcp_write", "process_exit"} |->
     CASE n \in {"readline", "file_getcwd", "process_get_args"} -> <<>>
       [] n \in {"file_read_all", "file_exists", "file_remove", "env_get",
                 "fs_mkdir", "fs_listdir", "fs_is_dir"} -> <<"ptr">>
       [] n \in {"file_write_all", "file_append_all", "env_set", "fs_copy"} ->
            <<"ptr", "ptr">>
       [] n \in {"tcp_listen", "tcp_accept", "tcp_close", "process_exit"} ->
            <<"i64">>
       [] n = "tcp_connect" -> <<"ptr", "i64">>
       [] n = "tcp_write" -> <<"i64", "ptr">>
       [] n = "tcp_read" -> <<"i64", "i64">>]
SystemBuiltin(m, name, ops) ==
  Then(Trace(m, name, ops), LAMBDA traced :
  IF WidthsOf(ops) # SystemParams[name] THEN Undefined(m, "width")
  ELSE CASE name \in {"readline", "file_getcwd", "file_read_all", "env_get",
                      "tcp_read"} -> NewString(traced, <<120>>)
         [] name \in {"process_get_args", "fs_listdir"} ->
              Alloc(traced, Object("list", "ptr", <<>>))
         [] name = "process_exit" ->
              [Def(traced, NoVal) EXCEPT !.halted = TRUE]
         [] OTHER -> Def(traced, I64(1)))

-----------------------------------------------------------------------------

ClosureObject(inst, list) ==
  Object("closure", "", <<Agg(list),
                          Agg([i \in DOMAIN inst.data |-> I64(inst.data[i])])>>)

\* The operands of an instruction are there when it is reached.
LowerValue(m, inst, ops, list) ==
  LET k == inst.k
      type == inst.type
  IN CASE k = "integer_literal" ->
            Def(m, Val(IF WidthOf(type) = "i1" THEN "i1" ELSE "i64",
                       Wrap(inst.data[1])))
       [] k = "float_literal" -> Def(m, Val("f64", inst.data[1]))
       [] k = "string_literal" -> NewString(m, inst.data)
       [] k = "alloc_stack" -> Alloc(m, Object("stack", "", <<Blank(type)>>))
       [] k = "load" -> LoadInst(m, ops[1], type)
       [] k = "store" -> Def(StoreTo(m, ops[2], ops[1]), NoVal)
       [] k = "function_ref" -> Alloc(m, Object("function", inst.name, <<>>))
       [] k = "partial_apply" -> Alloc(m, ClosureObject(inst, list))
       [] k = "apply" -> Apply(m, ops[1], list)
       [] k \in {"struct", "tuple"} -> Aggregate(m, type, list)
       [] k = "enum" -> Def(m, [Blank(type) EXCEPT !.parts[1] =
                                                     I64(inst.data[1])])
       [] k = "struct_extract" -> StructExtract(m, ops[1], inst.data[1])
       [] k = "struct_element_addr" ->
            StructElementAddr(m, ops[1], inst.of, inst.data[1])
       [] k = "tuple_extract" -> TupleExtract(m, ops[1], inst.data[1])
       [] k = "array_literal_init" -> Alloc(m, Object("array", "", list))
       [] k \in {"array_access", "array_element_addr"} ->
            ArrayBuiltin(m, k, ops, type)
       [] k = "alloc_class" -> Alloc(m, Object("object", "", list))
       [] k = "choose" -> Choose(m, ops, type)
       [] k = "retain" -> IF Is(m, ops[1], "object") THEN Def(m, NoVal)
                          ELSE Undefined(m, "family")

LowerBuiltin(m, inst, ops, list) ==
  LET k == inst.k
  IN CASE k \in IntArithmetic -> IntBinary(m, k, ops[1], ops[2])
       [] k \in IntComparison -> IntCompare(m, k, ops[1], ops[2])
       [] k \in FloatArithmetic -> FloatBinary(m, k, ops[1], ops[2])
       [] k \in FloatComparison -> FloatCompare(m, k, ops[1], ops[2])
       [] k \in UnaryNumeric -> NumericUnary(m, k, ops[1])
       [] k = "string_concat" \/ k \in Range(TextBuiltins) ->
            StringBuiltin(m, k, ops)
       [] k = "int_to_string" ->
            IF ops[1].w \notin {"i1", "i64"} THEN Undefined(m, "width")
            ELSE NewString(m, Decimal(Widened(ops[1]).n))
       [] k \in Range(ListBuiltins) -> ListBuiltin(m, k, ops, inst.type)
       [] k = "hashmap_create" ->
            Alloc(m, Object("dict", EqOf(WidthOf(inst.type)), <<>>))
       [] k = "dict_init" -> DictInitBuiltin(m, list)
       [] k \in {"hashmap_count", "hashmap_contains", "hashmap_get",
                 "hashmap_set", "hashmap_remove"} ->
            DictBuiltin(m, k, ops \o list)
       [] k \in {"hashset_create", "hashset_count", "hashset_contains",
                 "hashset_insert", "hashset_remove"} ->
            SetBuiltin(m, k, ops, inst.type)
       [] k \in Range(PointerBuiltins) -> PointerBuiltin(m, k, ops)
       [] k \in {"print_int", "print_bool", "print_string"} ->
            PrintOut(m, k, ops[1])
       [] k \in Range(SystemBuiltins) -> SystemBuiltin(m, k, ops)

ValueKinds == {"integer_literal", "float_literal", "string_literal",
               "alloc_stack", "load", "store", "function_ref",
               "partial_apply", "apply", "struct", "enum", "tuple",
               "struct_extract", "struct_element_addr", "tuple_extract",
               "array_literal_init", "array_access", "array_element_addr",
               "alloc_class", "choose", "retain"}

\* An instruction whose operand has no value is left out, and the list of
\* one that lost an element is shorter.
LowerSILInst(m, inst) ==
  LET ops == [i \in DOMAIN inst.ops |-> Value(m, inst.ops[i])]
  IN Then(SelectSeq([i \in DOMAIN inst.list |-> Value(m, inst.list[i])],
                    LAMBDA v : v.w # "none"), LAMBDA list :
     LET short == \/ Len(list) < Len(inst.list)
                  \/ inst.k \in {"struct", "array_literal_init", "alloc_class",
                                 "dict_init"}
                     /\ Len(list) < inst.data[1]
         m1 == IF short THEN Bad(m, "lost") ELSE m
     IN IF m.halted THEN Def(m, NoVal)
        ELSE IF \E i \in DOMAIN ops : ops[i].w = "none" THEN Lost(m)
        ELSE IF inst.k \in ValueKinds THEN LowerValue(m1, inst, ops, list)
        ELSE LowerBuiltin(m1, inst, ops, list))

Executed(insts) ==
  FoldLeft(LowerSILInst,
           [vals |-> <<>>, heap |-> <<>>, out |-> <<>>, bad |-> {},
            halted |-> FALSE], Generated(insts).sil)
=============================================================================
