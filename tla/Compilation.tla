---------------------------- MODULE Compilation ----------------------------
(***************************************************************************)
(* One run of `tinyswift compile`                                          *)
(* (src/toolchain/driver/compile_subcommand.cpp): every file goes through  *)
(* a phase before any file enters the next, the checker works on all files *)
(* in one context, and from the SIL on only the first unit counts.          *)
(*                                                                          *)
(* `world` is what the run meets: the files with the errors that lexing    *)
(* and parsing them reports and the declarations they hold, the prelude's  *)
(* files, and whether the tools around the compiler work.  An error is an  *)
(* offset, the number of the root node it is in; offset zero is no place   *)
(* in the file.                                                             *)
(*                                                                          *)
(* Diagnostics of a unit are buffered and sorted when flushed, or go to    *)
(* the stream at once.  `reported` is a history variable: all that was     *)
(* ever handed to a consumer.                                               *)
(*                                                                          *)
(* The checker is a parameter; Declarations is the one it is run with.     *)
(***************************************************************************)
EXTENDS CommandLine, Stepwise

CONSTANTS FreshContext,        \* the checker's context, before any file
          Checker(_, _, _, _)  \* the context after a pass over a file's roots

VARIABLES world, options, log, at, unit, units, context, pass, sil_ok,
          reported, shown, output, result

compile_vars ==
  <<world, options, log, at, unit, units, context, pass, sil_ok, reported,
    shown, output, result>>

Diagnostic(kind, file, offset) ==
  [kind |-> kind, file |-> file, offset |-> offset]
AtOffsets(kind, file, offsets) ==
  [i \in DOMAIN offsets |-> Diagnostic(kind, file, offsets[i])]

\* A flag, on the compile command line.
IsSet(flag) == options[flag] = "true"

Unit(name) ==
  [name |-> name, has_source |-> FALSE, success |-> TRUE, buffer |-> <<>>]

\* Phases in order; the run ends behind the one asked for.
PhaseNumber(phase) == CHOOSE i \in DOMAIN Phases : Phases[i] = phase
EndsWith(phase) == options["phase"] = phase

-----------------------------------------------------------------------------
\* Consumers: a unit's own, and the driver's.

StreamsDirectly == log \/ IsSet("stream-errors")

\* What unit u's consumer does with diagnostics.
Handle(us, u, diagnostics) ==
  IF StreamsDirectly THEN us
  ELSE [us EXCEPT ![u].buffer = @ \o diagnostics]
ShownAtOnce(diagnostics) == IF StreamsDirectly THEN diagnostics ELSE <<>>

HandledBy(u, us, diagnostics) ==
  /\ units' = Handle(us, u, diagnostics)
  /\ shown' = shown \o ShownAtOnce(diagnostics)
  /\ reported' = reported \o diagnostics

\* SortingConsumer::Flush sorts by offset; equal ones keep their order.
Sorted(buffer) ==
  LET last == Max({0} \cup {buffer[i].offset : i \in DOMAIN buffer})
  IN  FlattenSeq([n \in 1..(last + 1) |->
                    SelectSeq(buffer, LAMBDA d : d.offset = n - 1)])

FlushedAll(us) == [u \in DOMAIN us |-> [us[u] EXCEPT !.buffer = <<>>]]
Flushed(us) == FlattenSeq([u \in DOMAIN us |-> Sorted(us[u].buffer)])

\* Mutant: the consumers of the units are not flushed at the end.
FlushNothing ==
  /\ shown' = shown
  /\ units' = units

FlushAll ==
  /\ shown' = shown \o Flushed(units)
  /\ units' = FlushedAll(units)

\* The driver's consumer writes at once.
DriverReports(kind, file) ==
  /\ shown' = Append(shown, Diagnostic(kind, file, 0))
  /\ reported' = Append(reported, Diagnostic(kind, file, 0))

-----------------------------------------------------------------------------
\* Leaving the run.  The verdict is taken before the units are flushed.

AllSucceeded(us) == \A u \in DOMAIN us : us[u].success

Leave(us) ==
  /\ at' = "exit"
  /\ result' = AllSucceeded(us)

\* The next unit, or the next phase behind the last one.
NextUnit(us, phase, next) ==
  IF unit < Len(us)
  THEN /\ unit' = unit + 1
       /\ UNCHANGED <<at, result>>
  ELSE /\ unit' = 1
       /\ IF EndsWith(phase) THEN Leave(us)
          ELSE at' = next /\ UNCHANGED result

-----------------------------------------------------------------------------
\* CompileSubcommand::Run up to the units.

\* A dump of what comes behind the last phase.
FlagConflict ==
  LET Wants(flag, phase) ==
        IsSet(flag)
          /\ PhaseNumber(options["phase"]) < PhaseNumber(phase)
  IN  \/ Wants("dump-parse-tree", "parse")
      \/ Wants("dump-sem-ir", "check")
      \/ Wants("dump-sil", "sil")
      \/ Wants("dump-llvm-ir", "lower")

Refuse(kind) ==
  /\ DriverReports(kind, "")
  /\ at' = "done"
  /\ result' = FALSE
  /\ UNCHANGED <<world, options, log, unit, units, context, pass, sil_ok,
                 output>>

RefuseFlags == at = "compile" /\ FlagConflict /\ Refuse("FlagConflict")
RefuseTarget ==
  /\ at = "compile" /\ ~FlagConflict
  /\ options["target"] \notin world.targets
  /\ Refuse("TargetInvalid")

\* The clang invocation reports what is wrong with it by itself.
RefuseClang ==
  /\ at = "compile" /\ ~FlagConflict
  /\ options["target"] \in world.targets
  /\ ~world.clang
  /\ Refuse("ClangInvocation")

PreludeFiles == IF IsSet("prelude-import") THEN world.core ELSE <<>>

\* One unit per file, the prelude's first.
MakeUnits ==
  /\ at = "compile" /\ ~FlagConflict
  /\ options["target"] \in world.targets /\ world.clang
  /\ LET names == PreludeFiles \o options["FILE"]
     IN  units' = [i \in DOMAIN names |-> Unit(names[i])]
  /\ options' = IF IsSet("release")
                THEN [options EXCEPT !["optimize"] = "speed",
                                     !["lto-thin"] = "true"]
                ELSE options
  /\ at' = "lex" /\ unit' = 1
  /\ UNCHANGED <<world, log, context, pass, sil_ok, reported, shown, output,
                 result>>

-----------------------------------------------------------------------------
\* Lexing and parsing.

FileOf(u) == world.files[units[u].name]

RunLex ==
  LET name == units[unit].name
      opened == name \in DOMAIN world.files
      errors == IF opened THEN AtOffsets("Lex", name, FileOf(unit).lex)
                ELSE <<Diagnostic("ErrorOpeningFile", name, 0)>>
      lexed == [units EXCEPT ![unit].has_source = opened,
                             ![unit].success = @ /\ errors = <<>>]
  IN  /\ at = "lex"
      /\ HandledBy(unit, lexed, errors)
      /\ NextUnit(lexed, "lex", "parse")
      /\ UNCHANGED <<world, options, log, context, pass, sil_ok, output>>

\* A unit without a source is passed over.
RunParse ==
  LET name == units[unit].name
      errors == IF units[unit].has_source
                THEN AtOffsets("Parse", name, FileOf(unit).parse) ELSE <<>>
      parsed == [units EXCEPT ![unit].success = @ /\ errors = <<>>]
  IN  /\ at = "parse"
      /\ HandledBy(unit, parsed, errors)
      /\ NextUnit(parsed, "parse", "check")
      /\ context' = FreshContext
      /\ pass' = 1
      /\ UNCHANGED <<world, options, log, sil_ok, output>>

-----------------------------------------------------------------------------
\* Checking: the units that have a source, in one context, pass after pass.

WithSource(us) ==
  LET among[u \in 0..Len(us)] ==
        IF u = 0 THEN <<>>
        ELSE IF us[u].has_source THEN Append(among[u - 1], u)
             ELSE among[u - 1]
  IN  among[Len(us)]
CheckUnits == WithSource(units)

\* New errors of the checker, wherever they are, go to the consumer of the
\* first unit and spoil only its SemIR.
CheckFile ==
  LET u == CheckUnits[unit]
  IN Then(Checker(context, pass, unit, FileOf(u).nodes), LAMBDA checked :
     LET new == SubSeq(checked.diagnostics, Len(context.diagnostics) + 1,
                       Len(checked.diagnostics))
         errors == [i \in DOMAIN new |->
                      Diagnostic(new[i].kind, units[u].name, new[i].at)]
         last == unit = Len(CheckUnits)
     IN /\ at = "check" /\ pass <= 4 /\ CheckUnits # <<>>
        /\ context' = checked
        /\ HandledBy(CheckUnits[1], units, errors)
        /\ unit' = IF last THEN 1 ELSE unit + 1
        /\ pass' = IF last THEN pass + 1 ELSE pass
        /\ UNCHANGED <<world, options, log, at, sil_ok, output, result>>)

\* Mutant: only the first unit's failure stops the compilation.
BlockedByPrimary(us) == ~us[1].success

\* Errors block what comes behind checking.
Blocked(us) == ~AllSucceeded(us)

\* CheckParseTrees flushes the consumers of what it checked, then every
\* unit learns whether its SemIR has errors.
PostCheck ==
  LET primary == IF CheckUnits = <<>> THEN 0 ELSE CheckUnits[1]
      has_errors == context.diagnostics # <<>>
      Checked(u) ==
        [units[u] EXCEPT
           !.buffer = IF units[u].has_source THEN <<>> ELSE @,
           !.success = @ /\ ~(u = primary /\ has_errors)]
      checked == [u \in DOMAIN units |-> Checked(u)]
  IN  /\ at = "check" /\ (pass > 4 \/ CheckUnits = <<>>)
      /\ units' = checked
      /\ shown' = shown \o FlattenSeq([i \in DOMAIN CheckUnits |->
                                Sorted(units[CheckUnits[i]].buffer)])
      /\ IF EndsWith("check") \/ Blocked(checked) THEN Leave(checked)
         ELSE at' = "sil" /\ UNCHANGED result
      /\ UNCHANGED <<world, options, log, unit, context, pass, sil_ok,
                     reported, output>>

-----------------------------------------------------------------------------
\* The first unit alone: SIL, LLVM IR, object code.

\* The verifier and the mandatory passes write to the error stream, past the
\* consumers.
RunSilGen ==
  /\ at = "sil"
  /\ sil_ok' \in BOOLEAN
  /\ units' = [units EXCEPT ![1].success = @ /\ sil_ok']
  /\ IF EndsWith("sil") THEN Leave(units')
     ELSE at' = "lower" /\ UNCHANGED result
  /\ UNCHANGED <<world, options, log, unit, context, pass, reported, shown,
                 output>>

\* Neither lowering nor optimizing fails.
RunLower ==
  /\ at = "lower"
  /\ IF EndsWith("lower") \/ EndsWith("optimize") THEN Leave(units)
     ELSE at' = "codegen" /\ UNCHANGED result
  /\ UNCHANGED <<world, options, log, unit, units, context, pass, sil_ok,
                 reported, shown, output>>

\* What is asked to be written, by the first flag that is set.
OutputKind ==
  CASE IsSet("emit-bitcode") -> "bitcode"
    [] ~IsSet("emit-bitcode") /\ options["output"] = "-" ->
         IF IsSet("force-obj-output") THEN "object" ELSE "assembly"
    [] ~IsSet("emit-bitcode") /\ options["output"] # "-" ->
         CASE IsSet("asm-output") -> "assembly"
           [] ~IsSet("asm-output") /\ IsSet("emit-object") -> "object"
           [] OTHER -> "executable"

\* The first unit's verdict is now the code generator's.
CodeGenEnds(ok, written) ==
  /\ units' = [units EXCEPT ![1].success = ok]
  /\ result' = AllSucceeded(units')
  /\ output' = written
  /\ at' = "exit"

CodeGenUnchanged ==
  UNCHANGED <<world, options, log, unit, context, pass, sil_ok>>

\* An output without a name is named after the first unit's file, which
\* therefore has to be a file.
NeedsName ==
  options["output"] = "" /\ ~FileOf(1).regular

EmitFails(kind) ==
  /\ LET failed == [units EXCEPT ![1].success = FALSE]
     IN  HandledBy(1, failed, <<Diagnostic(kind, units[1].name, 0)>>)
  /\ result' = FALSE
  /\ at' = "exit"
  /\ UNCHANGED output
  /\ CodeGenUnchanged

RefuseUnnamed ==
  /\ at = "codegen" /\ NeedsName
  /\ DriverReports("CompileInputNotRegularFile", units[1].name)
  /\ CodeGenEnds(FALSE, output)
  /\ CodeGenUnchanged

\* The output, or the temporary object, cannot be opened or made.
OpenFails ==
  /\ at = "codegen" /\ ~NeedsName /\ options["output"] # "-"
  /\ "open" \in world.faults
  /\ DriverReports("CompileOutputFileOpenError", units[1].name)
  /\ CodeGenEnds(FALSE, output)
  /\ CodeGenUnchanged

UnableToEmit ==
  /\ at = "codegen" /\ ~NeedsName /\ OutputKind # "bitcode"
  /\ "emit" \in world.faults
  /\ EmitFails("CodeGenUnableToEmit")

LinkFails ==
  /\ at = "codegen" /\ ~NeedsName /\ OutputKind = "executable"
  /\ "link" \in world.faults
  /\ EmitFails("LinkFailed")

Emit ==
  /\ at = "codegen" /\ ~NeedsName
  /\ CodeGenEnds(TRUE, OutputKind)
  /\ UNCHANGED <<reported, shown>>
  /\ CodeGenUnchanged

-----------------------------------------------------------------------------
\* The scope exit: whatever is still buffered is flushed.
PostCompile ==
  /\ at = "exit"
  /\ FlushAll
  /\ at' = "done"
  /\ UNCHANGED <<world, options, log, unit, context, pass, sil_ok, reported,
                 output, result>>

CompileNext ==
  \/ RefuseFlags \/ RefuseTarget \/ RefuseClang \/ MakeUnits
  \/ RunLex \/ RunParse \/ CheckFile \/ PostCheck
  \/ RunSilGen \/ RunLower
  \/ RefuseUnnamed \/ OpenFails \/ UnableToEmit \/ LinkFails \/ Emit
  \/ PostCompile
=============================================================================
