------------------------------- MODULE Driver -------------------------------
(***************************************************************************)
(* The driver (src/toolchain/driver/driver.cpp): it checks its             *)
(* installation, parses the command line and runs the subcommand that was  *)
(* selected.  `compile` is Compilation; `format` is here                    *)
(* (format_subcommand.cpp); the other subcommands leave this model when    *)
(* they are selected.                                                       *)
(***************************************************************************)
EXTENDS Compilation, FiniteSets

CONSTANT Scenarios   \* command lines and the worlds they are run in

\* A command line is words the library can split, and a file's errors are
\* at places in it.
ASSUME ScenariosAssumption ==
  \A s \in Scenarios :
    /\ s.argv \in Seq(ToSet(s.argv))
    /\ \A i \in DOMAIN s.argv :
         s.argv[i].form = "short" => s.argv[i].letters \in Seq(STRING)
    /\ s.world.core \in Seq(STRING)
    /\ \A name \in DOMAIN s.world.files :
         /\ s.world.files[name].lex \in Seq(Nat)
         /\ s.world.files[name].parse \in Seq(Nat)

VARIABLES argv, parser

vars == <<compile_vars, argv, parser>>

\* Init: the driver's world is one of the scenarios'.
Init ==
  \E s \in Scenarios :
    /\ world = s.world /\ argv = s.argv
    /\ parser = ParserOf(TinySwift)
    /\ options = ParserOf(TinySwift).storage["compile"]
    /\ log = FALSE /\ at = "start"
    /\ unit = 1 /\ units = <<>> /\ context = FreshContext /\ pass = 0
    /\ sil_ok = TRUE /\ reported = <<>> /\ shown = <<>>
    /\ output = "none" /\ result = FALSE

Unchanged ==
  UNCHANGED <<world, argv, unit, units, context, pass, sil_ok, output>>

-----------------------------------------------------------------------------
\* Driver::RunCommand.

Fail(kind) ==
  /\ DriverReports(kind, "")
  /\ at' = "done" /\ result' = FALSE

RefuseInstallation ==
  /\ at = "start" /\ ~world.installed
  /\ Fail("DriverInstallInvalid")
  /\ UNCHANGED <<options, log, parser>>
  /\ Unchanged

\* An error is reported, a meta action has been answered, and else the
\* options of the driver are looked at before the subcommand runs.
ParseCommandLine ==
  \E p \in {Parse(TinySwift, argv)} :
    LET driver == p.storage["tinyswift"]
        Selected ==
          /\ at' = IF p.command.name \in {"compile", "format"}
                   THEN p.command.name ELSE "elsewhere"
          /\ log' = (driver["verbose"] = "true")
          /\ options' = p.storage["compile"]
          /\ UNCHANGED <<reported, shown, result>>
    IN /\ at = "start" /\ world.installed
       /\ parser' = p
       /\ CASE p.error # "" ->
                 /\ Fail("DriverCommandLineParseFailed")
                 /\ UNCHANGED <<log, options>>
            [] p.error = "" /\ p.result = "MetaSuccess" ->
                 /\ at' = "done" /\ result' = TRUE
                 /\ UNCHANGED <<log, options, reported, shown>>
            [] OTHER -> Selected
       /\ Unchanged

-----------------------------------------------------------------------------
\* FormatSubcommand::Run: each file by itself, through the driver's own
\* consumer.  Lexing errors are reported and the file is formatted anyway.

FormatOptions == parser.storage["format"]
FilesToFormat == FormatOptions["FILE"]

FormatNext ==
  IF unit < Len(FilesToFormat)
  THEN unit' = unit + 1 /\ UNCHANGED at
  ELSE at' = "done" /\ UNCHANGED unit

StartFormat ==
  /\ at = "format"
  /\ at' = "formatting" /\ result' = TRUE
  /\ UNCHANGED <<options, log, parser, reported, shown>>
  /\ Unchanged

FormatFile(errors, ok, written) ==
  /\ at = "formatting"
  /\ shown' = shown \o errors
  /\ reported' = reported \o errors
  /\ result' = (result /\ ok)
  /\ output' = IF written THEN "formatted" ELSE output
  /\ FormatNext
  /\ UNCHANGED <<world, argv, options, log, parser, units, context, pass,
                 sil_ok>>

Formatted == FilesToFormat[unit]

SkipMissing ==
  /\ at = "formatting" /\ Formatted \notin DOMAIN world.files
  /\ FormatFile(<<Diagnostic("ErrorOpeningFile", Formatted, 0)>>, FALSE,
                FALSE)

\* In place only a regular file is rewritten; opening it may fail.
FormatLoaded ==
  /\ at = "formatting" /\ Formatted \in DOMAIN world.files
  /\ LET file == world.files[Formatted]
         errors == AtOffsets("Lex", Formatted, file.lex)
         in_place == FormatOptions["in-place"] = "true" /\ file.regular
         refused ==
           <<Diagnostic("FormatOutputFileError", Formatted, 0)>>
     IN  \/ FormatFile(errors, TRUE, in_place)
         \/ /\ in_place /\ "open" \in world.faults
            /\ FormatFile(errors \o refused, FALSE, FALSE)

-----------------------------------------------------------------------------
Next ==
  \/ RefuseInstallation \/ ParseCommandLine
  \/ StartFormat \/ SkipMissing \/ FormatLoaded
  \/ CompileNext /\ UNCHANGED <<argv, parser>>

Spec == Init /\ [][Next]_vars

-----------------------------------------------------------------------------
\* Properties of the command line.

\* The words of the selected command: those behind its name, and in front
\* of `--`.
NameAt ==
  CHOOSE i \in DOMAIN argv :
    argv[i].form = "plain" /\ \A j \in 1..(i - 1) : argv[j].form # "plain"
WordsOf(command) ==
  IF command.name = "tinyswift" THEN SubSeq(argv, 1, NameAt - 1)
  ELSE SubSeq(argv, NameAt + 1, Len(argv))
BeforeDashes(words) ==
  SelectInSeq(words, LAMBDA w : w.form = "dashes")
OptionWords(words) ==
  IF BeforeDashes(words) = 0 THEN words
  ELSE SubSeq(words, 1, BeforeDashes(words) - 1)
SuffixWords(words) ==
  IF BeforeDashes(words) = 0 THEN <<>>
  ELSE SubSeq(words, BeforeDashes(words) + 1, Len(words))

\* The words that give an option, and the value each gives it.
Gives(word, option) ==
  \/ word.form = "long" /\ word.name = option.name
  \/ word.form = "short" /\ option.short_name \in ToSet(word.letters)
ValueGiven(word, option) ==
  CASE word.form = "long" /\ word.negated -> "false"
    [] word.value # NoValue -> word.value
    [] OTHER -> IF option.kind = "Flag" THEN "true" ELSE option.default
ValuesGiven(words, option) ==
  LET given == SelectSeq(OptionWords(words), LAMBDA w : Gives(w, option))
  IN  [i \in DOMAIN given |-> ValueGiven(given[i], option)]

OptionMeans(words, option) ==
  LET given == ValuesGiven(words, option)
  IN  CASE option.is_append -> given
        [] ~option.is_append /\ given # <<>> -> Last(given)
        [] OTHER -> IF option.has_default THEN option.default
                    ELSE option.initial

PositionalsGiven(words) ==
  LET plain == SelectSeq(OptionWords(words), LAMBDA w : w.form = "plain")
      all == plain \o SuffixWords(words)
  IN  [i \in DOMAIN all |-> Spelling(all[i])]

\* A command line that is accepted means what its words say one by one: an
\* option has the last value given to it, or its default; one that appends
\* has all values in their order; and the positional argument has every
\* word that is no option, what follows `--` included (Parser::Parse and
\* FinalizeParsedOptions in command_line.cpp).
ArgumentsAreApplied ==
  parser.result = "Success" =>
    \A command \in {TinySwift, parser.command} :
      LET stored == parser.storage[command.name]
          words == WordsOf(command)
          plain == SelectSeq(command.options,
                             LAMBDA o : o.meta_action = "")
      IN  /\ \A i \in DOMAIN plain :
               stored[plain[i].name] = OptionMeans(words, plain[i])
          /\ \A i \in DOMAIN command.positional_args :
               stored[command.positional_args[i].name]
                 = PositionalsGiven(words)

-----------------------------------------------------------------------------
\* Properties of a compilation.

Buffered(us) == FlattenSeq([u \in DOMAIN us |-> us[u].buffer])
Occurs(d, s) == Cardinality({i \in DOMAIN s : s[i] = d})
InOrder(s) ==
  \A i, j \in DOMAIN s : i < j => s[i].offset <= s[j].offset

\* Every diagnostic handed to a consumer is shown exactly once: at any
\* moment it is either shown or buffered, and when the driver returns
\* nothing is left in a buffer.  The errors of a single file, streaming
\* apart, are shown in the order of their places (SortingConsumer, and the
\* flushes of CheckParseTrees, PostCheck and PostCompile).
DiagnosticsAreShown ==
  LET kept == Buffered(units)
      located == SelectSeq(shown, LAMBDA d : d.offset > 0)
  IN  /\ \A d \in ToSet(reported) \cup ToSet(shown \o kept) :
           Occurs(d, reported) = Occurs(d, shown \o kept)
      /\ at = "done" => kept = <<>>
      /\ at = "done" /\ Len(units) = 1 /\ ~StreamsDirectly
           => InOrder(located)

\* Nothing is generated for a program with an error: what is reported by
\* lexing, parsing or checking any file keeps every output from being
\* written, and the run fails.  A run succeeds only if nothing was
\* reported, and a run that generates code and succeeds has written it
\* (CompileSubcommand::Run).
ErrorsStopCompilation ==
  /\ output \notin {"none", "formatted"} =>
       /\ \A u \in DOMAIN units : units[u].has_source
       /\ reported = <<>>
  /\ at = "done" /\ units # <<>> =>
       /\ result => reported = <<>>
       /\ result /\ EndsWith("codegen") => output # "none"
       /\ reported = <<>> /\ sil_ok => result
=============================================================================
