---------------------------- MODULE CommandLine ----------------------------
(***************************************************************************)
(* The command line library (src/common/command_line.cpp): commands with   *)
(* flags, options, positional arguments and subcommands, and the parser    *)
(* that walks the words of a command line and fills the storage the        *)
(* options are bound to.                                                    *)
(*                                                                          *)
(* A word is the record its characters split into (Long, NoLong, Short,    *)
(* Dashes, Plain); every value, a flag's included, is a string.  Storage   *)
(* is a function from command and argument name to the value, or to the    *)
(* sequence of values where the argument appends.  No command of the       *)
(* toolchain has an integer argument, and that kind is left out.           *)
(***************************************************************************)
EXTENDS Naturals, Sequences, SequencesExt

NoValue == "<no value>"

-----------------------------------------------------------------------------
\* Words of the command line.

Long(name, value) ==
  [form |-> "long", name |-> name, negated |-> FALSE, value |-> value]
NoLong(name, value) ==
  [form |-> "long", name |-> name, negated |-> TRUE, value |-> value]
Short(letters, value) ==
  [form |-> "short", letters |-> letters, value |-> value]
Dashes == [form |-> "dashes"]
Plain(value) == [form |-> "plain", value |-> value]

ValueText(value) == IF value = NoValue THEN "" ELSE "=" \o value

\* How the word is spelled, which is what a positional argument after `--`
\* receives.
Spelling(word) ==
  CASE word.form = "plain" -> word.value
    [] word.form = "dashes" -> "--"
    [] word.form = "long" ->
         (IF word.negated THEN "--no-" ELSE "--")
           \o word.name \o ValueText(word.value)
    [] word.form = "short" ->
         FoldLeft(LAMBDA s, c : s \o c, "-", word.letters)
           \o ValueText(word.value)

-----------------------------------------------------------------------------
\* Commands and their arguments, as the builders leave them.

ArgOf(name, kind) ==
  [name |-> name, kind |-> kind, short_name |-> "", has_default |-> FALSE,
   default |-> NoValue, is_append |-> FALSE, is_required |-> FALSE,
   meta_action |-> "", value_strings |-> {}, initial |-> ""]

AddFlag(name, short_name, default) ==
  [ArgOf(name, "Flag") EXCEPT
     !.short_name = short_name, !.has_default = TRUE,
     !.default = default, !.initial = default]

AddStringOption(name) == ArgOf(name, "String")
AddStringSequence(name) == [ArgOf(name, "String") EXCEPT !.is_append = TRUE]

WithDefault(arg, value) ==
  [arg EXCEPT !.has_default = TRUE, !.default = value]

AddOneOfOption(name, values) ==
  [ArgOf(name, "OneOf") EXCEPT !.value_strings = values]

Required(arg) == [arg EXCEPT !.is_required = TRUE]

\* MetaPrinter::RegisterWithCommand: every command answers --help, one with a
\* version answers --version too.
MetaOptions(has_version) ==
  <<[WithDefault(AddOneOfOption("help", {"full", "short"}), "full")
       EXCEPT !.meta_action = "PrintHelp"]>>
    \o (IF has_version
          THEN <<[ArgOf("version", "MetaActionOnly")
                    EXCEPT !.meta_action = "PrintVersion"]>>
          ELSE <<>>)

CommandOf(name, kind, options, positional_args) ==
  [name |-> name, kind |-> kind, options |-> options \o MetaOptions(FALSE),
   positional_args |-> positional_args, subcommands |-> <<>>]

\* A command that needs a subcommand, with the ones the library adds.
RequiresSubcommand(name, options, subcommands) ==
  [name |-> name, kind |-> "RequiresSubcommand",
   options |-> options \o MetaOptions(TRUE), positional_args |-> <<>>,
   subcommands |-> subcommands
     \o <<CommandOf("help", "MetaAction", <<>>,
                    <<AddStringOption("subcommand")>>),
          CommandOf("version", "MetaAction", <<>>, <<>>)>>]

-----------------------------------------------------------------------------
\* The parser: the command in use, which of its options it has seen, the
\* positional argument it is at, and the storage.

InitialValue(arg) == IF arg.is_append THEN <<>> ELSE arg.initial

ArgNames(args) == {args[i].name : i \in DOMAIN args}
ArgNamed(args, name) ==
  args[CHOOSE i \in DOMAIN args : args[i].name = name]

InitialStorage(command) ==
  LET args == command.options \o command.positional_args
  IN  [name \in ArgNames(args) |-> InitialValue(ArgNamed(args, name))]

ParserOf(root) ==
  [command |-> root, parsed |-> {}, index |-> 1, appending |-> FALSE,
   suffix |-> FALSE, empty_positional |-> FALSE, meta_action |-> "",
   error |-> "", result |-> "",
   storage |->
     [name \in {root.name} \union ArgNames(root.subcommands) |->
        IF name = root.name THEN InitialStorage(root)
        ELSE InitialStorage(ArgNamed(root.subcommands, name))]]

Failed(p, error) == [p EXCEPT !.error = error]

Store(p, arg, value) ==
  [p EXCEPT !.storage[p.command.name][arg.name] =
     IF arg.is_append THEN Append(@, value) ELSE value]

SetOptionDefault(p, option) == Store(p, option, option.default)

ParseNegatedFlag(p, flag, value) ==
  CASE flag.kind # "Flag" -> Failed(p, "negated option is not a flag")
    [] flag.kind = "Flag" /\ value # NoValue ->
         Failed(p, "negated flag with a value")
    [] OTHER -> Store(p, flag, "false")

ParseFlag(p, flag, value) ==
  CASE value \in {NoValue, "true"} -> Store(p, flag, "true")
    [] value = "false" -> Store(p, flag, "false")
    [] OTHER -> Failed(p, "invalid value for a flag")

ParseOneOfArgValue(p, arg, value) ==
  IF value \in arg.value_strings THEN Store(p, arg, value)
  ELSE Failed(p, "invalid value for an option")

ParseArg(p, arg, value, negated) ==
  LET q == IF arg.meta_action = "" THEN p
           ELSE [p EXCEPT !.meta_action = arg.meta_action]
  IN  CASE negated -> ParseNegatedFlag(q, arg, value)
        [] ~negated /\ arg.kind = "Flag" -> ParseFlag(q, arg, value)
        [] ~negated /\ arg.kind = "MetaActionOnly" ->
             IF value = NoValue THEN q
             ELSE Failed(q, "value for a meta action")
        [] ~negated /\ arg.kind \in {"String", "OneOf"}
           /\ value = NoValue ->
             IF arg.has_default THEN SetOptionDefault(q, arg)
             ELSE Failed(q, "option requires a value")
        [] ~negated /\ arg.kind = "String" /\ value # NoValue ->
             Store(q, arg, value)
        [] OTHER -> ParseOneOfArgValue(q, arg, value)

\* Mutant: an option that was given counts as not seen.
Unseen(p, option) == p

Seen(p, option) == [p EXCEPT !.parsed = @ \union {option.name}]

ParseLongOption(p, word) ==
  IF word.name \notin ArgNames(p.command.options)
    THEN Failed(p, "unknown option")
    ELSE LET option == ArgNamed(p.command.options, word.name)
         IN  ParseArg(Seen(p, option), option, word.value, word.negated)

ShortOptions(p, letter) ==
  {o \in ToSet(p.command.options) : o.short_name = letter}

ParseShortOption(p, letter, value) ==
  CASE p.error # "" -> p
    [] p.error = "" /\ ShortOptions(p, letter) = {} ->
         Failed(p, "unknown short option")
    [] OTHER ->
         LET option == CHOOSE o \in ShortOptions(p, letter) : TRUE
         IN  ParseArg(Seen(p, option), option, value, FALSE)

ParseShortOptionSeq(p, word) ==
  IF word.value # NoValue /\ Len(word.letters) # 1
    THEN Failed(p, "value for a group of short options")
    ELSE LET after[n \in 0..Len(word.letters)] ==
               IF n = 0 THEN p
               ELSE ParseShortOption(after[n - 1], word.letters[n], word.value)
         IN  after[Len(word.letters)]

\* Defaults of the options that were not given; only then are missing
\* required options looked for.
FinalizeParsedOptions(p) ==
  LET unseen == {o \in ToSet(p.command.options) : o.name \notin p.parsed}
      Defaults(name) == {o \in unseen : /\ o.name = name /\ o.has_default
                                        /\ o.meta_action = ""}
      stored == p.storage[p.command.name]
      q == [p EXCEPT !.storage[p.command.name] =
              [name \in DOMAIN stored |->
                 IF Defaults(name) = {} THEN stored[name]
                 ELSE (CHOOSE o \in Defaults(name) : TRUE).default]]
  IN  IF \E o \in unseen : o.is_required
        THEN Failed(q, "required options not provided") ELSE q

ParsePositionalArg(p, text) ==
  IF p.index > Len(p.command.positional_args)
    THEN Failed(p, "additional positional argument")
    ELSE LET arg == p.command.positional_args[p.index]
         IN  ParseArg([p EXCEPT !.appending = arg.is_append,
                                !.index = IF arg.is_append THEN @ ELSE @ + 1],
                      arg, text, FALSE)

ParseSubcommand(p, name) ==
  IF name \notin ArgNames(p.command.subcommands)
    THEN Failed(p, "invalid subcommand")
    ELSE LET q == FinalizeParsedOptions(p)
         IN  IF q.error # "" THEN q
             ELSE [q EXCEPT !.command = ArgNamed(@.subcommands, name),
                            !.parsed = {}]

SuffixWord(p, word) ==
  IF word.form # "dashes"
    THEN [ParsePositionalArg(p, Spelling(word))
            EXCEPT !.empty_positional = FALSE]
    ELSE LET next == IF p.appending \/ p.empty_positional
                       THEN p.index + 1 ELSE p.index
             q == [p EXCEPT !.index = next, !.appending = FALSE,
                            !.empty_positional = TRUE]
         IN  IF next > p.index /\ next > Len(p.command.positional_args)
               THEN Failed(q, "no positional argument beyond --")
               ELSE q

ParsePositionalSuffix(p, word) ==
  CASE p.command.positional_args = <<>> ->
         Failed(p, "-- without positional arguments")
    [] p.command.positional_args # <<>>
       /\ p.index > Len(p.command.positional_args) ->
         Failed(p, "-- after all positional arguments")
    [] OTHER -> SuffixWord([p EXCEPT !.suffix = TRUE], word)

ParseWord(p, word) ==
  CASE p.error # "" -> p
    [] p.error = "" /\ p.suffix -> SuffixWord(p, word)
    [] p.error = "" /\ ~p.suffix /\ word.form = "dashes" ->
         ParsePositionalSuffix(p, word)
    [] p.error = "" /\ ~p.suffix /\ word.form = "long" ->
         ParseLongOption(p, word)
    [] p.error = "" /\ ~p.suffix /\ word.form = "short" ->
         ParseShortOptionSeq(p, word)
    [] OTHER ->
         IF p.command.positional_args # <<>>
           THEN ParsePositionalArg(p, word.value)
           ELSE IF p.command.subcommands # <<>>
             THEN ParseSubcommand(p, word.value)
             ELSE Failed(p, "unexpected positional argument")

\* The end of the words: a meta action wins over everything else, then
\* defaults, required positional arguments and the command's own action.
FinishCommand(p) ==
  LET done == IF p.appending THEN p.index + 1 ELSE p.index
      args == p.command.positional_args
      missing == done <= Len(args) /\ args[done].is_required
  IN  CASE p.error # "" -> p
        [] p.error = "" /\ missing -> Failed(p, "missing positional argument")
        [] p.error = "" /\ ~missing
           /\ p.command.kind = "RequiresSubcommand" ->
             Failed(p, "no subcommand specified")
        [] OTHER ->
             [p EXCEPT !.result = IF p.command.kind = "Action"
                                    THEN "Success" ELSE "MetaSuccess"]

FinalizeParse(p) ==
  CASE p.error # "" -> p
    [] p.error = "" /\ p.meta_action # "" ->
         [p EXCEPT !.result = "MetaSuccess"]
    [] OTHER -> FinishCommand(FinalizeParsedOptions(p))

Parse(root, words) ==
  LET after[n \in 0..Len(words)] ==
        IF n = 0 THEN ParserOf(root) ELSE ParseWord(after[n - 1], words[n])
  IN  FinalizeParse(after[Len(words)])

-----------------------------------------------------------------------------
(***************************************************************************)
(* The commands of the driver: the options each subcommand declares        *)
(* (CompileOptions::Build and its siblings) and the root command that      *)
(* selects one.  `language-server` and `clang` are run elsewhere; their    *)
(* options are here because the parser must accept them.                   *)
(***************************************************************************)
Flags(names) == [i \in DOMAIN names |-> AddFlag(names[i], "", "false")]

Phases ==
  <<"lex", "parse", "check", "sil", "lower", "optimize", "codegen">>

CompileOptions ==
  <<WithDefault(AddOneOfOption("phase", ToSet(Phases)), "codegen"),
    AddStringOption("output"),
    [AddOneOfOption("optimize", {"none", "debug", "speed", "size"})
       EXCEPT !.initial = "debug"],
    WithDefault(AddStringOption("target"), "host"),
    WithDefault(AddOneOfOption("dump-sem-ir-ranges",
                               {"if-present", "only", "ignore"}),
                "if-present"),
    AddStringSequence("exclude-dump-file-prefix"),
    AddStringSequence("define"),
    AddStringSequence("link-lib"),
    AddFlag("prelude-import", "", "true"),
    AddFlag("debug-info", "", "true"),
    AddFlag("verify-llvm-ir", "", "true")>>
  \o Flags(<<"asm-output", "force-obj-output", "stream-errors",
             "dump-shared-values", "dump-tokens",
             "omit-file-boundary-tokens", "dump-parse-tree",
             "preorder-parse-tree", "dump-raw-sem-ir", "dump-sem-ir",
             "builtin-sem-ir", "dump-sil", "dump-llvm-ir", "dump-asm",
             "dump-mem-usage", "dump-timings", "emit-object", "release",
             "lto-thin", "emit-bitcode">>)

Compile == CommandOf("compile", "Action", CompileOptions,
                     <<Required(AddStringSequence("FILE"))>>)

BuildOptions == Flags(<<"release">>) \o <<AddFlag("verbose", "v", "false")>>

Build == CommandOf("build", "Action", BuildOptions, <<>>)

Run == CommandOf("run", "Action", BuildOptions, <<AddStringSequence("ARGS")>>)

Test == CommandOf("test", "Action",
                  BuildOptions \o <<AddStringOption("filter")>>, <<>>)

Clang == CommandOf("clang", "Action", <<>>, <<AddStringSequence("ARGS")>>)

Format == CommandOf("format", "Action", <<AddFlag("in-place", "i", "false")>>,
                    <<Required(AddStringSequence("FILE"))>>)

LanguageServer == CommandOf("language-server", "Action", <<>>, <<>>)

\* Options::Build: the options of the driver itself and its subcommands.
TinySwift ==
  RequiresSubcommand("tinyswift",
    <<AddFlag("verbose", "v", "false"), AddFlag("fuzzing", "", "false"),
      AddFlag("include-diagnostic-kind", "", "false"),
      AddStringOption("prebuilt-runtimes")>>,
    <<Build, Clang, Compile, Format, LanguageServer, Run, Test>>)
=============================================================================
