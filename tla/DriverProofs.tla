---------------------------- MODULE DriverProofs ----------------------------
(***************************************************************************)
(* Nothing is generated for a program with an error, for any command       *)
(* lines, any files and any checker that takes back no diagnostic.         *)
(*                                                                         *)
(* The argument follows what was reported through the phases: every error  *)
(* is one of a unit's or the checker's, and it is there as long as the run *)
(* may still stop for it.  Before that, there must be a unit: an accepted  *)
(* command line of `compile` names a file.                                 *)
(***************************************************************************)
EXTENDS Driver, SequenceTheorems, WellFoundedInduction, TLAPS

-----------------------------------------------------------------------------
(* The commands.                                                           *)

LEMMA NamedArg ==
  ASSUME NEW args, NEW name \in ArgNames(args)
  PROVE  /\ ArgNamed(args, name) \in ToSet(args)
         /\ ArgNamed(args, name).name = name
  <1>1. PICK k \in DOMAIN args : args[k].name = name
    BY DEF ArgNames
  <1>2. PICK j : j = CHOOSE i \in DOMAIN args : args[i].name = name
    OBVIOUS
  <1>3. j \in DOMAIN args /\ args[j].name = name
    BY <1>1, <1>2
  <1> QED BY <1>2, <1>3 DEF ArgNamed, ToSet

IsSeq(s) == \E S : s \in Seq(S)

\* The positional argument of `compile`.
FileArg == Required(AddStringSequence("FILE"))

LEMMA FileIs ==
  /\ Compile.positional_args = <<FileArg>> /\ Compile.name = "compile"
  /\ Compile.subcommands = <<>>
  /\ FileArg.name = "FILE" /\ FileArg.kind = "String"
  /\ FileArg.is_append = TRUE /\ FileArg.has_default = FALSE
  /\ FileArg.is_required = TRUE /\ FileArg.meta_action = ""
  BY DEF Compile, CommandOf, FileArg, Required, AddStringSequence, ArgOf

LEMMA Single ==
  ASSUME NEW e
  PROVE  <<e>>[1] = e /\ Len(<<e>>) = 1
  OBVIOUS

LEMMA NothingIn == Len(<<>>) = 0 /\ DOMAIN <<>> = {}
  OBVIOUS

LEMMA OneFileArg ==
  /\ Len(Compile.positional_args) = 1
  /\ Compile.positional_args[1] = FileArg
  /\ Compile.positional_args # <<>>
  <1>1. Compile.positional_args = <<FileArg>>
    BY ONLY FileIs
  <1>2. <<FileArg>>[1] = FileArg /\ Len(<<FileArg>>) = 1
    BY ONLY Single
  <1> QED BY <1>1, <1>2, EmptySeq

LEMMA NoArgs == ArgNames(<<>>) = {}
  BY NothingIn DEF ArgNames

\* No option of it has the same name.
FlagNames ==
  {"asm-output", "force-obj-output", "stream-errors", "dump-shared-values",
   "dump-tokens", "omit-file-boundary-tokens", "dump-parse-tree",
   "preorder-parse-tree", "dump-raw-sem-ir", "dump-sem-ir",
   "builtin-sem-ir", "dump-sil", "dump-llvm-ir", "dump-asm",
   "dump-mem-usage", "dump-timings", "emit-object", "release",
   "lto-thin", "emit-bitcode"}
OtherNames ==
  {"phase", "output", "optimize", "target", "dump-sem-ir-ranges",
   "exclude-dump-file-prefix", "define", "link-lib", "prelude-import",
   "debug-info", "verify-llvm-ir", "help"}

LEMMA ArgName ==
  /\ \A name, short, default : AddFlag(name, short, default).name = name
  /\ \A name : AddStringOption(name).name = name
  /\ \A name : AddStringSequence(name).name = name
  /\ \A name, values : AddOneOfOption(name, values).name = name
  /\ \A name, value : WithDefault(AddStringOption(name), value).name = name
  /\ \A name, values, value :
       WithDefault(AddOneOfOption(name, values), value).name = name
  /\ \A name, values, value :
       [AddOneOfOption(name, values) EXCEPT !.initial = value].name = name
  /\ \A name, values, value, action :
       [WithDefault(AddOneOfOption(name, values), value)
          EXCEPT !.meta_action = action].name = name
  BY DEF AddFlag, AddStringOption, AddStringSequence, AddOneOfOption,
         WithDefault, ArgOf

LEMMA FlagNamesListed ==
  <<"asm-output", "force-obj-output", "stream-errors",
    "dump-shared-values", "dump-tokens",
    "omit-file-boundary-tokens", "dump-parse-tree",
    "preorder-parse-tree", "dump-raw-sem-ir", "dump-sem-ir",
    "builtin-sem-ir", "dump-sil", "dump-llvm-ir", "dump-asm",
    "dump-mem-usage", "dump-timings", "emit-object", "release",
    "lto-thin", "emit-bitcode">> \in Seq(FlagNames)
  BY DEF FlagNames

LEMMA FlagsAre ==
  ASSUME NEW names \in Seq(FlagNames), NEW P,
         \A n \in FlagNames : AddFlag(n, "", "false") \in P
  PROVE  Flags(names) \in Seq(P)
  <1>1. /\ names \in [1..Len(names) -> FlagNames] /\ Len(names) \in Nat
        /\ DOMAIN names = 1..Len(names)
    BY LenProperties
  <1>2. Flags(names) \in [1..Len(names) -> P]
    BY <1>1 DEF Flags
  <1> QED BY <1>1, <1>2, SeqDef

LEMMA ElevenOptions ==
  ASSUME NEW P, NEW o1 \in P, NEW o2 \in P, NEW o3 \in P, NEW o4 \in P,
         NEW o5 \in P, NEW o6 \in P, NEW o7 \in P, NEW o8 \in P, NEW o9 \in P,
         NEW o10 \in P, NEW o11 \in P
  PROVE  <<o1, o2, o3, o4, o5, o6, o7, o8, o9, o10, o11>> \in Seq(P)
  OBVIOUS

LEMMA CompileOptionsAre ==
  /\ IsSeq(Compile.options)
  /\ \A o \in ToSet(Compile.options) : o.name # "FILE"
  <1>1. Compile.options = CompileOptions \o MetaOptions(FALSE)
    BY DEF Compile, CommandOf
  <1>2. PICK o1 : o1 =
          WithDefault(AddOneOfOption("phase", ToSet(Phases)), "codegen")
    OBVIOUS
  <1>3. PICK o2 : o2 = AddStringOption("output")
    OBVIOUS
  <1>4. PICK o3 : o3 =
          [AddOneOfOption("optimize", {"none", "debug", "speed", "size"})
             EXCEPT !.initial = "debug"]
    OBVIOUS
  <1>5. PICK o4 : o4 = WithDefault(AddStringOption("target"), "host")
    OBVIOUS
  <1>6. PICK o5 : o5 = WithDefault(AddOneOfOption("dump-sem-ir-ranges",
                         {"if-present", "only", "ignore"}), "if-present")
    OBVIOUS
  <1>7. PICK o6 : o6 = AddStringSequence("exclude-dump-file-prefix")
    OBVIOUS
  <1>8. PICK o7 : o7 = AddStringSequence("define")
    OBVIOUS
  <1>9. PICK o8 : o8 = AddStringSequence("link-lib")
    OBVIOUS
  <1>10. PICK o9 : o9 = AddFlag("prelude-import", "", "true")
    OBVIOUS
  <1>11. PICK o10 : o10 = AddFlag("debug-info", "", "true")
    OBVIOUS
  <1>12. PICK o11 : o11 = AddFlag("verify-llvm-ir", "", "true")
    OBVIOUS
  <1>13. PICK help : help =
          [WithDefault(AddOneOfOption("help", {"full", "short"}), "full")
             EXCEPT !.meta_action = "PrintHelp"]
    OBVIOUS
  <1>14. PICK names \in Seq(FlagNames) : names =
           <<"asm-output", "force-obj-output", "stream-errors",
             "dump-shared-values", "dump-tokens",
             "omit-file-boundary-tokens", "dump-parse-tree",
             "preorder-parse-tree", "dump-raw-sem-ir", "dump-sem-ir",
             "builtin-sem-ir", "dump-sil", "dump-llvm-ir", "dump-asm",
             "dump-mem-usage", "dump-timings", "emit-object", "release",
             "lto-thin", "emit-bitcode">>
    BY ONLY FlagNamesListed
  <1> DEFINE O == {o1, o2, o3, o4, o5, o6, o7, o8, o9, o10, o11, help}
  <1>15a. PICK P : P = O \cup {AddFlag(n, "", "false") : n \in FlagNames}
    OBVIOUS
  <1>15b. /\ o1 \in P /\ o2 \in P /\ o3 \in P /\ o4 \in P /\ o5 \in P
          /\ o6 \in P /\ o7 \in P /\ o8 \in P /\ o9 \in P /\ o10 \in P
          /\ o11 \in P /\ help \in P
    BY <1>15a
  <1>15c. \A n \in FlagNames : AddFlag(n, "", "false") \in P
    BY <1>15a
  <1>15. PICK flags \in Seq(P) : flags = Flags(names)
    BY <1>15c, FlagsAre
  <1>16a. <<o1, o2, o3, o4, o5, o6, o7, o8, o9, o10, o11>> \in Seq(P)
    BY ONLY <1>15b, ElevenOptions
  <1>16. PICK front \in Seq(P) :
           front = <<o1, o2, o3, o4, o5, o6, o7, o8, o9, o10, o11>>
    BY ONLY <1>16a
  <1>17. CompileOptions = front \o flags
    BY <1>2, <1>3, <1>4, <1>5, <1>6, <1>7, <1>8, <1>9, <1>10, <1>11, <1>12,
       <1>14, <1>15, <1>16 DEF CompileOptions
  <1>18a. <<help>> \in Seq(P) /\ <<>> \in Seq(P)
    BY ONLY <1>15b
  <1>18b. <<help>> \o <<>> \in Seq(P)
    BY ONLY <1>18a
  <1>18. PICK back \in Seq(P) : back = <<help>> \o <<>>
    BY ONLY <1>18b
  <1>19. MetaOptions(FALSE) = back
    BY <1>13, <1>18 DEF MetaOptions
  <1>20a. front \o flags \in Seq(P)
    BY ONLY <1>15, <1>16, ConcatProperties
  <1>20b. (front \o flags) \o back \in Seq(P)
    BY ONLY <1>18, <1>20a, ConcatProperties
  <1>20. Compile.options \in Seq(P)
    BY ONLY <1>1, <1>17, <1>19, <1>20b
  <1>21. \A o \in O : o.name \in OtherNames
    <2>1. /\ o1.name = "phase"
          /\ o2.name = "output"
          /\ o3.name = "optimize"
          /\ o4.name = "target"
      BY ONLY <1>2, <1>3, <1>4, <1>5, ArgName
    <2>2. /\ o5.name = "dump-sem-ir-ranges"
          /\ o6.name = "exclude-dump-file-prefix"
          /\ o7.name = "define"
          /\ o8.name = "link-lib"
      BY ONLY <1>6, <1>7, <1>8, <1>9, ArgName
    <2>3. /\ o9.name = "prelude-import"
          /\ o10.name = "debug-info"
          /\ o11.name = "verify-llvm-ir"
      BY <1>10, <1>11, <1>12 DEF AddFlag, ArgOf
    <2>4. help.name = "help"
      BY <1>13 DEF WithDefault, AddOneOfOption, ArgOf
    <2> QED BY <2>1, <2>2, <2>3, <2>4 DEF OtherNames
  <1>22a. \A n \in FlagNames : AddFlag(n, "", "false").name \in FlagNames
    BY DEF AddFlag, ArgOf
  <1>22. \A o \in P : o.name \in FlagNames \cup OtherNames
    BY <1>15a, <1>21, <1>22a
  <1>23. "FILE" \notin FlagNames \cup OtherNames
    BY DEF FlagNames, OtherNames
  <1>24. ToSet(Compile.options) \subseteq P
    BY <1>20 DEF ToSet
  <1> QED BY <1>20, <1>22, <1>23, <1>24 DEF IsSeq

\* The root command selects one of the others, and those select none.
LEMMA RootIs ==
  /\ TinySwift.name = "tinyswift" /\ TinySwift.positional_args = <<>>
  /\ TinySwift.kind = "RequiresSubcommand"
  /\ \A c \in ToSet(TinySwift.subcommands) :
       /\ c.subcommands = <<>> /\ c.name # "tinyswift"
       /\ c.name = "compile" => c = Compile
  /\ "compile" \in ArgNames(TinySwift.subcommands)
  <1>1. PICK help : help = CommandOf("help", "MetaAction", <<>>,
                                     <<AddStringOption("subcommand")>>)
    OBVIOUS
  <1>2. PICK version : version = CommandOf("version", "MetaAction", <<>>, <<>>)
    OBVIOUS
  <1>3. /\ help.name = "help" /\ help.subcommands = <<>>
        /\ version.name = "version" /\ version.subcommands = <<>>
    BY <1>1, <1>2 DEF CommandOf
  <1>4. PICK c1 : c1 = Build
    OBVIOUS
  <1>5. PICK c2 : c2 = Clang
    OBVIOUS
  <1>6. PICK c3 : c3 = Compile
    OBVIOUS
  <1>7. PICK c4 : c4 = Format
    OBVIOUS
  <1>8. PICK c5 : c5 = LanguageServer
    OBVIOUS
  <1>9. PICK c6 : c6 = Run
    OBVIOUS
  <1>10. PICK c7 : c7 = Test
    OBVIOUS
  <1>11. /\ c1.name = "build" /\ c1.subcommands = <<>>
         /\ c2.name = "clang" /\ c2.subcommands = <<>>
         /\ c3.name = "compile" /\ c3.subcommands = <<>>
         /\ c4.name = "format" /\ c4.subcommands = <<>>
    BY <1>4, <1>5, <1>6, <1>7
       DEF Build, Clang, Compile, Format, CommandOf
  <1>12. /\ c5.name = "language-server" /\ c5.subcommands = <<>>
         /\ c6.name = "run" /\ c6.subcommands = <<>>
         /\ c7.name = "test" /\ c7.subcommands = <<>>
    BY <1>8, <1>9, <1>10 DEF LanguageServer, Run, Test, CommandOf
  <1>13. /\ TinySwift.name = "tinyswift" /\ TinySwift.positional_args = <<>>
         /\ TinySwift.kind = "RequiresSubcommand"
         /\ TinySwift.subcommands
              = <<c1, c2, c3, c4, c5, c6, c7>> \o <<help, version>>
    BY <1>1, <1>2, <1>4, <1>5, <1>6, <1>7, <1>8, <1>9, <1>10
       DEF TinySwift, RequiresSubcommand
  <1>14. PICK P : P = {c1, c2, c3, c4, c5, c6, c7, help, version}
    OBVIOUS
  <1>15. PICK front \in Seq(P) : front = <<c1, c2, c3, c4, c5, c6, c7>>
    <2>1. <<c1, c2, c3, c4, c5, c6, c7>> \in Seq(P)
      BY ONLY <1>14
    <2> QED BY ONLY <2>1
  <1>16. PICK back \in Seq(P) : back = <<help, version>>
    <2>1. <<help, version>> \in Seq(P)
      BY ONLY <1>14
    <2> QED BY ONLY <2>1
  <1>17. /\ Len(front) = 7 /\ front[3] = c3 /\ Len(back) = 2
    BY ONLY <1>15, <1>16
  <1>18a. /\ front \o back \in Seq(P)
          /\ Len(front \o back) = Len(front) + Len(back)
          /\ \A i \in 1..Len(front) + Len(back) :
               (front \o back)[i] = IF i <= Len(front) THEN front[i]
                                   ELSE back[i - Len(front)]
    BY ONLY ConcatProperties, <1>15, <1>16
  <1>18. PICK all \in Seq(P) : all = front \o back
    BY ONLY <1>18a
  <1>19. 3 \in DOMAIN all /\ all[3] = c3
    BY <1>17, <1>18, <1>18a
  <1>20. TinySwift.subcommands = all
    BY <1>13, <1>15, <1>16, <1>18
  <1>21. ToSet(TinySwift.subcommands) \subseteq P
    BY <1>20 DEF ToSet
  <1>22. "compile" \in ArgNames(TinySwift.subcommands)
    BY <1>11, <1>19, <1>20 DEF ArgNames
  <1> QED BY <1>3, <1>6, <1>11, <1>12, <1>13, <1>14, <1>21, <1>22

-----------------------------------------------------------------------------
(* The parser.                                                              *)

Fields ==
  {"command", "parsed", "index", "appending", "suffix", "empty_positional",
   "meta_action", "error", "result", "storage"}
IsParser(p) == DOMAIN p = Fields

Files(p) == p.storage["compile"]["FILE"]
HoldsFiles(p) ==
  /\ "compile" \in DOMAIN p.storage
  /\ "FILE" \in DOMAIN p.storage["compile"]
  /\ IsSeq(Files(p))

\* q is p with values stored, and an error if it got one.
Keeps(q, p) ==
  /\ IsParser(q) /\ HoldsFiles(q)
  /\ q.command = p.command /\ q.index = p.index
  /\ q.appending = p.appending /\ q.suffix = p.suffix
  /\ Files(p) # <<>> => Files(q) # <<>>

LEMMA KeepsTrans ==
  ASSUME NEW p, NEW q, NEW r, Keeps(q, p), Keeps(r, q)
  PROVE  Keeps(r, p)
  BY DEF Keeps

\* An argument of the command that stores under the files' name appends.
Appends(command, arg) ==
  command.name = "compile" /\ arg.name = "FILE" => arg.is_append = TRUE

LEMMA FailedKeeps ==
  ASSUME NEW p, IsParser(p), HoldsFiles(p), NEW error
  PROVE  Keeps(Failed(p, error), p) /\ Failed(p, error).error = error
  <1>1. PICK q : q = Failed(p, error)
    OBVIOUS
  <1>2. /\ IsParser(q) /\ q.storage = p.storage /\ q.error = error
        /\ q.command = p.command /\ q.index = p.index
        /\ q.appending = p.appending /\ q.suffix = p.suffix
    BY <1>1 DEF Failed, IsParser, Fields
  <1> QED BY <1>1, <1>2 DEF Keeps, HoldsFiles, Files

LEMMA AppendIsSeq ==
  ASSUME NEW s, IsSeq(s), NEW e
  PROVE  IsSeq(Append(s, e)) /\ Append(s, e) # <<>>
  <1>1. PICK S : s \in Seq(S)
    BY DEF IsSeq
  <1>2. PICK T : T = S \cup {e}
    OBVIOUS
  <1>3. s \in Seq(T) /\ e \in T
    BY <1>1, <1>2
  <1>4. Append(s, e) \in Seq(T) /\ Append(s, e) # <<>>
    BY ONLY <1>3, AppendProperties
  <1> QED BY <1>4 DEF IsSeq

LEMMA StoreKeeps ==
  ASSUME NEW p, IsParser(p), HoldsFiles(p), NEW arg, NEW value,
         Appends(p.command, arg)
  PROVE  /\ Keeps(Store(p, arg, value), p)
         /\ p.command.name = "compile" /\ arg.name = "FILE"
              => Files(Store(p, arg, value)) # <<>>
         /\ Store(p, arg, value).error = p.error
  <1>1. PICK q : q = Store(p, arg, value)
    OBVIOUS
  <1>2. PICK c : c = p.command.name
    OBVIOUS
  <1>3. PICK st : st = p.storage
    OBVIOUS
  <1>4. PICK new : new = IF arg.is_append THEN Append(st[c][arg.name], value)
                         ELSE value
    OBVIOUS
  <1>5. /\ IsParser(q) /\ q.storage = [st EXCEPT ![c][arg.name] = new]
        /\ q.command = p.command /\ q.index = p.index /\ q.error = p.error
        /\ q.appending = p.appending /\ q.suffix = p.suffix
    BY <1>1, <1>2, <1>3, <1>4 DEF Store, IsParser, Fields
  <1>6. /\ "compile" \in DOMAIN st /\ "FILE" \in DOMAIN st["compile"]
        /\ IsSeq(st["compile"]["FILE"]) /\ Files(p) = st["compile"]["FILE"]
    BY <1>3 DEF HoldsFiles, Files
  <1>7. CASE c = "compile" /\ arg.name = "FILE"
    <2>1. new = Append(st["compile"]["FILE"], value)
      BY <1>2, <1>4, <1>7 DEF Appends
    <2>2. IsSeq(new) /\ new # <<>>
      BY <1>6, <2>1, AppendIsSeq
    <2>3. /\ "compile" \in DOMAIN q.storage
          /\ "FILE" \in DOMAIN q.storage["compile"]
          /\ q.storage["compile"]["FILE"] = new
      BY <1>5, <1>6, <1>7
    <2> QED BY <1>1, <1>5, <2>2, <2>3 DEF Keeps, HoldsFiles, Files
  <1>8. CASE ~(c = "compile" /\ arg.name = "FILE")
    <2>1. /\ "compile" \in DOMAIN q.storage
          /\ "FILE" \in DOMAIN q.storage["compile"]
          /\ q.storage["compile"]["FILE"] = st["compile"]["FILE"]
      BY <1>5, <1>6, <1>8
    <2> QED BY <1>1, <1>2, <1>5, <1>6, <1>8, <2>1 DEF Keeps, HoldsFiles, Files
  <1> QED BY <1>7, <1>8

\* The outcomes of an argument.
IsRefused(r, q) == \E error : error # "" /\ r = Failed(q, error)
IsStored(r, q, arg) == \E v : r = Store(q, arg, v)
ArgEnds(r, q, arg) ==
  \/ IsRefused(r, q) \/ IsStored(r, q, arg)
  \/ r = q /\ arg.kind = "MetaActionOnly"

LEMMA Refused ==
  ASSUME NEW q, NEW error, error # ""
  PROVE  IsRefused(Failed(q, error), q)
  BY DEF IsRefused

LEMMA Stored ==
  ASSUME NEW q, NEW arg, NEW v
  PROVE  IsStored(Store(q, arg, v), q, arg)
  BY DEF IsStored

LEMMA ArgOutcome ==
  ASSUME NEW p, NEW arg, NEW value, NEW negated,
         NEW q, q = IF arg.meta_action = "" THEN p
                    ELSE [p EXCEPT !.meta_action = arg.meta_action]
  PROVE  ArgEnds(ParseArg(p, arg, value, negated), q, arg)
  <1>1. CASE negated
    <2>1. ParseArg(p, arg, value, negated) = ParseNegatedFlag(q, arg, value)
      BY <1>1 DEF ParseArg
    <2> QED BY <2>1, Refused, Stored DEF ArgEnds, ParseNegatedFlag
  <1>2. CASE ~negated /\ arg.kind = "Flag"
    <2>1. ParseArg(p, arg, value, negated) = ParseFlag(q, arg, value)
      BY <1>2 DEF ParseArg
    <2> QED BY <2>1, Refused, Stored DEF ArgEnds, ParseFlag
  <1>3. CASE ~negated /\ arg.kind = "MetaActionOnly"
    BY <1>3, Refused DEF ArgEnds, ParseArg
  <1>4. CASE ~negated /\ arg.kind \in {"String", "OneOf"} /\ value = NoValue
    BY <1>4, Refused, Stored DEF ArgEnds, ParseArg, SetOptionDefault
  <1>5. CASE ~negated /\ arg.kind = "String" /\ value # NoValue
    BY <1>5, Stored DEF ArgEnds, ParseArg
  <1>6. CASE /\ ~negated /\ arg.kind # "Flag" /\ arg.kind # "MetaActionOnly"
             /\ ~(arg.kind \in {"String", "OneOf"} /\ value = NoValue)
             /\ ~(arg.kind = "String" /\ value # NoValue)
    <2>1. ParseArg(p, arg, value, negated) = ParseOneOfArgValue(q, arg, value)
      BY <1>6 DEF ParseArg
    <2> QED BY <2>1, Refused, Stored DEF ArgEnds, ParseOneOfArgValue
  <1> QED BY <1>1, <1>2, <1>3, <1>4, <1>5, <1>6

LEMMA ArgKeeps ==
  ASSUME NEW p, IsParser(p), HoldsFiles(p), NEW arg, NEW value, NEW negated,
         Appends(p.command, arg)
  PROVE  Keeps(ParseArg(p, arg, value, negated), p)
  <1>1. PICK q : q = IF arg.meta_action = "" THEN p
                     ELSE [p EXCEPT !.meta_action = arg.meta_action]
    OBVIOUS
  <1>2. Keeps(q, p)
    <2>1. CASE arg.meta_action = ""
      BY <1>1, <2>1 DEF Keeps
    <2>2. CASE arg.meta_action # ""
      <3>1. /\ IsParser(q) /\ q.storage = p.storage
            /\ q.command = p.command /\ q.index = p.index
            /\ q.appending = p.appending /\ q.suffix = p.suffix
        BY <1>1, <2>2 DEF IsParser, Fields
      <3> QED BY <3>1 DEF Keeps, HoldsFiles, Files
    <2> QED BY <2>1, <2>2
  <1>3. IsParser(q) /\ HoldsFiles(q) /\ Appends(q.command, arg)
    BY <1>2 DEF Keeps
  <1>4. PICK r : r = ParseArg(p, arg, value, negated)
    OBVIOUS
  <1>5. ArgEnds(r, q, arg)
    BY <1>1, <1>4, ArgOutcome
  <1>6. Keeps(r, q)
    <2>1. CASE r = q
      BY <1>3, <2>1 DEF Keeps
    <2>2. CASE IsRefused(r, q)
      BY <1>3, <2>2, FailedKeeps DEF IsRefused
    <2>3. CASE IsStored(r, q, arg)
      BY <1>3, <2>3, StoreKeeps DEF IsStored
    <2> QED BY <1>5, <2>1, <2>2, <2>3 DEF ArgEnds
  <1> QED BY <1>2, <1>4, <1>6, KeepsTrans

\* A file is stored, or refused.
LEMMA FileIsStored ==
  ASSUME NEW p, IsParser(p), HoldsFiles(p), NEW value,
         p.command.name = "compile"
  PROVE  \/ Files(ParseArg(p, FileArg, value, FALSE)) # <<>>
         \/ ParseArg(p, FileArg, value, FALSE).error # ""
  <1>1. PICK r : r = ParseArg(p, FileArg, value, FALSE)
    OBVIOUS
  <1>2. PICK arg : arg = FileArg
    OBVIOUS
  <1>3. /\ arg.name = "FILE" /\ arg.is_append = TRUE
        /\ arg.kind = "String" /\ arg.meta_action = ""
    BY ONLY <1>2, FileIs
  <1>4. ArgEnds(r, p, arg) /\ arg.kind # "MetaActionOnly"
    BY <1>1, <1>2, <1>3, ArgOutcome
  <1>5. CASE IsRefused(r, p)
    BY <1>1, <1>5, FailedKeeps DEF IsRefused
  <1>6. CASE IsStored(r, p, arg)
    <2>1. Appends(p.command, arg)
      BY <1>3 DEF Appends
    <2>2. PICK v : r = Store(p, arg, v)
      BY <1>6 DEF IsStored
    <2>3. Files(Store(p, arg, v)) # <<>>
      BY <1>3, <2>1, StoreKeeps
    <2> QED BY <1>1, <1>2, <2>2, <2>3
  <1> QED BY <1>4, <1>5, <1>6 DEF ArgEnds

-----------------------------------------------------------------------------
(* A command line, word after word.                                        *)

\* What holds of the parser between two words.
Sound(p) ==
  /\ IsParser(p) /\ HoldsFiles(p)
  /\ p.command \in {TinySwift} \cup ToSet(TinySwift.subcommands)
  /\ p.error = "" /\ p.command.name = "tinyswift" =>
       /\ p.command = TinySwift
       /\ p.index = 1 /\ p.appending = FALSE /\ p.suffix = FALSE
  /\ p.error = "" /\ p.command.name = "compile" =>
       /\ p.command = Compile
       /\ p.index = 1 /\ (p.appending => Files(p) # <<>>)

LEMMA KeepsSound ==
  ASSUME NEW p, NEW q, Sound(p), p.error = "", Keeps(q, p)
  PROVE  Sound(q)
  BY DEF Sound, Keeps

LEMMA OptionAppends ==
  ASSUME NEW p, Sound(p), p.error = "", NEW o \in ToSet(p.command.options)
  PROVE  Appends(p.command, o)
  BY CompileOptionsAre DEF Sound, Appends

LEMMA SeenKeeps ==
  ASSUME NEW p, IsParser(p), HoldsFiles(p), NEW o
  PROVE  Keeps(Seen(p, o), p)
  <1>1. PICK q : q = Seen(p, o)
    OBVIOUS
  <1>2. /\ IsParser(q) /\ q.storage = p.storage
        /\ q.command = p.command /\ q.index = p.index
        /\ q.appending = p.appending /\ q.suffix = p.suffix
    BY <1>1 DEF Seen, IsParser, Fields
  <1> QED BY <1>1, <1>2 DEF Keeps, HoldsFiles, Files

\* An option, by either of its names.
LEMMA OptionKeeps ==
  ASSUME NEW p, Sound(p), p.error = "", NEW o \in ToSet(p.command.options),
         NEW value, NEW negated
  PROVE  Keeps(ParseArg(Seen(p, o), o, value, negated), p)
  <1>1. IsParser(p) /\ HoldsFiles(p)
    BY DEF Sound
  <1>2. PICK q : q = Seen(p, o)
    OBVIOUS
  <1>3. Keeps(q, p)
    BY <1>1, <1>2, SeenKeeps
  <1>4. IsParser(q) /\ HoldsFiles(q) /\ Appends(q.command, o)
    BY <1>3, OptionAppends DEF Keeps
  <1>5. Keeps(ParseArg(q, o, value, negated), q)
    BY <1>4, ArgKeeps
  <1> QED BY <1>2, <1>3, <1>5, KeepsTrans

LEMMA LongIsSound ==
  ASSUME NEW p, Sound(p), p.error = "", NEW word
  PROVE  Sound(ParseLongOption(p, word))
  <1>1. CASE word.name \notin ArgNames(p.command.options)
    BY <1>1, FailedKeeps, KeepsSound DEF ParseLongOption, Sound
  <1>2. CASE word.name \in ArgNames(p.command.options)
    <2>1. PICK o : o = ArgNamed(p.command.options, word.name)
      OBVIOUS
    <2>2. o \in ToSet(p.command.options)
      BY <1>2, <2>1, NamedArg
    <2>3. ParseLongOption(p, word)
            = ParseArg(Seen(p, o), o, word.value, word.negated)
      BY <1>2, <2>1 DEF ParseLongOption
    <2> QED BY <2>2, <2>3, OptionKeeps, KeepsSound
  <1> QED BY <1>1, <1>2

LEMMA ShortIsSound ==
  ASSUME NEW p, Sound(p), NEW letter, NEW value
  PROVE  Sound(ParseShortOption(p, letter, value))
  <1>1. CASE p.error # ""
    BY <1>1 DEF ParseShortOption
  <1>2. CASE p.error = "" /\ ShortOptions(p, letter) = {}
    <2>1. PICK q : q = Failed(p, "unknown short option")
      OBVIOUS
    <2>2. ParseShortOption(p, letter, value) = q
      BY <1>2, <2>1 DEF ParseShortOption
    <2>3. Keeps(q, p)
      BY <2>1, FailedKeeps DEF Sound
    <2> QED BY ONLY Sound(p), <1>2, <2>2, <2>3, KeepsSound
  <1>3. CASE p.error = "" /\ ShortOptions(p, letter) # {}
    <2>1. PICK o : o = CHOOSE option \in ShortOptions(p, letter) : TRUE
      OBVIOUS
    <2>2. o \in ToSet(p.command.options)
      BY <1>3, <2>1 DEF ShortOptions
    <2>3. ParseShortOption(p, letter, value)
            = ParseArg(Seen(p, o), o, value, FALSE)
      BY <1>3, <2>1 DEF ParseShortOption
    <2> QED BY <1>3, <2>2, <2>3, OptionKeeps, KeepsSound
  <1> QED BY <1>1, <1>2, <1>3

LEMMA FinalizeKeeps ==
  ASSUME NEW p, Sound(p), p.error = ""
  PROVE  Keeps(FinalizeParsedOptions(p), p)
  <1> DEFINE unseen ==
               {o \in ToSet(p.command.options) : o.name \notin p.parsed}
             Defaults(name) ==
               {o \in unseen : /\ o.name = name /\ o.has_default
                               /\ o.meta_action = ""}
             c == p.command.name
             stored == p.storage[c]
             new == [name \in DOMAIN stored |->
                       IF Defaults(name) = {} THEN stored[name]
                       ELSE (CHOOSE o \in Defaults(name) : TRUE).default]
             q == [p EXCEPT !.storage[c] = new]
  <1>1. /\ IsParser(q) /\ q.storage = [p.storage EXCEPT ![c] = new]
        /\ q.command = p.command /\ q.index = p.index
        /\ q.appending = p.appending /\ q.suffix = p.suffix
    <2> HIDE DEF new
    <2> QED BY DEF Sound, IsParser, Fields
  <1>2. /\ "compile" \in DOMAIN p.storage
        /\ "FILE" \in DOMAIN p.storage["compile"] /\ IsSeq(Files(p))
    BY DEF Sound, HoldsFiles
  <1>3. /\ "compile" \in DOMAIN q.storage
        /\ "FILE" \in DOMAIN q.storage["compile"] /\ Files(q) = Files(p)
    <2>1. CASE c = "compile"
      <3>1. \A option \in ToSet(p.command.options) : option.name # "FILE"
        BY <2>1, CompileOptionsAre DEF Sound
      <3>2. Defaults("FILE") = {}
        BY <3>1
      <3>3. "FILE" \in DOMAIN new /\ new["FILE"] = stored["FILE"]
        BY <1>2, <2>1, <3>2
      <3> HIDE DEF new, q
      <3> QED BY <1>1, <1>2, <2>1, <3>3 DEF Files
    <2>2. CASE c # "compile"
      <3> HIDE DEF new, q
      <3> QED BY <1>1, <1>2, <2>2 DEF Files
    <2> QED BY <2>1, <2>2
  <1>4. Keeps(q, p)
    <2> HIDE DEF q
    <2> QED BY <1>1, <1>2, <1>3 DEF Keeps, HoldsFiles
  <1>5. \/ FinalizeParsedOptions(p) = q
        \/ \E error : FinalizeParsedOptions(p) = Failed(q, error)
    BY DEF FinalizeParsedOptions
  <1> HIDE DEF q
  <1>6. CASE FinalizeParsedOptions(p) = q
    BY <1>4, <1>6
  <1>7. CASE \E error : FinalizeParsedOptions(p) = Failed(q, error)
    <2>0. IsParser(q) /\ HoldsFiles(q)
      BY <1>4 DEF Keeps
    <2>1. Keeps(FinalizeParsedOptions(p), q)
      BY <1>7, <2>0, FailedKeeps
    <2> QED BY <1>4, <2>1, KeepsTrans
  <1> QED BY <1>5, <1>6, <1>7

\* Only the root command has subcommands.
LEMMA SubcommandIsSound ==
  ASSUME NEW p, Sound(p), p.error = "", NEW name
  PROVE  Sound(ParseSubcommand(p, name))
  <1>1. CASE name \notin ArgNames(p.command.subcommands)
    BY <1>1, FailedKeeps, KeepsSound DEF ParseSubcommand, Sound
  <1>2. CASE name \in ArgNames(p.command.subcommands)
    <2>1. p.command = TinySwift
      <3>1. p.command.subcommands # <<>>
        BY <1>2, NoArgs
      <3> QED BY <3>1, RootIs DEF Sound
    <2>2. p.index = 1 /\ p.appending = FALSE /\ p.suffix = FALSE
      BY <2>1, RootIs DEF Sound
    <2>3. PICK q : q = FinalizeParsedOptions(p)
      OBVIOUS
    <2>4. Keeps(q, p)
      BY <2>3, FinalizeKeeps
    <2>5. CASE q.error # ""
      BY <1>2, <2>3, <2>4, <2>5, KeepsSound DEF ParseSubcommand
    <2>6. CASE q.error = ""
      <3>1. PICK c : c = ArgNamed(TinySwift.subcommands, name)
        OBVIOUS
      <3>2. c \in ToSet(TinySwift.subcommands)
        BY <1>2, <2>1, <3>1, NamedArg
      <3>3. PICK r : r = [q EXCEPT !.command = c, !.parsed = {}]
        OBVIOUS
      <3>4. ParseSubcommand(p, name) = r
        BY <1>2, <2>1, <2>3, <2>4, <2>6, <3>1, <3>3 DEF ParseSubcommand, Keeps
      <3>5. /\ IsParser(r) /\ r.storage = q.storage /\ r.command = c
            /\ r.index = q.index /\ r.appending = q.appending
            /\ r.suffix = q.suffix
        BY <2>4, <3>3 DEF Keeps, IsParser, Fields
      <3>6. IsParser(r) /\ HoldsFiles(r)
        BY <2>4, <3>5 DEF Keeps, HoldsFiles, Files
      <3> QED BY <2>2, <2>4, <3>2, <3>4, <3>5, <3>6, RootIs DEF Sound, Keeps
    <2> QED BY <2>5, <2>6
  <1> QED BY <1>1, <1>2

LEMMA PositionalIsSound ==
  ASSUME NEW p, Sound(p), p.error = "", NEW text
  PROVE  Sound(ParsePositionalArg(p, text))
  <1>1. CASE p.index > Len(p.command.positional_args)
    BY <1>1, FailedKeeps, KeepsSound DEF ParsePositionalArg, Sound
  <1>2. CASE ~(p.index > Len(p.command.positional_args))
    <2>1. PICK arg : arg = p.command.positional_args[p.index]
      OBVIOUS
    <2>2. PICK q : q = [p EXCEPT !.appending = arg.is_append,
                                 !.index = IF arg.is_append THEN @ ELSE @ + 1]
      OBVIOUS
    <2>3. /\ IsParser(q) /\ q.storage = p.storage /\ q.command = p.command
          /\ q.appending = arg.is_append
          /\ q.index = IF arg.is_append THEN p.index ELSE p.index + 1
          /\ q.suffix = p.suffix
      BY <2>2 DEF Sound, IsParser, Fields
    <2>4. HoldsFiles(q)
      BY <2>3 DEF Sound, HoldsFiles, Files
    <2>5. PICK r : r = ParseArg(q, arg, text, FALSE)
      OBVIOUS
    <2>6. ParsePositionalArg(p, text) = r
      BY <1>2, <2>1, <2>2, <2>5 DEF ParsePositionalArg
    <2>7. p.command.name # "tinyswift"
      <3>1. SUFFICES ASSUME p.command.name = "tinyswift" PROVE FALSE
        OBVIOUS
      <3>2. p.index = 1 /\ p.command.positional_args = <<>>
        BY <3>1, RootIs DEF Sound
      <3> QED BY ONLY <1>2, <3>2, NothingIn
    <2>8. CASE p.command.name = "compile"
      <3>1. p.command = Compile /\ p.index = 1
        BY <2>8 DEF Sound
      <3>2. arg = FileArg
        BY <2>1, <3>1, OneFileArg
      <3>3. arg.is_append = TRUE /\ Appends(q.command, arg)
        BY <3>2, FileIs DEF Appends
      <3>4. Keeps(r, q)
        BY <2>3, <2>4, <2>5, <3>3, ArgKeeps
      <3>5. Files(r) # <<>> \/ r.error # ""
        BY <2>3, <2>4, <2>5, <2>8, <3>2, FileIsStored
      <3> QED BY <2>3, <2>6, <2>7, <3>1, <3>3, <3>4, <3>5 DEF Sound, Keeps
    <2>9. CASE p.command.name # "compile"
      <3>1. Keeps(r, q)
        BY <2>3, <2>4, <2>5, <2>9, ArgKeeps DEF Appends
      <3> QED BY <2>3, <2>6, <2>7, <2>9, <3>1 DEF Sound, Keeps
    <2> QED BY <2>8, <2>9
  <1> QED BY <1>1, <1>2

LEMMA SuffixWordIsSound ==
  ASSUME NEW p, Sound(p), p.error = "", p.command.name # "tinyswift", NEW word
  PROVE  Sound(SuffixWord(p, word))
  <1>1. CASE word.form # "dashes"
    <2>1. PICK q : q = ParsePositionalArg(p, Spelling(word))
      OBVIOUS
    <2>2. Sound(q)
      BY <2>1, PositionalIsSound
    <2>3. PICK r : r = [q EXCEPT !.empty_positional = FALSE]
      OBVIOUS
    <2>4. /\ IsParser(r) /\ r.storage = q.storage /\ r.command = q.command
          /\ r.index = q.index /\ r.appending = q.appending
          /\ r.suffix = q.suffix /\ r.error = q.error
      BY <2>2, <2>3 DEF Sound, IsParser, Fields
    <2>5. SuffixWord(p, word) = r
      BY <1>1, <2>1, <2>3 DEF SuffixWord
    <2> QED BY <2>2, <2>4, <2>5 DEF Sound, HoldsFiles, Files
  <1>2. CASE word.form = "dashes"
    <2>1. PICK next : next = IF p.appending \/ p.empty_positional
                             THEN p.index + 1 ELSE p.index
      OBVIOUS
    <2>2. PICK q : q = [p EXCEPT !.index = next, !.appending = FALSE,
                                 !.empty_positional = TRUE]
      OBVIOUS
    <2>3. /\ IsParser(q) /\ q.storage = p.storage /\ q.command = p.command
          /\ q.appending = FALSE /\ q.index = next
          /\ q.suffix = p.suffix /\ q.error = p.error
      BY <2>2 DEF Sound, IsParser, Fields
    <2>4. HoldsFiles(q)
      BY <2>3 DEF Sound, HoldsFiles, Files
    <2>5. SuffixWord(p, word)
            = IF next > p.index /\ next > Len(p.command.positional_args)
              THEN Failed(q, "no positional argument beyond --") ELSE q
      BY <1>2, <2>1, <2>2 DEF SuffixWord
    <2>6. CASE next > p.index /\ next > Len(p.command.positional_args)
      <3>1. PICK r : r = Failed(q, "no positional argument beyond --")
        OBVIOUS
      <3>2. Keeps(r, q) /\ r.error # ""
        BY <2>3, <2>4, <3>1, FailedKeeps
      <3>3. SuffixWord(p, word) = r
        BY <2>5, <2>6, <3>1
      <3> QED BY <2>3, <3>2, <3>3 DEF Sound, Keeps
    <2>7. CASE ~(next > p.index /\ next > Len(p.command.positional_args))
      <3>1. SuffixWord(p, word) = q
        BY <2>5, <2>7
      <3>2. ASSUME p.command.name = "compile"
            PROVE  p.command = Compile /\ next = 1
        <4>1. p.command = Compile /\ p.index = 1
          BY <3>2 DEF Sound
        <4>2. Len(p.command.positional_args) = 1
          BY ONLY <4>1, OneFileArg
        <4>3. next = p.index + 1 \/ next = p.index
          BY ONLY <2>1
        <4>4. next = 2 \/ next = 1
          <5>1. PICK i : i = p.index
            OBVIOUS
          <5>2. i = 1
            BY ONLY <4>1, <5>1
          <5>3. next = i + 1 \/ next = i
            BY ONLY <4>3, <5>1
          <5> QED BY ONLY <5>2, <5>3
        <4>5. CASE next = 2
          BY ONLY <2>7, <4>1, <4>2, <4>5
        <4> QED BY <4>1, <4>4, <4>5
      <3> QED BY <2>3, <2>4, <3>1, <3>2 DEF Sound
    <2> QED BY <2>6, <2>7
  <1> QED BY <1>1, <1>2

LEMMA SuffixIsSound ==
  ASSUME NEW p, Sound(p), p.error = "", NEW word
  PROVE  Sound(ParsePositionalSuffix(p, word))
  <1>1. CASE p.command.positional_args = <<>>
    <2>1. PICK q : q = Failed(p, "-- without positional arguments")
      OBVIOUS
    <2>2. ParsePositionalSuffix(p, word) = q
      BY <1>1, <2>1 DEF ParsePositionalSuffix
    <2>3. Keeps(q, p)
      BY <2>1, FailedKeeps DEF Sound
    <2> QED BY ONLY Sound(p), p.error = "", <2>2, <2>3, KeepsSound
  <1>2. CASE /\ p.command.positional_args # <<>>
             /\ p.index > Len(p.command.positional_args)
    <2>1. PICK q : q = Failed(p, "-- after all positional arguments")
      OBVIOUS
    <2>2. ParsePositionalSuffix(p, word) = q
      BY <1>2, <2>1 DEF ParsePositionalSuffix
    <2>3. Keeps(q, p)
      BY <2>1, FailedKeeps DEF Sound
    <2> QED BY ONLY Sound(p), p.error = "", <2>2, <2>3, KeepsSound
  <1>3. CASE /\ p.command.positional_args # <<>>
             /\ ~(p.index > Len(p.command.positional_args))
    <2>1. PICK q : q = [p EXCEPT !.suffix = TRUE]
      OBVIOUS
    <2>2. /\ IsParser(q) /\ q.storage = p.storage /\ q.command = p.command
          /\ q.appending = p.appending /\ q.index = p.index
          /\ q.error = p.error
      BY <2>1 DEF Sound, IsParser, Fields
    <2>3. p.command.name # "tinyswift"
      BY <1>3, RootIs DEF Sound
    <2>4. Sound(q)
      BY <2>2, <2>3 DEF Sound, HoldsFiles, Files
    <2>5. ParsePositionalSuffix(p, word) = SuffixWord(q, word)
      BY <1>3, <2>1 DEF ParsePositionalSuffix
    <2> QED BY <2>2, <2>3, <2>4, <2>5, SuffixWordIsSound
  <1> QED BY <1>1, <1>2, <1>3

-----------------------------------------------------------------------------
(* What goes through a list from its start: the letters of a word, the     *)
(* words of a command line and the units to be checked.                    *)

Step(kind, state, n, list, value) ==
  CASE kind = "letter" -> ParseShortOption(state, list[n], value)
    [] kind = "word" -> ParseWord(state, list[n])
    [] kind = "unit" -> IF list[n].has_source THEN Append(state, n) ELSE state

\* f[n] is the state behind the first n members.
Runs(f, kind, start, list, value, c) ==
  /\ f = [n \in 0..c |-> f[n]]
  /\ f[0] = start
  /\ \A n \in 1..c : f[n] = Step(kind, f[n - 1], n, list, value)

LEMMA Least ==
  ASSUME NEW T \in SUBSET Nat, T # {}
  PROVE  \E n \in T : \A m \in T : n <= m
  <1> DEFINE R == {pair \in Nat \X Nat : pair[1] < pair[2]}
  <1>1. IsWellFoundedOn(R, Nat)
    BY NatLessThanWellFounded DEF OpToRel
  <1> HIDE DEF R
  <1>2. PICK n \in T : \A m \in T : <<m, n>> \notin R
    BY <1>1, WFMin
  <1>3. \A m \in T : ~(m < n)
    BY <1>2 DEF R
  <1> QED BY <1>3

LEMMA RunsExist ==
  ASSUME NEW kind, NEW start, NEW list, NEW value, NEW c \in Nat
  PROVE  \E f : Runs(f, kind, start, list, value, c)
  <1> DEFINE T == {n \in Nat : ~\E f : Runs(f, kind, start, list, value, n)}
  <1> SUFFICES ASSUME T # {} PROVE FALSE
    OBVIOUS
  <1>1. PICK m \in T : \A x \in T : m <= x
    BY Least
  <1>2. m # 0
    <2>1. Runs([n \in 0..0 |-> start], kind, start, list, value, 0)
      BY DEF Runs
    <2> QED BY <1>1, <2>1
  <1>3. m - 1 \in Nat /\ m - 1 \notin T
    BY <1>1, <1>2
  <1>4. PICK f : Runs(f, kind, start, list, value, m - 1)
    BY <1>3
  <1>5. PICK last : last = Step(kind, f[m - 1], m, list, value)
    OBVIOUS
  <1> DEFINE g == [n \in 0..m |-> IF n = m THEN last ELSE f[n]]
  <1>6. Runs(g, kind, start, list, value, m)
    <2>1. g = [n \in 0..m |-> g[n]] /\ g[0] = start
      BY <1>2, <1>3, <1>4 DEF Runs
    <2>2. ASSUME NEW n \in 1..m
          PROVE  g[n] = Step(kind, g[n - 1], n, list, value)
      <3>1. n - 1 \in 0..m /\ n - 1 # m /\ n \in 0..m
        BY <1>1
      <3>2. g[n - 1] = f[n - 1]
        BY <3>1
      <3>3. CASE n = m
        BY <1>5, <3>1, <3>2, <3>3
      <3>4. CASE n # m
        <4>1. n \in 1..m - 1
          BY <1>1, <3>4
        <4>2. f[n] = Step(kind, f[n - 1], n, list, value)
          BY <1>4, <4>1 DEF Runs
        <4> QED BY <3>1, <3>2, <3>4, <4>2
      <3> QED BY <3>3, <3>4
    <2> QED BY <2>1, <2>2 DEF Runs
  <1> QED BY <1>1, <1>6

\* A function that is what the members make of it runs through them.
LEMMA RunIs ==
  ASSUME NEW f, NEW kind, NEW start, NEW list, NEW value, NEW c \in Nat,
         f = [n \in 0..c |-> IF n = 0 THEN start
                             ELSE Step(kind, f[n - 1], n, list, value)]
  PROVE  Runs(f, kind, start, list, value, c)
  <1>1. f = [n \in 0..c |-> f[n]] /\ f[0] = start
    OBVIOUS
  <1>2. ASSUME NEW n \in 1..c
        PROVE  f[n] = Step(kind, f[n - 1], n, list, value)
    <2>1. n \in 0..c /\ n # 0
      OBVIOUS
    <2> QED BY <2>1
  <1> QED BY <1>1, <1>2 DEF Runs

LEMMA RunBody ==
  ASSUME NEW f, NEW kind, NEW start, NEW list, NEW value, NEW c \in Nat,
         Runs(f, kind, start, list, value, c)
  PROVE  f = [n \in 0..c |-> IF n = 0 THEN start
                             ELSE Step(kind, f[n - 1], n, list, value)]
  <1>1. ASSUME NEW n \in 0..c
        PROVE  f[n] = IF n = 0 THEN start
                      ELSE Step(kind, f[n - 1], n, list, value)
    <2>1. CASE n = 0
      BY <2>1 DEF Runs
    <2>2. CASE n # 0
      <3>1. n \in 1..c
        BY <2>2
      <3> QED BY <2>2, <3>1 DEF Runs
    <2> QED BY <2>1, <2>2
  <1> QED BY <1>1 DEF Runs

\* A parser that each member leaves sound is sound at the end.
LEMMA RunIsSound ==
  ASSUME NEW f, NEW kind, NEW start, NEW list, NEW value, NEW c \in Nat,
         Runs(f, kind, start, list, value, c), Sound(start),
         \A n \in 1..c : \A p :
           Sound(p) => Sound(Step(kind, p, n, list, value))
  PROVE  Sound(f[c])
  <1> DEFINE T == {n \in 0..c : ~Sound(f[n])}
  <1> SUFFICES ASSUME T # {} PROVE FALSE
    OBVIOUS
  <1>0. T \in SUBSET Nat
    OBVIOUS
  <1>1. PICK m \in T : \A x \in T : m <= x
    BY <1>0, Least
  <1>2. m # 0
    BY <1>1 DEF Runs
  <1>3. m \in 1..c /\ m - 1 \in 0..c /\ m - 1 \notin T
    BY <1>1, <1>2
  <1>4. Sound(f[m - 1])
    BY <1>3
  <1>5. f[m] = Step(kind, f[m - 1], m, list, value)
    BY <1>3 DEF Runs
  <1> QED BY <1>1, <1>3, <1>4, <1>5

LEMMA ShortsAreSound ==
  ASSUME NEW p, Sound(p), p.error = "", NEW word, Len(word.letters) \in Nat
  PROVE  Sound(ParseShortOptionSeq(p, word))
  <1>1. CASE word.value # NoValue /\ Len(word.letters) # 1
    BY <1>1, FailedKeeps, KeepsSound DEF ParseShortOptionSeq, Sound
  <1>2. CASE ~(word.value # NoValue /\ Len(word.letters) # 1)
    <2> DEFINE c == Len(word.letters)
               body(f) ==
                 [n \in 0..c |->
                    IF n = 0 THEN p
                    ELSE ParseShortOption(f[n - 1], word.letters[n],
                                          word.value)]
               after == CHOOSE f : f = body(f)
    <2>1. PICK g : Runs(g, "letter", p, word.letters, word.value, c)
      BY RunsExist
    <2>2. \A n, q : Step("letter", q, n, word.letters, word.value)
                      = ParseShortOption(q, word.letters[n], word.value)
      BY DEF Step
    <2>3. g = body(g)
      <3>1. g = [n \in 0..c |->
                   IF n = 0 THEN p
                   ELSE Step("letter", g[n - 1], n, word.letters, word.value)]
        BY ONLY Len(word.letters) \in Nat, <2>1, RunBody
      <3> QED BY <2>2, <3>1
    <2>4. after = body(after)
      BY <2>3
    <2>5. ParseShortOptionSeq(p, word) = after[c]
      BY <1>2 DEF ParseShortOptionSeq
    <2> HIDE DEF after
    <2>6. Runs(after, "letter", p, word.letters, word.value, c)
      <3>1. after = [n \in 0..c |->
                       IF n = 0 THEN p
                       ELSE Step("letter", after[n - 1], n, word.letters,
                                 word.value)]
        BY <2>2, <2>4
      <3> QED BY <3>1, RunIs
    <2>7. \A n \in 1..c : \A q :
            Sound(q) => Sound(Step("letter", q, n, word.letters, word.value))
      BY <2>2, ShortIsSound
    <2> QED BY <2>1, <2>5, <2>6, <2>7, RunIsSound
  <1> QED BY <1>1, <1>2

LEMMA WordIsSound ==
  ASSUME NEW p, Sound(p), NEW word,
         word.form = "short" => Len(word.letters) \in Nat
  PROVE  Sound(ParseWord(p, word))
  <1>1. CASE p.error # ""
    BY <1>1 DEF ParseWord
  <1>2. CASE p.error = "" /\ p.suffix
    <2>1. p.command.name # "tinyswift"
      BY <1>2 DEF Sound
    <2> QED BY <1>2, <2>1, SuffixWordIsSound DEF ParseWord
  <1>3. CASE p.error = "" /\ ~p.suffix /\ word.form = "dashes"
    BY <1>3, SuffixIsSound DEF ParseWord
  <1>4. CASE p.error = "" /\ ~p.suffix /\ word.form = "long"
    BY <1>4, LongIsSound DEF ParseWord
  <1>5. CASE p.error = "" /\ ~p.suffix /\ word.form = "short"
    BY <1>5, ShortsAreSound DEF ParseWord
  <1>6. CASE /\ p.error = "" /\ ~p.suffix /\ word.form # "dashes"
             /\ word.form # "long" /\ word.form # "short"
    <2>1. CASE p.command.positional_args # <<>>
      BY <1>6, <2>1, PositionalIsSound DEF ParseWord
    <2>2. CASE p.command.positional_args = <<>> /\ p.command.subcommands # <<>>
      BY <1>6, <2>2, SubcommandIsSound DEF ParseWord
    <2>3. CASE p.command.positional_args = <<>> /\ p.command.subcommands = <<>>
      <3>1. ParseWord(p, word) = Failed(p, "unexpected positional argument")
        BY <1>6, <2>3 DEF ParseWord
      <3>2. IsParser(p) /\ HoldsFiles(p)
        BY DEF Sound
      <3>3. Keeps(ParseWord(p, word), p)
        BY <3>1, <3>2, FailedKeeps
      <3> QED BY <1>6, <3>3, KeepsSound
    <2> QED BY <2>1, <2>2, <2>3
  <1> QED BY <1>1, <1>2, <1>3, <1>4, <1>5, <1>6

LEMMA RootIsSound == Sound(ParserOf(TinySwift))
  <1>1. PICK p : p = ParserOf(TinySwift)
    OBVIOUS
  <1>2. PICK root : root = TinySwift
    OBVIOUS
  <1>3. PICK storage : storage =
          [name \in {root.name} \union ArgNames(root.subcommands) |->
             IF name = root.name THEN InitialStorage(root)
             ELSE InitialStorage(ArgNamed(root.subcommands, name))]
    OBVIOUS
  <1>4. /\ IsParser(p) /\ p.storage = storage /\ p.command = root
        /\ p.index = 1 /\ p.appending = FALSE /\ p.suffix = FALSE
    BY <1>1, <1>2, <1>3 DEF ParserOf, IsParser, Fields
  <1>5. storage["compile"] = InitialStorage(Compile)
    <2>1. ArgNamed(root.subcommands, "compile") = Compile
      BY <1>2, RootIs, NamedArg
    <2> QED BY <1>2, <1>3, <2>1, RootIs
  <1>6. PICK args : args = Compile.options \o Compile.positional_args
    OBVIOUS
  <1>7. /\ "FILE" \in ArgNames(args)
        /\ ArgNamed(args, "FILE") = FileArg
    <2>1. PICK P : Compile.options \in Seq(P)
      BY CompileOptionsAre DEF IsSeq
    <2>2. PICK Q : Q = P \cup {FileArg}
      OBVIOUS
    <2>3. Compile.options \in Seq(Q) /\ <<FileArg>> \in Seq(Q)
      BY <2>1, <2>2
    <2>4. PICK front \in Seq(Q), back \in Seq(Q) :
            front = Compile.options /\ back = <<FileArg>>
      BY ONLY <2>3
    <2>5. Len(back) = 1 /\ back[1] = FileArg
      BY ONLY <2>4, Single
    <2>6. args = front \o back
      BY ONLY <1>6, <2>4, FileIs
    <2>7. /\ args \in Seq(Q) /\ Len(args) = Len(front) + 1
          /\ \A i \in 1..Len(args) :
               args[i] = IF i <= Len(front) THEN front[i]
                         ELSE back[i - Len(front)]
      BY ONLY <2>4, <2>5, <2>6, ConcatProperties
    <2>8. PICK c \in Nat : c = Len(front)
      BY <2>4
    <2>9. DOMAIN args = 1..(c + 1) /\ Len(args) = c + 1
      BY ONLY <2>7, <2>8, LenProperties
    <2>10. args[c + 1] = FileArg
      <3>1. c + 1 \in 1..(c + 1) /\ ~(c + 1 <= c) /\ (c + 1) - c = 1
        OBVIOUS
      <3> QED BY ONLY <2>5, <2>7, <2>8, <2>9, <3>1
    <2>11. "FILE" \in ArgNames(args)
      <3>1. c + 1 \in DOMAIN args
        BY <2>9
      <3> QED BY <2>10, <3>1, FileIs DEF ArgNames
    <2>12. ASSUME NEW i \in DOMAIN args, args[i].name = "FILE"
           PROVE  args[i] = FileArg
      <3>1. CASE i = c + 1
        BY <2>10, <3>1
      <3>2. CASE i # c + 1
        <4>1. i \in 1..c /\ i <= c /\ i \in 1..Len(args)
          BY <2>9, <3>2
        <4>2. args[i] = front[i]
          BY ONLY <2>7, <2>8, <4>1
        <4>3. DOMAIN front = 1..c
          BY ONLY <2>4, <2>8, LenProperties
        <4>4. front[i] \in ToSet(Compile.options)
          BY <2>4, <4>1, <4>3 DEF ToSet
        <4> QED BY <2>12, <4>2, <4>4, CompileOptionsAre
      <3> QED BY <3>1, <3>2
    <2> QED BY <2>11, <2>12 DEF ArgNamed, ArgNames
  <1>8. PICK stored : stored = storage["compile"]
    OBVIOUS
  <1>9. "FILE" \in DOMAIN stored /\ stored["FILE"] = <<>>
    <2>1. stored = [name \in ArgNames(args) |->
                      InitialValue(ArgNamed(args, name))]
      BY <1>5, <1>6, <1>8 DEF InitialStorage
    <2>2. InitialValue(FileArg) = <<>>
      BY FileIs DEF InitialValue
    <2> QED BY <1>7, <2>1, <2>2
  <1>10. "compile" \in DOMAIN storage
    BY <1>2, <1>3, RootIs
  <1>11. HoldsFiles(p)
    <2>1. IsSeq(<<>>)
      BY DEF IsSeq
    <2> QED BY <1>4, <1>8, <1>9, <1>10, <2>1 DEF HoldsFiles, Files
  <1> QED BY <1>1, <1>2, <1>4, <1>11, RootIs DEF Sound

\* What a command line leaves of the files to be compiled.
ReadSoundly(p) ==
  /\ IsSeq(Files(p))
  /\ p.error = "" /\ p.result # "MetaSuccess" /\ p.command.name = "compile"
       => Files(p) # <<>>

LEMMA FinishIsSound ==
  ASSUME NEW p, Sound(p)
  PROVE  ReadSoundly(FinishCommand(p))
  <1>1. IsSeq(Files(p)) /\ IsParser(p) /\ HoldsFiles(p)
    BY DEF Sound, HoldsFiles
  <1>2. CASE p.error # ""
    BY <1>1, <1>2 DEF FinishCommand, ReadSoundly
  <1>3. CASE p.error = ""
    <2> DEFINE done == IF p.appending THEN p.index + 1 ELSE p.index
               args == p.command.positional_args
               missing == done <= Len(args) /\ args[done].is_required
    <2>1. CASE missing
      <3>1. FinishCommand(p) = Failed(p, "missing positional argument")
        BY <1>3, <2>1 DEF FinishCommand
      <3>2. /\ Keeps(FinishCommand(p), p)
            /\ FinishCommand(p).error = "missing positional argument"
        BY <1>1, <3>1, FailedKeeps
      <3> QED BY <3>2 DEF Keeps, HoldsFiles, ReadSoundly
    <2>3. CASE ~missing /\ p.command.kind = "RequiresSubcommand"
      <3>1. FinishCommand(p) = Failed(p, "no subcommand specified")
        BY <1>3, <2>3 DEF FinishCommand
      <3>2. /\ Keeps(FinishCommand(p), p)
            /\ FinishCommand(p).error = "no subcommand specified"
        BY <1>1, <3>1, FailedKeeps
      <3> QED BY <3>2 DEF Keeps, HoldsFiles, ReadSoundly
    <2>2. CASE ~missing /\ p.command.kind # "RequiresSubcommand"
      <3>1. PICK q : q = [p EXCEPT !.result = IF p.command.kind = "Action"
                                              THEN "Success"
                                              ELSE "MetaSuccess"]
        OBVIOUS
      <3>2. FinishCommand(p) = q
        BY <1>3, <2>2, <3>1 DEF FinishCommand
      <3>3. q.storage = p.storage /\ q.command = p.command
        BY <1>1, <3>1 DEF IsParser, Fields
      <3>4. ASSUME p.command.name = "compile" PROVE Files(p) # <<>>
        <4>1. p.command = Compile /\ p.index = 1
          BY <1>3, <3>4 DEF Sound
        <4>2. Len(args) = 1 /\ args[1].is_required = TRUE
          BY <4>1, OneFileArg, FileIs
        <4>3. done # 1
          BY <2>2, <4>2
        <4>4. p.appending
          BY <4>1, <4>3
        <4> QED BY <1>3, <3>4, <4>4 DEF Sound
      <3> QED BY <1>1, <3>2, <3>3, <3>4 DEF ReadSoundly, Files
    <2> QED BY <2>1, <2>2, <2>3
  <1> QED BY <1>2, <1>3

LEMMA ParseIsSound ==
  ASSUME NEW words, Len(words) \in Nat,
         \A i \in 1..Len(words) :
           words[i].form = "short" => Len(words[i].letters) \in Nat
  PROVE  ReadSoundly(Parse(TinySwift, words))
  <1> DEFINE c == Len(words)
             start == ParserOf(TinySwift)
             body(f) ==
               [n \in 0..c |->
                  IF n = 0 THEN start ELSE ParseWord(f[n - 1], words[n])]
             after == CHOOSE f : f = body(f)
  <1>1. PICK g : Runs(g, "word", start, words, NoValue, c)
    BY RunsExist
  <1>2. \A n, q : Step("word", q, n, words, NoValue) = ParseWord(q, words[n])
    BY DEF Step
  <1> HIDE DEF start
  <1>3. g = body(g)
    <2>1. g = [n \in 0..c |->
                 IF n = 0 THEN start
                 ELSE Step("word", g[n - 1], n, words, NoValue)]
      BY ONLY Len(words) \in Nat, <1>1, RunBody
    <2> QED BY <1>2, <2>1
  <1>4. after = body(after)
    BY <1>3
  <1>5. Parse(TinySwift, words) = FinalizeParse(after[c])
    BY DEF Parse, start
  <1> HIDE DEF after
  <1>6. Runs(after, "word", start, words, NoValue, c)
    <2>1. after = [n \in 0..c |->
                     IF n = 0 THEN start
                     ELSE Step("word", after[n - 1], n, words, NoValue)]
      BY <1>2, <1>4
    <2> QED BY <2>1, RunIs
  <1>7. \A n \in 1..c : \A q :
          Sound(q) => Sound(Step("word", q, n, words, NoValue))
    BY <1>2, WordIsSound
  <1>8. Sound(start)
    BY RootIsSound DEF start
  <1>9. PICK p : p = after[c] /\ Sound(p)
    BY <1>6, <1>7, <1>8, RunIsSound
  <1>10. IsSeq(Files(p)) /\ IsParser(p)
    BY <1>9 DEF Sound, HoldsFiles
  <1>11. CASE p.error # ""
    BY <1>5, <1>9, <1>10, <1>11 DEF FinalizeParse, ReadSoundly
  <1>12. CASE p.error = "" /\ p.meta_action # ""
    <2>1. PICK q : q = [p EXCEPT !.result = "MetaSuccess"]
      OBVIOUS
    <2>2. FinalizeParse(p) = q
      BY <1>12, <2>1 DEF FinalizeParse
    <2>3. q.storage = p.storage /\ q.result = "MetaSuccess"
      BY <1>10, <2>1 DEF IsParser, Fields
    <2> QED BY <1>5, <1>9, <1>10, <2>2, <2>3 DEF ReadSoundly, Files
  <1>13. CASE p.error = "" /\ p.meta_action = ""
    <2>1. FinalizeParse(p) = FinishCommand(FinalizeParsedOptions(p))
      BY <1>13 DEF FinalizeParse
    <2>2. Sound(FinalizeParsedOptions(p))
      BY <1>9, <1>13, FinalizeKeeps, KeepsSound
    <2> QED BY <1>5, <1>9, <2>1, <2>2, FinishIsSound
  <1> QED BY <1>11, <1>12, <1>13

-----------------------------------------------------------------------------
(* Units, and sequences of errors.                                          *)

LEMMA FunctionIsSeq ==
  ASSUME NEW n \in Nat, NEW f, f = [i \in 1..n |-> f[i]]
  PROVE  IsSeq(f) /\ Len(f) = n /\ (f = <<>> <=> n = 0)
  <1>1. PICK S : S = {f[i] : i \in 1..n}
    OBVIOUS
  <1>2. f \in [1..n -> S]
    BY <1>1
  <1>3. f \in Seq(S)
    BY <1>2, SeqDef
  <1>4. PICK m \in Nat : m = Len(f) /\ DOMAIN f = 1..m
    BY <1>3, LenProperties
  <1>5. 1..m = 1..n
    BY <1>2, <1>4
  <1>6. m = n
    <2>1. CASE m < n
      BY <1>5, <2>1
    <2>2. CASE n < m
      BY <1>5, <2>2
    <2> QED BY <2>1, <2>2
  <1>7. f = <<>> <=> n = 0
    <2>1. CASE n = 0
      <3>1. f \in Seq(S) /\ Len(f) = 0
        BY <1>3, <1>4, <1>6, <2>1
      <3> QED BY <2>1, <3>1, EmptySeq
    <2>2. CASE n # 0
      BY <1>4, <1>6, <2>2, NothingIn
    <2> QED BY <2>1, <2>2
  <1> QED BY <1>3, <1>4, <1>6, <1>7 DEF IsSeq

LEMMA SeqIsFunction ==
  ASSUME NEW s, IsSeq(s)
  PROVE  \E n \in Nat : n = Len(s) /\ DOMAIN s = 1..n
  <1>1. PICK S : s \in Seq(S)
    BY DEF IsSeq
  <1> QED BY <1>1, LenProperties

LEMMA ConcatIsSeq ==
  ASSUME NEW s, IsSeq(s), NEW t, IsSeq(t)
  PROVE  IsSeq(s \o t) /\ (s \o t = <<>> <=> s = <<>> /\ t = <<>>)
  <1>1. PICK S : s \in Seq(S)
    BY DEF IsSeq
  <1>2. PICK T : t \in Seq(T)
    BY DEF IsSeq
  <1>3. PICK U : U = S \cup T
    OBVIOUS
  <1>4. s \in Seq(U) /\ t \in Seq(U)
    BY <1>1, <1>2, <1>3
  <1>5. s \o t \in Seq(U) /\ Len(s \o t) = Len(s) + Len(t)
    BY ONLY <1>4, ConcatProperties
  <1>6. s \o t = <<>> <=> s = <<>> /\ t = <<>>
    BY ONLY <1>4, <1>5, EmptySeq
  <1> QED BY <1>5, <1>6 DEF IsSeq

LEMMA AtOffsetsIsSeq ==
  ASSUME NEW kind, NEW file, NEW offsets, IsSeq(offsets)
  PROVE  IsSeq(AtOffsets(kind, file, offsets))
  <1>1. PICK n \in Nat : n = Len(offsets) /\ DOMAIN offsets = 1..n
    BY SeqIsFunction
  <1>2. PICK f : f = AtOffsets(kind, file, offsets)
    OBVIOUS
  <1>3. f = [i \in 1..n |-> f[i]]
    BY <1>1, <1>2 DEF AtOffsets
  <1> QED BY <1>2, <1>3, FunctionIsSeq

LEMMA SingleIsSeq ==
  ASSUME NEW e
  PROVE  IsSeq(<<e>>) /\ <<e>> # <<>>
  <1>1. <<e>> \in Seq({e}) /\ <<e>> # <<>>
    OBVIOUS
  <1> QED BY <1>1 DEF IsSeq

LEMMA NoneIsSeq == IsSeq(<<>>)
  BY DEF IsSeq

UnitFields == {"name", "has_source", "success", "buffer"}
AreUnits(us, c) ==
  /\ us = [u \in 1..c |-> us[u]]
  /\ \A u \in 1..c :
       /\ DOMAIN us[u] = UnitFields
       /\ us[u].has_source \in BOOLEAN /\ us[u].success \in BOOLEAN

\* The units but for their buffers.
Alike(us, vs, c) ==
  \A u \in 1..c : /\ us[u].name = vs[u].name
                  /\ us[u].has_source = vs[u].has_source
                  /\ us[u].success = vs[u].success

LEMMA UnitsAreSeq ==
  ASSUME NEW c \in Nat, NEW us, AreUnits(us, c)
  PROVE  Len(us) = c /\ DOMAIN us = 1..c
  <1>1. us = [u \in 1..c |-> us[u]]
    BY DEF AreUnits
  <1>2. DOMAIN us = 1..c
    BY ONLY <1>1
  <1>3. Len(us) = c
    BY ONLY <1>1, c \in Nat, FunctionIsSeq
  <1> QED BY <1>2, <1>3

LEMMA HandleIsAlike ==
  ASSUME NEW c \in Nat, NEW us, AreUnits(us, c), NEW u, NEW diagnostics
  PROVE  /\ AreUnits(Handle(us, u, diagnostics), c)
         /\ Alike(Handle(us, u, diagnostics), us, c)
  <1>1. CASE StreamsDirectly
    BY <1>1 DEF Handle, Alike
  <1>2. CASE ~StreamsDirectly
    <2>1. PICK vs : vs = Handle(us, u, diagnostics)
      OBVIOUS
    <2>2. vs = [us EXCEPT ![u].buffer = @ \o diagnostics]
      BY <1>2, <2>1 DEF Handle
    <2>3. DOMAIN us = 1..c
      BY DEF AreUnits
    <2>4. PICK b : b = us[u].buffer \o diagnostics
      OBVIOUS
    <2>5. vs = [v \in 1..c |-> IF v = u THEN [us[u] EXCEPT !.buffer = b]
                               ELSE us[v]]
      BY <2>2, <2>3, <2>4
    <2>6. ASSUME NEW v \in 1..c
          PROVE  /\ DOMAIN vs[v] = UnitFields
                 /\ vs[v].name = us[v].name
                 /\ vs[v].has_source = us[v].has_source
                 /\ vs[v].success = us[v].success
      <3>1. DOMAIN us[v] = UnitFields
        BY DEF AreUnits
      <3>2. CASE v = u
        BY <2>5, <3>1, <3>2 DEF UnitFields
      <3>3. CASE v # u
        BY <2>5, <3>1, <3>3
      <3> QED BY <3>2, <3>3
    <2>7. vs = [v \in 1..c |-> vs[v]]
      BY <2>5
    <2> QED BY <2>1, <2>6, <2>7 DEF AreUnits, Alike
  <1> QED BY <1>1, <1>2

\* The units that have a source are found one after the other.
LEMMA WithSourceRuns ==
  ASSUME NEW c \in Nat, NEW us, AreUnits(us, c)
  PROVE  \E f : /\ Runs(f, "unit", <<>>, us, NoValue, c)
                /\ WithSource(us) = f[c]
  <1> DEFINE body(f) == [u \in 0..c |->
                           IF u = 0 THEN <<>>
                           ELSE IF us[u].has_source THEN Append(f[u - 1], u)
                                ELSE f[u - 1]]
             among == CHOOSE f : f = body(f)
  <1>1. PICK g : Runs(g, "unit", <<>>, us, NoValue, c)
    BY RunsExist
  <1>2. \A n, s : Step("unit", s, n, us, NoValue)
                    = IF us[n].has_source THEN Append(s, n) ELSE s
    BY DEF Step
  <1>3. g = body(g)
    <2>1. g = [n \in 0..c |->
                 IF n = 0 THEN <<>>
                 ELSE Step("unit", g[n - 1], n, us, NoValue)]
      BY ONLY c \in Nat, <1>1, RunBody
    <2> QED BY <1>2, <2>1
  <1>4. among = body(among)
    BY <1>3
  <1>5. WithSource(us) = among[c]
    <2>1. Len(us) = c
      BY UnitsAreSeq
    <2> QED BY <2>1 DEF WithSource
  <1> HIDE DEF among
  <1>6. among = [n \in 0..c |->
                   IF n = 0 THEN <<>>
                   ELSE Step("unit", among[n - 1], n, us, NoValue)]
    <2>1. among = [n \in 0..c |-> among[n]]
      BY <1>4
    <2>2. ASSUME NEW n \in 0..c
          PROVE  among[n] = IF n = 0 THEN <<>>
                            ELSE Step("unit", among[n - 1], n, us, NoValue)
      <3>1. among[n] = IF n = 0 THEN <<>>
                       ELSE IF us[n].has_source
                       THEN Append(among[n - 1], n) ELSE among[n - 1]
        BY <1>4
      <3> QED BY <1>2, <3>1
    <2> QED BY <2>1, <2>2
  <1>7. Runs(among, "unit", <<>>, us, NoValue, c)
    BY <1>6, RunIs
  <1> QED BY <1>5, <1>7

Sources(us, c) == {u \in 1..c : us[u].has_source}

LEMMA WithSourceIs ==
  ASSUME NEW c \in Nat, NEW us, AreUnits(us, c)
  PROVE  /\ WithSource(us) \in Seq(Sources(us, c))
         /\ Sources(us, c) # {} => WithSource(us) # <<>>
  <1>1. PICK f : /\ Runs(f, "unit", <<>>, us, NoValue, c)
                 /\ WithSource(us) = f[c]
    BY WithSourceRuns
  <1>2. PICK S : S = Sources(us, c)
    OBVIOUS
  <1>3. /\ f[0] = <<>>
        /\ \A n \in 1..c :
             f[n] = IF us[n].has_source THEN Append(f[n - 1], n)
                    ELSE f[n - 1]
    BY <1>1 DEF Runs, Step
  <1> DEFINE Right(n) ==
               f[n] \in Seq(S) /\ (S \cap 1..n # {} => f[n] # <<>>)
             T == {n \in 0..c : ~Right(n)}
  <1>4. T = {}
    <2> SUFFICES ASSUME T # {} PROVE FALSE
      OBVIOUS
    <2>1. T \in SUBSET Nat
      OBVIOUS
    <2>2. PICK m \in T : \A x \in T : m <= x
      BY <2>1, Least
    <2>3. m # 0
      <3>1. <<>> \in Seq(S)
        OBVIOUS
      <3>2. Right(0)
        BY <1>3, <3>1
      <3> QED BY <2>2, <3>2
    <2>4. m \in 1..c /\ m - 1 \in 0..c /\ m - 1 \notin T
      BY <2>2, <2>3
    <2>5. PICK s \in Seq(S) : s = f[m - 1]
      BY <2>4
    <2>6. CASE us[m].has_source
      <3>1. f[m] = Append(s, m) /\ m \in S
        BY <1>2, <1>3, <2>4, <2>5, <2>6 DEF Sources
      <3>2. Append(s, m) \in Seq(S) /\ Append(s, m) # <<>>
        BY ONLY <3>1, <2>5, AppendProperties
      <3> QED BY <2>2, <3>1, <3>2
    <2>7. CASE ~us[m].has_source
      <3>1. f[m] = s
        BY <1>3, <2>4, <2>5, <2>7
      <3>2. ASSUME NEW u \in S \cap 1..m PROVE s # <<>>
        <4>1. u \in 1..(m - 1)
          BY <1>2, <2>4, <2>7, <3>2 DEF Sources
        <4> QED BY <2>4, <2>5, <3>2, <4>1
      <3> QED BY <2>2, <3>1, <3>2
    <2> QED BY <2>6, <2>7
  <1>5. Right(c)
    BY <1>4
  <1>6. S \cap 1..c = S
    BY <1>2 DEF Sources
  <1> QED BY <1>1, <1>2, <1>5, <1>6

LEMMA SameSources ==
  ASSUME NEW c \in Nat, NEW us, NEW vs, AreUnits(us, c), AreUnits(vs, c),
         Alike(us, vs, c)
  PROVE  WithSource(us) = WithSource(vs)
  <1>1. PICK f : /\ Runs(f, "unit", <<>>, us, NoValue, c)
                 /\ WithSource(us) = f[c]
    BY WithSourceRuns
  <1>2. PICK g : /\ Runs(g, "unit", <<>>, vs, NoValue, c)
                 /\ WithSource(vs) = g[c]
    BY WithSourceRuns
  <1> DEFINE T == {n \in 0..c : f[n] # g[n]}
  <1>3. T = {}
    <2> SUFFICES ASSUME T # {} PROVE FALSE
      OBVIOUS
    <2>1. T \in SUBSET Nat
      OBVIOUS
    <2>2. PICK m \in T : \A x \in T : m <= x
      BY <2>1, Least
    <2>3. m # 0
      BY <1>1, <1>2, <2>2 DEF Runs
    <2>4. m \in 1..c /\ m - 1 \in 0..c /\ m - 1 \notin T
      BY <2>2, <2>3
    <2>5. f[m] = Step("unit", f[m - 1], m, us, NoValue)
      BY <1>1, <2>4 DEF Runs
    <2>6. g[m] = Step("unit", g[m - 1], m, vs, NoValue)
      BY <1>2, <2>4 DEF Runs
    <2>7. us[m].has_source = vs[m].has_source
      BY <2>4 DEF Alike
    <2> QED BY <2>2, <2>4, <2>5, <2>6, <2>7 DEF Step
  <1> QED BY <1>1, <1>2, <1>3

-----------------------------------------------------------------------------
(* The inductive invariant: what is known at each place of a run.           *)

\* What is asked of the checker: given one of its contexts and the roots of a
\* file, it returns one that holds no fewer diagnostics.  (The one place
\* where a pass of Declarations touches them appends.)
CheckerAppends(Contexts) ==
  /\ FreshContext \in Contexts /\ FreshContext.diagnostics = <<>>
  /\ \A before \in Contexts : IsSeq(before.diagnostics)
  /\ \A s \in Scenarios, before \in Contexts, p \in 1..4, f \in Nat \ {0} :
       \A name \in DOMAIN s.world.files :
         LET after == Checker(before, p, f, s.world.files[name].nodes)
         IN  /\ after \in Contexts
             /\ Len(after.diagnostics) >= Len(before.diagnostics)

InScenario == \E s \in Scenarios : world = s.world /\ argv = s.argv

AllOk(us, c) == \A u \in 1..c : us[u].success
Sourced(us, c) == \A u \in 1..c : us[u].success => us[u].has_source
Loaded(us, files, c) ==
  /\ c \in Nat \ {0} /\ AreUnits(us, c)
  /\ \A u \in 1..c : us[u].has_source => us[u].name \in DOMAIN files

Running(c) ==
  /\ Loaded(units, world.files, c) /\ IsSeq(reported)
  /\ output = "none" /\ sil_ok = TRUE

AtCompile ==
  /\ reported = <<>> /\ output = "none" /\ sil_ok = TRUE
  /\ IsSeq(options["FILE"]) /\ options["FILE"] # <<>>

\* The units in front of the one at hand have been opened or failed.
AtLex(c) ==
  /\ Running(c) /\ unit \in 1..c
  /\ reported = <<>> <=> AllOk(units, c)
  /\ \A u \in 1..c : /\ u < unit /\ units[u].success => units[u].has_source
                     /\ u >= unit => units[u].success

AtParse(c) ==
  /\ Running(c) /\ unit \in 1..c /\ Sourced(units, c)
  /\ reported = <<>> <=> AllOk(units, c)

\* What the checker reports is kept by its context, not by the units.
AtCheck(c, Contexts) ==
  /\ Running(c) /\ Sourced(units, c)
  /\ context \in Contexts /\ pass \in 1..5
  /\ CheckUnits # <<>> => unit \in 1..Len(CheckUnits)
  /\ context.diagnostics # <<>> => CheckUnits # <<>>
  /\ reported = <<>> <=> AllOk(units, c) /\ context.diagnostics = <<>>

AtSil(c) ==
  /\ Running(c) /\ Sourced(units, c) /\ AllOk(units, c) /\ reported = <<>>

\* From the SIL on only the first unit may fail.
Built(c) ==
  /\ Loaded(units, world.files, c)
  /\ reported = <<>> /\ output = "none" /\ sil_ok \in BOOLEAN
  /\ \A u \in 1..c : units[u].has_source
  /\ \A u \in 2..c : units[u].success
  /\ units[1].success = sil_ok

AtExit(c) ==
  /\ Loaded(units, world.files, c)
  /\ output # "none" =>
       reported = <<>> /\ \A u \in 1..c : units[u].has_source
  /\ result => reported = <<>>
  /\ result /\ EndsWith("codegen") => output # "none"
  /\ reported = <<>> /\ sil_ok => result

Idle == units = <<>> /\ output \in {"none", "formatted"}

IInv(Contexts) ==
  /\ InScenario
  /\ \/ at \in {"format", "formatting", "elsewhere", "done"} /\ Idle
     \/ /\ at = "start" /\ Idle
        /\ reported = <<>> /\ output = "none" /\ sil_ok = TRUE
     \/ at = "compile" /\ Idle /\ AtCompile
     \/ at = "lex" /\ \E c : AtLex(c)
     \/ at = "parse" /\ \E c : AtParse(c)
     \/ at = "check" /\ \E c : AtCheck(c, Contexts)
     \/ at = "sil" /\ \E c : AtSil(c)
     \/ at \in {"lower", "codegen"} /\ \E c : Built(c)
     \/ at \in {"exit", "done"} /\ \E c : AtExit(c)

LEMMA WorldIsSound ==
  ASSUME InScenario
  PROVE  /\ IsSeq(world.core)
         /\ Len(argv) \in Nat
         /\ \A i \in 1..Len(argv) :
              argv[i].form = "short" => Len(argv[i].letters) \in Nat
         /\ \A name \in DOMAIN world.files :
              /\ IsSeq(world.files[name].lex)
              /\ IsSeq(world.files[name].parse)
  <1>1. PICK s \in Scenarios : world = s.world /\ argv = s.argv
    BY DEF InScenario
  <1>2. /\ argv \in Seq(ToSet(argv))
        /\ \A i \in DOMAIN argv :
             argv[i].form = "short" => argv[i].letters \in Seq(STRING)
        /\ world.core \in Seq(STRING)
        /\ \A name \in DOMAIN world.files :
             /\ world.files[name].lex \in Seq(Nat)
             /\ world.files[name].parse \in Seq(Nat)
    BY <1>1, ScenariosAssumption
  <1>3. Len(argv) \in Nat /\ DOMAIN argv = 1..Len(argv)
    BY <1>2, LenProperties
  <1>4. ASSUME NEW i \in 1..Len(argv), argv[i].form = "short"
        PROVE  Len(argv[i].letters) \in Nat
    BY <1>2, <1>3, <1>4, LenProperties
  <1> QED BY <1>2, <1>3, <1>4 DEF IsSeq

\* Leaving the run before the code generator.
LEMMA LeavesSoundly ==
  ASSUME NEW c, Loaded(units', world.files', c),
         AllSucceeded(units') = result', output' = "none", sil_ok' = TRUE,
         reported' = <<>> <=> AllOk(units', c),
         AllOk(units', c) => ~EndsWith("codegen")'
  PROVE  AtExit(c)'
  <1>1. DOMAIN units' = 1..c
    BY DEF Loaded, AreUnits
  <1>2. result' <=> AllOk(units', c)
    BY <1>1 DEF AllSucceeded, AllOk
  <1> QED BY <1>2 DEF AtExit

LEMMA InitIsSound ==
  ASSUME NEW Contexts, Init
  PROVE  IInv(Contexts)
  BY DEF Init, IInv, InScenario, Idle

LEMMA RefuseInstallationStep ==
  ASSUME NEW Contexts, IInv(Contexts), RefuseInstallation
  PROVE  IInv(Contexts)'
  <1>1. Idle /\ InScenario
    BY DEF RefuseInstallation, IInv
  <1>2. Idle' /\ InScenario' /\ at' = "done"
    BY <1>1 DEF RefuseInstallation, Fail, Unchanged, Idle, InScenario
  <1> QED BY <1>2 DEF IInv

LEMMA ParseStep ==
  ASSUME NEW Contexts, IInv(Contexts), ParseCommandLine
  PROVE  IInv(Contexts)'
  <1>1. /\ InScenario /\ Idle /\ at = "start"
        /\ reported = <<>> /\ output = "none" /\ sil_ok = TRUE
    BY DEF ParseCommandLine, IInv
  <1>2. PICK p : p = Parse(TinySwift, argv)
    OBVIOUS
  <1>3. ReadSoundly(p)
    BY <1>1, <1>2, WorldIsSound, ParseIsSound
  <1>4. InScenario' /\ Idle' /\ output' = "none" /\ sil_ok' = TRUE
    BY <1>1 DEF ParseCommandLine, Unchanged, InScenario, Idle
  <1>5. CASE p.error # ""
    <2>1. at' = "done"
      BY <1>2, <1>5 DEF ParseCommandLine, Fail
    <2> QED BY <1>4, <2>1 DEF IInv
  <1>6. CASE p.error = "" /\ p.result = "MetaSuccess"
    <2>1. at' = "done"
      BY <1>2, <1>6 DEF ParseCommandLine
    <2> QED BY <1>4, <2>1 DEF IInv
  <1>7. CASE p.error = "" /\ p.result # "MetaSuccess"
    <2>1. /\ at' = IF p.command.name \in {"compile", "format"}
                   THEN p.command.name ELSE "elsewhere"
          /\ options' = p.storage["compile"]
          /\ reported' = reported
      BY <1>2, <1>7 DEF ParseCommandLine
    <2>2. CASE p.command.name = "compile"
      <3>1. at' = "compile"
        BY <2>1, <2>2
      <3>2. IsSeq(Files(p)) /\ Files(p) # <<>>
        BY <1>3, <1>7, <2>2 DEF ReadSoundly
      <3>3. AtCompile'
        BY <1>1, <1>4, <2>1, <3>2 DEF AtCompile, Files
      <3> QED BY <1>4, <3>1, <3>3 DEF IInv
    <2>3. CASE p.command.name # "compile"
      <3>1. at' \in {"format", "elsewhere"}
        BY <2>1, <2>3
      <3> QED BY <1>4, <3>1 DEF IInv
    <2> QED BY <2>2, <2>3
  <1> QED BY <1>5, <1>6, <1>7

LEMMA StartFormatStep ==
  ASSUME NEW Contexts, IInv(Contexts), StartFormat
  PROVE  IInv(Contexts)'
  <1>1. Idle /\ InScenario
    BY DEF StartFormat, IInv
  <1>2. Idle' /\ InScenario' /\ at' = "formatting"
    BY <1>1 DEF StartFormat, Unchanged, Idle, InScenario
  <1> QED BY <1>2 DEF IInv

LEMMA FormatFileStep ==
  ASSUME NEW Contexts, IInv(Contexts),
         NEW errors, NEW ok, NEW written, FormatFile(errors, ok, written)
  PROVE  IInv(Contexts)'
  <1>1. Idle /\ InScenario
    BY DEF FormatFile, IInv
  <1>2. Idle' /\ InScenario'
    BY <1>1 DEF FormatFile, Idle, InScenario
  <1>3. at' \in {"formatting", "done"}
    BY DEF FormatFile, FormatNext
  <1> QED BY <1>2, <1>3 DEF IInv

LEMMA FormatStep ==
  ASSUME NEW Contexts, IInv(Contexts), SkipMissing \/ FormatLoaded
  PROVE  IInv(Contexts)'
  <1>1. PICK errors, ok, written : FormatFile(errors, ok, written)
    BY DEF SkipMissing, FormatLoaded
  <1> QED BY <1>1, FormatFileStep

-----------------------------------------------------------------------------
(* A compilation, step by step.                                             *)

LEMMA RefuseStep ==
  ASSUME NEW Contexts, IInv(Contexts), UNCHANGED argv,
         RefuseFlags \/ RefuseTarget \/ RefuseClang
  PROVE  IInv(Contexts)'
  <1>1. Idle /\ InScenario
    BY DEF RefuseFlags, RefuseTarget, RefuseClang, IInv
  <1>2. PICK kind : Refuse(kind)
    BY DEF RefuseFlags, RefuseTarget, RefuseClang
  <1>3. Idle' /\ InScenario' /\ at' = "done"
    BY <1>1, <1>2 DEF Refuse, Idle, InScenario
  <1> QED BY <1>3 DEF IInv

LEMMA MakeUnitsStep ==
  ASSUME NEW Contexts, IInv(Contexts), MakeUnits, UNCHANGED argv
  PROVE  IInv(Contexts)'
  <1>1. InScenario /\ AtCompile
    BY DEF MakeUnits, IInv
  <1>2. InScenario'
    BY <1>1 DEF MakeUnits, InScenario
  <1>3. PICK names : names = PreludeFiles \o options["FILE"]
    OBVIOUS
  <1>4. IsSeq(names) /\ names # <<>>
    <2>1. IsSeq(PreludeFiles)
      BY <1>1, WorldIsSound, NoneIsSeq DEF PreludeFiles
    <2>2. IsSeq(options["FILE"]) /\ options["FILE"] # <<>>
      BY <1>1 DEF AtCompile
    <2> QED BY <1>3, <2>1, <2>2, ConcatIsSeq
  <1>5. PICK c \in Nat : c = Len(names) /\ DOMAIN names = 1..c
    BY <1>4, SeqIsFunction
  <1>6. c # 0
    <2>1. PICK S : names \in Seq(S)
      BY <1>4 DEF IsSeq
    <2> QED BY ONLY <1>4, <1>5, <2>1, EmptySeq
  <1>7. /\ units' = [i \in 1..c |-> Unit(names[i])]
        /\ at' = "lex" /\ unit' = 1 /\ reported' = <<>>
        /\ output' = "none" /\ sil_ok' = TRUE
    BY <1>1, <1>3, <1>5 DEF MakeUnits, AtCompile
  <1>8. ASSUME NEW i \in 1..c
        PROVE  /\ DOMAIN units'[i] = UnitFields
               /\ units'[i].has_source = FALSE /\ units'[i].success = TRUE
    BY <1>7 DEF Unit, UnitFields
  <1>9. Loaded(units', world.files', c)
    BY <1>5, <1>6, <1>7, <1>8 DEF Loaded, AreUnits
  <1>10. AtLex(c)'
    <2>1. AllOk(units', c)
      BY <1>8 DEF AllOk
    <2>2. unit' \in 1..c /\ IsSeq(reported')
      BY <1>5, <1>6, <1>7, NoneIsSeq
    <2>3. Running(c)'
      BY <1>7, <1>9, <2>2 DEF Running
    <2>4. \A u \in 1..c :
            /\ u < unit' /\ units'[u].success => units'[u].has_source
            /\ u >= unit' => units'[u].success
      <3>1. \A u \in 1..c : ~(u < 1)
        BY <1>5
      <3> QED BY <1>7, <1>8, <3>1
    <2> QED BY <1>7, <2>1, <2>2, <2>3, <2>4 DEF AtLex
  <1> QED BY <1>2, <1>7, <1>10 DEF IInv

\* One unit gets another record.
DiffersAt(vs, us, c, u, r) ==
  /\ AreUnits(vs, c) /\ vs[u] = r
  /\ \A v \in 1..c : v # u => vs[v] = us[v]

LEMMA SetUnit ==
  ASSUME NEW c \in Nat, NEW us, AreUnits(us, c), NEW u \in 1..c, NEW r,
         DOMAIN r = UnitFields, r.has_source \in BOOLEAN, r.success \in BOOLEAN
  PROVE  DiffersAt([us EXCEPT ![u] = r], us, c, u, r)
  <1>0. PICK vs : vs = [us EXCEPT ![u] = r]
    OBVIOUS
  <1>1. DOMAIN us = 1..c
    BY DEF AreUnits
  <1>2. vs = [v \in 1..c |-> vs[v]]
    BY <1>0, <1>1
  <1>3. vs[u] = r /\ \A v \in 1..c : v # u => vs[v] = us[v]
    BY <1>0, <1>1
  <1>4. ASSUME NEW v \in 1..c
        PROVE  /\ DOMAIN vs[v] = UnitFields
               /\ vs[v].has_source \in BOOLEAN /\ vs[v].success \in BOOLEAN
    <2>1. CASE v = u
      BY <1>3, <2>1
    <2>2. CASE v # u
      BY <1>3, <2>2 DEF AreUnits
    <2> QED BY <2>1, <2>2
  <1> QED BY <1>0, <1>2, <1>3, <1>4 DEF AreUnits, DiffersAt

LEMMA AlikeOk ==
  ASSUME NEW c, NEW us, NEW vs, Alike(us, vs, c)
  PROVE  /\ AllOk(us, c) <=> AllOk(vs, c)
         /\ Sourced(us, c) <=> Sourced(vs, c)
         /\ AreUnits(us, c) =>
              \A files : Loaded(vs, files, c) => Loaded(us, files, c)
  BY DEF Alike, AllOk, Sourced, Loaded

LEMMA LexStep ==
  ASSUME NEW Contexts, IInv(Contexts), RunLex, UNCHANGED argv
  PROVE  IInv(Contexts)'
  <1>1. PICK c : AtLex(c) /\ InScenario
    BY DEF RunLex, IInv
  <1>2. InScenario' /\ world' = world /\ options' = options
    BY <1>1 DEF RunLex, InScenario
  <1>3. /\ c \in Nat \ {0} /\ AreUnits(units, c) /\ unit \in 1..c
        /\ \A v \in 1..c :
             units[v].has_source => units[v].name \in DOMAIN world.files
    BY <1>1 DEF AtLex, Running, Loaded
  <1>4. PICK u \in 1..c : u = unit
    BY <1>3
  <1>5. PICK opened \in BOOLEAN :
          opened <=> units[u].name \in DOMAIN world.files
    OBVIOUS
  <1>6. PICK errors : errors =
          IF opened THEN AtOffsets("Lex", units[u].name, FileOf(u).lex)
          ELSE <<Diagnostic("ErrorOpeningFile", units[u].name, 0)>>
    OBVIOUS
  <1>7. IsSeq(errors) /\ (errors = <<>> => opened)
    <2>1. CASE opened
      <3>1. IsSeq(FileOf(u).lex)
        BY <1>1, <1>5, <2>1, WorldIsSound DEF FileOf
      <3> QED BY <1>6, <2>1, <3>1, AtOffsetsIsSeq
    <2>2. CASE ~opened
      BY <1>6, <2>2, SingleIsSeq
    <2> QED BY <2>1, <2>2
  <1>8. PICK ok \in BOOLEAN : ok = (units[u].success /\ errors = <<>>)
    OBVIOUS
  <1>9. PICK r : r = [units[u] EXCEPT !.has_source = opened, !.success = ok]
    OBVIOUS
  <1>10. DOMAIN units[u] = UnitFields /\ DOMAIN units = 1..c
    BY <1>3 DEF AreUnits
  <1>11. /\ DOMAIN r = UnitFields /\ r.name = units[u].name
         /\ r.has_source = opened /\ r.success = ok
    BY <1>9, <1>10 DEF UnitFields
  <1>12. PICK lexed : lexed = [units EXCEPT ![u] = r]
    OBVIOUS
  <1>13. lexed = [units EXCEPT ![u].has_source = opened,
                               ![u].success = @ /\ errors = <<>>]
    <2>1. [units EXCEPT ![u].has_source = opened,
                        ![u].success = @ /\ errors = <<>>]
            = [units EXCEPT ![u].has_source = opened, ![u].success = ok]
      BY <1>8, <1>10 DEF UnitFields
    <2>2. [units EXCEPT ![u].has_source = opened, ![u].success = ok]
            = [units EXCEPT ![u] = r]
      BY <1>9, <1>10
    <2> QED BY <1>12, <2>1, <2>2
  <1>14. /\ AreUnits(lexed, c) /\ lexed[u] = r
         /\ \A v \in 1..c : v # u => lexed[v] = units[v]
    <2>1. /\ c \in Nat /\ AreUnits(units, c) /\ u \in 1..c
          /\ DOMAIN r = UnitFields
          /\ r.has_source \in BOOLEAN /\ r.success \in BOOLEAN
      BY <1>3, <1>11
    <2>2. DiffersAt(lexed, units, c, u, r)
      BY <1>12, <2>1, SetUnit
    <2> QED BY <2>2 DEF DiffersAt
  <1>15. /\ units' = Handle(lexed, u, errors)
         /\ reported' = reported \o errors
         /\ NextUnit(lexed, "lex", "parse")
         /\ output' = output /\ sil_ok' = sil_ok
    BY <1>4, <1>5, <1>6, <1>13 DEF RunLex, HandledBy
  <1>16. AreUnits(units', c) /\ Alike(units', lexed, c)
    BY <1>3, <1>14, <1>15, HandleIsAlike
  <1>17. Loaded(lexed, world.files, c)
    BY <1>3, <1>5, <1>11, <1>14 DEF Loaded
  <1>18. Loaded(units', world.files', c)
    BY <1>2, <1>16, <1>17, AlikeOk
  <1>19. IsSeq(reported) /\ (reported = <<>> <=> AllOk(units, c))
    BY <1>1 DEF AtLex, Running
  <1>20. IsSeq(reported') /\ (reported' = <<>> <=> AllOk(units', c))
    <2>1. AllOk(lexed, c) <=> AllOk(units, c) /\ errors = <<>>
      BY <1>8, <1>11, <1>14 DEF AllOk
    <2> QED BY <1>7, <1>15, <1>16, <1>19, <2>1, ConcatIsSeq, AlikeOk
  <1>21. Running(c)'
    BY <1>1, <1>15, <1>18, <1>20 DEF AtLex, Running
  <1>22. \A v \in 1..c :
           /\ v <= u /\ units'[v].success => units'[v].has_source
           /\ v > u => units'[v].success
    <2> SUFFICES ASSUME NEW v \in 1..c
                 PROVE  /\ v <= u /\ units'[v].success => units'[v].has_source
                        /\ v > u => units'[v].success
      OBVIOUS
    <2>1. /\ units'[v].success = lexed[v].success
          /\ units'[v].has_source = lexed[v].has_source
      BY <1>16 DEF Alike
    <2>2. CASE v = u
      BY <1>7, <1>8, <1>11, <1>14, <2>1, <2>2
    <2>3. CASE v # u
      <3>1. /\ v < u /\ units[v].success => units[v].has_source
            /\ v >= u => units[v].success
        BY <1>1, <1>4 DEF AtLex
      <3> QED BY <1>3, <1>14, <2>1, <2>3, <3>1
    <2> QED BY <2>2, <2>3
  <1>23. Len(lexed) = c
    BY <1>3, <1>14, UnitsAreSeq
  <1>24. CASE unit < c
    <2>1. unit' = u + 1 /\ at' = "lex"
      BY <1>4, <1>15, <1>23, <1>24 DEF NextUnit, RunLex
    <2>2. unit' \in 1..c
      BY <1>3, <1>4, <1>24, <2>1
    <2>3. \A v \in 1..c :
            /\ v < unit' /\ units'[v].success => units'[v].has_source
            /\ v >= unit' => units'[v].success
      BY <1>3, <1>22, <2>1
    <2>4. AtLex(c)'
      BY <1>20, <1>21, <2>2, <2>3 DEF AtLex
    <2> QED BY <1>2, <2>1, <2>4 DEF IInv
  <1>25. CASE ~(unit < c)
    <2>1. u = c
      BY <1>3, <1>4, <1>25
    <2>2. Sourced(units', c)
      BY <1>22, <2>1 DEF Sourced
    <2>3. CASE EndsWith("lex")
      <3>1. at' = "exit" /\ result' = AllSucceeded(lexed)
        BY <1>15, <1>23, <1>25, <2>3 DEF NextUnit, Leave
      <3>2. AllSucceeded(lexed) = AllSucceeded(units')
        <4>1. DOMAIN lexed = 1..c /\ DOMAIN units' = 1..c
          BY <1>14, <1>16 DEF AreUnits
        <4> QED BY <1>16, <4>1 DEF AllSucceeded, Alike
      <3>3. ~EndsWith("codegen")'
        BY <1>2, <2>3 DEF EndsWith
      <3>4. AtExit(c)'
        BY <1>18, <1>20, <1>21, <3>1, <3>2, <3>3, LeavesSoundly DEF Running
      <3> QED BY <1>2, <3>1, <3>4 DEF IInv
    <2>4. CASE ~EndsWith("lex")
      <3>1. at' = "parse" /\ unit' = 1
        BY <1>15, <1>23, <1>25, <2>4 DEF NextUnit
      <3>2. unit' \in 1..c
        BY <1>3, <3>1
      <3>3. AtParse(c)'
        BY <1>20, <1>21, <2>2, <3>2 DEF AtParse
      <3> QED BY <1>2, <3>1, <3>3 DEF IInv
    <2> QED BY <2>3, <2>4
  <1> QED BY <1>24, <1>25

LEMMA RunParseStep ==
  ASSUME NEW Contexts, CheckerAppends(Contexts), IInv(Contexts), RunParse,
         UNCHANGED argv
  PROVE  IInv(Contexts)'
  <1>1. PICK c : AtParse(c) /\ InScenario
    BY DEF RunParse, IInv
  <1>2. InScenario' /\ world' = world /\ options' = options
    BY <1>1 DEF RunParse, InScenario
  <1>3. /\ c \in Nat \ {0} /\ AreUnits(units, c) /\ unit \in 1..c
        /\ \A v \in 1..c :
             units[v].has_source => units[v].name \in DOMAIN world.files
    BY <1>1 DEF AtParse, Running, Loaded
  <1>4. PICK u \in 1..c : u = unit
    BY <1>3
  <1>5. PICK errors : errors =
          IF units[u].has_source
          THEN AtOffsets("Parse", units[u].name, FileOf(u).parse) ELSE <<>>
    OBVIOUS
  <1>6. IsSeq(errors)
    <2>1. CASE units[u].has_source
      <3>1. IsSeq(FileOf(u).parse)
        BY <1>1, <1>3, <2>1, WorldIsSound DEF FileOf
      <3> QED BY <1>5, <2>1, <3>1, AtOffsetsIsSeq
    <2>2. CASE ~units[u].has_source
      BY <1>5, <2>2, NoneIsSeq
    <2> QED BY <2>1, <2>2
  <1>7. PICK ok \in BOOLEAN : ok = (units[u].success /\ errors = <<>>)
    OBVIOUS
  <1>8. PICK r : r = [units[u] EXCEPT !.success = ok]
    OBVIOUS
  <1>9. DOMAIN units[u] = UnitFields /\ DOMAIN units = 1..c
    BY <1>3 DEF AreUnits
  <1>10. /\ DOMAIN r = UnitFields /\ r.name = units[u].name
         /\ r.has_source = units[u].has_source /\ r.success = ok
    BY <1>8, <1>9 DEF UnitFields
  <1>11. PICK parsed : parsed = [units EXCEPT ![u] = r]
    OBVIOUS
  <1>12. parsed = [units EXCEPT ![u].success = @ /\ errors = <<>>]
    <2>1. [units EXCEPT ![u].success = @ /\ errors = <<>>]
            = [units EXCEPT ![u].success = ok]
      BY <1>7, <1>9 DEF UnitFields
    <2>2. [units EXCEPT ![u].success = ok] = [units EXCEPT ![u] = r]
      BY <1>8, <1>9
    <2> QED BY <1>11, <2>1, <2>2
  <1>13. /\ AreUnits(parsed, c) /\ parsed[u] = r
         /\ \A v \in 1..c : v # u => parsed[v] = units[v]
    <2>1. /\ c \in Nat /\ AreUnits(units, c) /\ u \in 1..c
          /\ DOMAIN r = UnitFields
          /\ r.has_source \in BOOLEAN /\ r.success \in BOOLEAN
      BY <1>3, <1>10 DEF AreUnits
    <2>2. DiffersAt(parsed, units, c, u, r)
      BY <1>11, <2>1, SetUnit
    <2> QED BY <2>2 DEF DiffersAt
  <1>14. /\ units' = Handle(parsed, u, errors)
         /\ reported' = reported \o errors
         /\ NextUnit(parsed, "parse", "check")
         /\ output' = output /\ sil_ok' = sil_ok
         /\ context' = FreshContext /\ pass' = 1
    BY <1>4, <1>5, <1>12 DEF RunParse, HandledBy
  <1>15. AreUnits(units', c) /\ Alike(units', parsed, c)
    BY <1>3, <1>13, <1>14, HandleIsAlike
  <1>16. Loaded(parsed, world.files, c)
    BY <1>3, <1>10, <1>13 DEF Loaded
  <1>17. Loaded(units', world.files', c)
    BY <1>2, <1>15, <1>16, AlikeOk
  <1>18. IsSeq(reported) /\ (reported = <<>> <=> AllOk(units, c))
    BY <1>1 DEF AtParse, Running
  <1>19. IsSeq(reported') /\ (reported' = <<>> <=> AllOk(units', c))
    <2>1. AllOk(parsed, c) <=> AllOk(units, c) /\ errors = <<>>
      BY <1>7, <1>10, <1>13 DEF AllOk
    <2> QED BY <1>6, <1>14, <1>15, <1>18, <2>1, ConcatIsSeq, AlikeOk
  <1>20. Running(c)'
    BY <1>1, <1>14, <1>17, <1>19 DEF AtParse, Running
  <1>21. Sourced(units', c)
    <2>1. Sourced(units, c)
      BY <1>1 DEF AtParse
    <2>2. Sourced(parsed, c)
      BY <1>7, <1>10, <1>13, <2>1 DEF Sourced
    <2> QED BY <1>15, <2>2, AlikeOk
  <1>22. Len(parsed) = c
    BY <1>3, <1>13, UnitsAreSeq
  <1>23. CASE unit < c
    <2>1. unit' = u + 1 /\ at' = "parse"
      BY <1>4, <1>14, <1>22, <1>23 DEF NextUnit, RunParse
    <2>2. unit' \in 1..c
      BY <1>3, <1>4, <1>23, <2>1
    <2>3. AtParse(c)'
      BY <1>19, <1>20, <1>21, <2>2 DEF AtParse
    <2> QED BY <1>2, <2>1, <2>3 DEF IInv
  <1>24. CASE ~(unit < c)
    <2>1. CASE EndsWith("parse")
      <3>1. at' = "exit" /\ result' = AllSucceeded(parsed)
        BY <1>14, <1>22, <1>24, <2>1 DEF NextUnit, Leave
      <3>2. AllSucceeded(parsed) = AllSucceeded(units')
        <4>1. DOMAIN parsed = 1..c /\ DOMAIN units' = 1..c
          BY <1>13, <1>15 DEF AreUnits
        <4> QED BY <1>15, <4>1 DEF AllSucceeded, Alike
      <3>3. ~EndsWith("codegen")'
        BY <1>2, <2>1 DEF EndsWith
      <3>4. AtExit(c)'
        BY <1>17, <1>19, <1>20, <3>1, <3>2, <3>3, LeavesSoundly DEF Running
      <3> QED BY <1>2, <3>1, <3>4 DEF IInv
    <2>2. CASE ~EndsWith("parse")
      <3>1. at' = "check" /\ unit' = 1
        BY <1>14, <1>22, <1>24, <2>2 DEF NextUnit
      <3>2. context' \in Contexts /\ context'.diagnostics = <<>> /\ pass' \in 1..5
        BY <1>14 DEF CheckerAppends
      <3>3. CheckUnits' # <<>> => unit' \in 1..Len(CheckUnits')
        <4>1. PICK cu : cu = WithSource(units')
          OBVIOUS
        <4>2. PICK S : cu \in Seq(S)
          BY <1>3, <1>15, <4>1, WithSourceIs
        <4>3. cu # <<>> => 1 \in 1..Len(cu)
          BY ONLY <4>2, EmptySeq
        <4> QED BY <3>1, <4>1, <4>3 DEF CheckUnits
      <3>4. AtCheck(c, Contexts)'
        BY <1>19, <1>20, <1>21, <3>2, <3>3 DEF AtCheck
      <3> QED BY <1>2, <3>1, <3>4 DEF IInv
    <2> QED BY <2>1, <2>2
  <1> QED BY <1>23, <1>24

\* The part of a sequence behind an older length.
LEMMA NewPart ==
  ASSUME NEW lo \in Nat, NEW d \in Nat,
         NEW t, IsSeq(t), lo + d = Len(t)
  PROVE  DOMAIN SubSeq(t, lo + 1, Len(t)) = 1..d
  <1>1. PICK S : t \in Seq(S)
    BY DEF IsSeq
  <1>2. PICK la \in Nat : la = Len(t)
    <2>1. Len(t) \in Nat
      BY ONLY <1>1, LenProperties
    <2> QED BY ONLY <2>1
  <1>3. /\ lo + 1 \in Int /\ la \in Int /\ la - (lo + 1) + 1 = d
        /\ lo + 1 <= la <=> d # 0
    BY <1>2
  <1>4. \A i \in lo + 1 .. la : t[i] \in S
    <2>1. \A i \in lo + 1 .. la : i \in 1..la
      BY <1>2
    <2> QED BY <1>1, <1>2, <2>1
  <1>5. PICK new : new = SubSeq(t, lo + 1, la)
    OBVIOUS
  <1>6. /\ new \in Seq(S)
        /\ Len(new) = IF lo + 1 <= la THEN la - (lo + 1) + 1 ELSE 0
    BY ONLY <1>3, <1>4, <1>5, SubSeqProperties
  <1>7. Len(new) = d
    BY <1>3, <1>6
  <1> QED BY <1>2, <1>5, <1>6, <1>7, LenProperties

LEMMA CheckFileStep ==
  ASSUME NEW Contexts, CheckerAppends(Contexts), IInv(Contexts), CheckFile,
         UNCHANGED argv
  PROVE  IInv(Contexts)'
  <1>1. PICK c : AtCheck(c, Contexts) /\ InScenario
    BY DEF CheckFile, Then, IInv
  <1>2. InScenario' /\ world' = world /\ at' = "check"
    BY <1>1 DEF CheckFile, Then, InScenario
  <1>3. /\ c \in Nat \ {0} /\ AreUnits(units, c)
        /\ \A v \in 1..c :
             units[v].has_source => units[v].name \in DOMAIN world.files
    BY <1>1 DEF AtCheck, Running, Loaded
  <1>4. PICK cu : cu = CheckUnits
    OBVIOUS
  <1>5. PICK S : S = Sources(units, c)
    OBVIOUS
  <1>6. cu \in Seq(S) /\ cu # <<>>
    BY <1>3, <1>4, <1>5, WithSourceIs DEF CheckUnits, CheckFile, Then
  <1>7. PICK n \in Nat : n = Len(cu) /\ DOMAIN cu = 1..n
    BY <1>6, LenProperties
  <1>8. PICK f \in 1..n : f = unit
    BY <1>1, <1>4, <1>6, <1>7 DEF AtCheck
  <1>9. PICK u \in 1..c : u = cu[f] /\ units[u].has_source
    BY <1>5, <1>6, <1>7 DEF Sources
  <1>10. PICK checked : checked = Checker(context, pass, f, FileOf(u).nodes)
    OBVIOUS
  <1>11. pass \in 1..4 /\ context \in Contexts
    <2>1. pass <= 4
      BY DEF CheckFile, Then
    <2>2. pass \in 1..5 /\ context \in Contexts
      BY <1>1 DEF AtCheck
    <2> QED BY ONLY <2>1, <2>2
  <1>12. /\ checked \in Contexts
         /\ Len(checked.diagnostics) >= Len(context.diagnostics)
    <2>1. PICK s \in Scenarios : world = s.world
      BY <1>1 DEF InScenario
    <2>2. PICK name \in DOMAIN s.world.files : name = units[u].name
      BY <1>3, <1>9, <2>1
    <2>3. FileOf(u).nodes = s.world.files[name].nodes
      BY <2>1, <2>2 DEF FileOf
    <2>4. f \in Nat \ {0}
      BY <1>7
    <2> QED BY <1>10, <1>11, <2>2, <2>3, <2>4 DEF CheckerAppends
  <1> DEFINE old == context.diagnostics
             all == checked.diagnostics
             new == SubSeq(all, Len(old) + 1, Len(all))
             errors == [i \in DOMAIN new |->
                          Diagnostic(new[i].kind, units[u].name, new[i].at)]
  <1>13. /\ IsSeq(old) /\ IsSeq(all)
    BY <1>11, <1>12 DEF CheckerAppends
  <1>14. PICK lo \in Nat, la \in Nat : lo = Len(old) /\ la = Len(all) /\ la >= lo
    BY <1>12, <1>13, SeqIsFunction
  <1>15. (old = <<>> <=> lo = 0) /\ (all = <<>> <=> la = 0)
    <2>1. PICK A, B : old \in Seq(A) /\ all \in Seq(B)
      BY <1>13 DEF IsSeq
    <2> QED BY ONLY <1>14, <2>1, EmptySeq
  <1>16. IsSeq(errors) /\ (errors = <<>> <=> la = lo)
    <2>1. PICK d \in Nat : lo + d = la
      <3>1. la - lo \in Nat /\ lo + (la - lo) = la
        BY <1>14
      <3> QED BY <3>1
    <2>2. PICK t : t = all
      OBVIOUS
    <2>3. DOMAIN new = 1..d
      <3>1. DOMAIN SubSeq(t, lo + 1, Len(t)) = 1..d
        <4>1. IsSeq(t) /\ lo + d = Len(t)
          BY <1>13, <1>14, <2>1, <2>2
        <4> QED BY ONLY lo \in Nat, d \in Nat, <4>1, NewPart
      <3> QED BY <1>14, <2>2, <3>1
    <2>4. PICK es : es = errors
      OBVIOUS
    <2>5. es = [i \in 1..d |-> es[i]]
      BY <2>3, <2>4
    <2>6. IsSeq(es) /\ (es = <<>> <=> d = 0)
      BY <2>5, FunctionIsSeq
    <2>7. d = 0 <=> la = lo
      BY <2>1
    <2> QED BY <2>4, <2>6, <2>7
  <1>17. PICK es : es = errors
    OBVIOUS
  <1>18. /\ context' = checked
         /\ units' = Handle(units, cu[1], es)
         /\ reported' = reported \o es
         /\ unit' = IF f = n THEN 1 ELSE f + 1
         /\ pass' = IF f = n THEN pass + 1 ELSE pass
         /\ output' = output /\ sil_ok' = sil_ok
    BY <1>4, <1>7, <1>8, <1>9, <1>10, <1>17 DEF CheckFile, Then, HandledBy
  <1> HIDE DEF errors
  <1>19. AreUnits(units', c) /\ Alike(units', units, c)
    BY <1>3, <1>18, HandleIsAlike
  <1>20. Loaded(units', world.files', c)
    BY <1>1, <1>2, <1>19, AlikeOk DEF AtCheck, Running
  <1>21. CheckUnits' = cu
    <2>1. WithSource(units') = WithSource(units)
      BY <1>3, <1>19, SameSources
    <2> QED BY <1>4, <2>1 DEF CheckUnits
  <1>22. /\ IsSeq(reported)
         /\ reported = <<>> <=> AllOk(units, c) /\ old = <<>>
    BY <1>1 DEF AtCheck, Running
  <1>23. /\ IsSeq(reported')
         /\ reported' = <<>> <=> AllOk(units', c) /\ all = <<>>
    <2>1. IsSeq(reported') /\ (reported' = <<>> <=> reported = <<>> /\ es = <<>>)
      BY <1>16, <1>17, <1>18, <1>22, ConcatIsSeq
    <2>2. all = <<>> <=> old = <<>> /\ es = <<>>
      BY <1>14, <1>15, <1>16, <1>17
    <2>3. AllOk(units', c) <=> AllOk(units, c)
      BY <1>19, AlikeOk
    <2> QED BY <1>22, <2>1, <2>2, <2>3
  <1>24. Running(c)' /\ Sourced(units', c)
    BY <1>1, <1>18, <1>19, <1>20, <1>23, AlikeOk DEF AtCheck, Running
  <1>25. unit' \in 1..n /\ pass' \in 1..5
    BY <1>7, <1>11, <1>18
  <1>26. AtCheck(c, Contexts)'
    BY <1>6, <1>7, <1>12, <1>18, <1>21, <1>23, <1>24, <1>25 DEF AtCheck
  <1> QED BY <1>2, <1>26 DEF IInv

LEMMA PostCheckStep ==
  ASSUME NEW Contexts, IInv(Contexts), PostCheck, UNCHANGED argv
  PROVE  IInv(Contexts)'
  <1>1. PICK c : AtCheck(c, Contexts) /\ InScenario
    BY DEF PostCheck, IInv
  <1>2. /\ InScenario' /\ world' = world /\ options' = options
        /\ reported' = reported /\ output' = output /\ sil_ok' = sil_ok
    BY <1>1 DEF PostCheck, InScenario
  <1>3. /\ c \in Nat \ {0} /\ AreUnits(units, c) /\ DOMAIN units = 1..c
        /\ Loaded(units, world.files, c)
    BY <1>1 DEF AtCheck, Running, Loaded, AreUnits
  <1>4. PICK primary : primary = IF CheckUnits = <<>> THEN 0 ELSE CheckUnits[1]
    OBVIOUS
  <1>5. PICK has_errors \in BOOLEAN : has_errors <=> context.diagnostics # <<>>
    OBVIOUS
  <1>6. has_errors => primary \in 1..c
    <2>1. SUFFICES ASSUME has_errors PROVE primary \in 1..c
      OBVIOUS
    <2>2. PICK cu : cu = CheckUnits /\ cu # <<>>
      BY <1>1, <1>5, <2>1 DEF AtCheck
    <2>3. PICK S : S = Sources(units, c)
      OBVIOUS
    <2>4. cu \in Seq(S)
      BY <1>3, <2>2, <2>3, WithSourceIs DEF CheckUnits
    <2>5. cu[1] \in S
      BY ONLY <2>2, <2>4
    <2> QED BY <1>4, <2>2, <2>3, <2>5 DEF Sources
  <1> DEFINE Checked(u) ==
               [units[u] EXCEPT
                  !.buffer = IF units[u].has_source THEN <<>> ELSE @,
                  !.success = @ /\ ~(u = primary /\ has_errors)]
  <1>7. PICK checked : checked = [u \in 1..c |-> Checked(u)]
    OBVIOUS
  <1>8. /\ units' = checked
        /\ IF EndsWith("check") \/ Blocked(checked) THEN Leave(checked)
           ELSE at' = "sil" /\ UNCHANGED result
    BY <1>3, <1>4, <1>5, <1>7 DEF PostCheck
  <1>9. ASSUME NEW u \in 1..c
        PROVE  /\ DOMAIN checked[u] = UnitFields
               /\ checked[u].name = units[u].name
               /\ checked[u].has_source = units[u].has_source
               /\ checked[u].success
                    = (units[u].success /\ ~(u = primary /\ has_errors))
    <2>1. DOMAIN units[u] = UnitFields
      BY <1>3 DEF AreUnits
    <2>2. checked[u] = Checked(u)
      BY <1>7
    <2> QED BY <2>1, <2>2 DEF UnitFields
  <1>10. DOMAIN checked = 1..c /\ checked = [u \in 1..c |-> checked[u]]
    BY <1>7
  <1>11. Loaded(checked, world.files, c)
    <2>1. AreUnits(checked, c)
      BY <1>3, <1>9, <1>10 DEF AreUnits
    <2> QED BY <1>3, <1>9, <2>1 DEF Loaded
  <1>12. AllOk(checked, c) <=> AllOk(units, c) /\ ~has_errors
    BY <1>6, <1>9 DEF AllOk
  <1>13. reported' = <<>> <=> AllOk(checked, c)
    BY <1>1, <1>2, <1>5, <1>12 DEF AtCheck
  <1>14. Sourced(checked, c)
    BY <1>1, <1>9 DEF AtCheck, Sourced
  <1>15. AllSucceeded(checked) <=> AllOk(checked, c)
    BY <1>10 DEF AllSucceeded, AllOk
  <1>16. /\ IsSeq(reported') /\ output' = "none" /\ sil_ok' = TRUE
    BY <1>1, <1>2 DEF AtCheck, Running
  <1>17. CASE EndsWith("check") \/ Blocked(checked)
    <2>1. at' = "exit" /\ result' = AllSucceeded(checked)
      BY <1>8, <1>17 DEF Leave
    <2>2. AllOk(checked, c) => ~EndsWith("codegen")'
      BY <1>2, <1>15, <1>17 DEF EndsWith, Blocked
    <2>3. AtExit(c)'
      BY <1>2, <1>8, <1>11, <1>13, <1>16, <2>1, <2>2, LeavesSoundly
    <2> QED BY <1>2, <2>1, <2>3 DEF IInv
  <1>18. CASE ~(EndsWith("check") \/ Blocked(checked))
    <2>1. at' = "sil" /\ AllOk(checked, c)
      BY <1>8, <1>15, <1>18 DEF Blocked
    <2>2. AtSil(c)'
      BY <1>2, <1>8, <1>11, <1>13, <1>14, <1>16, <2>1 DEF AtSil, Running
    <2> QED BY <1>2, <2>1, <2>2 DEF IInv
  <1> QED BY <1>17, <1>18

\* The first unit gets the verdict of what comes behind checking.
IsVerdict(vs, us, files, c, ok) ==
  /\ Loaded(vs, files, c)
  /\ vs[1].success = ok
  /\ \A u \in 2..c : vs[u].success = us[u].success
  /\ \A u \in 1..c : vs[u].has_source = us[u].has_source

LEMMA FirstVerdict ==
  ASSUME NEW c, NEW us, NEW files, Loaded(us, files, c), NEW ok \in BOOLEAN
  PROVE  IsVerdict([us EXCEPT ![1].success = ok], us, files, c, ok)
  <1>0. PICK vs : vs = [us EXCEPT ![1].success = ok]
    OBVIOUS
  <1>1. /\ c \in Nat \ {0} /\ AreUnits(us, c) /\ 1 \in 1..c
        /\ DOMAIN us = 1..c /\ DOMAIN us[1] = UnitFields
    BY DEF Loaded, AreUnits
  <1>2. PICK r : r = [us[1] EXCEPT !.success = ok]
    OBVIOUS
  <1>3. /\ DOMAIN r = UnitFields /\ r.name = us[1].name
        /\ r.has_source = us[1].has_source /\ r.success = ok
    BY <1>1, <1>2 DEF UnitFields
  <1>4. vs = [us EXCEPT ![1] = r]
    BY <1>0, <1>1, <1>2
  <1>5. DiffersAt(vs, us, c, 1, r)
    <2>1. /\ c \in Nat /\ AreUnits(us, c) /\ 1 \in 1..c
          /\ DOMAIN r = UnitFields
          /\ r.has_source \in BOOLEAN /\ r.success \in BOOLEAN
      BY <1>1, <1>3 DEF AreUnits
    <2>2. PICK one \in 1..c : one = 1
      BY <1>1
    <2>3. DiffersAt([us EXCEPT ![one] = r], us, c, one, r)
      BY <2>1, <2>2, SetUnit
    <2> QED BY <1>4, <2>2, <2>3
  <1>6. \A u \in 1..c : /\ vs[u].name = us[u].name
                        /\ vs[u].has_source = us[u].has_source
                        /\ u # 1 => vs[u].success = us[u].success
    BY <1>3, <1>5 DEF DiffersAt
  <1>7. \A u \in 2..c : u \in 1..c /\ u # 1
    BY <1>1
  <1>8. Loaded(vs, files, c)
    BY <1>5, <1>6 DEF Loaded, DiffersAt
  <1> QED BY <1>0, <1>3, <1>5, <1>6, <1>7, <1>8 DEF DiffersAt, IsVerdict

LEMMA BuiltExits ==
  ASSUME NEW c, Built(c)', result' = AllSucceeded(units'),
         ~EndsWith("codegen")'
  PROVE  AtExit(c)'
  <1>1. /\ c \in Nat \ {0} /\ DOMAIN units' = 1..c
    BY DEF Built, Loaded, AreUnits
  <1>2. \A u \in 1..c : u = 1 \/ u \in 2..c
    BY <1>1
  <1>3. AllSucceeded(units') <=> sil_ok'
    BY <1>1, <1>2 DEF AllSucceeded, Built
  <1> QED BY <1>3 DEF AtExit, Built

LEMMA SilGenStep ==
  ASSUME NEW Contexts, IInv(Contexts), RunSilGen, UNCHANGED argv
  PROVE  IInv(Contexts)'
  <1>1. PICK c : AtSil(c) /\ InScenario
    BY DEF RunSilGen, IInv
  <1>2. /\ InScenario' /\ world' = world /\ options' = options
        /\ reported' = reported /\ output' = output
    BY <1>1 DEF RunSilGen, InScenario
  <1>3. /\ Loaded(units, world.files, c) /\ Sourced(units, c)
        /\ AllOk(units, c) /\ reported = <<>> /\ output = "none"
    BY <1>1 DEF AtSil, Running
  <1>4. PICK ok \in BOOLEAN : ok = sil_ok'
    BY DEF RunSilGen
  <1>5. c \in Nat \ {0} /\ 1 \in 1..c /\ units[1].success = TRUE
    BY <1>3 DEF AllOk, Loaded, AreUnits
  <1>6. units' = [units EXCEPT ![1].success = ok]
    <2>1. DOMAIN units = 1..c /\ DOMAIN units[1] = UnitFields
      BY <1>3, <1>5 DEF Loaded, AreUnits
    <2> QED BY <1>4, <1>5, <2>1 DEF RunSilGen, UnitFields
  <1>7. /\ Loaded(units', world.files, c)
        /\ units'[1].success = ok
        /\ \A u \in 2..c : units'[u].success = units[u].success
        /\ \A u \in 1..c : units'[u].has_source = units[u].has_source
    <2>1. IsVerdict(units', units, world.files, c, ok)
      BY <1>3, <1>6, FirstVerdict
    <2> QED BY <2>1 DEF IsVerdict
  <1>8. \A u \in 2..c : u \in 1..c
    BY <1>5
  <1>9. Built(c)'
    BY <1>2, <1>3, <1>4, <1>7, <1>8 DEF Built, AllOk, Sourced
  <1>10. CASE EndsWith("sil")
    <2>1. at' = "exit" /\ result' = AllSucceeded(units')
      BY <1>10 DEF RunSilGen, Leave
    <2>2. ~EndsWith("codegen")'
      BY <1>2, <1>10 DEF EndsWith
    <2>3. AtExit(c)'
      BY <1>9, <2>1, <2>2, BuiltExits
    <2> QED BY <1>2, <2>1, <2>3 DEF IInv
  <1>11. CASE ~EndsWith("sil")
    <2>1. at' = "lower"
      BY <1>11 DEF RunSilGen
    <2> QED BY <1>2, <1>9, <2>1 DEF IInv
  <1> QED BY <1>10, <1>11

LEMMA LowerStep ==
  ASSUME NEW Contexts, IInv(Contexts), RunLower, UNCHANGED argv
  PROVE  IInv(Contexts)'
  <1>1. PICK c : Built(c) /\ InScenario
    BY DEF RunLower, IInv
  <1>2. /\ InScenario' /\ Built(c)' /\ options' = options
    BY <1>1 DEF RunLower, InScenario, Built
  <1>3. CASE EndsWith("lower") \/ EndsWith("optimize")
    <2>1. at' = "exit" /\ result' = AllSucceeded(units')
      BY <1>3 DEF RunLower, Leave
    <2>2. ~EndsWith("codegen")'
      BY <1>2, <1>3 DEF EndsWith
    <2>3. AtExit(c)'
      BY <1>2, <2>1, <2>2, BuiltExits
    <2> QED BY <1>2, <2>1, <2>3 DEF IInv
  <1>4. CASE ~(EndsWith("lower") \/ EndsWith("optimize"))
    <2>1. at' = "codegen"
      BY <1>4 DEF RunLower
    <2> QED BY <1>2, <2>1 DEF IInv
  <1> QED BY <1>3, <1>4

\* The code generator, or what it needs, fails.
LEMMA FailsSoundly ==
  ASSUME NEW Contexts, NEW c, Loaded(units', world.files', c), InScenario',
         reported' # <<>>, output' = "none", result' = FALSE, at' = "exit"
  PROVE  IInv(Contexts)'
  <1>1. AtExit(c)'
    BY DEF AtExit
  <1> QED BY <1>1 DEF IInv

LEMMA RefuseOutputStep ==
  ASSUME NEW Contexts, IInv(Contexts), RefuseUnnamed \/ OpenFails,
         UNCHANGED argv
  PROVE  IInv(Contexts)'
  <1>1. PICK c : Built(c) /\ InScenario
    BY DEF RefuseUnnamed, OpenFails, IInv
  <1>2. /\ world' = world /\ CodeGenEnds(FALSE, output)
        /\ \E kind : DriverReports(kind, units[1].name)
    BY DEF RefuseUnnamed, OpenFails, CodeGenUnchanged
  <1>3. InScenario'
    BY <1>1, <1>2 DEF InScenario
  <1>4. reported' # <<>>
    <2>1. PICK d : reported' = Append(reported, d)
      BY <1>2 DEF DriverReports
    <2>2. IsSeq(reported)
      BY <1>1, NoneIsSeq DEF Built
    <2> QED BY <2>1, <2>2, AppendIsSeq
  <1>5. /\ Loaded(units', world.files', c) /\ units'[1].success = FALSE
    <2>1. IsVerdict([units EXCEPT ![1].success = FALSE], units, world.files, c,
                    FALSE)
      BY <1>1, FirstVerdict DEF Built
    <2> QED BY <1>2, <2>1 DEF IsVerdict, CodeGenEnds
  <1>6. result' = FALSE
    <2>1. 1 \in DOMAIN units'
      BY <1>5 DEF Loaded, AreUnits
    <2> QED BY <1>2, <1>5, <2>1 DEF CodeGenEnds, AllSucceeded
  <1>7. at' = "exit" /\ output' = "none"
    BY <1>1, <1>2 DEF CodeGenEnds, Built
  <1> QED BY <1>3, <1>4, <1>5, <1>6, <1>7, FailsSoundly

LEMMA EmitFailsStep ==
  ASSUME NEW Contexts, IInv(Contexts), UnableToEmit \/ LinkFails,
         UNCHANGED argv
  PROVE  IInv(Contexts)'
  <1>1. PICK c : Built(c) /\ InScenario
    BY DEF UnableToEmit, LinkFails, IInv
  <1>2. PICK kind : EmitFails(kind)
    BY DEF UnableToEmit, LinkFails
  <1>3. PICK d : d = Diagnostic(kind, units[1].name, 0)
    OBVIOUS
  <1>4. PICK failed : failed = [units EXCEPT ![1].success = FALSE]
    OBVIOUS
  <1>5. /\ units' = Handle(failed, 1, <<d>>)
        /\ reported' = reported \o <<d>>
        /\ world' = world /\ output' = output
        /\ result' = FALSE /\ at' = "exit"
    BY <1>2, <1>3, <1>4 DEF EmitFails, HandledBy, CodeGenUnchanged
  <1>6. InScenario' /\ output' = "none"
    BY <1>1, <1>5 DEF InScenario, Built
  <1>7. reported' # <<>>
    <2>1. IsSeq(reported)
      BY <1>1, NoneIsSeq DEF Built
    <2>2. IsSeq(<<d>>) /\ <<d>> # <<>>
      BY SingleIsSeq
    <2> QED BY <1>5, <2>1, <2>2, ConcatIsSeq
  <1>8. Loaded(failed, world.files, c)
    <2>1. IsVerdict(failed, units, world.files, c, FALSE)
      BY <1>1, <1>4, FirstVerdict DEF Built
    <2> QED BY <2>1 DEF IsVerdict
  <1>9. AreUnits(failed, c) /\ c \in Nat
    BY <1>8 DEF Loaded
  <1>10. AreUnits(units', c) /\ Alike(units', failed, c)
    BY <1>5, <1>9, HandleIsAlike
  <1>11. Loaded(units', world.files', c)
    BY <1>5, <1>8, <1>10, AlikeOk
  <1> QED BY <1>5, <1>6, <1>7, <1>11, FailsSoundly

LEMMA EmitStep ==
  ASSUME NEW Contexts, IInv(Contexts), Emit, UNCHANGED argv
  PROVE  IInv(Contexts)'
  <1>1. PICK c : Built(c) /\ InScenario
    BY DEF Emit, IInv
  <1>2. /\ world' = world /\ reported' = reported /\ sil_ok' = sil_ok
        /\ units' = [units EXCEPT ![1].success = TRUE]
        /\ result' = AllSucceeded(units')
        /\ output' = OutputKind /\ at' = "exit"
    BY DEF Emit, CodeGenEnds, CodeGenUnchanged
  <1>3. InScenario'
    BY <1>1, <1>2 DEF InScenario
  <1>4. OutputKind # "none"
    BY DEF OutputKind
  <1>5. Loaded(units, world.files, c) /\ c \in Nat \ {0}
    BY <1>1 DEF Built, Loaded
  <1>6. /\ Loaded(units', world.files', c)
        /\ units'[1].success = TRUE
        /\ \A u \in 2..c : units'[u].success = units[u].success
        /\ \A u \in 1..c : units'[u].has_source = units[u].has_source
    <2>1. IsVerdict([units EXCEPT ![1].success = TRUE], units, world.files, c,
                    TRUE)
      BY <1>5, FirstVerdict
    <2> QED BY <1>2, <2>1 DEF IsVerdict
  <1>7. result' = TRUE
    <2>1. DOMAIN units' = 1..c
      BY <1>6 DEF Loaded, AreUnits
    <2>2. \A u \in 1..c : u = 1 \/ u \in 2..c
      BY <1>5
    <2> QED BY <1>1, <1>2, <1>6, <2>1, <2>2 DEF AllSucceeded, Built
  <1>8. AtExit(c)'
    BY <1>1, <1>2, <1>4, <1>6, <1>7 DEF AtExit, Built
  <1> QED BY <1>2, <1>3, <1>8 DEF IInv

LEMMA PostCompileStep ==
  ASSUME NEW Contexts, IInv(Contexts), PostCompile, UNCHANGED argv
  PROVE  IInv(Contexts)'
  <1>1. PICK c : AtExit(c) /\ InScenario
    BY DEF PostCompile, IInv
  <1>2. /\ world' = world /\ reported' = reported /\ sil_ok' = sil_ok
        /\ output' = output /\ result' = result /\ options' = options
        /\ at' = "done" /\ units' = FlushedAll(units)
    BY DEF PostCompile, FlushAll
  <1>3. InScenario'
    BY <1>1, <1>2 DEF InScenario
  <1>4. Loaded(units, world.files, c) /\ DOMAIN units = 1..c
    BY <1>1 DEF AtExit, Loaded, AreUnits
  <1>5. units' = [u \in 1..c |-> [units[u] EXCEPT !.buffer = <<>>]]
    BY <1>2, <1>4 DEF FlushedAll
  <1>6. ASSUME NEW u \in 1..c
        PROVE  /\ DOMAIN units'[u] = UnitFields
               /\ units'[u].name = units[u].name
               /\ units'[u].has_source = units[u].has_source
               /\ units'[u].success = units[u].success
    <2>1. DOMAIN units[u] = UnitFields
      BY <1>4 DEF Loaded, AreUnits
    <2> QED BY <1>5, <2>1 DEF UnitFields
  <1>7. Loaded(units', world.files', c)
    <2>1. units' = [u \in 1..c |-> units'[u]]
      BY <1>5
    <2>2. AreUnits(units', c)
      BY <1>4, <1>6, <2>1 DEF Loaded, AreUnits
    <2> QED BY <1>2, <1>4, <1>6, <2>2 DEF Loaded
  <1>8. AtExit(c)'
    BY <1>1, <1>2, <1>6, <1>7 DEF AtExit, EndsWith
  <1> QED BY <1>2, <1>3, <1>8 DEF IInv

-----------------------------------------------------------------------------
LEMMA NextIsSound ==
  ASSUME NEW Contexts, CheckerAppends(Contexts), IInv(Contexts), [Next]_vars
  PROVE  IInv(Contexts)'
  <1>1. CASE RefuseInstallation
    BY <1>1, RefuseInstallationStep
  <1>2. CASE ParseCommandLine
    BY <1>2, ParseStep
  <1>3. CASE StartFormat
    BY <1>3, StartFormatStep
  <1>4. CASE SkipMissing \/ FormatLoaded
    BY <1>4, FormatStep
  <1>5. CASE CompileNext /\ UNCHANGED <<argv, parser>>
    <2>1. argv' = argv
      BY <1>5
    <2>2. CASE RefuseFlags \/ RefuseTarget \/ RefuseClang
      BY <2>1, <2>2, RefuseStep
    <2>3. CASE MakeUnits
      BY <2>1, <2>3, MakeUnitsStep
    <2>4. CASE RunLex
      BY <2>1, <2>4, LexStep
    <2>5. CASE RunParse
      BY <2>1, <2>5, RunParseStep
    <2>6. CASE CheckFile
      BY <2>1, <2>6, CheckFileStep
    <2>7. CASE PostCheck
      BY <2>1, <2>7, PostCheckStep
    <2>8. CASE RunSilGen
      BY <2>1, <2>8, SilGenStep
    <2>9. CASE RunLower
      BY <2>1, <2>9, LowerStep
    <2>10. CASE RefuseUnnamed \/ OpenFails
      BY <2>1, <2>10, RefuseOutputStep
    <2>11. CASE UnableToEmit \/ LinkFails
      BY <2>1, <2>11, EmitFailsStep
    <2>12. CASE Emit
      BY <2>1, <2>12, EmitStep
    <2>13. CASE PostCompile
      BY <2>1, <2>13, PostCompileStep
    <2> QED BY <1>5, <2>2, <2>3, <2>4, <2>5, <2>6, <2>7, <2>8, <2>9, <2>10,
               <2>11, <2>12, <2>13 DEF CompileNext
  <1>6. CASE UNCHANGED vars
    BY <1>6 DEF vars, compile_vars, IInv, InScenario, Idle, AtCompile, AtLex,
                AtParse, AtCheck, AtSil, Built, AtExit, Running, EndsWith,
                CheckUnits
  <1> QED BY <1>1, <1>2, <1>3, <1>4, <1>5, <1>6 DEF Next

LEMMA SoundStops ==
  ASSUME NEW Contexts, IInv(Contexts)
  PROVE  ErrorsStopCompilation
  <1>1. CASE \E c : AtExit(c) /\ at \in {"exit", "done"}
    <2>1. PICK c : AtExit(c)
      BY <1>1
    <2>2. DOMAIN units = 1..c
      BY <2>1 DEF AtExit, Loaded, AreUnits
    <2> QED BY <2>1, <2>2 DEF ErrorsStopCompilation, AtExit
  <1>2. CASE Idle
    BY <1>2 DEF Idle, ErrorsStopCompilation
  <1>3. CASE output = "none" /\ at # "done"
    BY <1>3 DEF ErrorsStopCompilation
  <1>4. \/ Idle \/ (output = "none" /\ at # "done")
        \/ \E c : AtExit(c) /\ at \in {"exit", "done"}
    BY DEF IInv, AtLex, AtParse, AtCheck, AtSil, Built, Running
  <1> QED BY <1>1, <1>2, <1>3, <1>4

\* Whatever the command line, the files and the faults, and whatever the
\* checker, if only it takes back no diagnostic: nothing is generated for a
\* program with an error, a run that succeeds reported none, and one that
\* generates code and succeeds has written it (CompileSubcommand::Run).
THEOREM ErrorsStop ==
  ASSUME NEW CONSTANT Contexts, CheckerAppends(Contexts)
  PROVE  Spec => []ErrorsStopCompilation
  <1>1. Init => IInv(Contexts)
    BY InitIsSound
  <1>2. IInv(Contexts) /\ [Next]_vars => IInv(Contexts)'
    BY NextIsSound
  <1>3. IInv(Contexts) => ErrorsStopCompilation
    BY SoundStops
  <1> QED BY <1>1, <1>2, <1>3, PTL DEF Spec
=============================================================================
