----------------------------- MODULE MC_Parsers -----------------------------
(***************************************************************************)
(* Checks the pure parsers against their references: every initial state  *)
(* is one input, a dependency shorthand string, a file name, a toolchain  *)
(* file, or a toolchain with a compile or an archive to build.            *)
(***************************************************************************)
EXTENDS DepShorthand, SourceKind, Toolchain

CONSTANTS
    Alphabet,   \* characters of shorthand strings
    MaxLen,     \* longest shorthand string
    MaxParts    \* most dot-separated parts of a file name

(* Dot-separated parts of file names: the empty part gives dot-files and   *)
(* doubled dots.                                                           *)
Words ==
    { <<>>, <<"a">>, <<"h">>, <<"h","h">>, <<"h","p","p">>, <<"H">>,
      <<"c">>, <<"c","p","p">>, <<"C">>, <<"i","n","l">>,
      <<"t","e","s","t">>, <<"m","a","i","n">> }

JoinParts(ps) == FoldLeft(LAMBDA acc, p : acc \o <<".">> \o p, Head(ps), Tail(ps))

FileNames ==
    { JoinParts(ps) : ps \in BoundedSeq(Words, MaxParts) \ {<<>>} } \ {<<>>}

(* A toolchain file: for each key (and one unknown key) a count of 0 to 2 *)
(* occurrences, in the order of KeyOrder, reversed, or with its first     *)
(* pair moved to the end.  The n-th value given for key k is <<k, n>>.   *)
KeyOrder == <<"Include-Template", "Define-Template", "Compile-C-Template",
              "Compile-C++-Template", "Create-Archive-Template",
              "Archive-Suffix", "Warning-Flags", "Compiler-ID">>

ToolchainFiles ==
    LET pairs(c) == FlattenSeq([i \in DOMAIN KeyOrder |->
                      [n \in 1 .. c[i] |-> [key |-> KeyOrder[i], value |-> <<KeyOrder[i], n>>]]])
        rotate(s) == IF s = <<>> THEN s ELSE Tail(s) \o <<Head(s)>>
    IN  UNION { {pairs(c), Reverse(pairs(c)), rotate(pairs(c))} :
                  c \in [DOMAIN KeyOrder -> 0 .. 2] }

(* Arguments with placeholders once, twice, next to each other, and in    *)
(* the values substituted for them.                                       *)
CompileInputs ==
    [tc : [cxx_compile : BoundedSeq({<<"c">>, FILE, <<"x">> \o OUT, FILE \o OUT, FLAGS}, 2),
           inc_template : {<< <<"I">> \o PATH >>, << <<"I">>, PATH >>},
           def_template : {<< <<"D">> \o DEFN \o DEFN >>},
           warning_flags : {<<>>, << <<"w">> >>}],
     spec : [include_dirs : BoundedSeq({<<"a">>, PATH}, 2),
             definitions : BoundedSeq({<<"d">>, DEFN}, 1),
             enable_warnings : BOOLEAN,
             source_path : {<<"a">>, FILE, <<"s">> \o OUT},
             out_path : {<<"b">>, FILE, OUT}]]

ArchiveInputs ==
    [tc : [archive_template : BoundedSeq({<<"r">>, OBJECTS, <<"x">> \o ARCHIVE,
                                         ARCHIVE \o ARCHIVE}, 3)],
     spec : [input_files : BoundedSeq({<<"a">>, ARCHIVE}, 2),
             out_path : {<<"b">>, OBJECTS, ARCHIVE}]]

VARIABLE input

(* A string is enumerated as two halves: TLC builds no set of more than  *)
(* a million strings.                                                      *)
Init ==
    \/ \E n \in 0 .. MaxLen :
         \E s1 \in [1 .. n \div 2 -> Alphabet], s2 \in [1 .. n - n \div 2 -> Alphabet] :
           input = [kind |-> "dep", s |-> s1 \o s2]
    \/ input \in [kind : {"path"}, s : FileNames]
    \/ input \in [kind : {"toolchain"}, kvs : ToolchainFiles]
    \/ \E c \in CompileInputs : input = [kind |-> "compile", tc |-> c.tc, spec |-> c.spec]
    \/ \E a \in ArchiveInputs : input = [kind |-> "archive", tc |-> a.tc, spec |-> a.spec]

Next == UNCHANGED input

Spec == Init /\ [][Next]_input

(* from_shorthand_string accepts exactly the strings of the spec's        *)
(* grammar and yields the same name, range (`@` read as `^`) and uses:     *)
(* the token loop of dependency.cpp:65-113 neither drops nor invents a     *)
(* library, accepts no trailing comma and rejects no well-formed list.    *)
ShorthandMatchesGrammar ==
    input.kind = "dep" => from_shorthand_string(input.s) = ShorthandSpec(input.s)

(* infer_source_kind's lower_bound lookups (file.cpp:40-55) find an       *)
(* extension exactly when it is in the table, so every file name gets the *)
(* kind spec section 4.F gives it.                                        *)
SourceKindMatchesTables ==
    input.kind = "path" => infer_source_kind(input.s) = SpecKind(input.s)

(* load_from_file (toolchain.cpp:25-95) accepts a toolchain file exactly  *)
(* when spec section 4.G does -- known keys, none twice, every required  *)
(* one present -- and files every value under its own key.               *)
ToolchainLoadMatchesSpec ==
    input.kind = "toolchain" => load_from_file(input.kvs) = ToolchainSpec(input.kvs)

(* The source path as create_compile_command inserts it: <FILE> is        *)
(* replaced before <OUT> in the same argument (toolchain.cpp:206-207), so *)
(* an <OUT> inside the source path is itself replaced by the object path. *)
SourceAsInserted(spec) ==
    [spec EXCEPT !.source_path = Subst(@, OUT :> spec.out_path)]

(* The compile and archive commands (toolchain.cpp:155-224) are the      *)
(* templates with every placeholder replaced verbatim and <FLAGS> and     *)
(* <OBJECTS> spliced, spec section 4.G: no occurrence is missed or kept, *)
(* and no substituted text is substituted again -- with the one exception *)
(* the order of lines 206-207 makes: an <OUT> in the source path (hazard  *)
(* at line 207).  Object paths, include directories, definitions and     *)
(* archive inputs holding placeholders are all inserted verbatim.         *)
CommandsSubstituteVerbatim ==
    /\ input.kind = "compile" =>
          create_compile_command(input.tc, input.spec)
              = CompileSpec(input.tc, SourceAsInserted(input.spec))
    /\ input.kind = "archive" =>
          create_archive_command(input.tc, input.spec) = ArchiveSpec(input.tc, input.spec)

=============================================================================
