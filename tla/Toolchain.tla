----------------------------- MODULE Toolchain -----------------------------
(***************************************************************************)
(* dds::toolchain of src/dds/toolchain.cpp: load_from_file, which reads    *)
(* the key-value pairs of a toolchain file into the templates, and the    *)
(* placeholder substitution of create_compile_command and                 *)
(* create_archive_command.                                                *)
(*                                                                         *)
(* A toolchain file is the sequence of its pairs [key, value] as           *)
(* lm_parse_file returns them.  A string (argument, path) is a sequence of *)
(* one-character strings; a placeholder is written as three characters,    *)
(* "<F>" for <FILE>, "<O>" for <OUT>, "<L>" for <FLAGS>, "<P>" for <PATH>, *)
(* "<D>" for <DEF>, "<A>" for <ARCHIVE> and "<J>" for <OBJECTS>: find     *)
(* matches them the way it matches the real ones.  A loaded toolchain has *)
(* its templates already shell-split into argument sequences.             *)
(***************************************************************************)
EXTENDS Naturals, Sequences, SequencesExt

FILE    == <<"<", "F", ">">>
OUT     == <<"<", "O", ">">>
FLAGS   == <<"<", "L", ">">>
PATH    == <<"<", "P", ">">>
DEFN    == <<"<", "D", ">">>
ARCHIVE == <<"<", "A", ">">>
OBJECTS == <<"<", "J", ">">>

(* The keys try_single accepts (lines 61-68); all but Warning-Flags are   *)
(* required (77-84).                                                      *)
ToolchainKeys == {"Include-Template", "Define-Template", "Compile-C-Template",
                  "Compile-C++-Template", "Create-Archive-Template",
                  "Archive-Suffix", "Warning-Flags"}
RequiredKeys  == ToolchainKeys \ {"Warning-Flags"}

LoadError == [ok |-> FALSE]

(* Mutant: a repeated key overwrites the earlier value. *)
try_single_no_dup(acc, kv) ==
    IF ~acc.ok THEN acc
    ELSE IF kv.key \notin ToolchainKeys THEN LoadError
    ELSE [acc EXCEPT !.opt[kv.key] = <<kv.value>>]

(* One round of the loop of lines 43-75: the pair's key must be one of the *)
(* known keys (else "Unknown toolchain file key") and not set yet (else    *)
(* "Duplicate key"); the first exception ends the load.                   *)
try_single(acc, kv) ==
    IF ~acc.ok THEN acc
    ELSE IF kv.key \notin ToolchainKeys THEN LoadError
    ELSE IF acc.opt[kv.key] # <<>> THEN LoadError
    ELSE [acc EXCEPT !.opt[kv.key] = <<kv.value>>]

(* The for loop over kvs.items(), lines 43-75. *)
RECURSIVE items_loop(_, _)
items_loop(acc, kvs) ==
    IF kvs = <<>> THEN acc ELSE items_loop(try_single(acc, Head(kvs)), Tail(kvs))

(* load_from_file, lines 25-95.  An unset optional<string> is <<>>, a set *)
(* one <<v>>; Warning-Flags defaults to "" (value_or).                    *)
load_from_file(kvs) ==
    LET acc == items_loop([ok |-> TRUE, opt |-> [k \in ToolchainKeys |-> <<>>]], kvs)
    IN  IF ~acc.ok \/ \E k \in RequiredKeys : acc.opt[k] = <<>> THEN LoadError
        ELSE [ok |-> TRUE,
              tc |-> [k \in ToolchainKeys |->
                        IF acc.opt[k] = <<>> THEN "" ELSE acc.opt[k][1]]]

(* str.find(key, pos): the first position at or after pos where key       *)
(* occurs, or 0 (npos).                                                   *)
find(str, key, pos) ==
    LET at == {i \in pos .. Len(str) - Len(key) + 1 :
                  SubSeq(str, i, i + Len(key) - 1) = key}
    IN  IF at = {} THEN 0 ELSE Min(at)

(* Mutant: the search resumes after the key but the copy from the key      *)
(* itself (prev_pos = pos; pos += key.size()).                            *)
RECURSIVE replace_loop_keeps_key(_, _, _, _, _, _)
replace_loop_keeps_key(str, key, repl, pos, prev, ret) ==
    LET at == find(str, key, pos)
    IN  IF at = 0 THEN ret \o SubSeq(str, prev, Len(str))
        ELSE replace_loop_keeps_key(str, key, repl, at + Len(key), at,
                                    ret \o SubSeq(str, prev, at - 1) \o repl)

(* The loop of replace(str, key, repl), lines 155-166: copy up to the next *)
(* occurrence, append repl, continue after the occurrence; then copy the  *)
(* rest.                                                                  *)
RECURSIVE replace_loop(_, _, _, _, _, _)
replace_loop(str, key, repl, pos, prev, ret) ==
    LET at == find(str, key, pos)
    IN  IF at = 0 THEN ret \o SubSeq(str, prev, Len(str))
        ELSE replace_loop(str, key, repl, at + Len(key), at + Len(key),
                          ret \o SubSeq(str, prev, at - 1) \o repl)

replace(str, key, repl) == replace_loop(str, key, repl, 1, 1, <<>>)

(* The vector overload, lines 168-173. *)
replace_each(strings, key, repl) ==
    [i \in DOMAIN strings |-> replace(strings[i], key, repl)]

(* Lines 176-182. *)
include_args(tc, p)    == replace_each(tc.inc_template, PATH, p)
definition_args(tc, s) == replace_each(tc.def_template, DEFN, s)

(* create_compile_command, lines 184-212: the flags are the include args  *)
(* of every include dir, the definition args of every definition and, if  *)
(* enabled, the warning flags; the C++ template is copied with a <FLAGS>  *)
(* argument spliced into those flags and <FILE>, then <OUT>, replaced in  *)
(* every other argument.                                                  *)
create_compile_command(tc, spec) ==
    LET flags == FlattenSeq(<<
                   FlattenSeq([i \in DOMAIN spec.include_dirs |-> include_args(tc, spec.include_dirs[i])]),
                   FlattenSeq([i \in DOMAIN spec.definitions |-> definition_args(tc, spec.definitions[i])]),
                   IF spec.enable_warnings THEN tc.warning_flags ELSE <<>> >>)
        arg(a) == IF a = FLAGS THEN flags
                  ELSE << replace(replace(a, FILE, spec.source_path), OUT, spec.out_path) >>
    IN  FlattenSeq([i \in DOMAIN tc.cxx_compile |-> arg(tc.cxx_compile[i])])

(* create_archive_command, lines 214-224: <OBJECTS> splices the input     *)
(* files, <ARCHIVE> is replaced by the output path.                       *)
create_archive_command(tc, spec) ==
    LET arg(a) == IF a = OBJECTS THEN spec.input_files
                  ELSE << replace(a, ARCHIVE, spec.out_path) >>
    IN  FlattenSeq([i \in DOMAIN tc.archive_template |-> arg(tc.archive_template[i])])

-----------------------------------------------------------------------------
(* Reference: spec section 4.G.                                            *)

(* A file is accepted iff its keys are known, none is repeated and every  *)
(* required one is present; each template is the value given for it.     *)
ToolchainSpec(kvs) ==
    LET keys == {kvs[i].key : i \in DOMAIN kvs}
        valueOf(k) == kvs[CHOOSE i \in DOMAIN kvs : kvs[i].key = k].value
    IN  IF \/ ~(keys \subseteq ToolchainKeys)
           \/ ~(RequiredKeys \subseteq keys)
           \/ \E i, j \in DOMAIN kvs : i # j /\ kvs[i].key = kvs[j].key
        THEN LoadError
        ELSE [ok |-> TRUE,
              tc |-> [k \in ToolchainKeys |-> IF k \in keys THEN valueOf(k) ELSE ""]]

(* Verbatim substitution: scanning left to right, an occurrence of a      *)
(* placeholder of `subst` (a function from placeholders to values) is    *)
(* replaced by its value and scanning resumes after it.                   *)
RECURSIVE Subst(_, _)
Subst(s, subst) ==
    IF s = <<>> THEN <<>>
    ELSE IF \E k \in DOMAIN subst : IsPrefix(k, s)
    THEN LET k == CHOOSE k \in DOMAIN subst : IsPrefix(k, s)
         IN  subst[k] \o Subst(SubSeq(s, Len(k) + 1, Len(s)), subst)
    ELSE <<Head(s)>> \o Subst(Tail(s), subst)

(* Each template argument becomes its placeholder-substituted self, or,   *)
(* for a splicing placeholder, the sequence it stands for.                *)
Expand(template, splice, args, subst) ==
    FlattenSeq([i \in DOMAIN template |->
                  IF template[i] = splice THEN args
                  ELSE <<Subst(template[i], subst)>>])

CompileSpec(tc, spec) ==
    LET flags == FlattenSeq(<<
                   FlattenSeq([i \in DOMAIN spec.include_dirs |->
                       Expand(tc.inc_template, <<>>, <<>>, PATH :> spec.include_dirs[i])]),
                   FlattenSeq([i \in DOMAIN spec.definitions |->
                       Expand(tc.def_template, <<>>, <<>>, DEFN :> spec.definitions[i])]),
                   IF spec.enable_warnings THEN tc.warning_flags ELSE <<>> >>)
    IN  Expand(tc.cxx_compile, FLAGS, flags,
               (FILE :> spec.source_path) @@ (OUT :> spec.out_path))

ArchiveSpec(tc, spec) ==
    Expand(tc.archive_template, OBJECTS, spec.input_files, ARCHIVE :> spec.out_path)

=============================================================================
