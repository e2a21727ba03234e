----------------------------- MODULE SourceKind -----------------------------
(***************************************************************************)
(* bpt::infer_source_kind and source_file::from_path of                    *)
(* src/bpt/sdist/file.cpp.  A file name is a sequence of one-character     *)
(* strings.  The extension tables are sorted vectors searched with         *)
(* std::lower_bound under std::less<> (byte order), which finds an entry   *)
(* only if the table really is sorted: the asserts of lines 35-37 are      *)
(* compiled out of release builds.                                        *)
(***************************************************************************)
EXTENDS Naturals, Sequences, SequencesExt

(* The characters of the tables, in byte (ASCII) order.                    *)
ByteOrder == <<"+", ".", "C", "H", "a", "c", "e", "h", "i", "l", "m", "n",
               "p", "s", "t", "x">>

Byte(c) == CHOOSE i \in DOMAIN ByteOrder : ByteOrder[i] = c

(* std::less<> on std::string_view: lexicographic by bytes.                *)
StrLess(s, t) ==
    \/ IsStrictPrefix(s, t)
    \/ \E k \in DOMAIN s \cap DOMAIN t :
          /\ SubSeq(s, 1, k - 1) = SubSeq(t, 1, k - 1)
          /\ Byte(s[k]) < Byte(t[k])

(* Mutant: ".hh" and ".hpp" in the wrong order.                            *)
header_exts_unsorted ==
    <<<<".","H">>, <<".","H","+","+">>, <<".","h">>, <<".","h","+","+">>,
      <<".","h","p","p">>, <<".","h","h">>, <<".","h","x","x">>>>

(* lines 13-34: the three tables.                                         *)
header_exts ==
    <<<<".","H">>, <<".","H","+","+">>, <<".","h">>, <<".","h","+","+">>,
      <<".","h","h">>, <<".","h","p","p">>, <<".","h","x","x">>>>

header_impl_exts ==
    <<<<".","i","n","c">>, <<".","i","n","l">>, <<".","i","p","p">>>>

source_exts ==
    <<<<".","C">>, <<".","c">>, <<".","c","+","+">>, <<".","c","c">>,
      <<".","c","p","p">>, <<".","c","x","x">>>>

(* std::lower_bound over exts[first .. first+count-1] (libstdc++'s         *)
(* halving loop): the first position whose entry is not less than v, if    *)
(* the range is sorted.                                                    *)
RECURSIVE lower_bound(_, _, _, _)
lower_bound(exts, v, first, count) ==
    IF count = 0 THEN first
    ELSE LET step == count \div 2
             it   == first + step
         IN  IF StrLess(exts[it], v)
                THEN lower_bound(exts, v, it + 1, count - step - 1)
                ELSE lower_bound(exts, v, first, step)

(* The lambda is_in, lines 40-43.                                          *)
is_in(exts, ext) ==
    LET k == lower_bound(exts, ext, 1, Len(exts))
    IN  k <= Len(exts) /\ exts[k] = ext

(* std::filesystem::path::extension of a file name: from the rightmost     *)
(* dot, unless the name is "." or "..", or that dot is its first           *)
(* character.                                                              *)
extension(f) ==
    LET k == SelectLastInSeq(f, LAMBDA c : c = ".")
    IN  IF f \in {<<".">>, <<".", ".">>} \/ k <= 1 THEN <<>>
        ELSE SubSeq(f, k, Len(f))

stem(f) == SubSeq(f, 1, Len(f) - Len(extension(f)))

TestExt == <<".","t","e","s","t">>
MainExt == <<".","m","a","i","n">>

(* lines 12-66: header, header_impl, or for a translation-unit extension  *)
(* test, app or source by the stem's own extension; None (nullopt)        *)
(* otherwise.  from_path (68-75) keeps exactly the files with a kind.     *)
infer_source_kind(f) ==
    LET ext == extension(f)
    IN  IF is_in(header_exts, ext) THEN "header"
        ELSE IF is_in(header_impl_exts, ext) THEN "header_impl"
        ELSE IF ~is_in(source_exts, ext) THEN "none"
        ELSE IF extension(stem(f)) = TestExt THEN "test"
        ELSE IF extension(stem(f)) = MainExt THEN "app"
        ELSE "source"

-----------------------------------------------------------------------------
(* Reference: spec section 4.F, with the extension sets of the tables and  *)
(* membership in place of the lookup.                                     *)

SpecKind(f) ==
    LET ext == extension(f)
        sx  == extension(stem(f))
    IN  CASE ext \in ToSet(header_exts)      -> "header"
          [] ext \in ToSet(header_impl_exts) -> "header_impl"
          [] ext \in ToSet(source_exts) /\ sx = TestExt -> "test"
          [] ext \in ToSet(source_exts) /\ sx = MainExt -> "app"
          [] ext \in ToSet(source_exts) /\ sx \notin {TestExt, MainExt}
                                             -> "source"
          [] OTHER                         -> "none"

=============================================================================
