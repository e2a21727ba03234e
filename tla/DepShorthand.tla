---------------------------- MODULE DepShorthand ----------------------------
(***************************************************************************)
(* The dependency shorthand parser of src/bpt/project/dependency.cpp:      *)
(* project_dependency::from_shorthand_string and the helpers it calls,     *)
(* next_token and parse_dep_range_shorthand.                               *)
(*                                                                         *)
(* A string is a sequence of one-character strings.  The word `using` is   *)
(* written as the single glyph "U": a token equals "using" exactly when it *)
(* is <<"U">>, and "U" may also occur inside names, as the letters of      *)
(* `using` may.  Versions are abstracted to runs of VersionChars.          *)
(*                                                                         *)
(* A parse yields ParseError or a record: the name, the range (its         *)
(* operator followed by the version, `@` already normalised to `^`), and   *)
(* the uses: None for "all libraries" or the sequence of listed names.     *)
(***************************************************************************)
EXTENDS Naturals, Sequences, SequencesExt

CONSTANTS
    NameChars,      \* characters a name may consist of (all letters here)
    VersionChars,   \* characters of an abstract version
    None            \* model value: implicit uses (no `using` clause)

Seps       == {"=", "@", "^", "~", "+"}    \* sv.find_first_of("=@^~+")
RangeOps   == {"=", "^", "~", "+"}         \* what parse_restricted accepts
UsingTok   == <<"U">>
CommaTok   == <<",">>
ParseError == [ok |-> FALSE]

IsSpace(c) == c = " "

DropFirst(s, n) == SubSeq(s, n + 1, Len(s))

(* bpt::name::from_string (not in src/): spec section 3, a non-empty      *)
(* identifier.                                                              *)
ValidName(s) == s # <<>> /\ \A i \in DOMAIN s : s[i] \in NameChars

(* semver::range::parse_restricted (not in src/): an operator followed by  *)
(* a version.                                                               *)
ValidRange(r) ==
    /\ Len(r) >= 2
    /\ r[1] \in RangeOps
    /\ \A i \in 2 .. Len(r) : r[i] \in VersionChars

(* trim_view (not in src/): strip leading and trailing whitespace.          *)
trim_view(sv) ==
    LET f == SelectInSeq(sv, LAMBDA c : ~IsSpace(c))
        l == SelectLastInSeq(sv, LAMBDA c : ~IsSpace(c))
    IN  IF f = 0 THEN <<>> ELSE SubSeq(sv, f, l)

(* next_token: after trimming, a lone comma or the longest run of          *)
(* characters that are neither space nor comma.  `lead` is the number of   *)
(* blanks trimmed before it, which adv_token's pointer arithmetic skips.   *)
next_token(sv) ==
    LET t    == trim_view(sv)
        f    == SelectInSeq(sv, LAMBDA c : ~IsSpace(c))
        stop == SelectInSeq(t, LAMBDA c : IsSpace(c) \/ c = ",")
    IN  [lead |-> IF f = 0 THEN Len(sv) ELSE f - 1,
         tok  |-> IF t = <<>> THEN <<>>
                  ELSE IF t[1] = "," THEN CommaTok
                  ELSE IF stop = 0 THEN t
                  ELSE SubSeq(t, 1, stop - 1)]

(* The lambda adv_token: `rest` is what follows the current token; the    *)
(* result is the next token and what follows it.                           *)
adv_token(rest) ==
    LET n == next_token(rest)
    IN  [tok |-> n.tok, rest |-> DropFirst(rest, n.lead + Len(n.tok))]

(* parse_dep_range_shorthand: split at the first operator character; the  *)
(* name must be valid; a leading `@` becomes `^` before the range parse.   *)
parse_dep_range_shorthand(sv) ==
    LET sep == SelectInSeq(sv, LAMBDA c : c \in Seps)
        nm  == SubSeq(sv, 1, sep - 1)
        raw == DropFirst(sv, sep - 1)
        rng == IF raw[1] = "@" THEN [raw EXCEPT ![1] = "^"] ELSE raw
    IN  IF sep = 0 \/ ~ValidName(nm) \/ ~ValidRange(rng) THEN ParseError
        ELSE [ok |-> TRUE, name |-> nm, range |-> rng, uses |-> None]

(* Mutant: a token after a library name ends the list even when it is not *)
(* a comma, and is never reported as trailing garbage.                     *)
RECURSIVE uses_loop_no_trailing(_, _)
uses_loop_no_trailing(rest, libs) ==
    LET lib   == adv_token(rest)
        after == adv_token(lib.rest)
    IN  IF lib.tok = CommaTok \/ ~ValidName(lib.tok) THEN ParseError
        ELSE IF after.tok = CommaTok
             THEN uses_loop_no_trailing(after.rest, Append(libs, lib.tok))
        ELSE [ok |-> TRUE, libs |-> Append(libs, lib.tok)]

(* The `while (1)` loop after `using` (lines 94-104) and the trailing      *)
(* check (107-110): a name (a comma or an empty token is an error), then   *)
(* either a comma and another round, or the end of the string.            *)
RECURSIVE uses_loop(_, _)
uses_loop(rest, libs) ==
    LET lib   == adv_token(rest)
        after == adv_token(lib.rest)
    IN  IF lib.tok = CommaTok \/ ~ValidName(lib.tok) THEN ParseError
        ELSE IF after.tok = CommaTok
             THEN uses_loop(after.rest, Append(libs, lib.tok))
        ELSE IF after.tok # <<>> THEN ParseError
        ELSE [ok |-> TRUE, libs |-> Append(libs, lib.tok)]

(* Lines 92-93 and 112: ret.explicit_uses becomes the parsed list. *)
set_uses(ret, u) == IF u.ok THEN [ret EXCEPT !.uses = u.libs] ELSE ParseError

(* Lines 82-91: after the name and range, nothing (implicit uses) or      *)
(* `using` and the library list.                                          *)
after_range(ret, t2) ==
    IF t2.tok = <<>> THEN ret
    ELSE IF t2.tok # UsingTok THEN ParseError
    ELSE set_uses(ret, uses_loop(t2.rest, <<>>))

(* from_shorthand_string, lines 65-80: the first token is the name and    *)
(* range.                                                                 *)
from_shorthand_string(sv) ==
    LET t1 == adv_token(sv)
    IN  IF t1.tok = <<>> THEN ParseError
        ELSE LET ret == parse_dep_range_shorthand(t1.tok)
             IN  IF ret.ok THEN after_range(ret, adv_token(t1.rest)) ELSE ParseError

-----------------------------------------------------------------------------
(* Reference: the grammar of spec section 4.A,                             *)
(*   <name><op><version>[ using <lib>[, <lib>]*]                           *)
(* with blanks around the words and before and after commas, recognised   *)
(* character by character.  `acc` collects the parse.                     *)

Normalise(op) == IF op = "@" THEN "^" ELSE op

(* One character: the next state and the parse so far ("err" is a dead   *)
(* state).                                                                  *)
Step(c, st, acc) ==
    LET Go(to, a) == [st |-> to, acc |-> a]
        Lib       == [acc EXCEPT !.libs = Append(acc.libs, acc.cur), !.cur = <<>>]
    IN  CASE st = "lead" /\ IsSpace(c)          -> Go("lead", acc)
          [] st = "lead" /\ c \in NameChars     -> Go("name", [acc EXCEPT !.name = <<c>>])
          [] st = "name" /\ c \in NameChars     -> Go("name", [acc EXCEPT !.name = Append(@, c)])
          [] st = "name" /\ c \in Seps          -> Go("op", [acc EXCEPT !.range = <<Normalise(c)>>])
          [] st \in {"op", "ver"} /\ c \in VersionChars
                                                -> Go("ver", [acc EXCEPT !.range = Append(@, c)])
          [] st \in {"ver", "gap"} /\ IsSpace(c) -> Go("gap", acc)
          [] st = "gap" /\ c = "U"              -> Go("using", acc)
          [] st \in {"using", "uws"} /\ IsSpace(c) -> Go("uws", acc)
          [] st \in {"uws", "comma"} /\ c \in NameChars
                                                -> Go("lib", [acc EXCEPT !.cur = <<c>>])
          [] st = "lib" /\ c \in NameChars      -> Go("lib", [acc EXCEPT !.cur = Append(@, c)])
          [] st \in {"lib", "libgap"} /\ IsSpace(c) -> Go("libgap", acc)
          [] st \in {"lib", "libgap"} /\ c = "," -> Go("comma", Lib)
          [] st = "comma" /\ IsSpace(c)         -> Go("comma", acc)
          [] OTHER                              -> Go("err", acc)

RECURSIVE Grammar(_, _, _)
Grammar(s, st, acc) ==
    IF s = <<>>
    THEN IF st \in {"ver", "gap"}
            THEN [ok |-> TRUE, name |-> acc.name, range |-> acc.range, uses |-> None]
         ELSE IF st \in {"lib", "libgap"}
            THEN [ok |-> TRUE, name |-> acc.name, range |-> acc.range,
                  uses |-> Append(acc.libs, acc.cur)]
         ELSE ParseError
    ELSE IF st = "err" THEN ParseError
    ELSE LET n == Step(Head(s), st, acc) IN Grammar(Tail(s), n.st, n.acc)

ShorthandSpec(s) ==
    Grammar(s, "lead", [name |-> <<>>, range |-> <<>>, libs |-> <<>>, cur |-> <<>>])

=============================================================================
