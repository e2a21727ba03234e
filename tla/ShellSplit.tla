----------------------------- MODULE ShellSplit -----------------------------
(***************************************************************************)
(* dds::split_shell_string (src/dds/toolchain.cpp:97-151), which splits    *)
(* every template value of a toolchain file into compiler arguments, as a  *)
(* fold over the characters of the string; and a reference definition of   *)
(* shell word splitting with quotes to check it against.  A string is a    *)
(* sequence of one-character strings.                                      *)
(***************************************************************************)
EXTENDS Naturals, Sequences, SequencesExt

CONSTANTS
    Alphabet,   \* characters the inputs are made of
    MaxLen      \* bound: length of the inputs

Whitespace == {" ", "\t", "\n", "\r", "\f"}
Quotes     == {"\"", "'"}

(* The loop's locals: cur_quote ("" for 0), is_escaped, acc, and the       *)
(* opt_string token as a flag and its text.                                *)
Start == [quote |-> "", esc |-> FALSE, acc |-> <<>>, has |-> FALSE, tok |-> <<>>]

Append1(st, c) == [st EXCEPT !.tok = @ \o <<c>>, !.has = TRUE]

(* One iteration of the while loop, lines 109-143.  After a backslash the  *)
(* test of line 113 holds for every character but NUL, so the escaped     *)
(* character is kept and the backslash dropped; an escaped newline is      *)
(* dropped.  An opening quote sets token = "" (line 133).                  *)
ShellStep(st, c) ==
    CASE st.esc            -> IF c = "\n" THEN [st EXCEPT !.esc = FALSE]
                              ELSE [Append1(st, c) EXCEPT !.esc = FALSE]
      [] c = "\\"          -> [st EXCEPT !.esc = TRUE]
      [] st.quote # ""     -> IF c = st.quote THEN [st EXCEPT !.quote = ""]
                              ELSE Append1(st, c)
      [] c \in Quotes      -> [st EXCEPT !.quote = c, !.has = TRUE, !.tok = <<>>]
      [] c \in Whitespace  -> [st EXCEPT !.acc = IF st.has THEN @ \o <<st.tok>> ELSE @,
                                         !.has = FALSE, !.tok = <<>>]
      [] OTHER             -> Append1(st, c)

(* lines 146-150: push the last token, if any. *)
split_shell_string(s) ==
    LET st == FoldLeft(ShellStep, Start, s)
    IN  IF st.has THEN st.acc \o <<st.tok>> ELSE st.acc

-----------------------------------------------------------------------------
(* Reference: POSIX shell word splitting (XCU 2.6.5 and 2.2) of strings    *)
(* without backslashes.  Unquoted blanks separate words; a quoted part,    *)
(* possibly empty, belongs to the word it touches.  Words(s, q, w, inw):   *)
(* the words of s when q is the open quote ("" if none) and the word read  *)
(* so far is w (inw: a word has begun).                                    *)
RECURSIVE Words(_, _, _, _)
Words(s, q, w, inw) ==
    IF s = <<>> THEN (IF inw THEN <<w>> ELSE <<>>)
    ELSE LET c == Head(s)
             r == Tail(s)
         IN  IF q # "" THEN
                 IF c = q THEN Words(r, "", w, TRUE)
                 ELSE Words(r, q, w \o <<c>>, TRUE)
             ELSE IF c \in Quotes THEN Words(r, c, w, TRUE)
             ELSE IF c \in Whitespace
                 THEN (IF inw THEN <<w>> ELSE <<>>) \o Words(r, "", <<>>, FALSE)
             ELSE Words(r, "", w \o <<c>>, TRUE)

ShellWords(s) == Words(s, "", <<>>, FALSE)

(* The quote left open at the end of s ("" if none): a shell rejects such *)
(* a string, so the reference says nothing of it.                          *)
RECURSIVE OpenQuote(_, _)
OpenQuote(s, q) ==
    IF s = <<>> THEN q
    ELSE OpenQuote(Tail(s), IF q = "" /\ Head(s) \in Quotes THEN Head(s)
                            ELSE IF Head(s) = q THEN "" ELSE q)

-----------------------------------------------------------------------------
(* Each behaviour checks one input. *)
VARIABLE input

Init == input \in {s \in BoundedSeq(Alphabet, MaxLen) : OpenQuote(s, "") = ""}
Next == UNCHANGED input
Spec == Init /\ [][Next]_input

(* spec.md 4.G: "Each template value is a shell-split sequence of         *)
(* arguments" -- split_shell_string splits a value into the words a shell  *)
(* would, so that e.g. -DNAME="a b" stays one argument -DNAME=a b.         *)
SplitsLikeShell == split_shell_string(input) = ShellWords(input)
=============================================================================
