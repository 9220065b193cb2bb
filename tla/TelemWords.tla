----------------------------- MODULE TelemWords -----------------------------
(***************************************************************************)
(* The words of a .telem configuration and the tokens                      *)
(* Tokenizer::_interpWord makes of them (lib/can/builder/tokenizer.cpp).   *)
(*                                                                         *)
(* Of the characters of a word only the class the conversion functions see *)
(* is kept: a decimal, hexadecimal or floating literal with its value, or  *)
(* any other text.  Floating values are counted in some fixed unit.        *)
(***************************************************************************)
EXTENDS Integers, Sequences, FiniteSetsExt, Functions

UINT16 == 65536

AnyWord ==
    [form : {"text"}, s : STRING, n : {0}]
      \cup [form : {"dec", "real"}, s : {""}, n : Int] \cup [form : {"hex"}, s : {""}, n : Nat]

Txt(s)  == [form |-> "text",    s |-> s,  n |-> 0]
Dec(n)  == [form |-> "dec",     s |-> "", n |-> n]
Hex(n)  == [form |-> "hex",     s |-> "", n |-> n]
Real(n) == [form |-> "real",    s |-> "", n |-> n]
Comment == [form |-> "comment", s |-> "", n |-> 0]    \* a word that starts with #
Newline == [form |-> "newline", s |-> "", n |-> 0]

Symbol == AnyWord \cup {Comment, Newline}

prefixLUT ==
    [p \in {">>>", "!!", ">>", ">"} |->
       CASE p = ">>>" -> "TT_SIGNAL_PREFIX"
         [] p = "!!"  -> "TT_OPTION_PREFIX"
         [] p = ">>"  -> "TT_MESSAGE_PREFIX"
         [] p = ">"   -> "TT_BOARD_PREFIX"]

InterpWord(w) ==
    CASE w.form = "dec"  -> "TT_INT"
      [] w.form = "hex"  -> "TT_HEX_INT"
      [] w.form = "real" -> "TT_FLOAT"
      [] w.form = "text" /\ w.s \in DOMAIN prefixLUT    -> prefixLUT[w.s]
      [] w.form = "text" /\ w.s \notin DOMAIN prefixLUT -> "TT_IDENTIFIER"
=============================================================================
