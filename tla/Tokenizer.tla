------------------------------ MODULE Tokenizer ------------------------------
(***************************************************************************)
(* lib/can/builder/tokenizer.cpp over the two token readers: the one of    *)
(* the firmware, which reads a file on the card, and the one of the tests, *)
(* which reads a string.  Both keep a position in the configuration and    *)
(* skip blanks, newlines included, in front of a word.  They differ in     *)
(* where eatUntil('\n') stops.                                             *)
(***************************************************************************)
EXTENDS TelemWords

VARIABLES
    reader,     \* "sd": SDTokenReader, "mock": MockTokenReader
    readable,   \* the FileGuard has a file
    text,       \* the symbols of the configuration
    pos         \* how many of them are read

sourceVars == <<reader, readable, text>>

Reading ==
    /\ pos = 0
    /\ reader = "mock" => readable

WordsAhead ==
    IF readable THEN {i \in (pos + 1)..Len(text) : text[i] # Newline} ELSE {}

(* peekNextWord *)
Word == text[Min(WordsAhead)]

AtComment == WordsAhead # {} /\ Word = Comment

(* peek, once comments are skipped *)
Peek == IF WordsAhead = {} THEN "none" ELSE InterpWord(Word)

(* where moveWord leaves the reader *)
Moved ==
    IF WordsAhead # {} THEN Min(WordsAhead) ELSE IF readable THEN Len(text) ELSE pos

(* mutant: the reader of the card stops in front of the newline too *)
EatenBefore(p) ==
    LET newlines == {i \in (p + 1)..Len(text) : text[i] = Newline}
    IN  IF ~readable THEN p
        ELSE IF newlines = {} THEN Len(text)
        ELSE Min(newlines) - 1

(* where eatUntil('\n') leaves a reader that is at p: the one of the card   *)
(* reads the newline, the one of the tests stops in front of it             *)
Eaten(p) ==
    LET newlines == {i \in (p + 1)..Len(text) : text[i] = Newline}
    IN  IF ~readable THEN p
        ELSE IF newlines = {} THEN Len(text)
        ELSE IF reader = "sd" THEN Min(newlines) ELSE Min(newlines) - 1

(* one turn of the loop in peek, lines 63-70 *)
EatComment ==
    /\ AtComment
    /\ pos' = Eaten(pos)
    /\ UNCHANGED sourceVars

(* end(): the reader of the tests goes to the end of its string *)
EndReading ==
    /\ pos' = IF reader = "mock" THEN Len(text) ELSE pos
    /\ UNCHANGED sourceVars
=============================================================================
