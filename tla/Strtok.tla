------------------------------- MODULE Strtok -------------------------------
(***************************************************************************)
(* strtok() of the C library, by which both codecs of the repository take  *)
(* a text apart.  A text is a sequence of characters; position Len + 1 is  *)
(* where it ends.                                                          *)
(***************************************************************************)
EXTENDS Integers, FiniteSetsExt, SequencesExt

Nul == "NUL"    \* '\0'
NoToken == 0    \* NULL

\* The first position from "at" on that is in "where", or the end of the text.
FirstOf(text, at, where(_)) ==
  Min({i \in at .. Len(text) : where(text[i])} \cup {Len(text) + 1})

Ends(text, i) == i > Len(text) \/ text[i] = Nul

\* The C string that begins at a position.
CString(text, at) == SubSeq(text, at, FirstOf(text, at, LAMBDA c : c = Nul) - 1)

\* One call that starts at "at": where the token it finds begins, what it makes of
\* the text, and where the next call with NULL goes on.  Delimiters before the
\* token are skipped, the one behind it is overwritten.
Strtok(text, at, delims) ==
  LET start == FirstOf(text, at, LAMBDA c : c \notin delims)
      end   == FirstOf(text, start, LAMBDA c : c \in delims \cup {Nul})
  IN  CASE Ends(text, start) -> [token |-> NoToken, text |-> text, at |-> start]
        [] ~Ends(text, start) /\ Ends(text, end)
             -> [token |-> start, text |-> text, at |-> end]
        [] OTHER
             -> [token |-> start, text |-> [text EXCEPT ![end] = Nul], at |-> end + 1]

=============================================================================
