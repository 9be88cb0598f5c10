---------------------------- MODULE PacketCodec ----------------------------
(***************************************************************************)
(* A fragment as text: formatPacket() and formatString() of packet.h.  The *)
(* digits of a number are one character of the text, which atoi() turns    *)
(* into the number again; a file name and the data are what they are.      *)
(***************************************************************************)
EXTENDS Strtok

CONSTANT Numbers        \* numbers a fragment may carry

Colon == ":"
Digits(n) == <<ToString(n)>>

\* No two numbers have the same digits, and none is what ends a field or a text.
ASSUME NumbersAssumption ==
  /\ Numbers \subseteq Nat
  /\ \A n \in Numbers : ToString(n) \in STRING \ {Colon, Nul}
  /\ \A m, n \in Numbers : ToString(m) = ToString(n) => m = n

\* What is not a number counts as 0.
atoi(text) ==
  IF \E n \in Numbers : Digits(n) = text THEN CHOOSE n \in Numbers : Digits(n) = text ELSE 0

formatPacket(p) ==
  Digits(p.total_frag) \o <<Colon>> \o Digits(p.frag_no) \o <<Colon>>
    \o Digits(p.size) \o <<Colon>> \o p.filename \o <<Colon>>
    \o SubSeq(p.filedata, 1, p.size)

\* A call of strtok() with NULL goes on where the one before it ended.
NextCall(call) == Strtok(call.text, call.at, {Colon})

\* The data taken for a fifth token.
formatStringMutant(buf) ==
  LET first  == Strtok(buf, 1, {Colon})
      second == NextCall(first)
      third  == NextCall(second)
      fourth == NextCall(third)
      fifth  == NextCall(fourth)
      myString(call) == CString(fifth.text, call.token)
      size == atoi(myString(third))
  IN  [total_frag |-> atoi(myString(first)), frag_no |-> atoi(myString(second)),
       size |-> size, filename |-> myString(fourth),
       filedata |-> IF fifth.token = NoToken THEN <<>>
                    ELSE SubSeq(fifth.text, fifth.token, fifth.token + size - 1)]

\* The four fields before the data are tokens; the data starts as many bytes into
\* the datagram as they and their colons take, and is as long as the third one says.
formatString(buf) ==
  LET first  == Strtok(buf, 1, {Colon})
      second == NextCall(first)
      third  == NextCall(second)
      fourth == NextCall(third)
      myString(call) == CString(fourth.text, call.token)
      size   == atoi(myString(third))
      strptr == Len(myString(first)) + Len(myString(second)) + Len(myString(third))
                  + Len(myString(fourth)) + 4
  IN  [total_frag |-> atoi(myString(first)), frag_no |-> atoi(myString(second)),
       size |-> size, filename |-> myString(fourth),
       filedata |-> SubSeq(fourth.text, strptr + 1, strptr + size)]

=============================================================================
