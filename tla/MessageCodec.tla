---------------------------- MODULE MessageCodec ----------------------------
(***************************************************************************)
(* The messages of the conference as text: formatMessage() and             *)
(* formatString() of TextConferencing/message.h, and the two calls of      *)
(* strtok() by which the server takes the data of a MESSAGE apart.  Every  *)
(* thread of the server works on texts of its own, but the place where     *)
(* strtok() goes on is one variable of the process.                        *)
(*                                                                         *)
(* A step is one call of strtok(); the fields it returns are pointers into *)
(* the texts, and are read when they are copied.  A number is one          *)
(* character that is not a colon, and "data" the bytes its size counts.    *)
(* The messages a thread has parsed are never freed: what it parses        *)
(* afterwards takes another place, but strtok() is not left in the old one *)
(* by then, the parse having begun with a text of its own.                 *)
(***************************************************************************)
EXTENDS Strtok

CONSTANTS
  Thread,         \* threads that parse
  Ids,            \* texts for the field "source"
  Datas,          \* texts for the field "data"
  MaxTexts        \* bound: texts received

ASSUME TextsAssumption ==
  \A text \in Ids \cup Datas : text \in Seq(STRING) /\ Nul \notin ToSet(text)

VARIABLES
  parsing,        \* threads in formatString()
  memory,         \* each thread's buff, and the data of its last MESSAGE
  cuts,           \* calls of strtok() a thread has yet to make for a MESSAGE
  myString,       \* the pointers formatString() has from strtok() so far
  strtokNext,     \* where strtok(NULL, ...) goes on
  sent,           \* the message in buff as its sender made it (history)
  texts,          \* texts received (bounded)
  mixed           \* threads during whose parse another one called strtok() (history)

vars == <<parsing, memory, cuts, myString, strtokNext, sent, texts, mixed>>

Colon == ":"
Comma == ","

Place == Thread \X {"buff", "data"}
Buff(t) == <<t, "buff">>
Data(t) == <<t, "data">>

Pointer(place, at) == [in |-> place, at |-> at]
Null == Pointer(NoToken, 0)
Unset == <<"?">>          \* what malloc() has left in a field

Message == [source : Ids, data : Datas]
NoMessage == [source |-> Unset, data |-> Unset]

\* The size left out.
formatMessageMutant(m) == <<"t", Colon>> \o m.source \o <<Colon>> \o m.data

formatMessage(m) == <<"t", Colon, "n", Colon>> \o m.source \o <<Colon>> \o m.data

Init ==
  /\ parsing = {}
  /\ memory = [place \in Place |-> <<>>]
  /\ cuts = [t \in Thread |-> 0]
  /\ myString = [t \in Thread |-> <<>>]
  /\ strtokNext = Null
  /\ sent = [t \in Thread |-> NoMessage]
  /\ texts = 0
  /\ mixed = {}

-----------------------------------------------------------------------------

\* recv() into the thread's own buffer, and formatString() called.
Receive(t, m) ==
  /\ t \notin parsing /\ cuts[t] = 0
  /\ texts < MaxTexts /\ texts' = texts + 1
  /\ parsing' = parsing \cup {t}
  /\ memory' = [memory EXCEPT ![Buff(t)] = formatMessage(m)]
  /\ sent' = [sent EXCEPT ![t] = m]
  /\ UNCHANGED <<cuts, myString, strtokNext, mixed>>

\* A call of strtok() by t that starts at a pointer.
CallStrtok(t, from, delims) ==
  LET call == Strtok(memory[from.in], from.at, delims)
  IN  /\ memory' = [memory EXCEPT ![from.in] = call.text]
      /\ strtokNext' = Pointer(from.in, call.at)
      /\ mixed' = mixed \cup (parsing \ {t})
      /\ UNCHANGED <<parsing, sent, texts>>

\* A call of formatString(), which keeps what strtok() returns.
TakeField(t, from, delims) ==
  LET call == Strtok(memory[from.in], from.at, delims)
  IN  /\ CallStrtok(t, from, delims)
      /\ myString' = [myString EXCEPT ![t] = Append(@,
           IF call.token = NoToken THEN Null ELSE Pointer(from.in, call.token))]
      /\ UNCHANGED cuts

At(t, n) == t \in parsing /\ Len(myString[t]) = n

FirstField(t) == At(t, 0) /\ TakeField(t, Pointer(Buff(t), 1), {Colon})
NextField(t)  == (At(t, 1) \/ At(t, 2)) /\ TakeField(t, strtokNext, {Colon})

\* The last field taken up to a colon, like the others.
LastFieldMutant(t) == At(t, 3) /\ TakeField(t, strtokNext, {Colon})

\* The rest of the text, colons and all.
LastField(t) == At(t, 3) /\ TakeField(t, strtokNext, {})

\* What a pointer leads to.  NULL leads to nothing: the field is not written.
Field(p) == IF p = Null THEN Unset ELSE CString(memory[p.in], p.at)

\* What formatString() makes of the four pointers: a text of only three fields has
\* no source.
Parsed(t) ==
  IF myString[t][4] = Null
  THEN [source |-> Unset, data |-> Field(myString[t][3])]
  ELSE [source |-> Field(myString[t][3]), data |-> Field(myString[t][4])]

\* formatString() returns, and if the message is a MESSAGE, its data is taken apart next.
Return(t) ==
  /\ At(t, 4)
  /\ parsing' = parsing \ {t}
  /\ mixed' = mixed \ {t}
  /\ myString' = [myString EXCEPT ![t] = <<>>]
  /\ sent' = [sent EXCEPT ![t] = NoMessage]
  /\ \/ UNCHANGED <<memory, cuts>>
     \/ /\ memory' = [memory EXCEPT ![Data(t)] = Parsed(t).data]
        /\ cuts' = [cuts EXCEPT ![t] = 2]
  /\ UNCHANGED <<strtokNext, texts>>

\* The session a MESSAGE is for, from the beginning of its data.
TargetSession(t) ==
  /\ cuts[t] = 2
  /\ CallStrtok(t, Pointer(Data(t), 1), {Comma})
  /\ cuts' = [cuts EXCEPT ![t] = 1]
  /\ UNCHANGED myString

\* Its text, from wherever strtok() goes on.
TextOf(t) ==
  /\ cuts[t] = 1
  /\ CallStrtok(t, strtokNext, {Comma})
  /\ cuts' = [cuts EXCEPT ![t] = 0]
  /\ UNCHANGED myString

Next ==
  \E t \in Thread :
    \/ \E m \in Message : Receive(t, m)
    \/ FirstField(t) \/ NextField(t) \/ LastField(t) \/ Return(t)
    \/ TargetSession(t) \/ TextOf(t)

Spec == Init /\ [][Next]_vars

-----------------------------------------------------------------------------

HasColon(text) == Colon \in ToSet(text)

\* A message that is parsed while no other thread calls strtok(), neither to parse
\* nor to take a MESSAGE apart, keeps what it says if it has data at all: its source
\* and its data, colons and all, if the source is set, to a name without a colon; its
\* data if the source is not set, as in the client's requests, and the data has no
\* colon (message.h:409-463).  Nothing is said of a message without data: if its
\* source is set, that is taken for the data (message.h:441-444).
ParsedAloneIsKept ==
  \A t \in parsing \ mixed :
    At(t, 4) /\ sent[t].data # <<>> /\ ~HasColon(sent[t].source) =>
      /\ sent[t].source # <<>> => Parsed(t) = sent[t]
      /\ ~HasColon(sent[t].data) => Parsed(t).data = sent[t].data

\* formatString() never takes a formatted message for one of three characters, for
\* which it returns NULL, not even if another thread has cut it (message.h:426).
NeverTakenForNull ==
  \A t \in parsing : At(t, 0) => Len(CString(memory[Buff(t)], 1)) # 3

=============================================================================
