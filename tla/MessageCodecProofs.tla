-------------------------- MODULE MessageCodecProofs --------------------------
(***************************************************************************)
(* What holds of the messages of the conference for any texts and any      *)
(* number of threads that parse.                                           *)
(***************************************************************************)
EXTENDS MessageCodec, StrtokProofs

Delimiters == {{Colon}, {}, {Comma}}

-----------------------------------------------------------------------------
(* Types *)

\* Texts are texts.
LEMMA TextsTyped == \A text \in Ids \cup Datas :
  text \in Seq(Char) /\ \A i \in 1 .. Len(text) : text[i] # Nul
<1> SUFFICES ASSUME NEW text \in Ids \cup Datas
             PROVE  text \in Seq(Char) /\ \A i \in 1 .. Len(text) : text[i] # Nul
  OBVIOUS
<1>1. text \in Seq(STRING) /\ Nul \notin ToSet(text)
  BY TextsAssumption
<1>2. STRING \subseteq Char
  BY DEF Char
<1>3. text \in Seq(Char)
  BY <1>1, <1>2, SeqMonotonic
<1>4. \A i \in 1 .. Len(text) : text[i] \in ToSet(text)
  BY <1>1 DEF ToSet
<1> QED BY <1>1, <1>3, <1>4

\* A message as text (message.h:409-418).
LEMMA MessagesAreTexts ==
  ASSUME NEW m \in Message, NEW f, f = formatMessage(m)
  PROVE  /\ f \in Seq(Char) /\ Len(m.source) \in Nat /\ Len(m.data) \in Nat
         /\ Len(f) = 5 + Len(m.source) + Len(m.data)
         /\ f[1] = "t" /\ f[2] = Colon /\ f[3] = "n" /\ f[4] = Colon
         /\ \A i \in 1 .. Len(m.source) : f[4 + i] = m.source[i]
         /\ f[5 + Len(m.source)] = Colon
         /\ \A i \in 1 .. Len(m.data) : f[5 + Len(m.source) + i] = m.data[i]
<1>1. PICK a \in Seq(Char), b \in Seq(Char) : a = m.source /\ b = m.data
  BY TextsTyped DEF Message
<1>2. PICK k \in Nat, l \in Nat : k = Len(a) /\ l = Len(b)
  OBVIOUS
<1>3. PICK head : head = <<"t", Colon, "n", Colon>>
  OBVIOUS
<1>4. /\ head \in Seq(Char) /\ Len(head) = 4
      /\ head[1] = "t" /\ head[2] = Colon /\ head[3] = "n" /\ head[4] = Colon
  BY <1>3 DEF Char, Colon
<1>5. PICK c : c = <<Colon>>
  OBVIOUS
<1>6. c \in Seq(Char) /\ Len(c) = 1 /\ c[1] = Colon
  BY <1>5 DEF Char, Colon
<1>7. f = head \o a \o c \o b
  BY <1>1, <1>3, <1>5 DEF formatMessage
<1>8. PICK ha, hac : ha = head \o a /\ hac = ha \o c
  OBVIOUS
<1>9. IsJoin(ha, head, a, 4, k)
  BY <1>2, <1>4, <1>8, Joined
<1>10. IsJoin(hac, ha, c, 4 + k, 1)
  <2>1. ha \in Seq(Char) /\ Len(ha) = 4 + k
    BY <1>9 DEF IsJoin
  <2> QED BY <1>6, <1>8, <2>1, Joined
<1>11. Len(hac) = 5 + k /\ hac \in Seq(Char) /\ f = hac \o b
  BY <1>7, <1>8, <1>10 DEF IsJoin
<1>12. IsJoin(f, hac, b, 5 + k, l)
  BY <1>2, <1>11, Joined
<1>13. \A i \in 1 .. 4 + k : f[i] = ha[i]
  BY <1>10, <1>12 DEF IsJoin
<1>14. f[1] = "t" /\ f[2] = Colon /\ f[3] = "n" /\ f[4] = Colon
  BY <1>4, <1>9, <1>13 DEF IsJoin
<1>15. \A i \in 1 .. k : f[4 + i] = a[i]
  BY <1>9, <1>13 DEF IsJoin
<1>16. f[5 + k] = Colon
  BY <1>6, <1>10, <1>12 DEF IsJoin
<1> QED BY <1>1, <1>2, <1>12, <1>14, <1>15, <1>16 DEF IsJoin

Pointers == [in : Place, at : Nat \ {0}] \cup {Null}

\* strtok() has been called.
Called == strtokNext \in [in : Place, at : Nat \ {0}]

TextInv ==
  /\ parsing \subseteq Thread
  /\ memory \in [Place -> Seq(Char)]
  /\ cuts \in [Thread -> {0, 1, 2}] /\ \A t \in parsing : cuts[t] = 0
  /\ myString \in [Thread -> Seq(Pointers)]
  /\ \A t \in Thread \ parsing : myString[t] = <<>>
  /\ Called \/ \A t \in Thread : myString[t] = <<>> /\ cuts[t] # 1

\* Every thread has its own buffer and its own data.
LEMMA PlacesDiffer ==
  /\ \A t \in Thread : Buff(t) \in Place /\ Data(t) \in Place
  /\ \A t, u : (Buff(t) = Buff(u) => t = u) /\ Buff(t) # Data(u)
BY DEF Buff, Data, Place

\* A call of strtok() in some place.
LEMMA CallIsTyped ==
  ASSUME TextInv, NEW t \in Thread, NEW s \in Place, NEW p \in Nat \ {0}, NEW delims,
         CallStrtok(t, Pointer(s, p), delims), NEW call, call = Strtok(memory[s], p, delims)
  PROVE  /\ memory' = [memory EXCEPT ![s] = call.text] /\ memory' \in [Place -> Seq(Char)]
         /\ strtokNext' = Pointer(s, call.at) /\ Called'
         /\ parsing' = parsing /\ sent' = sent /\ mixed' = mixed \cup (parsing \ {t})
         /\ call.token \in Nat /\ call.at \in Nat \ {0} /\ call.text \in Seq(Char)
<1>1. Pointer(s, p).in = s /\ Pointer(s, p).at = p
  BY DEF Pointer
<1>2. /\ memory' = [memory EXCEPT ![s] = call.text] /\ strtokNext' = Pointer(s, call.at)
      /\ mixed' = mixed \cup (parsing \ {t}) /\ UNCHANGED <<parsing, sent>>
  BY <1>1 DEF CallStrtok
<1>3. memory[s] \in Seq(Char)
  BY DEF TextInv
<1>4. call.text \in Seq(Char) /\ call.token \in Nat /\ call.at \in Nat \ {0}
  BY <1>3, StrtokCuts
<1>5. Called'
  BY <1>2, <1>4 DEF Called, Pointer
<1>6. memory' \in [Place -> Seq(Char)]
  BY <1>2, <1>4 DEF TextInv
<1> QED BY <1>2, <1>4, <1>5, <1>6

\* What a call that begins in s has found.
Found(s, call) == IF call.token = NoToken THEN Null ELSE Pointer(s, call.token)

\* A call of formatString() (message.h:433-436).
LEMMA FieldIsTyped ==
  ASSUME TextInv, NEW t \in parsing, NEW s \in Place, NEW p \in Nat \ {0}, NEW delims,
         TakeField(t, Pointer(s, p), delims), NEW call, call = Strtok(memory[s], p, delims)
  PROVE  /\ TextInv' /\ Called'
         /\ parsing' = parsing /\ sent' = sent /\ mixed' = mixed \cup (parsing \ {t})
         /\ memory' = [memory EXCEPT ![s] = call.text]
         /\ strtokNext'.in = s /\ strtokNext'.at = call.at
         /\ \A u \in Thread : u # t => myString'[u] = myString[u]
         /\ Found(s, call) \in Pointers /\ myString'[t] = Append(myString[t], Found(s, call))
         /\ Len(myString'[t]) = Len(myString[t]) + 1
<1>1. Pointer(s, p).in = s /\ Pointer(s, p).at = p
  BY DEF Pointer
<1>2. /\ CallStrtok(t, Pointer(s, p), delims) /\ cuts' = cuts
      /\ myString' = [myString EXCEPT ![t] = Append(@, Found(s, call))]
  BY <1>1 DEF TakeField, Found
<1>5. t \in Thread /\ myString[t] \in Seq(Pointers)
  BY DEF TextInv
<1>3. /\ memory' = [memory EXCEPT ![s] = call.text] /\ memory' \in [Place -> Seq(Char)]
      /\ strtokNext' = Pointer(s, call.at) /\ Called'
      /\ parsing' = parsing /\ sent' = sent /\ mixed' = mixed \cup (parsing \ {t})
      /\ call.token \in Nat
  BY <1>2, <1>5, CallIsTyped
<1>4. Found(s, call) \in Pointers
  BY <1>3 DEF Found, Pointers, Pointer, NoToken
<1>6. /\ \A u \in Thread : u # t => myString'[u] = myString[u]
      /\ myString'[t] = Append(myString[t], Found(s, call))
      /\ myString' \in [Thread -> Seq(Pointers)] /\ Len(myString'[t]) = Len(myString[t]) + 1
  BY <1>2, <1>4, <1>5 DEF TextInv
<1>7. strtokNext'.in = s /\ strtokNext'.at = call.at
  BY <1>3 DEF Pointer
<1>8. TextInv'
  BY <1>2, <1>3, <1>5, <1>6 DEF TextInv
<1> QED BY <1>3, <1>4, <1>6, <1>7, <1>8

\* The calls after the first go on where any thread's last one has ended.
LEMMA FieldGoesOn ==
  ASSUME TextInv, NEW t \in Thread, NextField(t) \/ LastField(t)
  PROVE  /\ t \in parsing /\ Called /\ strtokNext = Pointer(strtokNext.in, strtokNext.at)
         /\ Len(myString[t]) \in {1, 2, 3}
         /\ \E delims \in Delimiters : TakeField(t, strtokNext, delims)
<1>1. t \in parsing /\ Len(myString[t]) \in {1, 2, 3}
      /\ \E delims \in Delimiters : TakeField(t, strtokNext, delims)
  BY DEF NextField, LastField, At, Delimiters
<1>2. myString[t] # <<>>
  BY <1>1
<1>3. Called
  BY <1>1, <1>2 DEF TextInv
<1> QED BY <1>1, <1>3 DEF Called, Pointer

\* The calls for a MESSAGE: the first begins in the thread's own data, the second
\* where any thread's last call has ended (server.c:332-334).
LEMMA DataIsCut ==
  ASSUME TextInv, NEW t \in Thread, TargetSession(t) \/ TextOf(t)
  PROVE  /\ TextInv' /\ Called' /\ myString' = myString
         /\ t \notin parsing
         /\ \E s \in Place, p \in Nat \ {0} :
              /\ \/ s = Data(t)
                 \/ Called /\ strtokNext.in = s /\ strtokNext.at = p
              /\ CallStrtok(t, Pointer(s, p), {Comma})
<1>0. t \notin parsing
  BY DEF TargetSession, TextOf, TextInv
<1>1. /\ \/ CallStrtok(t, Pointer(Data(t), 1), {Comma})
         \/ cuts[t] = 1 /\ CallStrtok(t, strtokNext, {Comma})
      /\ myString' = myString /\ \E n \in {0, 1} : cuts' = [cuts EXCEPT ![t] = n]
  BY DEF TargetSession, TextOf
<1>2. \E s \in Place, p \in Nat \ {0} :
        /\ \/ s = Data(t)
           \/ Called /\ strtokNext.in = s /\ strtokNext.at = p
        /\ CallStrtok(t, Pointer(s, p), {Comma})
  <2>1. CASE CallStrtok(t, Pointer(Data(t), 1), {Comma})
    BY <2>1, PlacesDiffer
  <2>2. CASE cuts[t] = 1 /\ CallStrtok(t, strtokNext, {Comma})
    <3>1. Called
      BY <2>2 DEF TextInv
    <3>2. PICK s \in Place, p \in Nat \ {0} : strtokNext.in = s /\ strtokNext.at = p
      BY <3>1 DEF Called
    <3>3. strtokNext = Pointer(s, p)
      BY <3>1, <3>2 DEF Called, Pointer
    <3> QED BY <2>2, <3>1, <3>2, <3>3
  <2> QED BY <1>1, <2>1, <2>2
<1>3. PICK s \in Place, p \in Nat \ {0} : CallStrtok(t, Pointer(s, p), {Comma})
  BY <1>2
<1>4. Called' /\ parsing' = parsing /\ memory' \in [Place -> Seq(Char)]
  BY <1>3, CallIsTyped
<1>5. TextInv'
  BY <1>0, <1>1, <1>4 DEF TextInv
<1> QED BY <1>0, <1>1, <1>2, <1>4, <1>5

\* What a pointer leads to is a text.
LEMMA FieldsAreTexts ==
  ASSUME TextInv, NEW p \in Pointers
  PROVE  Field(p) \in Seq(Char)
<1>1. CASE p = Null
  BY <1>1 DEF Field, Unset, Char
<1>2. CASE p # Null
  <2>1. PICK text \in Seq(Char), at \in Nat \ {0} : text = memory[p.in] /\ at = p.at
    BY <1>2 DEF Pointers, TextInv
  <2>2. PICK f : f = NulFrom(text, at)
    OBVIOUS
  <2>3. f \in Nat /\ f <= Len(text) + 1
    BY <2>2, FindsNul
  <2>4. \A i \in at .. f - 1 : text[i] \in Char
    BY <2>3
  <2>5. SubSeq(text, at, f - 1) \in Seq(Char)
    BY <2>3, <2>4, PartOfText
  <2>6. Field(p) = SubSeq(text, at, f - 1)
    BY <1>2, <2>1, <2>2 DEF Field, CString, NulFrom
  <2> QED BY <2>5, <2>6
<1> QED BY <1>1, <1>2

\* A step that calls strtok() nowhere.
LEMMA OthersAreTyped ==
  ASSUME TextInv, NEW t \in Thread, (\E m \in Message : Receive(t, m)) \/ Return(t)
  PROVE  TextInv'
<1>1. CASE \E m \in Message : Receive(t, m)
  <2>1. PICK m \in Message : Receive(t, m)
    BY <1>1
  <2>2. formatMessage(m) \in Seq(Char)
    BY MessagesAreTexts
  <2> QED BY <2>1, <2>2 DEF Receive, TextInv, Called
<1>2. CASE Return(t)
  <2>1. myString' = [myString EXCEPT ![t] = <<>>] /\ <<>> \in Seq(Pointers)
    BY <1>2 DEF Return
  <2>2. myString' \in [Thread -> Seq(Pointers)] /\ \A u \in Thread : myString[u] = <<>> => myString'[u] = <<>>
    BY <2>1 DEF TextInv
  <2>3. Parsed(t).data \in Seq(Char)
    <3>1. myString[t][3] \in Pointers /\ myString[t][4] \in Pointers
      <4>1. PICK four \in Seq(Pointers) : four = myString[t] /\ Len(four) = 4
        BY <1>2 DEF Return, At, TextInv
      <4> QED BY <4>1
    <3> QED BY <3>1, FieldsAreTexts DEF Parsed
  <2>4. /\ memory' \in [Place -> Seq(Char)] /\ cuts' \in [Thread -> {0, 1, 2}]
        /\ \A u \in parsing \ {t} : cuts'[u] = cuts[u]
    BY <1>2, <2>3 DEF Return, TextInv
  <2>5. \A u \in Thread : cuts'[u] = 1 => cuts[u] = 1
    BY <1>2 DEF Return, TextInv
  <2>6. strtokNext' = strtokNext /\ parsing' = parsing \ {t}
    BY <1>2 DEF Return
  <2>7. \A u \in Thread \ parsing' : myString'[u] = <<>>
    BY <2>1, <2>2, <2>6 DEF TextInv
  <2> QED BY <2>2, <2>4, <2>5, <2>6, <2>7 DEF TextInv, Called
<1> QED BY <1>1, <1>2

-----------------------------------------------------------------------------
(* What other threads may cut *)

\* The fields "type" and "size" of a text that has not been looked at.
Untouched(text) ==
  Len(text) >= 5 /\ text[1] = "t" /\ text[2] = Colon /\ text[3] = "n" /\ text[4] = Colon

\* A parse that has just begun finds both; strtok() goes on behind them, or at the
\* second right after the first call.
CutInv ==
  \A t \in Thread :
    /\ t \in parsing /\ myString[t] = <<>> => Untouched(memory[Buff(t)])
    /\ Called /\ strtokNext.in = Buff(t) =>
         /\ Len(memory[Buff(t)]) >= 5
         /\ \/ strtokNext.at >= 5
            \/ /\ strtokNext.at = 3 /\ Len(myString[t]) = 1
               /\ memory[Buff(t)][3] = "n" /\ memory[Buff(t)][4] = Colon

\* Wherever a call begins it cuts behind the second field's beginning.
IsBehind(at, text) == at >= 5 \/ (at = 3 /\ text[3] = "n" /\ text[4] = Colon)

LEMMA CutsBehind ==
  ASSUME NEW text \in Seq(Char), Len(text) >= 5, NEW at \in Nat \ {0},
         NEW delims \in Delimiters, NEW call, call = Strtok(text, at, delims),
         IsBehind(at, text)
  PROVE  /\ Len(call.text) = Len(text) /\ call.at \in Nat /\ call.at >= 5
         /\ at >= 5 => \A i \in 1 .. 4 : call.text[i] = text[i]
<1>1. PICK len \in Nat : len = Len(text)
  OBVIOUS
<1>0. /\ call.text \in Seq(Char) /\ Len(call.text) = Len(text) /\ call.at \in Nat
      /\ call.at >= at \/ call.at = Len(text) + 1
      /\ \/ call.text = text
         \/ \E stop \in at .. Len(text) : call.text = CutAt(text, stop)
  BY StrtokCuts
<1>2. CASE at >= 5
  <2>1. ASSUME NEW i \in 1 .. 4 PROVE call.text[i] = text[i]
    <3>1. ASSUME NEW stop \in at .. Len(text), call.text = CutAt(text, stop)
          PROVE  call.text[i] = text[i]
      <4>1. stop \in 1 .. Len(text) /\ i \in 1 .. Len(text) /\ i # stop
        BY <1>1, <1>2
      <4>2. CutAt(text, stop)[i] = text[i]
        BY <4>1, CutText
      <4> QED BY <3>1, <4>2, Zenon
    <3> QED BY <1>0, <3>1
  <2>2. call.at >= 5
    BY <1>1, <1>2, <1>0
  <2> QED BY <1>0, <2>1, <2>2
<1>3. CASE at = 3 /\ text[3] = "n" /\ text[4] = Colon
  <2>1. "n" # Colon /\ "n" # Nul /\ Colon # Nul /\ "n" # Comma /\ Colon # Comma
    BY DEF Colon, Comma, Nul
  <2>2. 3 \in 1 .. Len(text) /\ 4 \in 1 .. Len(text)
    BY <1>1
  <2>3. CASE delims = {Colon}
    <3>1. 4 \in 3 + 1 .. Len(text) + 1 /\ ~Ends(text, 4)
      BY <1>1, <1>3, <2>1 DEF Ends
    <3>2. \A i \in 3 .. 4 - 1 : text[i] \notin delims \cup {Nul}
      BY <1>3, <2>1, <2>3
    <3>3. IsToken(text, at, 4, delims)
      BY <1>3, <2>2, <2>3, <3>1, <3>2 DEF IsToken
    <3>4. call.text = CutAt(text, 4) /\ call.at = 4 + 1
      BY <3>1, <3>3, StrtokTakes
    <3> QED BY <1>3, <2>2, <3>4, CutText
  <2>4. CASE delims = {} \/ delims = {Comma}
    <3>2. PICK start : start = TokenFrom(text, at, delims)
      OBVIOUS
    <3>3. start = 3
      <4>1. /\ start \in Nat /\ start <= len + 1
            /\ start <= len => at <= start /\ text[start] \notin delims
            /\ \A i \in at .. len : i < start => text[i] \in delims
        BY <1>1, <3>2, FindsToken
      <4>2. text[3] \notin delims
        BY <1>3, <2>1, <2>4
      <4>3. at = 3 /\ start <= len
        BY <1>1, <1>3, <4>1, <4>2
      <4> QED BY <1>1, <4>1, <4>2, <4>3
    <3>4. PICK stop : stop = EndFrom(text, start, delims)
      OBVIOUS
    <3>5. stop \in Nat /\ stop >= 5 /\ ~Ends(text, start)
      <4>1. /\ stop \in Nat /\ stop <= len + 1
            /\ stop <= len => 3 <= stop /\ text[stop] \in delims \cup {Nul}
        BY <1>1, <3>3, <3>4, FindsEnd
      <4>2. stop # 3 /\ stop # 4
        BY <1>1, <1>3, <2>1, <2>4, <4>1
      <4>3. ~Ends(text, start)
        BY <1>1, <1>3, <2>1, <3>3 DEF Ends
      <4> QED BY <1>1, <4>1, <4>2, <4>3
    <3>6. call.at = stop \/ call.at = stop + 1
      <4>1. /\ ~Ends(text, start) /\ Ends(text, stop) => call.at = stop
            /\ ~Ends(text, start) /\ ~Ends(text, stop) => call.at = stop + 1
        BY <3>2, <3>4, StrtokOutcomes
      <4> QED BY <3>5, <4>1
    <3> QED BY <1>0, <1>3, <3>5, <3>6
  <2> QED BY <1>3, <2>3, <2>4 DEF Delimiters
<1> QED BY <1>2, <1>3 DEF IsBehind

\* The first call takes the type off.
LEMMA FirstCallCuts ==
  ASSUME NEW text \in Seq(Char), Untouched(text), NEW call, call = Strtok(text, 1, {Colon})
  PROVE  call.token = 1 /\ call.text = CutAt(text, 2) /\ call.at = 3
<1>1. "t" # Colon /\ "t" # Nul /\ Colon # Nul
  BY DEF Colon, Nul
<1>2. PICK len \in Nat : len = Len(text)
  OBVIOUS
<1>3. 1 \in 1 .. Len(text) /\ 2 \in 1 + 1 .. Len(text) + 1 /\ ~Ends(text, 2)
  BY <1>1, <1>2 DEF Untouched, Ends
<1>4. \A i \in 1 .. 2 - 1 : text[i] \notin {Colon} \cup {Nul}
  BY <1>1 DEF Untouched
<1>5. IsToken(text, 1, 2, {Colon})
  BY <1>3, <1>4 DEF IsToken, Untouched
<1>6. call.token = 1 /\ call.text = CutAt(text, 2) /\ call.at = 2 + 1
  BY <1>3, <1>5, StrtokTakes
<1> QED BY <1>6

\* A text that is received is whole, and strtok() goes on where it has been already
\* (message.h:409-418).
LEMMA OthersKeepCuts ==
  ASSUME TextInv, CutInv, NEW t \in Thread, (\E m \in Message : Receive(t, m)) \/ Return(t)
  PROVE  CutInv'
<1>1. CASE \E m \in Message : Receive(t, m)
  <2>1. PICK m \in Message : Receive(t, m)
    BY <1>1
  <2>2. /\ t \notin parsing /\ parsing' = parsing \cup {t}
        /\ memory' = [memory EXCEPT ![Buff(t)] = formatMessage(m)]
        /\ myString' = myString /\ strtokNext' = strtokNext /\ Called' = Called
    BY <2>1 DEF Receive, Called
  <2>3. PICK f : f = formatMessage(m)
    OBVIOUS
  <2>4. Untouched(f)
    <3>1. PICK k, l : k = Len(m.source) /\ l = Len(m.data)
      OBVIOUS
    <3>2. /\ k \in Nat /\ l \in Nat /\ Len(f) = 5 + k + l
          /\ f[1] = "t" /\ f[2] = Colon /\ f[3] = "n" /\ f[4] = Colon
      BY <2>3, <3>1, MessagesAreTexts
    <3> QED BY <3>2 DEF Untouched
  <2>5. memory'[Buff(t)] = f /\ \A u \in Thread : u # t => memory'[Buff(u)] = memory[Buff(u)]
    BY <2>2, <2>3, PlacesDiffer DEF TextInv
  <2>6. myString[t] = <<>> /\ Len(myString[t]) # 1
    <3>1. myString[t] = <<>>
      BY <2>2 DEF TextInv
    <3>2. Len(<<>>) # 1
      OBVIOUS
    <3> QED BY <3>1, <3>2, Zenon
  <2>7. ASSUME NEW u \in Thread, u # t
        PROVE  /\ u \in parsing' /\ myString'[u] = <<>> => Untouched(memory'[Buff(u)])
               /\ Called' /\ strtokNext'.in = Buff(u) =>
                    /\ Len(memory'[Buff(u)]) >= 5
                    /\ \/ strtokNext'.at >= 5
                       \/ /\ strtokNext'.at = 3 /\ Len(myString'[u]) = 1
                          /\ memory'[Buff(u)][3] = "n" /\ memory'[Buff(u)][4] = Colon
    BY <2>2, <2>5, <2>7 DEF CutInv
  <2>8. /\ Untouched(memory'[Buff(t)]) /\ Len(memory'[Buff(t)]) >= 5
        /\ Called' /\ strtokNext'.in = Buff(t) => strtokNext'.at >= 5
    BY <2>2, <2>4, <2>5, <2>6 DEF CutInv, Untouched
  <2> QED BY <2>7, <2>8 DEF CutInv
<1>2. CASE Return(t)
  <2>1. /\ parsing' = parsing \ {t} /\ strtokNext' = strtokNext /\ Called' = Called
        /\ myString' = [myString EXCEPT ![t] = <<>>] /\ Len(myString[t]) # 1
    BY <1>2 DEF Return, At, Called
  <2>3. \A u \in Thread : memory'[Buff(u)] = memory[Buff(u)]
    BY <1>2, PlacesDiffer DEF Return, TextInv
  <2>2. \A u \in Thread : u # t => myString'[u] = myString[u]
    BY <2>1 DEF TextInv
  <2> QED BY <2>1, <2>2, <2>3 DEF CutInv
<1> QED BY <1>1, <1>2

\* The first call of a parse cuts behind the type, in the thread's own buffer
\* (message.h:433).
LEMMA FirstKeepsCuts ==
  ASSUME TextInv, CutInv, NEW t \in Thread, FirstField(t)
  PROVE  TextInv' /\ CutInv'
<1>1. t \in parsing /\ TakeField(t, Pointer(Buff(t), 1), {Colon}) /\ Len(myString[t]) = 0
  BY DEF FirstField, At
<1>2. myString[t] = <<>>
  BY <1>1 DEF TextInv
<1>3. PICK s \in Place : s = Buff(t)
  BY PlacesDiffer
<1>4. PICK call : call = Strtok(memory[s], 1, {Colon})
  OBVIOUS
<1>5. /\ TextInv' /\ parsing' = parsing /\ memory' = [memory EXCEPT ![s] = call.text]
      /\ strtokNext'.in = s /\ strtokNext'.at = call.at
      /\ \A u \in Thread : u # t => myString'[u] = myString[u]
      /\ Len(myString'[t]) = 1
  <2>1. PICK p \in Nat \ {0}, delims \in Delimiters : p = 1 /\ delims = {Colon}
    BY DEF Delimiters
  <2>2. TakeField(t, Pointer(s, p), delims) /\ call = Strtok(memory[s], p, delims)
    BY <1>1, <1>3, <1>4, <2>1
  <2>3. /\ TextInv' /\ parsing' = parsing /\ memory' = [memory EXCEPT ![s] = call.text]
        /\ strtokNext'.in = s /\ strtokNext'.at = call.at
        /\ \A u \in Thread : u # t => myString'[u] = myString[u]
        /\ Len(myString'[t]) = Len(myString[t]) + 1
    <3>1. t \in parsing
      BY <1>1
    <3> QED BY <2>2, <3>1, FieldIsTyped
  <2> QED BY <1>1, <2>3
<1>6. memory[s] \in Seq(Char) /\ Untouched(memory[s])
  BY <1>1, <1>2, <1>3 DEF TextInv, CutInv
<1>7. call.text = CutAt(memory[s], 2) /\ call.at = 3
  BY <1>4, <1>6, FirstCallCuts
<1>8. Len(call.text) >= 5 /\ call.text[3] = "n" /\ call.text[4] = Colon
  <2>1. PICK len \in Nat : len = Len(memory[s]) /\ len >= 5
    BY <1>6 DEF Untouched
  <2>2. 2 \in 1 .. len /\ 3 \in 1 .. len /\ 4 \in 1 .. len
    BY <2>1
  <2>3. /\ Len(CutAt(memory[s], 2)) = len
        /\ \A i \in 1 .. len : CutAt(memory[s], 2)[i] = IF i = 2 THEN Nul ELSE memory[s][i]
    BY <1>6, <2>1, <2>2, CutText
  <2> QED BY <1>6, <1>7, <2>1, <2>2, <2>3 DEF Untouched
<1>9. /\ memory'[Buff(t)] = call.text
      /\ \A u \in Thread : u # t => memory'[Buff(u)] = memory[Buff(u)] /\ s # Buff(u)
  BY <1>3, <1>5, PlacesDiffer DEF TextInv
<1>10. myString'[t] # <<>>
  BY <1>5
<1>11. ASSUME NEW u \in Thread, u # t, u \in parsing', myString'[u] = <<>>
       PROVE  Untouched(memory'[Buff(u)])
  BY <1>5, <1>9, <1>11 DEF CutInv
<1>12. CutInv'
  BY <1>3, <1>5, <1>7, <1>8, <1>9, <1>10, <1>11 DEF CutInv
<1> QED BY <1>5, <1>12

\* A call that begins where strtok() has been left, or in some thread's data.
LEMMA CutsStayBehind ==
  ASSUME TextInv, CutInv, NEW t \in Thread, NEW s \in Place, NEW p \in Nat \ {0},
         NEW delims \in Delimiters, NEW call, call = Strtok(memory[s], p, delims),
         (Called /\ strtokNext.in = s /\ strtokNext.at = p) \/ s = Data(t),
         memory' = [memory EXCEPT ![s] = call.text], parsing' = parsing,
         strtokNext'.in = s, strtokNext'.at = call.at,
         \A u \in Thread : myString'[u] = myString[u] \/ myString'[u] # <<>>
  PROVE  CutInv'
<1>1. CASE \A u \in Thread : s # Buff(u)
  <2>1. \A u \in Thread : memory'[Buff(u)] = memory[Buff(u)]
    BY <1>1, PlacesDiffer DEF TextInv
  <2> QED BY <1>1, <2>1 DEF CutInv
<1>2. CASE \E u \in Thread : s = Buff(u)
  <2>1. PICK v \in Thread : s = Buff(v)
    BY <1>2
  <2>2. Called /\ strtokNext.in = s /\ strtokNext.at = p
    BY <2>1, PlacesDiffer
  <2>3. PICK text \in Seq(Char) : text = memory[s]
    BY DEF TextInv
  <2>4. /\ Len(text) >= 5 /\ IsBehind(p, text)
        /\ p >= 5 \/ (p = 3 /\ Len(myString[v]) = 1)
    BY <2>1, <2>2, <2>3 DEF CutInv, IsBehind
  <2>5. /\ Len(call.text) = Len(text) /\ call.at >= 5
        /\ p >= 5 => \A i \in 1 .. 4 : call.text[i] = text[i]
    BY <2>3, <2>4, CutsBehind
  <2>6. memory'[s] = call.text /\ \A u \in Thread : u # v => memory'[Buff(u)] = memory[Buff(u)] /\ s # Buff(u)
    BY <2>1, PlacesDiffer DEF TextInv
  <2>7. ASSUME NEW u \in Thread, u \in parsing', myString'[u] = <<>>
        PROVE  Untouched(memory'[Buff(u)])
    <3>1. myString[u] = <<>> /\ Untouched(memory[Buff(u)])
      BY <2>7 DEF CutInv
    <3>2. CASE u = v
      <4>1. Len(<<>>) # 1
        OBVIOUS
      <4>2. Len(myString[v]) # 1
        BY <3>1, <3>2, <4>1, Zenon
      <4>3. p >= 5
        BY <2>4, <4>2
      <4> QED BY <2>1, <2>3, <2>5, <2>6, <3>1, <3>2, <4>3 DEF Untouched
    <3> QED BY <2>6, <3>1, <3>2
  <2>8. Len(memory'[s]) >= 5 /\ strtokNext'.at >= 5
    BY <2>3, <2>4, <2>5, <2>6
  <2> QED BY <2>1, <2>6, <2>7, <2>8 DEF CutInv
<1> QED BY <1>1, <1>2

\* Every other call of a parse, in whoever's text strtok() is by then
\* (message.h:434-436).
LEMMA LaterKeepsCuts ==
  ASSUME TextInv, CutInv, NEW t \in Thread, NextField(t) \/ LastField(t)
  PROVE  TextInv' /\ CutInv'
<1>1. t \in parsing /\ Called /\ strtokNext = Pointer(strtokNext.in, strtokNext.at)
  BY FieldGoesOn
<1>2. PICK s \in Place, p \in Nat \ {0} : strtokNext.in = s /\ strtokNext.at = p
  BY <1>1 DEF Called
<1>3. PICK delims \in Delimiters : TakeField(t, Pointer(s, p), delims)
  BY <1>1, <1>2, FieldGoesOn
<1>4. PICK call : call = Strtok(memory[s], p, delims)
  OBVIOUS
<1>5. /\ TextInv' /\ parsing' = parsing /\ memory' = [memory EXCEPT ![s] = call.text]
      /\ strtokNext'.in = s /\ strtokNext'.at = call.at
      /\ \A u \in Thread : u # t => myString'[u] = myString[u]
      /\ Len(myString'[t]) = Len(myString[t]) + 1
  BY <1>1, <1>3, <1>4, FieldIsTyped
<1>6. myString'[t] # <<>>
  <2>1. Len(myString[t]) \in Nat
    BY <1>1 DEF TextInv
  <2>2. Len(myString'[t]) # 0 /\ Len(<<>>) = 0
    BY <1>5, <2>1
  <2> QED BY <2>2, Zenon
<1>7. CutInv'
  BY <1>1, <1>2, <1>4, <1>5, <1>6, CutsStayBehind
<1> QED BY <1>5, <1>7

\* The calls for a MESSAGE (server.c:332-334).
LEMMA DataKeepsCuts ==
  ASSUME TextInv, CutInv, NEW t \in Thread, TargetSession(t) \/ TextOf(t)
  PROVE  TextInv' /\ CutInv'
<1>1. TextInv' /\ myString' = myString
  BY DataIsCut
<1>2. PICK s \in Place, p \in Nat \ {0} :
        /\ \/ s = Data(t)
           \/ Called /\ strtokNext.in = s /\ strtokNext.at = p
        /\ CallStrtok(t, Pointer(s, p), {Comma})
  BY DataIsCut
<1>3. PICK delims \in Delimiters : delims = {Comma}
  BY DEF Delimiters
<1>4. PICK call : call = Strtok(memory[s], p, delims)
  OBVIOUS
<1>5. /\ memory' = [memory EXCEPT ![s] = call.text] /\ parsing' = parsing
      /\ strtokNext' = Pointer(s, call.at)
  BY <1>2, <1>3, <1>4, CallIsTyped
<1>6. CutInv'
  BY <1>1, <1>2, <1>4, <1>5, CutsStayBehind DEF Pointer
<1> QED BY <1>1, <1>6

\* However the threads of a process cut each other's texts, none of them cuts the
\* beginning of a text that has just been received (message.h:409-436).
THEOREM BeginningsAreKept == Spec => [](TextInv /\ CutInv)
<1>1. Init => TextInv /\ CutInv
  <2> SUFFICES ASSUME Init PROVE TextInv /\ CutInv
    OBVIOUS
  <2>1. memory \in [Place -> Seq(Char)] /\ cuts \in [Thread -> {0, 1, 2}] /\ myString \in [Thread -> Seq(Pointers)]
    <3>1. <<>> \in Seq(Char) /\ <<>> \in Seq(Pointers)
      OBVIOUS
    <3> QED BY <3>1 DEF Init
  <2>2. ~Called
    BY DEF Init, Called, Null, Pointer, NoToken
  <2>3. parsing = {} /\ \A t \in Thread : myString[t] = <<>> /\ cuts[t] # 1
    BY DEF Init
  <2> QED BY <2>1, <2>2, <2>3 DEF TextInv, CutInv
<1>2. TextInv /\ CutInv /\ [Next]_vars => (TextInv /\ CutInv)'
  <2> SUFFICES ASSUME TextInv, CutInv, [Next]_vars PROVE TextInv' /\ CutInv'
    OBVIOUS
  <2>1. CASE UNCHANGED vars
    BY <2>1 DEF vars, TextInv, CutInv, Called
  <2>2. CASE Next
    <3>1. PICK t \in Thread : \/ \E m \in Message : Receive(t, m)
                             \/ FirstField(t) \/ NextField(t) \/ LastField(t) \/ Return(t)
                             \/ TargetSession(t) \/ TextOf(t)
      BY <2>2 DEF Next
    <3> QED BY <3>1, OthersAreTyped, OthersKeepCuts, FirstKeepsCuts, LaterKeepsCuts, DataKeepsCuts
  <2> QED BY <2>1, <2>2
<1> QED BY <1>1, <1>2, PTL DEF Spec

\* formatString() never takes a message for one of three characters, whatever the
\* threads do to each other's texts and however long the message is (message.h:426).
THEOREM NeverNull == Spec => []NeverTakenForNull
<1>1. TextInv /\ CutInv => NeverTakenForNull
  <2> SUFFICES ASSUME TextInv, CutInv, NEW t \in parsing, At(t, 0)
               PROVE  Len(CString(memory[Buff(t)], 1)) # 3
    BY DEF NeverTakenForNull
  <2>1. PICK text \in Seq(Char) : text = memory[Buff(t)]
    BY PlacesDiffer DEF TextInv
  <2>2. Untouched(text)
    BY <2>1 DEF TextInv, CutInv, At
  <2>3. PICK len \in Nat : len = Len(text) /\ len >= 5
    BY <2>2 DEF Untouched
  <2>4. PICK f : f = NulFrom(text, 1)
    OBVIOUS
  <2>5. f \in Nat /\ f <= len + 1 /\ f >= 5
    <3>1. /\ f \in Nat /\ f <= len + 1
          /\ f <= len => 1 <= f /\ text[f] = Nul
      BY <2>3, <2>4, FindsNul
    <3>2. "t" # Nul /\ Colon # Nul /\ "n" # Nul
      BY DEF Nul, Colon
    <3>3. f # 1 /\ f # 2 /\ f # 3 /\ f # 4
      BY <2>2, <2>3, <3>1, <3>2 DEF Untouched
    <3>4. f # 0
      BY <2>3, <3>1
    <3> QED BY <3>1, <3>3, <3>4
  <2>6. CString(text, 1) = SubSeq(text, 1, f - 1)
    BY <2>4 DEF CString, NulFrom
  <2>7. Len(SubSeq(text, 1, f - 1)) = f - 1
    BY <2>3, <2>5
  <2> QED BY <2>1, <2>5, <2>6, <2>7
<1> QED BY <1>1, BeginningsAreKept, PTL

-----------------------------------------------------------------------------
(* What one thread alone makes of a message *)

\* The four calls of a thread that parses alone.
CallNo1(m) == Strtok(formatMessage(m), 1, {Colon})
CallNo2(m) == Strtok(CallNo1(m).text, CallNo1(m).at, {Colon})
CallNo3(m) == Strtok(CallNo2(m).text, CallNo2(m).at, {Colon})
CallNo4(m) == Strtok(CallNo3(m).text, CallNo3(m).at, {})

\* The lengths of a message's texts.
HasLengths(m, k, l) == k = Len(m.source) /\ l = Len(m.data)

\* What is left of a message of k and l characters when type and size are taken off.
IsRest(text, m, k, l) ==
  /\ text \in Seq(Char) /\ Len(text) = 5 + k + l
  /\ \A i \in 1 .. k : text[4 + i] = m.source[i]
  /\ text[5 + k] = Colon
  /\ \A i \in 1 .. l : text[5 + k + i] = m.data[i]

LEMMA TwoFieldsAreTaken ==
  ASSUME NEW m \in Message, NEW k \in Nat, NEW l \in Nat, HasLengths(m, k, l)
  PROVE  IsRest(CallNo2(m).text, m, k, l) /\ CallNo2(m).at = 5
<1>1. PICK f : f = formatMessage(m)
  OBVIOUS
<1>0. f \in Seq(Char) /\ Len(f) = 5 + k + l
  BY <1>1, MessagesAreTexts DEF HasLengths
<1>2. /\ f[1] = "t" /\ f[2] = Colon /\ f[3] = "n" /\ f[4] = Colon
      /\ \A i \in 1 .. k : f[4 + i] = m.source[i]
      /\ f[5 + k] = Colon
      /\ \A i \in 1 .. l : f[5 + k + i] = m.data[i]
  BY <1>1, MessagesAreTexts DEF HasLengths
<1>3. PICK len \in Nat : len = 5 + k + l /\ len >= 5
  OBVIOUS
<1>4. PICK one : one = CallNo1(m)
  OBVIOUS
<1>5. one = Strtok(f, 1, {Colon}) /\ Untouched(f)
  BY <1>0, <1>1, <1>2, <1>3, <1>4 DEF CallNo1, Untouched
<1>6. one.text = CutAt(f, 2) /\ one.at = 3
  BY <1>0, <1>5, FirstCallCuts
<1>7. PICK g : g = CutAt(f, 2)
  OBVIOUS
<1>8. /\ g \in Seq(Char) /\ Len(g) = len
      /\ \A i \in 1 .. len : g[i] = IF i = 2 THEN Nul ELSE f[i]
  <2>1. 2 \in 1 .. Len(f) /\ Len(f) = len
    BY <1>0, <1>3
  <2> QED BY <1>0, <1>7, <2>1, CutText
<1>9. PICK two : two = CallNo2(m)
  OBVIOUS
<1>10. two = Strtok(g, 3, {Colon})
  BY <1>4, <1>6, <1>7, <1>9 DEF CallNo2
<1>11. IsToken(g, 3, 4, {Colon}) /\ ~Ends(g, 4)
  <2>1. "n" # Colon /\ "n" # Nul /\ Colon # Nul
    BY DEF Colon, Nul
  <2>2. 3 \in 1 .. len /\ 4 \in 1 .. len /\ 4 \in 3 + 1 .. len + 1
    BY <1>3
  <2>3. g[3] = "n" /\ g[4] = Colon
    BY <1>2, <1>8, <2>2
  <2>4. \A i \in 3 .. 4 - 1 : g[i] \notin {Colon} \cup {Nul}
    BY <2>1, <2>3
  <2> QED BY <1>8, <2>1, <2>2, <2>3, <2>4 DEF IsToken, Ends
<1>12. two.text = CutAt(g, 4) /\ two.at = 5
  <2>1. PICK p, q : p = 3 /\ q = 4
    OBVIOUS
  <2>2. two.text = CutAt(g, q) /\ two.at = q + 1
    BY <1>8, <1>10, <1>11, <2>1, StrtokTakes
  <2> QED BY <2>1, <2>2
<1>13. PICK h : h = two.text
  OBVIOUS
<1>14. /\ h \in Seq(Char) /\ Len(h) = len
       /\ \A i \in 1 .. len : h[i] = IF i = 4 THEN Nul ELSE g[i]
  <2>1. 4 \in 1 .. Len(g)
    BY <1>3, <1>8
  <2> QED BY <1>8, <1>12, <1>13, <2>1, CutText
<1>15. \A i \in 5 .. len : h[i] = f[i]
  BY <1>8, <1>14
<1>16. \A i \in 1 .. k : h[4 + i] = m.source[i]
  <2> TAKE i \in 1 .. k
  <2>1. 4 + i \in 5 .. len
    BY <1>3
  <2> QED BY <1>2, <1>15, <2>1
<1>17. \A i \in 1 .. l : h[5 + k + i] = m.data[i]
  <2> TAKE i \in 1 .. l
  <2>1. 5 + k + i \in 5 .. len
    BY <1>3
  <2> QED BY <1>2, <1>15, <2>1
<1>18. h[5 + k] = Colon
  <2>1. 5 + k \in 5 .. len
    BY <1>3
  <2> QED BY <1>2, <1>15, <2>1
<1>19. IsRest(h, m, k, l)
  BY <1>3, <1>14, <1>16, <1>17, <1>18 DEF IsRest
<1> QED BY <1>9, <1>12, <1>13, <1>19

\* A text without a stop, and one without a colon either.
IsPlain(word, n) == word \in Seq(Char) /\ Len(word) = n /\ \A i \in 1 .. n : word[i] # Nul
HasNoColon(word, n) == \A i \in 1 .. n : word[i] # Colon

LEMMA TextsArePlain ==
  ASSUME NEW m \in Message, NEW k \in Nat, NEW l \in Nat, HasLengths(m, k, l)
  PROVE  /\ IsPlain(m.source, k) /\ IsPlain(m.data, l)
         /\ ~HasColon(m.source) => HasNoColon(m.source, k)
         /\ ~HasColon(m.data) => HasNoColon(m.data, l)
<1>1. m.source \in Ids \cup Datas /\ m.data \in Ids \cup Datas
  BY DEF Message
<1>2. \A text \in Ids \cup Datas :
        IsPlain(text, Len(text)) /\ (~HasColon(text) => HasNoColon(text, Len(text)))
  <2> SUFFICES ASSUME NEW text \in Ids \cup Datas
               PROVE  /\ IsPlain(text, Len(text))
                      /\ ~HasColon(text) => HasNoColon(text, Len(text))
    OBVIOUS
  <2>1. text \in Seq(Char) /\ \A i \in 1 .. Len(text) : text[i] # Nul
    BY TextsTyped
  <2>2. \A i \in 1 .. Len(text) : text[i] \in ToSet(text)
    BY <2>1 DEF ToSet
  <2> QED BY <2>1, <2>2 DEF IsPlain, HasColon, HasNoColon
<1> QED BY <1>1, <1>2 DEF HasLengths

\* The third call takes the source, and the fourth the data, colons and all, since
\* it looks for none (message.h:434-436).
LEMMA SourceAndDataAreTaken ==
  ASSUME NEW m \in Message, NEW k \in Nat, NEW l \in Nat, HasLengths(m, k, l),
         k > 0, l > 0, ~HasColon(m.source)
  PROVE  LET text == CallNo4(m).text
         IN  /\ CallNo3(m).token = 5 /\ CString(text, 5) = m.source
             /\ CallNo4(m).token = 6 + k /\ CString(text, 6 + k) = m.data
<1>1. PICK g : g = CallNo2(m).text
  OBVIOUS
<1>2. IsRest(g, m, k, l) /\ CallNo2(m).at = 5
  BY <1>1, TwoFieldsAreTaken
<1>3. PICK a, b : a = m.source /\ b = m.data
  OBVIOUS
<1>4. IsPlain(a, k) /\ IsPlain(b, l) /\ HasNoColon(a, k)
  BY <1>3, TextsArePlain
<1>5. PICK len \in Nat : len = 5 + k + l
  OBVIOUS
<1>6. /\ g \in Seq(Char) /\ Len(g) = len /\ g[5 + k] = Colon
      /\ \A i \in 1 .. k : g[4 + i] = a[i]
      /\ \A i \in 1 .. l : g[5 + k + i] = b[i]
  BY <1>2, <1>3, <1>5 DEF IsRest
<1>7. Colon # Nul
  BY DEF Colon, Nul
<1>8. \A i \in 5 .. 4 + k : g[i] # Colon /\ g[i] # Nul
  <2> TAKE i \in 5 .. 4 + k
  <2>1. i - 4 \in 1 .. k /\ 4 + (i - 4) = i
    OBVIOUS
  <2>2. g[i] = a[i - 4]
    BY <1>6, <2>1
  <2> QED BY <1>4, <2>1, <2>2 DEF IsPlain, HasNoColon
<1>9. PICK e \in Nat : e = 5 + k
  OBVIOUS
<1>10. PICK at \in Nat : at = 5
  OBVIOUS
<1>11. IsToken(g, at, e, {Colon}) /\ ~Ends(g, e)
  <2>1. at \in 1 .. len /\ e \in at + 1 .. len + 1 /\ e <= len
    BY <1>5, <1>9, <1>10
  <2>2. g[e] = Colon
    BY <1>6, <1>9
  <2>3. \A i \in at .. e - 1 : g[i] \notin {Colon} \cup {Nul}
    <3> TAKE i \in at .. e - 1
    <3>1. i \in 5 .. 4 + k
      BY <1>9, <1>10
    <3> QED BY <1>8, <3>1
  <2> QED BY <1>6, <1>7, <2>1, <2>2, <2>3 DEF IsToken, Ends
<1>12. PICK three : three = CallNo3(m)
  OBVIOUS
<1>13. three = Strtok(g, at, {Colon})
  BY <1>1, <1>2, <1>10, <1>12 DEF CallNo3
<1>14. three.token = at /\ three.text = CutAt(g, e) /\ three.at = e + 1
  BY <1>6, <1>11, <1>13, StrtokTakes
<1>15. PICK h : h = CutAt(g, e)
  OBVIOUS
<1>16. /\ h \in Seq(Char) /\ Len(h) = len
       /\ \A i \in 1 .. len : h[i] = IF i = e THEN Nul ELSE g[i]
  <2>1. e \in 1 .. Len(g)
    BY <1>5, <1>6, <1>9
  <2> QED BY <1>6, <1>15, <2>1, CutText
<1>17. \A i \in 1 .. k : h[4 + i] = a[i]
  <2> TAKE i \in 1 .. k
  <2>1. 4 + i \in 1 .. len /\ 4 + i # e
    BY <1>5, <1>9
  <2> QED BY <1>6, <1>16, <2>1
<1>18. \A i \in 1 .. l : h[e + i] = b[i]
  <2> TAKE i \in 1 .. l
  <2>1. e + i \in 1 .. len /\ e + i # e
    BY <1>5, <1>9
  <2>2. h[e + i] = g[e + i]
    BY <1>16, <2>1
  <2>3. g[e + i] = b[i]
    BY <1>6, <1>9
  <2> QED BY <2>2, <2>3
<1>19. h[e] = Nul
  <2>1. e \in 1 .. len
    BY <1>5, <1>9
  <2> QED BY <1>16, <2>1
<1>20. PICK from \in Nat, end \in Nat : from = e + 1 /\ end = len + 1
  OBVIOUS
<1>21. IsToken(h, from, end, {}) /\ Ends(h, end)
  <2>1. from \in 1 .. len /\ end \in from + 1 .. len + 1 /\ end > len
    BY <1>5, <1>9, <1>20
  <2>2. \A i \in from .. end - 1 : h[i] \notin {} \cup {Nul}
    <3> TAKE i \in from .. end - 1
    <3>1. i - e \in 1 .. l /\ e + (i - e) = i
      BY <1>5, <1>9, <1>20
    <3>2. h[i] = b[i - e]
      BY <1>18, <3>1
    <3>3. b[i - e] # Nul
      BY <1>4, <3>1 DEF IsPlain
    <3> QED BY <3>2, <3>3
  <2> QED BY <1>16, <2>1, <2>2 DEF IsToken, Ends
<1>22. PICK four : four = CallNo4(m)
  OBVIOUS
<1>23. four = Strtok(h, from, {})
  BY <1>12, <1>14, <1>15, <1>20, <1>22 DEF CallNo4
<1>24. four.token = from /\ four.text = h
  BY <1>16, <1>21, <1>23, StrtokTakes
<1>25. CString(h, at) = a
  <2>1. a \in Seq(Char) /\ Len(a) = k /\ \A i \in 1 .. k : a[i] # Nul
    BY <1>4 DEF IsPlain
  <2>2. \A i \in 1 .. k : h[at - 1 + i] = a[i]
    BY <1>10, <1>17
  <2>3. at + k = e /\ e <= len /\ at \in Nat \ {0}
    BY <1>5, <1>9, <1>10
  <2>4. IsWord(h, at, a)
    BY <1>16, <1>19, <2>1, <2>2, <2>3 DEF IsWord, Ends
  <2>5. h \in Seq(Char)
    BY <1>16
  <2> QED BY <2>4, <2>5, WordIsRead
<1>26. CString(h, from) = b
  <2>1. b \in Seq(Char) /\ Len(b) = l /\ \A i \in 1 .. l : b[i] # Nul
    BY <1>4 DEF IsPlain
  <2>2. \A i \in 1 .. l : h[from - 1 + i] = b[i]
    BY <1>18, <1>20
  <2>3. from + l = len + 1 /\ from \in Nat \ {0} /\ from + l > len
    BY <1>5, <1>9, <1>20
  <2>4. h \in Seq(Char) /\ Len(h) = len
    BY <1>16
  <2>5. Ends(h, from + l) /\ from + l <= Len(h) + 1
    BY <2>3, <2>4 DEF Ends
  <2>6. IsWord(h, from, b)
    BY <2>1, <2>2, <2>3, <2>5 DEF IsWord
  <2> QED BY <2>4, <2>6, WordIsRead
<1>27. from = 6 + k
  BY <1>9, <1>20
<1> QED BY <1>3, <1>10, <1>12, <1>14, <1>22, <1>24, <1>25, <1>26, <1>27

\* Without a source its colon is skipped: the third call takes the data, and the
\* fourth finds nothing (message.h:435-452).
LEMMA DataAloneIsTaken ==
  ASSUME NEW m \in Message, NEW k \in Nat, NEW l \in Nat, HasLengths(m, k, l),
         k = 0, l > 0, ~HasColon(m.data)
  PROVE  /\ CallNo3(m).token = 6 /\ CString(CallNo4(m).text, 6) = m.data
         /\ CallNo4(m).token = NoToken
<1>1. PICK g : g = CallNo2(m).text
  OBVIOUS
<1>2. IsRest(g, m, k, l) /\ CallNo2(m).at = 5
  BY <1>1, TwoFieldsAreTaken
<1>3. PICK b : b = m.data
  OBVIOUS
<1>4. IsPlain(b, l) /\ HasNoColon(b, l)
  BY <1>3, TextsArePlain
<1>5. PICK len \in Nat : len = 5 + l
  OBVIOUS
<1>6. /\ g \in Seq(Char) /\ Len(g) = len /\ g[5] = Colon
      /\ \A i \in 1 .. l : g[5 + i] = b[i]
  BY <1>2, <1>3, <1>5 DEF IsRest
<1>7. \A i \in 6 .. len : g[i] # Colon /\ g[i] # Nul
  <2> TAKE i \in 6 .. len
  <2>1. i - 5 \in 1 .. l /\ 5 + (i - 5) = i
    BY <1>5
  <2>2. g[i] = b[i - 5]
    BY <1>6, <2>1
  <2> QED BY <1>4, <2>1, <2>2 DEF IsPlain, HasNoColon
<1>8. PICK at \in Nat : at = 5
  OBVIOUS
<1>9. PICK three : three = CallNo3(m)
  OBVIOUS
<1>10. three = Strtok(g, at, {Colon})
  BY <1>1, <1>2, <1>8, <1>9 DEF CallNo3
<1>11. PICK start : start = TokenFrom(g, at, {Colon})
  OBVIOUS
<1>12. start = 6
  <2>1. /\ start \in Nat /\ start <= len + 1
        /\ start <= len => at <= start /\ g[start] \notin {Colon}
        /\ \A i \in at .. len : i < start => g[i] \in {Colon}
    BY <1>6, <1>11, FindsToken
  <2>2. start # 5
    BY <1>5, <1>6, <2>1
  <2>3. ~(start > 6)
    <3>1. 6 \in at .. len
      BY <1>5, <1>8
    <3>2. g[6] # Colon
      BY <1>5, <1>7
    <3> QED BY <2>1, <3>1, <3>2
  <2> QED BY <1>5, <1>8, <2>1, <2>2, <2>3
<1>13. PICK stop : stop = EndFrom(g, start, {Colon})
  OBVIOUS
<1>14. stop = len + 1
  <2>1. /\ stop \in Nat /\ stop <= len + 1
        /\ stop <= len => start <= stop /\ g[stop] \in {Colon} \cup {Nul}
    <3>1. start \in Nat
      BY <1>12
    <3> QED BY <1>6, <1>13, <3>1, FindsEnd
  <2>2. ~(stop <= len)
    BY <1>7, <1>12, <2>1
  <2> QED BY <2>1, <2>2
<1>15. ~Ends(g, start) /\ Ends(g, stop)
  <2>1. start \in 6 .. len
    BY <1>5, <1>12
  <2>2. g[start] # Nul /\ ~(start > len) /\ stop > len
    BY <1>7, <1>14, <2>1
  <2> QED BY <1>6, <2>2 DEF Ends
<1>16. three.token = start /\ three.text = g /\ three.at = stop
  BY <1>10, <1>11, <1>13, <1>15, StrtokOutcomes
<1>17. PICK four : four = CallNo4(m)
  OBVIOUS
<1>18. four = Strtok(g, stop, {})
  BY <1>9, <1>16, <1>17 DEF CallNo4
<1>19. four.token = NoToken /\ four.text = g
  <2>0. PICK no : no = {}
    OBVIOUS
  <2>1. PICK none : none = TokenFrom(g, stop, no)
    OBVIOUS
  <2>2. /\ none \in Nat /\ none <= len + 1
        /\ none <= len => stop <= none
    <3>1. PICK from \in Nat : from = stop
      BY <1>14
    <3>2. /\ none \in Nat /\ none <= len + 1
          /\ none <= len => from <= none /\ g[none] \notin no
      BY <1>6, <2>1, <3>1, FindsToken
    <3> QED BY <3>1, <3>2
  <2>3. none > len
    BY <1>14, <2>2
  <2>4. Ends(g, none)
    BY <1>6, <2>3 DEF Ends
  <2>5. PICK any : any = EndFrom(g, none, no)
    OBVIOUS
  <2> QED BY <1>18, <2>0, <2>1, <2>4, <2>5, StrtokOutcomes
<1>20. CString(g, start) = b
  <2>1. b \in Seq(Char) /\ Len(b) = l /\ \A i \in 1 .. l : b[i] # Nul
    BY <1>4 DEF IsPlain
  <2>2. \A i \in 1 .. l : g[start - 1 + i] = b[i]
    BY <1>6, <1>12
  <2>3. start + l = len + 1 /\ start \in Nat \ {0} /\ start + l > len
    BY <1>5, <1>12
  <2>4. IsWord(g, start, b)
    BY <1>6, <2>1, <2>2, <2>3 DEF IsWord, Ends
  <2> QED BY <1>6, <2>4, WordIsRead
<1> QED BY <1>3, <1>9, <1>12, <1>16, <1>17, <1>19, <1>20

\* t has made n calls, and nobody else any since the first.
HasMade(t, n, call) ==
  Len(myString[t]) = n /\ memory[Buff(t)] = call.text /\ strtokNext = Pointer(Buff(t), call.at)

\* Where a thread is that has parsed alone so far.
IsAlone(t) ==
  /\ sent[t] \in Message
  /\ \/ Len(myString[t]) = 0 /\ memory[Buff(t)] = formatMessage(sent[t])
     \/ HasMade(t, 1, CallNo1(sent[t]))
     \/ HasMade(t, 2, CallNo2(sent[t]))
     \/ /\ HasMade(t, 3, CallNo3(sent[t]))
        /\ myString[t][3] = Found(Buff(t), CallNo3(sent[t]))
     \/ /\ HasMade(t, 4, CallNo4(sent[t]))
        /\ myString[t][3] = Found(Buff(t), CallNo3(sent[t]))
        /\ myString[t][4] = Found(Buff(t), CallNo4(sent[t]))

AloneInv == sent \in [Thread -> Message \cup {NoMessage}] /\ \A t \in parsing \ mixed : IsAlone(t)

\* A thread that calls strtok() in its own buffer.
LEMMA CallAlone ==
  ASSUME TextInv, NEW t \in parsing, NEW p \in Nat \ {0}, NEW delims,
         TakeField(t, Pointer(Buff(t), p), delims), NEW n \in Nat, n = Len(myString[t]),
         NEW call, call = Strtok(memory[Buff(t)], p, delims)
  PROVE  /\ HasMade(t, n + 1, call)' /\ sent' = sent
         /\ myString'[t][n + 1] = Found(Buff(t), call)
         /\ \A i \in 1 .. n : myString'[t][i] = myString[t][i]
<1>1. PICK s \in Place : s = Buff(t) /\ t \in Thread
  BY PlacesDiffer DEF TextInv
<1>2. /\ TextInv' /\ Called' /\ sent' = sent
      /\ memory' = [memory EXCEPT ![s] = call.text]
      /\ strtokNext'.in = s /\ strtokNext'.at = call.at
      /\ Found(s, call) \in Pointers /\ myString'[t] = Append(myString[t], Found(s, call))
      /\ Len(myString'[t]) = Len(myString[t]) + 1
  BY <1>1, FieldIsTyped
<1>3. memory'[Buff(t)] = call.text
  BY <1>1, <1>2 DEF TextInv
<1>4. strtokNext' = Pointer(Buff(t), call.at)
  BY <1>1, <1>2 DEF Called, Pointer
<1>5. PICK before \in Seq(Pointers), ptr \in Pointers : before = myString[t] /\ ptr = Found(s, call)
  BY <1>1, <1>2 DEF TextInv
<1>6. PICK after : after = Append(before, ptr)
  OBVIOUS
<1>7. after[n + 1] = ptr /\ \A i \in 1 .. n : after[i] = before[i]
  BY <1>5, <1>6, AppendProperties
<1>8. Len(myString'[t]) = n + 1
  BY <1>2
<1>9. HasMade(t, n + 1, call)'
  BY <1>3, <1>4, <1>8 DEF HasMade
<1> QED BY <1>1, <1>2, <1>5, <1>6, <1>7, <1>9

\* A call leaves no other thread that has parsed alone (message.h:433-436,
\* server.c:332-334).
LEMMA CallersAreAlone ==
  ASSUME TextInv, NEW t \in Thread,
         FirstField(t) \/ NextField(t) \/ LastField(t) \/ TargetSession(t) \/ TextOf(t)
  PROVE  parsing' \ mixed' \subseteq {t} \cap (parsing \ mixed) /\ sent' = sent
BY DEF FirstField, NextField, LastField, TakeField, TargetSession, TextOf, CallStrtok

\* The first call.
LEMMA FirstIsAlone ==
  ASSUME TextInv, NEW t \in parsing, IsAlone(t), FirstField(t) PROVE IsAlone(t)'
<1>1. Len(myString[t]) = 0 /\ TakeField(t, Pointer(Buff(t), 1), {Colon})
  BY DEF FirstField, At
<1>2. sent[t] \in Message /\ memory[Buff(t)] = formatMessage(sent[t])
  BY <1>1 DEF IsAlone, HasMade
<1>3. PICK p \in Nat \ {0}, n \in Nat : p = 1 /\ n = 0
  OBVIOUS
<1>4. PICK delims : delims = {Colon}
  OBVIOUS
<1>5. PICK call : call = Strtok(memory[Buff(t)], p, delims)
  OBVIOUS
<1>6. TakeField(t, Pointer(Buff(t), p), delims) /\ n = Len(myString[t])
  BY <1>1, <1>3, <1>4
<1>7. HasMade(t, n + 1, call)' /\ sent' = sent
  BY <1>5, <1>6, CallAlone
<1>8. call = CallNo1(sent[t]) /\ n + 1 = 1
  BY <1>2, <1>3, <1>4, <1>5 DEF CallNo1
<1> QED BY <1>2, <1>7, <1>8 DEF IsAlone

\* A call that goes on where the thread's own last one has ended.
LEMMA GoesOnAlone ==
  ASSUME TextInv, NEW t \in parsing, NEW n \in Nat \ {0}, NEW last, HasMade(t, n, last),
         NEW delims, TakeField(t, strtokNext, delims),
         NEW call, call = Strtok(last.text, last.at, delims)
  PROVE  /\ HasMade(t, n + 1, call)' /\ sent' = sent
         /\ myString'[t][n + 1] = Found(Buff(t), call)
         /\ \A i \in 1 .. n : myString'[t][i] = myString[t][i]
<1>1. Len(myString[t]) = n /\ memory[Buff(t)] = last.text /\ strtokNext = Pointer(Buff(t), last.at)
  BY DEF HasMade
<1>2. t \in Thread /\ myString[t] # <<>>
  <2>1. Len(myString[t]) # 0 /\ Len(<<>>) = 0
    BY <1>1
  <2>2. myString[t] # <<>>
    BY <2>1, Zenon
  <2> QED BY <2>2 DEF TextInv
<1>3. last.at \in Nat \ {0}
  BY <1>1, <1>2 DEF TextInv, Called, Pointer
<1>4. PICK p \in Nat \ {0} : p = last.at
  BY <1>3
<1>5. TakeField(t, Pointer(Buff(t), p), delims) /\ call = Strtok(memory[Buff(t)], p, delims)
  BY <1>1, <1>4
<1> QED BY <1>1, <1>5, CallAlone

\* The second call and the third.
LEMMA NextIsAlone ==
  ASSUME TextInv, NEW t \in parsing, IsAlone(t), NextField(t) PROVE IsAlone(t)'
<1>1. PICK delims : delims = {Colon}
  OBVIOUS
<1>2. TakeField(t, strtokNext, delims) /\ (Len(myString[t]) = 1 \/ Len(myString[t]) = 2)
  BY <1>1 DEF NextField, At
<1>3. PICK m \in Message : m = sent[t]
  BY DEF IsAlone
<1>4. CASE Len(myString[t]) = 1
  <2>1. PICK n \in Nat \ {0} : n = 1
    OBVIOUS
  <2>2. PICK last : last = CallNo1(m)
    OBVIOUS
  <2>3. HasMade(t, n, last)
    BY <1>3, <1>4, <2>1, <2>2 DEF IsAlone, HasMade
  <2>4. PICK call : call = Strtok(last.text, last.at, delims)
    OBVIOUS
  <2>5. HasMade(t, n + 1, call)' /\ sent' = sent
    BY <1>2, <2>3, <2>4, GoesOnAlone
  <2>6. call = CallNo2(m) /\ n + 1 = 2
    BY <1>1, <2>1, <2>2, <2>4 DEF CallNo2
  <2> QED BY <1>3, <2>5, <2>6 DEF IsAlone
<1>5. CASE Len(myString[t]) = 2
  <2>1. PICK n \in Nat \ {0} : n = 2
    OBVIOUS
  <2>2. PICK last : last = CallNo2(m)
    OBVIOUS
  <2>3. HasMade(t, n, last)
    BY <1>3, <1>5, <2>1, <2>2 DEF IsAlone, HasMade
  <2>4. PICK call : call = Strtok(last.text, last.at, delims)
    OBVIOUS
  <2>5. HasMade(t, n + 1, call)' /\ sent' = sent /\ myString'[t][n + 1] = Found(Buff(t), call)
    BY <1>2, <2>3, <2>4, GoesOnAlone
  <2>6. call = CallNo3(m) /\ n + 1 = 3
    BY <1>1, <2>1, <2>2, <2>4 DEF CallNo3
  <2> QED BY <1>3, <2>5, <2>6 DEF IsAlone
<1> QED BY <1>2, <1>4, <1>5

\* The last call.
LEMMA LastIsAlone ==
  ASSUME TextInv, NEW t \in parsing, IsAlone(t), LastField(t) PROVE IsAlone(t)'
<1>1. PICK delims : delims = {}
  OBVIOUS
<1>2. TakeField(t, strtokNext, delims) /\ Len(myString[t]) = 3
  BY <1>1 DEF LastField, At
<1>3. PICK m \in Message : m = sent[t]
  BY DEF IsAlone
<1>4. PICK n \in Nat \ {0} : n = 3
  OBVIOUS
<1>5. PICK last : last = CallNo3(m)
  OBVIOUS
<1>6. HasMade(t, n, last) /\ myString[t][3] = Found(Buff(t), last)
  BY <1>2, <1>3, <1>4, <1>5 DEF IsAlone, HasMade
<1>7. PICK call : call = Strtok(last.text, last.at, delims)
  OBVIOUS
<1>8. /\ HasMade(t, n + 1, call)' /\ sent' = sent /\ myString'[t][n + 1] = Found(Buff(t), call)
      /\ \A i \in 1 .. n : myString'[t][i] = myString[t][i]
  BY <1>2, <1>6, <1>7, GoesOnAlone
<1>9. call = CallNo4(m) /\ n + 1 = 4
  BY <1>1, <1>4, <1>5, <1>7 DEF CallNo4
<1>10. myString'[t][3] = Found(Buff(t), last)
  BY <1>4, <1>6, <1>8
<1> QED BY <1>3, <1>4, <1>5, <1>8, <1>9, <1>10 DEF IsAlone

\* A message that is received, and a parse that ends, leave the others alone.
LEMMA OthersStayAlone ==
  ASSUME TextInv, AloneInv, NEW t \in Thread, (\E m \in Message : Receive(t, m)) \/ Return(t)
  PROVE  AloneInv'
<1>1. CASE \E m \in Message : Receive(t, m)
  <2>1. PICK m \in Message : Receive(t, m)
    BY <1>1
  <2>2. /\ t \notin parsing /\ parsing' = parsing \cup {t} /\ mixed' = mixed
        /\ memory' = [memory EXCEPT ![Buff(t)] = formatMessage(m)] /\ sent' = [sent EXCEPT ![t] = m]
        /\ myString' = myString /\ strtokNext' = strtokNext
    BY <2>1 DEF Receive
  <2>3. /\ memory'[Buff(t)] = formatMessage(m) /\ \A u \in Thread : u # t => memory'[Buff(u)] = memory[Buff(u)]
        /\ sent'[t] = m /\ \A u \in Thread : u # t => sent'[u] = sent[u]
        /\ sent' \in [Thread -> Message \cup {NoMessage}]
    BY <2>2, PlacesDiffer DEF TextInv, AloneInv
  <2>4. Len(myString'[t]) = 0
    <3>1. myString'[t] = <<>> /\ Len(<<>>) = 0
      BY <2>2 DEF TextInv
    <3> QED BY <3>1, Zenon
  <2>5. IsAlone(t)'
    BY <2>3, <2>4 DEF IsAlone
  <2>6. ASSUME NEW u \in parsing' \ mixed', u # t PROVE IsAlone(u)'
    <3>1. u \in Thread /\ IsAlone(u)
      BY <2>2, <2>6 DEF TextInv, AloneInv
    <3>2. memory'[Buff(u)] = memory[Buff(u)] /\ sent'[u] = sent[u] /\ myString'[u] = myString[u]
      BY <2>2, <2>3, <2>6, <3>1
    <3> QED BY <2>2, <3>1, <3>2 DEF IsAlone, HasMade
  <2> QED BY <2>3, <2>5, <2>6 DEF AloneInv
<1>2. CASE Return(t)
  <2>1. /\ parsing' = parsing \ {t} /\ mixed' = mixed \ {t}
        /\ strtokNext' = strtokNext /\ myString' = [myString EXCEPT ![t] = <<>>]
        /\ sent' = [sent EXCEPT ![t] = NoMessage]
    BY <1>2 DEF Return
  <2>4. \A u \in Thread : memory'[Buff(u)] = memory[Buff(u)]
    BY <1>2, PlacesDiffer DEF Return, TextInv
  <2>2. /\ \A u \in Thread : u # t => myString'[u] = myString[u] /\ sent'[u] = sent[u]
        /\ sent' \in [Thread -> Message \cup {NoMessage}]
    BY <2>1 DEF TextInv, AloneInv
  <2>3. ASSUME NEW u \in parsing' \ mixed' PROVE IsAlone(u)'
    <3>1. u \in Thread /\ IsAlone(u) /\ u # t
      BY <2>1, <2>3 DEF TextInv, AloneInv
    <3>2. sent'[u] = sent[u] /\ myString'[u] = myString[u]
      BY <2>2, <3>1
    <3> QED BY <2>1, <2>4, <3>1, <3>2 DEF IsAlone, HasMade
  <2> QED BY <2>2, <2>3 DEF AloneInv
<1> QED BY <1>1, <1>2

\* A thread whose parse no other one has met is where its own calls have brought it,
\* whatever the others have done before and do to their own texts.
THEOREM OwnCallsAreKept == Spec => []AloneInv
<1>1. Init => AloneInv
  <2> SUFFICES ASSUME Init PROVE AloneInv
    OBVIOUS
  <2> QED BY DEF Init, AloneInv
<1>2. TextInv /\ AloneInv /\ [Next]_vars => AloneInv'
  <2> SUFFICES ASSUME TextInv, AloneInv, [Next]_vars PROVE AloneInv'
    OBVIOUS
  <2>1. CASE UNCHANGED vars
    BY <2>1 DEF vars, AloneInv, IsAlone, HasMade
  <2>2. CASE Next
    <3>1. PICK t \in Thread : \/ \E m \in Message : Receive(t, m)
                             \/ FirstField(t) \/ NextField(t) \/ LastField(t) \/ Return(t)
                             \/ TargetSession(t) \/ TextOf(t)
      BY <2>2 DEF Next
    <3>2. CASE FirstField(t) \/ NextField(t) \/ LastField(t)
      <4>1. parsing' \ mixed' \subseteq {t} \cap (parsing \ mixed) /\ sent' = sent
        BY <3>2, CallersAreAlone
      <4>2. ASSUME NEW u \in parsing' \ mixed' PROVE IsAlone(u)'
        <5>1. u = t /\ t \in parsing /\ IsAlone(t)
          BY <4>1, <4>2 DEF AloneInv
        <5>2. IsAlone(t)'
          BY <3>2, <5>1, FirstIsAlone, NextIsAlone, LastIsAlone
        <5> QED BY <5>1, <5>2
      <4> QED BY <4>1, <4>2 DEF AloneInv
    <3>3. CASE TargetSession(t) \/ TextOf(t)
      <4>1. parsing' \ mixed' \subseteq {t} \cap (parsing \ mixed) /\ sent' = sent /\ t \notin parsing
        BY <3>3, CallersAreAlone, DataIsCut
      <4> QED BY <4>1 DEF AloneInv
    <3> QED BY <3>1, <3>2, <3>3, OthersStayAlone
  <2> QED BY <2>1, <2>2
<1> QED BY <1>1, <1>2, BeginningsAreKept, PTL DEF Spec

\* A message with data that is parsed while no other thread calls strtok(), to parse or
\* for a MESSAGE, keeps what it says, if its source is a name without a colon, or not
\* set and its data has none (message.h:409-463).
THEOREM ParsedAlone == Spec => []ParsedAloneIsKept
<1>1. AloneInv => ParsedAloneIsKept
  <2> SUFFICES ASSUME AloneInv, NEW t \in parsing \ mixed, At(t, 4), sent[t].data # <<>>,
                      ~HasColon(sent[t].source)
               PROVE  /\ sent[t].source # <<>> => Parsed(t) = sent[t]
                      /\ ~HasColon(sent[t].data) => Parsed(t).data = sent[t].data
    BY DEF ParsedAloneIsKept
  <2>1. PICK m \in Message : m = sent[t]
    BY DEF AloneInv, IsAlone
  <2>2. PICK text : text = CallNo4(m).text
    OBVIOUS
  <2>3. /\ memory[Buff(t)] = text
        /\ myString[t][3] = Found(Buff(t), CallNo3(m)) /\ myString[t][4] = Found(Buff(t), CallNo4(m))
    BY <2>1, <2>2 DEF AloneInv, IsAlone, HasMade, At
  <2>4. /\ m.source \in Seq(Char) /\ m.data \in Seq(Char)
    BY TextsTyped DEF Message
  <2>5. PICK k \in Nat, l \in Nat : HasLengths(m, k, l)
    BY <2>4 DEF HasLengths
  <2>6. (k = 0 <=> m.source = <<>>) /\ l > 0
    BY <2>1, <2>4, <2>5, EmptySeq DEF HasLengths
  <2>7. ASSUME NEW p \in Nat \ {0} PROVE Pointer(Buff(t), p) # Null /\ Field(Pointer(Buff(t), p)) = CString(text, p)
    <3>1. Pointer(Buff(t), p) # Null /\ Pointer(Buff(t), p).in = Buff(t) /\ Pointer(Buff(t), p).at = p
      BY DEF Pointer, Null, NoToken
    <3> QED BY <2>3, <3>1 DEF Field
  <2>8. CASE k > 0
    <3>1. /\ CallNo3(m).token = 5 /\ CString(text, 5) = m.source
          /\ CallNo4(m).token = 6 + k /\ CString(text, 6 + k) = m.data
      BY <2>1, <2>2, <2>5, <2>6, <2>8, SourceAndDataAreTaken
    <3>2. PICK p \in Nat \ {0}, q \in Nat \ {0} : p = 5 /\ q = 6 + k
      OBVIOUS
    <3>3. myString[t][3] = Pointer(Buff(t), p) /\ myString[t][4] = Pointer(Buff(t), q)
      BY <2>3, <3>1, <3>2 DEF Found, NoToken
    <3>4. Parsed(t) = [source |-> m.source, data |-> m.data]
      BY <2>7, <3>1, <3>2, <3>3 DEF Parsed
    <3>5. m = [source |-> m.source, data |-> m.data]
      BY DEF Message
    <3> QED BY <2>1, <3>4, <3>5
  <2>9. CASE k = 0
    <3>1. SUFFICES ASSUME ~HasColon(m.data) PROVE Parsed(t).data = m.data
      BY <2>1, <2>6, <2>9
    <3>2. /\ CallNo3(m).token = 6 /\ CString(text, 6) = m.data
          /\ CallNo4(m).token = NoToken
      BY <2>2, <2>5, <2>6, <2>9, <3>1, DataAloneIsTaken
    <3>3. PICK p \in Nat \ {0} : p = 6
      OBVIOUS
    <3>4. myString[t][3] = Pointer(Buff(t), p) /\ myString[t][4] = Null
      BY <2>3, <3>2, <3>3 DEF Found, NoToken
    <3> QED BY <2>7, <3>2, <3>3, <3>4 DEF Parsed
  <2> QED BY <2>8, <2>9
<1> QED BY <1>1, OwnCallsAreKept, PTL

=============================================================================
