----------------------------- MODULE StrtokProofs -----------------------------
(***************************************************************************)
(* Proofs about strtok() and the texts that both codecs take apart with    *)
(* it, for texts of any length.                                            *)
(***************************************************************************)
EXTENDS Strtok, SequenceTheorems, WellFoundedInduction, TLAPS

\* The three searches of a text: for its stop, for a token and for a token's stop.
NulFrom(text, at) == FirstOf(text, at, LAMBDA c : c = Nul)
TokenFrom(text, at, delims) == FirstOf(text, at, LAMBDA c : c \notin delims)
EndFrom(text, at, delims) == FirstOf(text, at, LAMBDA c : c \in delims \cup {Nul})

\* The characters of the texts of both codecs; the provers do not know that a literal is
\* a string.
Char == STRING \cup {Nul, ":", "t", "n", "?"}

\* A character overwritten.
CutAt(text, i) == [text EXCEPT ![i] = Nul]

LEMMA CutText ==
  ASSUME NEW text \in Seq(Char), NEW stop \in 1 .. Len(text)
  PROVE  /\ CutAt(text, stop) \in Seq(Char) /\ Len(CutAt(text, stop)) = Len(text)
         /\ \A i \in 1 .. Len(text) : CutAt(text, stop)[i] = IF i = stop THEN Nul ELSE text[i]
<1>1. Nul \in Char
  BY DEF Char
<1> QED BY <1>1, ExceptSeq DEF CutAt

\* Numbers have a least one.
LEMMA LeastOf ==
  ASSUME NEW T \in SUBSET Nat, T # {}
  PROVE  Min(T) \in T /\ \A y \in T : Min(T) <= y
<1> DEFINE Less == {ss \in Nat \X Nat : ss[1] < ss[2]}
<1>1. IsWellFoundedOn(Less, Nat)
  BY NatLessThanWellFounded DEF OpToRel
<1>2. ASSUME NEW x \in T, NEW y \in T, <<y, x>> \notin Less PROVE x <= y
  BY <1>2
<1> HIDE DEF Less
<1>3. \E x \in T : \A y \in T : ~ (<<y, x>> \in Less)
  BY <1>1, WFMin
<1>4. \E x \in T : \A y \in T : x <= y
  BY <1>2, <1>3
<1> QED BY <1>4 DEF Min

\* What a search finds, wherever it begins.
LEMMA Finds ==
  ASSUME NEW len \in Nat, NEW at \in Nat, NEW Found \in SUBSET (at .. len),
         NEW f, f = Min(Found \cup {len + 1})
  PROVE  /\ f \in Nat /\ f <= len + 1
         /\ f <= len => at <= f /\ f \in Found
         /\ \A i \in at .. len : i < f => i \notin Found
<1>1. Found \cup {len + 1} \in SUBSET Nat
  OBVIOUS
<1>2. f \in Found \cup {len + 1} /\ \A y \in Found \cup {len + 1} : f <= y
  BY <1>1, LeastOf
<1>3. f \in Nat /\ f <= len + 1
  BY <1>1, <1>2
<1>4. ASSUME f <= len PROVE at <= f /\ f \in Found
  BY <1>2, <1>4
<1>5. ASSUME NEW i \in at .. len, i < f PROVE i \notin Found
  BY <1>2, <1>3, <1>5
<1> QED BY <1>3, <1>4, <1>5

LEMMA FindsNul ==
  ASSUME NEW text, Len(text) \in Nat, NEW at \in Nat, NEW f, f = NulFrom(text, at)
  PROVE  /\ f \in Nat /\ f <= Len(text) + 1
         /\ f <= Len(text) => at <= f /\ text[f] = Nul
         /\ \A i \in at .. Len(text) : i < f => text[i] # Nul
<1> DEFINE Found == {i \in at .. Len(text) : text[i] = Nul}
<1>1. f = Min(Found \cup {Len(text) + 1})
  BY DEF NulFrom, FirstOf
<1>2. Found \in SUBSET (at .. Len(text))
  OBVIOUS
<1>3. /\ f \in Nat /\ f <= Len(text) + 1
      /\ f <= Len(text) => at <= f /\ f \in Found
      /\ \A i \in at .. Len(text) : i < f => i \notin Found
  <2> HIDE DEF Found
  <2> QED BY <1>1, <1>2, Finds
<1> QED BY <1>3

LEMMA FindsToken ==
  ASSUME NEW text, Len(text) \in Nat, NEW at \in Nat, NEW delims,
         NEW f, f = TokenFrom(text, at, delims)
  PROVE  /\ f \in Nat /\ f <= Len(text) + 1
         /\ f <= Len(text) => at <= f /\ text[f] \notin delims
         /\ \A i \in at .. Len(text) : i < f => text[i] \in delims
<1> DEFINE Found == {i \in at .. Len(text) : text[i] \notin delims}
<1>1. f = Min(Found \cup {Len(text) + 1})
  BY DEF TokenFrom, FirstOf
<1>2. Found \in SUBSET (at .. Len(text))
  OBVIOUS
<1>3. /\ f \in Nat /\ f <= Len(text) + 1
      /\ f <= Len(text) => at <= f /\ f \in Found
      /\ \A i \in at .. Len(text) : i < f => i \notin Found
  <2> HIDE DEF Found
  <2> QED BY <1>1, <1>2, Finds
<1> QED BY <1>3

LEMMA FindsEnd ==
  ASSUME NEW text, Len(text) \in Nat, NEW at \in Nat, NEW delims,
         NEW f, f = EndFrom(text, at, delims)
  PROVE  /\ f \in Nat /\ f <= Len(text) + 1
         /\ f <= Len(text) => at <= f /\ text[f] \in delims \cup {Nul}
         /\ \A i \in at .. Len(text) : i < f => text[i] \notin delims \cup {Nul}
<1> DEFINE Found == {i \in at .. Len(text) : text[i] \in delims \cup {Nul}}
<1>1. f = Min(Found \cup {Len(text) + 1})
  BY DEF EndFrom, FirstOf
<1>2. Found \in SUBSET (at .. Len(text))
  OBVIOUS
<1>3. /\ f \in Nat /\ f <= Len(text) + 1
      /\ f <= Len(text) => at <= f /\ f \in Found
      /\ \A i \in at .. Len(text) : i < f => i \notin Found
  <2> HIDE DEF Found
  <2> QED BY <1>1, <1>2, Finds
<1> QED BY <1>3

\* The three outcomes of a call: no token, a last one, and one with more behind it.
LEMMA StrtokOutcomes ==
  ASSUME NEW text, NEW at, NEW delims,
         NEW start, start = TokenFrom(text, at, delims),
         NEW stop, stop = EndFrom(text, start, delims),
         NEW call, call = Strtok(text, at, delims)
  PROVE  /\ Ends(text, start) => call.token = NoToken /\ call.text = text /\ call.at = start
         /\ ~Ends(text, start) /\ Ends(text, stop) =>
              call.token = start /\ call.text = text /\ call.at = stop
         /\ ~Ends(text, start) /\ ~Ends(text, stop) =>
              call.token = start /\ call.text = CutAt(text, stop) /\ call.at = stop + 1
<1>1. call = CASE Ends(text, start) -> [token |-> NoToken, text |-> text, at |-> start]
               [] ~Ends(text, start) /\ Ends(text, stop) -> [token |-> start, text |-> text, at |-> stop]
               [] OTHER -> [token |-> start, text |-> CutAt(text, stop), at |-> stop + 1]
  BY DEF Strtok, TokenFrom, EndFrom, CutAt
<1> QED BY <1>1

\* A call cuts a text at one place at the most, behind where it began, and goes on
\* behind that place.
LEMMA StrtokCuts ==
  ASSUME NEW text \in Seq(Char), NEW at \in Nat \ {0}, NEW delims,
         NEW call, call = Strtok(text, at, delims)
  PROVE  /\ call.text \in Seq(Char) /\ Len(call.text) = Len(text)
         /\ call.token \in Nat /\ call.at \in Nat
         /\ call.at >= at \/ call.at = Len(text) + 1
         /\ \/ call.text = text
            \/ \E stop \in at .. Len(text) :
                 /\ call.text = CutAt(text, stop) /\ call.at = stop + 1
                 /\ text[stop] \in delims
                 /\ \E start \in at .. Len(text) : start < stop /\ text[start] \notin delims
<1>1. PICK len \in Nat : len = Len(text)
  OBVIOUS
<1>2. PICK start : start = TokenFrom(text, at, delims)
  OBVIOUS
<1>3. PICK stop : stop = EndFrom(text, start, delims)
  OBVIOUS
<1>4. /\ start \in Nat /\ start <= len + 1
      /\ start <= len => at <= start /\ text[start] \notin delims
  BY <1>1, <1>2, FindsToken
<1>5. /\ stop \in Nat /\ stop <= len + 1
      /\ stop <= len => start <= stop /\ text[stop] \in delims \cup {Nul}
  BY <1>1, <1>3, <1>4, FindsEnd
<1>6. /\ Ends(text, start) => call.token = NoToken /\ call.text = text /\ call.at = start
      /\ ~Ends(text, start) /\ Ends(text, stop) =>
           call.token = start /\ call.text = text /\ call.at = stop
      /\ ~Ends(text, start) /\ ~Ends(text, stop) =>
           call.token = start /\ call.text = CutAt(text, stop) /\ call.at = stop + 1
  BY <1>2, <1>3, StrtokOutcomes
<1>7. CASE Ends(text, start)
  BY <1>1, <1>4, <1>6, <1>7 DEF NoToken
<1>8. CASE ~Ends(text, start) /\ Ends(text, stop)
  <2>1. start <= len
    BY <1>1, <1>4, <1>8 DEF Ends
  <2> QED BY <1>1, <1>4, <1>5, <1>6, <1>8, <2>1
<1>9. CASE ~Ends(text, start) /\ ~Ends(text, stop)
  <2>1. start <= len /\ stop <= len /\ text[stop] # Nul
    BY <1>1, <1>4, <1>5, <1>9 DEF Ends
  <2>2. start < stop /\ text[stop] \in delims
    BY <1>4, <1>5, <2>1
  <2>3. start \in at .. Len(text) /\ stop \in at .. Len(text) /\ stop \in 1 .. Len(text)
    BY <1>1, <1>4, <1>5, <2>1
  <2>4. CutAt(text, stop) \in Seq(Char) /\ Len(CutAt(text, stop)) = Len(text)
    BY <2>3, CutText
  <2>5. call.token = start /\ call.text = CutAt(text, stop) /\ call.at = stop + 1
    BY <1>6, <1>9
  <2>6. call.at >= at
    BY <1>4, <1>5, <2>1, <2>5
  <2>7. call.text = CutAt(text, stop) /\ call.at = stop + 1 /\ text[stop] \in delims
        /\ start < stop /\ text[start] \notin delims
    BY <1>4, <2>1, <2>2, <2>5
  <2>8. \E e \in at .. Len(text) :
          /\ call.text = CutAt(text, e) /\ call.at = e + 1 /\ text[e] \in delims
          /\ \E b \in at .. Len(text) : b < e /\ text[b] \notin delims
    BY <2>3, <2>7, Zenon
  <2>9. /\ call.text \in Seq(Char) /\ Len(call.text) = Len(text)
        /\ call.token \in Nat /\ call.at \in Nat
    BY <1>4, <1>5, <2>4, <2>5
  <2> QED BY <2>6, <2>8, <2>9, Zenon
<1> QED BY <1>7, <1>8, <1>9

\* A call that begins at a token.
IsToken(text, at, stop, delims) ==
  /\ at \in 1 .. Len(text) /\ stop \in at + 1 .. Len(text) + 1
  /\ \A i \in at .. stop - 1 : text[i] \notin delims \cup {Nul}
  /\ stop <= Len(text) => text[stop] \in delims \cup {Nul}

LEMMA StrtokTakes ==
  ASSUME NEW text \in Seq(Char), NEW at, NEW stop, NEW delims, IsToken(text, at, stop, delims),
         NEW call, call = Strtok(text, at, delims)
  PROVE  /\ call.token = at
         /\ IF Ends(text, stop) THEN call.text = text /\ call.at = stop
            ELSE call.text = CutAt(text, stop) /\ call.at = stop + 1
<1>1. PICK len \in Nat : len = Len(text)
  OBVIOUS
<1>2. /\ at \in 1 .. len /\ stop \in at + 1 .. len + 1
      /\ \A i \in at .. stop - 1 : text[i] \notin delims \cup {Nul}
      /\ stop <= len => text[stop] \in delims \cup {Nul}
  BY <1>1 DEF IsToken
<1>3. PICK start : start = TokenFrom(text, at, delims)
  OBVIOUS
<1>4. PICK last : last = EndFrom(text, start, delims)
  OBVIOUS
<1>5. text[at] \notin delims /\ text[at] # Nul
  BY <1>2
<1>6. start = at
  <2>1. /\ start \in Nat /\ start <= len + 1
        /\ start <= len => at <= start
        /\ \A i \in at .. len : i < start => text[i] \in delims
    BY <1>1, <1>3, <1>2, FindsToken
  <2> QED BY <1>5, <1>2, <2>1
<1>7. last = stop
  <2>1. /\ last \in Nat /\ last <= len + 1
        /\ last <= len => at <= last /\ text[last] \in delims \cup {Nul}
        /\ \A i \in at .. len : i < last => text[i] \notin delims \cup {Nul}
    BY <1>1, <1>4, <1>6, <1>2, FindsEnd
  <2> QED BY <1>2, <2>1
<1>8. ~Ends(text, at)
  BY <1>1, <1>5, <1>2 DEF Ends
<1>9. /\ Ends(text, start) => call.token = NoToken /\ call.text = text /\ call.at = start
      /\ ~Ends(text, start) /\ Ends(text, last) =>
           call.token = start /\ call.text = text /\ call.at = last
      /\ ~Ends(text, start) /\ ~Ends(text, last) =>
           call.token = start /\ call.text = CutAt(text, last) /\ call.at = last + 1
  BY <1>3, <1>4, StrtokOutcomes
<1> QED BY <1>6, <1>7, <1>8, <1>9

\* Two texts, one behind the other.
IsJoin(ab, a, b, n, k) ==
  /\ ab \in Seq(Char) /\ Len(ab) = n + k
  /\ \A i \in 1 .. n : ab[i] = a[i]
  /\ \A i \in 1 .. k : ab[n + i] = b[i]

LEMMA Joined == \A a, b \in Seq(Char) : IsJoin(a \o b, a, b, Len(a), Len(b))
<1> SUFFICES ASSUME NEW a \in Seq(Char), NEW b \in Seq(Char)
             PROVE  IsJoin(a \o b, a, b, Len(a), Len(b))
  OBVIOUS
<1>0. PICK n \in Nat, k \in Nat : n = Len(a) /\ k = Len(b)
  OBVIOUS
<1>1. PICK ab : ab = a \o b
  OBVIOUS
<1>2. \A i \in 1 .. n + k : ab[i] = IF i <= n THEN a[i] ELSE b[i - n]
  BY <1>0, <1>1, ConcatProperties
<1>3. ab \in Seq(Char) /\ Len(ab) = n + k
  BY <1>0, <1>1, ConcatProperties
<1>4. \A i \in 1 .. n : ab[i] = a[i]
  BY <1>2
<1>5. ASSUME NEW i \in 1 .. k PROVE ab[n + i] = b[i]
  <2>1. n + i \in 1 .. n + k /\ ~ (n + i <= n) /\ (n + i) - n = i
    OBVIOUS
  <2> QED BY <1>2, <2>1
<1> QED BY <1>0, <1>1, <1>3, <1>4, <1>5 DEF IsJoin

\* A part of a text is a text.
LEMMA PartOfText ==
  ASSUME NEW text, NEW at \in Int, NEW last \in Int, \A i \in at .. last : text[i] \in Char,
         NEW w, w = SubSeq(text, at, last)
  PROVE  /\ w \in Seq(Char)
         /\ Len(w) = IF at <= last THEN last - at + 1 ELSE 0
         /\ \A i \in 1 .. last - at + 1 : w[i] = text[at + i - 1]
BY SubSeqProperties

\* A word of a text and its stop, or the end of the text.
IsWord(text, at, word) ==
  /\ at \in Nat \ {0} /\ word \in Seq(Char) /\ at + Len(word) <= Len(text) + 1
  /\ \A i \in 1 .. Len(word) : text[at - 1 + i] = word[i] /\ word[i] # Nul
  /\ Ends(text, at + Len(word))

\* It is what a string that begins there is.
LEMMA WordIsRead ==
  ASSUME NEW text \in Seq(Char), NEW at, NEW word, IsWord(text, at, word)
  PROVE  CString(text, at) = word
<1>1. PICK len \in Nat, n \in Nat : len = Len(text) /\ n = Len(word)
  BY DEF IsWord
<1>2. /\ at \in Nat \ {0} /\ word \in Seq(Char) /\ at + n <= len + 1
      /\ \A i \in 1 .. n : text[at - 1 + i] = word[i] /\ word[i] # Nul
      /\ at + n > len \/ text[at + n] = Nul
  BY <1>1 DEF IsWord, Ends
<1>3. PICK f : f = NulFrom(text, at)
  OBVIOUS
<1>4. f = at + n
  <2>1. /\ f \in Nat /\ f <= len + 1
        /\ f <= len => at <= f /\ text[f] = Nul
        /\ \A i \in at .. len : i < f => text[i] # Nul
    <3>1. at \in Nat /\ Len(text) \in Nat
      BY <1>1, <1>2
    <3> QED BY <1>1, <1>3, <3>1, FindsNul
  <2>2. ~(at <= f /\ f < at + n)
    <3>1. SUFFICES ASSUME at <= f, f < at + n PROVE FALSE
      OBVIOUS
    <3>2. f - at + 1 \in 1 .. n /\ at - 1 + (f - at + 1) = f
      BY <1>2, <2>1, <3>1
    <3>3. text[f] # Nul
      BY <1>2, <3>2
    <3> QED BY <1>2, <2>1, <3>1, <3>3
  <2>3. ~(f > at + n)
    BY <1>2, <2>1
  <2>4. f >= at
    BY <1>2, <2>1
  <2> QED BY <1>2, <2>1, <2>2, <2>3, <2>4
<1>5. CString(text, at) = SubSeq(text, at, f - 1)
  BY <1>3 DEF CString, NulFrom
<1>6. PICK last \in Int : last = at + n - 1
  BY <1>2
<1>7. ASSUME NEW i \in at .. last PROVE text[i] \in Char
  <2>1. i \in 1 .. len
    BY <1>2, <1>6
  <2> QED BY <1>1, <2>1
<1>8. PICK w : w = SubSeq(text, at, last)
  OBVIOUS
<1>9. /\ w \in Seq(Char)
      /\ Len(w) = IF at <= last THEN last - at + 1 ELSE 0
      /\ \A i \in 1 .. last - at + 1 : w[i] = text[at + i - 1]
  <2>1. at \in Int
    BY <1>2
  <2> QED BY <1>7, <1>8, <2>1, PartOfText
<1>10. Len(w) = n
  BY <1>2, <1>6, <1>9
<1>11. ASSUME NEW i \in 1 .. n PROVE w[i] = word[i]
  <2>1. i \in 1 .. last - at + 1 /\ at + i - 1 = at - 1 + i
    BY <1>2, <1>6
  <2> QED BY <1>2, <1>9, <2>1
<1>12. w = word
  <2>1. w \in Seq(Char) /\ word \in Seq(Char) /\ Len(w) = Len(word)
    BY <1>1, <1>2, <1>9, <1>10
  <2>2. \A i \in 1 .. Len(w) : w[i] = word[i]
    BY <1>10, <1>11
  <2> QED BY <2>1, <2>2, SeqEqual, Zenon
<1>13. f - 1 = last
  BY <1>2, <1>4, <1>6
<1> QED BY <1>5, <1>8, <1>12, <1>13, Zenon

=============================================================================
