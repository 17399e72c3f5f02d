-------------------------- MODULE SmtpClientProofs --------------------------
(***************************************************************************)
(* For every script, every mail and every server: a mail the server files  *)
(* ends with the last line of mail.txt before the dot and begins with its  *)
(* first unless DATA was refused, and the client, which looks at no reply, *)
(* stays in the server's state.  MailInv is the inductive invariant.       *)
(***************************************************************************)
EXTENDS SmtpClient, TLAPS, SequenceTheorems, FiniteSetTheorems, WellFoundedInduction

\* Every non-empty set of natural numbers has a least element.
LEMMA LeastNumber ==
    ASSUME NEW S, S \subseteq Nat, S # {}
    PROVE  \E m \in S : \A n \in S : m <= n
<1>1. PICK m \in S : \A n \in S : ~(<<n, m>> \in OpToRel(<, Nat))
    BY WFMin, NatLessThanWellFounded
<1>2. ASSUME NEW n \in S PROVE m <= n
    <2>1. n \in Nat /\ m \in Nat
        OBVIOUS
    <2>2. ~(n < m)
        BY <1>1, <2>1 DEF OpToRel
    <2> QED BY <2>1, <2>2
<1> QED BY <1>2

-----------------------------------------------------------------------------
(* FlattenSeq, which joins the lines that a mail is sent as.               *)

\* g is the function that FlattenSeq computes for the first n sequences of s.
Joined(s, n, g) == g = [i \in 1..n |-> IF i = 1 THEN s[i] ELSE g[i - 1] \o s[i]]

LEMMA JoinedExists ==
    ASSUME NEW s, NEW n \in Nat
    PROVE  \E g : Joined(s, n, g)
<1> DEFINE S == {k \in Nat : \A g : ~Joined(s, k, g)}
<1> SUFFICES ASSUME S # {} PROVE FALSE
    OBVIOUS
<1>1. PICK m \in S : \A k \in S : m <= k
    <2>1. S \subseteq Nat
        OBVIOUS
    <2> HIDE DEF S
    <2> QED BY <2>1, LeastNumber
<1>2. m \in Nat /\ \A g : ~Joined(s, m, g)
    OBVIOUS
<1>3. m # 0
    <2>1. Joined(s, 0, [i \in 1..0 |-> s[i]])
        BY DEF Joined
    <2> QED BY <1>2, <2>1
<1>4. m - 1 \in Nat /\ m - 1 \notin S
    <2> HIDE DEF S
    <2> QED BY <1>1, <1>2, <1>3
<1>5. PICK h : Joined(s, m - 1, h)
    BY <1>4
<1> DEFINE g == [i \in 1..m |-> IF i = m THEN (IF i = 1 THEN s[i] ELSE h[i - 1] \o s[i])
                                         ELSE h[i]]
<1>6. ASSUME NEW i \in 1..m
      PROVE  g[i] = IF i = 1 THEN s[i] ELSE g[i - 1] \o s[i]
    <2>1. CASE i = m
        <3>1. i # 1 => i - 1 \in 1..m /\ i - 1 # m
            BY <1>2
        <3> QED BY <2>1, <3>1
    <2>2. CASE i # m
        <3>1. i \in 1..m - 1 /\ g[i] = h[i]
            BY <1>2, <2>2
        <3>2. h[i] = IF i = 1 THEN s[i] ELSE h[i - 1] \o s[i]
            BY <1>5, <3>1 DEF Joined
        <3>3. i # 1 => i - 1 \in 1..m /\ i - 1 # m
            BY <1>2, <2>2
        <3>4. i # 1 => g[i - 1] = h[i - 1]
            BY <3>3
        <3> QED BY <3>1, <3>2, <3>4
    <2> QED BY <2>1, <2>2
<1>7. Joined(s, m, g)
    BY <1>6 DEF Joined
<1> QED BY <1>2, <1>7

Agree(s, t, n) == \A i \in 1..n : s[i] = t[i]

\* Two such functions agree where their sequences do.
LEMMA JoinedUnique ==
    ASSUME NEW s, NEW t, NEW n \in Nat, NEW m \in Nat, NEW g, NEW h,
           Joined(s, n, g), Joined(t, m, h), n <= m, Agree(s, t, n)
    PROVE  Agree(g, h, n)
<1> SUFFICES \A i \in 1..n : g[i] = h[i]
    BY DEF Agree
<1> DEFINE S == {k \in 1..n : g[k] # h[k]}
<1> SUFFICES ASSUME S # {} PROVE FALSE
    OBVIOUS
<1>1. PICK k \in S : \A i \in S : k <= i
    <2>1. S \subseteq Nat
        OBVIOUS
    <2> HIDE DEF S
    <2> QED BY <2>1, LeastNumber
<1>2. k \in 1..n /\ k \in 1..m /\ k \in Nat /\ g[k] # h[k]
    OBVIOUS
<1>3. /\ g[k] = IF k = 1 THEN s[k] ELSE g[k - 1] \o s[k]
      /\ h[k] = IF k = 1 THEN t[k] ELSE h[k - 1] \o t[k]
    BY <1>2 DEF Joined
<1>4. k # 1 => k - 1 \in 1..n /\ k - 1 \notin S
    <2>1. k # 1 => k - 1 \in 1..n /\ ~(k <= k - 1)
        BY <1>2
    <2> QED BY <1>1, <2>1
<1> QED BY <1>2, <1>3, <1>4 DEF Agree

LEMMA JoinedTyped ==
    ASSUME NEW T, NEW s, NEW n \in Nat, NEW g, Joined(s, n, g),
           \A i \in 1..n : s[i] \in Seq(T)
    PROVE  \A i \in 1..n : g[i] \in Seq(T)
<1> DEFINE S == {k \in 1..n : g[k] \notin Seq(T)}
<1> SUFFICES ASSUME S # {} PROVE FALSE
    OBVIOUS
<1>1. PICK k \in S : \A i \in S : k <= i
    <2>1. S \subseteq Nat
        OBVIOUS
    <2> HIDE DEF S
    <2> QED BY <2>1, LeastNumber
<1>2. k \in 1..n /\ k \in Nat /\ g[k] \notin Seq(T) /\ s[k] \in Seq(T)
    OBVIOUS
<1>3. g[k] = IF k = 1 THEN s[k] ELSE g[k - 1] \o s[k]
    BY <1>2 DEF Joined
<1>4. k # 1 => g[k - 1] \in Seq(T)
    <2>1. k # 1 => k - 1 \in 1..n /\ ~(k <= k - 1)
        BY <1>2
    <2> QED BY <1>1, <2>1
<1>5. k # 1 => g[k - 1] \o s[k] \in Seq(T)
    BY <1>2, <1>4, ConcatProperties
<1> QED BY <1>2, <1>3, <1>5

\* What FlattenSeq returns, in terms of such a function.
LEMMA FlattenIs ==
    ASSUME NEW T, NEW s \in Seq(Seq(T)), Len(s) # 0
    PROVE  \E g : Joined(s, Len(s), g) /\ FlattenSeq(s) = g[Len(s)]
<1>1. Len(s) \in Nat
    BY LenProperties
<1> DEFINE f == CHOOSE g : Joined(s, Len(s), g)
<1>2. Joined(s, Len(s), f)
    BY <1>1, JoinedExists
<1>3. FlattenSeq(s) = f[Len(s)]
    BY DEF FlattenSeq, Joined
<1> HIDE DEF f
<1> QED BY <1>2, <1>3

LEMMA FlattenTyped ==
    ASSUME NEW T, NEW s \in Seq(Seq(T))
    PROVE  FlattenSeq(s) \in Seq(T)
<1>1. Len(s) \in Nat /\ \A i \in 1..Len(s) : s[i] \in Seq(T)
    BY LenProperties
<1>2. CASE Len(s) = 0
    <2>1. FlattenSeq(s) = s
        BY <1>2 DEF FlattenSeq
    <2>2. s = << >>
        BY <1>2, EmptySeq
    <2> QED BY <2>1, <2>2, EmptySeq
<1>3. CASE Len(s) # 0
    <2>1. PICK g : Joined(s, Len(s), g) /\ FlattenSeq(s) = g[Len(s)]
        BY <1>3, FlattenIs
    <2>2. Len(s) \in 1..Len(s)
        BY <1>1, <1>3
    <2> QED BY <1>1, <2>1, <2>2, JoinedTyped
<1> QED BY <1>2, <1>3

\* One sequence more adds its elements.
LEMMA FlattenStep ==
    ASSUME NEW T, NEW s \in Seq(Seq(T)), NEW t \in Seq(Seq(T)),
           Len(t) = Len(s) + 1, \A i \in 1..Len(s) : s[i] = t[i]
    PROVE  FlattenSeq(t) = FlattenSeq(s) \o t[Len(t)]
<1>1. Len(s) \in Nat /\ Len(t) \in Nat /\ Len(t) # 0 /\ Len(t) \in 1..Len(t)
    BY LenProperties
<1>2. t[Len(t)] \in Seq(T)
    BY <1>1, ElementOfSeq
<1>3. PICK h : Joined(t, Len(t), h) /\ FlattenSeq(t) = h[Len(t)]
    BY <1>1, FlattenIs
<1>4. h[Len(t)] = IF Len(t) = 1 THEN t[Len(t)] ELSE h[Len(t) - 1] \o t[Len(t)]
    BY <1>1, <1>3 DEF Joined
<1>5. CASE Len(s) = 0
    <2>1. s = << >> /\ FlattenSeq(s) = s
        BY <1>5, EmptySeq DEF FlattenSeq
    <2>2. Len(t) = 1
        BY <1>5
    <2> QED BY <1>2, <1>3, <1>4, <2>1, <2>2, ConcatEmptySeq
<1>6. CASE Len(s) # 0
    <2>1. PICK g : Joined(s, Len(s), g) /\ FlattenSeq(s) = g[Len(s)]
        BY <1>6, FlattenIs
    <2>2. \A i \in 1..Len(s) : g[i] = h[i]
        <3>1. Len(s) \in Nat /\ Len(t) \in Nat /\ Len(s) <= Len(t)
            BY <1>1
        <3>2. Agree(s, t, Len(s))
            BY DEF Agree
        <3>3. Agree(g, h, Len(s))
            BY <1>3, <2>1, <3>1, <3>2, JoinedUnique
        <3> QED BY <3>3 DEF Agree
    <2>3. Len(s) \in 1..Len(s) /\ Len(t) # 1 /\ Len(t) - 1 = Len(s)
        BY <1>1, <1>6
    <2> QED BY <1>3, <1>4, <2>1, <2>2, <2>3
<1> QED BY <1>5, <1>6

-----------------------------------------------------------------------------
(* The text of a mail.                                                     *)

LEMMA MailTyped ==
    ASSUME NEW m \in Mail
    PROVE  /\ m \in Seq(MailLines) /\ Len(m) \in Nat /\ DOMAIN m = 1..Len(m)
           /\ \A i \in 1..Len(m) : m[i] \in MailLines
<1>1. m \in Seq(MailLines)
    BY ScriptAssumption
<1> QED BY <1>1, LenProperties

\* A line is sent as lines of text.
LEMMA TextOfTyped ==
    ASSUME NEW line \in MailLines
    PROVE  TextOf(line) \in Seq(MailText)
<1>1. CASE line.kind = "attach"
    <2>1. line \in [kind : {"attach"}, files : Seq(STRING)]
        BY <1>1 DEF MailLines
    <2> DEFINE files == line.files
               part(i) == IF files[i] \in File
                            THEN <<"--sep", "Content-Type", "base64", "...">> ELSE << >>
    <2>2. files \in Seq(STRING)
        BY <2>1
    <2>3. Len(files) \in Nat /\ DOMAIN files = 1..Len(files)
        BY <2>2, LenProperties
    <2>4. \A i : part(i) \in Seq(MailText)
        <3>1. <<"--sep", "Content-Type", "base64", "...">> \in Seq(MailText)
            BY DEF MailText
        <3>2. << >> \in Seq(MailText)
            BY EmptySeq
        <3> QED BY <3>1, <3>2
    <2>5. TextOf(line) = FlattenSeq([i \in 1..Len(files) |-> part(i)])
        BY <1>1, <2>3 DEF TextOf, Attached
    <2> HIDE DEF files, part
    <2>6. [i \in 1..Len(files) |-> part(i)] \in Seq(Seq(MailText))
        BY <2>3, <2>4
    <2> QED BY <2>5, <2>6, FlattenTyped
<1>2. CASE line.kind = "text"
    <2>1. line.text \in PlainText
        BY <1>2 DEF MailLines
    <2>2. line.text \in MailText
        BY <2>1 DEF MailText
    <2>3. TextOf(line) = <<line.text>>
        BY <1>2 DEF TextOf
    <2> QED BY <2>2, <2>3
<1>3. CASE line.kind \notin {"attach", "text"}
    <2>1. TextOf(line) = << >>
        BY <1>3 DEF TextOf
    <2> QED BY <2>1, EmptySeq
<1> QED BY <1>1, <1>2, <1>3

\* The text before the first line is empty and each line adds what it is sent as.
LEMMA TextBeforeProps ==
    ASSUME NEW m \in Mail
    PROVE  /\ \A k \in 1..Len(m) + 1 : TextBefore(m, k) \in Seq(MailText)
           /\ Len(TextBefore(m, 1)) = 0
           /\ \A k \in 1..Len(m) : TextBefore(m, k + 1) = TextBefore(m, k) \o TextOf(m[k])
<1> DEFINE lines(k) == [i \in 1..k - 1 |-> TextOf(m[i])]
<1>1. Len(m) \in Nat
    BY MailTyped
<1>2. ASSUME NEW i \in 1..Len(m) PROVE TextOf(m[i]) \in Seq(MailText)
    BY MailTyped, TextOfTyped
<1>3. ASSUME NEW k \in 1..Len(m) + 1
      PROVE  /\ lines(k) \in Seq(Seq(MailText)) /\ Len(lines(k)) = k - 1
             /\ \A i \in 1..k - 1 : lines(k)[i] = TextOf(m[i])
    <2>1. k - 1 \in Nat /\ \A i \in 1..k - 1 : TextOf(m[i]) \in Seq(MailText)
        BY <1>1, <1>2
    <2> QED BY <2>1
<1>4. \A k : TextBefore(m, k) = FlattenSeq(lines(k))
    BY DEF TextBefore
<1> HIDE DEF lines
<1>5. ASSUME NEW k \in 1..Len(m) + 1 PROVE TextBefore(m, k) \in Seq(MailText)
    BY <1>3, <1>4, FlattenTyped
<1>6. Len(TextBefore(m, 1)) = 0
    <2>1. Len(lines(1)) = 0
        BY <1>1, <1>3
    <2>2. TextBefore(m, 1) = lines(1)
        BY <1>4, <2>1 DEF FlattenSeq
    <2> QED BY <2>1, <2>2
<1>7. ASSUME NEW k \in 1..Len(m)
      PROVE  TextBefore(m, k + 1) = TextBefore(m, k) \o TextOf(m[k])
    <2>1. /\ k \in 1..Len(m) + 1 /\ k + 1 \in 1..Len(m) + 1 /\ k \in Nat
          /\ (k + 1) - 1 = k /\ (k - 1) + 1 = k /\ k \in 1..k
        BY <1>1
    <2>2. lines(k) \in Seq(Seq(MailText)) /\ lines(k + 1) \in Seq(Seq(MailText))
        BY <1>3, <2>1
    <2>3. Len(lines(k)) = k - 1 /\ Len(lines(k + 1)) = k
        BY <1>3, <2>1
    <2>4. \A i \in 1..k - 1 : lines(k)[i] = lines(k + 1)[i]
        <3> SUFFICES ASSUME NEW i \in 1..k - 1 PROVE lines(k)[i] = lines(k + 1)[i]
            OBVIOUS
        <3>1. i \in 1..(k + 1) - 1
            BY <2>1
        <3> QED BY <1>3, <2>1, <3>1
    <2>5. lines(k + 1)[k] = TextOf(m[k])
        BY <1>3, <2>1
    <2>6. FlattenSeq(lines(k + 1)) = FlattenSeq(lines(k)) \o lines(k + 1)[k]
        BY <2>1, <2>2, <2>3, <2>4, FlattenStep
    <2> QED BY <1>4, <2>5, <2>6
<1> QED BY <1>5, <1>6, <1>7

\* The text before a line is a prefix of the text before a later line.
LEMMA TextGrows ==
    ASSUME NEW m \in Mail, NEW k \in 1..Len(m) + 1, NEW n \in k..Len(m) + 1
    PROVE  /\ Len(TextBefore(m, k)) <= Len(TextBefore(m, n))
           /\ \A i \in 1..Len(TextBefore(m, k)) : TextBefore(m, n)[i] = TextBefore(m, k)[i]
<1> DEFINE text(j) == TextBefore(m, j)
           P(j) == /\ Len(text(k)) <= Len(text(j))
                   /\ \A i \in 1..Len(text(k)) : text(j)[i] = text(k)[i]
           S == {j \in k..Len(m) + 1 : ~P(j)}
<1>1. Len(m) \in Nat /\ k \in Nat /\ n \in Nat
    BY MailTyped
<1>2. ASSUME NEW j \in 1..Len(m) + 1 PROVE text(j) \in Seq(MailText) /\ Len(text(j)) \in Nat
    BY TextBeforeProps, LenProperties
<1> SUFFICES ASSUME S # {} PROVE FALSE
    OBVIOUS
<1>3. PICK j \in S : \A i \in S : j <= i
    <2>1. S \subseteq Nat
        BY <1>1
    <2> HIDE DEF S
    <2> QED BY <2>1, LeastNumber
<1>4. j \in k..Len(m) + 1 /\ j \in Nat /\ ~P(j)
    BY <1>1
<1>5. j # k
    BY <1>2, <1>4
<1>6. /\ j - 1 \in k..Len(m) + 1 /\ j - 1 \in 1..Len(m) + 1 /\ j - 1 \in 1..Len(m)
      /\ (j - 1) + 1 = j /\ ~(j <= j - 1)
    BY <1>1, <1>4, <1>5
<1>7. P(j - 1)
    BY <1>3, <1>6
<1>8. text(j) = text(j - 1) \o TextOf(m[j - 1])
    BY <1>6, TextBeforeProps
<1>9. TextOf(m[j - 1]) \in Seq(MailText) /\ Len(TextOf(m[j - 1])) \in Nat
    BY <1>6, MailTyped, TextOfTyped, LenProperties
<1>10. text(j - 1) \in Seq(MailText) /\ Len(text(j - 1)) \in Nat /\ Len(text(k)) \in Nat
    BY <1>2, <1>6
<1> DEFINE a == text(j - 1)
           b == TextOf(m[j - 1])
           c == text(k)
<1>11. Len(c) <= Len(a) /\ \A i \in 1..Len(c) : a[i] = c[i]
    BY <1>7
<1>12. text(j) = a \o b /\ a \in Seq(MailText) /\ b \in Seq(MailText)
    BY <1>8, <1>9, <1>10
<1>13. Len(a) \in Nat /\ Len(b) \in Nat /\ Len(c) \in Nat
    BY <1>9, <1>10
<1>14. ~(Len(c) <= Len(text(j)) /\ \A i \in 1..Len(c) : text(j)[i] = c[i])
    BY <1>4
<1> HIDE DEF text, a, b, c
<1>15. /\ Len(text(j)) = Len(a) + Len(b)
       /\ \A i \in 1..Len(a) + Len(b) : text(j)[i] = IF i <= Len(a) THEN a[i] ELSE b[i - Len(a)]
    BY <1>12, ConcatProperties
<1> QED BY <1>11, <1>13, <1>14, <1>15, SMTT(30)

\* DotLine is the first dot, or the line after the last.
LEMMA DotLineProps ==
    ASSUME NEW m \in Mail
    PROVE  /\ DotLine(m) \in 1..Len(m) + 1
           /\ DotLine(m) <= Len(m) => m[DotLine(m)].kind = "dot"
           /\ \A i \in 1..DotLine(m) - 1 : m[i].kind # "dot"
<1> DEFINE S == {d \in 1..Len(m) + 1 : d <= Len(m) => m[d].kind = "dot"}
<1>1. Len(m) \in Nat
    BY MailTyped
<1>2. S \subseteq Nat /\ Len(m) + 1 \in S
    BY <1>1
<1>3. PICK d \in S : \A i \in S : d <= i
    <2> HIDE DEF S
    <2> QED BY <1>2, LeastNumber
<1>4. d \in 1..Len(m) + 1 /\ (d <= Len(m) => m[d].kind = "dot")
    OBVIOUS
<1>5. ASSUME NEW i \in 1..d - 1 PROVE m[i].kind # "dot"
    <2>1. i \in 1..Len(m) + 1 /\ ~(d <= i)
        BY <1>1, <1>4
    <2> QED BY <1>3, <2>1
<1> QED BY <1>4, <1>5 DEF DotLine

\* The text of the mail and its closing dot.
LEMMA MarkedProps ==
    ASSUME mail \in Mail
    PROVE  /\ ExpectedText \in Seq(MailText) /\ Len(ExpectedText) \in Nat
           /\ Marked \in Seq(MailText \cup {"."}) /\ Len(Marked) = Len(ExpectedText) + 1
           /\ \A i \in 1..Len(ExpectedText) : /\ Marked[i] = ExpectedText[i]
                                              /\ Marked[i] \in MailText /\ Marked[i] # "."
           /\ Marked[Len(ExpectedText) + 1] = "."
<1>1. ExpectedText \in Seq(MailText)
    BY DotLineProps, TextBeforeProps DEF ExpectedText
<1>2. ExpectedText \in Seq(MailText \cup {"."}) /\ "." \in MailText \cup {"."}
    BY <1>1, SeqMonotonic
<1>3. /\ Len(ExpectedText) \in Nat
      /\ \A i \in 1..Len(ExpectedText) : ExpectedText[i] \in MailText
    BY <1>1, LenProperties
<1>4. /\ Marked \in Seq(MailText \cup {"."}) /\ Len(Marked) = Len(ExpectedText) + 1
      /\ \A i \in 1..Len(ExpectedText) : Marked[i] = ExpectedText[i]
      /\ Marked[Len(ExpectedText) + 1] = "."
    BY <1>2, AppendProperties DEF Marked
<1>5. "." \notin MailText
    BY DEF MailText, PlainText, Verb
<1> QED BY <1>1, <1>3, <1>4, <1>5

-----------------------------------------------------------------------------
(* The lines under way: what adding lines and taking the first one does to *)
(* the parts of the invariant.                                             *)

LEMMA LineKinds ==
    ASSUME NEW l \in SentLine
    PROVE  /\ l.from \in {"input", "mail"} /\ l.no \in Nat /\ l.text \in MailText \cup {"."}
           /\ l.from = "mail" => (Opens(l) <=> l.text # ".")
           /\ l.from = "input" => /\ l.text \in Verb /\ l.text # "."
                                  /\ Opens(l) <=> l.text = "DATA"
           /\ l.text = "DATA" => Opens(l)
           /\ l.text = "." => ~Opens(l)
<1>1. Verb \subseteq MailText
    BY DEF MailText, PlainText
<1>2. "." \notin Verb
    BY DEF Verb
<1>3. CASE l \in [text : Verb, from : {"input"}, no : Nat]
    BY <1>1, <1>2, <1>3 DEF Opens
<1>4. CASE l \in [text : MailText \cup {"."}, from : {"mail"}, no : Nat]
    BY <1>1, <1>4 DEF Opens
<1> QED BY <1>3, <1>4 DEF SentLine

LEMMA ConcatAt ==
    ASSUME NEW T, NEW t \in Seq(T), NEW x \in Seq(T)
    PROVE  /\ t \o x \in Seq(T) /\ Len(t) \in Nat /\ Len(x) \in Nat
           /\ Len(t \o x) = Len(t) + Len(x)
           /\ \A i \in 1..Len(t) : (t \o x)[i] = t[i]
           /\ \A i \in Len(t) + 1..Len(t) + Len(x) : i - Len(t) \in 1..Len(x) /\ (t \o x)[i] = x[i - Len(t)]
<1>1. /\ t \o x \in Seq(T) /\ Len(t \o x) = Len(t) + Len(x)
      /\ \A i \in 1..Len(t) + Len(x) : (t \o x)[i] = IF i <= Len(t) THEN t[i] ELSE x[i - Len(t)]
    BY ConcatProperties
<1>2. Len(t) \in Nat /\ Len(x) \in Nat
    BY LenProperties
<1> QED BY <1>1, <1>2

LEMMA TailAt ==
    ASSUME NEW T, NEW t \in Seq(T), t # << >>
    PROVE  /\ Tail(t) \in Seq(T) /\ Len(t) \in Nat \ {0} /\ Len(Tail(t)) = Len(t) - 1
           /\ Head(t) = t[1] /\ Head(t) \in T
           /\ \A i \in 1..Len(t) - 1 : i + 1 \in 1..Len(t) /\ Tail(t)[i] = t[i + 1]
<1>1. /\ Tail(t) \in Seq(T) /\ Len(Tail(t)) = Len(t) - 1 /\ Head(t) \in T
      /\ \A i \in 1..Len(Tail(t)) : Tail(t)[i] = t[i + 1]
    BY HeadTailProperties
<1>2. Len(t) \in Nat \ {0} /\ Head(t) = t[1]
    BY EmptySeq
<1> QED BY <1>1, <1>2

LEMMA ChainConcat ==
    ASSUME NEW t \in Seq(SentLine), NEW x \in Seq(SentLine), NEW dot \in BOOLEAN,
           Chain(t, dot), Chain(x, dot),
           Len(t) # 0 /\ Len(x) # 0 => Follows(t[Len(t)], x[1], dot)
    PROVE  Chain(t \o x, dot)
<1> DEFINE u == t \o x
<1>1. /\ Len(t) \in Nat /\ Len(x) \in Nat /\ Len(u) = Len(t) + Len(x)
      /\ \A i \in 1..Len(t) : u[i] = t[i]
      /\ \A i \in Len(t) + 1..Len(t) + Len(x) : i - Len(t) \in 1..Len(x) /\ u[i] = x[i - Len(t)]
    BY ConcatAt
<1> SUFFICES \A i \in 1..Len(u) - 1 : Follows(u[i], u[i + 1], dot)
    BY DEF Chain
<1> HIDE DEF u
<1> SUFFICES ASSUME NEW i \in 1..Len(u) - 1 PROVE Follows(u[i], u[i + 1], dot)
    OBVIOUS
<1>2. i \in Nat /\ i <= Len(t) + Len(x) - 1
    BY <1>1
<1>3. CASE i < Len(t)
    <2>1. i \in 1..Len(t) /\ i + 1 \in 1..Len(t) /\ i \in 1..Len(t) - 1
        BY <1>1, <1>2, <1>3
    <2>2. Follows(t[i], t[i + 1], dot)
        BY <2>1 DEF Chain
    <2>3. u[i] = t[i] /\ u[i + 1] = t[i + 1]
        BY <1>1, <2>1
    <2> QED BY <2>2, <2>3
<1>4. CASE i = Len(t)
    <2>1. /\ i \in 1..Len(t) /\ i + 1 \in Len(t) + 1..Len(t) + Len(x)
          /\ (i + 1) - Len(t) = 1 /\ Len(t) # 0 /\ Len(x) # 0
        BY <1>1, <1>2, <1>4
    <2>2. u[i] = t[Len(t)] /\ u[i + 1] = x[1]
        BY <1>1, <1>4, <2>1
    <2> QED BY <2>1, <2>2
<1>5. CASE i > Len(t)
    <2>1. /\ i \in Len(t) + 1..Len(t) + Len(x) /\ i + 1 \in Len(t) + 1..Len(t) + Len(x)
          /\ i - Len(t) \in 1..Len(x) - 1 /\ (i + 1) - Len(t) = (i - Len(t)) + 1
        BY <1>1, <1>2, <1>5
    <2>2. Follows(x[i - Len(t)], x[(i - Len(t)) + 1], dot)
        BY <2>1 DEF Chain
    <2>3. u[i] = x[i - Len(t)] /\ u[i + 1] = x[(i - Len(t)) + 1]
        BY <1>1, <2>1
    <2> QED BY <2>2, <2>3
<1> QED BY <1>1, <1>2, <1>3, <1>4, <1>5

LEMMA ChainTail ==
    ASSUME NEW t \in Seq(SentLine), t # << >>, NEW dot \in BOOLEAN, Chain(t, dot)
    PROVE  /\ Chain(Tail(t), dot)
           /\ Len(Tail(t)) # 0 => /\ Follows(t[1], Tail(t)[1], dot)
                                  /\ Tail(t)[Len(Tail(t))] = t[Len(t)]
           /\ Len(Tail(t)) = 0 => t[Len(t)] = t[1]
<1> DEFINE u == Tail(t)
<1>1. /\ Len(t) \in Nat \ {0} /\ Len(u) = Len(t) - 1
      /\ \A i \in 1..Len(t) - 1 : i + 1 \in 1..Len(t) /\ u[i] = t[i + 1]
    BY TailAt
<1> HIDE DEF u
<1>2. ASSUME NEW i \in 1..Len(u) - 1 PROVE Follows(u[i], u[i + 1], dot)
    <2>1. /\ i \in 1..Len(t) - 1 /\ i + 1 \in 1..Len(t) - 1 /\ u[i] = t[i + 1]
        BY <1>1
    <2>2. u[i + 1] = t[(i + 1) + 1]
        BY <1>1, <2>1
    <2> QED BY <2>1, <2>2 DEF Chain
<1>3. ASSUME Len(u) # 0
      PROVE  Follows(t[1], u[1], dot) /\ u[Len(u)] = t[Len(t)]
    <2>1. 1 \in 1..Len(t) - 1 /\ Len(u) \in 1..Len(t) - 1 /\ Len(u) + 1 = Len(t)
        BY <1>1, <1>3
    <2>2. u[1] = t[1 + 1] /\ u[Len(u)] = t[Len(t)]
        BY <1>1, <2>1
    <2> QED BY <2>1, <2>2 DEF Chain
<1>4. Len(u) = 0 => Len(t) = 1
    BY <1>1
<1> QED BY <1>2, <1>3, <1>4 DEF Chain, u

LEMMA Shift ==
    ASSUME NEW p \in Int, NEW q \in Int, NEW i \in Int, NEW j \in Int, q - j = p
    PROVE  p + (i - q) = i - j /\ (q + i) - j = p + i
OBVIOUS

\* Lines of the mail, the text from where the client is, are added.
LEMMA MailAdded ==
    ASSUME NEW t \in Seq(SentLine), NEW x \in Seq(SentLine), NEW text \in Seq(MailText \cup {"."}), NEW a \in Nat,
           \A i \in 1..Len(x) : /\ x[i].from = "mail"
                                /\ a + i <= Len(text) /\ x[i].text = text[a + i]
    PROVE  /\ MailFollows(t, text) /\ Begun(t, a) =>
                MailFollows(t \o x, text) /\ Begun(t \o x, a + Len(x))
           /\ \A n \in Nat : Continues(t, n, text) /\ (Run(t, 0, Len(t)) => n + Len(t) = a) =>
                /\ Continues(t \o x, n, text)
                /\ Run(t \o x, 0, Len(t \o x)) => n + Len(t \o x) = a + Len(x)
<1> DEFINE u == t \o x
<1>1. /\ u \in Seq(SentLine) /\ Len(t) \in Nat /\ Len(x) \in Nat /\ Len(u) = Len(t) + Len(x)
      /\ \A i \in 1..Len(t) : u[i] = t[i]
      /\ \A i \in Len(t) + 1..Len(t) + Len(x) : i - Len(t) \in 1..Len(x) /\ u[i] = x[i - Len(t)]
    BY ConcatAt
<1> SUFFICES /\ MailFollows(t, text) /\ Begun(t, a) =>
                MailFollows(u, text) /\ Begun(u, a + Len(x))
             /\ \A n \in Nat : Continues(t, n, text) /\ (Run(t, 0, Len(t)) => n + Len(t) = a) =>
                /\ Continues(u, n, text)
                /\ Run(u, 0, Len(u)) => n + Len(u) = a + Len(x)
    OBVIOUS
<1> HIDE DEF u
<1>6. Len(t) \in Nat /\ Len(x) \in Nat /\ Len(u) \in Nat /\ Len(u) = Len(t) + Len(x)
    BY <1>1
\* Line i of the new ones is line a + i - Len(t) of the text and no DATA.
<1>2. ASSUME NEW i \in Len(t) + 1..Len(u)
      PROVE  /\ u[i].from = "mail" /\ ~Begins(u, i)
             /\ a + (i - Len(t)) <= Len(text) /\ u[i].text = text[a + (i - Len(t))]
    <2>1. i \in Len(t) + 1..Len(t) + Len(x) /\ i \in 1..Len(u)
        BY <1>1
    <2>2. i - Len(t) \in 1..Len(x) /\ u[i] = x[i - Len(t)] /\ u[i] \in SentLine
        BY <1>1, <2>1, ElementOfSeq
    <2>3. u[i].from = "mail" /\ a + (i - Len(t)) <= Len(text) /\ u[i].text = text[a + (i - Len(t))]
        BY <2>2
    <2> QED BY <2>2, <2>3, LineKinds DEF Begins
\* A run that reaches the new lines includes all the old ones behind its start.
<1>3. ASSUME NEW i \in 1..Len(u), NEW j \in 0..Len(t), Run(u, j, i)
      PROVE  /\ i <= Len(t) => Run(t, j, i)
             /\ i > Len(t) => Run(t, j, Len(t))
    <2>1. i <= Len(t) => \A k \in j + 1..i : k \in 1..Len(t) /\ u[k] = t[k]
        BY <1>1
    <2>2. i > Len(t) => \A k \in j + 1..Len(t) : k \in j + 1..i /\ u[k] = t[k]
        BY <1>1
    <2> QED BY <1>3, <2>1, <2>2 DEF Run
<1>4. ASSUME MailFollows(t, text), Begun(t, a)
      PROVE  MailFollows(u, text) /\ Begun(u, a + Len(x))
    <2>1. ASSUME NEW j \in 1..Len(u), Begins(u, j)
          PROVE  j \in 1..Len(t) /\ j \in 0..Len(t) /\ Begins(t, j)
        <3>1. j \in 1..Len(t)
            BY <1>1, <1>2, <2>1
        <3>2. u[j] = t[j]
            BY <1>1, <3>1
        <3> QED BY <1>1, <2>1, <3>1, <3>2 DEF Begins
    <2>2. ASSUME NEW i \in 1..Len(u), NEW j \in 1..i - 1, Begins(u, j), Run(u, j, i)
          PROVE  i - j <= Len(text) /\ u[i].text = text[i - j]
        <3>1. j \in 1..Len(u) /\ i \in Nat /\ j \in Nat
            BY <1>1
        <3>2. j \in 1..Len(t) /\ j \in 0..Len(t) /\ Begins(t, j)
            BY <2>1, <2>2, <3>1
        <3>3. CASE i <= Len(t)
            <4>1. i \in 1..Len(t) /\ u[i] = t[i] /\ Run(t, j, i)
                BY <1>1, <1>3, <2>2, <3>2, <3>3
            <4> QED BY <1>4, <3>2, <4>1 DEF MailFollows
        <3>4. CASE i > Len(t)
            <4>1. Run(t, j, Len(t))
                BY <1>3, <2>2, <3>2, <3>4
            <4>2. Len(t) - j = a
                BY <1>4, <3>2, <4>1 DEF Begun
            <4>3. i \in Len(t) + 1..Len(u) /\ a + (i - Len(t)) = i - j
                <5>1. Len(t) \in Int /\ a \in Int /\ i \in Int /\ j \in Int
                    BY <1>6, <3>1
                <5>2. a + (i - Len(t)) = i - j
                    <6> DEFINE q == Len(t)
                    <6>1. q \in Int /\ q - j = a
                        BY <4>2, <5>1
                    <6> HIDE DEF q
                    <6>2. a + (i - q) = i - j
                        BY <5>1, <6>1, Shift
                    <6> QED BY <6>2 DEF q
                <5>3. i \in Len(t) + 1..Len(u)
                    BY <1>6, <3>4
                <5> QED BY <5>2, <5>3
            <4> QED BY <1>2, <4>3
        <3> QED BY <1>1, <3>1, <3>3, <3>4
    <2>3. ASSUME NEW j \in 1..Len(u), Begins(u, j), Run(u, j, Len(u))
          PROVE  Len(u) - j = a + Len(x)
        <3>1. j \in 1..Len(t) /\ j \in 0..Len(t) /\ Begins(t, j) /\ Len(u) \in 1..Len(u)
            BY <1>1, <2>1, <2>3
        <3>2. Run(t, j, Len(t))
            <4>1. Len(u) = Len(t) \/ Len(u) > Len(t)
                BY <1>1
            <4>2. (Len(u) <= Len(t) => Run(t, j, Len(u))) /\ (Len(u) > Len(t) => Run(t, j, Len(t)))
                BY <1>3, <2>3, <3>1
            <4>3. Len(u) = Len(t) => Len(u) <= Len(t)
                BY <1>1
            <4> QED BY <4>1, <4>2, <4>3
        <3>3. Len(t) - j = a
            BY <1>4, <3>1, <3>2 DEF Begun
        <3>4. Len(t) \in Int /\ Len(x) \in Int /\ a \in Int /\ j \in Int
            BY <1>6
        <3>5. (Len(t) + Len(x)) - j = a + Len(x)
            <4> DEFINE q == Len(t)
                       r == Len(x)
            <4>1. q \in Int /\ r \in Int /\ q - j = a
                BY <3>3, <3>4
            <4> HIDE DEF q, r
            <4>2. (q + r) - j = a + r
                BY <3>4, <4>1, Shift
            <4> QED BY <4>2 DEF q, r
        <3> QED BY <1>6, <3>5
    <2> QED BY <2>2, <2>3 DEF MailFollows, Begun
<1>5. ASSUME NEW n \in Nat, Continues(t, n, text), Run(t, 0, Len(t)) => n + Len(t) = a
      PROVE  /\ Continues(u, n, text)
             /\ Run(u, 0, Len(u)) => n + Len(u) = a + Len(x)
    <2>1. ASSUME NEW i \in 1..Len(u), Run(u, 0, i)
          PROVE  n + i <= Len(text) /\ u[i].text = text[n + i]
        <3>1. i \in Nat /\ 0 \in 0..Len(t)
            BY <1>1
        <3>2. CASE i <= Len(t)
            <4>1. i \in 1..Len(t) /\ u[i] = t[i] /\ Run(t, 0, i)
                BY <1>1, <1>3, <2>1, <3>1, <3>2
            <4> QED BY <1>5, <4>1 DEF Continues
        <3>3. CASE i > Len(t)
            <4>1. Run(t, 0, Len(t))
                BY <1>3, <2>1, <3>1, <3>3
            <4>2. i \in Len(t) + 1..Len(u) /\ a + (i - Len(t)) = n + i
                BY <1>5, <1>6, <3>1, <3>3, <4>1
            <4> QED BY <1>2, <4>2
        <3> QED BY <1>1, <3>1, <3>2, <3>3
    <2>2. ASSUME Run(u, 0, Len(u)) PROVE Run(t, 0, Len(t))
        <3>1. \A k \in 0 + 1..Len(t) : k \in 0 + 1..Len(u) /\ u[k] = t[k]
            BY <1>1
        <3> QED BY <2>2, <3>1 DEF Run
    <2>3. Run(u, 0, Len(u)) => n + Len(u) = a + Len(x)
        BY <1>5, <1>6, <2>2
    <2> QED BY <2>1, <2>3 DEF Continues
<1> QED BY <1>4, <1>5

\* A command is added: no mail reaches over it, and after DATA nothing is sent.
LEMMA CommandAdded ==
    ASSUME NEW t \in Seq(SentLine), NEW c \in SentLine, c.from = "input",
           NEW text \in Seq(MailText \cup {"."})
    PROVE  LET u == Append(t, c) IN
           /\ MailFollows(t, text) => MailFollows(u, text)
           /\ Begun(u, 0)
           /\ \A n \in Nat : Continues(t, n, text) => Continues(u, n, text)
           /\ ~Run(u, 0, Len(u))
<1> DEFINE u == Append(t, c)
<1>1. Len(t) \in Nat /\ Len(u) = Len(t) + 1 /\ Len(u) \in Nat
    BY LenProperties, AppendProperties
<1>2. u[Len(u)] = c /\ \A i \in 1..Len(t) : u[i] = t[i]
    BY <1>1, AppendProperties
<1> HIDE DEF u
\* A run ends before the command.
<1>3. ASSUME NEW i \in 1..Len(u), NEW j \in 0..i - 1, Run(u, j, i)
      PROVE  i \in 1..Len(t) /\ u[i] = t[i] /\ Run(t, j, i)
    <2>1. i \in j + 1..i
        BY <1>1
    <2>2. u[i].from = "mail"
        BY <1>3, <2>1 DEF Run
    <2>3. i # Len(u)
        BY <1>2, <2>2
    <2>4. i \in 1..Len(t)
        BY <1>1, <2>3
    <2>5. \A k \in j + 1..i : k \in 1..Len(t) /\ u[k] = t[k]
        BY <1>1, <1>2, <2>4
    <2> QED BY <1>2, <1>3, <2>4, <2>5 DEF Run
<1>4. ASSUME MailFollows(t, text) PROVE MailFollows(u, text)
    <2> SUFFICES ASSUME NEW i \in 1..Len(u), NEW j \in 1..i - 1, Begins(u, j), Run(u, j, i)
                 PROVE  i - j <= Len(text) /\ u[i].text = text[i - j]
        BY DEF MailFollows
    <2>1. j \in 0..i - 1
        BY <1>1
    <2>2. i \in 1..Len(t) /\ u[i] = t[i] /\ Run(t, j, i)
        BY <1>3, <2>1
    <2>3. j \in 1..Len(t)
        BY <1>1, <2>2
    <2>4. Begins(t, j)
        BY <1>2, <2>3 DEF Begins
    <2> QED BY <1>4, <2>2, <2>4 DEF MailFollows
<1>5. Begun(u, 0)
    <2> SUFFICES ASSUME NEW j \in 1..Len(u), Run(u, j, Len(u)) PROVE Len(u) - j = 0
        BY DEF Begun
    <2>1. CASE j = Len(u)
        BY <1>1, <2>1
    <2>2. CASE j # Len(u)
        <3>1. Len(u) \in 1..Len(u) /\ j \in 0..Len(u) - 1
            BY <1>1, <2>2
        <3>2. Len(u) \in 1..Len(t)
            BY <1>3, <3>1
        <3> QED BY <1>1, <3>2
    <2> QED BY <2>1, <2>2
<1>6. ASSUME NEW n \in Nat, Continues(t, n, text) PROVE Continues(u, n, text)
    <2> SUFFICES ASSUME NEW i \in 1..Len(u), Run(u, 0, i)
                 PROVE  n + i <= Len(text) /\ u[i].text = text[n + i]
        BY DEF Continues
    <2>1. 0 \in 0..i - 1
        BY <1>1
    <2>2. i \in 1..Len(t) /\ u[i] = t[i] /\ Run(t, 0, i)
        BY <1>3, <2>1
    <2> QED BY <1>6, <2>2 DEF Continues
<1>7. ~Run(u, 0, Len(u))
    <2>1. Len(u) \in 1..Len(u) /\ 0 \in 0..Len(u) - 1 /\ Len(u) \notin 1..Len(t)
        BY <1>1
    <2> QED BY <1>3, <2>1
<1> QED BY <1>4, <1>5, <1>6, <1>7 DEF u

\* The server takes the first line.
LEMMA FirstTaken ==
    ASSUME NEW t \in Seq(SentLine), t # << >>, NEW text \in Seq(MailText \cup {"."})
    PROVE  LET u == Tail(t) IN
           /\ MailFollows(t, text) => MailFollows(u, text)
           /\ \A s \in Nat : Begun(t, s) => Begun(u, s)
           /\ t[1].from = "mail" =>
                /\ \A n \in Nat : Continues(t, n, text) =>
                     /\ Continues(u, n + 1, text)
                     /\ n + 1 <= Len(text) /\ t[1].text = text[n + 1]
                /\ Run(u, 0, Len(u)) => Run(t, 0, Len(t))
           /\ Begins(t, 1) =>
                /\ MailFollows(t, text) => Continues(u, 0, text)
                /\ \A s \in Nat : Begun(t, s) /\ Run(u, 0, Len(u)) => Len(u) = s
<1> DEFINE u == Tail(t)
<1>1. Len(t) \in Nat /\ Len(t) # 0 /\ Len(u) = Len(t) - 1 /\ Len(u) \in Nat
    BY TailAt
<1>2. ASSUME NEW i \in 1..Len(u)
      PROVE  i + 1 \in 1..Len(t) /\ i \in Nat /\ u[i] = t[i + 1]
    BY <1>1, TailAt
<1> HIDE DEF u
<1>3. ASSUME NEW j \in Nat, NEW i \in 1..Len(u), Run(u, j, i)
      PROVE  Run(t, j + 1, i + 1)
    <2> SUFFICES ASSUME NEW k \in (j + 1) + 1..i + 1 PROVE t[k].from = "mail"
        BY DEF Run
    <2>1. k - 1 \in j + 1..i /\ k - 1 \in 1..Len(u) /\ (k - 1) + 1 = k
        BY <1>1, <1>2
    <2>2. u[k - 1] = t[k]
        BY <1>2, <2>1
    <2> QED BY <1>3, <2>1, <2>2 DEF Run
<1>4. ASSUME NEW j \in 1..Len(u), Begins(u, j) PROVE Begins(t, j + 1)
    BY <1>2, <1>4 DEF Begins
<1>5. ASSUME MailFollows(t, text) PROVE MailFollows(u, text)
    <2> SUFFICES ASSUME NEW i \in 1..Len(u), NEW j \in 1..i - 1, Begins(u, j), Run(u, j, i)
                 PROVE  i - j <= Len(text) /\ u[i].text = text[i - j]
        BY DEF MailFollows
    <2>1. j \in Nat /\ i \in Nat /\ j \in 1..Len(u)
        BY <1>1
    <2>2. /\ i + 1 \in 1..Len(t) /\ j + 1 \in 1..(i + 1) - 1
          /\ (i + 1) - (j + 1) = i - j /\ u[i] = t[i + 1]
        BY <1>2, <2>1
    <2>3. Begins(t, j + 1) /\ Run(t, j + 1, i + 1)
        BY <1>3, <1>4, <2>1
    <2>4. (i + 1) - (j + 1) <= Len(text) /\ t[i + 1].text = text[(i + 1) - (j + 1)]
        BY <1>5, <2>2, <2>3 DEF MailFollows
    <2> QED BY <2>2, <2>4
<1>6. ASSUME NEW s \in Nat, Begun(t, s) PROVE Begun(u, s)
    <2> SUFFICES ASSUME NEW j \in 1..Len(u), Begins(u, j), Run(u, j, Len(u))
                 PROVE  Len(u) - j = s
        BY DEF Begun
    <2>1. j \in Nat /\ Len(u) \in 1..Len(u) /\ Len(u) + 1 = Len(t) /\ j + 1 \in 1..Len(t)
        BY <1>1, <1>2
    <2>2. Begins(t, j + 1) /\ Run(t, j + 1, Len(t))
        BY <1>3, <1>4, <2>1
    <2>3. Len(t) - (j + 1) = s
        BY <1>6, <2>1, <2>2 DEF Begun
    <2> QED BY <1>1, <2>1, <2>3
<1>7. ASSUME t[1].from = "mail", NEW i \in 1..Len(u), Run(u, 0, i) PROVE Run(t, 0, i + 1)
    <2>1. Run(t, 0 + 1, i + 1)
        BY <1>3, <1>7
    <2>2. \A k \in 0 + 1..i + 1 : k = 1 \/ k \in (0 + 1) + 1..i + 1
        BY <1>2
    <2> QED BY <1>7, <2>1, <2>2 DEF Run
<1>8. ASSUME t[1].from = "mail", NEW n \in Nat, Continues(t, n, text)
      PROVE  /\ Continues(u, n + 1, text)
             /\ n + 1 <= Len(text) /\ t[1].text = text[n + 1]
    <2>1. ASSUME NEW i \in 1..Len(u), Run(u, 0, i)
          PROVE  (n + 1) + i <= Len(text) /\ u[i].text = text[(n + 1) + i]
        <3>1. i + 1 \in 1..Len(t) /\ u[i] = t[i + 1] /\ n + (i + 1) = (n + 1) + i
            BY <1>2
        <3>2. Run(t, 0, i + 1)
            BY <1>7, <1>8, <2>1
        <3> QED BY <1>8, <3>1, <3>2 DEF Continues
    <2>2. 1 \in 1..Len(t)
        BY <1>1
    <2>3. Run(t, 0, 1)
        BY <1>8 DEF Run
    <2> QED BY <1>8, <2>1, <2>2, <2>3 DEF Continues
<1>9. ASSUME t[1].from = "mail", Run(u, 0, Len(u)) PROVE Run(t, 0, Len(t))
    <2>1. CASE Len(u) = 0
        <3>1. Len(t) = 1
            BY <1>1, <2>1
        <3> QED BY <1>9, <3>1 DEF Run
    <2>2. CASE Len(u) # 0
        <3>1. Len(u) \in 1..Len(u) /\ Len(u) + 1 = Len(t)
            BY <1>1, <2>2
        <3> QED BY <1>7, <1>9, <3>1
    <2> QED BY <2>1, <2>2
<1>10. ASSUME Begins(t, 1), MailFollows(t, text) PROVE Continues(u, 0, text)
    <2> SUFFICES ASSUME NEW i \in 1..Len(u), Run(u, 0, i)
                 PROVE  0 + i <= Len(text) /\ u[i].text = text[0 + i]
        BY DEF Continues
    <2>1. /\ i + 1 \in 1..Len(t) /\ u[i] = t[i + 1] /\ 1 \in 1..(i + 1) - 1
          /\ (i + 1) - 1 = i /\ 0 + i = i
        BY <1>2
    <2>2. Run(t, 1, i + 1)
        BY <1>3
    <2>3. (i + 1) - 1 <= Len(text) /\ t[i + 1].text = text[(i + 1) - 1]
        BY <1>10, <2>1, <2>2 DEF MailFollows
    <2> QED BY <2>1, <2>3
<1>11. ASSUME Begins(t, 1), NEW s \in Nat, Begun(t, s), Run(u, 0, Len(u)) PROVE Len(u) = s
    <2>1. Run(t, 1, Len(t))
        <3>1. CASE Len(u) = 0
            <4>1. Len(t) = 1
                BY <1>1, <3>1
            <4> QED BY <4>1 DEF Run
        <3>2. CASE Len(u) # 0
            <4>1. Len(u) \in 1..Len(u) /\ Len(u) + 1 = Len(t)
                BY <1>1, <3>2
            <4> QED BY <1>3, <1>11, <4>1
        <3> QED BY <3>1, <3>2
    <2>2. Len(t) - 1 = s
        <3>1. 1 \in 1..Len(t)
            BY <1>1
        <3> QED BY <1>11, <2>1, <3>1 DEF Begun
    <2> QED BY <1>1, <2>2
<1> QED BY <1>5, <1>6, <1>8, <1>9, <1>10, <1>11 DEF u

-----------------------------------------------------------------------------
(* Facts that several actions need.                                        *)

\* No reply of s is a refusal.
Clean(s) == \A i \in 1..Len(s) : s[i].code \notin {"503", "550"}

LEMMA RepliesClean ==
    ASSUME NEW s \in Seq(ReplyLine)
    PROVE  (\A x \in ToSet(s) : x.code \notin {"503", "550"}) <=> Clean(s)
<1>1. DOMAIN s = 1..Len(s)
    BY LenProperties
<1> QED BY <1>1 DEF ToSet, Clean

LEMMA NoRefusalIs ==
    /\ Printed => (NoRefusal <=> Clean(printed) /\ Clean(toClient))
    /\ Printed' => (NoRefusal' <=> Clean(printed') /\ Clean(toClient'))
BY RepliesClean DEF Printed, NoRefusal, Replies

LEMMA SameMail ==
    ASSUME mail' = mail
    PROVE  HasDot' = HasDot /\ ExpectedText' = ExpectedText /\ Marked' = Marked
BY DEF HasDot, ExpectedText, Marked

\* What opened a mail and what the server has of it stay so.
LEMMA HoldsKept ==
    ASSUME mail' = mail, NoRefusal' => NoRefusal
    PROVE  /\ \A j : Opened(j) => Opened(j)'
           /\ \A b, j, n : Holds(b, j, n) => Holds(b, j, n)'
<1>1. ExpectedText' = ExpectedText
    BY SameMail
<1> QED BY <1>1 DEF Opened, Holds

LEMMA SameBox ==
    ASSUME mail' = mail, mailbox' = mailbox, NoRefusal' => NoRefusal, MailFiled
    PROVE  MailFiled'
<1>1. ExpectedText' = ExpectedText
    BY SameMail
<1> SUFFICES ASSUME NEW m \in DOMAIN mailbox
             PROVE  \E j \in 0..Len(ExpectedText) :
                      Opened(j)' /\ Holds(mailbox[m], j, Len(ExpectedText))'
    BY <1>1 DEF MailFiled, Holds
<1>2. PICK j \in 0..Len(ExpectedText) : Opened(j) /\ Holds(mailbox[m], j, Len(ExpectedText))
    BY DEF MailFiled
<1>3. Opened(j)'
    BY <1>2, HoldsKept
<1>4. Holds(mailbox[m], j, Len(ExpectedText))'
    BY <1>1, <1>2 DEF Holds
<1> QED BY <1>3, <1>4

\* What is known of the files and readers.
LEMMA Files ==
    ASSUME MailInv
    PROVE  /\ input \in Seq(Verb) /\ Len(input) \in Nat /\ br \in Nat /\ 1 <= br /\ br <= Len(input) + 1
           /\ br <= Len(input) => input[br] \in Verb
           /\ mail \in Mail /\ Len(mail) \in Nat
           /\ br2 \in [line : Nat, open : BOOLEAN] /\ br2.line \in 1..Len(mail) + 1
           /\ asked \in Nat
<1>1. input \in Seq(Verb) /\ mail \in Mail
    BY ScriptAssumption DEF MailInv, Reading, Verb
<1>2. Len(input) \in Nat /\ Len(mail) \in Nat
    BY <1>1, LenProperties, MailTyped
<1>3. /\ br \in 1..Len(input) + 1 /\ br2 \in [line : 1..Len(mail) + 1, open : BOOLEAN]
      /\ asked \in Nat
    BY DEF MailInv, TypeOK
<1>4. br <= Len(input) => input[br] \in Verb
    <2>1. br <= Len(input) => br \in 1..Len(input)
        BY <1>2, <1>3
    <2> QED BY <1>1, <2>1, ElementOfSeq
<1> QED BY <1>1, <1>2, <1>3, <1>4

\* in.readLine takes one reply line and shows no other.
LEMMA Reads ==
    ASSUME MailInv, ReadLine, asked' = asked
    PROVE  /\ printed' \in Seq(ReplyLine) /\ toClient' \in Seq(ReplyLine)
           /\ Len(printed) \in Nat /\ Len(printed') = Len(printed) + 1
           /\ Clean(printed') /\ Clean(toClient') => Clean(printed) /\ Clean(toClient)
<1>1. printed \in Seq(ReplyLine) /\ toClient \in Seq(ReplyLine) /\ asked \in Nat
    BY DEF MailInv, Printed, TypeOK
<1>2. PICK r \in ReplyLine : /\ printed' = Append(printed, r)
                             /\ \/ toClient' = toClient
                                \/ toClient # << >> /\ r = Head(toClient) /\ toClient' = Tail(toClient)
    <2>1. CASE toClient # << >>
        <3>1. Head(toClient) \in ReplyLine
            BY <1>1, <2>1, TailAt
        <3> QED BY <2>1, <3>1 DEF ReadLine
    <2>2. CASE toClient = << >>
        <3>1. [code |-> "null", to |-> asked] \in ReplyLine
            BY <1>1 DEF ReplyLine
        <3> QED BY <2>2, <3>1 DEF ReadLine
    <2> QED BY <2>1, <2>2
<1>3. /\ printed' \in Seq(ReplyLine) /\ Len(printed) \in Nat /\ Len(printed') = Len(printed) + 1
      /\ printed'[Len(printed) + 1] = r /\ \A i \in 1..Len(printed) : printed'[i] = printed[i]
    BY <1>1, <1>2, AppendProperties, LenProperties
<1>4. toClient' \in Seq(ReplyLine)
    BY <1>1, <1>2, TailAt
<1>5. ASSUME Clean(printed'), Clean(toClient') PROVE Clean(printed) /\ Clean(toClient)
    <2>1. \A i \in 1..Len(printed) : i \in 1..Len(printed')
        BY <1>3
    <2>2. Clean(printed)
        BY <1>3, <1>5, <2>1 DEF Clean
    <2>3. r.code \notin {"503", "550"}
        <3>1. Len(printed) + 1 \in 1..Len(printed')
            BY <1>3
        <3> QED BY <1>3, <1>5, <3>1 DEF Clean
    <2>4. ASSUME toClient # << >>, r = Head(toClient), toClient' = Tail(toClient)
          PROVE  Clean(toClient)
        <3>1. /\ Len(toClient) \in Nat /\ Len(toClient') = Len(toClient) - 1 /\ r = toClient[1]
              /\ \A i \in 1..Len(toClient) - 1 : toClient'[i] = toClient[i + 1]
            BY <1>1, <2>4, TailAt
        <3> SUFFICES ASSUME NEW i \in 1..Len(toClient)
                     PROVE  toClient[i].code \notin {"503", "550"}
            BY DEF Clean
        <3>2. CASE i = 1
            BY <2>3, <3>1, <3>2
        <3>3. CASE i # 1
            <4>1. i - 1 \in 1..Len(toClient) - 1 /\ (i - 1) + 1 = i /\ i - 1 \in 1..Len(toClient')
                BY <3>1, <3>3
            <4>2. toClient'[i - 1] = toClient[i]
                BY <3>1, <4>1
            <4> QED BY <1>5, <4>1, <4>2 DEF Clean
        <3> QED BY <3>2, <3>3
    <2> QED BY <1>2, <1>5, <2>2, <2>4
<1> QED BY <1>3, <1>4, <1>5

\* The mail's progress, when nothing is sent or taken.
LEMMA MailedKept ==
    ASSUME MailInv, mail' = mail, UNCHANGED <<toServer, collected, mailbox>>,
           server' = server \/ server' \in {"closed", "silent"}, NoRefusal' => NoRefusal,
           Within' /\ br2'.open => Within /\ br2.open /\ br2' = br2
    PROVE  Mailed'
<1>1. HasDot' = HasDot /\ Marked' = Marked /\ ExpectedText' = ExpectedText
    BY SameMail
<1>2. ASSUME HasDot, server' \notin {"closed", "silent"}
      PROVE  \E n, j \in 0..Len(Marked) :
               Reached(n)' /\ (server' = "data" => Opened(j)' /\ Holds(collected, j, n)')
    <2>1. server' = server
        BY <1>2
    <2>2. PICK n \in 0..Len(Marked), j \in 0..Len(Marked) :
            Reached(n) /\ (server = "data" => Opened(j) /\ Holds(collected, j, n))
        BY <1>2, <2>1 DEF MailInv, Mailed
    <2>3. Reached(n)'
        BY <1>1, <2>2 DEF Reached
    <2>4. server = "data" => Opened(j)'
        BY <2>2, HoldsKept
    <2>5. server = "data" => Holds(collected, j, n)'
        BY <1>1, <2>2 DEF Holds
    <2> QED BY <2>1, <2>3, <2>4, <2>5
<1>3. /\ collected \in Seq(FiledLine) /\ mailbox \in Seq(Seq(FiledLine))
      /\ ~HasDot => mailbox = << >> /\ \A i \in 1..Len(toServer) : toServer[i].text # "."
      /\ server \in {"start", "ready", "mail", "rcpt"} => collected = << >>
      /\ HasDot => MailFollows(toServer, Marked)
      /\ HasDot /\ br2.open /\ Within => Begun(toServer, Len(TextBefore(mail, br2.line)))
    BY DEF MailInv, Mailed
<1> QED BY <1>1, <1>2, <1>3 DEF Mailed, Holds

\* The lines under way still fit when the client moves without sending.
LEMMA StreamKept ==
    ASSUME MailInv, mail' = mail, toServer' = toServer,
           server' = server \/ server' \in {"closed", "silent"},
           NoRefusal' => NoRefusal,
           Within' => Within,
           HasDot /\ (Within \/ pc = "ended") => Within' \/ pc' = "ended"
    PROVE  Stream' /\ Meets'
<1>1. HasDot' = HasDot
    BY SameMail
<1>2. Stream'
    BY <1>1 DEF MailInv, Stream
<1>3. Meets'
    BY <1>1 DEF MailInv, Meets
<1> QED BY <1>2, <1>3

-----------------------------------------------------------------------------
(* The steps of the client.                                                *)

LEMMA ReadGreetingStep ==
    ASSUME MailInv, ReadGreeting
    PROVE  MailInv'
<1>1. /\ pc = "greeting" /\ ReadLine /\ pc' = "command"
      /\ input' = input /\ br' = br /\ mail' = mail /\ br2' = br2 /\ asked' = asked
      /\ server' = server /\ collected' = collected /\ mailbox' = mailbox /\ toServer' = toServer
    BY DEF ReadGreeting, serverVars
<1>2. /\ printed' \in Seq(ReplyLine) /\ toClient' \in Seq(ReplyLine)
      /\ Len(printed) \in Nat /\ Len(printed') = Len(printed) + 1
    BY <1>1, Reads
<1>3. Len(printed) = asked /\ asked \in Nat
    BY <1>1, Files DEF MailInv, Printed
<1>4. Len(printed') = asked' + 1 /\ Len(printed') <= asked' + 1
    BY <1>1, <1>2, <1>3
<1>5. Printed'
    BY <1>1, <1>2, <1>4 DEF Printed
<1>6. NoRefusal' => NoRefusal
    BY <1>1, <1>5, NoRefusalIs, Reads DEF MailInv
<1>7. TypeOK'
    BY <1>1, <1>4 DEF MailInv, TypeOK
<1>8. Reading'
    BY <1>1, SameMail DEF MailInv, Reading
<1>9. ~Within /\ ~Within'
    BY <1>1 DEF Within
<1>10. Stream' /\ Meets'
    BY <1>1, <1>6, <1>9, StreamKept
<1>11. Mailed'
    BY <1>1, <1>6, <1>9, MailedKept
<1>12. MailFiled'
    BY <1>1, <1>6, SameBox DEF MailInv
<1> QED BY <1>5, <1>7, <1>8, <1>10, <1>11, <1>12 DEF MailInv

LEMMA ReadReplyStep ==
    ASSUME MailInv, ReadReply
    PROVE  MailInv'
<1>1. /\ pc = "reply" /\ ReadLine
      /\ input' = input /\ mail' = mail /\ br2' = br2 /\ asked' = asked
      /\ server' = server /\ collected' = collected /\ mailbox' = mailbox /\ toServer' = toServer
    BY DEF ReadReply, serverVars
<1>2. \/ input[br] = "QUIT" /\ pc' = "ended" /\ br' = br
      \/ input[br] = "DATA" /\ br2.open /\ pc' = "mail" /\ br' = br
      \/ input[br] = "DATA" /\ ~br2.open /\ pc' = "ended" /\ br' = br
      \/ input[br] \notin {"QUIT", "DATA"} /\ pc' = "command" /\ br' = br + 1
    BY DEF ReadReply
<1>3. /\ printed' \in Seq(ReplyLine) /\ toClient' \in Seq(ReplyLine)
      /\ Len(printed) \in Nat /\ Len(printed') = Len(printed) + 1
    BY <1>1, Reads
<1>4. Len(printed) = asked /\ asked \in Nat
    BY <1>1, Files DEF MailInv, Printed
<1>5. Len(printed') = asked' + 1 /\ Len(printed') <= asked' + 1
    BY <1>1, <1>3, <1>4
<1>6. Printed'
    BY <1>2, <1>3, <1>5 DEF Printed
<1>7. NoRefusal' => NoRefusal
    BY <1>1, <1>6, NoRefusalIs, Reads DEF MailInv
<1>8. br \in Nat /\ Len(input) \in Nat /\ 1 <= br /\ br <= Len(input)
    BY <1>1, Files DEF MailInv, Reading
<1>9. br' \in 1..Len(input') + 1
    BY <1>1, <1>2, <1>8
<1>10. TypeOK'
    BY <1>1, <1>2, <1>5, <1>9 DEF MailInv, TypeOK
<1>11. Reading'
    BY <1>1, <1>2, <1>8, SameMail DEF MailInv, Reading
<1>12. /\ Within <=> input[br] = "DATA"
       /\ Within' <=> input[br] = "DATA" /\ br2.open
       /\ Within /\ ~Within' => pc' = "ended"
    BY <1>1, <1>2 DEF Within
<1>13. Stream' /\ Meets'
    BY <1>1, <1>7, <1>12, StreamKept
<1>14. Mailed'
    BY <1>1, <1>7, <1>12, MailedKept
<1>15. MailFiled'
    BY <1>1, <1>7, SameBox DEF MailInv
<1> QED BY <1>6, <1>10, <1>11, <1>13, <1>14, <1>15 DEF MailInv

LEMMA ReadDotReplyStep ==
    ASSUME MailInv, ReadDotReply
    PROVE  MailInv'
<1>1. /\ pc = "dot" /\ ReadLine /\ pc' = "command" /\ br' = br + 1
      /\ br2' = [br2 EXCEPT !.open = FALSE]
      /\ input' = input /\ mail' = mail /\ asked' = asked
      /\ server' = server /\ collected' = collected /\ mailbox' = mailbox /\ toServer' = toServer
    BY DEF ReadDotReply, serverVars
<1>2. /\ printed' \in Seq(ReplyLine) /\ toClient' \in Seq(ReplyLine)
      /\ Len(printed) \in Nat /\ Len(printed') = Len(printed) + 1
    BY <1>1, Reads
<1>3. Len(printed) = asked /\ asked \in Nat
    BY <1>1, Files DEF MailInv, Printed
<1>4. Len(printed') = asked' + 1 /\ Len(printed') <= asked' + 1
    BY <1>1, <1>2, <1>3
<1>5. Printed'
    BY <1>1, <1>2, <1>4 DEF Printed
<1>6. NoRefusal' => NoRefusal
    BY <1>1, <1>5, NoRefusalIs, Reads DEF MailInv
<1>7. br \in Nat /\ Len(input) \in Nat /\ 1 <= br /\ br <= Len(input)
    BY <1>1, Files DEF MailInv, Reading
<1>8. br' \in 1..Len(input') + 1
    BY <1>1, <1>7
<1>9. br2' \in [line : 1..Len(mail') + 1, open : BOOLEAN] /\ br2'.open = FALSE
    BY <1>1 DEF MailInv, TypeOK
<1>10. TypeOK'
    BY <1>1, <1>4, <1>8, <1>9 DEF MailInv, TypeOK
<1>11. Reading'
    BY <1>1, <1>9, SameMail DEF MailInv, Reading
<1>12. ~Within /\ ~Within'
    BY <1>1 DEF Within
<1>13. Stream' /\ Meets'
    BY <1>1, <1>6, <1>12, StreamKept
<1>14. Mailed'
    BY <1>1, <1>6, <1>12, MailedKept
<1>15. MailFiled'
    BY <1>1, <1>6, SameBox DEF MailInv
<1> QED BY <1>5, <1>10, <1>11, <1>13, <1>14, <1>15 DEF MailInv

\* The client stops: at the end of the script or when the connection is reset.
LEMMA EndedStep ==
    ASSUME MailInv, EndOfScript \/ ConnectionReset
    PROVE  MailInv'
<1>1. /\ pc' = "ended" /\ pc # "ended"
      /\ input' = input /\ br' = br /\ mail' = mail /\ br2' = br2 /\ asked' = asked
      /\ printed' = printed /\ toClient' = toClient
      /\ server' = server /\ collected' = collected /\ mailbox' = mailbox /\ toServer' = toServer
    BY DEF EndOfScript, ConnectionReset, serverVars
<1>2. TypeOK' /\ Printed'
    BY <1>1 DEF MailInv, TypeOK, Printed
<1>3. NoRefusal' => NoRefusal
    BY <1>1 DEF NoRefusal, Replies
<1>4. Reading'
    BY <1>1, SameMail DEF MailInv, Reading
<1>5. ~Within'
    BY <1>1 DEF Within
<1>6. Stream' /\ Meets'
    BY <1>1, <1>3, <1>5, StreamKept
<1>7. Mailed'
    BY <1>1, <1>3, <1>5, MailedKept
<1>8. MailFiled'
    BY <1>1, <1>3, SameBox DEF MailInv
<1> QED BY <1>2, <1>4, <1>6, <1>7, <1>8 DEF MailInv

\* The mail ends without a dot, so no mail is ever accepted.
LEMMA EndOfMailStep ==
    ASSUME MailInv, EndOfMail
    PROVE  MailInv'
<1>1. /\ pc = "mail" /\ br2.line > Len(mail) /\ pc' = "command" /\ br' = br + 1
      /\ input' = input /\ mail' = mail /\ br2' = br2 /\ asked' = asked
      /\ printed' = printed /\ toClient' = toClient
      /\ server' = server /\ collected' = collected /\ mailbox' = mailbox /\ toServer' = toServer
    BY DEF EndOfMail, serverVars
<1>2. br \in Nat /\ Len(input) \in Nat /\ 1 <= br /\ br <= Len(input) /\ br2.open
    BY <1>1, Files DEF MailInv, Reading
<1>3. br' \in 1..Len(input') + 1
    BY <1>1, <1>2
<1>4. ~HasDot
    <2>1. \A i \in 1..br2.line - 1 : mail[i].kind # "dot"
        BY <1>1, <1>2 DEF MailInv, Reading
    <2>2. Len(mail) \in Nat /\ br2.line \in Nat /\ DOMAIN mail = 1..Len(mail)
        BY Files, MailTyped
    <2>3. \A i \in 1..Len(mail) : i \in 1..br2.line - 1
        BY <1>1, <2>2
    <2> QED BY <2>1, <2>2, <2>3 DEF HasDot
<1>5. ~HasDot'
    BY <1>1, <1>4, SameMail
<1>6. TypeOK' /\ Printed'
    BY <1>1, <1>3 DEF MailInv, TypeOK, Printed
<1>7. NoRefusal' => NoRefusal
    BY <1>1 DEF NoRefusal, Replies
<1>8. Reading'
    BY <1>1, <1>5 DEF MailInv, Reading
<1>9. ~Within'
    BY <1>1 DEF Within
<1>10. Stream' /\ Meets'
    BY <1>1, <1>4, <1>7, <1>9, StreamKept
<1>11. Mailed'
    BY <1>1, <1>7, <1>9, MailedKept
<1>12. MailFiled'
    BY <1>1, <1>7, SameBox DEF MailInv
<1> QED BY <1>6, <1>8, <1>10, <1>11, <1>12 DEF MailInv

\* The connection ends or the server falls silent.
LEMMA FaultStep ==
    ASSUME MailInv, Close \/ Silence
    PROVE  MailInv'
<1>1. /\ server' \in {"closed", "silent"}
      /\ input' = input /\ br' = br /\ mail' = mail /\ br2' = br2 /\ pc' = pc /\ asked' = asked
      /\ printed' = printed /\ toClient' = toClient
      /\ collected' = collected /\ mailbox' = mailbox /\ toServer' = toServer
    BY DEF Close, Silence, clientVars
<1>2. TypeOK' /\ Printed'
    BY <1>1 DEF MailInv, TypeOK, Printed
<1>3. NoRefusal' => NoRefusal
    BY <1>1 DEF NoRefusal, Replies
<1>4. Reading'
    BY <1>1, SameMail DEF MailInv, Reading
<1>5. Within' <=> Within
    BY <1>1 DEF Within
<1>6. Stream' /\ Meets'
    BY <1>1, <1>3, <1>5, StreamKept
<1>7. Mailed'
    BY <1>1, <1>3, <1>5, MailedKept
<1>8. MailFiled'
    BY <1>1, <1>3, SameBox DEF MailInv
<1> QED BY <1>2, <1>4, <1>6, <1>7, <1>8 DEF MailInv

-----------------------------------------------------------------------------
(* The steps in which the client sends.                                    *)

LEMMA AppendAt ==
    ASSUME NEW T, NEW t \in Seq(T), NEW c \in T
    PROVE  LET u == Append(t, c) IN
           /\ u \in Seq(T) /\ u # << >> /\ Len(t) \in Nat /\ Len(u) = Len(t) + 1
           /\ u[Len(u)] = c /\ \A i \in 1..Len(t) : u[i] = t[i]
           /\ Head(u) = IF t = << >> THEN c ELSE Head(t)
<1> DEFINE u == Append(t, c)
<1>1. /\ u \in Seq(T) /\ u # << >> /\ Len(t) \in Nat /\ Len(u) = Len(t) + 1
      /\ u[Len(u)] = c /\ \A i \in 1..Len(t) : u[i] = t[i]
    BY AppendProperties, LenProperties
<1>2. Head(u) = u[1]
    BY <1>1
<1>3. CASE t = << >>
    <2>1. Len(u) = 1
        BY <1>1, <1>3, EmptySeq
    <2> QED BY <1>1, <1>2, <1>3, <2>1
<1>4. CASE t # << >>
    <2>1. Head(t) = t[1] /\ 1 \in 1..Len(t)
        BY <1>4, EmptySeq
    <2> QED BY <1>1, <1>2, <1>4, <2>1
<1> QED BY <1>1, <1>3, <1>4

LEMMA ChainAppend ==
    ASSUME NEW t \in Seq(SentLine), NEW c \in SentLine, NEW dot \in BOOLEAN,
           Chain(t, dot), t # << >> => Follows(Last(t), c, dot)
    PROVE  Chain(Append(t, c), dot)
<1>1. <<c>> \in Seq(SentLine) /\ Len(<<c>>) = 1 /\ <<c>>[1] = c
    OBVIOUS
<1>2. Chain(<<c>>, dot)
    BY <1>1 DEF Chain
<1>3. Len(t) # 0 => t # << >>
    BY EmptySeq
<1>4. Chain(t \o <<c>>, dot)
    BY <1>1, <1>2, <1>3, ChainConcat DEF Last
<1> QED BY <1>4, AppendIsConcat

LEMMA SendCommandStep ==
    ASSUME MailInv, SendCommand
    PROVE  MailInv'
<1> DEFINE c == Line(input[br], "input", asked + 1)
<1>1. /\ pc = "command" /\ br <= Len(input) /\ toServer' = Append(toServer, c)
      /\ asked' = asked + 1 /\ pc' = "reply"
      /\ input' = input /\ br' = br /\ mail' = mail /\ br2' = br2 /\ printed' = printed
      /\ server' = server /\ collected' = collected /\ mailbox' = mailbox /\ toClient' = toClient
    BY DEF SendCommand, serverVars
<1>2. asked \in Nat /\ asked + 1 \in Nat /\ input[br] \in Verb /\ mail \in Mail
    BY <1>1, Files
<1>3. c \in SentLine /\ c.from = "input" /\ c.text = input[br]
    BY <1>2 DEF Line, SentLine
<1> HIDE DEF c
<1>4. /\ printed \in Seq(ReplyLine) /\ Len(printed) \in Nat /\ Len(printed) = asked + 1
    BY <1>1, LenProperties DEF MailInv, Printed
<1>5. TypeOK' /\ Printed'
    <2>1. Len(printed') = asked' /\ Len(printed') <= asked' + 1 /\ asked' \in Nat
        BY <1>1, <1>2, <1>4
    <2> QED BY <1>1, <2>1 DEF MailInv, TypeOK, Printed
<1>6. Reading'
    BY <1>1, SameMail DEF MailInv, Reading
<1>7. NoRefusal' <=> NoRefusal
    BY <1>1 DEF NoRefusal, Replies
<1>8. HasDot' = HasDot /\ Marked' = Marked /\ ExpectedText' = ExpectedText /\ HasDot \in BOOLEAN
    BY <1>1, SameMail DEF HasDot
<1>9. ~Within /\ (Within' <=> input[br] = "DATA")
    BY <1>1 DEF Within
<1>10. toServer \in Seq(SentLine) /\ Chain(toServer, HasDot)
    BY DEF MailInv, Stream
<1>11. /\ toServer' \in Seq(SentLine) /\ toServer' # << >> /\ Last(toServer') = c
       /\ Head(toServer') = IF toServer = << >> THEN c ELSE Head(toServer)
       /\ Len(toServer) \in Nat /\ Len(toServer') = Len(toServer) + 1
       /\ toServer'[Len(toServer')] = c /\ \A i \in 1..Len(toServer) : toServer'[i] = toServer[i]
    BY <1>1, <1>3, <1>10, AppendAt DEF Last
<1>12. Opens(c) <=> input[br] = "DATA"
    BY <1>3, LineKinds
<1>13. Stream'
    <2>1. toServer # << >> => Follows(Last(toServer), c, HasDot)
        BY <1>1, <1>3, <1>9 DEF MailInv, Stream, Follows
    <2>2. Chain(toServer', HasDot')
        BY <1>1, <1>3, <1>8, <1>10, <2>1, ChainAppend
    <2> QED BY <1>8, <1>9, <1>11, <1>12, <2>2 DEF Stream
<1>14. Meets'
    BY <1>1, <1>3, <1>7, <1>8, <1>9, <1>11 DEF MailInv, Meets
<1>15. Marked \in Seq(MailText \cup {"."})
    BY <1>2, MarkedProps
<1>16. Mailed'
    <2>1. collected' \in Seq(FiledLine) /\ mailbox' \in Seq(Seq(FiledLine))
        BY <1>1 DEF MailInv, Mailed
    <2>2. ~HasDot' => mailbox' = << >> /\ \A i \in 1..Len(toServer') : toServer'[i].text # "."
        <3>1. c.text # "."
            BY <1>3, LineKinds
        <3>2. \A i \in 1..Len(toServer') : i \in 1..Len(toServer) \/ i = Len(toServer')
            BY <1>11
        <3> QED BY <1>1, <1>8, <1>11, <3>1, <3>2 DEF MailInv, Mailed
    <2>3. server' \in {"start", "ready", "mail", "rcpt"} => collected' = << >>
        BY <1>1 DEF MailInv, Mailed
    <2>4. /\ MailFollows(toServer, Marked) => MailFollows(toServer', Marked)
          /\ Begun(toServer', 0)
          /\ \A n \in Nat : Continues(toServer, n, Marked) => Continues(toServer', n, Marked)
          /\ ~Run(toServer', 0, Len(toServer'))
        BY <1>1, <1>3, <1>10, <1>15, CommandAdded
    <2>5. HasDot => MailFollows(toServer', Marked)
        BY <2>4 DEF MailInv, Mailed
    <2>6. HasDot /\ br2.open => Begun(toServer', Len(TextBefore(mail, br2.line)))
        <3>1. HasDot /\ br2.open => br2.line = 1
            BY <1>1 DEF MailInv, Reading
        <3>2. Len(TextBefore(mail, 1)) = 0
            BY <1>2, TextBeforeProps
        <3> QED BY <2>4, <3>1, <3>2
    <2>7. ASSUME HasDot, server \notin {"closed", "silent"}
          PROVE  \E n, j \in 0..Len(Marked) :
                   Reached(n)' /\ (server = "data" => Opened(j)' /\ Holds(collected, j, n)')
        <3>1. PICK n \in 0..Len(Marked), j \in 0..Len(Marked) :
                Reached(n) /\ (server = "data" => Opened(j) /\ Holds(collected, j, n))
            BY <2>7 DEF MailInv, Mailed
        <3>2. Continues(toServer', n, Marked)
            BY <2>4, <3>1 DEF Reached
        <3>3. Reached(n)'
            BY <1>8, <2>4, <3>2 DEF Reached
        <3>4. server = "data" => Opened(j)'
            BY <1>1, <1>7, <3>1, HoldsKept
        <3>5. server = "data" => Holds(collected, j, n)'
            BY <1>1, <1>8, <3>1 DEF Holds
        <3> QED BY <3>3, <3>4, <3>5
    <2> QED BY <1>1, <1>8, <2>1, <2>2, <2>3, <2>5, <2>6, <2>7 DEF Mailed, Holds
<1>17. MailFiled'
    BY <1>1, <1>7, SameBox DEF MailInv
<1> QED BY <1>5, <1>6, <1>13, <1>14, <1>16, <1>17 DEF MailInv

\* The line the client has come to in mail.txt is sent as the text that comes
\* next in the mail.
LEMMA NextText ==
    ASSUME MailInv, pc = "mail", br2.line <= Len(mail), mail[br2.line].kind # "dot"
    PROVE  LET text == TextOf(mail[br2.line])
               a == Len(TextBefore(mail, br2.line)) IN
           /\ text \in Seq(MailText) /\ Len(text) \in Nat /\ a \in Nat
           /\ Len(TextBefore(mail, br2.line + 1)) = a + Len(text)
           /\ \A i \in 1..Len(text) : a + i <= Len(Marked) /\ text[i] = Marked[a + i]
<1> DEFINE line == br2.line
           text == TextOf(mail[line])
           a == Len(TextBefore(mail, line))
           before == TextBefore(mail, line)
           after == TextBefore(mail, line + 1)
<1>1. /\ mail \in Mail /\ Len(mail) \in Nat /\ line \in 1..Len(mail) /\ line \in Nat
      /\ line \in 1..Len(mail) + 1 /\ line + 1 \in 1..Len(mail) + 1
    BY Files
<1>2. \A i \in 1..line : mail[i].kind # "dot"
    <2>1. \A i \in 1..line - 1 : mail[i].kind # "dot"
        BY DEF MailInv, Reading
    <2>2. \A i \in 1..line : i = line \/ i \in 1..line - 1
        BY <1>1
    <2> QED BY <2>1, <2>2
<1>3. DotLine(mail) \in line + 1..Len(mail) + 1
    <2>1. /\ DotLine(mail) \in 1..Len(mail) + 1
          /\ DotLine(mail) <= Len(mail) => mail[DotLine(mail)].kind = "dot"
        BY <1>1, DotLineProps
    <2>2. ~(DotLine(mail) <= line)
        <3> SUFFICES ASSUME DotLine(mail) <= line PROVE FALSE
            OBVIOUS
        <3>1. DotLine(mail) \in 1..line /\ DotLine(mail) <= Len(mail)
            BY <1>1, <2>1
        <3> QED BY <1>2, <2>1, <3>1
    <2> QED BY <1>1, <2>1, <2>2
<1>4. text \in Seq(MailText) /\ Len(text) \in Nat
    BY <1>1, MailTyped, TextOfTyped, LenProperties
<1>5. before \in Seq(MailText) /\ Len(before) \in Nat /\ after = before \o text
    BY <1>1, TextBeforeProps, LenProperties
<1>6. /\ Len(after) = Len(before) + Len(text)
      /\ \A i \in Len(before) + 1..Len(before) + Len(text) : after[i] = text[i - Len(before)]
    BY <1>4, <1>5, ConcatAt
<1>7. /\ Len(after) <= Len(ExpectedText)
      /\ \A i \in 1..Len(after) : ExpectedText[i] = after[i]
    BY <1>1, <1>3, TextGrows DEF ExpectedText
<1>8. /\ Len(ExpectedText) \in Nat /\ Len(Marked) = Len(ExpectedText) + 1
      /\ \A i \in 1..Len(ExpectedText) : Marked[i] = ExpectedText[i]
    BY <1>1, MarkedProps
<1> HIDE DEF text, before, after, line
<1>9. ASSUME NEW i \in 1..Len(text)
      PROVE  Len(before) + i <= Len(Marked) /\ text[i] = Marked[Len(before) + i]
    <2> DEFINE k == Len(before) + i
    <2>1. /\ k \in Len(before) + 1..Len(before) + Len(text) /\ k \in 1..Len(after)
          /\ k \in 1..Len(ExpectedText) /\ k - Len(before) = i /\ k <= Len(Marked)
        BY <1>4, <1>5, <1>6, <1>7, <1>8
    <2> HIDE DEF k
    <2>2. Marked[k] = text[i]
        BY <1>6, <1>7, <1>8, <2>1
    <2> QED BY <2>1, <2>2 DEF k
<1> QED BY <1>4, <1>5, <1>6, <1>9 DEF text, before, after, line

\* At the dot the client has read all of the mail.
LEMMA DotText ==
    ASSUME MailInv, pc = "mail", br2.line <= Len(mail), mail[br2.line].kind = "dot"
    PROVE  /\ HasDot
           /\ ExpectedText = TextBefore(mail, br2.line)
<1>1. mail \in Mail /\ Len(mail) \in Nat /\ br2.line \in 1..Len(mail) /\ DOMAIN mail = 1..Len(mail)
    BY Files, MailTyped
<1>2. \A i \in 1..br2.line - 1 : mail[i].kind # "dot"
    BY DEF MailInv, Reading
<1>3. /\ DotLine(mail) \in 1..Len(mail) + 1
      /\ DotLine(mail) <= Len(mail) => mail[DotLine(mail)].kind = "dot"
      /\ \A i \in 1..DotLine(mail) - 1 : mail[i].kind # "dot"
    BY <1>1, DotLineProps
<1>4. DotLine(mail) = br2.line
    <2> DEFINE d == DotLine(mail)
               l == br2.line
    <2>1. /\ d \in Nat /\ l \in Nat /\ l \in 1..Len(mail) /\ d \in 1..Len(mail) + 1
          /\ mail[l].kind = "dot"
        BY <1>1, <1>3
    <2>2. /\ d <= Len(mail) => mail[d].kind = "dot"
          /\ \A i \in 1..d - 1 : mail[i].kind # "dot"
          /\ \A i \in 1..l - 1 : mail[i].kind # "dot"
        BY <1>2, <1>3
    <2> HIDE DEF d, l
    <2>3. ~(l < d)
        <3>1. l < d => l \in 1..d - 1
            BY <2>1
        <3> QED BY <2>1, <2>2, <3>1
    <2>4. ~(d < l)
        <3>1. d < l => d \in 1..l - 1 /\ d <= Len(mail)
            BY <1>1, <2>1
        <3> QED BY <2>2, <3>1
    <2>5. d = l
        BY <2>1, <2>3, <2>4
    <2> QED BY <2>5 DEF d, l
<1> QED BY <1>1, <1>4 DEF HasDot, ExpectedText

\* The client, in the mail, sends lines of it: text, or the dot that ends it.
\* How far it is in the mail before and after is a and a + Len(x).
LEMMA SendsMail ==
    ASSUME MailInv, pc = "mail", NEW x \in Seq(SentLine), NEW a \in Nat,
           HasDot => a = Len(TextBefore(mail, br2.line)),
           \A i \in 1..Len(x) : x[i].from = "mail" /\ (~HasDot => x[i].text # "."),
           HasDot => \A i \in 1..Len(x) : a + i <= Len(Marked) /\ x[i].text = Marked[a + i],
           toServer' = toServer \o x,
           NoRefusal' => NoRefusal,
           mail' = mail, server' = server, collected' = collected, mailbox' = mailbox,
           HasDot /\ Within' => Len(TextBefore(mail, br2'.line)) = a + Len(x)
    PROVE  Mailed'
<1>1. br2.open /\ Within
    BY DEF MailInv, Reading, Within
<1>2. HasDot' = HasDot /\ Marked' = Marked /\ ExpectedText' = ExpectedText
    BY SameMail
<1>3. toServer \in Seq(SentLine) /\ mail \in Mail /\ Marked \in Seq(MailText \cup {"."})
    BY MarkedProps DEF MailInv, Stream, Reading
<1>4. collected' \in Seq(FiledLine) /\ mailbox' \in Seq(Seq(FiledLine))
    BY DEF MailInv, Mailed
<1>5. ~HasDot' => mailbox' = << >> /\ \A i \in 1..Len(toServer') : toServer'[i].text # "."
    <2> SUFFICES ASSUME ~HasDot PROVE \A i \in 1..Len(toServer') : toServer'[i].text # "."
        BY <1>2 DEF MailInv, Mailed
    <2>1. /\ Len(toServer) \in Nat /\ Len(x) \in Nat /\ Len(toServer') = Len(toServer) + Len(x)
          /\ \A i \in 1..Len(toServer) : toServer'[i] = toServer[i]
          /\ \A i \in Len(toServer) + 1..Len(toServer) + Len(x) :
                 i - Len(toServer) \in 1..Len(x) /\ toServer'[i] = x[i - Len(toServer)]
        BY <1>3, ConcatAt
    <2>2. \A i \in 1..Len(toServer') :
             i \in 1..Len(toServer) \/ i \in Len(toServer) + 1..Len(toServer) + Len(x)
        BY <2>1
    <2>3. \A i \in 1..Len(toServer) : toServer[i].text # "."
        BY DEF MailInv, Mailed
    <2> QED BY <2>1, <2>2, <2>3
<1>6. server' \in {"start", "ready", "mail", "rcpt"} => collected' = << >>
    BY DEF MailInv, Mailed
<1>7. ASSUME HasDot
      PROVE  /\ MailFollows(toServer', Marked)
             /\ Within' => Begun(toServer', Len(TextBefore(mail, br2'.line)))
    <2>1. MailFollows(toServer, Marked) /\ Begun(toServer, a)
        BY <1>1, <1>7 DEF MailInv, Mailed
    <2>2. MailFollows(toServer', Marked) /\ Begun(toServer', a + Len(x))
        BY <1>3, <1>7, <2>1, MailAdded
    <2> QED BY <1>7, <2>2
<1>8. ASSUME HasDot, server \notin {"closed", "silent"}
      PROVE  \E n, j \in 0..Len(Marked) :
               Reached(n)' /\ (server = "data" => Opened(j)' /\ Holds(collected, j, n)')
    <2>1. PICK n \in 0..Len(Marked), j \in 0..Len(Marked) :
            Reached(n) /\ (server = "data" => Opened(j) /\ Holds(collected, j, n))
        BY <1>8 DEF MailInv, Mailed
    <2>2. n \in Nat /\ Continues(toServer, n, Marked)
          /\ (Run(toServer, 0, Len(toServer)) => n + Len(toServer) = a)
        BY <1>1, <1>8, <2>1 DEF Reached
    <2>3. \A m \in Nat :
             Continues(toServer, m, Marked) /\ (Run(toServer, 0, Len(toServer)) => m + Len(toServer) = a) =>
               /\ Continues(toServer', m, Marked)
               /\ Run(toServer', 0, Len(toServer')) => m + Len(toServer') = a + Len(x)
        BY <1>3, <1>8, MailAdded, ZenonT(30)
    <2>4. /\ Continues(toServer', n, Marked)
          /\ Run(toServer', 0, Len(toServer')) => n + Len(toServer') = a + Len(x)
        BY <2>2, <2>3
    <2>5. Reached(n)'
        BY <1>2, <1>8, <2>4 DEF Reached
    <2>6. server = "data" => Opened(j)'
        BY <2>1, HoldsKept
    <2>7. server = "data" => Holds(collected, j, n)'
        BY <1>2, <2>1 DEF Holds
    <2> QED BY <2>5, <2>6, <2>7
<1> QED BY <1>2, <1>4, <1>5, <1>6, <1>7, <1>8 DEF Mailed, Holds

\* The lines that MailLine and AttachmentFails send are text that comes next in
\* the mail.
LEMMA TextSent ==
    ASSUME MailInv, pc = "mail", br2.line <= Len(mail), mail[br2.line].kind # "dot",
           NEW n \in 0..Len(TextOf(mail[br2.line]))
    PROVE  LET x == Sent(n)
               a == Len(TextBefore(mail, br2.line)) IN
           /\ x \in Seq(SentLine) /\ n \in Nat /\ Len(x) = n /\ a \in Nat
           /\ \A i \in 1..n : /\ x[i].from = "mail" /\ x[i].no = asked
                              /\ x[i].text # "." /\ Opens(x[i]) /\ Step(x[i]) = 0
                              /\ a + i <= Len(Marked) /\ x[i].text = Marked[a + i]
<1> DEFINE text == TextOf(mail[br2.line])
           x == Sent(n)
           a == Len(TextBefore(mail, br2.line))
<1>1. /\ text \in Seq(MailText) /\ Len(text) \in Nat /\ a \in Nat
      /\ \A i \in 1..Len(text) : a + i <= Len(Marked) /\ text[i] = Marked[a + i]
    BY NextText
<1>2. asked \in Nat
    BY Files
<1>3. x = [i \in 1..n |-> Line(text[i], "mail", asked)]
    BY DEF Sent
<1>4. n \in Nat /\ \A i \in 1..n : i \in 1..Len(text) /\ text[i] \in MailText
    <2>1. \A i \in 1..Len(text) : text[i] \in MailText
        BY <1>1, LenProperties
    <2> HIDE DEF text
    <2>2. n \in Nat /\ \A i \in 1..n : i \in 1..Len(text)
        BY <1>1 DEF text
    <2> QED BY <2>1, <2>2
<1> HIDE DEF text, x, a
<1>5. ASSUME NEW i \in 1..n
      PROVE  LET l == Line(text[i], "mail", asked)
             IN /\ l \in SentLine /\ l.from = "mail" /\ l.no = asked /\ l.text = text[i]
                /\ l.text # "." /\ Opens(l) /\ Step(l) = 0
    <2>1. text[i] \in MailText
        BY <1>4
    <2>2. "." \notin MailText
        BY DEF MailText, PlainText, Verb
    <2> HIDE DEF MailText
    <2> QED BY <1>2, <2>1, <2>2 DEF Line, SentLine, Opens, Step
<1>6. x \in Seq(SentLine) /\ Len(x) = n /\ \A i \in 1..n : x[i] = Line(text[i], "mail", asked)
    <2>1. \A i \in 1..n : Line(text[i], "mail", asked) \in SentLine
        BY <1>5
    <2> HIDE DEF Line
    <2> QED BY <1>3, <1>4, <2>1
<1>7. ASSUME NEW i \in 1..n
      PROVE  /\ x[i].from = "mail" /\ x[i].no = asked
             /\ x[i].text # "." /\ Opens(x[i]) /\ Step(x[i]) = 0
             /\ a + i <= Len(Marked) /\ x[i].text = Marked[a + i]
    <2>1. /\ x[i].from = "mail" /\ x[i].no = asked /\ x[i].text = text[i]
          /\ x[i].text # "." /\ Opens(x[i]) /\ Step(x[i]) = 0
        BY <1>5, <1>6
    <2>2. a + i <= Len(Marked) /\ text[i] = Marked[a + i]
        BY <1>1, <1>4
    <2> QED BY <2>1, <2>2
<1> QED BY <1>1, <1>4, <1>6, <1>7 DEF x, a

\* Text added to the lines under way fits them and the server.
LEMMA TextStream ==
    ASSUME MailInv, pc = "mail", pc' \in {"mail", "ended"},
           NEW x \in Seq(SentLine), \A i \in 1..Len(x) : x[i].from = "mail" /\ Opens(x[i]),
           toServer' = toServer \o x, mail' = mail, server' = server, NoRefusal' => NoRefusal
    PROVE  Stream' /\ Meets'
<1>1. HasDot' = HasDot /\ HasDot \in BOOLEAN
    BY SameMail DEF HasDot
<1>2. Within /\ (Within' \/ pc' = "ended")
    BY DEF Within
<1>3. /\ toServer \in Seq(SentLine) /\ Chain(toServer, HasDot) /\ Len(toServer) \in Nat
      /\ Len(toServer) # 0 => toServer # << >>
      /\ toServer # << >> => Opens(Last(toServer))
    BY <1>2, LenProperties, EmptySeq DEF MailInv, Stream
<1>4. /\ toServer' \in Seq(SentLine) /\ Len(toServer') = Len(toServer) + Len(x)
      /\ Len(x) \in Nat
      /\ \A i \in 1..Len(toServer) : toServer'[i] = toServer[i]
      /\ \A i \in Len(toServer) + 1..Len(toServer) + Len(x) :
             i - Len(toServer) \in 1..Len(x) /\ toServer'[i] = x[i - Len(toServer)]
    BY <1>3, ConcatAt
<1>5. Stream'
    <2>1. Chain(x, HasDot)
        <3>1. \A i \in 1..Len(x) - 1 : i \in 1..Len(x) /\ i + 1 \in 1..Len(x)
            BY <1>4
        <3> QED BY <3>1 DEF Chain, Follows
    <2>2. Len(toServer) # 0 /\ Len(x) # 0 => Follows(toServer[Len(toServer)], x[1], HasDot)
        <3>1. Len(x) # 0 => 1 \in 1..Len(x)
            BY <1>4
        <3> QED BY <1>3, <3>1 DEF Follows, Last
    <2>3. Chain(toServer', HasDot')
        BY <1>1, <1>3, <2>1, <2>2, ChainConcat
    <2>4. ASSUME toServer' # << >> PROVE Opens(Last(toServer'))
        <3>1. Len(toServer') # 0 /\ Len(toServer') \in Nat
            BY <1>4, <2>4, EmptySeq
        <3>2. CASE Len(x) = 0
            <4>1. Len(toServer') = Len(toServer) /\ Len(toServer) \in 1..Len(toServer)
                BY <1>3, <1>4, <3>1, <3>2
            <4> QED BY <1>3, <1>4, <4>1 DEF Last
        <3>3. CASE Len(x) # 0
            <4>1. /\ Len(toServer') \in Len(toServer) + 1..Len(toServer) + Len(x)
                BY <1>3, <1>4, <3>3
            <4>2. Len(toServer') - Len(toServer) \in 1..Len(x)
                BY <1>4, <4>1
            <4> QED BY <1>4, <4>1, <4>2 DEF Last
        <3> QED BY <3>2, <3>3
    <2> QED BY <1>2, <1>4, <2>3, <2>4 DEF Stream
<1>6. Meets'
    <2>1. ASSUME toServer' # << >>
          PROVE  Head(toServer') = toServer'[1] /\ 1 \in 1..Len(toServer')
        BY <1>4, <2>1, EmptySeq
    <2>2. ASSUME toServer # << >>
          PROVE  toServer' # << >> /\ Head(toServer') = Head(toServer)
        <3>1. Head(toServer) = toServer[1] /\ 1 \in 1..Len(toServer)
            BY <1>3, <2>2, EmptySeq
        <3>2. Len(toServer') # 0
            BY <1>3, <1>4, <3>1
        <3>3. toServer' # << >>
            BY <3>2, EmptySeq
        <3> QED BY <1>4, <2>1, <3>1, <3>3
    <2>3. ASSUME toServer = << >>, toServer' # << >>
          PROVE  Head(toServer').from = "mail"
        <3>1. Len(toServer) = 0
            BY <2>3, EmptySeq
        <3>2. 1 \in Len(toServer) + 1..Len(toServer) + Len(x) /\ 1 - Len(toServer) = 1
            BY <1>4, <2>1, <2>3, <3>1
        <3> QED BY <1>4, <2>1, <2>3, <3>2
    <2> QED BY <1>1, <1>2, <2>2, <2>3 DEF MailInv, Meets
<1> QED BY <1>5, <1>6

LEMMA MailLineStep ==
    ASSUME MailInv, MailLine
    PROVE  MailInv'
<1> DEFINE text == TextOf(mail[br2.line])
           n == Len(text)
           x == Sent(n)
           a == Len(TextBefore(mail, br2.line))
<1>1. /\ pc = "mail" /\ br2.line <= Len(mail) /\ mail[br2.line].kind # "dot"
      /\ toServer' = toServer \o x /\ br2' = [br2 EXCEPT !.line = @ + 1]
      /\ input' = input /\ br' = br /\ mail' = mail /\ pc' = pc /\ asked' = asked
      /\ printed' = printed /\ toClient' = toClient
      /\ server' = server /\ collected' = collected /\ mailbox' = mailbox
    BY DEF MailLine, serverVars
<1>2. n \in Nat /\ n \in 0..n /\ Len(TextBefore(mail, br2.line + 1)) = a + n
    <2>1. Len(text) \in Nat /\ Len(TextBefore(mail, br2.line + 1)) = a + Len(text)
        BY <1>1, NextText
    <2> QED BY <2>1
<1>3. /\ x \in Seq(SentLine) /\ Len(x) = n /\ a \in Nat
      /\ \A i \in 1..n : /\ x[i].from = "mail" /\ x[i].text # "." /\ Opens(x[i])
                         /\ a + i <= Len(Marked) /\ x[i].text = Marked[a + i]
    BY <1>1, <1>2, TextSent
<1> HIDE DEF text, n, x
<1>4. /\ br2' = [line |-> br2.line + 1, open |-> br2.open] /\ br2.open
      /\ br2.line \in Nat /\ br2.line \in 1..Len(mail) /\ Len(mail) \in Nat
    BY <1>1, Files DEF MailInv, Reading
<1>5. TypeOK' /\ Printed'
    <2>1. br2' \in [line : 1..Len(mail) + 1, open : BOOLEAN]
        BY <1>4, Files
    <2> QED BY <1>1, <2>1 DEF MailInv, TypeOK, Printed
<1>6. HasDot' = HasDot
    BY <1>1, SameMail
<1>7. Reading'
    <2>1. \A i \in 1..br2'.line - 1 : mail[i].kind # "dot"
        <3>1. \A i \in 1..br2.line - 1 : mail[i].kind # "dot"
            BY <1>1, <1>4 DEF MailInv, Reading
        <3>2. \A i \in 1..br2'.line - 1 : i = br2.line \/ i \in 1..br2.line - 1
            BY <1>4
        <3> QED BY <1>1, <3>1, <3>2
    <2> QED BY <1>1, <1>4, <1>6, <2>1 DEF MailInv, Reading
<1>8. NoRefusal' => NoRefusal
    BY <1>1 DEF NoRefusal, Replies
<1>9. Stream' /\ Meets'
    BY <1>1, <1>3, <1>8, TextStream
<1>10. Mailed'
    <2>1. Len(TextBefore(mail, br2'.line)) = a + Len(x)
        BY <1>2, <1>3, <1>4
    <2>2. \A i \in 1..Len(x) : /\ x[i].from = "mail" /\ x[i].text # "."
                               /\ a + i <= Len(Marked) /\ x[i].text = Marked[a + i]
        BY <1>3
    <2>3. a = Len(TextBefore(mail, br2.line))
        OBVIOUS
    <2> HIDE DEF a
    <2> QED BY <1>1, <1>3, <1>8, <2>1, <2>2, <2>3, SendsMail
<1>11. MailFiled'
    BY <1>1, <1>8, SameBox DEF MailInv
<1> QED BY <1>5, <1>7, <1>9, <1>10, <1>11 DEF MailInv

\* An attachment that cannot be read: part of the text is sent, and nothing more.
LEMMA AttachmentFailsStep ==
    ASSUME MailInv, AttachmentFails
    PROVE  MailInv'
<1> DEFINE text == TextOf(mail[br2.line])
           a == Len(TextBefore(mail, br2.line))
<1>1. PICK n \in DOMAIN text : toServer' = toServer \o Sent(n)
    BY DEF AttachmentFails
<1> DEFINE x == Sent(n)
<1>2. /\ pc = "mail" /\ br2.line <= Len(mail) /\ mail[br2.line].kind # "dot" /\ pc' = "ended"
      /\ input' = input /\ br' = br /\ br2' = br2 /\ mail' = mail /\ asked' = asked
      /\ printed' = printed /\ toClient' = toClient
      /\ server' = server /\ collected' = collected /\ mailbox' = mailbox
    BY DEF AttachmentFails, serverVars
<1>3. n \in 0..Len(text)
    <2>1. text \in Seq(MailText) /\ Len(text) \in Nat
        BY <1>2, NextText
    <2>2. n \in 1..Len(text)
        BY <1>1, <2>1, LenProperties
    <2> HIDE DEF text
    <2> QED BY <2>1, <2>2
<1>4. /\ x \in Seq(SentLine) /\ Len(x) = n /\ a \in Nat
      /\ \A i \in 1..n : /\ x[i].from = "mail" /\ x[i].text # "." /\ Opens(x[i])
                         /\ a + i <= Len(Marked) /\ x[i].text = Marked[a + i]
    BY <1>2, <1>3, TextSent
<1>5. toServer' = toServer \o x
    BY <1>1
<1> HIDE DEF text, x
<1>6. TypeOK' /\ Printed'
    BY <1>2 DEF MailInv, TypeOK, Printed
<1>7. Reading'
    BY <1>2, SameMail DEF MailInv, Reading
<1>8. NoRefusal' => NoRefusal
    BY <1>2 DEF NoRefusal, Replies
<1>9. Stream' /\ Meets'
    BY <1>2, <1>4, <1>5, <1>8, TextStream
<1>10. ~Within'
    BY <1>2 DEF Within
<1>11. Mailed'
    <2>1. \A i \in 1..Len(x) : /\ x[i].from = "mail" /\ x[i].text # "."
                               /\ a + i <= Len(Marked) /\ x[i].text = Marked[a + i]
        BY <1>4
    <2>2. a = Len(TextBefore(mail, br2.line))
        OBVIOUS
    <2> HIDE DEF a
    <2> QED BY <1>2, <1>4, <1>5, <1>8, <1>10, <2>1, <2>2, SendsMail
<1>12. MailFiled'
    BY <1>2, <1>8, SameBox DEF MailInv
<1> QED BY <1>6, <1>7, <1>9, <1>11, <1>12 DEF MailInv

LEMMA SendDotStep ==
    ASSUME MailInv, SendDot
    PROVE  MailInv'
<1> DEFINE c == Line(".", "mail", asked + 1)
           a == Len(TextBefore(mail, br2.line))
<1>1. /\ pc = "mail" /\ br2.line <= Len(mail) /\ mail[br2.line].kind = "dot"
      /\ toServer' = Append(toServer, c) /\ asked' = asked + 1 /\ pc' = "dot"
      /\ br2' = [br2 EXCEPT !.line = @ + 1]
      /\ input' = input /\ br' = br /\ mail' = mail /\ printed' = printed /\ toClient' = toClient
      /\ server' = server /\ collected' = collected /\ mailbox' = mailbox
    BY DEF SendDot, serverVars
<1>2. HasDot /\ ExpectedText = TextBefore(mail, br2.line)
    BY <1>1, DotText
<1>3. asked \in Nat /\ asked + 1 \in Nat /\ mail \in Mail
    BY Files
<1>4. c \in SentLine /\ c.from = "mail" /\ c.text = "." /\ ~Opens(c)
    BY <1>3 DEF Line, SentLine, Opens
<1> HIDE DEF c
<1>5. /\ br2' = [line |-> br2.line + 1, open |-> br2.open] /\ br2.open
      /\ br2.line \in Nat /\ br2.line \in 1..Len(mail) /\ Len(mail) \in Nat
    BY <1>1, Files DEF MailInv, Reading
<1>6. /\ printed \in Seq(ReplyLine) /\ Len(printed) \in Nat /\ Len(printed) = asked + 1
    BY <1>1, LenProperties DEF MailInv, Printed
<1>7. TypeOK' /\ Printed'
    <2>1. br2' \in [line : 1..Len(mail) + 1, open : BOOLEAN]
        BY <1>5, Files
    <2>2. Len(printed') = asked' /\ Len(printed') <= asked' + 1 /\ asked' \in Nat
        BY <1>1, <1>3, <1>6
    <2> QED BY <1>1, <2>1, <2>2 DEF MailInv, TypeOK, Printed
<1>8. HasDot' = HasDot /\ HasDot \in BOOLEAN
    BY <1>1, SameMail DEF HasDot
<1>9. Reading'
    BY <1>1, <1>5, <1>8 DEF MailInv, Reading
<1>10. NoRefusal' <=> NoRefusal
    BY <1>1 DEF NoRefusal, Replies
<1>11. Within /\ ~Within'
    BY <1>1 DEF Within
<1>12. toServer \in Seq(SentLine) /\ Chain(toServer, HasDot)
    BY DEF MailInv, Stream
<1>13. /\ toServer' \in Seq(SentLine) /\ toServer' # << >> /\ Last(toServer') = c
       /\ Head(toServer') = IF toServer = << >> THEN c ELSE Head(toServer)
    BY <1>1, <1>4, <1>12, AppendAt DEF Last
<1>14. Stream'
    <2>1. toServer # << >> => Follows(Last(toServer), c, HasDot)
        BY <1>4, <1>11 DEF MailInv, Stream, Follows
    <2>2. Chain(toServer', HasDot')
        BY <1>1, <1>4, <1>8, <1>12, <2>1, ChainAppend
    <2> QED BY <1>4, <1>8, <1>11, <1>13, <2>2 DEF Stream
<1>15. Meets'
    BY <1>1, <1>4, <1>8, <1>10, <1>11, <1>13 DEF MailInv, Meets
<1>16. Mailed'
    <2>1. a \in Nat /\ a + 1 <= Len(Marked) /\ Marked[a + 1] = "."
        BY <1>2, <1>3, MarkedProps
    <2>2. <<c>> \in Seq(SentLine) /\ Len(<<c>>) = 1 /\ <<c>>[1] = c
        BY <1>4
    <2>3. toServer' = toServer \o <<c>>
        BY <1>1, <1>4, <1>12, AppendIsConcat
    <2>4. \A i \in 1..Len(<<c>>) : i = 1
        BY <2>2
    <2> QED BY <1>1, <1>2, <1>4, <1>10, <1>11, <2>1, <2>2, <2>3, <2>4, SendsMail
<1>17. MailFiled'
    BY <1>1, <1>10, SameBox DEF MailInv
<1> QED BY <1>7, <1>9, <1>14, <1>15, <1>16, <1>17 DEF MailInv

-----------------------------------------------------------------------------
(* The steps of the server.                                                *)

LEMMA HandleProps ==
    ASSUME NEW cmd, server \in {"start", "ready", "mail", "rcpt"}
    PROVE  /\ Handle(cmd)[1] \in {"221", "250", "354", "503"}
           /\ Handle(cmd)[2] \in {"start", "ready", "mail", "rcpt", "data", "closed"}
           /\ Handle(cmd)[2] = "data" => cmd = "DATA"
           /\ cmd = "DATA" /\ Handle(cmd)[1] # "503" => Handle(cmd)[2] = "data"
<1>1. CASE cmd \in {"HELO", "EHLO"}
    BY <1>1 DEF Handle
<1>2. CASE cmd = "DATA"
    BY <1>2 DEF Handle
<1>3. CASE cmd \notin {"HELO", "EHLO", "DATA"}
    BY <1>3 DEF Handle
<1> QED BY <1>1, <1>2, <1>3

\* The server adds a reply of k lines.
LEMMA Replied ==
    ASSUME NEW s \in Seq(ReplyLine), NEW r \in ReplyLine, NEW k \in {1, 2}
    PROVE  LET u == s \o [i \in 1..k |-> r] IN
           /\ u \in Seq(ReplyLine)
           /\ Clean(u) => Clean(s) /\ r.code \notin {"503", "550"}
<1> DEFINE x == [i \in 1..k |-> r]
           u == s \o x
<1>1. x \in Seq(ReplyLine) /\ Len(x) = k /\ k \in Nat /\ 1 \in 1..k /\ x[1] = r
    OBVIOUS
<1> HIDE DEF x
<1>2. /\ u \in Seq(ReplyLine) /\ Len(s) \in Nat /\ Len(u) = Len(s) + Len(x)
      /\ \A i \in 1..Len(s) : u[i] = s[i]
      /\ \A i \in Len(s) + 1..Len(s) + Len(x) : u[i] = x[i - Len(s)]
    BY <1>1, ConcatAt
<1> HIDE DEF u
<1>3. ASSUME Clean(u) PROVE Clean(s) /\ r.code \notin {"503", "550"}
    <2>1. \A i \in 1..Len(s) : i \in 1..Len(u)
        BY <1>1, <1>2
    <2>2. /\ Len(s) + 1 \in 1..Len(u) /\ Len(s) + 1 \in Len(s) + 1..Len(s) + Len(x)
          /\ (Len(s) + 1) - Len(s) = 1
        BY <1>1, <1>2
    <2>3. u[Len(s) + 1] = r
        BY <1>1, <1>2, <2>2
    <2> QED BY <1>2, <1>3, <2>1, <2>2, <2>3 DEF Clean
<1> QED BY <1>2, <1>3 DEF u, x

\* The lines that stay under way when the server takes the first.
LEMMA StreamTaken ==
    ASSUME MailInv, toServer # << >>, toServer' = Tail(toServer), UNCHANGED clientVars
    PROVE  /\ Stream'
           /\ Head(toServer) \in SentLine /\ Head(toServer) = toServer[1]
           /\ toServer' # << >> => Follows(Head(toServer), Head(toServer'), HasDot)
           /\ toServer' = << >> => /\ Within => Opens(Head(toServer))
                                   /\ HasDot /\ Opens(Head(toServer)) => Within \/ pc = "ended"
<1>1. mail' = mail /\ pc' = pc /\ input' = input /\ br' = br
    BY DEF clientVars
<1>2. HasDot' = HasDot /\ (Within' <=> Within) /\ HasDot \in BOOLEAN
    BY <1>1, SameMail DEF Within, HasDot
<1>3. /\ toServer \in Seq(SentLine) /\ Chain(toServer, HasDot)
      /\ Within => Opens(Last(toServer))
      /\ HasDot /\ Opens(Last(toServer)) => Within \/ pc = "ended"
    BY DEF MailInv, Stream
<1>4. /\ Chain(toServer', HasDot)
      /\ Len(toServer') # 0 => /\ Follows(toServer[1], toServer'[1], HasDot)
                               /\ toServer'[Len(toServer')] = toServer[Len(toServer)]
      /\ Len(toServer') = 0 => toServer[Len(toServer)] = toServer[1]
    BY <1>2, <1>3, ChainTail
<1>5. toServer' \in Seq(SentLine) /\ Head(toServer) \in SentLine /\ Head(toServer) = toServer[1]
    BY <1>3, TailAt
<1>6. toServer' # << >> => Len(toServer') # 0 /\ Head(toServer') = toServer'[1]
    BY <1>5, EmptySeq
<1>7. toServer' = << >> => Len(toServer') = 0
    BY EmptySeq
<1>8. Stream'
    BY <1>1, <1>2, <1>3, <1>4, <1>5, <1>6 DEF Stream, Last
<1> QED BY <1>3, <1>4, <1>5, <1>6, <1>7, <1>8 DEF Last

\* What the client knows does not change in a step of the server.
LEMMA ClientKept ==
    ASSUME MailInv, UNCHANGED clientVars, toClient' \in Seq(ReplyLine),
           server' \in {"start", "ready", "mail", "rcpt", "data", "closed", "silent"}
    PROVE  /\ TypeOK' /\ Reading' /\ Printed'
           /\ mail' = mail /\ HasDot' = HasDot /\ Marked' = Marked /\ ExpectedText' = ExpectedText
           /\ (Within' <=> Within) /\ pc' = pc /\ br2' = br2
<1>1. /\ mail' = mail /\ pc' = pc /\ input' = input /\ br' = br /\ br2' = br2
      /\ asked' = asked /\ printed' = printed
    BY DEF clientVars
<1>2. HasDot' = HasDot /\ Marked' = Marked /\ ExpectedText' = ExpectedText
    BY <1>1, SameMail
<1>3. Within' <=> Within
    BY <1>1 DEF Within
<1>4. TypeOK' /\ Printed'
    BY <1>1 DEF MailInv, TypeOK, Printed
<1>5. Reading'
    BY <1>1, <1>2 DEF MailInv, Reading
<1> QED BY <1>1, <1>2, <1>3, <1>4, <1>5

\* A line of the mail that the server takes is the line that comes next in it.
LEMMA NextOfMail ==
    ASSUME MailInv, toServer # << >>, Head(toServer).from = "mail",
           NEW m \in 0..Len(Marked), Reached(m),
           toServer' = Tail(toServer), UNCHANGED clientVars
    PROVE  /\ m \in Nat /\ m + 1 \in 0..Len(Marked) /\ Head(toServer).text = Marked[m + 1]
           /\ Reached(m + 1)'
<1> DEFINE a == Len(TextBefore(mail, br2.line))
<1>1. toServer \in Seq(SentLine) /\ mail \in Mail
    BY DEF MailInv, Stream, Reading
<1>2. /\ Marked \in Seq(MailText \cup {"."}) /\ Len(Marked) \in Nat /\ m \in Nat
      /\ Head(toServer) = toServer[1] /\ Len(toServer) \in Nat
      /\ Len(toServer') = Len(toServer) - 1
    BY <1>1, MarkedProps, LenProperties, TailAt
<1>3. Continues(toServer, m, Marked)
    BY DEF Reached
<1>4. /\ \A k \in Nat : Continues(toServer, k, Marked) =>
             /\ Continues(toServer', k + 1, Marked)
             /\ k + 1 <= Len(Marked) /\ toServer[1].text = Marked[k + 1]
      /\ Run(toServer', 0, Len(toServer')) => Run(toServer, 0, Len(toServer))
    BY <1>1, <1>2, FirstTaken
<1>5. /\ Continues(toServer', m + 1, Marked)
      /\ m + 1 <= Len(Marked) /\ toServer[1].text = Marked[m + 1]
    BY <1>2, <1>3, <1>4
<1>6. /\ mail' = mail /\ br2' = br2 /\ Marked' = Marked /\ (Within' <=> Within)
    BY SameMail DEF clientVars, Within
<1>7. ASSUME br2.open, Within, Run(toServer', 0, Len(toServer'))
      PROVE  (m + 1) + Len(toServer') = a
    <2>1. m + Len(toServer) = a
        BY <1>4, <1>7 DEF Reached
    <2> HIDE DEF a
    <2> QED BY <1>2, <2>1
<1>8. Reached(m + 1)'
    BY <1>5, <1>6, <1>7 DEF Reached
<1> QED BY <1>2, <1>5, <1>8

\* A command taken: the server has read nothing of the text that may follow.
LEMMA NextOfInput ==
    ASSUME MailInv, HasDot, toServer # << >>, Head(toServer).from = "input",
           toServer' = Tail(toServer), UNCHANGED clientVars
    PROVE  Reached(0)'
<1> DEFINE h == Head(toServer)
           a == Len(TextBefore(mail, br2.line))
<1>1. toServer \in Seq(SentLine) /\ mail \in Mail
    BY DEF MailInv, Stream, Reading
<1>2. /\ Marked \in Seq(MailText \cup {"."}) /\ h = toServer[1] /\ h \in SentLine
      /\ toServer' \in Seq(SentLine) /\ Len(toServer') \in Nat
    BY <1>1, MarkedProps, LenProperties, TailAt
<1>3. a \in Nat
    <2>1. TextBefore(mail, br2.line) \in Seq(MailText)
        BY Files, TextBeforeProps
    <2> QED BY <2>1, LenProperties
<1>4. /\ toServer' # << >> => Follows(h, Head(toServer'), HasDot)
      /\ toServer' = << >> => (Within => Opens(h))
    BY StreamTaken
<1>5. /\ mail' = mail /\ br2' = br2 /\ Marked' = Marked /\ (Within' <=> Within)
    BY SameMail DEF clientVars, Within
<1> HIDE DEF h, a
<1>6. CASE h.text = "DATA"
    <2>1. Begins(toServer, 1)
        BY <1>2, <1>6 DEF Begins, h
    <2>2. /\ MailFollows(toServer, Marked) => Continues(toServer', 0, Marked)
          /\ \A s \in Nat : Begun(toServer, s) /\ Run(toServer', 0, Len(toServer')) => Len(toServer') = s
        BY <1>1, <1>2, <2>1, FirstTaken
    <2>3. MailFollows(toServer, Marked) /\ (br2.open /\ Within => Begun(toServer, a))
        BY DEF MailInv, Mailed, a
    <2>4. br2.open /\ Within /\ Run(toServer', 0, Len(toServer')) => 0 + Len(toServer') = a
        BY <1>2, <1>3, <2>2, <2>3
    <2> QED BY <1>5, <2>2, <2>3, <2>4 DEF Reached, a
<1>7. CASE h.text # "DATA"
    <2>1. ~Opens(h)
        BY <1>2, <1>7, LineKinds DEF h
    <2>2. ASSUME NEW i \in 1..Len(toServer') PROVE ~Run(toServer', 0, i)
        <3>1. toServer' # << >> /\ Head(toServer') = toServer'[1]
            <4>1. Len(toServer') # 0
                BY <1>2, <2>2
            <4>2. toServer' # << >>
                BY <4>1, EmptySeq
            <4> QED BY <1>2, <4>2
        <3>2. toServer'[1].from # "mail"
            BY <1>4, <2>1, <3>1 DEF Follows
        <3>3. 1 \in 0 + 1..i
            BY <1>2
        <3> QED BY <3>2, <3>3 DEF Run
    <2>3. Continues(toServer', 0, Marked)
        BY <2>2 DEF Continues
    <2>4. ~(br2.open /\ Within /\ Run(toServer', 0, Len(toServer')))
        <3>1. CASE toServer' = << >>
            BY <1>4, <2>1, <3>1
        <3>2. CASE toServer' # << >>
            <4>1. Len(toServer') \in 1..Len(toServer')
                BY <1>2, <3>2, EmptySeq
            <4> QED BY <2>2, <4>1
        <3> QED BY <3>1, <3>2
    <2> QED BY <1>5, <2>3, <2>4 DEF Reached
<1> QED BY <1>6, <1>7

LEMMA TakeCommandStep ==
    ASSUME MailInv, TakeCommand
    PROVE  MailInv'
<1> DEFINE h == Head(toServer)
           n == Len(TextBefore(mail, br2.line))
<1>1. /\ server \in {"start", "ready", "mail", "rcpt"} /\ toServer # << >>
      /\ toServer' = Tail(toServer) /\ UNCHANGED clientVars
      /\ collected' = collected /\ mailbox' = mailbox
    BY DEF TakeCommand, MailInv, TypeOK
<1>2. /\ Stream' /\ h \in SentLine /\ h = toServer[1]
      /\ toServer' # << >> => Follows(h, Head(toServer'), HasDot)
      /\ toServer' = << >> => /\ Within => Opens(h)
                              /\ HasDot /\ Opens(h) => Within \/ pc = "ended"
    BY <1>1, StreamTaken
<1>3. h.no \in Nat /\ toClient \in Seq(ReplyLine) /\ printed \in Seq(ReplyLine)
    BY <1>2, LineKinds DEF MailInv, Printed
\* The reply, and the state the server goes to.
<1>4. PICK code \in {"221", "250", "354", "503", "550"}, k \in {1, 2} :
        /\ toClient' = toClient \o [i \in 1..k |-> [code |-> code, to |-> h.no]]
        /\ server' \in {"start", "ready", "mail", "rcpt", "data", "closed"}
        /\ server' = "data" => h.text = "DATA"
        /\ h.text = "DATA" /\ code \notin {"503", "550"} => server' = "data"
    <2>1. /\ Handle(h.text)[1] \in {"221", "250", "354", "503"}
          /\ Handle(h.text)[2] \in {"start", "ready", "mail", "rcpt", "data", "closed"}
          /\ Handle(h.text)[2] = "data" => h.text = "DATA"
          /\ h.text = "DATA" /\ Handle(h.text)[1] # "503" => Handle(h.text)[2] = "data"
        BY <1>1, HandleProps
    <2>2. CASE /\ Reply(h, Handle(h.text)[1], IF h.text \in LongReply THEN 2 ELSE 1)
               /\ server' = Handle(h.text)[2]
        <3> DEFINE code == Handle(h.text)[1]
                   k == IF h.text \in LongReply THEN 2 ELSE 1
        <3>1. toClient' = toClient \o [i \in 1..k |-> [code |-> code, to |-> h.no]]
            BY <2>2 DEF Reply
        <3>2. code \in {"221", "250", "354", "503", "550"} /\ k \in {1, 2}
            BY <2>1
        <3>3. /\ server' \in {"start", "ready", "mail", "rcpt", "data", "closed"}
              /\ server' = "data" => h.text = "DATA"
              /\ h.text = "DATA" /\ code \notin {"503", "550"} => server' = "data"
            BY <2>1, <2>2
        <3> HIDE DEF code, k, h
        <3> QED BY <3>1, <3>2, <3>3
    <2>3. CASE Reply(h, "550", 1) /\ server' = server
        <3>1. toClient' = toClient \o [i \in 1..1 |-> [code |-> "550", to |-> h.no]]
            BY <2>3 DEF Reply
        <3>2. server' \in {"start", "ready", "mail", "rcpt"}
            BY <1>1, <2>3
        <3> HIDE DEF h
        <3> QED BY <3>1, <3>2
    <2> QED BY <2>2, <2>3 DEF TakeCommand
<1>5. /\ toClient' \in Seq(ReplyLine)
      /\ Clean(toClient') => Clean(toClient) /\ code \notin {"503", "550"}
    <2> DEFINE r == [code |-> code, to |-> h.no]
    <2>1. r \in ReplyLine /\ r.code = code
        BY <1>3 DEF ReplyLine
    <2>2. toClient' = toClient \o [i \in 1..k |-> r]
        BY <1>4
    <2> HIDE DEF r
    <2> QED BY <1>3, <2>1, <2>2, Replied
<1> HIDE DEF h
<1>6. /\ TypeOK' /\ Reading' /\ Printed'
      /\ mail' = mail /\ HasDot' = HasDot /\ Marked' = Marked /\ ExpectedText' = ExpectedText
      /\ (Within' <=> Within) /\ pc' = pc /\ br2' = br2
    BY <1>1, <1>4, <1>5, ClientKept
<1>7. NoRefusal' => NoRefusal /\ code \notin {"503", "550"}
    <2>1. Printed /\ Printed' /\ printed' = printed
        BY <1>1, <1>6 DEF MailInv, clientVars
    <2> QED BY <1>5, <2>1, NoRefusalIs
<1>8. h.text = "DATA" => Opens(h)
    BY <1>2, LineKinds
<1>9. NoRefusal => h.from = "input"
    BY <1>1 DEF MailInv, Meets, h
<1>10. NoRefusal /\ Opens(h) => h.text = "DATA"
    BY <1>2, <1>9, LineKinds
<1>11. Meets'
    <2>1. server' = "data" /\ HasDot => IF toServer' = << >> THEN Within \/ pc = "ended"
                                                             ELSE Head(toServer').from = "mail"
        BY <1>2, <1>4, <1>8 DEF Follows
    <2>2. ASSUME server' \in {"start", "ready", "mail", "rcpt"}, NoRefusal'
          PROVE  IF toServer' = << >> THEN ~Within ELSE Head(toServer').from = "input"
        <3>1. ~Opens(h)
            BY <1>4, <1>7, <1>10, <2>2
        <3>2. toServer' # << >> => Head(toServer').from \in {"input", "mail"}
            <4>1. toServer' \in Seq(SentLine)
                BY <1>2 DEF Stream
            <4>2. toServer' # << >> => Head(toServer') \in SentLine
                BY <4>1, HeadTailProperties
            <4> QED BY <4>2, LineKinds
        <3>3. toServer' # << >> => Head(toServer').from # "mail"
            BY <1>2, <3>1 DEF Follows
        <3> QED BY <1>2, <3>1, <3>2, <3>3
    <2> QED BY <1>6, <2>1, <2>2 DEF Meets
<1>12. /\ toServer \in Seq(SentLine) /\ mail \in Mail /\ Marked \in Seq(MailText \cup {"."}) /\ n \in Nat
       /\ Len(ExpectedText) \in Nat /\ Len(Marked) = Len(ExpectedText) + 1
       /\ \A i \in 1..Len(ExpectedText) : Marked[i] = ExpectedText[i]
       /\ Marked[Len(ExpectedText) + 1] = "."
    <2>1. toServer \in Seq(SentLine) /\ mail \in Mail
        BY DEF MailInv, Stream, Reading
    <2>2. TextBefore(mail, br2.line) \in Seq(MailText)
        BY Files, TextBeforeProps
    <2> QED BY <2>1, <2>2, MarkedProps, LenProperties
<1>13. /\ MailFollows(toServer, Marked) => MailFollows(toServer', Marked)
       /\ \A s \in Nat : Begun(toServer, s) => Begun(toServer', s)
    BY <1>1, <1>12, FirstTaken
<1>14. Mailed'
    <2>1. collected = << >> /\ Len(collected) = 0 /\ collected \in Seq(FiledLine) /\ mailbox \in Seq(Seq(FiledLine))
        BY <1>1, EmptySeq DEF MailInv, Mailed
    <2>2. ~HasDot => mailbox = << >> /\ \A i \in 1..Len(toServer') : toServer'[i].text # "."
        <3>1. /\ Len(toServer) \in Nat /\ Len(toServer') = Len(toServer) - 1
              /\ \A i \in 1..Len(toServer) - 1 : i + 1 \in 1..Len(toServer) /\ toServer'[i] = toServer[i + 1]
            BY <1>1, <1>12, TailAt
        <3> QED BY <3>1 DEF MailInv, Mailed
    <2>3. HasDot => /\ MailFollows(toServer, Marked)
                    /\ br2.open /\ Within => Begun(toServer, n)
        BY DEF MailInv, Mailed
    <2>4. HasDot => /\ MailFollows(toServer', Marked)
                    /\ br2.open /\ Within => Begun(toServer', n)
        BY <1>12, <1>13, <2>3
\* The server has nothing of the mail that it begins.
    <2>5. ASSUME NEW m \in 0..Len(ExpectedText) PROVE Holds(collected, m, m)'
        <3>1. /\ Len(collected') = 0 /\ \A i \in 1..Len(collected') : FALSE
              /\ m = m + Len(collected') /\ m <= Len(ExpectedText')
            BY <1>1, <1>6, <1>12, <2>1
        <3> QED BY <3>1 DEF Holds
    <2>6. ASSUME HasDot, server' \notin {"closed", "silent"}
          PROVE  \E m, j \in 0..Len(Marked) :
                   Reached(m)' /\ (server' = "data" => Opened(j)' /\ Holds(collected, j, m)')
        <3>1. PICK m \in 0..Len(Marked) : Reached(m)
            BY <1>1, <2>6 DEF MailInv, Mailed
        <3>2. CASE h.from = "mail"
            <4>1. /\ m \in Nat /\ m + 1 \in 0..Len(Marked) /\ h.text = Marked[m + 1]
                  /\ Reached(m + 1)'
                BY <1>1, <3>1, <3>2, NextOfMail DEF h
            <4>2. ASSUME server' = "data" PROVE Opened(m + 1)' /\ Holds(collected, m + 1, m + 1)'
                <5>1. Marked[m + 1] = "DATA"
                    BY <1>4, <4>1, <4>2
                <5>2. m + 1 # Len(ExpectedText) + 1
                    BY <1>12, <5>1
                <5>3. m + 1 \in 1..Len(ExpectedText)
                    BY <1>12, <4>1, <5>2
                <5>4. m + 1 \in 0..Len(ExpectedText)
                    BY <1>12, <5>3
                <5>5. ExpectedText[m + 1] = "DATA"
                    BY <1>12, <5>1, <5>3
                <5>6. ~NoRefusal'
                    BY <1>7, <1>9, <3>2
                <5>7. Opened(m + 1)'
                    BY <1>6, <5>3, <5>5, <5>6 DEF Opened
                <5> QED BY <2>5, <5>4, <5>7
            <4> QED BY <4>1, <4>2
        <3>3. CASE h.from = "input"
            <4>1. Reached(0)'
                BY <1>1, <2>6, <3>3, NextOfInput DEF h
            <4>2. 0 \in 0..Len(Marked) /\ 0 \in 0..Len(ExpectedText)
                BY <1>12
            <4>3. Opened(0)'
                BY DEF Opened
            <4>4. Holds(collected, 0, 0)'
                BY <2>5, <4>2
            <4> QED BY <4>1, <4>2, <4>3, <4>4
        <3> QED BY <1>2, <3>2, <3>3, LineKinds
    <2> QED BY <1>1, <1>6, <2>1, <2>2, <2>4, <2>6 DEF Mailed
<1>15. MailFiled'
    BY <1>1, <1>6, <1>7, SameBox DEF MailInv
<1> QED BY <1>2, <1>6, <1>11, <1>14, <1>15 DEF MailInv

LEMMA TakeTextStep ==
    ASSUME MailInv, TakeText
    PROVE  MailInv'
<1> DEFINE h == Head(toServer)
           l == [h EXCEPT !.text = Unstuffed(@)]
           n == Len(collected)
           a == Len(TextBefore(mail, br2.line))
<1>1. /\ server = "data" /\ toServer # << >> /\ h.text # "." /\ collected' = Append(collected, l)
      /\ toServer' = Tail(toServer) /\ UNCHANGED clientVars
      /\ server' = server /\ mailbox' = mailbox /\ toClient' = toClient
    BY DEF TakeText
<1>2. /\ Stream' /\ h \in SentLine
      /\ toServer' # << >> => Follows(h, Head(toServer'), HasDot)
      /\ toServer' = << >> => (HasDot /\ Opens(h) => Within \/ pc = "ended")
    BY <1>1, StreamTaken
<1> HIDE DEF h
<1>3. l \in FiledLine /\ l.text = Unstuffed(h.text) /\ l.from = h.from
    <2>1. Unstuffed(h.text) \in MailText \cup {".."} /\ h.from \in {"input", "mail"} /\ h.no \in Nat
        <3>1. h.text \in MailText /\ h.from \in {"input", "mail"} /\ h.no \in Nat
            BY <1>1, <1>2, LineKinds DEF h
        <3>2. Unstuffed(h.text) \in {"text", "..", h.text}
            BY DEF Unstuffed
        <3>3. "text" \in MailText
            BY DEF MailText, PlainText
        <3> QED BY <3>1, <3>2, <3>3
    <2>2. h = [text |-> h.text, from |-> h.from, no |-> h.no]
        BY <1>2 DEF SentLine
    <2>3. l = [text |-> Unstuffed(h.text), from |-> h.from, no |-> h.no]
        BY <2>2
    <2> QED BY <2>1, <2>3 DEF FiledLine
<1> HIDE DEF l
<1>4. /\ TypeOK' /\ Reading' /\ Printed'
      /\ mail' = mail /\ HasDot' = HasDot /\ Marked' = Marked /\ ExpectedText' = ExpectedText
      /\ (Within' <=> Within) /\ pc' = pc /\ br2' = br2
    <2>1. toClient' \in Seq(ReplyLine)
        BY <1>1 DEF MailInv, Printed
    <2> QED BY <1>1, <2>1, ClientKept
<1>5. HasDot => h.from = "mail"
    BY <1>1 DEF MailInv, Meets, h
<1>6. HasDot => Opens(h)
    BY <1>1, <1>2, <1>5, LineKinds
<1>7. Meets'
    BY <1>1, <1>2, <1>4, <1>6 DEF Meets, Follows
<1>8. NoRefusal' => NoRefusal
    BY <1>1 DEF NoRefusal, Replies, clientVars
<1>9. /\ toServer \in Seq(SentLine) /\ mail \in Mail /\ Marked \in Seq(MailText \cup {"."})
      /\ collected \in Seq(FiledLine) /\ mailbox \in Seq(Seq(FiledLine)) /\ a \in Nat
    <2>1. /\ toServer \in Seq(SentLine) /\ mail \in Mail
          /\ collected \in Seq(FiledLine) /\ mailbox \in Seq(Seq(FiledLine))
        BY DEF MailInv, Stream, Reading, Mailed
    <2>2. TextBefore(mail, br2.line) \in Seq(MailText)
        BY Files, TextBeforeProps
    <2> QED BY <2>1, <2>2, MarkedProps, LenProperties
<1>10. /\ collected' \in Seq(FiledLine) /\ n \in Nat /\ Len(collected') = n + 1
       /\ collected'[n + 1] = l /\ \A i \in 1..n : collected'[i] = collected[i]
    BY <1>1, <1>3, <1>9, AppendProperties, LenProperties
<1>11. /\ Len(toServer) \in Nat /\ Len(toServer') = Len(toServer) - 1
       /\ \A i \in 1..Len(toServer) - 1 : i + 1 \in 1..Len(toServer) /\ toServer'[i] = toServer[i + 1]
    BY <1>1, <1>9, TailAt
<1>12. Mailed'
    <2>1. ~HasDot => mailbox = << >> /\ \A i \in 1..Len(toServer') : toServer'[i].text # "."
        BY <1>11 DEF MailInv, Mailed
    <2>2. ASSUME HasDot
          PROVE  /\ MailFollows(toServer', Marked)
                 /\ br2.open /\ Within => Begun(toServer', a)
        <3>1. MailFollows(toServer, Marked) /\ (br2.open /\ Within => Begun(toServer, a))
            BY <2>2 DEF MailInv, Mailed
        <3>2. /\ MailFollows(toServer, Marked) => MailFollows(toServer', Marked)
              /\ \A s \in Nat : Begun(toServer, s) => Begun(toServer', s)
            BY <1>1, <1>9, FirstTaken
        <3> QED BY <1>9, <3>1, <3>2
    <2>3. ASSUME HasDot
          PROVE  \E m, j \in 0..Len(Marked) :
                   Reached(m)' /\ Opened(j)' /\ Holds(collected, j, m)'
        <3>1. PICK m \in 0..Len(Marked), j \in 0..Len(Marked) :
                Reached(m) /\ Opened(j) /\ Holds(collected, j, m)
            BY <1>1, <2>3 DEF MailInv, Mailed
        <3>2. /\ m \in Nat /\ m + 1 \in 0..Len(Marked) /\ h.text = Marked[m + 1]
              /\ Reached(m + 1)'
            BY <1>1, <1>5, <2>3, <3>1, NextOfMail DEF h
        <3>3. Opened(j)'
            BY <1>4, <1>8, <3>1, HoldsKept
        <3>4. /\ Len(ExpectedText) \in Nat /\ Len(Marked) = Len(ExpectedText) + 1
              /\ \A i \in 1..Len(ExpectedText) : Marked[i] = ExpectedText[i]
              /\ Marked[Len(ExpectedText) + 1] = "."
            BY <1>9, MarkedProps
        <3>5. m + 1 # Len(ExpectedText) + 1
            BY <1>1, <3>2, <3>4
        <3>6. m + 1 \in 1..Len(ExpectedText)
            BY <3>2, <3>4, <3>5
        <3>7. /\ m = j + n /\ j \in Nat
              /\ \A i \in 1..n : /\ collected[i].text = Unstuffed(ExpectedText[j + i])
                                 /\ collected[i].from = "mail"
            BY <3>1, <3>4 DEF Holds
        <3> HIDE DEF n
        <3>8. j + (n + 1) = m + 1 /\ m + 1 <= Len(ExpectedText)
            BY <1>10, <3>4, <3>6, <3>7
        <3>9. ASSUME NEW i \in 1..n + 1
              PROVE  /\ collected'[i].text = Unstuffed(ExpectedText[j + i])
                     /\ collected'[i].from = "mail"
            <4>1. CASE i \in 1..n
                BY <1>10, <3>7, <4>1
            <4>2. CASE i = n + 1
                <5>1. h.text = ExpectedText[j + i]
                    BY <3>2, <3>4, <3>6, <3>8, <4>2
                <5> QED BY <1>3, <1>5, <1>10, <2>3, <4>2, <5>1
            <4> QED BY <1>10, <4>1, <4>2
        <3>10. Holds(collected, j, m + 1)'
            BY <1>4, <1>10, <3>8, <3>9 DEF Holds
        <3> QED BY <3>1, <3>2, <3>3, <3>10
    <2> QED BY <1>1, <1>4, <1>9, <1>10, <2>1, <2>2, <2>3 DEF Mailed
<1>13. MailFiled'
    BY <1>1, <1>4, <1>8, SameBox DEF MailInv
<1> QED BY <1>2, <1>4, <1>7, <1>12, <1>13 DEF MailInv

LEMMA TakeDotStep ==
    ASSUME MailInv, TakeDot
    PROVE  MailInv'
<1> DEFINE h == Head(toServer)
           a == Len(TextBefore(mail, br2.line))
           e == Len(ExpectedText)
<1>1. /\ server = "data" /\ toServer # << >> /\ h.text = "."
      /\ mailbox' = Append(mailbox, collected) /\ collected' = << >> /\ server' = "ready"
      /\ toServer' = Tail(toServer) /\ UNCHANGED clientVars
      /\ toClient' = toClient \o [i \in 1..1 |-> [code |-> "250", to |-> h.no]]
    BY DEF TakeDot, Reply
<1>2. /\ Stream' /\ h \in SentLine /\ h = toServer[1]
      /\ toServer' # << >> => Follows(h, Head(toServer'), HasDot)
      /\ toServer' = << >> => (Within => Opens(h))
    BY <1>1, StreamTaken
<1>3. /\ toServer \in Seq(SentLine) /\ mail \in Mail /\ toClient \in Seq(ReplyLine)
      /\ collected \in Seq(FiledLine) /\ mailbox \in Seq(Seq(FiledLine))
    BY DEF MailInv, Stream, Reading, Mailed, Printed
<1>4. /\ toClient' \in Seq(ReplyLine) /\ (Clean(toClient') => Clean(toClient))
    <2> DEFINE r == [code |-> "250", to |-> h.no]
    <2>1. r \in ReplyLine
        BY <1>2, LineKinds DEF ReplyLine
    <2>2. toClient' = toClient \o [i \in 1..1 |-> r]
        BY <1>1
    <2> HIDE DEF r
    <2> QED BY <1>3, <2>1, <2>2, Replied
<1> HIDE DEF h
<1>5. /\ TypeOK' /\ Reading' /\ Printed'
      /\ mail' = mail /\ HasDot' = HasDot /\ Marked' = Marked /\ ExpectedText' = ExpectedText
      /\ (Within' <=> Within) /\ pc' = pc /\ br2' = br2
    BY <1>1, <1>4, ClientKept
<1>6. ~Opens(h)
    BY <1>1, <1>2, LineKinds
<1>7. Meets'
    <2>1. toServer' # << >> => Head(toServer').from = "input"
        <3>1. toServer' # << >> => Head(toServer').from # "mail"
            BY <1>2, <1>6 DEF Follows
        <3>2. toServer' \in Seq(SentLine)
            BY <1>2 DEF Stream
        <3>3. toServer' # << >> => Head(toServer') \in SentLine
            BY <3>2, HeadTailProperties
        <3> QED BY <3>1, <3>3, LineKinds
    <2> QED BY <1>1, <1>2, <1>5, <1>6, <2>1 DEF Meets
<1>8. NoRefusal' => NoRefusal
    <2>1. Printed /\ Printed' /\ printed' = printed
        BY <1>1, <1>5 DEF MailInv, clientVars
    <2> QED BY <1>4, <2>1, NoRefusalIs
\* A dot is under way only if mail.txt has one.
<1>9. HasDot
    <2>1. 1 \in 1..Len(toServer)
        BY <1>1, <1>3, EmptySeq
    <2> QED BY <1>1, <1>2, <2>1 DEF MailInv, Mailed
\* The dot is the end of the text, so the server has collected all that is left.
<1>10. PICK m \in 0..Len(Marked), j \in 0..Len(Marked) :
         Reached(m) /\ Opened(j) /\ Holds(collected, j, m)
    BY <1>1, <1>9 DEF MailInv, Mailed
<1>11. /\ m + 1 \in 0..Len(Marked) /\ Reached(m + 1)'
       /\ m = e /\ j \in 0..e /\ e \in Nat
    <2>1. h.from = "mail"
        BY <1>2, <1>1, LineKinds
    <2>2. /\ m \in Nat /\ m + 1 \in 0..Len(Marked) /\ h.text = Marked[m + 1] /\ Reached(m + 1)'
        BY <1>1, <1>10, <2>1, NextOfMail DEF h
    <2>3. /\ e \in Nat /\ Len(Marked) = e + 1 /\ \A i \in 1..e : Marked[i] # "."
        BY <1>3, MarkedProps
    <2>4. m + 1 \notin 1..e
        BY <1>1, <2>2, <2>3
    <2>5. j \in Nat /\ m = j + Len(collected) /\ Len(collected) \in Nat
        BY <1>3, <1>10, <2>3, LenProperties DEF Holds
    <2> HIDE DEF e
    <2>6. m = e /\ j \in 0..e
        BY <2>2, <2>3, <2>4, <2>5
    <2> QED BY <2>2, <2>3, <2>6
<1>12. Mailed'
    <2>1. collected' \in Seq(FiledLine) /\ mailbox' \in Seq(Seq(FiledLine))
        BY <1>1, <1>3, EmptySeq, AppendProperties
    <2>2. /\ MailFollows(toServer', Marked)
          /\ br2.open /\ Within => Begun(toServer', a)
        <3>1. MailFollows(toServer, Marked) /\ (br2.open /\ Within => Begun(toServer, a))
            BY <1>9 DEF MailInv, Mailed
        <3>2. /\ MailFollows(toServer, Marked) => MailFollows(toServer', Marked)
              /\ \A s \in Nat : Begun(toServer, s) => Begun(toServer', s)
            BY <1>1, <1>3, MarkedProps, FirstTaken
        <3>3. a \in Nat
            <4>1. TextBefore(mail, br2.line) \in Seq(MailText)
                BY Files, TextBeforeProps
            <4> QED BY <4>1, LenProperties
        <3> QED BY <3>1, <3>2, <3>3
    <2>3. \E n, i \in 0..Len(Marked) :
            Reached(n)' /\ (server' = "data" => Opened(i)' /\ Holds(collected, i, n)')
        BY <1>1, <1>11
    <2> QED BY <1>1, <1>5, <1>9, <2>1, <2>2, <2>3 DEF Mailed
<1>13. MailFiled'
    <2>1. /\ Len(mailbox) \in Nat /\ Len(mailbox') = Len(mailbox) + 1 /\ DOMAIN mailbox = 1..Len(mailbox)
          /\ DOMAIN mailbox' = 1..Len(mailbox') /\ mailbox'[Len(mailbox) + 1] = collected
          /\ \A k \in 1..Len(mailbox) : mailbox'[k] = mailbox[k]
        <3>1. mailbox' \in Seq(Seq(FiledLine))
            BY <1>1, <1>3, AppendProperties
        <3> QED BY <1>1, <1>3, <3>1, AppendProperties, LenProperties
    <2> SUFFICES ASSUME NEW k \in DOMAIN mailbox'
                 PROVE  \E i \in 0..e : Opened(i)' /\ Holds(mailbox[k], i, e)'
        BY <1>5 DEF MailFiled
    <2>2. CASE k = Len(mailbox) + 1
        <3>1. Opened(j)'
            BY <1>5, <1>8, <1>10, HoldsKept
        <3>2. Holds(mailbox[k], j, e)'
            BY <1>5, <1>10, <1>11, <2>1, <2>2 DEF Holds
        <3> QED BY <1>11, <3>1, <3>2
    <2>3. CASE k \in DOMAIN mailbox
        <3>1. PICK i \in 0..e : Opened(i) /\ Holds(mailbox[k], i, e)
            BY <2>3 DEF MailInv, MailFiled
        <3>2. Opened(i)'
            BY <1>5, <1>8, <3>1, HoldsKept
        <3>3. mailbox'[k] = mailbox[k]
            BY <2>1, <2>3
        <3>4. Holds(mailbox[k], i, e)'
            BY <1>5, <3>1, <3>3 DEF Holds
        <3> QED BY <3>1, <3>2, <3>4
    <2> QED BY <2>1, <2>2, <2>3
<1> QED BY <1>2, <1>5, <1>7, <1>12, <1>13 DEF MailInv

-----------------------------------------------------------------------------
(* The theorems.                                                           *)

LEMMA InitInv ==
    ASSUME Init
    PROVE  MailInv
<1>1. /\ input \in Script /\ br = 1 /\ mail \in Mail /\ br2 = [line |-> 1, open |-> TRUE]
      /\ pc = "greeting" /\ toServer = << >> /\ toClient = <<[code |-> "220", to |-> 0]>>
      /\ asked = 0 /\ printed = << >> /\ server = "start" /\ collected = << >> /\ mailbox = << >>
    BY DEF Init
<1>2. Len(input) \in Nat /\ Len(mail) \in Nat
    BY <1>1, ScriptAssumption, LenProperties, MailTyped
<1>3. /\ Len(printed) = 0 /\ printed \in Seq(ReplyLine)
      /\ Len(toServer) = 0 /\ toServer \in Seq(SentLine)
      /\ Len(collected) = 0 /\ collected \in Seq(FiledLine) /\ mailbox \in Seq(Seq(FiledLine))
    BY <1>1, EmptySeq
<1>4. toClient \in Seq(ReplyLine)
    <2>1. [code |-> "220", to |-> 0] \in ReplyLine
        BY DEF ReplyLine
    <2> QED BY <1>1, <2>1
<1>5. TypeOK
    BY <1>1, <1>2, <1>3 DEF TypeOK
<1>6. Reading
    BY <1>1 DEF Reading
<1>7. Printed
    BY <1>1, <1>3, <1>4 DEF Printed
<1>8. ~Within
    BY <1>1 DEF Within
<1>9. Stream
    BY <1>1, <1>3 DEF Stream, Chain
<1>10. Meets
    BY <1>1, <1>8 DEF Meets
<1>11. Mailed
    <2>1. Reached(0)
        BY <1>1, <1>3, <1>8 DEF Reached, Continues
    <2>2. 0 \in 0..Len(Marked)
        BY <1>1, MarkedProps
    <2>3. \E n, j \in 0..Len(Marked) :
            Reached(n) /\ (server = "data" => Opened(j) /\ Holds(collected, j, n))
        BY <1>1, <2>1, <2>2
    <2> QED BY <1>1, <1>3, <1>8, <2>3 DEF Mailed, MailFollows
<1>12. MailFiled
    <2>1. DOMAIN mailbox = {}
        BY <1>1
    <2> QED BY <2>1 DEF MailFiled
<1> QED BY <1>5, <1>6, <1>7, <1>9, <1>10, <1>11, <1>12 DEF MailInv

LEMMA StutterInv ==
    ASSUME MailInv, UNCHANGED vars
    PROVE  MailInv'
<1>1. /\ input' = input /\ br' = br /\ mail' = mail /\ br2' = br2 /\ pc' = pc /\ asked' = asked
      /\ printed' = printed /\ toClient' = toClient /\ server' = server
      /\ collected' = collected /\ mailbox' = mailbox /\ toServer' = toServer
    BY DEF vars, clientVars, serverVars
<1>2. TypeOK' /\ Printed'
    BY <1>1 DEF MailInv, TypeOK, Printed
<1>3. NoRefusal' => NoRefusal
    BY <1>1 DEF NoRefusal, Replies
<1>4. Reading'
    BY <1>1, SameMail DEF MailInv, Reading
<1>5. Within' <=> Within
    BY <1>1 DEF Within
<1>6. Stream' /\ Meets'
    BY <1>1, <1>3, <1>5, StreamKept
<1>7. Mailed'
    BY <1>1, <1>3, <1>5, MailedKept
<1>8. MailFiled'
    BY <1>1, <1>3, SameBox DEF MailInv
<1> QED BY <1>2, <1>4, <1>6, <1>7, <1>8 DEF MailInv

LEMMA MailInvStep ==
    ASSUME MailInv, [Next]_vars
    PROVE  MailInv'
<1>1. CASE Client
    BY <1>1, ReadGreetingStep, SendCommandStep, EndedStep, ReadReplyStep, MailLineStep,
       AttachmentFailsStep,
       EndOfMailStep, SendDotStep, ReadDotReplyStep DEF Client
<1>2. CASE Server
    BY <1>2, TakeCommandStep, TakeTextStep, TakeDotStep DEF Server
<1>3. CASE Close \/ Silence
    BY <1>3, FaultStep
<1>4. CASE UNCHANGED vars
    BY <1>4, StutterInv
<1> QED BY <1>1, <1>2, <1>3, <1>4 DEF Next

\* What the mail needs is inductive.
THEOREM MailInvariant == Spec => []MailInv
<1>1. Init => MailInv
    BY InitInv
<1>2. MailInv /\ [Next]_vars => MailInv'
    BY MailInvStep
<1> QED BY <1>1, <1>2, PTL DEF Spec

\* A mail the server files ends with the last line of mail.txt before the dot and
\* has nothing of input.txt, and it is all of mail.txt up to the dot, but for the
\* leading dots, unless DATA was refused: whatever the script, the text, the
\* attachments, the refusals and the moment the connection breaks.
THEOREM FiledMail == Spec => []MailFiled
<1>1. MailInv => MailFiled
    BY DEF MailInv
<1> QED BY <1>1, MailInvariant, PTL

\* The client, which looks at no reply, stays in the server's state.
THEOREM StatesKept == Spec => []KeepsStates
<1>1. MailInv => KeepsStates
    BY DEF MailInv, Meets, KeepsStates
<1> QED BY <1>1, MailInvariant, PTL

-----------------------------------------------------------------------------
(* The numbers: which line a reply answers.                                *)

\* The numbers depend on the two files alone.
LEMMA NumbersKept ==
    ASSUME input' = input, mail' = mail
    PROVE  /\ HasDot' = HasDot
           /\ \A i : (DataBefore(i)' <=> DataBefore(i)) /\ NumberOf(i)' = NumberOf(i)
           /\ \A t : LongUpTo(t)' = LongUpTo(t)
<1>1. HasDot' = HasDot
    BY SameMail
<1>2. ASSUME NEW i PROVE (DataBefore(i)' <=> DataBefore(i)) /\ NumberOf(i)' = NumberOf(i)
    BY <1>1 DEF DataBefore, NumberOf
<1>3. ASSUME NEW t PROVE LongUpTo(t)' = LongUpTo(t)
    BY <1>2 DEF LongUpTo
<1> QED BY <1>1, <1>2, <1>3

LEMMA NumberMoved ==
    ASSUME input' = input, mail' = mail, br' = br + 1
    PROVE  NumberOf(br)' = NumberOf(br + 1) /\ (DataBefore(br)' <=> DataBefore(br + 1))
<1>1. HasDot' = HasDot
    BY SameMail
<1>2. DataBefore(br)' <=> DataBefore(br + 1)
    BY DEF DataBefore
<1> QED BY <1>1, <1>2 DEF NumberOf

\* The number of a command and of the next one.
LEMMA NumberNext ==
    ASSUME MailInv
    PROVE  /\ \A i \in Nat : NumberOf(i) \in Nat
           /\ br <= Len(input) =>
                /\ br \in DOMAIN input
                /\ DataBefore(br + 1) <=> DataBefore(br) \/ input[br] = "DATA"
                /\ NumberOf(br) = IF HasDot /\ DataBefore(br) THEN br + 1 ELSE br
                /\ NumberOf(br + 1) = IF HasDot /\ (DataBefore(br) \/ input[br] = "DATA")
                                      THEN br + 2 ELSE br + 1
<1>1. /\ input \in Seq(Verb) /\ Len(input) \in Nat /\ br \in Nat /\ 1 <= br
    BY Files
<1>2. DOMAIN input = 1..Len(input)
    BY <1>1, LenProperties
<1>3. \A i \in Nat : NumberOf(i) \in Nat
    BY DEF NumberOf
<1>4. ASSUME br <= Len(input)
      PROVE  /\ br \in DOMAIN input
             /\ DataBefore(br + 1) <=> DataBefore(br) \/ input[br] = "DATA"
    <2>1. br \in DOMAIN input
        BY <1>1, <1>2, <1>4
    <2>2. \A j \in DOMAIN input : j < br + 1 <=> j < br \/ j = br
        BY <1>1, <1>2
    <2> QED BY <2>1, <2>2 DEF DataBefore
<1>5. NumberOf(br) = IF HasDot /\ DataBefore(br) THEN br + 1 ELSE br
    BY DEF NumberOf
<1>6. NumberOf(br + 1) = IF HasDot /\ DataBefore(br + 1) THEN (br + 1) + 1 ELSE br + 1
    BY DEF NumberOf
<1>7. (br + 1) + 1 = br + 2
    BY <1>1
<1> QED BY <1>3, <1>4, <1>5, <1>6, <1>7

\* The commands with long replies up to a number are some of all of them.
LEMMA LongBounded ==
    ASSUME MailInv
    PROVE  /\ Extra \in Nat
           /\ \A t : /\ IsFiniteSet(LongUpTo(t)) /\ Cardinality(LongUpTo(t)) \in Nat
                     /\ Cardinality(LongUpTo(t)) <= Extra
<1> DEFINE L == {i \in DOMAIN input : input[i] \in LongReply}
<1>1. DOMAIN input = 1..Len(input) /\ Len(input) \in Nat
    BY Files, LenProperties
<1>2. IsFiniteSet(1..Len(input))
    BY <1>1, FS_Interval
<1>3. IsFiniteSet(L)
    BY <1>1, <1>2, FS_Subset
<1>4. Extra = Cardinality(L) /\ Extra \in Nat
    BY <1>3, FS_CardinalityType DEF Extra
<1>5. ASSUME NEW t
      PROVE  /\ IsFiniteSet(LongUpTo(t)) /\ Cardinality(LongUpTo(t)) \in Nat
             /\ Cardinality(LongUpTo(t)) <= Extra
    <2>1. LongUpTo(t) \subseteq L
        BY DEF LongUpTo
    <2> HIDE DEF L
    <2> QED BY <1>3, <1>4, <2>1, FS_Subset, FS_CardinalityType
<1> QED BY <1>4, <1>5

\* With the next number there are no fewer, and one more if it is the number of
\* a command with a long reply.
LEMMA LongMore ==
    ASSUME MailInv, NEW t \in Nat
    PROVE  /\ Cardinality(LongUpTo(t)) <= Cardinality(LongUpTo(t + 1))
           /\ \A i \in DOMAIN input : input[i] \in LongReply /\ NumberOf(i) = t + 1 =>
                Cardinality(LongUpTo(t)) + 1 <= Cardinality(LongUpTo(t + 1))
<1> DEFINE S == LongUpTo(t)
           T == LongUpTo(t + 1)
<1>1. DOMAIN input = 1..Len(input) /\ Len(input) \in Nat
    BY Files, LenProperties
<1>2. \A i \in DOMAIN input : NumberOf(i) \in Nat
    BY <1>1, NumberNext
<1>3. \A i \in DOMAIN input : NumberOf(i) <= t => NumberOf(i) <= t + 1
    BY <1>2
<1>4. S \subseteq T
    BY <1>3 DEF LongUpTo
<1>5. /\ IsFiniteSet(S) /\ IsFiniteSet(T)
      /\ Cardinality(S) \in Nat /\ Cardinality(T) \in Nat
    BY LongBounded
<1>6. ASSUME NEW i \in DOMAIN input, input[i] \in LongReply, NumberOf(i) = t + 1
      PROVE  i \in T /\ i \notin S
    <2>1. NumberOf(i) <= t + 1 /\ ~(NumberOf(i) <= t)
        BY <1>6
    <2> QED BY <1>6, <2>1 DEF LongUpTo
<1> HIDE DEF S, T
<1>7. Cardinality(S) <= Cardinality(T)
    BY <1>4, <1>5, FS_Subset
<1>8. ASSUME NEW i \in T, i \notin S PROVE Cardinality(S) + 1 <= Cardinality(T)
    <2>1. /\ S \cup {i} \subseteq T /\ IsFiniteSet(S \cup {i})
          /\ Cardinality(S \cup {i}) = Cardinality(S) + 1
        BY <1>4, <1>5, <1>8, FS_AddElement
    <2>2. Cardinality(S \cup {i}) <= Cardinality(T)
        BY <1>5, <2>1, FS_Subset
    <2> QED BY <2>1, <2>2
<1> QED BY <1>6, <1>7, <1>8 DEF S, T

LEMMA FittingIs ==
    ASSUME NEW n \in Nat, NEW r \in ReplyLine
    PROVE  <<n, r>> \in Fitting <=> Fits(n, r)
BY DEF Fitting

\* A reply that fits goes on fitting, and the answer to the next number fits at
\* the next place, or at the two next ones if its command has a long reply.
LEMMA FitsKept ==
    ASSUME MailInv, input' = input, mail' = mail, asked' \in Nat, asked <= asked'
    PROVE  Fitting \subseteq Fitting'
<1> SUFFICES ASSUME NEW p \in Fitting PROVE p \in Fitting'
    OBVIOUS
<1>1. p \in Nat \X ReplyLine /\ Fits(p[1], p[2])
    BY DEF Fitting
<1> DEFINE n == p[1]
           r == p[2]
<1>2. n \in Nat /\ r \in ReplyLine /\ r.to \in Nat /\ asked \in Nat
    BY <1>1, Files DEF ReplyLine
<1>3. LongUpTo(r.to)' = LongUpTo(r.to)
    BY NumbersKept
<1>4. r.code # "null" =>
        r.to <= n - 1 /\ n - 1 <= r.to + Cardinality(LongUpTo(r.to)) /\ r.to <= asked
    BY <1>1 DEF Fits
<1>5. r.to <= asked => r.to <= asked'
    BY <1>2
<1>6. Fits(n, r)'
    BY <1>3, <1>4, <1>5 DEF Fits
<1> QED BY <1>1, <1>6 DEF Fitting

LEMMA FitsNext ==
    ASSUME MailInv, NEW n \in Nat, NEW q \in ReplyLine, NEW r \in ReplyLine,
           Fits(n, q), q.code # "null", r.to = q.to + 1, r.to <= asked
    PROVE  /\ Fits(n + 1, r)
           /\ (\E i \in DOMAIN input : input[i] \in LongReply /\ NumberOf(i) = r.to)
                => Fits(n + 2, r)
<1> DEFINE t == q.to
           c == Cardinality(LongUpTo(t))
           d == Cardinality(LongUpTo(t + 1))
<1>1. t \in Nat /\ r.to = t + 1
    BY DEF ReplyLine
<1>2. t <= n - 1 /\ n - 1 <= t + c
    BY DEF Fits
<1>3. c \in Nat /\ d \in Nat
    BY LongBounded
<1>4. c <= d
    BY <1>1, LongMore
<1>5. (\E i \in DOMAIN input : input[i] \in LongReply /\ NumberOf(i) = r.to) => c + 1 <= d
    BY <1>1, LongMore
<1>6. r.to \in Nat /\ d = Cardinality(LongUpTo(r.to))
    BY <1>1
<1> HIDE DEF c, d
<1>7. r.to <= (n + 1) - 1 /\ (n + 1) - 1 <= r.to + d
    BY <1>1, <1>2, <1>3, <1>4
<1>8. c + 1 <= d => r.to <= (n + 2) - 1 /\ (n + 2) - 1 <= r.to + d
    BY <1>1, <1>2, <1>3
<1> QED BY <1>5, <1>6, <1>7, <1>8 DEF Fits

\* The replies in the order in which they came, with those not read yet.
LEMMA LastKnown ==
    ASSUME Printed, printed # << >> \/ toClient # << >>
    PROVE  /\ LastReply \in ReplyLine
           /\ toClient # << >> => LastReply = toClient[Len(toClient)] /\ Len(toClient) \in 1..Len(toClient)
           /\ toClient = << >> => LastReply = printed[Len(printed)] /\ Len(printed) \in 1..Len(printed)
<1>1. printed \in Seq(ReplyLine) /\ toClient \in Seq(ReplyLine)
    BY DEF Printed
<1>2. toClient # << >> => Len(toClient) \in 1..Len(toClient) /\ toClient[Len(toClient)] \in ReplyLine
    BY <1>1, EmptySeq, ElementOfSeq, LenProperties
<1>3. printed # << >> => Len(printed) \in 1..Len(printed) /\ printed[Len(printed)] \in ReplyLine
    BY <1>1, EmptySeq, ElementOfSeq, LenProperties
<1> QED BY <1>2, <1>3 DEF LastReply, Last

\* Reading a line moves it, and nothing else.
LEMMA ReadsCounted ==
    ASSUME SmtpInv, ReadLine, Printed', UNCHANGED <<input, mail, asked, server, toServer>>
    PROVE  Numbered' /\ Answering' /\ Counted'
<1>1. /\ printed \in Seq(ReplyLine) /\ toClient \in Seq(ReplyLine)
      /\ printed' \in Seq(ReplyLine) /\ toClient' \in Seq(ReplyLine)
      /\ MailInv /\ Numbered /\ Answering /\ Counted /\ Printed
    BY DEF SmtpInv, MailInv, Printed
<1>2. /\ HasDot' = HasDot /\ \A i : NumberOf(i)' = NumberOf(i)
      /\ NoRefusal' => NoRefusal
    BY <1>1, NumbersKept, NoRefusalIs, Reads
<1>3. asked \in Nat /\ asked' = asked /\ asked <= asked' /\ asked' \in Nat
    BY <1>1, Files
<1>4. Numbered'
    BY <1>1, <1>2 DEF Numbered
<1>5. Len(printed) \in Nat /\ Len(toClient) \in Nat
    BY <1>1, LenProperties
<1>6. Fitting \subseteq Fitting'
    BY <1>1, <1>3, FitsKept
<1>7. CASE toClient # << >>
    <2> DEFINE h == Head(toClient)
    <2>1. /\ printed' = Append(printed, h) /\ toClient' = Tail(toClient)
        BY <1>7 DEF ReadLine
    <2>2. /\ h = toClient[1] /\ h \in ReplyLine /\ Len(toClient) \in Nat \ {0}
          /\ Len(toClient') = Len(toClient) - 1
          /\ \A k \in 1..Len(toClient) - 1 : k + 1 \in 1..Len(toClient) /\ toClient'[k] = toClient[k + 1]
        BY <1>1, <1>7, <2>1, TailAt
    <2> HIDE DEF h
    <2>3. /\ Len(printed') = Len(printed) + 1 /\ printed'[Len(printed) + 1] = h /\ printed' # << >>
          /\ \A n \in 1..Len(printed) : printed'[n] = printed[n]
        BY <1>1, <2>1, <2>2, AppendProperties, LenProperties
    <2>4. 1 \in 1..Len(toClient)
        BY <2>2
    <2>5. ASSUME NoRefusal', NEW n \in 1..Len(printed') PROVE <<n, printed'[n]>> \in Fitting'
        <3>1. n \in 1..Len(printed) \/ n = Len(printed) + 1
            BY <1>5, <2>3
        <3>2. CASE n \in 1..Len(printed)
            <4>1. <<n, printed[n]>> \in Fitting
                BY <1>1, <1>2, <2>5, <3>2 DEF Counted
            <4> QED BY <1>6, <2>3, <3>2, <4>1
        <3>3. CASE n = Len(printed) + 1
            <4>1. <<Len(printed) + 1, toClient[1]>> \in Fitting
                BY <1>1, <1>2, <2>4, <2>5 DEF Counted
            <4> QED BY <1>6, <2>2, <2>3, <3>3, <4>1
        <3> QED BY <3>1, <3>2, <3>3
    <2>6. ASSUME NoRefusal', NEW k \in 1..Len(toClient')
          PROVE  <<Len(printed') + k, toClient'[k]>> \in Fitting'
        <3>1. /\ k \in 1..Len(toClient) - 1 /\ k + 1 \in 1..Len(toClient)
              /\ Len(printed) + (k + 1) = Len(printed') + k
            BY <1>5, <2>2, <2>3
        <3>2. <<Len(printed) + (k + 1), toClient[k + 1]>> \in Fitting
            BY <1>1, <1>2, <2>6, <3>1 DEF Counted
        <3> QED BY <1>6, <2>2, <3>1, <3>2
    <2>7. \A k \in 1..Len(toClient') : toClient'[k].code # "null"
        BY <1>1, <2>2 DEF Counted
    <2>8. ~(\E n \in 1..Len(printed') : printed'[n].code = "null")
        <3>1. ~(\E n \in 1..Len(printed) : printed[n].code = "null")
            BY <1>1, <1>7 DEF Counted
        <3>2. h.code # "null"
            BY <1>1, <2>2, <2>4 DEF Counted
        <3>3. \A n \in 1..Len(printed') : n \in 1..Len(printed) \/ n = Len(printed) + 1
            BY <1>5, <2>3
        <3> QED BY <2>3, <3>1, <3>2, <3>3
    <2>9. Counted'
        BY <2>3, <2>5, <2>6, <2>7, <2>8 DEF Counted
    <2>10. LastReply' = LastReply
        <3>1. CASE toClient' = << >>
            <4>1. Len(toClient) = 1 /\ LastReply = toClient[Len(toClient)]
                BY <1>1, <1>7, <2>2, <3>1, EmptySeq, LastKnown
            <4>2. LastReply' = printed'[Len(printed')]
                BY <3>1 DEF LastReply, Last
            <4> QED BY <2>2, <2>3, <4>1, <4>2
        <3>2. CASE toClient' # << >>
            <4>1. LastReply = toClient[Len(toClient)] /\ LastReply' = toClient'[Len(toClient')]
                BY <1>7, <3>2 DEF LastReply, Last
            <4>2. Len(toClient') \in 1..Len(toClient) - 1 /\ Len(toClient') + 1 = Len(toClient)
                BY <1>1, <2>2, <3>2, EmptySeq, LenProperties
            <4> QED BY <2>2, <4>1, <4>2
        <3> QED BY <3>1, <3>2
    <2>11. Answering'
        BY <1>1, <1>2, <2>10 DEF Answering
    <2> QED BY <1>4, <2>9, <2>11
<1>8. CASE toClient = << >>
    <2>1. PICK z \in ReplyLine : /\ server = "closed" /\ toClient' = << >>
                                /\ printed' = Append(printed, z) /\ z.code = "null"
        BY <1>3, <1>8 DEF ReadLine, ReplyLine
    <2>2. /\ Len(printed') = Len(printed) + 1 /\ printed'[Len(printed) + 1] = z /\ printed' # << >>
          /\ \A n \in 1..Len(printed) : printed'[n] = printed[n]
        BY <1>1, <2>1, AppendProperties, LenProperties
    <2>3. ASSUME NoRefusal', NEW n \in 1..Len(printed') PROVE <<n, printed'[n]>> \in Fitting'
        <3>1. n \in Nat /\ (n \in 1..Len(printed) \/ n = Len(printed) + 1)
            BY <1>5, <2>2
        <3>2. CASE n \in 1..Len(printed)
            <4>1. <<n, printed[n]>> \in Fitting
                BY <1>1, <1>2, <2>3, <3>2 DEF Counted
            <4> QED BY <1>6, <2>2, <3>2, <4>1
        <3>3. CASE n = Len(printed) + 1
            <4>1. Fits(n, z)'
                BY <2>1 DEF Fits
            <4>2. <<n, z>> \in Fitting'
                BY <3>1, <4>1 DEF Fitting
            <4> QED BY <2>2, <3>3, <4>2
        <3> QED BY <3>1, <3>2, <3>3
    <2>4. Len(toClient') = 0
        BY <2>1
    <2>5. Counted'
        BY <2>1, <2>2, <2>3, <2>4 DEF Counted
    <2>6. Answering'
        BY <2>1 DEF Answering
    <2> QED BY <1>4, <2>5, <2>6
<1> QED BY <1>7, <1>8

\* Nothing is sent, taken, read or answered.
LEMMA CountKept ==
    ASSUME SmtpInv, UNCHANGED <<input, mail, asked, printed, toClient, toServer>>,
           server' = server \/ (server # "closed" /\ server' \in {"closed", "silent"})
    PROVE  Numbered' /\ Answering' /\ Counted'
<1>1. MailInv /\ Numbered /\ Answering /\ Counted
    BY DEF SmtpInv
<1>2. /\ HasDot' = HasDot /\ \A i : NumberOf(i)' = NumberOf(i)
      /\ NoRefusal' = NoRefusal /\ LastReply' = LastReply
    BY <1>1, NumbersKept DEF NoRefusal, Replies, LastReply
<1>3. Fitting \subseteq Fitting'
    <2>1. asked \in Nat /\ asked <= asked /\ asked' = asked
        BY <1>1, Files
    <2> QED BY <1>1, <2>1, FitsKept
<1>4. Numbered'
    BY <1>1, <1>2 DEF Numbered
<1>5. Answering'
    BY <1>1, <1>2 DEF Answering
<1>6. Counted'
    BY <1>1, <1>2, <1>3 DEF Counted
<1> QED BY <1>4, <1>5, <1>6

\* Lines with the number asked are added to those under way, all but the first
\* of them text of the mail.
LEMMA LinesAdded ==
    ASSUME SmtpInv, UNCHANGED <<input, mail, printed, toClient, server>>,
           NEW x \in Seq(SentLine), toServer' = toServer \o x,
           asked' \in Nat, asked <= asked',
           \A k \in 1..Len(x) : /\ x[k].no = asked' /\ (k # 1 => Step(x[k]) = 0)
                                /\ asked' = asked + Step(x[1])
                                /\ x[k].from = "input" =>
                                     \E i \in DOMAIN input : x[k].text = input[i] /\ x[k].no = NumberOf(i),
           x = << >> => asked' = asked
    PROVE  Numbered' /\ Answering' /\ Counted'
<1> DEFINE t == toServer
           u == toServer'
<1>1. /\ MailInv /\ Numbered /\ Answering /\ Counted /\ t \in Seq(SentLine)
    BY DEF SmtpInv, MailInv, Stream
<1>2. /\ HasDot' = HasDot /\ \A i : NumberOf(i)' = NumberOf(i)
      /\ NoRefusal' = NoRefusal /\ LastReply' = LastReply
    BY <1>1, NumbersKept DEF NoRefusal, Replies, LastReply
<1>3. asked \in Nat
    BY <1>1, Files
<1>4. Fitting \subseteq Fitting'
    BY <1>1, FitsKept
<1>5. Counted'
    BY <1>1, <1>2, <1>4 DEF Counted
<1>6. /\ u \in Seq(SentLine) /\ Len(t) \in Nat /\ Len(x) \in Nat /\ Len(u) = Len(t) + Len(x)
      /\ \A i \in 1..Len(t) : u[i] = t[i]
      /\ \A i \in Len(t) + 1..Len(t) + Len(x) : i - Len(t) \in 1..Len(x) /\ u[i] = x[i - Len(t)]
    BY <1>1, ConcatAt
<1>7. \A i \in 1..Len(u) : i \in 1..Len(t) \/ i \in Len(t) + 1..Len(t) + Len(x)
    BY <1>6
<1>8. \A i \in 1..Len(t) : t[i].no \in Nat
    BY <1>1, LineKinds, ElementOfSeq
<1>9. t # << >> => t[Len(t)].no = asked /\ Len(t) \in 1..Len(t) /\ Head(t) = t[1] /\ 1 \in 1..Len(t)
    BY <1>1, EmptySeq DEF Numbered, Last
<1>10. /\ (t = << >> <=> Len(t) = 0) /\ (x = << >> <=> Len(x) = 0) /\ (u = << >> <=> Len(u) = 0)
    BY <1>1, <1>6, EmptySeq
<1>11. ASSUME NEW k \in 1..Len(u)
       PROVE  /\ u[k].no <= asked'
              /\ u[k].from = "input" =>
                   \E i \in DOMAIN input : u[k].text = input[i] /\ u[k].no = NumberOf(i)
    <2>1. CASE k \in 1..Len(t)
        <3>1. u[k] = t[k] /\ t[k].no <= asked /\ t[k].no \in Nat
            BY <1>1, <1>6, <1>8, <2>1 DEF Numbered
        <3>2. t[k].no <= asked'
            BY <1>3, <3>1
        <3> QED BY <1>1, <2>1, <3>1, <3>2 DEF Numbered
    <2>2. CASE k \in Len(t) + 1..Len(t) + Len(x)
        <3>1. k - Len(t) \in 1..Len(x) /\ u[k] = x[k - Len(t)]
            BY <1>6, <2>2
        <3>2. u[k].no = asked'
            BY <3>1
        <3> QED BY <3>1, <3>2
    <2> QED BY <1>7, <2>1, <2>2
<1>12. ASSUME NEW k \in 1..Len(u) - 1 PROVE u[k + 1].no = u[k].no + Step(u[k + 1])
    <2>1. CASE k \in 1..Len(t) - 1
        <3>1. k \in 1..Len(t) /\ k + 1 \in 1..Len(t)
            BY <1>6, <2>1
        <3>2. u[k] = t[k] /\ u[k + 1] = t[k + 1]
            BY <1>6, <3>1
        <3> QED BY <1>1, <2>1, <3>2 DEF Numbered
    <2>2. CASE k = Len(t)
        <3>1. k \in 1..Len(t) /\ k + 1 \in Len(t) + 1..Len(t) + Len(x) /\ (k + 1) - Len(t) = 1
            BY <1>6, <2>2
        <3>2. u[k] = t[k] /\ u[k + 1] = x[1] /\ 1 \in 1..Len(x)
            BY <1>6, <3>1
        <3>3. t[k].no = asked
            BY <1>6, <1>9, <1>10, <2>2, <3>1
        <3> QED BY <3>2, <3>3
    <2>3. CASE k \in Len(t) + 1..Len(t) + Len(x) - 1
        <3>1. /\ k \in Len(t) + 1..Len(t) + Len(x) /\ k + 1 \in Len(t) + 1..Len(t) + Len(x)
              /\ (k + 1) - Len(t) # 1
            BY <1>6, <2>3
        <3>2. /\ u[k] = x[k - Len(t)] /\ u[k + 1] = x[(k + 1) - Len(t)]
              /\ k - Len(t) \in 1..Len(x) /\ (k + 1) - Len(t) \in 1..Len(x)
            BY <1>6, <3>1
        <3>3. u[k].no = asked' /\ u[k + 1].no = asked' /\ Step(u[k + 1]) = 0
            BY <3>1, <3>2
        <3>4. \A v \in Nat : v + 0 = v
            OBVIOUS
        <3> QED BY <3>3, <3>4
    <2>4. k \in 1..Len(t) - 1 \/ k = Len(t) \/ k \in Len(t) + 1..Len(t) + Len(x) - 1
        BY <1>6
    <2> QED BY <2>1, <2>2, <2>3, <2>4
<1>13. u # << >> => u[Len(u)].no = asked'
    <2>1. CASE Len(x) = 0
        <3>1. Len(u) = Len(t) /\ asked' = asked
            BY <1>6, <1>10, <2>1
        <3>2. u # << >> => t # << >>
            BY <1>10, <3>1
        <3> QED BY <1>6, <1>9, <3>1, <3>2
    <2>2. CASE Len(x) # 0
        <3>1. Len(u) \in Len(t) + 1..Len(t) + Len(x)
            BY <1>6, <2>2
        <3> QED BY <1>6, <3>1
    <2> QED BY <2>1, <2>2
<1>14. Numbered'
    BY <1>2, <1>11, <1>12, <1>13 DEF Numbered, Last
<1>15. Answering'
    <2>1. CASE t # << >>
        <3>1. u # << >> /\ Head(u) = Head(t)
            BY <1>6, <1>9, <1>10, <2>1, EmptySeq
        <3> QED BY <1>1, <1>2, <2>1, <3>1 DEF Answering
    <2>2. CASE t = << >> /\ x = << >>
        <3>1. u = << >> /\ asked' = asked
            BY <1>6, <1>10, <2>2
        <3> QED BY <1>1, <1>2, <2>2, <3>1 DEF Answering
    <2>3. CASE t = << >> /\ x # << >>
        <3>1. /\ u # << >> /\ 1 \in Len(t) + 1..Len(t) + Len(x) /\ 1 - Len(t) = 1 /\ 1 \in 1..Len(x)
            BY <1>6, <1>10, <2>3
        <3>2. Head(u) = x[1]
            BY <1>6, <3>1, EmptySeq
        <3>3. Head(u).no = asked + Step(Head(u))
            BY <3>1, <3>2
        <3> QED BY <1>1, <1>2, <2>3, <3>1, <3>3 DEF Answering
    <2> QED BY <2>1, <2>2, <2>3
<1> QED BY <1>5, <1>14, <1>15

LEMMA ReadGreetingCounts ==
    ASSUME SmtpInv, ReadGreeting, MailInv'
    PROVE  SmtpInv'
<1>1. /\ pc = "greeting" /\ ReadLine /\ pc' = "command"
      /\ input' = input /\ br' = br /\ mail' = mail /\ asked' = asked
      /\ server' = server /\ toServer' = toServer /\ br2' = br2
    BY DEF ReadGreeting, serverVars
<1>2. Numbered' /\ Answering' /\ Counted'
    BY <1>1, ReadsCounted DEF MailInv
<1>3. /\ HasDot' = HasDot /\ \A i : (DataBefore(i)' <=> DataBefore(i)) /\ NumberOf(i)' = NumberOf(i)
    BY <1>1, NumbersKept
<1>4. Asked'
    BY <1>1, <1>3 DEF SmtpInv, Asked
<1>5. Ending'
    BY <1>1 DEF Ending
<1> QED BY <1>2, <1>4, <1>5 DEF SmtpInv

LEMMA ReadReplyCounts ==
    ASSUME SmtpInv, ReadReply, MailInv'
    PROVE  SmtpInv'
<1>1. /\ pc = "reply" /\ ReadLine
      /\ \/ input[br] = "QUIT" /\ pc' = "ended" /\ br' = br
         \/ input[br] = "DATA" /\ br2.open /\ pc' = "mail" /\ br' = br
         \/ input[br] = "DATA" /\ pc' = "ended" /\ br' = br
         \/ input[br] # "DATA" /\ pc' = "command" /\ br' = br + 1
      /\ input' = input /\ mail' = mail /\ asked' = asked
      /\ server' = server /\ toServer' = toServer /\ br2' = br2
    BY DEF ReadReply, serverVars
<1>2. Numbered' /\ Answering' /\ Counted'
    BY <1>1, ReadsCounted DEF MailInv
<1>3. /\ HasDot' = HasDot /\ \A i : (DataBefore(i)' <=> DataBefore(i)) /\ NumberOf(i)' = NumberOf(i)
    BY <1>1, NumbersKept
<1>4. MailInv /\ asked = NumberOf(br) /\ br <= Len(input) /\ br \in Nat
      /\ (HasDot /\ DataBefore(br) => ~br2.open)
    BY <1>1, Files DEF SmtpInv, MailInv, Asked, Reading
<1>5. /\ DataBefore(br + 1) <=> DataBefore(br) \/ input[br] = "DATA"
      /\ NumberOf(br) = IF HasDot /\ DataBefore(br) THEN br + 1 ELSE br
      /\ NumberOf(br + 1) = IF HasDot /\ (DataBefore(br) \/ input[br] = "DATA") THEN br + 2 ELSE br + 1
    BY <1>4, NumberNext
<1>6. Asked'
    <2>1. CASE br' = br
        BY <1>1, <1>3, <1>4, <2>1 DEF Asked
    <2>2. CASE br' = br + 1 /\ input[br] # "DATA" /\ pc' = "command"
        <3>1. asked = NumberOf(br + 1) - 1
            BY <1>4, <1>5, <2>2
        <3>2. NumberOf(br)' = NumberOf(br + 1) /\ (DataBefore(br)' <=> DataBefore(br + 1))
            BY <1>1, <2>2, NumberMoved
        <3> QED BY <1>1, <1>3, <1>4, <1>5, <2>2, <3>1, <3>2 DEF Asked
    <2> QED BY <1>1, <2>1, <2>2
<1>7. Len(printed') = asked' + 1
    <2>1. Len(printed) = asked /\ Len(printed') = Len(printed) + 1
        BY <1>1, <1>4, Reads DEF MailInv, Printed
    <2> QED BY <1>1, <2>1
<1>8. Ending'
    BY <1>7 DEF Ending
<1> QED BY <1>2, <1>6, <1>8 DEF SmtpInv

LEMMA ReadDotReplyCounts ==
    ASSUME SmtpInv, ReadDotReply, MailInv'
    PROVE  SmtpInv'
<1>1. /\ pc = "dot" /\ ReadLine /\ pc' = "command" /\ br' = br + 1
      /\ input' = input /\ mail' = mail /\ asked' = asked
      /\ server' = server /\ toServer' = toServer /\ br2' = [br2 EXCEPT !.open = FALSE]
    BY DEF ReadDotReply, serverVars
<1>2. Numbered' /\ Answering' /\ Counted'
    BY <1>1, ReadsCounted DEF MailInv
<1>3. /\ HasDot' = HasDot /\ \A i : (DataBefore(i)' <=> DataBefore(i)) /\ NumberOf(i)' = NumberOf(i)
    BY <1>1, NumbersKept
<1>4. /\ MailInv /\ asked = NumberOf(br) + 1 /\ HasDot /\ br <= Len(input) /\ br \in Nat
      /\ input[br] = "DATA" /\ ~DataBefore(br) /\ br2 \in [line : Nat, open : BOOLEAN]
    BY <1>1, Files DEF SmtpInv, MailInv, Asked, Reading
<1>5. NumberOf(br) = br /\ NumberOf(br + 1) = br + 2
    BY <1>4, NumberNext
<1>6. asked' = NumberOf(br)' - 1
    BY <1>1, <1>4, <1>5, NumberMoved
<1>7. ~br2'.open
    BY <1>1, <1>4
<1>8. Asked'
    BY <1>1, <1>6, <1>7 DEF Asked
<1>9. Ending'
    BY <1>1 DEF Ending
<1> QED BY <1>2, <1>8, <1>9 DEF SmtpInv

LEMMA EndedCounts ==
    ASSUME SmtpInv, EndOfScript \/ ConnectionReset, MailInv'
    PROVE  SmtpInv'
<1>1. /\ pc' = "ended" /\ UNCHANGED <<input, br, mail, asked, printed, toClient, toServer>>
      /\ server' = server
      /\ br > Len(input) \/ (server = "closed" /\ toServer # << >>)
    BY DEF EndOfScript, ConnectionReset, serverVars
<1>2. Numbered' /\ Answering' /\ Counted'
    BY <1>1, CountKept
<1>3. Asked'
    BY <1>1 DEF Asked
<1>4. Len(input) \in Nat /\ br \in Nat
    BY Files DEF SmtpInv
<1>5. Ending'
    BY <1>1, <1>4 DEF Ending
<1> QED BY <1>2, <1>3, <1>5 DEF SmtpInv

LEMMA EndOfMailCounts ==
    ASSUME SmtpInv, EndOfMail, MailInv'
    PROVE  SmtpInv'
<1>1. /\ pc = "mail" /\ br2.line > Len(mail) /\ pc' = "command" /\ br' = br + 1 /\ br2' = br2
      /\ UNCHANGED <<input, mail, asked, printed, toClient, toServer>> /\ server' = server
    BY DEF EndOfMail, serverVars
<1>2. Numbered' /\ Answering' /\ Counted'
    BY <1>1, CountKept
<1>3. /\ HasDot' = HasDot /\ \A i : (DataBefore(i)' <=> DataBefore(i)) /\ NumberOf(i)' = NumberOf(i)
    BY <1>1, NumbersKept
<1>4. /\ MailInv /\ asked = NumberOf(br) /\ br <= Len(input) /\ br \in Nat /\ br2.open
      /\ mail \in Mail /\ Len(mail) \in Nat /\ br2.line \in 1..Len(mail) + 1
      /\ \A i \in 1..br2.line - 1 : mail[i].kind # "dot"
    BY <1>1, Files DEF SmtpInv, MailInv, Asked, Reading
\* The end is reached only by a mail without a dot.
<1>5. ~HasDot
    <2>1. DOMAIN mail = 1..Len(mail)
        BY <1>4, MailTyped, LenProperties
    <2>2. \A i \in 1..Len(mail) : i \in 1..br2.line - 1
        BY <1>1, <1>4
    <2> QED BY <1>4, <2>1, <2>2 DEF HasDot
<1>6. NumberOf(br) = br /\ NumberOf(br + 1) = br + 1
    BY <1>4, <1>5, NumberNext
<1>7. asked' = NumberOf(br)' - 1
    BY <1>1, <1>4, <1>6, NumberMoved
<1>8. Asked'
    BY <1>1, <1>3, <1>5, <1>7 DEF Asked
<1>9. Ending'
    BY <1>1 DEF Ending
<1> QED BY <1>2, <1>8, <1>9 DEF SmtpInv

LEMMA FaultCounts ==
    ASSUME SmtpInv, Close \/ Silence \/ UNCHANGED vars, MailInv'
    PROVE  SmtpInv'
<1>1. /\ UNCHANGED <<input, br, br2, mail, pc, asked, printed, toClient, toServer>>
      /\ server' = server \/ (server # "closed" /\ server' \in {"closed", "silent"})
    BY DEF Close, Silence, clientVars, serverVars, vars
<1>2. Numbered' /\ Answering' /\ Counted'
    BY <1>1, CountKept
<1>3. /\ HasDot' = HasDot /\ \A i : (DataBefore(i)' <=> DataBefore(i)) /\ NumberOf(i)' = NumberOf(i)
    BY <1>1, NumbersKept
<1>4. Asked'
    BY <1>1, <1>3 DEF SmtpInv, Asked
<1>5. Ending'
    BY <1>1 DEF SmtpInv, Ending
<1> QED BY <1>2, <1>4, <1>5 DEF SmtpInv

LEMMA SendCommandCounts ==
    ASSUME SmtpInv, SendCommand, MailInv'
    PROVE  SmtpInv'
<1> DEFINE c == Line(input[br], "input", asked + 1)
<1>1. /\ pc = "command" /\ br <= Len(input) /\ toServer' = Append(toServer, c)
      /\ asked' = asked + 1 /\ pc' = "reply"
      /\ UNCHANGED <<input, br, mail, br2, printed, toClient, server>>
    BY DEF SendCommand, serverVars
<1>2. /\ asked \in Nat /\ input[br] \in Verb /\ toServer \in Seq(SentLine) /\ MailInv
      /\ asked = NumberOf(br) - 1 /\ (HasDot /\ DataBefore(br) => ~br2.open)
    BY <1>1, Files DEF SmtpInv, MailInv, Stream, Asked
<1>3. br \in DOMAIN input /\ NumberOf(br) \in Nat /\ NumberOf(br) = asked + 1
    <2>1. br \in Nat /\ br \in DOMAIN input
        BY <1>1, <1>2, Files, NumberNext
    <2>2. NumberOf(br) \in Nat
        BY <1>2, <2>1, NumberNext
    <2> QED BY <1>2, <2>1, <2>2
<1>4. /\ c \in SentLine /\ c.no = asked + 1 /\ c.text = input[br] /\ Step(c) = 1
    BY <1>2 DEF Line, SentLine, Step
<1> HIDE DEF c
<1>5. Numbered' /\ Answering' /\ Counted'
    <2> DEFINE x == <<c>>
    <2>1. x \in Seq(SentLine) /\ Len(x) = 1 /\ x[1] = c /\ x # << >>
        BY <1>4
    <2>2. toServer' = toServer \o x
        BY <1>1, <1>2, <1>4, AppendIsConcat
    <2>3. ASSUME NEW k \in 1..Len(x)
          PROVE  /\ x[k].no = asked' /\ (k # 1 => Step(x[k]) = 0)
                 /\ asked' = asked + Step(x[1])
                 /\ x[k].from = "input" =>
                      \E i \in DOMAIN input : x[k].text = input[i] /\ x[k].no = NumberOf(i)
        <3>1. k = 1
            BY <2>1
        <3> HIDE DEF x
        <3> QED BY <1>1, <1>3, <1>4, <2>1, <3>1
    <2>4. asked' \in Nat /\ asked <= asked'
        BY <1>1, <1>2
    <2> HIDE DEF x
    <2> QED BY <1>1, <2>1, <2>2, <2>3, <2>4, LinesAdded
<1>6. /\ HasDot' = HasDot /\ \A i : (DataBefore(i)' <=> DataBefore(i)) /\ NumberOf(i)' = NumberOf(i)
    BY <1>1, NumbersKept
<1>7. Asked'
    BY <1>1, <1>2, <1>3, <1>6 DEF Asked
<1>8. Ending'
    BY <1>1 DEF Ending
<1> QED BY <1>5, <1>7, <1>8 DEF SmtpInv

\* Text of the mail has the number of the command before it.
LEMMA TextCounts ==
    ASSUME SmtpInv, UNCHANGED <<input, mail, asked, printed, toClient, server>>,
           NEW x \in Seq(SentLine), toServer' = toServer \o x,
           \A i \in 1..Len(x) : x[i].from = "mail" /\ x[i].no = asked /\ Step(x[i]) = 0
    PROVE  Numbered' /\ Answering' /\ Counted'
<1>1. asked \in Nat /\ asked <= asked /\ Len(x) \in Nat
    BY Files, LenProperties DEF SmtpInv
<1>2. ASSUME NEW k \in 1..Len(x)
      PROVE  /\ x[k].no = asked' /\ (k # 1 => Step(x[k]) = 0)
             /\ asked' = asked + Step(x[1])
             /\ x[k].from = "input" =>
                  \E i \in DOMAIN input : x[k].text = input[i] /\ x[k].no = NumberOf(i)
    <2>1. x[k].from = "mail" /\ x[k].no = asked /\ Step(x[k]) = 0
        OBVIOUS
    <2>2. 1 \in 1..Len(x)
        BY <1>1
    <2>3. Step(x[1]) = 0
        BY <2>2
    <2>4. asked' = asked + 0
        BY <1>1
    <2> QED BY <2>1, <2>3, <2>4
<1> QED BY <1>1, <1>2, LinesAdded

LEMMA MailLineCounts ==
    ASSUME SmtpInv, MailLine, MailInv'
    PROVE  SmtpInv'
<1> DEFINE n == Len(TextOf(mail[br2.line]))
           x == Sent(n)
<1>1. /\ pc = "mail" /\ br2.line <= Len(mail) /\ mail[br2.line].kind # "dot"
      /\ toServer' = toServer \o x /\ br2' = [br2 EXCEPT !.line = @ + 1]
      /\ UNCHANGED <<input, br, mail, pc, asked, printed, toClient, server>>
    BY DEF MailLine, serverVars
<1>2. MailInv /\ br2 \in [line : Nat, open : BOOLEAN]
    BY Files DEF SmtpInv
<1>3. n \in Nat /\ n \in 0..n
    <2>1. Len(TextOf(mail[br2.line])) \in Nat
        BY <1>1, <1>2, NextText
    <2> QED BY <2>1
<1>4. /\ x \in Seq(SentLine) /\ Len(x) = n
      /\ \A i \in 1..n : x[i].from = "mail" /\ x[i].no = asked /\ Step(x[i]) = 0
    BY <1>1, <1>2, <1>3, TextSent
<1> HIDE DEF n, x
<1>5. Numbered' /\ Answering' /\ Counted'
    BY <1>1, <1>4, TextCounts
<1>6. /\ HasDot' = HasDot /\ \A i : (DataBefore(i)' <=> DataBefore(i)) /\ NumberOf(i)' = NumberOf(i)
    BY <1>1, NumbersKept
<1>7. br2'.open = br2.open
    BY <1>1, <1>2
<1>8. Asked'
    BY <1>1, <1>6, <1>7 DEF SmtpInv, Asked
<1>9. Ending'
    BY <1>1 DEF Ending
<1> QED BY <1>5, <1>8, <1>9 DEF SmtpInv

LEMMA AttachmentFailsCounts ==
    ASSUME SmtpInv, AttachmentFails, MailInv'
    PROVE  SmtpInv'
<1> DEFINE text == TextOf(mail[br2.line])
<1>1. PICK n \in DOMAIN text : toServer' = toServer \o Sent(n)
    BY DEF AttachmentFails
<1> DEFINE x == Sent(n)
<1>2. /\ pc = "mail" /\ br2.line <= Len(mail) /\ mail[br2.line].kind # "dot" /\ pc' = "ended"
      /\ UNCHANGED <<input, br, br2, mail, asked, printed, toClient, server>>
    BY DEF AttachmentFails, serverVars
<1>3. MailInv /\ input[br] = "DATA"
    BY <1>2 DEF SmtpInv, Asked
<1>4. n \in 0..Len(text)
    <2>1. text \in Seq(MailText) /\ Len(text) \in Nat
        BY <1>2, <1>3, NextText
    <2>2. n \in 1..Len(text)
        BY <1>1, <2>1, LenProperties
    <2> HIDE DEF text
    <2> QED BY <2>1, <2>2
<1>5. /\ x \in Seq(SentLine) /\ Len(x) = n
      /\ \A i \in 1..n : x[i].from = "mail" /\ x[i].no = asked /\ Step(x[i]) = 0
    BY <1>2, <1>3, <1>4, TextSent
<1>6. toServer' = toServer \o x
    BY <1>1
<1> HIDE DEF text, x
<1>7. Numbered' /\ Answering' /\ Counted'
    BY <1>2, <1>5, <1>6, TextCounts
<1>8. Asked'
    BY <1>2 DEF Asked
<1>9. Ending'
    BY <1>2, <1>3 DEF Ending
<1> QED BY <1>7, <1>8, <1>9 DEF SmtpInv

LEMMA SendDotCounts ==
    ASSUME SmtpInv, SendDot, MailInv'
    PROVE  SmtpInv'
<1> DEFINE c == Line(".", "mail", asked + 1)
<1>1. /\ pc = "mail" /\ br2.line <= Len(mail) /\ mail[br2.line].kind = "dot"
      /\ toServer' = Append(toServer, c) /\ asked' = asked + 1 /\ pc' = "dot"
      /\ br2' = [br2 EXCEPT !.line = @ + 1]
      /\ UNCHANGED <<input, br, mail, printed, toClient, server>>
    BY DEF SendDot, serverVars
<1>2. /\ MailInv /\ asked \in Nat /\ br2 \in [line : Nat, open : BOOLEAN] /\ toServer \in Seq(SentLine)
      /\ asked = NumberOf(br) /\ input[br] = "DATA" /\ (HasDot /\ DataBefore(br) => ~br2.open)
    BY <1>1, Files DEF SmtpInv, MailInv, Stream, Asked
<1>3. HasDot
    BY <1>1, <1>2, DotText
<1>4. c \in SentLine /\ c.from = "mail" /\ c.no = asked + 1 /\ Step(c) = 1
    BY <1>2 DEF Line, SentLine, Step
<1> HIDE DEF c
<1>5. Numbered' /\ Answering' /\ Counted'
    <2> DEFINE x == <<c>>
    <2>1. x \in Seq(SentLine) /\ Len(x) = 1 /\ x[1] = c /\ x # << >>
        BY <1>4
    <2>2. toServer' = toServer \o x
        BY <1>1, <1>2, <1>4, AppendIsConcat
    <2>3. ASSUME NEW k \in 1..Len(x)
          PROVE  /\ x[k].no = asked' /\ (k # 1 => Step(x[k]) = 0)
                 /\ asked' = asked + Step(x[1])
                 /\ x[k].from = "input" =>
                      \E i \in DOMAIN input : x[k].text = input[i] /\ x[k].no = NumberOf(i)
        <3>1. k = 1
            BY <2>1
        <3> HIDE DEF x
        <3> QED BY <1>1, <1>4, <2>1, <3>1
    <2>4. asked' \in Nat /\ asked <= asked'
        BY <1>1, <1>2
    <2> HIDE DEF x
    <2> QED BY <1>1, <2>1, <2>2, <2>3, <2>4, LinesAdded
<1>6. /\ HasDot' = HasDot /\ \A i : (DataBefore(i)' <=> DataBefore(i)) /\ NumberOf(i)' = NumberOf(i)
    BY <1>1, NumbersKept
<1>7. br2'.open = br2.open
    BY <1>1, <1>2
<1>8. Asked'
    BY <1>1, <1>2, <1>3, <1>6, <1>7 DEF Asked
<1>9. Ending'
    BY <1>1 DEF Ending
<1> QED BY <1>5, <1>8, <1>9 DEF SmtpInv

\* The server takes the first line: what it meets next is numbered next.
LEMMA NumberedTaken ==
    ASSUME SmtpInv, toServer # << >>, toServer' = Tail(toServer), UNCHANGED clientVars
    PROVE  LET h == Head(toServer) IN
           /\ Numbered' /\ Asked' /\ h \in SentLine /\ h.no \in Nat /\ h.no <= asked
           /\ h.from = "input" => \E i \in DOMAIN input : h.text = input[i] /\ h.no = NumberOf(i)
           /\ IF toServer' = << >> THEN h.no = asked
              ELSE Head(toServer').no = h.no + Step(Head(toServer'))
<1> DEFINE t == toServer
           u == toServer'
<1>1. UNCHANGED <<input, br, mail, br2, pc, asked>>
    BY DEF clientVars
<1>2. t \in Seq(SentLine) /\ Numbered /\ Asked
    BY DEF SmtpInv, MailInv, Stream
<1>3. /\ u \in Seq(SentLine) /\ Len(t) \in Nat \ {0} /\ Len(u) = Len(t) - 1
      /\ Head(t) = t[1] /\ Head(t) \in SentLine
      /\ \A i \in 1..Len(t) - 1 : i + 1 \in 1..Len(t) /\ u[i] = t[i + 1]
    BY <1>2, TailAt
<1>4. /\ HasDot' = HasDot /\ \A i : (DataBefore(i)' <=> DataBefore(i)) /\ NumberOf(i)' = NumberOf(i)
    BY <1>1, NumbersKept
<1>5. 1 \in 1..Len(t) /\ (u = << >> <=> Len(u) = 0) /\ (u # << >> => Head(u) = u[1])
    <2>1. u = << >> => Len(u) = 0
        BY EmptySeq
    <2>2. u # << >> => Len(u) # 0 /\ Head(u) = u[1]
        BY <1>3, EmptySeq
    <2> QED BY <1>3, <2>1, <2>2
<1>6. t[Len(t)].no = asked
    BY <1>2 DEF Numbered, Last
<1>7. /\ Head(t).no \in Nat /\ Head(t).no <= asked
      /\ Head(t).from = "input" =>
           \E i \in DOMAIN input : Head(t).text = input[i] /\ Head(t).no = NumberOf(i)
    BY <1>2, <1>3, <1>5, LineKinds DEF Numbered
<1>8. u = << >> => Head(t).no = asked
    BY <1>3, <1>5, <1>6
<1>9. ASSUME u # << >> PROVE Head(u).no = Head(t).no + Step(Head(u))
    <2>1. 1 \in 1..Len(t) - 1 /\ 1 + 1 = 2
        BY <1>3, <1>5, <1>9
    <2>2. t[2].no = t[1].no + Step(t[2]) /\ u[1] = t[2]
        BY <1>2, <1>3, <2>1 DEF Numbered
    <2> QED BY <1>3, <1>5, <1>9, <2>2
<1>10. ASSUME NEW k \in 1..Len(u)
       PROVE  /\ u[k].no <= asked
              /\ u[k].from = "input" =>
                   \E i \in DOMAIN input : u[k].text = input[i] /\ u[k].no = NumberOf(i)
    <2>1. k \in 1..Len(t) - 1
        BY <1>3
    <2>2. k + 1 \in 1..Len(t) /\ u[k] = t[k + 1]
        BY <1>3, <2>1
    <2> QED BY <1>2, <2>2 DEF Numbered
<1>11. ASSUME NEW k \in 1..Len(u) - 1 PROVE u[k + 1].no = u[k].no + Step(u[k + 1])
    <2>1. k \in 1..Len(t) - 1 /\ k + 1 \in 1..Len(t) - 1
        BY <1>3
    <2>2. u[k] = t[k + 1] /\ u[k + 1] = t[(k + 1) + 1]
        BY <1>3, <2>1
    <2> QED BY <1>2, <2>1, <2>2 DEF Numbered
<1>12. u # << >> => u[Len(u)].no = asked
    <2>1. ASSUME u # << >> PROVE Len(u) \in 1..Len(t) - 1 /\ Len(u) + 1 = Len(t)
        BY <1>3, <1>5, <2>1
    <2> QED BY <1>3, <1>6, <2>1
<1>13. Numbered'
    BY <1>1, <1>4, <1>10, <1>11, <1>12 DEF Numbered, Last
<1>14. Asked'
    BY <1>1, <1>2, <1>4 DEF Asked
<1> QED BY <1>3, <1>7, <1>8, <1>9, <1>13, <1>14

\* The server answers the next number with k lines.
LEMMA ReplyCounts ==
    ASSUME SmtpInv, Printed', UNCHANGED clientVars, server # "closed",
           NEW r \in ReplyLine, r.code # "null", NEW k \in {1, 2},
           toClient' = toClient \o [i \in 1..k |-> r],
           NoRefusal' => r.to = LastReply.to + 1 /\ r.to <= asked,
           NoRefusal' /\ k = 2 => \E i \in DOMAIN input : input[i] \in LongReply /\ NumberOf(i) = r.to
    PROVE  Counted' /\ LastReply' = r /\ (NoRefusal' => NoRefusal)
<1> DEFINE x == [i \in 1..k |-> r]
           q == LastReply
           N == Len(printed) + Len(toClient)
<1>1. /\ UNCHANGED <<input, br, mail, br2, pc, asked, printed>>
      /\ MailInv /\ Printed /\ Counted
    BY DEF clientVars, SmtpInv, MailInv
<1>2. /\ printed \in Seq(ReplyLine) /\ toClient \in Seq(ReplyLine)
      /\ Len(printed) \in Nat /\ Len(toClient) \in Nat /\ N \in Nat
    BY <1>1, LenProperties DEF Printed
<1>3. x \in Seq(ReplyLine) /\ Len(x) = k /\ \A i \in 1..k : x[i] = r
    OBVIOUS
<1>4. toClient' = toClient \o x
    OBVIOUS
<1> HIDE DEF x, q
<1>5. /\ toClient' \in Seq(ReplyLine) /\ Len(toClient') = Len(toClient) + k
      /\ \A i \in 1..Len(toClient) : toClient'[i] = toClient[i]
      /\ \A i \in Len(toClient) + 1..Len(toClient) + k : toClient'[i] = r
    <2>1. /\ toClient' \in Seq(ReplyLine) /\ Len(toClient') = Len(toClient) + Len(x)
          /\ \A i \in 1..Len(toClient) : toClient'[i] = toClient[i]
          /\ \A i \in Len(toClient) + 1..Len(toClient) + Len(x) :
               i - Len(toClient) \in 1..Len(x) /\ toClient'[i] = x[i - Len(toClient)]
        BY <1>2, <1>3, <1>4, ConcatAt
    <2> QED BY <1>3, <2>1
<1>6. NoRefusal' => NoRefusal
    <2>1. Clean(toClient') => Clean(toClient)
        BY <1>2, Replied
    <2> QED BY <1>1, <2>1, NoRefusalIs
<1>7. toClient' # << >> /\ LastReply' = r
    <2>1. Len(toClient') # 0 /\ Len(toClient') \in Len(toClient) + 1..Len(toClient) + k
        BY <1>2, <1>5
    <2>2. toClient' # << >>
        BY <2>1, EmptySeq
    <2> QED BY <1>5, <2>1, <2>2 DEF LastReply, Last
\* The last reply before it is no null, as the connection is open.
<1>8. q \in ReplyLine /\ q.code # "null" /\ (NoRefusal => <<N, q>> \in Fitting)
    <2>1. /\ q \in ReplyLine
          /\ toClient # << >> => q = toClient[Len(toClient)] /\ Len(toClient) \in 1..Len(toClient)
          /\ toClient = << >> => q = printed[Len(printed)] /\ Len(printed) \in 1..Len(printed)
        BY <1>1, LastKnown DEF Counted, q
    <2>2. CASE toClient # << >>
        BY <1>1, <2>1, <2>2 DEF Counted
    <2>3. CASE toClient = << >>
        <3>1. N = Len(printed)
            BY <1>2, <2>3, EmptySeq
        <3>2. q.code # "null"
            BY <1>1, <2>1, <2>3 DEF Counted
        <3>3. NoRefusal => <<Len(printed), printed[Len(printed)]>> \in Fitting
            BY <1>1, <2>1, <2>3 DEF Counted
        <3> HIDE DEF N
        <3> QED BY <2>1, <2>3, <3>1, <3>2, <3>3
    <2> QED BY <2>2, <2>3
<1>9. Fitting \subseteq Fitting'
    <2>1. asked \in Nat /\ asked <= asked
        BY <1>1, Files
    <2> QED BY <1>1, <2>1, FitsKept
<1>10. ASSUME NoRefusal' PROVE /\ <<N + 1, r>> \in Fitting'
                               /\ k = 2 => <<N + 2, r>> \in Fitting'
    <2> HIDE DEF N
    <2>1. Fits(N, q)
        BY <1>2, <1>6, <1>8, <1>10, FittingIs
    <2>2. /\ Fits(N + 1, r)
          /\ (\E i \in DOMAIN input : input[i] \in LongReply /\ NumberOf(i) = r.to) => Fits(N + 2, r)
        BY <1>1, <1>2, <1>8, <1>10, <2>1, FitsNext DEF q
    <2>3. N + 1 \in Nat /\ N + 2 \in Nat
        BY <1>2
    <2>4. <<N + 1, r>> \in Fitting /\ (k = 2 => <<N + 2, r>> \in Fitting)
        BY <1>10, <2>2, <2>3, FittingIs
    <2> QED BY <1>9, <2>4
<1>11. ASSUME NoRefusal', NEW i \in 1..Len(toClient')
       PROVE  <<Len(printed) + i, toClient'[i]>> \in Fitting'
    <2>1. CASE i \in 1..Len(toClient)
        <3>1. <<Len(printed) + i, toClient[i]>> \in Fitting
            BY <1>1, <1>6, <1>11, <2>1 DEF Counted
        <3> QED BY <1>5, <1>9, <2>1, <3>1
    <2>2. CASE i \notin 1..Len(toClient)
        <3> DEFINE m == Len(toClient)
                   p == Len(printed)
        <3>1. m \in Nat /\ p \in Nat /\ i \in 1..m + k /\ i \notin 1..m /\ N = p + m
            BY <1>2, <1>5, <2>2
        <3>2. toClient'[i] = r
            <4>1. i \in Len(toClient) + 1..Len(toClient) + k
                BY <3>1
            <4> QED BY <1>5, <4>1
        <3> HIDE DEF m, p, N
        <3>3. i = m + 1 \/ (k = 2 /\ i = m + 2)
            <4>1. CASE k = 1
                BY <3>1, <4>1
            <4>2. CASE k = 2
                BY <3>1, <4>2
            <4> QED BY <4>1, <4>2
        <3>4. p + i = N + 1 \/ (k = 2 /\ p + i = N + 2)
            BY <3>1, <3>3
        <3> QED BY <1>10, <1>11, <3>2, <3>4 DEF p
    <2> QED BY <2>1, <2>2
<1>12. \A i \in 1..Len(toClient') : toClient'[i].code # "null"
    <2>1. \A i \in 1..Len(toClient') : i \in 1..Len(toClient) \/ i \in Len(toClient) + 1..Len(toClient) + k
        BY <1>2, <1>5
    <2>2. \A i \in 1..Len(toClient) : toClient[i].code # "null"
        BY <1>1 DEF Counted
    <2> QED BY <1>5, <2>1, <2>2
<1>13. Counted'
    <2>1. ~(\E n \in 1..Len(printed) : printed[n].code = "null")
        BY <1>1 DEF Counted
    <2>2. NoRefusal => \A n \in 1..Len(printed) : <<n, printed[n]>> \in Fitting
        BY <1>1 DEF Counted
    <2> QED BY <1>1, <1>6, <1>7, <1>9, <1>11, <1>12, <2>1, <2>2 DEF Counted
<1> QED BY <1>6, <1>7, <1>13

\* What the server meets next, after a line it has taken and answered with r, or
\* not answered at all.
LEMMA NextMet ==
    ASSUME SmtpInv, toServer # << >>, toServer' = Tail(toServer), UNCHANGED clientVars,
           NoRefusal' => LastReply'.to = Head(toServer).no
    PROVE  Answering'
<1>1. /\ IF toServer' = << >> THEN Head(toServer).no = asked
         ELSE Head(toServer').no = Head(toServer).no + Step(Head(toServer'))
      /\ asked' = asked
    BY NumberedTaken DEF clientVars
<1> QED BY <1>1 DEF Answering

LEMMA TakeCommandCounts ==
    ASSUME SmtpInv, TakeCommand, MailInv'
    PROVE  SmtpInv'
<1> DEFINE h == Head(toServer)
<1>1. /\ server \in {"start", "ready", "mail", "rcpt"} /\ toServer # << >>
      /\ toServer' = Tail(toServer) /\ UNCHANGED clientVars
      /\ MailInv /\ Answering
    BY DEF TakeCommand, SmtpInv, MailInv, TypeOK
<1>2. /\ Numbered' /\ Asked' /\ h \in SentLine /\ h.no \in Nat /\ h.no <= asked
      /\ h.from = "input" => \E i \in DOMAIN input : h.text = input[i] /\ h.no = NumberOf(i)
    BY <1>1, NumberedTaken
<1>3. PICK code \in {"221", "250", "354", "503", "550"}, k \in {1, 2} :
        /\ toClient' = toClient \o [i \in 1..k |-> [code |-> code, to |-> h.no]]
        /\ k = 2 => h.text \in LongReply
    <2>1. Handle(h.text)[1] \in {"221", "250", "354", "503"}
        BY <1>1, HandleProps
    <2>2. CASE Reply(h, Handle(h.text)[1], IF h.text \in LongReply THEN 2 ELSE 1)
        <3> DEFINE code == Handle(h.text)[1]
                   k == IF h.text \in LongReply THEN 2 ELSE 1
        <3>1. toClient' = toClient \o [i \in 1..k |-> [code |-> code, to |-> h.no]]
            BY <2>2 DEF Reply
        <3>2. /\ code \in {"221", "250", "354", "503", "550"} /\ k \in {1, 2}
              /\ k = 2 => h.text \in LongReply
            BY <2>1
        <3> HIDE DEF code, k, h
        <3> QED BY <3>1, <3>2
    <2>3. CASE Reply(h, "550", 1)
        <3>1. toClient' = toClient \o [i \in 1..1 |-> [code |-> "550", to |-> h.no]]
            BY <2>3 DEF Reply
        <3> HIDE DEF h
        <3> QED BY <3>1
    <2> QED BY <2>2, <2>3 DEF TakeCommand
<1>4. NoRefusal => h.from = "input"
    BY <1>1 DEF MailInv, Meets
<1>5. NoRefusal => h.no = LastReply.to + Step(h)
    BY <1>1 DEF Answering
<1> HIDE DEF h
<1>6. h.from = "input" => Step(h) = 1
    BY <1>2, LineKinds DEF Step
<1> DEFINE r == [code |-> code, to |-> h.no]
<1>7. r \in ReplyLine /\ r.code # "null" /\ r.to = h.no
    BY <1>2 DEF ReplyLine
<1>8. toClient' = toClient \o [i \in 1..k |-> r]
    BY <1>3
<1> HIDE DEF r
<1>9. Printed /\ Printed' /\ printed' = printed /\ toClient \in Seq(ReplyLine)
    BY <1>1 DEF MailInv, clientVars, Printed
<1>10. NoRefusal' => NoRefusal
    <2>1. Clean(toClient') => Clean(toClient)
        BY <1>7, <1>8, <1>9, Replied
    <2> QED BY <1>9, <2>1, NoRefusalIs
<1>11. NoRefusal' => r.to = LastReply.to + 1 /\ r.to <= asked
    BY <1>2, <1>4, <1>5, <1>6, <1>7, <1>10
<1>12. NoRefusal' /\ k = 2 => \E i \in DOMAIN input : input[i] \in LongReply /\ NumberOf(i) = r.to
    BY <1>2, <1>3, <1>4, <1>7, <1>10
<1>13. Counted' /\ LastReply' = r
    BY <1>1, <1>7, <1>8, <1>9, <1>11, <1>12, ReplyCounts
<1>14. Answering'
    BY <1>1, <1>7, <1>13, NextMet DEF h
<1>15. Ending'
    BY <1>1 DEF SmtpInv, Ending, clientVars
<1> QED BY <1>2, <1>13, <1>14, <1>15 DEF SmtpInv

LEMMA TakeDotCounts ==
    ASSUME SmtpInv, TakeDot, MailInv'
    PROVE  SmtpInv'
<1> DEFINE h == Head(toServer)
<1>1. /\ server = "data" /\ toServer # << >> /\ h.text = "."
      /\ toServer' = Tail(toServer) /\ UNCHANGED clientVars
      /\ toClient' = toClient \o [i \in 1..1 |-> [code |-> "250", to |-> h.no]]
      /\ MailInv /\ Answering
    BY DEF TakeDot, Reply, SmtpInv
<1>2. Numbered' /\ Asked' /\ h \in SentLine /\ h.no \in Nat /\ h.no <= asked
    BY <1>1, NumberedTaken
<1>3. HasDot
    <2>1. toServer \in Seq(SentLine)
        BY <1>1 DEF MailInv, Stream
    <2>2. 1 \in 1..Len(toServer) /\ toServer[1] = h
        BY <1>1, <2>1, EmptySeq
    <2> QED BY <1>1, <2>2 DEF MailInv, Mailed
<1>4. NoRefusal => h.no = LastReply.to + Step(h)
    BY <1>1, <1>3 DEF Answering
<1> HIDE DEF h
<1>5. Step(h) = 1
    BY <1>1 DEF Step
<1> DEFINE r == [code |-> "250", to |-> h.no]
           k == 1
<1>6. r \in ReplyLine /\ r.code # "null" /\ r.to = h.no /\ k \in {1, 2} /\ k # 2
    BY <1>2 DEF ReplyLine
<1>7. toClient' = toClient \o [i \in 1..k |-> r]
    BY <1>1
<1> HIDE DEF r, k
<1>8. Printed /\ Printed' /\ printed' = printed /\ toClient \in Seq(ReplyLine)
    BY <1>1 DEF MailInv, clientVars, Printed
<1>9. NoRefusal' => NoRefusal
    <2>1. Clean(toClient') => Clean(toClient)
        BY <1>6, <1>7, <1>8, Replied
    <2> QED BY <1>8, <2>1, NoRefusalIs
<1>10. NoRefusal' => r.to = LastReply.to + 1 /\ r.to <= asked
    BY <1>2, <1>4, <1>5, <1>6, <1>9
<1>11. Counted' /\ LastReply' = r
    BY <1>1, <1>6, <1>7, <1>8, <1>10, ReplyCounts
<1>12. Answering'
    BY <1>1, <1>6, <1>11, NextMet DEF h
<1>13. Ending'
    BY <1>1 DEF SmtpInv, Ending, clientVars
<1> QED BY <1>2, <1>11, <1>12, <1>13 DEF SmtpInv

LEMMA TakeTextCounts ==
    ASSUME SmtpInv, TakeText, MailInv'
    PROVE  SmtpInv'
<1> DEFINE h == Head(toServer)
<1>1. /\ server = "data" /\ server' = server /\ toServer # << >> /\ h.text # "."
      /\ toServer' = Tail(toServer) /\ UNCHANGED clientVars /\ toClient' = toClient
      /\ MailInv /\ Answering /\ Counted
    BY DEF TakeText, SmtpInv
<1>2. Numbered' /\ Asked' /\ h \in SentLine /\ h.no \in Nat
    BY <1>1, NumberedTaken
<1>3. /\ UNCHANGED <<input, mail, printed, toClient, asked, pc, br>>
      /\ HasDot' = HasDot /\ NoRefusal' = NoRefusal /\ LastReply' = LastReply
    BY <1>1, SameMail DEF clientVars, NoRefusal, Replies, LastReply
<1>4. Counted'
    <2>1. asked \in Nat /\ asked <= asked
        BY <1>1, Files
    <2>2. Fitting \subseteq Fitting'
        BY <1>1, <1>3, <2>1, FitsKept
    <2> QED BY <1>1, <1>3, <2>2 DEF Counted
\* With a dot to come the line is text of the mail and has the number of the
\* last answer.
<1>5. HasDot => h.from = "mail"
    BY <1>1 DEF MailInv, Meets
<1>6. HasDot => Step(h) = 0
    BY <1>1, <1>2, <1>5, LineKinds DEF Step
<1>7. NoRefusal /\ HasDot => h.no = LastReply.to + Step(h)
    BY <1>1 DEF Answering
<1>8. LastReply.to \in Nat
    <2>1. LastReply \in ReplyLine
        BY <1>1, LastKnown DEF MailInv, Counted
    <2> QED BY <2>1 DEF ReplyLine
<1>9. NoRefusal /\ HasDot => h.no = LastReply.to
    BY <1>6, <1>7, <1>8
<1>10. Answering'
    <2>1. CASE HasDot
        BY <1>1, <1>3, <1>9, <2>1, NextMet
    <2>2. CASE ~HasDot
        BY <1>1, <1>3, <2>2 DEF Answering
    <2> QED BY <2>1, <2>2
<1>11. Ending'
    BY <1>1 DEF SmtpInv, Ending, clientVars
<1> QED BY <1>2, <1>4, <1>10, <1>11 DEF SmtpInv

LEMMA InitCounts ==
    ASSUME Init, MailInv
    PROVE  SmtpInv
<1> DEFINE g == [code |-> "220", to |-> 0]
<1>1. /\ br = 1 /\ pc = "greeting" /\ toServer = << >> /\ toClient = <<g>>
      /\ asked = 0 /\ printed = << >> /\ server = "start"
    BY DEF Init
<1>2. g \in ReplyLine /\ g.code = "220" /\ g.to = 0
    BY DEF ReplyLine
<1> HIDE DEF g
<1>3. DOMAIN input = 1..Len(input) /\ Len(input) \in Nat
    BY Files, LenProperties
<1>4. ~DataBefore(br)
    BY <1>1, <1>3 DEF DataBefore
<1>5. Asked
    <2>1. NumberOf(br) = 1
        BY <1>1, <1>4 DEF NumberOf
    <2> QED BY <1>1, <1>4, <2>1 DEF Asked
<1>6. Numbered
    BY <1>1, EmptySeq DEF Numbered
<1>7. LastReply = g /\ Len(toClient) = 1 /\ toClient[1] = g /\ Len(printed) = 0 /\ toClient # << >>
    BY <1>1 DEF LastReply, Last
<1>8. Answering
    BY <1>1, <1>2, <1>7 DEF Answering
<1>9. <<1, g>> \in Fitting
    <2>1. Cardinality(LongUpTo(0)) \in Nat
        BY LongBounded
    <2>2. Fits(1, g)
        BY <1>1, <1>2, <2>1 DEF Fits
    <2> QED BY <1>2, <2>2, FittingIs
<1>10. Counted
    <2>1. \A k \in 1..Len(toClient) : k = 1 /\ Len(printed) + k = 1 /\ toClient[k] = g
        BY <1>7
    <2> QED BY <1>2, <1>7, <1>9, <2>1 DEF Counted
<1>11. Ending
    BY <1>1 DEF Ending
<1> QED BY <1>5, <1>6, <1>8, <1>10, <1>11 DEF SmtpInv

\* The larger invariant, with the numbers, is inductive too.
THEOREM SmtpInvariant == Spec => []SmtpInv
<1>1. Init => SmtpInv
    BY InitInv, InitCounts
<1>2. SmtpInv /\ [Next]_vars => SmtpInv'
    <2> SUFFICES ASSUME SmtpInv, [Next]_vars PROVE SmtpInv'
        OBVIOUS
    <2>1. MailInv'
        BY MailInvStep DEF SmtpInv
    <2>2. CASE Client
        BY <2>1, <2>2, ReadGreetingCounts, SendCommandCounts, EndedCounts, ReadReplyCounts,
           MailLineCounts, AttachmentFailsCounts, EndOfMailCounts, SendDotCounts, ReadDotReplyCounts DEF Client
    <2>3. CASE Server
        BY <2>1, <2>3, TakeCommandCounts, TakeTextCounts, TakeDotCounts DEF Server
    <2>4. CASE Close \/ Silence \/ UNCHANGED vars
        BY <2>1, <2>4, FaultCounts
    <2> QED BY <2>2, <2>3, <2>4 DEF Next
<1> QED BY <1>1, <1>2, PTL DEF Spec

\* One reply is read for each command and dot: a line printed answers the
\* command just sent or, after long replies, one sent that many commands before.
THEOREM RepliesInStep == Spec => []InStep
<1>1. ASSUME SmtpInv PROVE InStep
    <2>1. MailInv /\ Printed /\ Counted /\ Ending
        BY <1>1 DEF SmtpInv, MailInv
    <2>2. /\ printed \in Seq(ReplyLine) /\ toClient \in Seq(ReplyLine)
          /\ Len(printed) \in Nat /\ Len(toClient) \in Nat /\ DOMAIN printed = 1..Len(printed)
        BY <2>1, LenProperties DEF Printed
    <2>3. Extra \in Nat /\ asked \in Nat
        BY <2>1, LongBounded, Files
    <2>4. ASSUME NoRefusal, NEW n \in DOMAIN printed, printed[n].code # "null"
          PROVE  printed[n].to \in n - 1 - Extra .. n - 1
        <3> DEFINE t == printed[n].to
                   c == Cardinality(LongUpTo(t))
        <3>1. n \in Nat /\ printed[n] \in ReplyLine /\ <<n, printed[n]>> \in Fitting
            BY <2>1, <2>2, <2>4, ElementOfSeq DEF Counted
        <3>2. Fits(n, printed[n]) /\ t \in Nat
            BY <3>1, FittingIs DEF ReplyLine
        <3>3. t <= n - 1 /\ n - 1 <= t + c
            BY <2>4, <3>2 DEF Fits
        <3>4. c \in Nat /\ c <= Extra
            BY <2>1, LongBounded
        <3> HIDE DEF c, t
        <3>5. t \in n - 1 - Extra .. n - 1
            BY <2>3, <3>1, <3>2, <3>3, <3>4
        <3> QED BY <3>5 DEF t
    <2>5. pc = "command" => Len(printed) = asked + 1
        BY <2>1 DEF Printed
    <2>6. ASSUME NoRefusal, pc = "ended", br <= Len(input), input[br] = "QUIT",
                 server = "closed", toServer = << >>
          PROVE  Len(toClient) <= Extra
        <3>1. Len(printed) = asked + 1
            BY <2>1, <2>6 DEF Ending
        <3>2. CASE Len(toClient) = 0
            BY <2>3, <3>2
        <3>3. CASE Len(toClient) # 0
            <4> DEFINE k == Len(toClient)
                       q == toClient[k]
                       c == Cardinality(LongUpTo(q.to))
            <4>1. k \in 1..Len(toClient) /\ k \in Nat
                BY <2>2, <3>3
            <4>2. q \in ReplyLine /\ q.code # "null" /\ <<Len(printed) + k, q>> \in Fitting
                BY <2>1, <2>2, <2>6, <4>1, ElementOfSeq DEF Counted
            <4> HIDE DEF k, q
            <4>3. Fits(Len(printed) + k, q) /\ q.to \in Nat
                BY <2>2, <4>1, <4>2, FittingIs DEF ReplyLine
            <4>4. (Len(printed) + k) - 1 <= q.to + c /\ q.to <= asked
                BY <4>2, <4>3 DEF Fits
            <4>5. c \in Nat /\ c <= Extra
                BY <2>1, LongBounded
            <4> HIDE DEF c
            <4>6. k <= Extra
                BY <2>2, <2>3, <3>1, <4>1, <4>3, <4>4, <4>5
            <4> QED BY <4>6 DEF k
        <3> QED BY <3>2, <3>3
    <2> QED BY <2>4, <2>5, <2>6 DEF InStep
<1> QED BY <1>1, SmtpInvariant, PTL
=============================================================================
