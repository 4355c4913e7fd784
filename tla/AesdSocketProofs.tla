-------------------------- MODULE AesdSocketProofs --------------------------
(***************************************************************************)
(* That an exchange of the server is atomic, for any number of             *)
(* connections, whatever the clients send, however their streams are cut   *)
(* and whatever connections break or writes fail: the answer to a line is  *)
(* what the device holds.  Then what is stored: lines are never mixed, and *)
(* each is stored once, in order, by what came behind the last cut of it.  *)
(***************************************************************************)
EXTENDS AesdSocket, FiniteSetTheorems, FunctionTheorems, SequenceTheorems, TLAPS

(* ----------------------- the inductive invariant ---------------------- *)

\* The device holds complete lines, and no unfinished one.
EndsLine(line) == line # << >> /\ line[Len(line)] = NL
DeviceLines ==
  /\ lines \in Seq(Seq(Nat)) /\ rest = << >>
  /\ \A i \in 1 .. Len(lines) : EndsLine(lines[i])

Types ==
  /\ fpos \in 0 .. Len(Text)
  /\ file_lock \in Conn \cup {Nobody}
  /\ pc \in [Conn -> {"none", "read", "lock", "scan", "reply", "done", "failed"}]
  /\ peer \in [Conn -> {"open", "eof", "reset", "dead"}]
  /\ sent \in [Conn -> Nat]
  /\ sock \in [Conn -> Seq(Nat)]
  /\ in_buffer \in [Conn -> Seq(Nat)]
  /\ prev \in [Conn -> Nat] /\ \A c \in Conn : prev[c] <= Len(in_buffer[c])
  /\ answer = [c \in Conn |-> answer[c]]
  /\ alive \in BOOLEAN

\* The thread that holds file_lock, and no other, is at work on the device; a send
\* that failed leaves it locked.
Exclusive == \A c \in Conn : pc[c] \in {"scan", "reply", "failed"} <=> file_lock = c

\* Between two exchanges the position is at the end of the text.
Position == (\A c \in Conn : pc[c] \notin {"reply", "failed"}) => fpos = Len(Text)

\* Of the answer, what the device holds between its start and the position is sent.
Exchange ==
  \A c \in Conn : alive /\ pc[c] = "reply" =>
    /\ AnswerFrom(c) \in 0 .. fpos
    /\ answer[c] = SubSeq(Text, AnswerFrom(c) + 1, fpos)
    /\ ~IsSeek(Line(c)) /\ ok => Last(lines) = Line(c)

Inv == DeviceLines /\ Types /\ Exclusive /\ Position /\ Exchange

(* -------------------------- sequences of bytes ------------------------- *)

\* A set of naturals that is not empty has a least element.
LEMMA MinOfNaturals ==
  ASSUME NEW S \in SUBSET Nat, S # {}
  PROVE  Min(S) \in S /\ \A y \in S : Min(S) <= y
<1>1. PICK x \in S : \A y \in S : ~(<<y, x>> \in OpToRel(<, Nat))
  BY NatLessThanWellFounded, WFMin, Zenon
<1>2. \A y \in S : ~(y < x)
  BY <1>1, Zenon DEF OpToRel
<1>3. \A y \in S : x <= y
  BY <1>2
<1>4. QED
  BY <1>3 DEF Min

\* strchr and its like find the first occurrence of a byte.
FirstAt(w, x) ==
  LET I == {i \in 1 .. Len(w) : w[i] = x} IN IF I # {} THEN Min(I) ELSE 0

\* SelectInSeq is this position, with no such byte before it.
LEMMA FirstByte ==
  ASSUME NEW w \in Seq(Nat), NEW x
  PROVE  /\ SelectInSeq(w, LAMBDA b : b = x) = FirstAt(w, x)
         /\ FirstAt(w, x) \in 0 .. Len(w)
         /\ FirstAt(w, x) = 0 => \A i \in 1 .. Len(w) : w[i] # x
         /\ FirstAt(w, x) # 0 => /\ w[FirstAt(w, x)] = x
                                 /\ \A i \in 1 .. FirstAt(w, x) - 1 : w[i] # x
<1> DEFINE I == {i \in 1 .. Len(w) : w[i] = x}
           n == FirstAt(w, x)
<1>1. SelectInSeq(w, LAMBDA b : b = x) = n
  BY DEF SelectInSeq, FirstAt
<1>2. I \in SUBSET Nat /\ Len(w) \in Nat
  OBVIOUS
<1>3. n = IF I # {} THEN Min(I) ELSE 0
  BY DEF FirstAt
<1> HIDE DEF n
<1>4. CASE I # {}
  <2>1. Min(I) \in I /\ \A y \in I : Min(I) <= y
    BY <1>2, <1>4, MinOfNaturals
  <2>2. n \in 1 .. Len(w) /\ w[n] = x /\ \A y \in I : n <= y
    BY <2>1, <1>3, <1>4
  <2>3. \A i \in 1 .. n - 1 : w[i] # x
    BY <2>2, <1>2
  <2>4. n # 0 /\ n \in 0 .. Len(w)
    BY <1>2, <2>2
  <2>5. QED
    BY <1>1, <2>2, <2>3, <2>4 DEF n
<1>5. CASE I = {}
  <2>1. n = 0 /\ \A i \in 1 .. Len(w) : w[i] # x
    BY <1>3, <1>5
  <2>2. n \in 0 .. Len(w)
    BY <1>2, <2>1
  <2>3. QED
    BY <1>1, <2>1, <2>2 DEF n
<1>6. QED
  BY <1>4, <1>5

\* A part of a byte sequence.
LEMMA PartOfSeq ==
  ASSUME NEW s \in Seq(Nat), NEW i \in Nat, NEW j \in Nat, i <= j, j <= Len(s)
  PROVE  /\ SubSeq(s, i + 1, j) \in Seq(Nat) /\ Len(SubSeq(s, i + 1, j)) = j - i
         /\ \A m \in 1 .. j - i : SubSeq(s, i + 1, j)[m] = s[i + m]
<1>1. \A k \in i + 1 .. j : s[k] \in Nat
  OBVIOUS
<1>2. SubSeq(s, i + 1, j) \in Seq(Nat) /\ Len(SubSeq(s, i + 1, j)) = j - i
  BY <1>1
<1>3. ASSUME NEW m \in 1 .. j - i PROVE SubSeq(s, i + 1, j)[m] = s[i + m]
  BY <1>1
<1>4. QED
  BY <1>2, <1>3

\* Two parts that meet.
LEMMA PartsMeet ==
  ASSUME NEW s \in Seq(Nat), NEW i \in Nat, NEW j \in Nat, NEW k \in Nat,
         i <= j, j <= k, k <= Len(s)
  PROVE  SubSeq(s, i + 1, j) \o SubSeq(s, j + 1, k) = SubSeq(s, i + 1, k)
<1> DEFINE a == SubSeq(s, i + 1, j)
           b == SubSeq(s, j + 1, k)
           c == SubSeq(s, i + 1, k)
<1>0. j <= Len(s) /\ i <= k
  OBVIOUS
<1>1. /\ a \in Seq(Nat) /\ Len(a) = j - i /\ \A m \in 1 .. j - i : a[m] = s[i + m]
  BY <1>0, PartOfSeq
<1>2. /\ b \in Seq(Nat) /\ Len(b) = k - j /\ \A m \in 1 .. k - j : b[m] = s[j + m]
  BY <1>0, PartOfSeq
<1>3. /\ c \in Seq(Nat) /\ Len(c) = k - i /\ \A m \in 1 .. k - i : c[m] = s[i + m]
  BY <1>0, PartOfSeq
<1> HIDE DEF a, b, c
<1>4. /\ a \o b \in Seq(Nat) /\ Len(a \o b) = k - i
      /\ \A m \in 1 .. k - i : (a \o b)[m] = IF m <= j - i THEN a[m] ELSE b[m - (j - i)]
  <2>1. Len(a) + Len(b) = k - i
    BY <1>1, <1>2
  <2>2. /\ a \o b \in Seq(Nat) /\ Len(a \o b) = Len(a) + Len(b)
        /\ \A m \in 1 .. Len(a) + Len(b) :
             (a \o b)[m] = IF m <= Len(a) THEN a[m] ELSE b[m - Len(a)]
    BY <1>1, <1>2, ConcatProperties
  <2>3. QED
    BY <1>1, <2>1, <2>2, Zenon
<1>5. ASSUME NEW m \in 1 .. k - i PROVE (a \o b)[m] = c[m]
  <2>1. c[m] = s[i + m]
    BY <1>3
  <2>2. CASE m <= j - i
    BY <1>1, <1>4, <2>1, <2>2
  <2>3. CASE ~(m <= j - i)
    <3>1. m - (j - i) \in 1 .. k - j /\ j + (m - (j - i)) = i + m
      BY <2>3
    <3>2. b[m - (j - i)] = s[i + m]
      BY <1>2, <3>1
    <3>3. QED
      BY <1>4, <2>1, <2>3, <3>2
  <2>4. QED
    BY <2>2, <2>3
<1>6. a \o b = c
  BY <1>3, <1>4, <1>5, SeqEqual
<1>7. QED
  BY <1>6 DEF a, b, c

(* --------------------------- lines laid end to end --------------------- *)

\* FlattenSeq(s) is the last of its partial results.
PartialTexts(s, g) ==
  /\ g \in [1 .. Len(s) -> Seq(Nat)] /\ g[1] = s[1]
  /\ \A i \in 2 .. Len(s) : g[i] = g[i - 1] \o s[i]

\* They exist for every sequence of byte sequences.
LEMMA FlattenPartial ==
  ASSUME NEW s \in Seq(Seq(Nat)), s # << >>
  PROVE  \E g : PartialTexts(s, g) /\ FlattenSeq(s) = g[Len(s)]
<1> DEFINE L == Len(s)
           Step(g, i) == IF i = 1 THEN s[i] ELSE g[i - 1] \o s[i]
           Upto(g, n) == g \in [1 .. n -> Seq(Nat)] /\ \A i \in 1 .. n : g[i] = Step(g, i)
<1>1. L \in Nat \ {0} /\ \A i \in 1 .. L : s[i] \in Seq(Nat)
  OBVIOUS
<1> HIDE DEF L
<1>2. \A n \in 1 .. L : \E g : Upto(g, n)
  <2> DEFINE A == {n \in 1 .. L : ~\E g : Upto(g, n)}
  <2>1. SUFFICES ASSUME A # {} PROVE FALSE
    OBVIOUS
  <2>2. PICK n \in A : \A m \in A : n <= m
    <3>1. A \in SUBSET Nat
      BY <1>1
    <3> HIDE DEF A
    <3>2. QED
      BY <2>1, <3>1, MinOfNaturals
  <2>3. n \in 1 .. L
    OBVIOUS
  <2>4. CASE n = 1
    <3> DEFINE h == [i \in 1 .. 1 |-> s[1]]
    <3>1. Upto(h, 1)
      BY <1>1
    <3>2. QED
      BY <2>4, <3>1
  <2>5. CASE n # 1
    <3>1. n - 1 \in 1 .. L /\ n - 1 \notin A
      <4> HIDE DEF A
      <4>1. QED
        BY <1>1, <2>2, <2>3, <2>5
    <3>2. PICK g : Upto(g, n - 1)
      <4> HIDE DEF Upto
      <4>1. QED
        BY <3>1
    <3> DEFINE h == [i \in 1 .. n |-> IF i = n THEN g[n - 1] \o s[n] ELSE g[i]]
    <3>3. h \in [1 .. n -> Seq(Nat)]
      BY <1>1, <2>3, <2>5, <3>2
    <3>4. \A i \in 1 .. n : h[i] = Step(h, i)
      <4>1. SUFFICES ASSUME NEW i \in 1 .. n PROVE h[i] = Step(h, i)
        OBVIOUS
      <4>0. n - 1 \in 1 .. n /\ n - 1 # n /\ n \in 1 .. n
        BY <1>1, <2>3, <2>5
      <4>2. CASE i = n
        <5>1. h[n - 1] = g[n - 1] /\ h[n] = g[n - 1] \o s[n]
          BY <4>0
        <5>2. QED
          BY <4>2, <5>1, <2>5
      <4>3. CASE i # n
        <5>1. i \in 1 .. n - 1 /\ (i # 1 => i - 1 \in 1 .. n - 1)
          BY <1>1, <2>3, <4>3
        <5>2. g[i] = Step(g, i) /\ h[i] = g[i] /\ (i # 1 => h[i - 1] = g[i - 1])
          <6>1. g[i] = Step(g, i)
            BY <3>2, <5>1
          <6>2. \A x \in 1 .. n - 1 : x \in 1 .. n /\ x # n
            BY <1>1, <2>3
          <6>3. \A x \in 1 .. n - 1 : h[x] = g[x]
            BY <6>2
          <6> HIDE DEF h, Step
          <6>4. QED
            BY <5>1, <6>1, <6>3
        <5>3. QED
          BY <5>2
      <4>4. QED
        BY <4>2, <4>3
    <3>5. Upto(h, n)
      BY <3>3, <3>4
    <3> HIDE DEF h, Upto
    <3>6. QED
      BY <3>5
  <2>6. QED
    BY <2>4, <2>5
<1> DEFINE f == CHOOSE f : f = [i \in 1 .. L |-> Step(f, i)]
<1>3. f = [i \in 1 .. L |-> Step(f, i)]
  <2>1. PICK g : Upto(g, L)
    <3>1. L \in 1 .. L
      BY <1>1
    <3> HIDE DEF Upto
    <3>2. QED
      BY <1>2, <3>1
  <2>2. g = [i \in 1 .. L |-> Step(g, i)]
    BY <2>1
  <2> HIDE DEF Step
  <2>3. QED
    BY <2>2, Zenon
<1>4. FlattenSeq(s) = f[L]
  BY <1>1 DEF FlattenSeq, L
<1> HIDE DEF f
<1>5. \A i \in 1 .. L : f[i] \in Seq(Nat)
  <2> DEFINE A == {i \in 1 .. L : f[i] \notin Seq(Nat)}
  <2>1. SUFFICES ASSUME A # {} PROVE FALSE
    OBVIOUS
  <2>2. PICK n \in A : \A m \in A : n <= m
    <3>1. A \in SUBSET Nat
      BY <1>1
    <3> HIDE DEF A
    <3>2. QED
      BY <2>1, <3>1, MinOfNaturals
  <2>3. n \in 1 .. L /\ f[n] \notin Seq(Nat) /\ f[n] = Step(f, n)
    BY <1>3
  <2>4. n # 1 => n - 1 \in 1 .. L /\ f[n - 1] \in Seq(Nat)
    BY <1>1, <2>2, <2>3
  <2>5. QED
    BY <1>1, <2>3, <2>4
<1>6. PartialTexts(s, f)
  <2>1. f \in [1 .. L -> Seq(Nat)]
    BY <1>3, <1>5
  <2>2. \A i \in 1 .. L : f[i] = Step(f, i)
    BY <1>3
  <2>3. f[1] = s[1] /\ \A i \in 2 .. L : f[i] = f[i - 1] \o s[i]
    <3>1. 1 \in 1 .. L /\ \A i \in 2 .. L : i \in 1 .. L /\ i # 1
      BY <1>1
    <3>2. QED
      BY <2>2, <3>1
  <2>4. QED
    BY <2>1, <2>3 DEF PartialTexts, L
<1>7. QED
  BY <1>4, <1>6 DEF L

\* The text of the lines before the k-th and the k-th itself fit in the whole text.
LEMMA FlattenPrefix ==
  ASSUME NEW s \in Seq(Seq(Nat)), NEW k \in 0 .. Len(s)
  PROVE  /\ FlattenSeq(s) \in Seq(Nat)
         /\ Len(FlattenSeq(SubSeq(s, 1, k))) \in 0 .. Len(FlattenSeq(s))
         /\ k < Len(s) => Len(FlattenSeq(SubSeq(s, 1, k))) + Len(s[k + 1]) <= Len(FlattenSeq(s))
<1> DEFINE p == SubSeq(s, 1, k)
           L == Len(s)
<1>0. L \in Nat /\ k \in Nat /\ k <= L /\ \A i \in 1 .. L : s[i] \in Seq(Nat) /\ Len(s[i]) \in Nat
  OBVIOUS
<1>1. p \in Seq(Seq(Nat)) /\ Len(p) = k /\ \A i \in 1 .. k : p[i] = s[i]
  OBVIOUS
<1> DEFINE whole == FlattenSeq(s)
           part == FlattenSeq(p)
<1> SUFFICES /\ whole \in Seq(Nat) /\ Len(part) \in Nat /\ Len(part) <= Len(whole)
             /\ k < L => Len(part) + Len(s[k + 1]) <= Len(whole)
  <2>1. whole \in Seq(Nat) => Len(whole) \in Nat
    OBVIOUS
  <2> HIDE DEF whole, part
  <2>2. ASSUME Len(part) \in Nat, Len(whole) \in Nat, Len(part) <= Len(whole)
        PROVE  Len(part) \in 0 .. Len(whole)
    BY <2>2
  <2>3. QED
    BY <2>1, <2>2 DEF whole, part
<1>2. FlattenSeq(<< >>) = << >>
  BY DEF FlattenSeq
<1>3. CASE s = << >>
  <2>1. k = 0 /\ L = 0 /\ p = << >>
    BY <1>0, <1>1, <1>3
  <2>2. part = << >> /\ whole = << >>
    BY <1>2, <1>3, <2>1
  <2> HIDE DEF whole, part
  <2>3. QED
    BY <2>1, <2>2
<1>4. CASE s # << >>
  <2>0. L \in Nat \ {0} /\ L \in 1 .. L /\ 1 \in 1 .. L
    BY <1>0, <1>4
  <2>1. PICK g : PartialTexts(s, g) /\ whole = g[L]
    BY <1>4, FlattenPartial
  <2>2. /\ \A i \in 1 .. L : g[i] \in Seq(Nat) /\ Len(g[i]) \in Nat
        /\ g[1] = s[1] /\ \A i \in 2 .. L : g[i] = g[i - 1] \o s[i]
    <3>1. \A i \in 1 .. L : g[i] \in Seq(Nat)
      BY <2>1 DEF PartialTexts
    <3>2. \A x \in Seq(Nat) : Len(x) \in Nat
      OBVIOUS
    <3>3. QED
      BY <2>1, <3>1, <3>2 DEF PartialTexts
  <2>3. \A i \in 2 .. L : i - 1 \in 1 .. L /\ i \in 1 .. L /\ Len(g[i]) = Len(g[i - 1]) + Len(s[i])
    <3>1. SUFFICES ASSUME NEW i \in 2 .. L
                   PROVE  i - 1 \in 1 .. L /\ i \in 1 .. L /\ Len(g[i]) = Len(g[i - 1]) + Len(s[i])
      OBVIOUS
    <3>2. i - 1 \in 1 .. L /\ i \in 1 .. L
      BY <1>0
    <3>3. g[i - 1] \in Seq(Nat) /\ s[i] \in Seq(Nat) /\ g[i] = g[i - 1] \o s[i]
      BY <1>0, <2>2, <3>2
    <3>4. Len(g[i]) = Len(g[i - 1]) + Len(s[i])
      BY <3>3, ConcatProperties
    <3>5. QED
      BY <3>2, <3>4
  <2> HIDE DEF L, p, whole, part
  <2>4. \A i \in 1 .. L : Len(g[i]) <= Len(g[L])
    <3> DEFINE A == {n \in Nat : L - n \in 1 .. L /\ ~(Len(g[L - n]) <= Len(g[L]))}
    <3>1. ASSUME A # {} PROVE FALSE
      <4>1. PICK n \in A : \A m \in A : n <= m
        <5>1. A \in SUBSET Nat
          OBVIOUS
        <5> HIDE DEF A
        <5>2. QED
          BY <3>1, <5>1, MinOfNaturals
      <4>2. n \in Nat /\ L - n \in 1 .. L /\ ~(Len(g[L - n]) <= Len(g[L]))
        OBVIOUS
      <4>3. n # 0
        BY <2>0, <2>2, <4>2
      <4>4. n - 1 \in Nat /\ n - 1 \notin A
        <5> HIDE DEF A
        <5>1. QED
          BY <4>1, <4>2, <4>3
      <4>5. L - (n - 1) \in 2 .. L /\ (L - (n - 1)) - 1 = L - n
        BY <2>0, <4>2, <4>3
      <4>6. Len(g[L - (n - 1)]) <= Len(g[L])
        BY <2>3, <4>4, <4>5
      <4>7. Len(g[L - (n - 1)]) = Len(g[L - n]) + Len(s[L - (n - 1)])
        BY <2>3, <4>5
      <4>8. /\ Len(g[L - n]) \in Nat /\ Len(s[L - (n - 1)]) \in Nat
            /\ Len(g[L]) \in Nat /\ Len(g[L - (n - 1)]) \in Nat
        BY <1>0, <2>0, <2>2, <2>3, <4>2, <4>5
      <4> DEFINE x == Len(g[L - n])
                 y == Len(g[L - (n - 1)])
                 w == Len(s[L - (n - 1)])
                 z == Len(g[L])
      <4>9. x \in Nat /\ y \in Nat /\ w \in Nat /\ z \in Nat /\ y <= z /\ y = x + w /\ ~(x <= z)
        BY <4>2, <4>6, <4>7, <4>8, Zenon
      <4> HIDE DEF x, y, w, z
      <4>10. QED
        BY <4>9
    <3>2. ASSUME NEW i \in 1 .. L PROVE Len(g[i]) <= Len(g[L])
      <4>1. L - i \in Nat /\ L - (L - i) = i
        BY <2>0
      <4>2. L - i \notin A
        BY <3>1
      <4>3. QED
        BY <4>1, <4>2
    <3>3. QED
      BY <3>2
  <2>5. CASE k = 0
    <3>1. p = << >>
      BY <1>1, <2>5
    <3>2. Len(part) = 0
      BY <1>2, <3>1 DEF part
    <3>3. Len(s[1]) \in Nat /\ Len(s[1]) <= Len(g[L]) /\ Len(g[L]) \in Nat
      BY <1>0, <2>0, <2>2, <2>4
    <3>4. k + 1 = 1 /\ 0 + Len(s[1]) = Len(s[1])
      BY <2>5, <3>3
    <3>5. whole \in Seq(Nat)
      BY <2>0, <2>1, <2>2
    <3>6. QED
      BY <2>1, <3>2, <3>3, <3>4, <3>5
  <2>6. CASE k # 0
    <3>0. p # << >> /\ 1 \in 1 .. k /\ \A i \in 2 .. k : i \in 1 .. k
      BY <1>0, <1>1, <2>6
    <3>1. PICK h : PartialTexts(p, h) /\ part = h[k]
      BY <1>1, <3>0, FlattenPartial DEF part
    <3>2. /\ h[1] = s[1] /\ \A i \in 2 .. k : h[i] = h[i - 1] \o s[i]
      <4>1. /\ h[1] = p[1] /\ \A i \in 2 .. k : h[i] = h[i - 1] \o p[i]
        BY <1>1, <3>1 DEF PartialTexts
      <4>2. QED
        BY <1>1, <3>0, <4>1
    <3>3. \A i \in 1 .. k : h[i] = g[i]
      <4> DEFINE A == {i \in 1 .. k : h[i] # g[i]}
      <4>1. SUFFICES ASSUME A # {} PROVE FALSE
        OBVIOUS
      <4>2. PICK n \in A : \A m \in A : n <= m
        <5>1. A \in SUBSET Nat
          BY <1>0
        <5> HIDE DEF A
        <5>2. QED
          BY <4>1, <5>1, MinOfNaturals
      <4>3. n \in 1 .. k /\ h[n] # g[n]
        OBVIOUS
      <4>4. n # 1
        BY <2>2, <3>2, <4>3
      <4>5. n \in 2 .. k /\ n \in 2 .. L /\ n - 1 \in 1 .. k
        BY <1>0, <4>3, <4>4
      <4>6. n - 1 \notin A
        <5> HIDE DEF A
        <5>1. QED
          BY <1>0, <4>2, <4>5
      <4>7. h[n - 1] = g[n - 1]
        BY <4>5, <4>6
      <4>8. QED
        BY <2>2, <3>2, <4>3, <4>5, <4>7
    <3>4. k \in 1 .. k /\ k \in 1 .. L
      BY <1>0, <2>6
    <3>5. part = g[k]
      BY <3>1, <3>3, <3>4
    <3>6. Len(g[k]) \in Nat /\ Len(g[k]) <= Len(g[L]) /\ Len(g[L]) \in Nat
      BY <2>0, <2>2, <2>4, <3>4
    <3>7. ASSUME k < L PROVE Len(g[k]) + Len(s[k + 1]) <= Len(g[L])
      <4>1. k + 1 \in 2 .. L /\ (k + 1) - 1 = k
        BY <1>0, <2>6, <3>7
      <4>2. QED
        BY <2>3, <2>4, <4>1
    <3>8. QED
      BY <2>0, <2>1, <2>2, <3>5, <3>6, <3>7
  <2>7. QED
    BY <2>5, <2>6
<1>5. QED
  BY <1>3, <1>4

\* A text of complete lines ends with a newline.
LEMMA FlattenEndsLine ==
  ASSUME NEW s \in Seq(Seq(Nat)), s # << >>,
         \A i \in 1 .. Len(s) : s[i] # << >> /\ s[i][Len(s[i])] = NL
  PROVE  FlattenSeq(s)[Len(FlattenSeq(s))] = NL
<1> DEFINE L == Len(s)
<1>1. PICK g : PartialTexts(s, g) /\ FlattenSeq(s) = g[L]
  BY FlattenPartial
<1>2. L \in Nat \ {0} /\ L \in 1 .. L /\ s[L] \in Seq(Nat) /\ s[L] # << >> /\ s[L][Len(s[L])] = NL
  OBVIOUS
<1> HIDE DEF L
<1>3. CASE L = 1
  BY <1>1, <1>2, <1>3 DEF PartialTexts, L
<1>4. CASE L # 1
  <2>1. L \in 2 .. L /\ L - 1 \in 1 .. L
    BY <1>2, <1>4
  <2>2. g[L] = g[L - 1] \o s[L] /\ g[L - 1] \in Seq(Nat)
    BY <1>1, <2>1 DEF PartialTexts, L
  <2> DEFINE a == g[L - 1]
             b == s[L]
  <2>3. a \in Seq(Nat) /\ b \in Seq(Nat) /\ Len(a) \in Nat /\ Len(b) \in Nat \ {0} /\ b[Len(b)] = NL
    BY <1>2, <2>2
  <2>4. g[L] = a \o b
    BY <2>2
  <2> HIDE DEF a, b
  <2>5. /\ Len(a \o b) = Len(a) + Len(b)
        /\ \A m \in 1 .. Len(a) + Len(b) :
             (a \o b)[m] = IF m <= Len(a) THEN a[m] ELSE b[m - Len(a)]
    BY <2>3, ConcatProperties
  <2>6. (a \o b)[Len(a) + Len(b)] = b[Len(b)]
    BY <2>3, <2>5
  <2>7. QED
    BY <1>1, <2>3, <2>4, <2>5, <2>6
<1>5. QED
  BY <1>3, <1>4

(* ------------------------------ the device ----------------------------- *)

OneLine(line) == EndsLine(line) /\ \A i \in 1 .. Len(line) - 1 : line[i] # NL

\* What the device does with one line.
LEMMA LinesOfLine ==
  ASSUME NEW line \in Seq(Nat), OneLine(line)
  PROVE  LinesOf(line) = <<line>> /\ RestOf(line) = << >>
<1> DEFINE L == Len(line)
           newlines == {i \in DOMAIN line : line[i] = NL}
<1>1. L \in Nat \ {0} /\ DOMAIN line = 1 .. L /\ SubSeq(line, 1, L) = line
      /\ SubSeq(line, L + 1, L) = << >>
  BY DEF OneLine, EndsLine
<1>2. newlines = {L}
  BY <1>1 DEF OneLine, EndsLine
<1> HIDE DEF newlines, L
<1>3. Cardinality(newlines) = 1 /\ {j \in newlines : j <= L} = {L}
      /\ Cardinality({L}) = 1
  <2>1. Cardinality({L}) = 1
    BY FS_Singleton
  <2>2. L <= L
    BY <1>1
  <2>3. QED
    BY <1>2, <2>1, <2>2
<1>4. 1 .. 1 = {1}
  OBVIOUS
<1>5. (CHOOSE i \in newlines : Cardinality({j \in newlines : j <= i}) = 1) = L
  BY <1>2, <1>3
<1>6. Ends(line) = [k \in 1 .. 1 |-> L]
  <2>1. Ends(line) = [k \in 1 .. Cardinality(newlines) |->
                        CHOOSE i \in newlines : Cardinality({j \in newlines : j <= i}) = k]
    BY DEF Ends, newlines
  <2>2. QED
    BY <1>3, <1>4, <1>5, <2>1
<1>7. /\ DOMAIN Ends(line) = 1 .. 1 /\ Ends(line)[1] = L
      /\ Len(Ends(line)) = 1 /\ Ends(line) # << >>
  <2> DEFINE e == [k \in 1 .. 1 |-> L]
  <2>1. e \in Seq(Nat) /\ Len(e) = 1 /\ e[1] = L /\ DOMAIN e = 1 .. 1
    BY <1>1
  <2> HIDE DEF e
  <2>2. e # << >>
    BY <2>1
  <2>3. QED
    BY <1>6, <2>1, <2>2 DEF e
<1>8. LinesOf(line) = [k \in 1 .. 1 |-> line]
  BY <1>1, <1>4, <1>7 DEF LinesOf, L
<1>9. RestOf(line) = << >>
  BY <1>1, <1>7 DEF RestOf, Last, L
<1>10. QED
  BY <1>8, <1>9

\* Only the oldest lines are dropped.
LEMMA LastLinesOf ==
  ASSUME NEW s \in Seq(Seq(Nat)), \A i \in 1 .. Len(s) : EndsLine(s[i])
  PROVE  /\ LastLines(s) \in Seq(Seq(Nat))
         /\ \A i \in 1 .. Len(LastLines(s)) : EndsLine(LastLines(s)[i])
         /\ s # << >> => LastLines(s) # << >> /\ Last(LastLines(s)) = Last(s)
         /\ \A i \in 1 .. Len(LastLines(s)) : \E j \in 1 .. Len(s) : LastLines(s)[i] = s[j]
<1> DEFINE L == Len(s)
           m == Max({1, L - N + 1})
           r == SubSeq(s, m, L)
<1>1. L \in Nat /\ \A i \in 1 .. L : s[i] \in Seq(Nat)
  OBVIOUS
<1>2. m \in Nat \ {0} /\ m <= L + 1 /\ (L # 0 => m <= L)
  <2>1. \E x \in {1, L - N + 1} : \A y \in {1, L - N + 1} : x >= y
    BY <1>1, DeviceAssumption
  <2>2. m \in {1, L - N + 1} /\ m >= 1
    BY <2>1 DEF Max
  <2>3. QED
    BY <1>1, <2>2, DeviceAssumption
<1> HIDE DEF m, L
<1>3. \A i \in m .. L : i \in 1 .. L
  BY <1>1, <1>2
<1>4. /\ r \in Seq(Seq(Nat)) /\ Len(r) = L - m + 1
      /\ \A i \in 1 .. L - m + 1 : r[i] = s[m + i - 1]
  <2>1. \A i \in m .. L : s[i] \in Seq(Nat)
    BY <1>1, <1>3
  <2>2. m \in Int /\ L \in Int /\ (IF m <= L THEN L - m + 1 ELSE 0) = L - m + 1
    BY <1>1, <1>2
  <2>3. QED
    BY <2>1, <2>2, SubSeqProperties
<1>5. \A i \in 1 .. Len(r) : EndsLine(r[i]) /\ \E j \in 1 .. L : r[i] = s[j]
  <2>1. \A i \in 1 .. L - m + 1 : m + i - 1 \in 1 .. L
    BY <1>1, <1>2
  <2> HIDE DEF r
  <2>2. QED
    BY <1>4, <2>1 DEF L
<1>6. s # << >> => r # << >> /\ r[Len(r)] = s[L]
  <2>1. s # << >> => L # 0
    BY DEF L
  <2>2. L # 0 => L - m + 1 \in 1 .. L - m + 1 /\ m + (L - m + 1) - 1 = L /\ L - m + 1 # 0
    BY <1>1, <1>2
  <2> HIDE DEF r
  <2>3. QED
    BY <1>4, <2>1, <2>2
<1>7. LastLines(s) = r
  BY DEF LastLines, r, m, L
<1> HIDE DEF r
<1>8. QED
  BY <1>4, <1>5, <1>6, <1>7 DEF Last, L

\* A write of one line, whether or not it fails.
LEMMA WriteKeepsLines ==
  ASSUME DeviceLines, NEW line \in Seq(Nat), OneLine(line),
         Write(line) \/ FailedWrite(line)
  PROVE  /\ DeviceLines' /\ (ok' => Last(lines') = line)
         /\ \A i \in 1 .. Len(lines') :
              lines'[i] = line \/ \E j \in 1 .. Len(lines) : lines'[i] = lines[j]
<1>1. rest \o line = line
  BY ConcatEmptySeq DEF DeviceLines
<1>2. LinesOf(rest \o line) = <<line>> /\ RestOf(rest \o line) = << >>
  BY <1>1, LinesOfLine
<1> DEFINE s == lines \o <<line>>
<1>3. /\ s \in Seq(Seq(Nat)) /\ s # << >> /\ Last(s) = line
      /\ \A i \in 1 .. Len(s) : EndsLine(s[i])
      /\ \A i \in 1 .. Len(s) : s[i] = line \/ \E j \in 1 .. Len(lines) : s[i] = lines[j]
  <2> DEFINE one == <<line>>
  <2>1. lines \in Seq(Seq(Nat)) /\ one \in Seq(Seq(Nat)) /\ Len(one) = 1 /\ one[1] = line
    BY DEF DeviceLines
  <2> HIDE DEF one
  <2>2. /\ s \in Seq(Seq(Nat)) /\ Len(s) = Len(lines) + 1 /\ Len(lines) \in Nat
        /\ \A i \in 1 .. Len(lines) + 1 : s[i] = IF i <= Len(lines) THEN lines[i] ELSE line
    <3>1. /\ lines \o one \in Seq(Seq(Nat)) /\ Len(lines \o one) = Len(lines) + Len(one)
          /\ \A i \in 1 .. Len(lines) + Len(one) :
               (lines \o one)[i] = IF i <= Len(lines) THEN lines[i] ELSE one[i - Len(lines)]
      BY <2>1, ConcatProperties
    <3>2. Len(lines) \in Nat
      BY <2>1
    <3>3. \A i \in 1 .. Len(lines) + 1 : ~(i <= Len(lines)) => i - Len(lines) = 1
      BY <3>2
    <3>4. s = lines \o one
      BY DEF one
    <3> HIDE DEF s
    <3>5. QED
      BY <2>1, <3>1, <3>2, <3>3, <3>4
  <2> HIDE DEF s
  <2>3. s # << >> /\ s[Len(s)] = line
    BY <2>2
  <2>4. ASSUME NEW i \in 1 .. Len(s)
        PROVE  EndsLine(s[i]) /\ (s[i] = line \/ \E j \in 1 .. Len(lines) : s[i] = lines[j])
    <3>1. CASE i <= Len(lines)
      <4>1. i \in 1 .. Len(lines) /\ s[i] = lines[i]
        <5>1. i \in 1 .. Len(lines) + 1 /\ i \in 1 .. Len(lines)
          <6>1. Len(s) = Len(lines) + 1 /\ Len(lines) \in Nat
            BY <2>2
          <6>2. i \in 1 .. Len(lines) + 1
            BY <6>1
          <6>3. QED
            BY <3>1, <6>1, <6>2
        <5>2. s[i] = IF i <= Len(lines) THEN lines[i] ELSE line
          BY <2>2, <5>1
        <5>3. QED
          BY <3>1, <5>1, <5>2
      <4>2. QED
        BY <4>1 DEF DeviceLines
    <3>2. CASE ~(i <= Len(lines))
      BY <2>2, <3>2 DEF OneLine
    <3>3. QED
      BY <3>1, <3>2
  <2>5. QED
    BY <2>2, <2>3, <2>4 DEF Last
<1>4. ASSUME NEW t \in Seq(Seq(Nat)), \A i \in 1 .. Len(t) : EndsLine(t[i]),
             \A i \in 1 .. Len(t) : t[i] = line \/ \E j \in 1 .. Len(lines) : t[i] = lines[j],
             lines' = LastLines(t)
      PROVE  /\ lines' \in Seq(Seq(Nat)) /\ \A i \in 1 .. Len(lines') : EndsLine(lines'[i])
             /\ \A i \in 1 .. Len(lines') :
                  lines'[i] = line \/ \E j \in 1 .. Len(lines) : lines'[i] = lines[j]
             /\ t # << >> => Last(lines') = Last(t)
  <2> DEFINE r == LastLines(t)
  <2>1. /\ r \in Seq(Seq(Nat)) /\ \A i \in 1 .. Len(r) : EndsLine(r[i])
        /\ \A i \in 1 .. Len(r) : \E j \in 1 .. Len(t) : r[i] = t[j]
        /\ t # << >> => Last(r) = Last(t)
    BY <1>4, LastLinesOf
  <2>2. lines' = r
    BY <1>4
  <2> HIDE DEF r
  <2>3. ASSUME NEW i \in 1 .. Len(r)
        PROVE  r[i] = line \/ \E j \in 1 .. Len(lines) : r[i] = lines[j]
    <3>1. PICK k \in 1 .. Len(t) : r[i] = t[k]
      BY <2>1
    <3>2. t[k] = line \/ \E j \in 1 .. Len(lines) : t[k] = lines[j]
      BY <1>4
    <3>3. QED
      BY <3>1, <3>2
  <2>4. QED
    BY <2>1, <2>2, <2>3
<1>5. CASE Write(line)
  <2>1. lines' = LastLines(s) /\ rest' = << >>
    BY <1>2, <1>5 DEF Write
  <2> HIDE DEF s
  <2>2. QED
    BY <1>3, <1>4, <2>1 DEF DeviceLines
<1>6. CASE FailedWrite(line) /\ UNCHANGED <<lines, rest>>
  BY <1>6 DEF FailedWrite, DeviceLines
<1>7. CASE FailedWrite(line) /\ ~UNCHANGED <<lines, rest>>
  <2>1. PICK k \in 0 .. Len(<<line>>) : lines' = LastLines(lines \o SubSeq(<<line>>, 1, k))
    BY <1>2, <1>7 DEF FailedWrite
  <2>2. rest' = << >> /\ ok' = FALSE
    BY <1>7 DEF FailedWrite
  <2>3. CASE k = 0
    <3>1. SubSeq(<<line>>, 1, k) = << >>
      BY <2>3
    <3>2. lines \o SubSeq(<<line>>, 1, k) = lines
      BY <3>1, ConcatEmptySeq DEF DeviceLines
    <3>3. lines' = LastLines(lines)
      BY <2>1, <3>2
    <3>4. lines \in Seq(Seq(Nat)) /\ \A i \in 1 .. Len(lines) : EndsLine(lines[i])
      BY DEF DeviceLines
    <3>5. \A i \in 1 .. Len(lines) : \E j \in 1 .. Len(lines) : lines[i] = lines[j]
      OBVIOUS
    <3>6. QED
      BY <1>4, <2>2, <3>3, <3>4, <3>5 DEF DeviceLines
  <2>4. CASE k # 0
    <3>1. SubSeq(<<line>>, 1, k) = <<line>>
      <4>1. k = 1
        BY <2>4
      <4>2. SubSeq(<<line>>, 1, 1) = <<line>>
        <5> DEFINE one == <<line>>
        <5>1. one \in Seq(Seq(Nat)) /\ Len(one) = 1
          OBVIOUS
        <5> HIDE DEF one
        <5>2. SubSeq(one, 1, 1) = one
          BY <5>1
        <5>3. QED
          BY <5>2 DEF one
      <4>3. QED
        BY <4>1, <4>2
    <3>2. lines' = LastLines(s)
      BY <2>1, <3>1
    <3> HIDE DEF s
    <3>3. QED
      BY <1>3, <1>4, <2>2, <3>2 DEF DeviceLines
  <2>5. QED
    BY <2>3, <2>4
<1>8. QED
  BY <1>5, <1>6, <1>7

\* The device reads from the position to the end of a line, and nothing only at the
\* end of the text.
LEMMA ReadInText ==
  ASSUME DeviceLines, fpos \in 0 .. Len(Text)
  PROVE  /\ Text \in Seq(Nat) /\ Len(DeviceRead) \in Nat
         /\ fpos + Len(DeviceRead) <= Len(Text)
         /\ DeviceRead = SubSeq(Text, fpos + 1, fpos + Len(DeviceRead))
         /\ DeviceRead = << >> => fpos = Len(Text)
<1> DEFINE T == Text
           toEnd == SubSeq(T, fpos + 1, Len(T))
           n == FirstAt(toEnd, NL)
<1>1. T \in Seq(Nat) /\ Len(T) \in Nat /\ fpos \in Nat /\ fpos <= Len(T)
  <2>1. 0 \in 0 .. Len(lines)
    BY DEF DeviceLines
  <2>2. T \in Seq(Nat)
    BY <2>1, FlattenPrefix DEF Text, DeviceLines
  <2> HIDE DEF T
  <2>3. Len(T) \in Nat
    BY <2>2
  <2>4. fpos \in 0 .. Len(T)
    BY DEF T
  <2>5. QED
    BY <2>2, <2>3, <2>4
<1>2. Len(T) # 0 => T[Len(T)] = NL
  <2>1. lines = << >> => Text = << >>
    BY DEF Text, FlattenSeq
  <2>2. lines # << >> => Text[Len(Text)] = NL
    BY FlattenEndsLine DEF DeviceLines, EndsLine, Text
  <2>3. QED
    BY <2>1, <2>2
<1> HIDE DEF T
<1>3. /\ toEnd \in Seq(Nat) /\ Len(toEnd) = Len(T) - fpos
      /\ \A m \in 1 .. Len(T) - fpos : toEnd[m] = T[fpos + m]
  BY <1>1, PartOfSeq
<1> HIDE DEF toEnd
<1>4. /\ SelectInSeq(toEnd, LAMBDA b : b = NL) = n /\ n \in 0 .. Len(toEnd)
      /\ n = 0 => \A i \in 1 .. Len(toEnd) : toEnd[i] # NL
  BY <1>3, FirstByte
<1>5. DeviceRead = SubSeq(toEnd, 1, n)
  BY <1>4 DEF DeviceRead, FirstLine, toEnd, T
<1> HIDE DEF n
<1>6. n \in Nat /\ n <= Len(T) - fpos /\ n <= Len(toEnd)
  BY <1>1, <1>3, <1>4
<1>7. /\ SubSeq(toEnd, 1, n) \in Seq(Nat) /\ Len(SubSeq(toEnd, 1, n)) = n
      /\ \A m \in 1 .. n : SubSeq(toEnd, 1, n)[m] = toEnd[m]
  BY <1>3, <1>6
<1>8. /\ SubSeq(T, fpos + 1, fpos + n) \in Seq(Nat) /\ Len(SubSeq(T, fpos + 1, fpos + n)) = n
      /\ \A m \in 1 .. n : SubSeq(T, fpos + 1, fpos + n)[m] = T[fpos + m]
  <2>1. fpos + n \in Nat /\ fpos <= fpos + n /\ fpos + n <= Len(T) /\ fpos + n - fpos = n
    BY <1>1, <1>6
  <2> DEFINE j == fpos + n
  <2>2. j \in Nat /\ fpos <= j /\ j <= Len(T) /\ j - fpos = n
    BY <1>1, <1>6, <2>1
  <2> HIDE DEF j
  <2>3. /\ SubSeq(T, fpos + 1, j) \in Seq(Nat) /\ Len(SubSeq(T, fpos + 1, j)) = j - fpos
        /\ \A m \in 1 .. j - fpos : SubSeq(T, fpos + 1, j)[m] = T[fpos + m]
    BY <1>1, <2>2, PartOfSeq
  <2>4. QED
    BY <2>2, <2>3 DEF j
<1>9. SubSeq(toEnd, 1, n) = SubSeq(T, fpos + 1, fpos + n)
  <2>1. \A m \in 1 .. n : toEnd[m] = T[fpos + m]
    BY <1>1, <1>3, <1>6
  <2> DEFINE a == SubSeq(toEnd, 1, n)
             b == SubSeq(T, fpos + 1, fpos + n)
  <2>2. a \in Seq(Nat) /\ b \in Seq(Nat) /\ Len(a) = Len(b) /\ \A m \in 1 .. Len(a) : a[m] = b[m]
    BY <1>7, <1>8, <2>1
  <2> HIDE DEF a, b
  <2>3. a = b
    BY <2>2, SeqEqual
  <2>4. QED
    BY <2>3 DEF a, b
<1>10. DeviceRead = << >> => fpos = Len(T)
  <2>1. SUFFICES ASSUME DeviceRead = << >>, fpos # Len(T) PROVE FALSE
    OBVIOUS
  <2>2. n = 0
    BY <1>5, <1>7, <2>1
  <2>3. Len(T) - fpos \in 1 .. Len(toEnd) /\ fpos + (Len(T) - fpos) = Len(T) /\ Len(T) # 0
    BY <1>1, <1>3, <2>1
  <2>4. toEnd[Len(T) - fpos] = NL
    BY <1>2, <1>3, <2>3
  <2>5. QED
    BY <1>4, <2>2, <2>3, <2>4
<1>11. Len(DeviceRead) = n
  BY <1>5, <1>7
<1>12. fpos + n <= Len(T)
  BY <1>1, <1>6
<1>13. DeviceRead = SubSeq(T, fpos + 1, fpos + n)
  BY <1>5, <1>9
<1>14. QED
  BY <1>1, <1>6, <1>10, <1>11, <1>12, <1>13 DEF T

\* An accepted seek leads into the text.
LEMMA SeekInText ==
  ASSUME DeviceLines, NEW cmd \in Nat, NEW offset \in Nat,
         SeekPosition(cmd, offset) # EINVAL
  PROVE  SeekPosition(cmd, offset) \in 0 .. Len(Text)
<1> DEFINE L == Len(lines)
           k == Min({cmd, L})
           size == IF cmd < L THEN Len(lines[cmd + 1]) ELSE 0
<1>1. L \in Nat /\ lines \in Seq(Seq(Nat)) /\ \A i \in 1 .. L : Len(lines[i]) \in Nat
  BY DEF DeviceLines
<1>2. k = IF cmd < L THEN cmd ELSE L
  <2>1. {cmd, L} \in SUBSET Nat /\ {cmd, L} # {}
    BY <1>1
  <2>2. k \in {cmd, L} /\ \A y \in {cmd, L} : k <= y
    BY <2>1, MinOfNaturals
  <2> HIDE DEF k
  <2>3. QED
    BY <1>1, <2>2
<1>3. SeekPosition(cmd, offset) = LineStart(k) + offset /\ ~(offset > size)
  BY DEF SeekPosition
<1> HIDE DEF k, L
<1>4. k \in 0 .. L /\ (cmd < L => k = cmd /\ k < L) /\ size \in Nat
  BY <1>1, <1>2
<1> DEFINE a == LineStart(k)
           b == Len(Text)
<1>5. /\ Text \in Seq(Nat) /\ a \in 0 .. b
      /\ k < L => a + Len(lines[k + 1]) <= b
  BY <1>1, <1>4, FlattenPrefix DEF Text, LineStart, L
<1>6. b \in Nat
  BY <1>5
<1> HIDE DEF a, b
<1>7. a + offset \in 0 .. b
  <2>1. CASE cmd < L
    <3>1. size = Len(lines[k + 1]) /\ a + size <= b
      BY <1>4, <1>5, <2>1
    <3> HIDE DEF size
    <3>2. QED
      BY <1>3, <1>4, <1>5, <1>6, <3>1
  <2>2. CASE ~(cmd < L)
    <3>1. offset = 0
      BY <1>3, <2>2
    <3>2. QED
      BY <1>5, <1>6, <3>1
  <2>3. QED
    BY <2>1, <2>2
<1>8. QED
  BY <1>3, <1>7 DEF a, b

(* ------------------------------ the threads ---------------------------- *)

\* The line at hand is one line, and lies in the buffer.
LEMMA LineInBuffer ==
  ASSUME Types, NEW c \in Conn
  PROVE  /\ Line(c) \in Seq(Nat) /\ (Line(c) # << >> => OneLine(Line(c)))
         /\ prev[c] + Len(Line(c)) \in Nat /\ prev[c] + Len(Line(c)) <= Len(in_buffer[c])
         /\ \A i \in 1 .. Len(Line(c)) : Line(c)[i] = in_buffer[c][prev[c] + i]
<1> DEFINE b == in_buffer[c]
           u == SubSeq(b, prev[c] + 1, Len(b))
           n == FirstAt(u, NL)
           line == SubSeq(u, 1, n)
<1>1. b \in Seq(Nat) /\ Len(b) \in Nat /\ prev[c] \in Nat /\ prev[c] <= Len(b)
  BY DEF Types
<1> HIDE DEF b
<1>2. /\ u \in Seq(Nat) /\ Len(u) = Len(b) - prev[c]
      /\ \A i \in 1 .. Len(b) - prev[c] : u[i] = b[prev[c] + i]
  <2>1. Len(b) <= Len(b)
    BY <1>1
  <2>2. QED
    BY <1>1, <2>1, PartOfSeq
<1>3. Unscanned(c) = u
  BY DEF Unscanned, b
<1> HIDE DEF u
<1>4. /\ SelectInSeq(u, LAMBDA x : x = NL) = n /\ n \in 0 .. Len(u)
      /\ n # 0 => u[n] = NL /\ \A i \in 1 .. n - 1 : u[i] # NL
  BY <1>2, FirstByte
<1>5. Line(c) = line
  BY <1>3, <1>4 DEF Line, FirstLine
<1> HIDE DEF n
<1>6. /\ n \in Nat /\ n <= Len(u) /\ n <= Len(b) - prev[c]
  BY <1>1, <1>2, <1>4
<1>7. line \in Seq(Nat) /\ Len(line) = n /\ \A i \in 1 .. n : line[i] = u[i]
  BY <1>2, <1>6
<1> HIDE DEF line
<1>8. line # << >> => OneLine(line)
  <2>1. line # << >> => n # 0 /\ n \in 1 .. n
    BY <1>6, <1>7
  <2>2. \A i \in 1 .. n - 1 : i \in 1 .. n
    BY <1>6
  <2>3. QED
    BY <1>4, <1>7, <2>1, <2>2 DEF OneLine, EndsLine
<1>9. prev[c] + n \in Nat /\ prev[c] + n <= Len(b)
  BY <1>1, <1>6
<1>10. \A i \in 1 .. n : line[i] = b[prev[c] + i]
  <2>1. \A i \in 1 .. n : i \in 1 .. Len(b) - prev[c]
    BY <1>1, <1>6
  <2>2. QED
    BY <1>2, <1>7, <2>1
<1>11. QED
  BY <1>5, <1>7, <1>8, <1>9, <1>10 DEF b

\* Nobody else moves what a thread is working on.
LEMMA LineStands ==
  ASSUME NEW c \in Conn, UNCHANGED lines, in_buffer'[c] = in_buffer[c], prev'[c] = prev[c]
  PROVE  Line(c)' = Line(c) /\ Text' = Text /\ AnswerFrom(c)' = AnswerFrom(c)
<1>1. Unscanned(c)' = Unscanned(c)
  BY DEF Unscanned
<1>2. Line(c)' = Line(c)
  BY <1>1 DEF Line
<1>3. SeekArgs(c)' = SeekArgs(c)
  BY <1>1 DEF SeekArgs
<1>4. Text' = Text
  BY DEF Text
<1>5. AnswerFrom(c)' = AnswerFrom(c)
  BY <1>2, <1>3, <1>4 DEF AnswerFrom, IsSeek, SeekPosition, LineStart
<1>6. QED
  BY <1>2, <1>4, <1>5

\* A thread that has not taken the lock, or a client, does something.
LEMMA QuietKeepsInv ==
  ASSUME Inv, Types', UNCHANGED <<deviceVars, fpos, file_lock, answer, alive>>,
         \A d \in Conn : \/ pc'[d] \notin {"scan", "reply", "failed"} /\ pc[d] \notin {"scan", "reply", "failed"}
                         \/ pc'[d] = pc[d] /\ in_buffer'[d] = in_buffer[d] /\ prev'[d] = prev[d]
  PROVE  Inv'
<1> USE DEF deviceVars
<1>1. DeviceLines'
  BY DEF Inv, DeviceLines
<1>2. Exclusive'
  BY DEF Inv, Exclusive
<1>3. Position'
  BY DEF Inv, Position, Text
<1>4. Exchange'
  <2>1. SUFFICES ASSUME NEW c \in Conn, alive', pc'[c] = "reply"
                 PROVE  /\ AnswerFrom(c)' \in 0 .. fpos'
                        /\ answer'[c] = SubSeq(Text', AnswerFrom(c)' + 1, fpos')
                        /\ ~IsSeek(Line(c)') /\ ok' => Last(lines') = Line(c)'
    BY DEF Exchange, IsSeek
  <2>2. pc[c] = "reply" /\ in_buffer'[c] = in_buffer[c] /\ prev'[c] = prev[c]
    BY <2>1
  <2>3. Line(c)' = Line(c) /\ Text' = Text /\ AnswerFrom(c)' = AnswerFrom(c)
    BY <2>2, LineStands
  <2>4. QED
    BY <2>1, <2>2, <2>3 DEF Inv, Exchange
<1>5. QED
  BY <1>1, <1>2, <1>3, <1>4 DEF Inv

\* What string functions see of a buffer is a part of it.
LEMMA UpToNulIsBytes ==
  ASSUME NEW bytes \in Seq(Nat)
  PROVE  UpToNul(bytes) \in Seq(Nat)
<1> DEFINE n == FirstAt(bytes, NUL)
<1>1. SelectInSeq(bytes, LAMBDA b : b = NUL) = n /\ n \in 0 .. Len(bytes)
  BY FirstByte
<1>2. UpToNul(bytes) = IF n = 0 THEN bytes ELSE SubSeq(bytes, 1, n - 1)
  BY <1>1 DEF UpToNul
<1> HIDE DEF n
<1>3. n # 0 => \A i \in 1 .. n - 1 : i \in 1 .. Len(bytes)
  BY <1>1
<1>4. n # 0 => SubSeq(bytes, 1, n - 1) \in Seq(Nat)
  BY <1>1, <1>3
<1>5. QED
  BY <1>2, <1>4

\* The clients' steps, and a thread's steps up to the lock.
LEMMA ClientKeepsInv ==
  ASSUME Inv, NEW c \in Conn, Send(c) \/ Disconnect(c) \/ Accept(c) \/ ReadSocket(c)
  PROVE  Inv'
<1> USE DEF client, buffer, history, deviceVars
<1>1. UNCHANGED <<deviceVars, fpos, file_lock, answer, alive>>
  BY DEF Send, Disconnect, Accept, ReadSocket
<1>2. Text' = Text
  BY <1>1 DEF Text
<1>3. CASE Send(c)
  <2> DEFINE segment == Segments[c][sent[c] + 1]
  <2>1. segment \in Seq(Nat) /\ sent[c] \in Nat /\ sock[c] \in Seq(Nat)
    <3>1. sent[c] \in Nat /\ sock[c] \in Seq(Nat)
      BY DEF Inv, Types
    <3>2. sent[c] + 1 \in 1 .. Len(Segments[c]) /\ Segments[c] \in Seq(Seq(Nat))
      BY <1>3, <3>1, SocketAssumption DEF Send
    <3>3. QED
      BY <3>1, <3>2
  <2>2. sock[c] \o segment \in Seq(Nat)
    BY <2>1, ConcatProperties
  <2>3. /\ sock' = [sock EXCEPT ![c] = @ \o segment] /\ sent' = [sent EXCEPT ![c] = @ + 1]
        /\ UNCHANGED <<peer, pc, in_buffer, prev>>
    BY <1>3 DEF Send
  <2> HIDE DEF segment
  <2>4. Types'
    BY <1>1, <1>2, <2>1, <2>2, <2>3 DEF Inv, Types
  <2>5. QED
    BY <1>1, <2>3, <2>4, QuietKeepsInv
<1>4. CASE Disconnect(c)
  <2>1. UNCHANGED <<sent, sock, pc, in_buffer, prev>>
    BY <1>4 DEF Disconnect
  <2>2. peer' \in [Conn -> {"open", "eof", "reset", "dead"}]
    BY <1>4 DEF Disconnect, Inv, Types
  <2>3. Types'
    BY <1>1, <1>2, <2>1, <2>2 DEF Inv, Types
  <2>4. QED
    BY <1>1, <2>1, <2>3, QuietKeepsInv
<1>5. CASE Accept(c)
  <2>1. /\ UNCHANGED <<sent, sock, peer, in_buffer, prev>>
        /\ pc[c] = "none" /\ pc' = [pc EXCEPT ![c] = "read"]
    BY <1>5 DEF Accept, Goto
  <2>2. Types'
    BY <1>1, <1>2, <2>1 DEF Inv, Types
  <2>3. \A d \in Conn : \/ pc'[d] \notin {"scan", "reply", "failed"} /\ pc[d] \notin {"scan", "reply", "failed"}
                        \/ pc'[d] = pc[d]
    BY <2>1 DEF Inv, Types
  <2>4. QED
    BY <1>1, <2>1, <2>2, <2>3, QuietKeepsInv
<1>6. CASE ReadSocket(c)
  <2> DEFINE s == sock[c]
             n == Min({Len(s), BufLen})
             got == Received(c, n)
             left == SubSeq(s, n + 1, Len(s))
  <2>1. s \in Seq(Nat) /\ Len(s) \in Nat
    BY DEF Inv, Types
  <2>2. n \in Nat /\ n <= Len(s)
    <3>1. {Len(s), BufLen} \in SUBSET Nat /\ {Len(s), BufLen} # {}
      BY <2>1, SocketAssumption
    <3>2. QED
      BY <3>1, MinOfNaturals
  <2>3. got \in Seq(Nat) /\ left \in Seq(Nat)
    <3> HIDE DEF n
    <3>1. SubSeq(s, 1, n) \in Seq(Nat)
      <4>1. \A i \in 1 .. n : s[i] \in Nat
        BY <2>1, <2>2
      <4>2. n \in Int /\ 1 \in Int
        BY <2>2
      <4>3. QED
        BY <4>1, <4>2, SubSeqProperties
    <3>2. Len(s) <= Len(s)
      BY <2>1
    <3>3. left \in Seq(Nat)
      BY <2>1, <2>2, <3>2, PartOfSeq
    <3>4. QED
      BY <3>1, <3>3, UpToNulIsBytes DEF Received
  <2>4. /\ \/ in_buffer' = [in_buffer EXCEPT ![c] = got] \/ in_buffer' = in_buffer
        /\ \/ sock' = [sock EXCEPT ![c] = left] \/ sock' = sock
        /\ \/ peer' = [peer EXCEPT ![c] = "dead"] \/ peer' = peer
        /\ \/ pc' = [pc EXCEPT ![c] = "lock"] \/ pc' = [pc EXCEPT ![c] = "done"]
        /\ prev' = [prev EXCEPT ![c] = 0]
        /\ sent' = sent /\ pc[c] = "read"
    BY <1>6 DEF ReadSocket, Goto
  <2> HIDE DEF got, left, n, s
  <2>5. in_buffer' \in [Conn -> Seq(Nat)]
    BY <2>3, <2>4 DEF Inv, Types
  <2>6. sock' \in [Conn -> Seq(Nat)]
    BY <2>3, <2>4 DEF Inv, Types
  <2>7. peer' \in [Conn -> {"open", "eof", "reset", "dead"}]
    BY <2>4 DEF Inv, Types
  <2>8. pc' \in [Conn -> {"none", "read", "lock", "scan", "reply", "done", "failed"}]
    BY <2>4 DEF Inv, Types
  <2>9. prev' \in [Conn -> Nat] /\ \A d \in Conn : prev'[d] <= Len(in_buffer'[d])
    <3>1. prev' \in [Conn -> Nat] /\ prev'[c] = 0
      BY <2>4 DEF Inv, Types
    <3>2. \A d \in Conn : Len(in_buffer'[d]) \in Nat
      <4>1. \A x \in Seq(Nat) : Len(x) \in Nat
        OBVIOUS
      <4>2. QED
        BY <2>5, <4>1
    <3>3. \A d \in Conn : d # c => prev'[d] = prev[d] /\ in_buffer'[d] = in_buffer[d]
      BY <2>4 DEF Inv, Types
    <3>4. \A d \in Conn : d # c => prev'[d] <= Len(in_buffer'[d])
      BY <3>3 DEF Inv, Types
    <3>5. prev'[c] <= Len(in_buffer'[c])
      BY <3>1, <3>2
    <3>6. QED
      BY <3>1, <3>4, <3>5
  <2>10. Types'
    BY <1>1, <1>2, <2>4, <2>5, <2>6, <2>7, <2>8, <2>9 DEF Inv, Types
  <2>11. \A d \in Conn : \/ pc'[d] \notin {"scan", "reply", "failed"} /\ pc[d] \notin {"scan", "reply", "failed"}
                         \/ pc'[d] = pc[d] /\ in_buffer'[d] = in_buffer[d] /\ prev'[d] = prev[d]
    BY <2>4 DEF Inv, Types
  <2>12. QED
    BY <1>1, <2>10, <2>11, QuietKeepsInv
<1>7. QED
  BY <1>3, <1>4, <1>5, <1>6

\* A thread takes file_lock, or gives it back between two exchanges.
LEMMA LockKeepsInv ==
  ASSUME Inv, NEW c \in Conn, LockFile(c) \/ UnlockFile(c)
  PROVE  Inv'
<1> USE DEF client, buffer, history, deviceVars
<1>1. /\ UNCHANGED <<deviceVars, fpos, answer, alive, sent, sock, peer, in_buffer, prev>>
      /\ \/ /\ pc[c] = "lock" /\ file_lock = Nobody
            /\ pc' = [pc EXCEPT ![c] = "scan"] /\ file_lock' = c
         \/ /\ pc[c] = "scan"
            /\ pc' = [pc EXCEPT ![c] = "read"] /\ file_lock' = Nobody
  BY DEF LockFile, UnlockFile, FileLockFree, Goto
<1>2. Text' = Text /\ Nobody \notin Conn
  BY <1>1, SocketAssumption DEF Text, Nobody
<1>3. \A d \in Conn : d # c => pc'[d] = pc[d]
  BY <1>1 DEF Inv, Types
<1>4. pc'[c] \in {"scan", "read"} /\ (pc'[c] = "scan" <=> file_lock' = c)
  BY <1>1, <1>2 DEF Inv, Types
<1>5. DeviceLines'
  BY <1>1 DEF Inv, DeviceLines
<1>6. Types'
  BY <1>1, <1>2 DEF Inv, Types
<1>7. Exclusive'
  BY <1>1, <1>2, <1>3, <1>4 DEF Inv, Exclusive
<1>8. Position'
  <2>1. pc[c] \notin {"reply", "failed"} /\ pc'[c] \notin {"reply", "failed"}
    BY <1>1, <1>4
  <2>2. QED
    BY <1>1, <1>2, <1>3, <2>1 DEF Inv, Position
<1>9. Exchange'
  <2>1. SUFFICES ASSUME NEW d \in Conn, alive', pc'[d] = "reply"
                 PROVE  /\ AnswerFrom(d)' \in 0 .. fpos'
                        /\ answer'[d] = SubSeq(Text', AnswerFrom(d)' + 1, fpos')
                        /\ ~IsSeek(Line(d)') /\ ok' => Last(lines') = Line(d)'
    BY DEF Exchange, IsSeek
  <2>2. pc[d] = "reply"
    BY <1>3, <1>4, <2>1
  <2>3. Line(d)' = Line(d) /\ AnswerFrom(d)' = AnswerFrom(d)
    BY <1>1, LineStands
  <2>4. QED
    BY <1>1, <1>2, <2>1, <2>2, <2>3 DEF Inv, Exchange
<1>10. QED
  BY <1>5, <1>6, <1>7, <1>8, <1>9 DEF Inv

\* While one thread is at work on the device, the others are not.
LEMMA OthersOut ==
  ASSUME Exclusive, NEW c \in Conn, pc[c] \in {"scan", "reply", "failed"}
  PROVE  file_lock = c /\ \A d \in Conn : d # c => pc[d] \notin {"scan", "reply", "failed"}
BY DEF Exclusive

\* A line goes to the device.
LEMMA StoreKeepsInv ==
  ASSUME Inv, NEW c \in Conn, StoreLine(c)
  PROVE  Inv'
<1> USE DEF client, buffer
<1>1. /\ pc[c] = "scan" /\ Line(c) # << >> /\ ~IsSeek(Line(c))
      /\ Write(Line(c)) \/ FailedWrite(Line(c))
      /\ fpos' = 0 /\ answer' = [answer EXCEPT ![c] = << >>] /\ pc' = [pc EXCEPT ![c] = "reply"]
      /\ UNCHANGED <<file_lock, sent, sock, peer, in_buffer, prev, alive>>
  BY DEF StoreLine, AnswerStart, Goto
<1>2. /\ file_lock = c /\ \A d \in Conn : d # c => pc[d] \notin {"scan", "reply", "failed"}
  BY <1>1, OthersOut DEF Inv
<1>3. pc'[c] = "reply" /\ answer'[c] = << >> /\ \A d \in Conn : d # c => pc'[d] = pc[d]
  BY <1>1 DEF Inv, Types
<1>4. DeviceLines' /\ (ok' => Last(lines') = Line(c))
  <2>1. Line(c) \in Seq(Nat) /\ OneLine(Line(c))
    BY <1>1, LineInBuffer DEF Inv
  <2> DEFINE line == Line(c)
  <2>2. line \in Seq(Nat) /\ OneLine(line) /\ (Write(line) \/ FailedWrite(line))
    BY <1>1, <2>1
  <2> HIDE DEF line
  <2>3. DeviceLines' /\ (ok' => Last(lines') = line)
    BY <2>2, WriteKeepsLines DEF Inv
  <2>4. QED
    BY <2>3 DEF line
<1>5. Len(Text') \in Nat
  <2>1. lines' \in Seq(Seq(Nat)) /\ 0 \in 0 .. Len(lines')
    BY <1>4 DEF DeviceLines
  <2>2. Text' \in Seq(Nat)
    BY <2>1, FlattenPrefix DEF Text
  <2>3. QED
    BY <2>2
<1>6. Types'
  <2>1. fpos' \in 0 .. Len(Text')
    <3>1. fpos' = 0
      BY <1>1
    <3>2. QED
      BY <1>5, <3>1
  <2>2. pc' \in [Conn -> {"none", "read", "lock", "scan", "reply", "done", "failed"}]
    BY <1>1 DEF Inv, Types
  <2>3. answer' = [d \in Conn |-> answer'[d]]
    BY <1>1 DEF Inv, Types
  <2>4. /\ file_lock' = file_lock /\ sent' = sent /\ sock' = sock /\ peer' = peer
        /\ in_buffer' = in_buffer /\ prev' = prev /\ alive' = alive
    BY <1>1
  <2>5. QED
    BY <2>1, <2>2, <2>3, <2>4 DEF Inv, Types
<1>7. Exclusive'
  BY <1>1, <1>2, <1>3 DEF Inv, Exclusive
<1>8. Position'
  BY <1>3 DEF Position
<1>9. Exchange'
  <2>1. Line(c)' = Line(c)
    BY <1>1 DEF Line, Unscanned
  <2>2. AnswerFrom(c)' = 0
    BY <1>1, <2>1 DEF AnswerFrom, IsSeek
  <2>3. SubSeq(Text', 1, 0) = << >>
    BY SubSeqEmpty
  <2>4. /\ AnswerFrom(c)' \in 0 .. fpos'
        /\ answer'[c] = SubSeq(Text', AnswerFrom(c)' + 1, fpos')
        /\ ok' => Last(lines') = Line(c)'
    <3>1. fpos' = 0
      BY <1>1
    <3>2. AnswerFrom(c)' \in 0 .. fpos'
      BY <2>2, <3>1
    <3>3. AnswerFrom(c)' + 1 = 1
      BY <2>2
    <3>4. SubSeq(Text', AnswerFrom(c)' + 1, fpos') = << >>
      BY <2>3, <3>1, <3>3, Zenon
    <3>5. QED
      BY <1>3, <1>4, <2>1, <3>2, <3>4, Zenon
  <2>5. \A d \in Conn : pc'[d] = "reply" => d = c
    BY <1>2, <1>3
  <2>6. QED
    BY <2>4, <2>5 DEF Exchange
<1>10. QED
  BY <1>4, <1>6, <1>7, <1>8, <1>9 DEF Inv

\* A request is for a command and an offset, or malformed.
LEMMA SeekArgsAreNumbers ==
  ASSUME NEW bytes, ScanSeek(bytes) # << >>
  PROVE  ScanSeek(bytes)[1] \in Nat /\ ScanSeek(bytes)[2] \in Nat
<1> DEFINE words == SelectSeq(Tail(bytes), LAMBDA b : b # NL)
<1>1. ScanSeek(bytes) = IF Len(words) >= 2 /\ {words[1], words[2]} \subseteq Digit
                        THEN <<words[1] - 48, words[2] - 48>> ELSE << >>
  BY DEF ScanSeek
<1> HIDE DEF words
<1>2. QED
  BY <1>1 DEF Digit

\* A seek request moves the position or ends the thread.
LEMMA SeekKeepsInv ==
  ASSUME Inv, NEW c \in Conn, SeekLine(c)
  PROVE  Inv'
<1> USE DEF client, buffer, deviceVars
<1> DEFINE args == SeekArgs(c)
           pos == IF args = << >> THEN fpos ELSE SeekPosition(args[1], args[2])
<1>1. /\ pc[c] = "scan" /\ IsSeek(Line(c))
      /\ answer' = [answer EXCEPT ![c] = << >>]
      /\ \/ /\ pos # EINVAL /\ fpos' = pos /\ pc' = [pc EXCEPT ![c] = "reply"]
            /\ UNCHANGED file_lock
         \/ /\ file_lock' = Nobody /\ pc' = [pc EXCEPT ![c] = "done"]
            /\ UNCHANGED fpos
      /\ UNCHANGED <<deviceVars, sent, sock, peer, in_buffer, prev, alive>>
  BY DEF SeekLine, Accepted, LockAfterRefusal, Goto
<1>2. /\ file_lock = c /\ \A d \in Conn : d # c => pc[d] \notin {"scan", "reply", "failed"}
  BY <1>1, OthersOut DEF Inv
<1>3. /\ answer'[c] = << >> /\ pc'[c] \in {"reply", "done"}
      /\ \A d \in Conn : d # c => pc'[d] = pc[d]
      /\ \A d \in Conn : pc'[d] = "reply" => d = c
  BY <1>1, <1>2 DEF Inv, Types
<1>4. Line(c)' = Line(c) /\ Text' = Text /\ AnswerFrom(c)' = AnswerFrom(c)
  BY <1>1, LineStands
<1>5. fpos = Len(Text) /\ fpos \in 0 .. Len(Text)
  <2>1. \A d \in Conn : pc[d] \notin {"reply", "failed"}
    BY <1>1, <1>2
  <2>2. QED
    BY <2>1 DEF Inv, Position, Types
<1>6. Nobody \notin Conn
  BY SocketAssumption DEF Nobody
<1>7. DeviceLines'
  BY <1>1 DEF Inv, DeviceLines
<1>8. CASE pos # EINVAL /\ fpos' = pos /\ pc' = [pc EXCEPT ![c] = "reply"] /\ UNCHANGED file_lock
  <2>0. pc'[c] = "reply"
    BY <1>8 DEF Inv, Types
  <2>1. AnswerFrom(c) = pos
    BY <1>1, <1>5 DEF AnswerFrom
  <2>2. pos \in 0 .. Len(Text)
    <3>1. CASE args = << >>
      BY <1>5, <3>1
    <3>2. CASE args # << >>
      <4>1. args[1] \in Nat /\ args[2] \in Nat
        BY <3>2, SeekArgsAreNumbers DEF SeekArgs
      <4>2. SeekPosition(args[1], args[2]) # EINVAL
        BY <1>8, <3>2
      <4> DEFINE cmd == args[1]
                 offset == args[2]
      <4>3. cmd \in Nat /\ offset \in Nat /\ SeekPosition(cmd, offset) # EINVAL
        BY <4>1, <4>2
      <4> HIDE DEF cmd, offset
      <4>4. SeekPosition(cmd, offset) \in 0 .. Len(Text)
        BY <4>3, SeekInText DEF Inv
      <4>5. QED
        BY <3>2, <4>4 DEF cmd, offset
    <3>3. QED
      BY <3>1, <3>2
  <2> HIDE DEF pos
  <2>3. Types'
    BY <1>1, <1>4, <1>8, <2>2 DEF Inv, Types
  <2>4. Exclusive'
    BY <1>2, <1>3, <1>8, <2>0 DEF Inv, Exclusive
  <2>5. Position'
    BY <2>0 DEF Position
  <2>6. Exchange'
    <3>1. pos \in Nat /\ pos \in 0 .. pos /\ SubSeq(Text, pos + 1, pos) = << >>
      <4>1. pos \in Nat /\ pos \in 0 .. pos
        BY <2>2
      <4>2. pos \in Int /\ pos + 1 \in Int /\ pos < pos + 1
        BY <4>1
      <4>3. QED
        BY <4>1, <4>2, SubSeqEmpty
    <3>2. /\ AnswerFrom(c)' \in 0 .. fpos'
          /\ answer'[c] = SubSeq(Text', AnswerFrom(c)' + 1, fpos')
          /\ IsSeek(Line(c)')
      BY <1>1, <1>3, <1>4, <1>8, <2>1, <3>1
    <3>3. QED
      BY <1>3, <3>2 DEF Exchange, IsSeek
  <2>7. QED
    BY <1>7, <2>3, <2>4, <2>5, <2>6 DEF Inv
<1>9. CASE file_lock' = Nobody /\ pc' = [pc EXCEPT ![c] = "done"] /\ UNCHANGED fpos
  <2>0. pc'[c] = "done"
    BY <1>9 DEF Inv, Types
  <2>1. Types'
    BY <1>1, <1>4, <1>9 DEF Inv, Types
  <2>2. Exclusive'
    BY <1>2, <1>3, <1>6, <1>9, <2>0 DEF Exclusive
  <2>3. Position'
    BY <1>4, <1>5, <1>9 DEF Position
  <2>4. Exchange'
    BY <1>3, <2>0 DEF Exchange
  <2>5. QED
    BY <1>7, <2>1, <2>2, <2>3, <2>4 DEF Inv
<1>10. QED
  BY <1>1, <1>8, <1>9

\* One turn of the answer loop.
LEMMA ReplyKeepsInv ==
  ASSUME Inv, NEW c \in Conn, alive, Reply(c)
  PROVE  Inv'
<1> USE DEF client, buffer, deviceVars
<1>1. /\ pc[c] = "reply" /\ fpos' = fpos + Len(DeviceRead)
      /\ \/ answer' = [answer EXCEPT ![c] = @ \o DeviceRead] /\ UNCHANGED <<pc, alive>>
         \/ pc' = [pc EXCEPT ![c] = "failed"] /\ UNCHANGED <<answer, alive>>
         \/ alive' = FALSE /\ UNCHANGED <<pc, answer>>
      /\ peer' = [peer EXCEPT ![c] = IF @ = "reset" THEN "dead" ELSE @]
      /\ UNCHANGED <<deviceVars, file_lock, sent, sock, in_buffer, prev>>
  BY DEF Reply, Goto
<1>2. /\ file_lock = c /\ \A d \in Conn : d # c => pc[d] \notin {"scan", "reply", "failed"}
  BY <1>1, OthersOut DEF Inv
<1>3. /\ pc'[c] \in {"reply", "failed"}
      /\ \A d \in Conn : d # c => pc'[d] = pc[d]
      /\ \A d \in Conn : pc'[d] = "reply" => d = c
  BY <1>1, <1>2 DEF Inv, Types
<1>4. Line(c)' = Line(c) /\ Text' = Text /\ AnswerFrom(c)' = AnswerFrom(c)
  BY <1>1, LineStands
<1>5. /\ Text \in Seq(Nat) /\ Len(DeviceRead) \in Nat /\ fpos + Len(DeviceRead) <= Len(Text)
      /\ DeviceRead = SubSeq(Text, fpos + 1, fpos + Len(DeviceRead))
      /\ fpos \in Nat /\ Len(Text) \in Nat
  <2>1. fpos \in 0 .. Len(Text)
    BY DEF Inv, Types
  <2>2. /\ Text \in Seq(Nat) /\ Len(DeviceRead) \in Nat /\ fpos + Len(DeviceRead) <= Len(Text)
        /\ DeviceRead = SubSeq(Text, fpos + 1, fpos + Len(DeviceRead))
    BY <2>1, ReadInText DEF Inv
  <2>3. Len(Text) \in Nat
    BY <2>2
  <2>4. fpos \in Nat
    BY <2>1, <2>3
  <2>5. QED
    BY <2>2, <2>3, <2>4
<1> DEFINE next == fpos + Len(DeviceRead)
<1>6. next \in Nat /\ next <= Len(Text) /\ fpos <= next /\ next \in 0 .. Len(Text)
  BY <1>5
<1>7. fpos' = next /\ DeviceRead = SubSeq(Text, fpos + 1, next)
  BY <1>1, <1>5
<1> HIDE DEF next
<1>8. DeviceLines'
  BY <1>1 DEF Inv, DeviceLines
<1>9. Types'
  <2>1. peer' \in [Conn -> {"open", "eof", "reset", "dead"}]
    BY <1>1 DEF Inv, Types
  <2>2. pc' \in [Conn -> {"none", "read", "lock", "scan", "reply", "done", "failed"}]
    BY <1>1 DEF Inv, Types
  <2>3. answer' = [d \in Conn |-> answer'[d]] /\ alive' \in BOOLEAN
    BY <1>1 DEF Inv, Types
  <2>4. fpos' \in 0 .. Len(Text')
    BY <1>4, <1>6, <1>7
  <2>5. QED
    BY <1>1, <2>1, <2>2, <2>3, <2>4 DEF Inv, Types
<1>10. Exclusive'
  BY <1>1, <1>2, <1>3 DEF Inv, Exclusive
<1>11. Position'
  BY <1>3 DEF Position
<1>12. Exchange'
  <2>1. SUFFICES ASSUME alive', pc'[c] = "reply"
                 PROVE  /\ AnswerFrom(c)' \in 0 .. fpos'
                        /\ answer'[c] = SubSeq(Text', AnswerFrom(c)' + 1, fpos')
                        /\ ~IsSeek(Line(c)') /\ ok' => Last(lines') = Line(c)'
    BY <1>3 DEF Exchange, IsSeek
  <2>2. answer' = [answer EXCEPT ![c] = @ \o DeviceRead]
    BY <1>1, <2>1 DEF Inv, Types
  <2> DEFINE from == AnswerFrom(c)
  <2>3. /\ from \in 0 .. fpos /\ answer[c] = SubSeq(Text, from + 1, fpos)
        /\ ~IsSeek(Line(c)) /\ ok => Last(lines) = Line(c)
    BY <1>1 DEF Inv, Exchange
  <2>4. answer'[c] = answer[c] \o DeviceRead
    BY <2>2 DEF Inv, Types
  <2> HIDE DEF from
  <2>5. from \in Nat /\ from <= fpos /\ from \in 0 .. next
    BY <1>5, <1>6, <2>3
  <2>6. SubSeq(Text, from + 1, fpos) \o SubSeq(Text, fpos + 1, next) = SubSeq(Text, from + 1, next)
    BY <1>5, <1>6, <2>5, PartsMeet
  <2>7. answer'[c] = SubSeq(Text, from + 1, next)
    BY <1>7, <2>3, <2>4, <2>6
  <2>8. QED
    BY <1>1, <1>4, <1>7, <2>3, <2>5, <2>7 DEF from
<1>13. QED
  BY <1>8, <1>9, <1>10, <1>11, <1>12 DEF Inv

\* The answer is complete.
LEMMA ReplyDoneKeepsInv ==
  ASSUME Inv, NEW c \in Conn, ReplyDone(c)
  PROVE  fpos = Len(Text) /\ Inv'
<1> USE DEF client, deviceVars, history
<1>1. /\ pc[c] = "reply" /\ DeviceRead = << >>
      /\ prev' = [prev EXCEPT ![c] = prev[c] + Len(Line(c))] /\ pc' = [pc EXCEPT ![c] = "scan"]
      /\ UNCHANGED <<deviceVars, fpos, file_lock, sent, sock, peer, in_buffer, answer, alive>>
  BY DEF ReplyDone, NextPrev, Goto
<1>2. /\ file_lock = c /\ \A d \in Conn : d # c => pc[d] \notin {"scan", "reply", "failed"}
  BY <1>1, OthersOut DEF Inv
<1>3. pc'[c] = "scan" /\ \A d \in Conn : d # c => pc'[d] = pc[d]
  BY <1>1 DEF Inv, Types
<1>4. fpos = Len(Text)
  BY <1>1, ReadInText DEF Inv, Types
<1>5. Text' = Text
  BY <1>1 DEF Text
<1>6. DeviceLines'
  BY <1>1 DEF Inv, DeviceLines
<1>7. Types'
  <2>1. prev[c] + Len(Line(c)) \in Nat /\ prev[c] + Len(Line(c)) <= Len(in_buffer[c])
    BY LineInBuffer DEF Inv
  <2> DEFINE next == prev[c] + Len(Line(c))
  <2>2. next \in Nat /\ next <= Len(in_buffer[c]) /\ prev' = [prev EXCEPT ![c] = next]
    BY <1>1, <2>1
  <2> HIDE DEF next
  <2>3. prev' \in [Conn -> Nat] /\ \A d \in Conn : prev'[d] <= Len(in_buffer'[d])
    BY <1>1, <2>2 DEF Inv, Types
  <2>4. pc' \in [Conn -> {"none", "read", "lock", "scan", "reply", "done", "failed"}]
    BY <1>1 DEF Inv, Types
  <2>5. QED
    BY <1>1, <1>5, <2>3, <2>4 DEF Inv, Types
<1>8. Exclusive'
  BY <1>1, <1>2, <1>3 DEF Inv, Exclusive
<1>9. Position'
  BY <1>1, <1>4, <1>5 DEF Position
<1>10. Exchange'
  BY <1>2, <1>3 DEF Exchange
<1>11. QED
  BY <1>4, <1>6, <1>7, <1>8, <1>9, <1>10 DEF Inv

(* ------------------------------ theorems ------------------------------ *)

\* The invariant holds in every state of the server.
THEOREM SocketInvariant == Spec => []Inv
<1>1. Init => Inv
  <2>1. SUFFICES ASSUME Init PROVE Inv
    OBVIOUS
  <2>2. lines = << >> /\ rest = << >> /\ Text = << >> /\ fpos = 0
    BY <2>1 DEF Init, DeviceInit, Text, FlattenSeq
  <2>3. \A c \in Conn : pc[c] = "none" /\ prev[c] = 0 /\ in_buffer[c] = << >>
    BY <2>1 DEF Init
  <2>4. DeviceLines
    BY <2>2 DEF DeviceLines
  <2>5. Types
    <3>1. fpos \in 0 .. Len(Text)
      BY <2>2
    <3>2. \A c \in Conn : prev[c] <= Len(in_buffer[c])
      BY <2>3
    <3>3. QED
      BY <2>1, <3>1, <3>2 DEF Init, Types
  <2>6. Exclusive
    BY <2>1, <2>3, SocketAssumption DEF Init, Exclusive, Nobody
  <2>7. Position /\ Exchange
    BY <2>2, <2>3 DEF Position, Exchange
  <2>8. QED
    BY <2>4, <2>5, <2>6, <2>7 DEF Inv
<1>2. ASSUME Inv, [Next]_vars PROVE Inv'
  <2>1. ASSUME NEW c \in Conn, Send(c) \/ Disconnect(c) PROVE Inv'
    BY <1>2, <2>1, ClientKeepsInv
  <2>2. ASSUME NEW c \in Conn, ThreadStep(c) PROVE Inv'
    BY <1>2, <2>2, ClientKeepsInv, LockKeepsInv, StoreKeepsInv, SeekKeepsInv,
       ReplyKeepsInv, ReplyDoneKeepsInv DEF ThreadStep
  <2>3. CASE UNCHANGED vars
    <3>1. /\ UNCHANGED <<deviceVars, fpos, file_lock, answer, alive>>
          /\ UNCHANGED <<sent, sock, peer, pc, in_buffer, prev>>
      BY <2>3 DEF vars, serverVars
    <3>2. Types'
      BY <1>2, <3>1 DEF Inv, Types, Text, deviceVars
    <3>3. QED
      BY <1>2, <3>1, <3>2, QuietKeepsInv
  <2>4. QED
    BY <1>2, <2>1, <2>2, <2>3 DEF Next
<1>3. QED
  BY <1>1, <1>2, PTL DEF Spec

\* The position of file_fd never leaves the text, and what is scanned never leaves
\* the buffer.
THEOREM SocketTypes == Spec => []TypeOK
<1>1. Inv => TypeOK
  <2>1. SUFFICES ASSUME Inv PROVE TypeOK
    OBVIOUS
  <2>2. ASSUME NEW c \in Conn PROVE prev[c] \in 0 .. Len(in_buffer[c])
    <3> DEFINE b == in_buffer[c]
    <3>1. prev[c] \in Nat /\ prev[c] <= Len(b) /\ b \in Seq(Nat)
      BY <2>1 DEF Inv, Types
    <3> HIDE DEF b
    <3>2. prev[c] \in 0 .. Len(b)
      BY <3>1
    <3>3. QED
      BY <3>2 DEF b
  <2>3. QED
    BY <2>1, <2>2 DEF Inv, Types, TypeOK
<1>2. QED
  BY <1>1, SocketInvariant, PTL

\* An exchange is atomic: when the thread of a connection has answered a line, the
\* answer it has sent is what the device holds, from its start or from the position
\* asked for, and a line that was written is the last one on the device.
THEOREM SocketAnswers == Spec => AnswerIsDevice
<1> DEFINE Answered ==
      \A c \in Conn :
        pc[c] = "reply" /\ pc'[c] = "scan" =>
          /\ answer[c] = SubSeq(Text, AnswerFrom(c) + 1, Len(Text))
          /\ ~IsSeek(Line(c)) /\ ok => Last(lines) = Line(c)
<1>1. ASSUME Inv, [Next]_vars PROVE [Answered]_vars
  <2>1. SUFFICES ASSUME Next, NEW c \in Conn, pc[c] = "reply", pc'[c] = "scan"
                 PROVE  /\ answer[c] = SubSeq(Text, AnswerFrom(c) + 1, Len(Text))
                        /\ ~IsSeek(Line(c)) /\ ok => Last(lines) = Line(c)
    BY <1>1
  <2>2. alive /\ ReplyDone(c)
    <3>1. \A d \in Conn : pc' = [pc EXCEPT ![d] = pc'[d]] \/ pc' = pc => (d # c => pc'[c] = pc[c])
      BY <1>1 DEF Inv, Types
    <3>2. PICK d \in Conn : Send(d) \/ Disconnect(d) \/ ThreadStep(d)
      BY <2>1 DEF Next
    <3>3. pc' # pc
      BY <2>1
    <3>4. ~Send(d) /\ ~Disconnect(d)
      BY <3>3 DEF Send, Disconnect
    <3>5. d = c
      BY <1>1, <2>1, <3>2, <3>4
      DEF Inv, Types, ThreadStep, Accept, ReadSocket, LockFile, StoreLine, SeekLine, Reply,
          ReplyDone, UnlockFile, Goto
    <3>6. alive /\ (Accept(c) \/ ReadSocket(c) \/ LockFile(c) \/ StoreLine(c) \/ SeekLine(c)
                     \/ Reply(c) \/ ReplyDone(c) \/ UnlockFile(c))
      BY <3>2, <3>4, <3>5 DEF ThreadStep
    <3>7. /\ ~Accept(c) /\ ~ReadSocket(c) /\ ~LockFile(c) /\ ~StoreLine(c) /\ ~SeekLine(c)
          /\ ~UnlockFile(c)
      BY <2>1 DEF Accept, ReadSocket, LockFile, StoreLine, SeekLine, UnlockFile
    <3>8. ~Reply(c)
      <4>1. Reply(c) => pc' = pc \/ pc' = [pc EXCEPT ![c] = "failed"]
        BY DEF Reply, Goto
      <4>2. pc' # [pc EXCEPT ![c] = "failed"]
        BY <1>1, <2>1 DEF Inv, Types
      <4>3. QED
        BY <3>3, <4>1, <4>2
    <3>9. QED
      BY <3>6, <3>7, <3>8
  <2>3. fpos = Len(Text)
    BY <1>1, <2>2, ReplyDoneKeepsInv
  <2>4. QED
    BY <1>1, <2>1, <2>2, <2>3 DEF Inv, Exchange
<1>2. QED
  BY <1>1, SocketInvariant, PTL DEF Spec, AnswerIsDevice

(* ------------------------ where the lines come from --------------------- *)

\* bytes is a part of text, the one behind its first at bytes.
StandsAt(bytes, text, at) ==
  /\ at + Len(bytes) <= Len(text)
  /\ \A i \in 1 .. Len(bytes) : bytes[i] = text[at + i]
StandsIn(bytes, text) == \E at \in 0 .. Len(text) : StandsAt(bytes, text, at)

\* What has arrived and was not read is the end of the client's stream, and what a
\* thread has in its buffer is one part of it ...
Arrived ==
  \A c \in Conn :
    /\ sent[c] <= Len(Segments[c])
    /\ Len(sock[c]) <= Len(Stream(c))
    /\ StandsAt(sock[c], Stream(c), Len(Stream(c)) - Len(sock[c]))
    /\ StandsIn(in_buffer[c], Stream(c))

\* ... and so is each line on the device.
LinesSent ==
  \A i \in 1 .. Len(lines) :
    OneLine(lines[i]) /\ \E c \in Conn : StandsIn(lines[i], Stream(c))

\* The partial results for the first lines are those for all of them.
Begins(t, s) == t # << >> /\ Len(t) <= Len(s) /\ \A i \in 1 .. Len(t) : t[i] = s[i]

\* Both are built up in the same way, so they agree as far as both go.
LEMMA PartialAgree ==
  ASSUME NEW s \in Seq(Seq(Nat)), NEW t \in Seq(Seq(Nat)), NEW g, NEW h,
         Begins(t, s), PartialTexts(s, g), PartialTexts(t, h)
  PROVE  \A i \in 1 .. Len(t) : h[i] = g[i]
<1> DEFINE k == Len(t)
           A == {i \in 1 .. k : h[i] # g[i]}
<1>1. k \in Nat /\ k # 0 /\ Len(s) \in Nat /\ k <= Len(s)
  BY DEF Begins
<1>2. \A i \in 1 .. k : t[i] = s[i]
  BY DEF Begins
<1>3. /\ h[1] = t[1] /\ \A i \in 2 .. k : h[i] = h[i - 1] \o t[i]
      /\ g[1] = s[1] /\ \A i \in 2 .. Len(s) : g[i] = g[i - 1] \o s[i]
  BY DEF PartialTexts
<1> HIDE DEF k
<1>4. SUFFICES ASSUME A # {} PROVE FALSE
  BY DEF k
<1>5. PICK n \in A : \A m \in A : n <= m
  <2>1. A \in SUBSET Nat
    BY <1>1
  <2> HIDE DEF A
  <2>2. QED
    BY <1>4, <2>1, MinOfNaturals
<1>6. n \in 1 .. k /\ h[n] # g[n]
  OBVIOUS
<1>7. n # 1
  <2>1. 1 \in 1 .. k
    BY <1>1
  <2>2. QED
    BY <1>2, <1>3, <1>6, <2>1
<1>8. n \in 2 .. k /\ n \in 2 .. Len(s) /\ n - 1 \in 1 .. k
  BY <1>1, <1>6, <1>7
<1>9. n - 1 \notin A
  <2> HIDE DEF A
  <2>1. QED
    BY <1>1, <1>5, <1>8
<1>10. h[n - 1] = g[n - 1]
  BY <1>8, <1>9
<1>11. QED
  BY <1>2, <1>3, <1>6, <1>8, <1>10

\* One more segment comes at the end of the stream.
LEMMA FlattenAppend ==
  ASSUME NEW s \in Seq(Seq(Nat)), NEW k \in Nat, k < Len(s)
  PROVE  FlattenSeq(SubSeq(s, 1, k + 1)) = FlattenSeq(SubSeq(s, 1, k)) \o s[k + 1]
<1> DEFINE p == SubSeq(s, 1, k)
           q == SubSeq(s, 1, k + 1)
<1>1. /\ p \in Seq(Seq(Nat)) /\ Len(p) = k /\ \A i \in 1 .. k : p[i] = s[i]
  OBVIOUS
<1>2. /\ q \in Seq(Seq(Nat)) /\ Len(q) = k + 1 /\ \A i \in 1 .. k + 1 : q[i] = s[i]
  OBVIOUS
<1>3. s[k + 1] \in Seq(Nat) /\ k + 1 \in 1 .. k + 1 /\ 1 \in 1 .. k + 1
  OBVIOUS
<1> SUFFICES FlattenSeq(q) = FlattenSeq(p) \o s[k + 1]
  OBVIOUS
<1> HIDE DEF p, q
<1>4. q # << >>
  BY <1>2
<1>5. PICK g : PartialTexts(q, g) /\ FlattenSeq(q) = g[k + 1]
  BY <1>2, <1>4, FlattenPartial
<1>6. g[1] = q[1] /\ \A i \in 2 .. k + 1 : g[i] = g[i - 1] \o q[i]
  BY <1>2, <1>5 DEF PartialTexts
<1>7. CASE k = 0
  <2>1. p = << >>
    BY <1>1, <1>7
  <2>2. FlattenSeq(p) = << >>
    BY <2>1 DEF FlattenSeq
  <2>3. k + 1 = 1
    BY <1>7
  <2>4. FlattenSeq(q) = s[1]
    BY <1>2, <1>3, <1>5, <1>6, <2>3
  <2>5. << >> \o s[1] = s[1]
    BY <1>3, <2>3, ConcatEmptySeq
  <2>6. QED
    BY <2>2, <2>3, <2>4, <2>5
<1>8. CASE k # 0
  <2>1. p # << >> /\ k \in 1 .. k /\ k + 1 \in 2 .. k + 1 /\ (k + 1) - 1 = k
    BY <1>1, <1>8
  <2>2. PICK h : PartialTexts(p, h) /\ FlattenSeq(p) = h[k]
    BY <1>1, <2>1, FlattenPartial
  <2>3. Begins(p, q)
    <3>1. k <= k + 1 /\ \A i \in 1 .. k : i \in 1 .. k + 1
      OBVIOUS
    <3>2. \A i \in 1 .. k : p[i] = q[i]
      BY <1>1, <1>2, <3>1, Zenon
    <3>3. QED
      BY <1>1, <1>2, <2>1, <3>1, <3>2, Zenon DEF Begins
  <2>4. h[k] = g[k]
    <3>1. \A i \in 1 .. Len(p) : h[i] = g[i]
      <4>1. /\ q \in Seq(Seq(Nat)) /\ p \in Seq(Seq(Nat))
            /\ PartialTexts(q, g) /\ PartialTexts(p, h)
        BY <1>1, <1>2, <1>5, <2>1, <2>2
      <4>2. QED
        BY <2>3, <4>1, PartialAgree
    <3>2. QED
      BY <1>1, <2>1, <3>1
  <2>5. g[k + 1] = g[k] \o q[k + 1]
    BY <1>6, <2>1
  <2>6. QED
    BY <1>2, <1>3, <1>5, <2>2, <2>4, <2>5
<1>9. QED
  BY <1>7, <1>8

\* A part of a part, and a part of a text that goes on.
LEMMA PartOfPart ==
  ASSUME NEW text \in Seq(Nat), NEW bytes \in Seq(Nat), NEW part \in Seq(Nat),
         NEW at \in Nat, NEW from \in Nat,
         StandsAt(bytes, text, at), StandsAt(part, bytes, from)
  PROVE  StandsAt(part, text, at + from) /\ at + from \in 0 .. Len(text)
<1>1. Len(text) \in Nat /\ Len(bytes) \in Nat /\ Len(part) \in Nat
  OBVIOUS
<1>2. at + Len(bytes) <= Len(text) /\ from + Len(part) <= Len(bytes)
  BY DEF StandsAt
<1>3. at + from + Len(part) <= Len(text) /\ at + from \in 0 .. Len(text)
  BY <1>1, <1>2
<1>4. ASSUME NEW i \in 1 .. Len(part) PROVE part[i] = text[(at + from) + i]
  <2>1. from + i \in 1 .. Len(bytes) /\ at + (from + i) = (at + from) + i
    BY <1>1, <1>2
  <2>2. part[i] = bytes[from + i]
    BY DEF StandsAt
  <2>3. bytes[from + i] = text[at + (from + i)]
    BY <2>1 DEF StandsAt
  <2>4. QED
    BY <2>1, <2>2, <2>3
<1>5. QED
  BY <1>3, <1>4 DEF StandsAt

\* A part of a text stays one, at its place, when the text goes on.
LEMMA PartOfLonger ==
  ASSUME NEW text \in Seq(Nat), NEW more \in Seq(Nat), NEW bytes \in Seq(Nat),
         NEW at \in Nat, StandsAt(bytes, text, at)
  PROVE  StandsAt(bytes, text \o more, at) /\ at \in 0 .. Len(text \o more)
<1> DEFINE all == text \o more
<1>1. /\ all \in Seq(Nat) /\ Len(all) = Len(text) + Len(more)
      /\ \A i \in 1 .. Len(text) + Len(more) :
           all[i] = IF i <= Len(text) THEN text[i] ELSE more[i - Len(text)]
  BY ConcatProperties
<1>2. Len(text) \in Nat /\ Len(more) \in Nat /\ Len(bytes) \in Nat
  OBVIOUS
<1> HIDE DEF all
<1>3. at + Len(bytes) <= Len(text)
  BY DEF StandsAt
<1>4. at + Len(bytes) <= Len(all) /\ at \in 0 .. Len(all)
  BY <1>1, <1>2, <1>3
<1>5. ASSUME NEW i \in 1 .. Len(bytes) PROVE bytes[i] = all[at + i]
  <2>1. at + i \in 1 .. Len(text) + Len(more) /\ at + i <= Len(text)
    BY <1>2, <1>3
  <2>2. all[at + i] = text[at + i]
    BY <1>1, <2>1
  <2>3. QED
    BY <2>2 DEF StandsAt
<1>6. QED
  BY <1>4, <1>5 DEF StandsAt, all

\* What SubSeq cuts out is a part, and what the string functions see of it too.
LEMMA SubSeqStands ==
  ASSUME NEW s \in Seq(Nat), NEW i \in Nat, NEW j \in Nat, i <= j, j <= Len(s)
  PROVE  SubSeq(s, i + 1, j) \in Seq(Nat) /\ StandsAt(SubSeq(s, i + 1, j), s, i)
<1> DEFINE r == SubSeq(s, i + 1, j)
<1>1. /\ r \in Seq(Nat) /\ Len(r) = j - i /\ \A m \in 1 .. j - i : r[m] = s[i + m]
  BY PartOfSeq
<1> HIDE DEF r
<1>2. i + Len(r) <= Len(s)
  BY <1>1
<1>3. QED
  BY <1>1, <1>2 DEF StandsAt, r

\* What the string functions see of a buffer is its beginning.
LEMMA UpToNulStands ==
  ASSUME NEW bytes \in Seq(Nat)
  PROVE  StandsAt(UpToNul(bytes), bytes, 0)
<1> DEFINE n == FirstAt(bytes, NUL)
<1>1. SelectInSeq(bytes, LAMBDA b : b = NUL) = n /\ n \in 0 .. Len(bytes)
  BY FirstByte
<1>2. UpToNul(bytes) = IF n = 0 THEN bytes ELSE SubSeq(bytes, 1, n - 1)
  BY <1>1 DEF UpToNul
<1> HIDE DEF n
<1>3. CASE n = 0
  BY <1>2, <1>3 DEF StandsAt
<1>4. CASE n # 0
  <2>1. n - 1 \in Nat /\ 0 <= n - 1 /\ n - 1 <= Len(bytes)
    BY <1>1, <1>4
  <2>2. StandsAt(SubSeq(bytes, 0 + 1, n - 1), bytes, 0)
    BY <2>1, SubSeqStands
  <2>3. 0 + 1 = 1
    OBVIOUS
  <2>4. QED
    BY <1>2, <1>4, <2>2, <2>3
<1>5. QED
  BY <1>3, <1>4

\* The two conjuncts in the next state.
ArrivedNext(c) ==
  /\ sent'[c] <= Len(Segments[c]) /\ Len(sock'[c]) <= Len(Stream(c)')
  /\ StandsAt(sock'[c], Stream(c)', Len(Stream(c)') - Len(sock'[c]))
  /\ StandsIn(in_buffer'[c], Stream(c)')
LinesSentNext(i) ==
  OneLine(lines'[i]) /\ \E c \in Conn : StandsIn(lines'[i], Stream(c)')

\* They are what has to be shown of a step.
LEMMA NextState ==
  /\ (\A c \in Conn : ArrivedNext(c)) => Arrived'
  /\ (\A i \in 1 .. Len(lines') : LinesSentNext(i)) => LinesSent'
BY DEF ArrivedNext, LinesSentNext, Arrived, LinesSent, StandsAt, StandsIn, OneLine, EndsLine

\* What a client has sent is a sequence of bytes.
LEMMA StreamIsBytes ==
  ASSUME NEW c \in Conn, sent[c] \in Nat, sent[c] <= Len(Segments[c])
  PROVE  Stream(c) \in Seq(Nat)
<1> DEFINE s == Segments[c]
           p == SubSeq(s, 1, sent[c])
<1>1. s \in Seq(Seq(Nat))
  BY SocketAssumption
<1> HIDE DEF s
<1>2. p \in Seq(Seq(Nat)) /\ 0 \in 0 .. Len(p)
  BY <1>1 DEF s
<1>3. Stream(c) = FlattenSeq(p)
  BY DEF Stream, s
<1> HIDE DEF p
<1>4. QED
  BY <1>2, <1>3, FlattenPrefix

\* A segment that the client sends comes at the end of its stream and of what waits
\* to be read.
LEMMA SendKeepsArrived ==
  ASSUME Inv, Arrived, LinesSent, NEW c \in Conn, Send(c)
  PROVE  Arrived' /\ LinesSent'
<1> USE DEF buffer, deviceVars
<1> DEFINE segment == Segments[c][sent[c] + 1]
           S == Stream(c)
           k == sock[c]
<1>1. /\ sent[c] < Len(Segments[c]) /\ sent' = [sent EXCEPT ![c] = @ + 1]
      /\ sock' = [sock EXCEPT ![c] = @ \o segment] /\ in_buffer' = in_buffer /\ lines' = lines
  BY DEF Send
<1>2. /\ \A d \in Conn : sent[d] \in Nat /\ sock[d] \in Seq(Nat) /\ in_buffer[d] \in Seq(Nat)
      /\ sent'[c] = sent[c] + 1 /\ \A d \in Conn : d # c => sent'[d] = sent[d]
      /\ sock'[c] = sock[c] \o segment /\ \A d \in Conn : d # c => sock'[d] = sock[d]
  BY <1>1 DEF Inv, Types
<1>3. Segments[c] \in Seq(Seq(Nat)) /\ Len(Segments[c]) \in Nat
  BY SocketAssumption
<1>4. segment \in Seq(Nat) /\ sent[c] + 1 <= Len(Segments[c])
  BY <1>1, <1>2, <1>3
<1>5. \A d \in Conn : Stream(d) \in Seq(Nat)
  BY <1>2, StreamIsBytes DEF Arrived
<1>6. Stream(c)' = S \o segment /\ \A d \in Conn : d # c => Stream(d)' = Stream(d)
  <2>1. Stream(c)' = FlattenSeq(SubSeq(Segments[c], 1, sent[c] + 1))
    BY <1>2 DEF Stream
  <2>2. QED
    BY <1>1, <1>2, <1>3, <2>1, FlattenAppend DEF Stream
<1> HIDE DEF segment, S, k
<1>7. ASSUME NEW bytes \in Seq(Nat), NEW d \in Conn, StandsIn(bytes, Stream(d))
      PROVE  StandsIn(bytes, Stream(d)')
  <2>1. CASE d = c
    <3>1. S \in Seq(Nat)
      BY <1>5 DEF S
    <3>2. PICK at \in 0 .. Len(S) : StandsAt(bytes, S, at)
      BY <1>7, <2>1 DEF StandsIn, S
    <3>3. at \in Nat
      BY <3>1
    <3>4. StandsAt(bytes, S \o segment, at) /\ at \in 0 .. Len(S \o segment)
      BY <1>4, <3>1, <3>2, <3>3, PartOfLonger
    <3>5. QED
      BY <1>6, <2>1, <3>4 DEF StandsIn
  <2>2. CASE d # c
    BY <1>6, <1>7, <2>2
  <2>3. QED
    BY <2>1, <2>2
<1>8. LinesSent'
  <2>1. \A i \in 1 .. Len(lines) : lines[i] \in Seq(Nat)
    BY DEF Inv, DeviceLines
  <2>2. ASSUME NEW i \in 1 .. Len(lines) PROVE \E d \in Conn : StandsIn(lines[i], Stream(d)')
    BY <1>7, <2>1 DEF LinesSent
  <2>3. QED
    BY <1>1, <2>2, NextState DEF LinesSent, LinesSentNext
<1>9. Len(k \o segment) <= Len(S \o segment)
      /\ StandsAt(k \o segment, S \o segment, Len(S \o segment) - Len(k \o segment))
  <2>1. /\ k \in Seq(Nat) /\ S \in Seq(Nat) /\ Len(k) \in Nat /\ Len(S) \in Nat
        /\ Len(segment) \in Nat
    BY <1>2, <1>4, <1>5 DEF k, S
  <2>2. /\ Len(k) <= Len(S) /\ StandsAt(k, S, Len(S) - Len(k))
    BY DEF Arrived, k, S
  <2> DEFINE kk == k \o segment
             SS == S \o segment
             at == Len(S) - Len(k)
  <2>3. /\ kk \in Seq(Nat) /\ Len(kk) = Len(k) + Len(segment)
        /\ \A i \in 1 .. Len(k) + Len(segment) :
             kk[i] = IF i <= Len(k) THEN k[i] ELSE segment[i - Len(k)]
    BY <1>4, <2>1, ConcatProperties
  <2>4. /\ SS \in Seq(Nat) /\ Len(SS) = Len(S) + Len(segment)
        /\ \A i \in 1 .. Len(S) + Len(segment) :
             SS[i] = IF i <= Len(S) THEN S[i] ELSE segment[i - Len(S)]
    BY <1>4, <2>1, ConcatProperties
  <2> HIDE DEF kk, SS
  <2>5. at \in Nat /\ at + Len(k) = Len(S) /\ Len(SS) - Len(kk) = at /\ Len(kk) <= Len(SS)
        /\ at + Len(kk) <= Len(SS)
    BY <2>1, <2>2, <2>3, <2>4
  <2> HIDE DEF at
  <2>6. ASSUME NEW i \in 1 .. Len(kk) PROVE kk[i] = SS[at + i]
    <3>1. i \in 1 .. Len(k) + Len(segment) /\ at + i \in 1 .. Len(S) + Len(segment)
      BY <2>1, <2>3, <2>5
    <3>2. CASE i <= Len(k)
      <4>1. i \in 1 .. Len(k) /\ at + i <= Len(S)
        BY <2>1, <2>5, <3>1, <3>2
      <4>2. k[i] = S[at + i]
        BY <2>2, <4>1 DEF StandsAt, at
      <4>3. QED
        BY <2>3, <2>4, <3>1, <3>2, <4>1, <4>2
    <3>3. CASE ~(i <= Len(k))
      <4>1. ~(at + i <= Len(S)) /\ (at + i) - Len(S) = i - Len(k)
        <5>1. at \in Nat /\ at + Len(k) = Len(S) /\ i \in Nat
          BY <2>5, <3>1
        <5>2. QED
          <6> DEFINE x == Len(k)
                     y == Len(S)
          <6>1. x \in Nat /\ y \in Nat /\ at + x = y /\ ~(i <= x)
            BY <2>1, <3>3, <5>1
          <6> HIDE DEF x, y
          <6>2. ~(at + i <= y) /\ (at + i) - y = i - x
            BY <5>1, <6>1
          <6>3. QED
            BY <6>2 DEF x, y
      <4>2. QED
        BY <2>3, <2>4, <3>1, <3>3, <4>1
    <3>4. QED
      BY <3>2, <3>3
  <2>7. Len(kk) <= Len(SS) /\ StandsAt(kk, SS, Len(SS) - Len(kk))
    BY <2>5, <2>6 DEF StandsAt
  <2>8. QED
    BY <2>7 DEF kk, SS
<1>10. Arrived'
  <2>1. SUFFICES ASSUME NEW d \in Conn PROVE ArrivedNext(d)
    BY NextState
  <2>2. StandsIn(in_buffer'[d], Stream(d)')
    BY <1>1, <1>2, <1>7 DEF Arrived
  <2>3. CASE d = c
    BY <1>2, <1>4, <1>6, <1>9, <2>2, <2>3 DEF ArrivedNext, k
  <2>4. CASE d # c
    BY <1>2, <1>6, <2>2, <2>4 DEF Arrived, ArrivedNext
  <2>5. QED
    BY <2>3, <2>4
<1>11. QED
  BY <1>8, <1>10

\* A read takes the first of what waits; the buffer then holds what the string
\* functions see of it.
LEMMA ReadKeepsArrived ==
  ASSUME Inv, Arrived, LinesSent, NEW c \in Conn, ReadSocket(c)
  PROVE  Arrived' /\ LinesSent'
<1> USE DEF deviceVars
<1> DEFINE k == sock[c]
           S == Stream(c)
           n == Min({Len(k), BufLen})
           got == SubSeq(k, 0 + 1, n)
           left == SubSeq(k, n + 1, Len(k))
<1>1. /\ \/ in_buffer' = [in_buffer EXCEPT ![c] = UpToNul(got)]
            /\ sock' = [sock EXCEPT ![c] = left]
         \/ in_buffer' = in_buffer /\ sock' = sock
      /\ sent' = sent /\ lines' = lines
  <2>1. 0 + 1 = 1
    OBVIOUS
  <2>2. got = SubSeq(sock[c], 1, n)
    BY <2>1
  <2>3. \/ in_buffer' = [in_buffer EXCEPT ![c] = Received(c, n)]
           /\ sock' = [sock EXCEPT ![c] = left]
        \/ in_buffer' = in_buffer /\ sock' = sock
    <3> HIDE DEF n
    <3>1. n = Min({Len(sock[c]), BufLen})
      BY DEF n
    <3>2. sock[c] = k
      OBVIOUS
    <3>3. QED
      BY <3>1 DEF ReadSocket
  <2>4. sent' = sent /\ lines' = lines
    BY DEF ReadSocket
  <2> HIDE DEF n, got, left
  <2>5. QED
    BY <2>2, <2>3, <2>4 DEF Received
<1>2. /\ k \in Seq(Nat) /\ S \in Seq(Nat) /\ Len(k) \in Nat /\ Len(S) \in Nat
      /\ Len(k) <= Len(S) /\ StandsAt(k, S, Len(S) - Len(k))
  BY StreamIsBytes DEF Inv, Types, Arrived
<1>3. \A d \in Conn : Stream(d)' = Stream(d)
  BY <1>1 DEF Stream
<1>4. n \in Nat /\ n <= Len(k)
  <2>1. {Len(k), BufLen} \in SUBSET Nat /\ {Len(k), BufLen} # {}
    BY <1>2, SocketAssumption
  <2>2. QED
    BY <2>1, MinOfNaturals
<1> HIDE DEF n, k, S
<1>5. LinesSent'
  <2>1. \A i \in 1 .. Len(lines') : LinesSentNext(i)
    BY <1>1, <1>3 DEF LinesSent, LinesSentNext
  <2>2. QED
    BY <2>1, NextState
<1>6. StandsIn(UpToNul(got), S)
  <2>1. 0 <= n /\ 0 \in Nat /\ Len(S) - Len(k) \in Nat
    BY <1>2, <1>4
  <2>2. got \in Seq(Nat) /\ StandsAt(got, k, 0)
    BY <1>2, <1>4, <2>1, SubSeqStands
  <2> HIDE DEF got
  <2>3. UpToNul(got) \in Seq(Nat) /\ StandsAt(UpToNul(got), got, 0)
    BY <2>2, UpToNulIsBytes, UpToNulStands
  <2>4. StandsAt(UpToNul(got), k, 0 + 0)
    BY <1>2, <2>1, <2>2, <2>3, PartOfPart
  <2>5. 0 + 0 = 0
    OBVIOUS
  <2> DEFINE seen == UpToNul(got)
             at == Len(S) - Len(k)
  <2>6. /\ seen \in Seq(Nat) /\ StandsAt(seen, k, 0) /\ at \in Nat /\ StandsAt(k, S, at)
    BY <1>2, <2>1, <2>3, <2>4, <2>5
  <2> HIDE DEF seen, at
  <2>7. StandsAt(seen, S, at + 0) /\ at + 0 \in 0 .. Len(S)
    BY <1>2, <2>1, <2>6, PartOfPart
  <2>8. QED
    BY <2>7 DEF StandsIn, seen
<1>7. Len(left) <= Len(S) /\ StandsAt(left, S, Len(S) - Len(left))
  <2>1. Len(k) <= Len(k) /\ Len(S) - Len(k) \in Nat
    BY <1>2
  <2>2. left \in Seq(Nat) /\ Len(left) = Len(k) - n /\ StandsAt(left, k, n)
    BY <1>2, <1>4, <2>1, SubSeqStands, PartOfSeq
  <2> HIDE DEF left
  <2> DEFINE at == Len(S) - Len(k)
  <2>3. at \in Nat /\ StandsAt(k, S, at)
    BY <1>2, <2>1
  <2>4. Len(left) <= Len(S) /\ Len(S) - Len(left) = at + n
    BY <1>2, <1>4, <2>2
  <2> HIDE DEF at
  <2>5. StandsAt(left, S, at + n)
    BY <1>2, <1>4, <2>2, <2>3, PartOfPart
  <2>6. QED
    BY <2>4, <2>5
<1> HIDE DEF got, left
<1>8. Arrived'
  <2>1. SUFFICES ASSUME NEW d \in Conn PROVE ArrivedNext(d)
    BY NextState
  <2>2. CASE in_buffer'[d] = in_buffer[d] /\ sock'[d] = sock[d]
    BY <1>1, <1>3, <2>2 DEF Arrived, ArrivedNext
  <2>3. CASE d = c /\ in_buffer'[c] = UpToNul(got) /\ sock'[c] = left
    BY <1>1, <1>3, <1>6, <1>7, <2>3 DEF Arrived, ArrivedNext, S
  <2>4. QED
    BY <1>1, <2>2, <2>3 DEF Inv, Types
<1>9. QED
  BY <1>5, <1>8

\* A line that is written is a part of the buffer, hence of the stream.
LEMMA StoreKeepsArrived ==
  ASSUME Inv, Arrived, LinesSent, NEW c \in Conn, StoreLine(c)
  PROVE  Arrived' /\ LinesSent'
<1> USE DEF client, buffer
<1> DEFINE line == Line(c)
           b == in_buffer[c]
           S == Stream(c)
<1>1. /\ line # << >> /\ (Write(line) \/ FailedWrite(line))
      /\ sent' = sent /\ sock' = sock /\ in_buffer' = in_buffer
  BY DEF StoreLine
<1>2. \A d \in Conn : Stream(d)' = Stream(d)
  BY <1>1 DEF Stream
<1>3. /\ line \in Seq(Nat) /\ OneLine(line) /\ prev[c] \in Nat
      /\ StandsAt(line, b, prev[c])
  BY <1>1, LineInBuffer DEF Inv, Types, StandsAt
<1>4. b \in Seq(Nat) /\ S \in Seq(Nat) /\ StandsIn(b, S)
  BY StreamIsBytes DEF Inv, Types, Arrived
<1> HIDE DEF line, b, S
<1>5. StandsIn(line, S)
  <2>1. PICK at \in 0 .. Len(S) : StandsAt(b, S, at)
    BY <1>4 DEF StandsIn
  <2>2. at \in Nat
    BY <1>4
  <2>3. StandsAt(line, S, at + prev[c]) /\ at + prev[c] \in 0 .. Len(S)
    BY <1>3, <1>4, <2>1, <2>2, PartOfPart
  <2>4. QED
    BY <2>3 DEF StandsIn
<1>6. \A i \in 1 .. Len(lines') :
        lines'[i] = line \/ \E j \in 1 .. Len(lines) : lines'[i] = lines[j]
  BY <1>1, <1>3, WriteKeepsLines DEF Inv
<1>7. LinesSent'
  <2>1. SUFFICES ASSUME NEW i \in 1 .. Len(lines') PROVE LinesSentNext(i)
    BY NextState
  <2>2. OneLine(lines'[i]) /\ \E d \in Conn : StandsIn(lines'[i], Stream(d))
    BY <1>3, <1>5, <1>6 DEF LinesSent, S
  <2>3. QED
    BY <1>2, <2>2 DEF LinesSentNext
<1>8. Arrived'
  <2>1. \A d \in Conn : ArrivedNext(d)
    BY <1>1, <1>2 DEF Arrived, ArrivedNext
  <2>2. QED
    BY <2>1, NextState
<1>9. QED
  BY <1>7, <1>8

\* The parts of the streams are an inductive invariant, given the one above.
THEOREM SocketStreams == Spec => [](Arrived /\ LinesSent)
<1>1. Init => Arrived /\ LinesSent
  <2>1. SUFFICES ASSUME Init PROVE Arrived /\ LinesSent
    OBVIOUS
  <2>2. lines = << >>
    BY <2>1 DEF Init, DeviceInit
  <2>3. LinesSent
    BY <2>2 DEF LinesSent
  <2>4. ASSUME NEW c \in Conn
        PROVE  /\ sent[c] <= Len(Segments[c]) /\ Len(sock[c]) <= Len(Stream(c))
               /\ StandsAt(sock[c], Stream(c), Len(Stream(c)) - Len(sock[c]))
               /\ StandsIn(in_buffer[c], Stream(c))
    <3>1. sent[c] = 0 /\ sock[c] = << >> /\ in_buffer[c] = << >>
      BY <2>1 DEF Init
    <3>2. 0 <= Len(Segments[c])
      BY SocketAssumption
    <3> DEFINE S == Stream(c)
    <3>3. S \in Seq(Nat) /\ Len(S) \in Nat
      BY <3>1, <3>2, StreamIsBytes
    <3> HIDE DEF S
    <3>4. /\ 0 <= Len(S) /\ StandsAt(<< >>, S, Len(S) - Len(<< >>)) /\ StandsIn(<< >>, S)
      BY <3>3 DEF StandsIn, StandsAt
    <3>5. QED
      BY <3>1, <3>2, <3>4 DEF S
  <2>5. QED
    BY <2>3, <2>4 DEF Arrived
<1>2. ASSUME Inv, Arrived, LinesSent, [Next]_vars PROVE Arrived' /\ LinesSent'
  <2>1. ASSUME UNCHANGED <<lines, sent, sock, in_buffer>> PROVE Arrived' /\ LinesSent'
    <3>1. \A c \in Conn : Stream(c)' = Stream(c)
      BY <2>1 DEF Stream
    <3>2. \A c \in Conn : ArrivedNext(c)
      BY <1>2, <2>1, <3>1 DEF Arrived, ArrivedNext
    <3>3. \A i \in 1 .. Len(lines') : LinesSentNext(i)
      BY <1>2, <2>1, <3>1 DEF LinesSent, LinesSentNext
    <3>4. QED
      BY <3>2, <3>3, NextState
  <2>2. CASE UNCHANGED vars
    BY <2>1, <2>2 DEF vars, deviceVars, serverVars
  <2>3. ASSUME NEW c \in Conn, Send(c) \/ Disconnect(c) \/ ThreadStep(c)
        PROVE  Arrived' /\ LinesSent'
    <3>1. CASE Send(c) \/ ReadSocket(c) \/ StoreLine(c)
      BY <1>2, <3>1, SendKeepsArrived, ReadKeepsArrived, StoreKeepsArrived
    <3>2. CASE Disconnect(c) \/ Accept(c) \/ LockFile(c) \/ SeekLine(c) \/ Reply(c)
                 \/ ReplyDone(c) \/ UnlockFile(c)
      <4>1. UNCHANGED <<lines, sent, sock, in_buffer>>
        BY <3>2 DEF Disconnect, Accept, LockFile, SeekLine, Reply, ReplyDone, UnlockFile,
                    deviceVars, client, buffer
      <4>2. QED
        BY <2>1, <4>1
    <3>3. QED
      BY <2>3, <3>1, <3>2 DEF ThreadStep
  <2>4. QED
    BY <1>2, <2>2, <2>3 DEF Next
<1>3. QED
  BY <1>1, <1>2, SocketInvariant, PTL DEF Spec

\* A part that reaches the end is a suffix.
LEMMA SuffixOf ==
  ASSUME NEW s \in Seq(Nat), NEW t \in Seq(Nat), NEW at \in Nat, at + Len(s) = Len(t),
         StandsAt(s, t, at)
  PROVE  IsSuffix(s, t)
<1> DEFINE m == Len(s)
           n == Len(t)
           rs == [i \in 1 .. m |-> s[(m - i) + 1]]
           rt == [i \in 1 .. n |-> t[(n - i) + 1]]
<1>1. m \in Nat /\ n \in Nat /\ at + m = n
  OBVIOUS
<1>2. Reverse(s) = rs /\ Reverse(t) = rt
  BY DEF Reverse
<1>3. \A i \in 1 .. m : s[i] = t[at + i]
  BY DEF StandsAt
<1>4. (\A i \in 1 .. m : s[i] \in Nat) /\ (\A i \in 1 .. n : t[i] \in Nat)
  OBVIOUS
<1> HIDE DEF m, n
<1>5. /\ \A i \in 1 .. m : (m - i) + 1 \in 1 .. m /\ i \in 1 .. n
      /\ \A i \in 1 .. n : (n - i) + 1 \in 1 .. n
      /\ \A i \in 1 .. m : at + ((m - i) + 1) = (n - i) + 1
  BY <1>1
<1>6. rs \in Seq(Nat) /\ Len(rs) = m
  <2>1. rs \in [1 .. m -> Nat]
    BY <1>4, <1>5
  <2>2. QED
    BY <1>1, <2>1
<1>7. rt \in Seq(Nat) /\ Len(rt) = n
  <2>1. rt \in [1 .. n -> Nat]
    BY <1>4, <1>5
  <2>2. QED
    BY <1>1, <2>1
<1>8. \A i \in 1 .. m : rs[i] = rt[i]
  <2>1. ASSUME NEW i \in 1 .. m PROVE rs[i] = rt[i]
    <3>1. rs[i] = s[(m - i) + 1] /\ rt[i] = t[(n - i) + 1]
      BY <1>5
    <3>2. s[(m - i) + 1] = t[at + ((m - i) + 1)]
      BY <1>3, <1>5
    <3> HIDE DEF rs, rt
    <3>3. QED
      BY <1>5, <3>1, <3>2
  <2> HIDE DEF rs, rt
  <2>2. QED
    BY <2>1
<1> HIDE DEF rs, rt
<1>9. m <= n
  BY <1>1
<1>10. SubSeq(rs, 1, m) = SubSeq(rt, 1, m)
  <2> DEFINE a == SubSeq(rs, 1, m)
             b == SubSeq(rt, 1, m)
  <2>1. a \in Seq(Nat) /\ Len(a) = m /\ \A i \in 1 .. m : a[i] = rs[i]
    BY <1>1, <1>6
  <2>2. b \in Seq(Nat) /\ Len(b) = m /\ \A i \in 1 .. m : b[i] = rt[i]
    BY <1>1, <1>7, <1>9
  <2> HIDE DEF a, b
  <2>3. a = b
    BY <1>8, <2>1, <2>2, SeqEqual
  <2>4. QED
    BY <2>3 DEF a, b
<1>11. IsPrefix(rs, rt)
  BY <1>6, <1>7, <1>9, <1>10 DEF IsPrefix
<1>12. QED
  BY <1>2, <1>11 DEF IsSuffix

\* The rank of a newline: how many there are up to it.
UpTo(S, i) == {j \in S : j <= i}
Rank(S, i) == Cardinality(UpTo(S, i))

\* Ranks count from 1, and different newlines have different ranks.
LEMMA RankTells ==
  ASSUME NEW S \in SUBSET Nat, IsFiniteSet(S)
  PROVE  /\ \A i \in S : Rank(S, i) \in 1 .. Cardinality(S)
         /\ \A i, j \in S : Rank(S, i) = Rank(S, j) => i = j
<1>1. \A i \in S : IsFiniteSet(UpTo(S, i)) /\ Rank(S, i) \in Nat /\ Rank(S, i) <= Cardinality(S)
  BY FS_Subset, FS_CardinalityType DEF UpTo, Rank
<1>2. Cardinality(S) \in Nat
  BY FS_CardinalityType
<1>3. ASSUME NEW i \in S PROVE Rank(S, i) \in 1 .. Cardinality(S)
  <2>1. UpTo(S, i) # {}
    BY DEF UpTo
  <2>2. Rank(S, i) # 0
    BY <1>1, <2>1, FS_EmptySet DEF Rank
  <2>3. QED
    BY <1>1, <1>2, <2>2
<1>4. ASSUME NEW i \in S, NEW j \in S, i < j PROVE Rank(S, i) # Rank(S, j)
  <2>1. UpTo(S, i) \in SUBSET UpTo(S, j) /\ j \in UpTo(S, j) /\ j \notin UpTo(S, i)
    <3>1. i \in Nat /\ j \in Nat /\ j <= j /\ ~(j <= i) /\ \A x \in S : x <= i => x <= j
      BY <1>4
    <3>2. QED
      BY <3>1 DEF UpTo
  <2>2. UpTo(S, i) # UpTo(S, j)
    BY <2>1
  <2>3. QED
    BY <1>1, <2>1, <2>2, FS_Subset DEF Rank
<1>5. ASSUME NEW i \in S, NEW j \in S, Rank(S, i) = Rank(S, j) PROVE i = j
  <2>1. i \in Nat /\ j \in Nat
    OBVIOUS
  <2>2. ~(i < j) /\ ~(j < i)
    BY <1>4, <1>5
  <2>3. QED
    BY <2>1, <2>2
<1>6. QED
  BY <1>3, <1>5

\* The one before the k-th.
LEMMA RankBefore ==
  ASSUME NEW S \in SUBSET Nat, IsFiniteSet(S), NEW q \in S, Rank(S, q) # 1
  PROVE  \E m \in S : m < q /\ Rank(S, m) = Rank(S, q) - 1
<1> DEFINE before == UpTo(S, q) \ {q}
           D == {d \in Nat : q - d \in before}
<1>1. IsFiniteSet(UpTo(S, q)) /\ q \in UpTo(S, q)
  BY FS_Subset DEF UpTo
<1>2. IsFiniteSet(before) /\ Cardinality(before) = Rank(S, q) - 1
  BY <1>1, FS_RemoveElement DEF Rank
<1>3. before # {}
  <2>1. Rank(S, q) \in Nat
    BY <1>1, FS_CardinalityType DEF Rank
  <2>2. Cardinality(before) # 0
    BY <1>2, <2>1
  <2>3. QED
    BY <2>2, FS_EmptySet
<1>4. \A x \in before : x \in S /\ x \in Nat /\ x < q /\ q \in Nat
  BY DEF UpTo
<1>5. D # {}
  <2>1. PICK x \in before : TRUE
    BY <1>3
  <2>2. q - x \in Nat /\ q - (q - x) = x
    BY <1>4
  <2>3. QED
    BY <2>2
<1>6. PICK d \in D : \A e \in D : d <= e
  <2>1. D \in SUBSET Nat
    OBVIOUS
  <2> HIDE DEF D
  <2>2. QED
    BY <1>5, <2>1, MinOfNaturals
<1> DEFINE m == q - d
<1>7. d \in Nat /\ m \in before /\ m \in S /\ m \in Nat /\ m < q
  BY <1>4
<1>8. \A x \in before : x <= m
  <2>1. ASSUME NEW x \in before PROVE x <= m
    <3>1. q - x \in Nat /\ q - (q - x) = x /\ x \in Nat /\ q \in Nat
      BY <1>4
    <3>2. q - x \in D
      BY <3>1
    <3>3. d <= q - x
      BY <1>6, <3>2
    <3>4. QED
      BY <1>7, <3>1, <3>3
  <2>2. QED
    BY <2>1
<1>9. UpTo(S, m) = before
  <2>1. \A x \in before : x \in UpTo(S, m)
    BY <1>4, <1>8 DEF UpTo
  <2>2. \A x \in UpTo(S, m) : x \in before
    BY <1>4, <1>7 DEF UpTo
  <2> HIDE DEF before, m
  <2>3. QED
    BY <2>1, <2>2
<1>10. QED
  BY <1>2, <1>7, <1>9 DEF Rank

\* A part of a text that ends at its only newline is the end of one of its lines.
LEMMA PartEndsLine ==
  ASSUME NEW text \in Seq(Nat), NEW line \in Seq(Nat), OneLine(line), StandsIn(line, text)
  PROVE  \E k \in DOMAIN LinesOf(text) : IsSuffix(line, LinesOf(text)[k])
<1> DEFINE L == Len(text)
           newlines == {i \in DOMAIN text : text[i] = NL}
           end == Ends(text)
<1>1. PICK at \in 0 .. L : StandsAt(line, text, at)
  BY DEF StandsIn
<1> DEFINE q == at + Len(line)
           k == Rank(newlines, q)
           start == IF k = 1 THEN 1 ELSE end[k - 1] + 1
<1>2. L \in Nat /\ at \in Nat /\ Len(line) \in Nat \ {0} /\ q <= L /\ DOMAIN text = 1 .. L
  BY <1>1 DEF OneLine, EndsLine, StandsAt
<1>3. newlines \in SUBSET Nat /\ IsFiniteSet(newlines)
  <2>1. newlines \in SUBSET (1 .. L) /\ 1 .. L \in SUBSET Nat
    BY <1>2
  <2>2. IsFiniteSet(1 .. L)
    BY <1>2, FS_Interval
  <2> HIDE DEF newlines
  <2>3. QED
    BY <2>1, <2>2, FS_Subset
<1>4. q \in newlines /\ \A i \in newlines : i < q => i <= at
  <2>1. q \in 1 .. L /\ Len(line) \in 1 .. Len(line)
    BY <1>2
  <2>2. text[q] = NL
    <3>1. text[q] = line[Len(line)]
      BY <1>1, <2>1 DEF StandsAt
    <3>2. QED
      BY <3>1 DEF OneLine, EndsLine
  <2>3. ASSUME NEW i \in 1 .. L, text[i] = NL, i < q, ~(i <= at) PROVE FALSE
    <3>1. i - at \in 1 .. Len(line) - 1 /\ i - at \in 1 .. Len(line) /\ at + (i - at) = i
      BY <1>2, <2>3
    <3>2. line[i - at] = text[i]
      BY <1>1, <3>1 DEF StandsAt
    <3>3. line[i - at] # NL
      BY <3>1 DEF OneLine
    <3>4. QED
      BY <2>3, <3>2, <3>3
  <2>4. QED
    BY <1>2, <2>1, <2>2, <2>3
<1>5. /\ DOMAIN end = 1 .. Cardinality(newlines)
      /\ \A r \in 1 .. Cardinality(newlines) : end[r] = CHOOSE i \in newlines : Rank(newlines, i) = r
  <2>1. end = [r \in 1 .. Cardinality(newlines) |->
                 CHOOSE i \in newlines : Cardinality({j \in newlines : j <= i}) = r]
    BY DEF Ends
  <2> HIDE DEF newlines, end
  <2>2. QED
    BY <2>1 DEF Rank, UpTo
<1>6. /\ DOMAIN LinesOf(text) = DOMAIN end
      /\ \A r \in DOMAIN end :
           LinesOf(text)[r] = SubSeq(text, IF r = 1 THEN 1 ELSE end[r - 1] + 1, end[r])
  BY DEF LinesOf
<1> HIDE DEF newlines, end, q
<1>7. /\ \A i \in newlines : Rank(newlines, i) \in 1 .. Cardinality(newlines)
      /\ \A i, j \in newlines : Rank(newlines, i) = Rank(newlines, j) => i = j
  BY <1>3, RankTells
<1>8. \A i \in newlines : end[Rank(newlines, i)] = i
  BY <1>5, <1>7
<1>9. k \in DOMAIN end /\ end[k] = q
  BY <1>4, <1>5, <1>7, <1>8
<1>10. start \in 1 .. at + 1
  <2>1. CASE k = 1
    BY <1>2, <2>1
  <2>2. CASE k # 1
    <3>1. PICK m \in newlines : m < q /\ Rank(newlines, m) = k - 1
      BY <1>3, <1>4, <2>2, RankBefore
    <3>2. end[k - 1] = m
      BY <1>8, <3>1
    <3>3. m \in Nat /\ m <= at
      BY <1>3, <1>4, <3>1
    <3>4. QED
      BY <1>2, <2>2, <3>2, <3>3
  <2>3. QED
    BY <2>1, <2>2
<1>11. LinesOf(text)[k] = SubSeq(text, start, q)
  BY <1>6, <1>9
<1> HIDE DEF k, start
<1> DEFINE whole == SubSeq(text, start, q)
           from == at - (start - 1)
<1>12. IsSuffix(line, whole)
  <2>1. start - 1 \in Nat /\ start - 1 <= q /\ (start - 1) + 1 = start /\ q \in Nat
    BY <1>2, <1>10 DEF q
  <2>2. /\ whole \in Seq(Nat) /\ Len(whole) = q - (start - 1)
        /\ \A i \in 1 .. q - (start - 1) : whole[i] = text[(start - 1) + i]
    <3> DEFINE x == start - 1
               w == SubSeq(text, x + 1, q)
    <3>1. x \in Nat /\ x <= q /\ q \in Nat /\ q <= Len(text)
      BY <1>2, <2>1
    <3> HIDE DEF x
    <3>2. w \in Seq(Nat) /\ Len(w) = q - x /\ \A i \in 1 .. q - x : w[i] = text[x + i]
      BY <3>1, PartOfSeq
    <3>3. w = whole
      BY <2>1 DEF x
    <3> HIDE DEF w, whole
    <3>4. QED
      BY <3>2, <3>3 DEF x
  <2> HIDE DEF whole
  <2>3. from \in Nat /\ from + Len(line) = Len(whole)
    BY <1>2, <1>10, <2>2 DEF q
  <2>4. ASSUME NEW i \in 1 .. Len(line) PROVE line[i] = whole[from + i]
    <3>1. from + i \in 1 .. q - (start - 1) /\ (start - 1) + (from + i) = at + i
      BY <1>2, <1>10 DEF q
    <3>2. line[i] = text[at + i]
      BY <1>1 DEF StandsAt
    <3>3. QED
      BY <2>2, <3>1, <3>2
  <2> HIDE DEF from
  <2>5. StandsAt(line, whole, from)
    <3>1. Len(whole) \in Nat
      BY <2>2
    <3>2. from + Len(line) <= Len(whole)
      BY <2>3, <3>1
    <3>3. QED
      BY <2>4, <3>2 DEF StandsAt
  <2>6. QED
    BY <2>2, <2>3, <2>5, SuffixOf
<1>13. QED
  BY <1>6, <1>9, <1>11, <1>12

\* However the streams are cut into reads, whichever connections break and whatever
\* writes fail: a line on the device is the end of one line of one client.
THEOREM SocketLinesNeverMix == Spec => []LinesNeverMix
<1>1. Inv /\ Arrived /\ LinesSent => LinesNeverMix
  <2>1. SUFFICES ASSUME Inv, Arrived, LinesSent, NEW i \in DOMAIN lines
                 PROVE  \E c \in Conn : \E k \in DOMAIN LinesOf(Stream(c)) :
                          IsSuffix(lines[i], LinesOf(Stream(c))[k])
    BY DEF LinesNeverMix
  <2>2. i \in 1 .. Len(lines) /\ lines[i] \in Seq(Nat)
    BY <2>1 DEF Inv, DeviceLines
  <2>3. PICK c \in Conn : OneLine(lines[i]) /\ StandsIn(lines[i], Stream(c))
    BY <2>1, <2>2 DEF LinesSent
  <2>4. Stream(c) \in Seq(Nat)
    BY <2>1, StreamIsBytes DEF Inv, Types, Arrived
  <2>5. \E k \in DOMAIN LinesOf(Stream(c)) : IsSuffix(lines[i], LinesOf(Stream(c))[k])
    BY <2>2, <2>3, <2>4, PartEndsLine
  <2>6. QED
    BY <2>5
<1>2. QED
  BY <1>1, SocketInvariant, SocketStreams, PTL

(* --------------------------- pieces of a text --------------------------- *)

\* A bounded set of naturals that is not empty has a largest element.
LEMMA MaxOfNaturals ==
  ASSUME NEW S \in SUBSET Nat, S # {}, NEW m \in Nat, \A x \in S : x <= m
  PROVE  Max(S) \in S /\ \A y \in S : y <= Max(S)
<1> DEFINE D == {d \in Nat : d <= m /\ m - d \in S}
<1>1. D \in SUBSET Nat /\ D # {}
  <2>1. PICK x \in S : TRUE
    OBVIOUS
  <2>2. m - x \in Nat /\ m - x <= m /\ m - (m - x) = x
    BY <2>1
  <2>3. QED
    BY <2>2
<1>2. PICK d \in D : \A e \in D : d <= e
  <2> HIDE DEF D
  <2>1. QED
    BY <1>1, MinOfNaturals
<1>3. m - d \in S /\ d \in Nat /\ d <= m
  BY <1>2
<1>4. \A y \in S : y <= m - d
  <2>1. SUFFICES ASSUME NEW y \in S PROVE y <= m - d
    OBVIOUS
  <2>2. y \in Nat /\ y <= m /\ m - y \in Nat /\ m - y <= m /\ m - (m - y) = y
    BY <2>1
  <2>3. d <= m - y
    BY <1>2, <2>2
  <2>4. QED
    BY <1>3, <2>2, <2>3
<1>5. \E x \in S : \A y \in S : x >= y
  <2>1. \A y \in S : m - d >= y
    BY <1>3, <1>4
  <2>2. QED
    BY <1>3, <2>1
<1>6. Max(S) \in S /\ \A y \in S : Max(S) >= y
  BY <1>5 DEF Max
<1> DEFINE top == Max(S)
<1> HIDE DEF top
<1>7. top \in S /\ \A y \in S : top >= y
  BY <1>6 DEF top
<1>8. top \in S /\ \A y \in S : y <= top
  BY <1>7
<1>9. QED
  BY <1>8 DEF top

\* The last element of a set before a position, or 0.
IsLastBefore(S, i, b) ==
  /\ b \in Nat /\ b < i /\ (b = 0 \/ b \in S)
  /\ \A x \in S : x < i => x <= b

\* LastBefore is that element.
LEMMA LastBeforeIs ==
  ASSUME NEW S \in SUBSET Nat, NEW i \in Nat, i > 0
  PROVE  IsLastBefore(S, i, LastBefore(S, i))
<1> DEFINE B == {x \in S : x < i} \cup {0}
<1>1. B \in SUBSET Nat /\ B # {} /\ \A x \in B : x <= i
  <2>1. 0 \in B
    OBVIOUS
  <2>2. \A x \in B : x \in Nat /\ x <= i
    OBVIOUS
  <2> HIDE DEF B
  <2>3. QED
    BY <2>1, <2>2
<1>2. LastBefore(S, i) = Max(B)
  BY DEF LastBefore
<1>3. Max(B) \in B /\ \A y \in B : y <= Max(B)
  <2> HIDE DEF B
  <2>1. QED
    BY <1>1, MaxOfNaturals
<1> DEFINE b == Max(B)
<1>4. b \in B /\ \A y \in B : y <= b
  BY <1>3
<1> HIDE DEF b
<1>5. b \in Nat /\ b < i /\ (b = 0 \/ b \in S) /\ \A x \in S : x < i => x <= b
  BY <1>4
<1>6. QED
  BY <1>2, <1>5 DEF IsLastBefore, b

\* There is only one.
LEMMA LastBeforeOnly ==
  ASSUME NEW S \in SUBSET Nat, NEW i \in Nat, i > 0, NEW b, IsLastBefore(S, i, b)
  PROVE  LastBefore(S, i) = b
<1> DEFINE a == LastBefore(S, i)
<1>1. IsLastBefore(S, i, a)
  BY LastBeforeIs
<1> HIDE DEF a
<1>2. a \in Nat /\ b \in Nat
  BY <1>1 DEF IsLastBefore
<1>3. a <= b
  BY <1>1, <1>2 DEF IsLastBefore
<1>4. b <= a
  BY <1>1, <1>2 DEF IsLastBefore
<1>5. a = b
  BY <1>2, <1>3, <1>4
<1>6. QED
  BY <1>5 DEF a

\* Where the piece that ends at i starts.
PieceStart(text, C, i) == Max({LastBefore(C, i), LastBefore(NewlinesOf(text), i)})

\* It is the last cut or newline before i, whichever is later.
LEMMA PieceFrom ==
  ASSUME NEW text \in Seq(Nat), NEW C \in SUBSET Nat, NEW i \in 1 .. Len(text)
  PROVE  /\ LastBefore(C, i) \in Nat /\ LastBefore(NewlinesOf(text), i) \in Nat
         /\ PieceStart(text, C, i) \in Nat /\ PieceStart(text, C, i) < i
         /\ PieceStart(text, C, i) >= LastBefore(C, i)
         /\ PieceStart(text, C, i) >= LastBefore(NewlinesOf(text), i)
         /\ PieceStart(text, C, i) \in {LastBefore(C, i), LastBefore(NewlinesOf(text), i)}
         /\ Piece(text, C, i) = SubSeq(text, PieceStart(text, C, i) + 1, i)
<1> DEFINE a == LastBefore(C, i)
           b == LastBefore(NewlinesOf(text), i)
           m == Max({a, b})
<1>1. i \in Nat /\ i > 0 /\ NewlinesOf(text) \in SUBSET Nat
  BY DEF NewlinesOf
<1>2. a \in Nat /\ a < i /\ b \in Nat /\ b < i
  BY <1>1, LastBeforeIs DEF IsLastBefore
<1>3. PieceStart(text, C, i) = m /\ Piece(text, C, i) = SubSeq(text, m + 1, i)
  BY DEF PieceStart, Piece
<1> HIDE DEF a, b
<1>4. {a, b} \in SUBSET Nat /\ {a, b} # {} /\ \A x \in {a, b} : x <= i
  BY <1>1, <1>2
<1>5. m \in {a, b} /\ \A y \in {a, b} : y <= m
  BY <1>1, <1>4, MaxOfNaturals
<1> HIDE DEF m
<1>6. m \in Nat /\ m < i /\ m >= a /\ m >= b
  BY <1>2, <1>5
<1>7. QED
  BY <1>2, <1>3, <1>5, <1>6 DEF a, b

\* More text and more cuts behind a position change nothing of what ends there.
SameBelow(C, D, n) == \A x \in Nat : x < n => (x \in D <=> x \in C)
SameAt(text, C, long, D, i) ==
  /\ Piece(long, D, i) = Piece(text, C, i)
  /\ i \in KeptEnds(long, D) <=> i \in KeptEnds(text, C)

\* So each piece, and whether it is kept, stays.
LEMMA PieceStays ==
  ASSUME NEW text \in Seq(Nat), NEW more \in Seq(Nat),
         NEW C \in SUBSET Nat, NEW D \in SUBSET Nat, SameBelow(C, D, Len(text)),
         NEW i \in 1 .. Len(text)
  PROVE  SameAt(text, C, text \o more, D, i)
<1> DEFINE long == text \o more
<1>1. /\ long \in Seq(Nat) /\ Len(long) = Len(text) + Len(more)
      /\ Len(text) \in Nat /\ Len(more) \in Nat
      /\ \A j \in 1 .. Len(text) : long[j] = text[j]
  <2>1. /\ text \o more \in Seq(Nat) /\ Len(text \o more) = Len(text) + Len(more)
        /\ \A j \in 1 .. Len(text) + Len(more) :
             (text \o more)[j] = IF j <= Len(text) THEN text[j] ELSE more[j - Len(text)]
    BY ConcatProperties
  <2>2. \A j \in 1 .. Len(text) : j \in 1 .. Len(text) + Len(more) /\ j <= Len(text)
    OBVIOUS
  <2>3. QED
    BY <2>1, <2>2
<1> HIDE DEF long
<1>2. i \in Nat /\ i > 0 /\ i \in 1 .. Len(long) /\ i <= Len(text)
  BY <1>1
<1>3. {x \in D : x < i} = {x \in C : x < i}
  <2>1. \A x \in Nat : x < i => x < Len(text)
    BY <1>1, <1>2
  <2>2. \A x : x \in D /\ x < i <=> x \in C /\ x < i
    BY <2>1 DEF SameBelow
  <2>3. QED
    BY <2>2
<1>4. LastBefore(D, i) = LastBefore(C, i)
  BY <1>3 DEF LastBefore
<1>5. \A j \in Nat : j <= i => (j \in NewlinesOf(long) <=> j \in NewlinesOf(text))
  <2>1. SUFFICES ASSUME NEW j \in Nat, j <= i
                 PROVE  j \in NewlinesOf(long) <=> j \in NewlinesOf(text)
    OBVIOUS
  <2>2. j \in 1 .. Len(long) <=> j \in 1 .. Len(text)
    BY <1>1, <1>2, <2>1
  <2>3. j \in 1 .. Len(text) => long[j] = text[j]
    BY <1>1
  <2>4. NewlinesOf(long) = {x \in 1 .. Len(long) : long[x] = NL}
        /\ NewlinesOf(text) = {x \in 1 .. Len(text) : text[x] = NL}
    BY <1>1 DEF NewlinesOf
  <2>5. QED
    BY <2>2, <2>3, <2>4, Zenon
<1>6. {x \in NewlinesOf(long) : x < i} = {x \in NewlinesOf(text) : x < i}
  <2>1. NewlinesOf(long) \in SUBSET Nat /\ NewlinesOf(text) \in SUBSET Nat
    BY <1>1 DEF NewlinesOf
  <2>2. QED
    BY <1>2, <1>5, <2>1
<1>7. LastBefore(NewlinesOf(long), i) = LastBefore(NewlinesOf(text), i)
  BY <1>6 DEF LastBefore
<1> DEFINE m == PieceStart(text, C, i)
<1>8. PieceStart(long, D, i) = m
  BY <1>4, <1>7 DEF PieceStart
<1>9. m \in Nat /\ m < i /\ Piece(text, C, i) = SubSeq(text, m + 1, i)
  BY PieceFrom
<1>10. Piece(long, D, i) = SubSeq(long, m + 1, i)
  BY <1>1, <1>2, <1>8, PieceFrom
<1> HIDE DEF m
<1>11. SubSeq(long, m + 1, i) = SubSeq(text, m + 1, i)
  <2> DEFINE p == SubSeq(long, m + 1, i)
             q == SubSeq(text, m + 1, i)
  <2>1. m \in Nat /\ i \in Nat /\ m <= i /\ i <= Len(text) /\ i <= Len(long)
    BY <1>1, <1>2, <1>9
  <2>2. p \in Seq(Nat) /\ Len(p) = i - m /\ \A k \in 1 .. i - m : p[k] = long[m + k]
    BY <1>1, <2>1, PartOfSeq
  <2>3. q \in Seq(Nat) /\ Len(q) = i - m /\ \A k \in 1 .. i - m : q[k] = text[m + k]
    BY <2>1, PartOfSeq
  <2> HIDE DEF p, q
  <2>4. \A k \in 1 .. i - m : m + k \in 1 .. Len(text)
    BY <1>1, <2>1
  <2>5. \A k \in 1 .. i - m : p[k] = q[k]
    BY <1>1, <2>2, <2>3, <2>4
  <2>6. p = [k \in 1 .. i - m |-> p[k]] /\ q = [k \in 1 .. i - m |-> q[k]]
    BY <2>2, <2>3
  <2>7. p = q
    BY <2>5, <2>6
  <2>8. QED
    BY <2>7 DEF p, q
<1>12. Piece(long, D, i) = Piece(text, C, i)
  BY <1>9, <1>10, <1>11
<1>13. \A j \in LastBefore(C, i) + 1 .. i : long[j] = text[j]
  <2>1. LastBefore(C, i) \in Nat
    BY PieceFrom
  <2> DEFINE b == LastBefore(C, i)
  <2> HIDE DEF b
  <2>2. \A j \in b + 1 .. i : j \in 1 .. Len(text)
    BY <1>1, <1>2, <2>1 DEF b
  <2>3. QED
    BY <1>1, <2>2 DEF b
<1>14. i \in NewlinesOf(long) <=> i \in NewlinesOf(text)
  BY <1>2, <1>5
<1>15. i \in KeptEnds(long, D) <=> i \in KeptEnds(text, C)
  BY <1>4, <1>12, <1>13, <1>14 DEF KeptEnds
<1>16. QED
  BY <1>12, <1>15 DEF SameAt, long

\* Every rank is the rank of an element.
LEMMA RankExists ==
  ASSUME NEW S \in SUBSET Nat, IsFiniteSet(S), NEW k \in 1 .. Cardinality(S)
  PROVE  \E i \in S : Rank(S, i) = k
<1> DEFINE f == [i \in S |-> Rank(S, i)]
           T == 1 .. Cardinality(S)
<1>1. Cardinality(S) \in Nat
  BY FS_CardinalityType
<1>2. IsFiniteSet(T) /\ Cardinality(T) = Cardinality(S)
  BY <1>1, FS_Interval
<1>3. f \in Injection(S, T)
  <2>1. f \in [S -> T]
    BY RankTells
  <2>2. \A i, j \in S : f[i] = f[j] => i = j
    BY RankTells
  <2>3. QED
    BY <2>1, <2>2 DEF Injection, IsInjective
<1>4. f \in Surjection(S, T)
  <2> HIDE DEF f, T
  <2>1. QED
    BY <1>2, <1>3, FS_Injection
<1>5. QED
  BY <1>4 DEF Surjection

\* The pieces of S, one for each of its elements, by rank.
LEMMA PiecesByRank ==
  ASSUME NEW text, NEW C, NEW S \in SUBSET Nat, IsFiniteSet(S)
  PROVE  /\ Cardinality(S) \in Nat
         /\ DOMAIN PiecesAt(text, C, S) = 1 .. Cardinality(S)
         /\ PiecesAt(text, C, S)
              = [k \in 1 .. Cardinality(S) |-> PiecesAt(text, C, S)[k]]
         /\ Len(PiecesAt(text, C, S)) = Cardinality(S)
         /\ \A i \in S : Rank(S, i) \in 1 .. Cardinality(S)
                         /\ PiecesAt(text, C, S)[Rank(S, i)] = Piece(text, C, i)
<1> DEFINE pick(k) == CHOOSE i \in S : Rank(S, i) = k
           P == [k \in 1 .. Cardinality(S) |-> Piece(text, C, pick(k))]
<1>1. PiecesAt(text, C, S) = P
  BY DEF PiecesAt, Rank, UpTo
<1>2. Cardinality(S) \in Nat
  BY FS_CardinalityType
<1>3. DOMAIN P = 1 .. Cardinality(S) /\ Len(P) = Cardinality(S)
      /\ P = [k \in 1 .. Cardinality(S) |-> P[k]]
  BY <1>2
<1>4. ASSUME NEW i \in S
      PROVE  Rank(S, i) \in 1 .. Cardinality(S) /\ P[Rank(S, i)] = Piece(text, C, i)
  <2> DEFINE k == Rank(S, i)
  <2>1. k \in 1 .. Cardinality(S) /\ \A j \in S : Rank(S, j) = k => j = i
    BY RankTells
  <2>2. pick(k) = i
    BY <2>1
  <2>3. QED
    BY <2>1, <2>2
<1> HIDE DEF P
<1>5. QED
  BY <1>1, <1>2, <1>3, <1>4

\* The pieces of a first part of the positions are the first of the pieces.
Leads(S, T) == S \in SUBSET T /\ \A i \in S : \A j \in T : j \notin S => i < j

\* That is, the k-th piece is the same for both.
LEMMA PiecesLead ==
  ASSUME NEW text, NEW C, NEW S \in SUBSET Nat, NEW T \in SUBSET Nat, IsFiniteSet(T),
         Leads(S, T)
  PROVE  /\ IsFiniteSet(S) /\ Cardinality(S) \in Nat /\ Cardinality(T) \in Nat
         /\ Cardinality(S) <= Cardinality(T)
         /\ \A k \in 1 .. Cardinality(S) : PiecesAt(text, C, T)[k] = PiecesAt(text, C, S)[k]
<1>1. S \in SUBSET T
  BY DEF Leads
<1>2. IsFiniteSet(S) /\ Cardinality(S) <= Cardinality(T)
  BY <1>1, FS_Subset
<1>3. Cardinality(S) \in Nat /\ Cardinality(T) \in Nat
  BY <1>2, FS_CardinalityType
<1>4. ASSUME NEW k \in 1 .. Cardinality(S)
      PROVE  PiecesAt(text, C, T)[k] = PiecesAt(text, C, S)[k]
  <2>1. PICK i \in S : Rank(S, i) = k
    BY <1>2, RankExists
  <2>2. UpTo(T, i) = UpTo(S, i)
    <3>1. ASSUME NEW j \in T, j <= i PROVE j \in S
      <4>1. i \in Nat /\ j \in Nat
        BY <1>1
      <4>2. ~(i < j)
        BY <3>1, <4>1
      <4>3. QED
        BY <4>2 DEF Leads
    <3>2. QED
      BY <1>1, <3>1 DEF UpTo
  <2>3. Rank(T, i) = k /\ i \in T
    BY <1>1, <2>1, <2>2 DEF Rank
  <2>4. PiecesAt(text, C, S)[k] = Piece(text, C, i)
    BY <1>2, <2>1, PiecesByRank
  <2>5. PiecesAt(text, C, T)[k] = Piece(text, C, i)
    BY <2>3, PiecesByRank
  <2>6. QED
    BY <2>4, <2>5
<1>5. QED
  BY <1>2, <1>3, <1>4

\* One more position behind the others adds its piece at the end.
LEMMA PiecesAppend ==
  ASSUME NEW text, NEW C, NEW S \in SUBSET Nat, IsFiniteSet(S), NEW i \in Nat,
         \A j \in S : j < i
  PROVE  PiecesAt(text, C, S \cup {i}) = Append(PiecesAt(text, C, S), Piece(text, C, i))
<1> DEFINE T == S \cup {i}
           a == PiecesAt(text, C, S)
           b == PiecesAt(text, C, T)
           x == Piece(text, C, i)
           n == Cardinality(S)
<1>1. i \notin S
  OBVIOUS
<1>2. T \in SUBSET Nat /\ IsFiniteSet(T) /\ Cardinality(T) = n + 1 /\ n \in Nat
  BY <1>1, FS_AddElement, FS_CardinalityType
<1>3. Leads(S, T)
  BY DEF Leads
<1>4. UpTo(T, i) = T
  <2>1. \A j \in T : j <= i
    OBVIOUS
  <2> HIDE DEF T
  <2>2. QED
    BY <2>1 DEF UpTo
<1>5. Rank(T, i) = n + 1 /\ i \in T
  BY <1>2, <1>4 DEF Rank
<1> HIDE DEF T, n
<1>6. \A k \in 1 .. n : b[k] = a[k]
  BY <1>2, <1>3, PiecesLead DEF n
<1>7. b[n + 1] = x
  BY <1>2, <1>5, PiecesByRank
<1>8. b = [k \in 1 .. n + 1 |-> b[k]] /\ a = [k \in 1 .. n |-> a[k]] /\ Len(a) = n
  BY <1>2, PiecesByRank DEF n
<1> HIDE DEF a, b, x
<1>9. Append(a, x) = [k \in 1 .. n + 1 |-> IF k = n + 1 THEN x ELSE a[k]]
  BY <1>2, <1>8
<1>10. b = [k \in 1 .. n + 1 |-> IF k = n + 1 THEN x ELSE a[k]]
  <2>1. \A k \in 1 .. n + 1 : k = n + 1 \/ k \in 1 .. n
    BY <1>2
  <2>2. QED
    BY <1>6, <1>7, <1>8, <2>1
<1>11. b = Append(a, x)
  BY <1>9, <1>10
<1>12. QED
  BY <1>11 DEF a, b, x, T

\* Pieces that are the same, at the same positions.
SamePieces(text, C, long, D, S) == \A i \in S : Piece(long, D, i) = Piece(text, C, i)

\* Then the sequences of pieces are the same.
LEMMA PiecesSame ==
  ASSUME NEW text, NEW C, NEW long, NEW D, NEW S \in SUBSET Nat, IsFiniteSet(S),
         SamePieces(text, C, long, D, S)
  PROVE  PiecesAt(long, D, S) = PiecesAt(text, C, S)
<1> DEFINE a == PiecesAt(text, C, S)
           b == PiecesAt(long, D, S)
           n == Cardinality(S)
<1>1. ASSUME NEW k \in 1 .. n PROVE b[k] = a[k]
  <2>1. PICK i \in S : Rank(S, i) = k
    BY <1>1, RankExists
  <2>2. a[k] = Piece(text, C, i) /\ b[k] = Piece(long, D, i)
    BY <2>1, PiecesByRank
  <2>3. QED
    BY <2>2 DEF SamePieces
<1>2. a = [k \in 1 .. n |-> a[k]] /\ b = [k \in 1 .. n |-> b[k]]
  BY PiecesByRank
<1> HIDE DEF a, b, n
<1>3. a = b
  BY <1>1, <1>2
<1>4. QED
  BY <1>3 DEF a, b

(* --------------------- how far a thread has come ------------------------ *)

\* The lines st are what is to be stored of the text up to p.
KeptTo(text, C, p) == {i \in KeptEnds(text, C) : i <= p}
StoredTo(text, C, st, p) == st = PiecesAt(text, C, KeptTo(text, C, p))

\* The buffer holds what the string functions see of the last read, which started
\* behind the first at bytes, and what is scanned of it ends with a line.
LineAt(buf, pv) == FirstLine(SubSeq(buf, pv + 1, Len(buf)))
BufferedAt(text, C, buf, pv, at) ==
  /\ at \in 0 .. Len(text) - 1
  /\ buf = UpToNul(SubSeq(text, at + 1, Len(text)))
  /\ at = 0 \/ at \in C
  /\ \A x \in C : x <= at \/ x = Len(text)
  /\ pv = 0 \/ text[at + pv] = NL

\* What is kept is a finite set of positions.
LEMMA KeptFinite ==
  ASSUME NEW text \in Seq(Nat), NEW C
  PROVE  /\ KeptEnds(text, C) \in SUBSET (1 .. Len(text)) /\ KeptEnds(text, C) \in SUBSET Nat
         /\ IsFiniteSet(KeptEnds(text, C))
         /\ \A p : KeptTo(text, C, p) \in SUBSET Nat /\ IsFiniteSet(KeptTo(text, C, p))
<1>1. KeptEnds(text, C) \in SUBSET (1 .. Len(text)) /\ Len(text) \in Nat
  BY DEF KeptEnds, NewlinesOf
<1>2. IsFiniteSet(1 .. Len(text))
  BY <1>1, FS_Interval
<1>3. IsFiniteSet(KeptEnds(text, C)) /\ KeptEnds(text, C) \in SUBSET Nat
  BY <1>1, <1>2, FS_Subset
<1>4. ASSUME NEW p PROVE KeptTo(text, C, p) \in SUBSET Nat /\ IsFiniteSet(KeptTo(text, C, p))
  <2>1. KeptTo(text, C, p) \in SUBSET KeptEnds(text, C)
    BY DEF KeptTo
  <2>2. QED
    BY <1>3, <2>1, FS_Subset
<1>5. QED
  BY <1>1, <1>3, <1>4

\* What the string functions see of some bytes: all up to the first NUL.
LEMMA UpToNulIs ==
  ASSUME NEW bytes \in Seq(Nat)
  PROVE  /\ UpToNul(bytes) \in Seq(Nat) /\ Len(UpToNul(bytes)) \in 0 .. Len(bytes)
         /\ \A i \in 1 .. Len(UpToNul(bytes)) : UpToNul(bytes)[i] = bytes[i] /\ bytes[i] # NUL
         /\ Len(UpToNul(bytes)) < Len(bytes) => bytes[Len(UpToNul(bytes)) + 1] = NUL
<1> DEFINE n == FirstAt(bytes, NUL)
<1>1. /\ SelectInSeq(bytes, LAMBDA b : b = NUL) = n /\ n \in 0 .. Len(bytes)
      /\ n = 0 => \A i \in 1 .. Len(bytes) : bytes[i] # NUL
      /\ n # 0 => bytes[n] = NUL /\ \A i \in 1 .. n - 1 : bytes[i] # NUL
  BY FirstByte
<1>2. UpToNul(bytes) = IF n = 0 THEN bytes ELSE SubSeq(bytes, 1, n - 1)
  BY <1>1 DEF UpToNul
<1> HIDE DEF n
<1>3. CASE n = 0
  BY <1>1, <1>2, <1>3
<1>4. CASE n # 0
  <2> DEFINE s == SubSeq(bytes, 0 + 1, n - 1)
  <2>1. n - 1 \in Nat /\ 0 <= n - 1 /\ n - 1 <= Len(bytes) /\ n - 1 < Len(bytes)
        /\ (n - 1) - 0 = n - 1 /\ (n - 1) + 1 = n
    BY <1>1, <1>4
  <2>2. /\ s \in Seq(Nat) /\ Len(s) = (n - 1) - 0
        /\ \A m \in 1 .. (n - 1) - 0 : s[m] = bytes[0 + m]
    BY <2>1, PartOfSeq
  <2>3. UpToNul(bytes) = s
    <3>1. 0 + 1 = 1
      OBVIOUS
    <3>2. QED
      BY <1>2, <1>4, <3>1
  <2> HIDE DEF s
  <2>4. Len(s) = n - 1 /\ \A m \in 1 .. n - 1 : s[m] = bytes[m]
    <3>1. \A m \in 1 .. n - 1 : 0 + m = m
      BY <2>1
    <3>2. QED
      BY <2>1, <2>2, <3>1
  <2>5. QED
    BY <1>1, <1>4, <2>1, <2>2, <2>3, <2>4
<1>5. QED
  BY <1>3, <1>4

\* The first line behind the first pv bytes of a buffer.
LEMMA LineAtIs ==
  ASSUME NEW buf \in Seq(Nat), NEW pv \in 0 .. Len(buf)
  PROVE  /\ LineAt(buf, pv) \in Seq(Nat) /\ pv + Len(LineAt(buf, pv)) <= Len(buf)
         /\ Len(LineAt(buf, pv)) \in Nat
         /\ \A i \in 1 .. Len(LineAt(buf, pv)) : LineAt(buf, pv)[i] = buf[pv + i]
         /\ LineAt(buf, pv) # << >> =>
              /\ Len(LineAt(buf, pv)) > 0 /\ buf[pv + Len(LineAt(buf, pv))] = NL
              /\ \A j \in pv + 1 .. pv + Len(LineAt(buf, pv)) - 1 : buf[j] # NL
         /\ LineAt(buf, pv) = << >> => \A j \in pv + 1 .. Len(buf) : buf[j] # NL
<1> DEFINE u == SubSeq(buf, pv + 1, Len(buf))
           n == FirstAt(u, NL)
           line == SubSeq(u, 0 + 1, n)
<1>1. buf \in Seq(Nat) /\ Len(buf) \in Nat /\ pv \in Nat /\ pv <= Len(buf) /\ Len(buf) <= Len(buf)
  OBVIOUS
<1>2. /\ u \in Seq(Nat) /\ Len(u) = Len(buf) - pv
      /\ \A i \in 1 .. Len(buf) - pv : u[i] = buf[pv + i]
  BY <1>1, PartOfSeq
<1> HIDE DEF u
<1>3. /\ SelectInSeq(u, LAMBDA x : x = NL) = n /\ n \in 0 .. Len(u)
      /\ n = 0 => \A i \in 1 .. Len(u) : u[i] # NL
      /\ n # 0 => u[n] = NL /\ \A i \in 1 .. n - 1 : u[i] # NL
  BY <1>2, FirstByte
<1>4. LineAt(buf, pv) = line
  <2>1. 0 + 1 = 1
    OBVIOUS
  <2>2. QED
    BY <1>3, <2>1 DEF LineAt, FirstLine, u
<1> HIDE DEF n
<1>5. n \in Nat /\ n <= Len(u) /\ n <= Len(buf) - pv /\ 0 <= n /\ n - 0 = n /\ pv + n <= Len(buf)
  BY <1>1, <1>2, <1>3
<1>6. line \in Seq(Nat) /\ Len(line) = n /\ \A i \in 1 .. n : line[i] = u[i]
  <2>1. /\ line \in Seq(Nat) /\ Len(line) = n - 0 /\ \A i \in 1 .. n - 0 : line[i] = u[0 + i]
    BY <1>2, <1>5, PartOfSeq
  <2> HIDE DEF line
  <2>2. \A i \in 1 .. n : 0 + i = i
    BY <1>5
  <2>3. QED
    BY <1>5, <2>1, <2>2
<1> HIDE DEF line
<1>7. \A i \in 1 .. n : line[i] = buf[pv + i]
  <2>1. \A i \in 1 .. n : i \in 1 .. Len(buf) - pv
    BY <1>1, <1>5
  <2>2. QED
    BY <1>2, <1>6, <2>1
<1>8. \A j \in pv + 1 .. Len(buf) : j - pv \in 1 .. Len(u) /\ buf[j] = u[j - pv]
  <2>1. SUFFICES ASSUME NEW j \in pv + 1 .. Len(buf)
                 PROVE  j - pv \in 1 .. Len(u) /\ buf[j] = u[j - pv]
    OBVIOUS
  <2>2. j - pv \in 1 .. Len(buf) - pv /\ pv + (j - pv) = j
    BY <1>1
  <2>3. QED
    BY <1>2, <2>2
<1>9. line # << >> => n # 0 /\ n > 0
  BY <1>5, <1>6
<1>10. n # 0 => /\ buf[pv + n] = NL
                /\ \A j \in pv + 1 .. pv + n - 1 : buf[j] # NL
  <2>1. SUFFICES ASSUME n # 0 PROVE buf[pv + n] = NL
                                    /\ \A j \in pv + 1 .. pv + n - 1 : buf[j] # NL
    OBVIOUS
  <2>2. n \in 1 .. n
    BY <1>5, <2>1
  <2>3. buf[pv + n] = NL
    BY <1>3, <1>6, <1>7, <2>1, <2>2
  <2>4. ASSUME NEW j \in pv + 1 .. pv + n - 1 PROVE buf[j] # NL
    <3>1. j \in pv + 1 .. Len(buf) /\ j - pv \in 1 .. n - 1
      BY <1>1, <1>5
    <3>2. QED
      BY <1>3, <1>8, <2>1, <3>1
  <2>5. QED
    BY <2>3, <2>4
<1>11. line = << >> => n = 0
  BY <1>5, <1>6
<1>12. n = 0 => \A j \in pv + 1 .. Len(buf) : buf[j] # NL
  BY <1>3, <1>8
<1>13. QED
  BY <1>4, <1>5, <1>6, <1>7, <1>9, <1>10, <1>11, <1>12

\* Where the buffer lies in the text, and that the last cut before a position behind
\* its start is that start.
LiesAt(text, C, buf, at) ==
  /\ at \in Nat /\ buf \in Seq(Nat) /\ Len(buf) \in Nat /\ at + Len(buf) <= Len(text)
  /\ \A j \in at + 1 .. at + Len(buf) : text[j] = buf[j - at] /\ text[j] # NUL
  /\ at + Len(buf) < Len(text) => text[at + Len(buf) + 1] = NUL
  /\ \A i \in at + 1 .. Len(text) : LastBefore(C, i) = at

\* This is so for the buffer of the last read.
LEMMA BufferInText ==
  ASSUME NEW text \in Seq(Nat), NEW C \in SUBSET Nat, NEW buf, NEW pv, NEW at,
         BufferedAt(text, C, buf, pv, at)
  PROVE  LiesAt(text, C, buf, at)
<1> DEFINE bytes == SubSeq(text, at + 1, Len(text))
<1>1. at \in Nat /\ at <= Len(text) /\ Len(text) \in Nat /\ Len(text) <= Len(text)
  BY DEF BufferedAt
<1>2. /\ bytes \in Seq(Nat) /\ Len(bytes) = Len(text) - at
      /\ \A m \in 1 .. Len(text) - at : bytes[m] = text[at + m]
  BY <1>1, PartOfSeq
<1>3. buf = UpToNul(bytes)
  BY DEF BufferedAt
<1> HIDE DEF bytes
<1>4. /\ buf \in Seq(Nat) /\ Len(buf) \in 0 .. Len(bytes)
      /\ \A i \in 1 .. Len(buf) : buf[i] = bytes[i] /\ bytes[i] # NUL
      /\ Len(buf) < Len(bytes) => bytes[Len(buf) + 1] = NUL
  BY <1>2, <1>3, UpToNulIs
<1> DEFINE n == Len(buf)
<1>5. n \in Nat /\ n <= Len(text) - at /\ at + n <= Len(text)
  BY <1>1, <1>2, <1>4
<1> HIDE DEF n
<1>6. ASSUME NEW j \in at + 1 .. at + n PROVE text[j] = buf[j - at] /\ text[j] # NUL
  <2>1. j - at \in 1 .. n /\ j - at \in 1 .. Len(text) - at /\ at + (j - at) = j
    BY <1>1, <1>5
  <2>2. buf[j - at] = bytes[j - at] /\ bytes[j - at] # NUL
    BY <1>4, <2>1 DEF n
  <2>3. bytes[j - at] = text[j]
    BY <1>2, <2>1
  <2>4. QED
    BY <2>2, <2>3
<1>7. ASSUME at + n < Len(text) PROVE text[at + n + 1] = NUL
  <2>1. n < Len(bytes) /\ n + 1 \in 1 .. Len(text) - at /\ at + (n + 1) = at + n + 1
    BY <1>1, <1>2, <1>5, <1>7
  <2>2. bytes[n + 1] = NUL
    BY <1>4, <2>1 DEF n
  <2>3. QED
    BY <1>2, <2>1, <2>2
<1>8. ASSUME NEW i \in at + 1 .. Len(text) PROVE LastBefore(C, i) = at
  <2>1. i \in Nat /\ i > 0 /\ at < i /\ i <= Len(text)
    BY <1>1
  <2>2. \A x \in C : x < i => x <= at
    <3>1. \A x \in C : x <= at \/ x = Len(text)
      BY DEF BufferedAt
    <3>2. QED
      BY <1>1, <2>1, <3>1
  <2>3. IsLastBefore(C, i, at)
    BY <1>1, <2>1, <2>2 DEF IsLastBefore, BufferedAt
  <2>4. QED
    BY <2>1, <2>3, LastBeforeOnly
<1>9. QED
  BY <1>1, <1>4, <1>5, <1>6, <1>7, <1>8 DEF n, LiesAt

\* A line that is found in the buffer is the piece that ends there.
PieceEnds(text, C, line, at, a, e) ==
  /\ e \in at + 1 .. Len(text) /\ e > a /\ text[e] = NL
  /\ Piece(text, C, e) = line
  /\ \A j \in at + 1 .. e : text[j] # NUL
  /\ \A j \in a + 1 .. e - 1 : text[j] # NL
  /\ LastBefore(C, e) = at

\* This is so for the line behind what is scanned.
LEMMA LineIsPiece ==
  ASSUME NEW text \in Seq(Nat), NEW C \in SUBSET Nat, NEW buf, NEW pv, NEW at,
         BufferedAt(text, C, buf, pv, at), pv \in 0 .. Len(buf), LineAt(buf, pv) # << >>
  PROVE  PieceEnds(text, C, LineAt(buf, pv), at, at + pv, (at + pv) + Len(LineAt(buf, pv)))
<1>a. LiesAt(text, C, buf, at)
  BY BufferInText, Zenon
<1> DEFINE line == LineAt(buf, pv)
           e == (at + pv) + Len(LineAt(buf, pv))
           n == Len(line)
           a == at + pv
           L == NewlinesOf(text)
           q == LastBefore(L, e)
           m == PieceStart(text, C, e)
<1>1. /\ at \in Nat /\ buf \in Seq(Nat) /\ Len(buf) \in Nat /\ at + Len(buf) <= Len(text)
      /\ \A j \in at + 1 .. at + Len(buf) : text[j] = buf[j - at] /\ text[j] # NUL
      /\ \A i \in at + 1 .. Len(text) : LastBefore(C, i) = at
  BY <1>a DEF LiesAt
<1>2. /\ line \in Seq(Nat) /\ pv + n <= Len(buf) /\ n \in Nat /\ n > 0
      /\ \A i \in 1 .. n : line[i] = buf[pv + i]
      /\ buf[pv + n] = NL /\ \A j \in pv + 1 .. pv + n - 1 : buf[j] # NL
  BY <1>1, LineAtIs
<1>3. pv \in Nat /\ pv <= Len(buf) /\ Len(text) \in Nat /\ e = a + n
  BY <1>1
<1> HIDE DEF line, n, e
<1>4. /\ a \in Nat /\ e \in Nat /\ e > 0 /\ e \in 1 .. Len(text) /\ e \in at + 1 .. Len(text)
      /\ a < e /\ at <= a /\ e <= at + Len(buf) /\ e - at = pv + n /\ e - a = n
      /\ e \in at + 1 .. at + Len(buf)
  <2> DEFINE x == Len(text)
             y == Len(buf)
  <2>1. /\ at \in Nat /\ pv \in Nat /\ n \in Nat /\ n > 0 /\ x \in Nat /\ y \in Nat
        /\ pv + n <= y /\ at + y <= x /\ e = (at + pv) + n
    BY <1>1, <1>2, <1>3
  <2> HIDE DEF x, y
  <2>2. /\ e \in Nat /\ a \in Nat /\ a < e /\ at <= a /\ e <= at + y /\ e <= x /\ at < e
        /\ e - at = pv + n /\ e - a = n
    BY <2>1
  <2>3. QED
    BY <2>1, <2>2 DEF x, y
<1>5. text[e] = NL
  BY <1>1, <1>2, <1>4
<1>6. \A j \in at + 1 .. e : text[j] # NUL
  <2>1. \A j \in at + 1 .. e : j \in at + 1 .. at + Len(buf)
    BY <1>1, <1>4
  <2>2. QED
    BY <1>1, <2>1
<1>7. ASSUME NEW j \in a + 1 .. e - 1 PROVE text[j] # NL
  <2>1. j \in at + 1 .. at + Len(buf) /\ j - at \in pv + 1 .. pv + n - 1
    BY <1>1, <1>2, <1>3, <1>4
  <2>2. QED
    BY <1>1, <1>2, <2>1
<1>8. LastBefore(C, e) = at
  BY <1>1, <1>4
<1>9. L \in SUBSET Nat /\ IsLastBefore(L, e, q)
  <2>1. L \in SUBSET Nat
    BY DEF NewlinesOf
  <2> HIDE DEF L
  <2>2. QED
    BY <1>4, <2>1, LastBeforeIs
<1>10. /\ m \in Nat /\ m < e /\ m >= at /\ m >= q /\ m \in {at, q}
       /\ Piece(text, C, e) = SubSeq(text, m + 1, e)
  BY <1>4, <1>8, PieceFrom
<1> HIDE DEF q, m
<1>11. q \in Nat /\ q <= a
  <2>1. q \in Nat /\ q < e /\ (q = 0 \/ q \in L)
    BY <1>9 DEF IsLastBefore
  <2>2. ASSUME ~(q <= a) PROVE FALSE
    <3>1. q \in a + 1 .. e - 1 /\ q # 0
      BY <1>4, <2>1, <2>2
    <3>2. text[q] = NL
      BY <2>1, <3>1 DEF NewlinesOf
    <3>3. QED
      BY <1>7, <3>1, <3>2
  <2>3. QED
    BY <2>1, <2>2
<1>12. pv # 0 => a <= q
  <2>1. SUFFICES ASSUME pv # 0 PROVE a <= q
    OBVIOUS
  <2>2. text[a] = NL
    BY <2>1 DEF BufferedAt
  <2>3. a \in 1 .. Len(text)
    BY <1>1, <1>3, <1>4, <2>1
  <2>4. a \in L
    BY <2>2, <2>3 DEF NewlinesOf
  <2>5. QED
    BY <1>4, <1>9, <2>4 DEF IsLastBefore
<1>13. m = a
  <2>1. CASE pv = 0
    BY <1>1, <1>4, <1>10, <1>11, <2>1
  <2>2. CASE pv # 0
    BY <1>1, <1>4, <1>10, <1>11, <1>12, <2>2
  <2>3. QED
    BY <2>1, <2>2
<1> DEFINE part == SubSeq(text, a + 1, e)
<1>14. part \in Seq(Nat) /\ Len(part) = n /\ \A i \in 1 .. n : part[i] = text[a + i]
  <2> HIDE DEF a
  <2>1. a \in Nat /\ e \in Nat /\ a <= e /\ e <= Len(text) /\ e - a = n
    BY <1>4
  <2>2. /\ SubSeq(text, a + 1, e) \in Seq(Nat) /\ Len(SubSeq(text, a + 1, e)) = e - a
        /\ \A i \in 1 .. e - a : SubSeq(text, a + 1, e)[i] = text[a + i]
    BY <2>1, PartOfSeq
  <2>3. QED
    BY <2>1, <2>2
<1> HIDE DEF part
<1>15. \A i \in 1 .. n : part[i] = line[i]
  <2>1. SUFFICES ASSUME NEW i \in 1 .. n PROVE part[i] = line[i]
    OBVIOUS
  <2>2. a + i \in at + 1 .. at + Len(buf) /\ (a + i) - at = pv + i
    BY <1>1, <1>2, <1>3, <1>4
  <2>3. text[a + i] = buf[(a + i) - at]
    BY <1>1, <2>2
  <2>4. QED
    BY <1>2, <1>14, <2>2, <2>3
<1>16. part = line
  <2>1. Len(part) = Len(line)
    BY <1>14 DEF n
  <2>2. part = [i \in 1 .. n |-> part[i]] /\ line = [i \in 1 .. n |-> line[i]]
    BY <1>2, <1>14, <2>1
  <2>3. QED
    BY <1>15, <2>2
<1>17. QED
  BY <1>4, <1>5, <1>6, <1>7, <1>8, <1>10, <1>13, <1>16 DEF part, line, a, e, PieceEnds

\* So storing it, unless it is a seek request, keeps up with the text ...
LEMMA ScanLine ==
  ASSUME NEW text \in Seq(Nat), NEW C \in SUBSET Nat, NEW buf, NEW pv, NEW at, NEW st,
         BufferedAt(text, C, buf, pv, at), pv \in 0 .. Len(buf), LineAt(buf, pv) # << >>,
         StoredTo(text, C, st, at + pv)
  PROVE  /\ IsSeek(LineAt(buf, pv)) =>
              StoredTo(text, C, st, (at + pv) + Len(LineAt(buf, pv)))
         /\ ~IsSeek(LineAt(buf, pv)) =>
              StoredTo(text, C, Append(st, LineAt(buf, pv)), (at + pv) + Len(LineAt(buf, pv)))
<1>a. LiesAt(text, C, buf, at)
  BY BufferInText, Zenon
<1>b. PieceEnds(text, C, LineAt(buf, pv), at, at + pv, (at + pv) + Len(LineAt(buf, pv)))
  BY LineIsPiece, Zenon
<1> DEFINE line == LineAt(buf, pv)
           e == (at + pv) + Len(LineAt(buf, pv))
           a == at + pv
           K == KeptEnds(text, C)
<1>1. /\ e \in at + 1 .. Len(text) /\ e > a /\ text[e] = NL
      /\ Piece(text, C, e) = line
      /\ \A j \in at + 1 .. e : text[j] # NUL
      /\ \A j \in a + 1 .. e - 1 : text[j] # NL
      /\ LastBefore(C, e) = at
  BY <1>b DEF PieceEnds
<1>2. at \in Nat /\ Len(buf) \in Nat /\ Len(text) \in Nat
  BY <1>a DEF LiesAt
<1> HIDE DEF e
<1>3. a \in Nat /\ e \in Nat /\ e \in 1 .. Len(text)
  BY <1>1, <1>2
<1>4. K \in SUBSET Nat
  BY KeptFinite
<1>5. e \in K <=> ~IsSeek(line)
  BY <1>1, <1>3 DEF KeptEnds, NewlinesOf
<1>6. \A i \in K : text[i] = NL
  BY DEF KeptEnds, NewlinesOf
<1>7. ASSUME NEW i \in K, i <= e PROVE i = e \/ i <= a
  <2>1. i \in Nat
    BY <1>4
  <2>2. i \notin a + 1 .. e - 1
    BY <1>1, <1>6
  <2>3. QED
    BY <1>3, <1>7, <2>1, <2>2
<1>8. \A i \in K : i <= a => i <= e /\ i < e
  BY <1>1, <1>3, <1>4
<1>c. StoredTo(text, C, st, a)
  OBVIOUS
<1> HIDE DEF K, a, line
<1>9. ASSUME IsSeek(line) PROVE StoredTo(text, C, st, e)
  <2>1. \A i \in K : i <= e <=> i <= a
    BY <1>5, <1>7, <1>8, <1>9
  <2>2. KeptTo(text, C, e) = KeptTo(text, C, a)
    BY <2>1 DEF KeptTo, K
  <2>3. QED
    BY <1>c, <2>2 DEF StoredTo
<1>10. ASSUME ~IsSeek(line) PROVE StoredTo(text, C, Append(st, line), e)
  <2>1. \A i \in K : i <= e <=> i <= a \/ i = e
    <3>1. e <= e
      BY <1>3
    <3>2. QED
      BY <1>7, <1>8, <3>1
  <2>2. KeptTo(text, C, e) = KeptTo(text, C, a) \cup {e}
    BY <1>5, <1>10, <2>1 DEF KeptTo, K
  <2>3. \A j \in KeptTo(text, C, a) : j < e
    BY <1>8 DEF KeptTo, K
  <2>4. KeptTo(text, C, a) \in SUBSET Nat /\ IsFiniteSet(KeptTo(text, C, a))
    BY KeptFinite
  <2>5. PiecesAt(text, C, KeptTo(text, C, a) \cup {e})
          = Append(PiecesAt(text, C, KeptTo(text, C, a)), Piece(text, C, e))
    BY <1>3, <2>3, <2>4, PiecesAppend
  <2>6. QED
    BY <1>c, <1>1, <2>2, <2>5 DEF StoredTo
<1>11. QED
  BY <1>9, <1>10 DEF line, e

\* ... and when there is no further line, all of it is stored.
LEMMA ScanEnd ==
  ASSUME NEW text \in Seq(Nat), NEW C \in SUBSET Nat, NEW buf, NEW pv, NEW at, NEW st,
         BufferedAt(text, C, buf, pv, at), pv \in 0 .. Len(buf), LineAt(buf, pv) = << >>,
         StoredTo(text, C, st, at + pv)
  PROVE  StoredTo(text, C, st, Len(text))
<1>a. LiesAt(text, C, buf, at)
  BY BufferInText, Zenon
<1> DEFINE K == KeptEnds(text, C)
           a == at + pv
           n == Len(buf)
<1>1. /\ at \in Nat /\ buf \in Seq(Nat) /\ n \in Nat /\ at + n <= Len(text)
      /\ \A j \in at + 1 .. at + n : text[j] = buf[j - at] /\ text[j] # NUL
      /\ at + n < Len(text) => text[at + n + 1] = NUL
      /\ \A i \in at + 1 .. Len(text) : LastBefore(C, i) = at
  BY <1>a DEF LiesAt
<1>2. \A j \in pv + 1 .. n : buf[j] # NL
  BY <1>1, LineAtIs
<1>3. pv \in Nat /\ pv <= n /\ Len(text) \in Nat
  BY <1>1
<1>4. K \in SUBSET (1 .. Len(text)) /\ K \in SUBSET Nat
  BY KeptFinite
<1> HIDE DEF n
<1>5. ASSUME NEW i \in K PROVE i <= a
  <2>1. i \in Nat /\ i <= Len(text)
    BY <1>3, <1>4
  <2>2. /\ text[i] = NL /\ \A j \in LastBefore(C, i) + 1 .. i : text[j] # NUL
    BY DEF KeptEnds, NewlinesOf
  <2>3. SUFFICES ASSUME a < i PROVE FALSE
    BY <1>1, <1>3, <2>1
  <2>4. i \in at + 1 .. Len(text)
    BY <1>1, <1>3, <2>1, <2>3
  <2>5. LastBefore(C, i) = at
    BY <1>1, <2>4
  <2>6. i <= at + n
    <3>1. SUFFICES ASSUME at + n < i PROVE FALSE
      BY <1>1, <2>1
    <3>2. at + n < Len(text) /\ at + n + 1 \in at + 1 .. i
      BY <1>1, <2>1, <3>1
    <3>3. QED
      BY <1>1, <2>2, <2>5, <3>2
  <2>7. i \in at + 1 .. at + n /\ i - at \in pv + 1 .. n
    BY <1>1, <1>3, <2>1, <2>3, <2>6
  <2>8. QED
    BY <1>1, <1>2, <2>2, <2>7
<1>6. \A i \in K : i <= a /\ i <= Len(text)
  BY <1>3, <1>4, <1>5
<1> HIDE DEF a, K
<1>7. KeptTo(text, C, Len(text)) = KeptTo(text, C, a)
  BY <1>6 DEF KeptTo, K
<1>8. QED
  BY <1>7 DEF StoredTo, a

\* A read starts a new piece behind what is stored.
LEMMA ReadMore ==
  ASSUME NEW text \in Seq(Nat), NEW more \in Seq(Nat), more # << >>,
         NEW C \in SUBSET (0 .. Len(text)), Len(text) = 0 \/ Len(text) \in C,
         NEW st, StoredTo(text, C, st, Len(text))
  PROVE  /\ StoredTo(text \o more, C \cup {Len(text \o more)}, st, Len(text))
         /\ BufferedAt(text \o more, C \cup {Len(text \o more)}, UpToNul(more), 0, Len(text))
<1> DEFINE n == Len(text)
           long == text \o more
           D == C \cup {Len(long)}
<1>1. /\ text \o more \in Seq(Nat) /\ Len(text \o more) = n + Len(more)
      /\ \A j \in 1 .. n + Len(more) :
           (text \o more)[j] = IF j <= n THEN text[j] ELSE more[j - n]
  BY ConcatProperties
<1>2. n \in Nat /\ Len(more) \in Nat /\ Len(more) > 0
  OBVIOUS
<1>3. long \in Seq(Nat) /\ Len(long) = n + Len(more) /\ n < Len(long) /\ Len(long) \in Nat
  BY <1>1, <1>2
<1>0. \A j \in 1 .. n + Len(more) : long[j] = IF j <= n THEN text[j] ELSE more[j - n]
  BY <1>1
<1> HIDE DEF long
<1>4. C \in SUBSET Nat /\ D \in SUBSET Nat /\ \A x \in Nat : x < n => (x \in D <=> x \in C)
  <2>1. 0 .. n \in SUBSET Nat
    BY <1>2
  <2>2. C \in SUBSET Nat /\ D \in SUBSET Nat
    BY <1>3, <2>1
  <2>3. \A x \in Nat : x < n => x # Len(long)
    BY <1>2, <1>3
  <2>4. QED
    BY <2>2, <2>3
<1>5. \A i \in 1 .. n : /\ Piece(long, D, i) = Piece(text, C, i)
                        /\ i \in KeptEnds(long, D) <=> i \in KeptEnds(text, C)
  <2>1. ASSUME NEW i \in 1 .. Len(text)
        PROVE  /\ Piece(long, D, i) = Piece(text, C, i)
               /\ i \in KeptEnds(long, D) <=> i \in KeptEnds(text, C)
    <3>1. SameBelow(C, D, Len(text)) /\ C \in SUBSET Nat /\ D \in SUBSET Nat
      BY <1>4 DEF SameBelow
    <3>2. SameAt(text, C, text \o more, D, i)
      BY <3>1, PieceStays, Zenon
    <3>3. QED
      BY <3>2 DEF SameAt, long
  <2>2. QED
    BY <2>1
<1>6. KeptEnds(text, C) \in SUBSET (1 .. n) /\ KeptEnds(long, D) \in SUBSET (1 .. Len(long))
      /\ KeptTo(text, C, n) \in SUBSET Nat /\ IsFiniteSet(KeptTo(text, C, n))
  BY <1>3, KeptFinite
<1>7. KeptTo(long, D, n) = KeptTo(text, C, n)
  <2>1. \A i : i \in 1 .. Len(long) /\ i <= n <=> i \in 1 .. n
    BY <1>2, <1>3
  <2>2. \A i \in 1 .. n : i <= n
    BY <1>2
  <2>3. \A i : i \in KeptEnds(long, D) /\ i <= n <=> i \in KeptEnds(text, C) /\ i <= n
    BY <1>5, <1>6, <2>1, <2>2
  <2>4. QED
    BY <2>3 DEF KeptTo
<1>8. \A i \in KeptTo(text, C, n) : i \in 1 .. n
  BY <1>6 DEF KeptTo
<1>9. PiecesAt(long, D, KeptTo(text, C, n)) = PiecesAt(text, C, KeptTo(text, C, n))
  <2>1. SamePieces(text, C, long, D, KeptTo(text, C, n))
    BY <1>5, <1>8 DEF SamePieces
  <2> DEFINE S == KeptTo(text, C, n)
  <2>2. S \in SUBSET Nat /\ IsFiniteSet(S) /\ SamePieces(text, C, long, D, S)
    BY <1>6, <2>1
  <2> HIDE DEF D, S
  <2>3. PiecesAt(long, D, S) = PiecesAt(text, C, S)
    BY <2>2, PiecesSame
  <2>4. QED
    BY <2>3 DEF S
<1>10. StoredTo(long, D, st, n)
  BY <1>7, <1>9 DEF StoredTo
<1>11. SubSeq(long, n + 1, Len(long)) = more
  <2> DEFINE part == SubSeq(long, n + 1, Len(long))
  <2>1. n <= Len(long) /\ Len(long) <= Len(long) /\ Len(long) - n = Len(more)
    BY <1>2, <1>3
  <2>2. /\ part \in Seq(Nat) /\ Len(part) = Len(more)
        /\ \A m \in 1 .. Len(more) : part[m] = long[n + m]
    <3>1. /\ part \in Seq(Nat) /\ Len(part) = Len(long) - n
          /\ \A m \in 1 .. Len(long) - n : part[m] = long[n + m]
      BY <1>2, <1>3, <2>1, PartOfSeq
    <3>2. QED
      BY <2>1, <3>1
  <2> HIDE DEF part
  <2>3. \A m \in 1 .. Len(more) : part[m] = more[m]
    <3>1. SUFFICES ASSUME NEW m \in 1 .. Len(more) PROVE part[m] = more[m]
      OBVIOUS
    <3>2. n + m \in 1 .. n + Len(more) /\ ~(n + m <= n) /\ (n + m) - n = m
      BY <1>2
    <3>3. QED
      BY <1>0, <2>2, <3>2
  <2>4. part = more
    <3>1. part = [m \in 1 .. Len(more) |-> part[m]] /\ more = [m \in 1 .. Len(more) |-> more[m]]
      BY <2>2
    <3>2. QED
      BY <2>3, <3>1
  <2>5. QED
    BY <2>4 DEF part
<1>12. n \in 0 .. Len(long) - 1
  BY <1>2, <1>3
<1>13. n = 0 \/ n \in D
  OBVIOUS
<1>14. \A x \in D : x <= n \/ x = Len(long)
  BY <1>2
<1>15. BufferedAt(long, D, UpToNul(more), 0, n)
  BY <1>11, <1>12, <1>13, <1>14 DEF BufferedAt
<1>16. QED
  BY <1>10, <1>15 DEF long

(* ------------------------ each line is stored once ----------------------- *)

\* Every read ends at a cut.
CutsOf(text, C) == C \in SUBSET (0 .. Len(text)) /\ (Len(text) = 0 \/ Len(text) \in C)

\* How far a thread has come with what it has read of the text, by where it is.
CameTo(text, C, st, label, buf, pv) ==
  /\ label \in {"none", "read"} => StoredTo(text, C, st, Len(text))
  /\ label \in {"lock", "scan"} =>
       \E at : BufferedAt(text, C, buf, pv, at) /\ StoredTo(text, C, st, at + pv)
  /\ label = "reply" =>
       \E at : /\ BufferedAt(text, C, buf, pv, at) /\ LineAt(buf, pv) # << >>
               /\ StoredTo(text, C, st, (at + pv) + Len(LineAt(buf, pv)))
  /\ label \in {"done", "failed"} => \E p \in Nat : StoredTo(text, C, st, p)

KeepsUp(c) ==
  /\ CutsOf(ReadSoFar(c), cuts[c])
  /\ peer[c] # "dead" =>
       CameTo(ReadSoFar(c), cuts[c], stored[c], pc[c], in_buffer[c], prev[c])
StoredInv ==
  /\ cuts = [c \in Conn |-> cuts[c]] /\ stored = [c \in Conn |-> stored[c]]
  /\ \A c \in Conn : KeepsUp(c)

\* A line is found: it is stored unless it is a seek request, which may end the thread.
LEMMA CameToReply ==
  ASSUME NEW text \in Seq(Nat), NEW C \in SUBSET Nat, NEW st, NEW buf, NEW pv,
         pv \in 0 .. Len(buf), LineAt(buf, pv) # << >>, CameTo(text, C, st, "scan", buf, pv)
  PROVE  /\ IsSeek(LineAt(buf, pv)) => CameTo(text, C, st, "reply", buf, pv)
         /\ ~IsSeek(LineAt(buf, pv)) =>
              CameTo(text, C, Append(st, LineAt(buf, pv)), "reply", buf, pv)
<1>1. PICK at : BufferedAt(text, C, buf, pv, at) /\ StoredTo(text, C, st, at + pv)
  BY DEF CameTo
<1>2. /\ IsSeek(LineAt(buf, pv)) =>
           StoredTo(text, C, st, (at + pv) + Len(LineAt(buf, pv)))
      /\ ~IsSeek(LineAt(buf, pv)) =>
           StoredTo(text, C, Append(st, LineAt(buf, pv)), (at + pv) + Len(LineAt(buf, pv)))
  BY <1>1, ScanLine, Zenon
<1>3. QED
  BY <1>1, <1>2 DEF CameTo

\* The answer is sent: on behind the line.
LEMMA CameToNextLine ==
  ASSUME NEW text \in Seq(Nat), NEW C \in SUBSET Nat, NEW st, NEW buf, NEW pv,
         pv \in 0 .. Len(buf), CameTo(text, C, st, "reply", buf, pv)
  PROVE  CameTo(text, C, st, "scan", buf, pv + Len(LineAt(buf, pv)))
<1>1. PICK at : /\ BufferedAt(text, C, buf, pv, at) /\ LineAt(buf, pv) # << >>
                /\ StoredTo(text, C, st, (at + pv) + Len(LineAt(buf, pv)))
  BY DEF CameTo
<1>2. PieceEnds(text, C, LineAt(buf, pv), at, at + pv, (at + pv) + Len(LineAt(buf, pv)))
  BY <1>1, LineIsPiece, Zenon
<1>3. LiesAt(text, C, buf, at)
  BY <1>1, BufferInText, Zenon
<1> DEFINE n == Len(LineAt(buf, pv))
<1>4. at \in Nat /\ buf \in Seq(Nat)
  BY <1>3 DEF LiesAt
<1>5. n \in Nat /\ pv \in Nat
  BY <1>4, LineAtIs
<1>6. text[(at + pv) + n] = NL
  BY <1>2 DEF PieceEnds
<1> HIDE DEF n
<1>7. (at + pv) + n = at + (pv + n)
  BY <1>4, <1>5
<1>8. BufferedAt(text, C, buf, pv + n, at)
  BY <1>1, <1>6, <1>7 DEF BufferedAt
<1>9. StoredTo(text, C, st, at + (pv + n))
  BY <1>1, <1>7 DEF n
<1>10. QED
  BY <1>8, <1>9 DEF CameTo, n

\* No line is left: the next read may come.
LEMMA CameToEnd ==
  ASSUME NEW text \in Seq(Nat), NEW C \in SUBSET Nat, NEW st, NEW buf, NEW pv,
         pv \in 0 .. Len(buf), LineAt(buf, pv) = << >>, CameTo(text, C, st, "scan", buf, pv)
  PROVE  CameTo(text, C, st, "read", buf, pv)
<1>1. PICK at : BufferedAt(text, C, buf, pv, at) /\ StoredTo(text, C, st, at + pv)
  BY DEF CameTo
<1>2. StoredTo(text, C, st, Len(text))
  BY <1>1, ScanEnd, Zenon
<1>3. QED
  BY <1>2 DEF CameTo

\* A thread may end wherever it is.
LEMMA CameToStop ==
  ASSUME NEW text \in Seq(Nat), NEW C \in SUBSET Nat, NEW st, NEW buf, NEW pv,
         pv \in 0 .. Len(buf),
         NEW label \in {"none", "read", "lock", "scan", "reply", "done", "failed"},
         CameTo(text, C, st, label, buf, pv)
  PROVE  \E p \in Nat : StoredTo(text, C, st, p)
<1>1. CASE label \in {"none", "read"}
  <2>1. Len(text) \in Nat /\ StoredTo(text, C, st, Len(text))
    BY <1>1 DEF CameTo
  <2>2. QED
    BY <2>1
<1>2. CASE label \in {"lock", "scan"}
  <2>1. PICK at : BufferedAt(text, C, buf, pv, at) /\ StoredTo(text, C, st, at + pv)
    BY <1>2 DEF CameTo
  <2>2. LiesAt(text, C, buf, at)
    BY <2>1, BufferInText, Zenon
  <2>3. at \in Nat /\ Len(buf) \in Nat
    BY <2>2 DEF LiesAt
  <2>4. at + pv \in Nat
    BY <2>3
  <2>5. QED
    BY <2>1, <2>4
<1>3. CASE label = "reply"
  <2>1. PICK at : /\ BufferedAt(text, C, buf, pv, at)
                  /\ StoredTo(text, C, st, (at + pv) + Len(LineAt(buf, pv)))
    BY <1>3 DEF CameTo
  <2>2. LiesAt(text, C, buf, at)
    BY <2>1, BufferInText, Zenon
  <2>3. at \in Nat /\ buf \in Seq(Nat) /\ Len(buf) \in Nat
    BY <2>2 DEF LiesAt
  <2>4. Len(LineAt(buf, pv)) \in Nat
    BY <2>3, LineAtIs
  <2>5. (at + pv) + Len(LineAt(buf, pv)) \in Nat
    BY <2>3, <2>4
  <2>6. QED
    BY <2>1, <2>5
<1>4. CASE label \in {"done", "failed"}
  BY <1>4 DEF CameTo
<1>5. QED
  BY <1>1, <1>2, <1>3, <1>4

\* A read: the new bytes are in the buffer and the text ends at a cut again.
LEMMA CameToLock ==
  ASSUME NEW text \in Seq(Nat), NEW more \in Seq(Nat), more # << >>, NEW C, CutsOf(text, C)
  PROVE  /\ CutsOf(text \o more, C \cup {Len(text \o more)})
         /\ \A st, buf, pv : CameTo(text, C, st, "read", buf, pv) =>
              CameTo(text \o more, C \cup {Len(text \o more)}, st, "lock", UpToNul(more), 0)
<1> DEFINE long == text \o more
           D == C \cup {Len(long)}
<1>1. long \in Seq(Nat) /\ Len(long) = Len(text) + Len(more)
  BY ConcatProperties
<1>2. Len(text) \in Nat /\ Len(more) \in Nat /\ Len(long) \in Nat
  BY <1>1
<1>3. CutsOf(long, D)
  <2> HIDE DEF long
  <2>1. 0 .. Len(text) \in SUBSET (0 .. Len(long)) /\ Len(long) \in 0 .. Len(long)
    BY <1>1, <1>2
  <2>2. QED
    BY <2>1 DEF CutsOf
<1>4. ASSUME NEW st, NEW buf, NEW pv, CameTo(text, C, st, "read", buf, pv)
      PROVE  CameTo(long, D, st, "lock", UpToNul(more), 0)
  <2>1. StoredTo(text, C, st, Len(text))
    BY <1>4 DEF CameTo
  <2>2. C \in SUBSET (0 .. Len(text)) /\ (Len(text) = 0 \/ Len(text) \in C)
    BY DEF CutsOf
  <2>3. /\ StoredTo(text \o more, C \cup {Len(text \o more)}, st, Len(text))
        /\ BufferedAt(text \o more, C \cup {Len(text \o more)}, UpToNul(more), 0, Len(text))
    BY <2>1, <2>2, ReadMore, Zenon
  <2> HIDE DEF long, D
  <2>4. StoredTo(long, D, st, Len(text)) /\ BufferedAt(long, D, UpToNul(more), 0, Len(text))
    BY <2>3 DEF long, D
  <2>5. Len(text) + 0 = Len(text)
    BY <1>2
  <2>6. \E at : BufferedAt(long, D, UpToNul(more), 0, at) /\ StoredTo(long, D, st, at + 0)
    BY <2>4, <2>5
  <2>7. QED
    BY <2>6 DEF CameTo
<1>5. QED
  BY <1>3, <1>4

\* The invariant of one thread in the next state.
KeepsUpNext(c) ==
  /\ CutsOf(ReadSoFar(c)', cuts'[c])
  /\ peer'[c] # "dead" =>
       CameTo(ReadSoFar(c)', cuts'[c], stored'[c], pc'[c], in_buffer'[c], prev'[c])

\* It is what has to be shown of a step for each thread.
LEMMA StoredNext ==
  ASSUME cuts' = [c \in Conn |-> cuts'[c]], stored' = [c \in Conn |-> stored'[c]],
         \A c \in Conn : KeepsUpNext(c)
  PROVE  StoredInv'
BY DEF KeepsUpNext, StoredInv, KeepsUp

\* A thread that the step does not touch.
Untouched(d) ==
  /\ ReadSoFar(d)' = ReadSoFar(d) /\ cuts'[d] = cuts[d] /\ stored'[d] = stored[d]
  /\ pc'[d] = pc[d] /\ in_buffer'[d] = in_buffer[d] /\ prev'[d] = prev[d]
  /\ peer'[d] # "dead" => peer[d] # "dead"

\* It has come as far as before.
LEMMA UntouchedKeepsUp ==
  ASSUME NEW d \in Conn, KeepsUp(d), Untouched(d)
  PROVE  KeepsUpNext(d)
BY DEF KeepsUp, Untouched, KeepsUpNext

\* The first n elements of a sequence.
LEMMA FirstOfSeq ==
  ASSUME NEW s \in Seq(Nat), NEW n \in 0 .. Len(s)
  PROVE  /\ SubSeq(s, 1, n) \in Seq(Nat) /\ Len(SubSeq(s, 1, n)) = n
         /\ \A m \in 1 .. n : SubSeq(s, 1, n)[m] = s[m]
<1>1. n \in Nat /\ 0 <= n /\ n <= Len(s) /\ 0 + 1 = 1 /\ n - 0 = n
  OBVIOUS
<1>2. /\ SubSeq(s, 0 + 1, n) \in Seq(Nat) /\ Len(SubSeq(s, 0 + 1, n)) = n - 0
      /\ \A m \in 1 .. n - 0 : SubSeq(s, 0 + 1, n)[m] = s[0 + m]
  BY <1>1, PartOfSeq
<1>3. \A m \in 1 .. n : 0 + m = m
  OBVIOUS
<1>4. QED
  BY <1>1, <1>2, <1>3

\* What a thread has read is all of the stream but what waits in the socket.
LEMMA ReadSoFarIs ==
  ASSUME Inv, Arrived, NEW c \in Conn
  PROVE  /\ Stream(c) \in Seq(Nat) /\ sock[c] \in Seq(Nat)
         /\ Len(sock[c]) \in Nat /\ Len(Stream(c)) \in Nat /\ Len(sock[c]) <= Len(Stream(c))
         /\ StandsAt(sock[c], Stream(c), Len(Stream(c)) - Len(sock[c]))
         /\ ReadSoFar(c) \in Seq(Nat) /\ Len(ReadSoFar(c)) = Len(Stream(c)) - Len(sock[c])
         /\ prev[c] \in 0 .. Len(in_buffer[c])
<1>1. /\ Stream(c) \in Seq(Nat) /\ sock[c] \in Seq(Nat) /\ Len(sock[c]) <= Len(Stream(c))
      /\ StandsAt(sock[c], Stream(c), Len(Stream(c)) - Len(sock[c]))
  BY StreamIsBytes DEF Inv, Types, Arrived
<1>2. Len(sock[c]) \in Nat /\ Len(Stream(c)) \in Nat
  BY <1>1
<1>3. Len(Stream(c)) - Len(sock[c]) \in 0 .. Len(Stream(c))
  BY <1>1, <1>2
<1>4. ReadSoFar(c) \in Seq(Nat) /\ Len(ReadSoFar(c)) = Len(Stream(c)) - Len(sock[c])
  BY <1>1, <1>3, FirstOfSeq DEF ReadSoFar
<1>5. prev[c] \in Nat /\ prev[c] <= Len(in_buffer[c]) /\ in_buffer[c] \in Seq(Nat)
  BY DEF Inv, Types
<1>6. prev[c] \in 0 .. Len(in_buffer[c])
  BY <1>5
<1>7. QED
  BY <1>1, <1>2, <1>4, <1>6

\* A segment that arrives is not read yet.
LEMMA SendReadsNothing ==
  ASSUME NEW S \in Seq(Nat), NEW k \in Seq(Nat), NEW g \in Seq(Nat), Len(k) <= Len(S)
  PROVE  SubSeq(S \o g, 1, Len(S \o g) - Len(k \o g)) = SubSeq(S, 1, Len(S) - Len(k))
<1> DEFINE n == Len(S) - Len(k)
           T == S \o g
           a == SubSeq(S, 1, n)
           b == SubSeq(T, 1, n)
<1>1. Len(S) \in Nat /\ Len(k) \in Nat /\ Len(g) \in Nat
  OBVIOUS
<1>2. /\ T \in Seq(Nat) /\ Len(T) = Len(S) + Len(g) /\ Len(k \o g) = Len(k) + Len(g)
      /\ \A i \in 1 .. Len(S) + Len(g) : T[i] = IF i <= Len(S) THEN S[i] ELSE g[i - Len(S)]
  BY ConcatProperties
<1> HIDE DEF T
<1>3. Len(T) - Len(k \o g) = n /\ n \in 0 .. Len(S) /\ n \in 0 .. Len(T) /\ n \in Nat
  BY <1>1, <1>2
<1> HIDE DEF n
<1>4. a \in Seq(Nat) /\ Len(a) = n /\ \A m \in 1 .. n : a[m] = S[m]
  BY <1>3, FirstOfSeq
<1>5. b \in Seq(Nat) /\ Len(b) = n /\ \A m \in 1 .. n : b[m] = T[m]
  BY <1>2, <1>3, FirstOfSeq
<1> HIDE DEF a, b
<1>6. \A m \in 1 .. n : m \in 1 .. Len(S) + Len(g) /\ m <= Len(S)
  BY <1>1, <1>3
<1>7. \A m \in 1 .. n : a[m] = b[m]
  BY <1>2, <1>4, <1>5, <1>6
<1>8. a = [m \in 1 .. n |-> a[m]] /\ b = [m \in 1 .. n |-> b[m]]
  BY <1>4, <1>5
<1>9. a = b
  BY <1>7, <1>8
<1>10. QED
  BY <1>3, <1>9 DEF a, b, n, T

\* What a read takes comes behind what was read before.
LEMMA ReadTakesNext ==
  ASSUME NEW S \in Seq(Nat), NEW k \in Seq(Nat), Len(k) <= Len(S),
         StandsAt(k, S, Len(S) - Len(k)), NEW n \in 0 .. Len(k)
  PROVE  SubSeq(S, 1, (Len(S) - Len(k)) + n) = SubSeq(S, 1, Len(S) - Len(k)) \o SubSeq(k, 1, n)
<1> DEFINE w == Len(S) - Len(k)
           a == SubSeq(S, 1, w)
           b == SubSeq(k, 1, n)
           e == SubSeq(S, 1, w + n)
           f == a \o b
<1>1. Len(S) \in Nat /\ Len(k) \in Nat /\ n \in Nat /\ n <= Len(k)
  OBVIOUS
<1>2. w \in Nat /\ w + Len(k) = Len(S) /\ w \in 0 .. Len(S) /\ w + n \in 0 .. Len(S)
      /\ w + n \in Nat
  BY <1>1
<1>3. \A i \in 1 .. Len(k) : k[i] = S[w + i]
  BY DEF StandsAt
<1> HIDE DEF w
<1>4. a \in Seq(Nat) /\ Len(a) = w /\ \A m \in 1 .. w : a[m] = S[m]
  BY <1>2, FirstOfSeq
<1>5. b \in Seq(Nat) /\ Len(b) = n /\ \A m \in 1 .. n : b[m] = k[m]
  BY FirstOfSeq
<1>6. e \in Seq(Nat) /\ Len(e) = w + n /\ \A m \in 1 .. w + n : e[m] = S[m]
  BY <1>2, FirstOfSeq
<1> HIDE DEF a, b, e
<1>7. /\ f \in Seq(Nat) /\ Len(f) = w + n
      /\ \A m \in 1 .. w + n : f[m] = IF m <= w THEN a[m] ELSE b[m - w]
  <2>1. /\ f \in Seq(Nat) /\ Len(f) = Len(a) + Len(b)
        /\ \A m \in 1 .. Len(a) + Len(b) :
             f[m] = IF m <= Len(a) THEN a[m] ELSE b[m - Len(a)]
    BY <1>4, <1>5, ConcatProperties
  <2> HIDE DEF f
  <2>2. QED
    BY <1>4, <1>5, <2>1
<1> HIDE DEF f
<1>8. ASSUME NEW m \in 1 .. w + n PROVE e[m] = f[m]
  <2>1. CASE m <= w
    <3>1. m \in 1 .. w
      BY <1>2, <2>1
    <3>2. QED
      BY <1>4, <1>6, <1>7, <2>1, <3>1
  <2>2. CASE ~(m <= w)
    <3>1. m - w \in 1 .. n /\ m - w \in 1 .. Len(k) /\ w + (m - w) = m
      BY <1>1, <1>2, <2>2
    <3>2. f[m] = k[m - w]
      BY <1>5, <1>7, <2>2, <3>1
    <3>3. k[m - w] = S[m]
      BY <1>3, <3>1
    <3>4. QED
      BY <1>6, <3>2, <3>3
  <2>3. QED
    BY <2>1, <2>2
<1>9. e = [m \in 1 .. w + n |-> e[m]] /\ f = [m \in 1 .. w + n |-> f[m]]
  BY <1>6, <1>7
<1>10. e = f
  BY <1>8, <1>9
<1>11. QED
  BY <1>10 DEF e, f, a, b, w

\* What a client sends, or how it leaves, touches no thread.
LEMMA ClientKeepsStored ==
  ASSUME Inv, Arrived, StoredInv, NEW c \in Conn, Send(c) \/ Disconnect(c)
  PROVE  StoredInv'
<1> USE DEF buffer, history
<1>1. UNCHANGED <<pc, in_buffer, prev, stored, cuts>>
  BY DEF Send, Disconnect
<1>2. CASE Send(c)
  <2> DEFINE g == Segments[c][sent[c] + 1]
  <2>1. /\ sent[c] < Len(Segments[c]) /\ sent' = [sent EXCEPT ![c] = @ + 1]
        /\ sock' = [sock EXCEPT ![c] = @ \o g] /\ peer' = peer
    BY <1>2 DEF Send
  <2>2. /\ sent[c] \in Nat
        /\ sent'[c] = sent[c] + 1 /\ \A d \in Conn : d # c => sent'[d] = sent[d]
        /\ sock'[c] = sock[c] \o g /\ \A d \in Conn : d # c => sock'[d] = sock[d]
    BY <2>1 DEF Inv, Types
  <2>3. Segments[c] \in Seq(Seq(Nat)) /\ Len(Segments[c]) \in Nat
    BY SocketAssumption
  <2>4. g \in Seq(Nat)
    BY <2>1, <2>2, <2>3
  <2>5. Stream(c)' = Stream(c) \o g
    <3>1. Stream(c)' = FlattenSeq(SubSeq(Segments[c], 1, sent[c] + 1))
      BY <2>2 DEF Stream
    <3>2. QED
      BY <2>1, <2>2, <2>3, <3>1, FlattenAppend DEF Stream
  <2> HIDE DEF g
  <2>6. ReadSoFar(c)' = ReadSoFar(c)
    <3>1. ReadSoFar(c)' = SubSeq(Stream(c) \o g, 1, Len(Stream(c) \o g) - Len(sock[c] \o g))
      BY <2>2, <2>5 DEF ReadSoFar
    <3>2. /\ Stream(c) \in Seq(Nat) /\ sock[c] \in Seq(Nat) /\ Len(sock[c]) <= Len(Stream(c))
      BY ReadSoFarIs
    <3>3. QED
      BY <2>4, <3>1, <3>2, SendReadsNothing DEF ReadSoFar
  <2>7. \A d \in Conn : d # c => ReadSoFar(d)' = ReadSoFar(d)
    BY <2>2 DEF ReadSoFar, Stream
  <2>8. \A d \in Conn : Untouched(d)
    BY <1>1, <2>1, <2>6, <2>7 DEF Untouched
  <2>9. \A d \in Conn : KeepsUpNext(d)
    BY <2>8, UntouchedKeepsUp DEF StoredInv
  <2>10. QED
    BY <1>1, <2>9, StoredNext DEF StoredInv
<1>3. CASE Disconnect(c)
  <2>1. sent' = sent /\ sock' = sock
    BY <1>3 DEF Disconnect
  <2>2. \A d \in Conn : peer'[d] # "dead" => peer[d] # "dead"
    BY <1>3 DEF Disconnect, Inv, Types
  <2>3. \A d \in Conn : ReadSoFar(d)' = ReadSoFar(d)
    BY <2>1 DEF ReadSoFar, Stream
  <2>4. \A d \in Conn : Untouched(d)
    BY <1>1, <2>2, <2>3 DEF Untouched
  <2>5. \A d \in Conn : KeepsUpNext(d)
    BY <2>4, UntouchedKeepsUp DEF StoredInv
  <2>6. QED
    BY <1>1, <2>5, StoredNext DEF StoredInv
<1>4. QED
  BY <1>2, <1>3

\* A read of the socket.
LEMMA ReadKeepsStored ==
  ASSUME Inv, Arrived, StoredInv, NEW c \in Conn, ReadSocket(c)
  PROVE  StoredInv'
<1> DEFINE k == sock[c]
           S == Stream(c)
           n == Min({Len(k), BufLen})
           more == SubSeq(k, 1, n)
           left == SubSeq(k, n + 1, Len(k))
           text == ReadSoFar(c)
<1>1. /\ k \in Seq(Nat) /\ S \in Seq(Nat) /\ Len(k) \in Nat /\ Len(S) \in Nat
      /\ Len(k) <= Len(S) /\ StandsAt(k, S, Len(S) - Len(k))
      /\ text \in Seq(Nat) /\ Len(text) = Len(S) - Len(k)
  BY ReadSoFarIs
<1>2. n \in Nat /\ n <= Len(k)
  <2>1. {Len(k), BufLen} \in SUBSET Nat /\ {Len(k), BufLen} # {}
    BY <1>1, SocketAssumption
  <2>2. QED
    BY <2>1, MinOfNaturals
<1>3. pc[c] = "read" /\ prev' = [prev EXCEPT ![c] = 0] /\ UNCHANGED <<sent, stored>>
  BY DEF ReadSocket
<1>4. \/ /\ n > 0 /\ in_buffer' = [in_buffer EXCEPT ![c] = Received(c, n)]
         /\ sock' = [sock EXCEPT ![c] = SubSeq(@, n + 1, Len(@))]
         /\ cuts' = [cuts EXCEPT ![c] = @ \cup {Len(S) - Len(sock'[c])}]
         /\ pc' = [pc EXCEPT ![c] = "lock"] /\ peer' = peer
      \/ /\ peer' = [peer EXCEPT ![c] = "dead"] /\ pc' = [pc EXCEPT ![c] = "lock"]
         /\ UNCHANGED <<in_buffer, sock, cuts>>
      \/ /\ peer[c] \in {"eof", "dead"} /\ pc' = [pc EXCEPT ![c] = "done"]
         /\ UNCHANGED <<in_buffer, sock, peer, cuts>>
  <2> HIDE DEF n
  <2>1. n = Min({Len(sock[c]), BufLen})
    BY DEF n
  <2>2. QED
    BY <2>1 DEF ReadSocket, Goto
<1>5. \A d \in Conn : Stream(d)' = Stream(d)
  BY <1>3 DEF Stream
<1> HIDE DEF n
<1>6. KeepsUp(c) /\ \A d \in Conn : KeepsUp(d)
  BY DEF StoredInv
<1>7. ASSUME NEW d \in Conn, d # c PROVE KeepsUpNext(d)
  <2>1. sock'[d] = sock[d] /\ in_buffer'[d] = in_buffer[d] /\ pc'[d] = pc[d] /\ prev'[d] = prev[d]
    BY <1>3, <1>4, <1>7 DEF Inv, Types
  <2>2. cuts'[d] = cuts[d] /\ (peer'[d] # "dead" => peer[d] # "dead")
    BY <1>4, <1>7 DEF Inv, Types, StoredInv
  <2>3. ReadSoFar(d)' = ReadSoFar(d)
    BY <1>5, <2>1 DEF ReadSoFar
  <2>4. Untouched(d)
    BY <1>3, <2>1, <2>2, <2>3 DEF Untouched
  <2>5. QED
    BY <1>6, <2>4, UntouchedKeepsUp
<1>8. cuts' = [d \in Conn |-> cuts'[d]] /\ stored' = [d \in Conn |-> stored'[d]]
  <2>1. cuts' = [d \in Conn |-> cuts'[d]]
    BY <1>4 DEF StoredInv
  <2>2. QED
    BY <1>3, <2>1 DEF StoredInv
<1>9. /\ CutsOf(text, cuts[c])
      /\ peer[c] # "dead" => CameTo(text, cuts[c], stored[c], "read", in_buffer[c], prev[c])
  BY <1>3, <1>6 DEF KeepsUp
<1>10. KeepsUpNext(c)
  <2>1. CASE /\ n > 0 /\ in_buffer' = [in_buffer EXCEPT ![c] = Received(c, n)]
             /\ sock' = [sock EXCEPT ![c] = SubSeq(@, n + 1, Len(@))]
             /\ cuts' = [cuts EXCEPT ![c] = @ \cup {Len(S) - Len(sock'[c])}]
             /\ pc' = [pc EXCEPT ![c] = "lock"] /\ peer' = peer
    <3>1. /\ in_buffer'[c] = UpToNul(more) /\ sock'[c] = left /\ pc'[c] = "lock"
          /\ cuts'[c] = cuts[c] \cup {Len(S) - Len(left)} /\ peer'[c] = peer[c]
          /\ prev'[c] = 0 /\ stored'[c] = stored[c]
      <4>1. sock'[c] = left
        BY <2>1 DEF Inv, Types
      <4>2. cuts'[c] = cuts[c] \cup {Len(S) - Len(sock'[c])}
        BY <2>1 DEF StoredInv
      <4>3. in_buffer'[c] = UpToNul(more) /\ pc'[c] = "lock" /\ prev'[c] = 0
        BY <1>3, <2>1 DEF Inv, Types, Received
      <4>4. QED
        BY <1>3, <2>1, <4>1, <4>2, <4>3
    <3>2. n \in 0 .. Len(k) /\ Len(k) <= Len(k)
      BY <1>1, <1>2
    <3>3. more \in Seq(Nat) /\ Len(more) = n /\ more # << >>
      <4>1. more \in Seq(Nat) /\ Len(more) = n
        BY <1>1, <3>2, FirstOfSeq
      <4>2. QED
        BY <1>2, <2>1, <4>1
    <3>4. Len(left) = Len(k) - n
      BY <1>1, <1>2, <3>2, PartOfSeq
    <3> HIDE DEF left, more, k, S, text
    <3>5. Len(S) - Len(left) = (Len(S) - Len(k)) + n
      BY <1>1, <1>2, <3>4
    <3>6. ReadSoFar(c)' = text \o more
      <4>1. ReadSoFar(c)' = SubSeq(S, 1, (Len(S) - Len(k)) + n)
        BY <1>5, <3>1, <3>5 DEF ReadSoFar, S
      <4>2. text = SubSeq(S, 1, Len(S) - Len(k))
        BY DEF text, S, k, ReadSoFar
      <4>3. SubSeq(S, 1, (Len(S) - Len(k)) + n)
              = SubSeq(S, 1, Len(S) - Len(k)) \o SubSeq(k, 1, n)
        BY <1>1, <3>2, ReadTakesNext
      <4>4. QED
        BY <4>1, <4>2, <4>3 DEF more
    <3>7. Len(text \o more) = Len(S) - Len(left)
      <4>1. Len(text \o more) = Len(text) + Len(more)
        BY <1>1, <3>3, ConcatProperties
      <4>2. QED
        BY <1>1, <3>3, <3>5, <4>1
    <3>8. cuts'[c] = cuts[c] \cup {Len(text \o more)}
      BY <3>1, <3>7
    <3>9. /\ CutsOf(text \o more, cuts[c] \cup {Len(text \o more)})
          /\ \A st, buf, pv : CameTo(text, cuts[c], st, "read", buf, pv) =>
               CameTo(text \o more, cuts[c] \cup {Len(text \o more)}, st, "lock",
                      UpToNul(more), 0)
      BY <1>1, <1>9, <3>3, CameToLock, Zenon
    <3>10. CutsOf(ReadSoFar(c)', cuts'[c])
      BY <3>6, <3>8, <3>9, Zenon
    <3>11. peer[c] # "dead" =>
             CameTo(text \o more, cuts[c] \cup {Len(text \o more)}, stored[c], "lock",
                    UpToNul(more), 0)
      BY <1>9, <3>9, Zenon
    <3>12. QED
      BY <3>1, <3>6, <3>8, <3>10, <3>11 DEF KeepsUpNext
  <2>2. CASE UNCHANGED <<in_buffer, sock, cuts>>
             /\ \/ peer' = [peer EXCEPT ![c] = "dead"]
                \/ peer' = peer /\ pc' = [pc EXCEPT ![c] = "done"]
    <3>1. ReadSoFar(c)' = text /\ cuts'[c] = cuts[c] /\ stored'[c] = stored[c]
      BY <1>3, <1>5, <2>2 DEF ReadSoFar
    <3>2. CASE peer' = [peer EXCEPT ![c] = "dead"]
      <4>1. peer'[c] = "dead"
        BY <3>2 DEF Inv, Types
      <4>2. QED
        BY <1>9, <3>1, <4>1 DEF KeepsUpNext
    <3>3. CASE peer' = peer /\ pc' = [pc EXCEPT ![c] = "done"]
      <4>1. pc'[c] = "done" /\ peer'[c] = peer[c]
        BY <3>3 DEF Inv, Types
      <4>2. Len(text) \in Nat
        BY <1>1
      <4>3. peer[c] # "dead" => CameTo(text, cuts[c], stored[c], "done", in_buffer'[c], prev'[c])
        <5> HIDE DEF text
        <5>1. QED
          BY <1>9, <4>2 DEF CameTo
      <4>4. QED
        BY <1>9, <3>1, <4>1, <4>3 DEF KeepsUpNext
    <3>4. QED
      BY <2>2, <3>2, <3>3
  <2>3. QED
    BY <1>4, <2>1, <2>2
<1>11. QED
  BY <1>7, <1>8, <1>10, StoredNext

\* A thread that reads nothing: what the others have is untouched, and what c has come
\* to is left to show.
LEMMA OthersKeepStored ==
  ASSUME Inv, StoredInv, NEW c \in Conn,
         UNCHANGED <<sent, sock, in_buffer, cuts>>,
         stored' = [d \in Conn |-> stored'[d]],
         \A d \in Conn : d # c => /\ pc'[d] = pc[d] /\ prev'[d] = prev[d]
                                  /\ stored'[d] = stored[d],
         \A d \in Conn : peer'[d] # "dead" => peer[d] # "dead",
         peer'[c] # "dead" =>
           CameTo(ReadSoFar(c), cuts[c], stored'[c], pc'[c], in_buffer[c], prev'[c])
  PROVE  StoredInv'
<1>1. \A d \in Conn : ReadSoFar(d)' = ReadSoFar(d)
  BY DEF ReadSoFar, Stream
<1>2. ASSUME NEW d \in Conn, d # c PROVE KeepsUpNext(d)
  <2>1. Untouched(d)
    BY <1>1, <1>2 DEF Untouched
  <2>2. QED
    BY <2>1, UntouchedKeepsUp DEF StoredInv
<1>3. KeepsUpNext(c)
  BY <1>1 DEF KeepsUpNext, StoredInv, KeepsUp
<1>4. cuts' = [d \in Conn |-> cuts'[d]]
  BY DEF StoredInv
<1>5. QED
  BY <1>2, <1>3, <1>4, StoredNext

\* The steps of a thread that has read.
LEMMA ThreadKeepsStored ==
  ASSUME Inv, Arrived, StoredInv, NEW c \in Conn,
         Accept(c) \/ LockFile(c) \/ StoreLine(c) \/ SeekLine(c) \/ Reply(c) \/ ReplyDone(c)
           \/ UnlockFile(c)
  PROVE  StoredInv'
<1> USE DEF client, buffer, history, deviceVars, Goto
<1> DEFINE text == ReadSoFar(c)
           C == cuts[c]
           st == stored[c]
           buf == in_buffer[c]
           pv == prev[c]
<1>1. UNCHANGED <<sent, sock, in_buffer, cuts>>
  BY DEF Accept, LockFile, StoreLine, SeekLine, Reply, ReplyDone, UnlockFile
<1>2. text \in Seq(Nat) /\ pv \in 0 .. Len(buf)
  BY ReadSoFarIs
<1>3. Line(c) = LineAt(buf, pv)
  BY DEF Line, Unscanned, LineAt
<1>4. CutsOf(text, C) /\ (peer[c] # "dead" => CameTo(text, C, st, pc[c], buf, pv))
  BY DEF StoredInv, KeepsUp
<1>5. C \in SUBSET Nat
  BY <1>2, <1>4 DEF CutsOf
<1>6. stored = [d \in Conn |-> stored[d]]
  BY DEF StoredInv
<1>7. CASE Accept(c) \/ LockFile(c) \/ UnlockFile(c)
  <2>1. /\ UNCHANGED <<peer, prev, stored>>
        /\ \/ pc[c] = "none" /\ pc' = [pc EXCEPT ![c] = "read"]
           \/ pc[c] = "lock" /\ pc' = [pc EXCEPT ![c] = "scan"]
           \/ pc[c] = "scan" /\ LineAt(buf, pv) = << >> /\ pc' = [pc EXCEPT ![c] = "read"]
    BY <1>3, <1>7 DEF Accept, LockFile, UnlockFile
  <2>2. /\ \A d \in Conn : d # c => pc'[d] = pc[d]
        /\ \/ pc[c] = "none" /\ pc'[c] = "read"
           \/ pc[c] = "lock" /\ pc'[c] = "scan"
           \/ pc[c] = "scan" /\ LineAt(buf, pv) = << >> /\ pc'[c] = "read"
    BY <2>1 DEF Inv, Types
  <2> HIDE DEF text, C, st, buf, pv
  <2>3. ASSUME peer[c] # "dead" PROVE CameTo(text, C, st, pc'[c], buf, pv)
    <3>1. CASE pc[c] = "none" /\ pc'[c] = "read"
      BY <1>4, <2>3, <3>1 DEF CameTo
    <3>2. CASE pc[c] = "lock" /\ pc'[c] = "scan"
      BY <1>4, <2>3, <3>2 DEF CameTo
    <3>3. CASE pc[c] = "scan" /\ LineAt(buf, pv) = << >> /\ pc'[c] = "read"
      <4>1. CameTo(text, C, st, "scan", buf, pv)
        BY <1>4, <2>3, <3>3
      <4>2. CameTo(text, C, st, "read", buf, pv)
        BY <1>2, <1>5, <3>3, <4>1, CameToEnd, Zenon
      <4>3. QED
        BY <3>3, <4>2
    <3>4. QED
      BY <2>2, <3>1, <3>2, <3>3
  <2>4. peer'[c] # "dead" =>
          CameTo(ReadSoFar(c), cuts[c], stored'[c], pc'[c], in_buffer[c], prev'[c])
    BY <2>1, <2>3 DEF text, C, st, buf, pv
  <2>5. QED
    BY <1>1, <1>6, <2>1, <2>2, <2>4, OthersKeepStored
<1>8. CASE StoreLine(c)
  <2>1. /\ UNCHANGED <<peer, prev>> /\ pc[c] = "scan" /\ pc' = [pc EXCEPT ![c] = "reply"]
        /\ Line(c) # << >> /\ ~IsSeek(Line(c))
        /\ stored' = [stored EXCEPT ![c] = Append(@, Line(c))]
    BY <1>8 DEF StoreLine
  <2>2. /\ \A d \in Conn : d # c => pc'[d] = pc[d] /\ stored'[d] = stored[d]
        /\ pc'[c] = "reply" /\ stored'[c] = Append(st, LineAt(buf, pv))
        /\ stored' = [d \in Conn |-> stored'[d]]
    <3>1. (\A d \in Conn : d # c => pc'[d] = pc[d]) /\ pc'[c] = "reply"
      BY <2>1 DEF Inv, Types
    <3>2. /\ \A d \in Conn : d # c => stored'[d] = stored[d]
          /\ stored'[c] = Append(st, Line(c)) /\ stored' = [d \in Conn |-> stored'[d]]
      BY <1>6, <2>1
    <3>3. QED
      BY <1>3, <3>1, <3>2
  <2>3. LineAt(buf, pv) # << >> /\ ~IsSeek(LineAt(buf, pv))
    BY <1>3, <2>1 DEF IsSeek
  <2> HIDE DEF text, C, st, buf, pv
  <2>4. ASSUME peer[c] # "dead"
        PROVE  CameTo(text, C, Append(st, LineAt(buf, pv)), "reply", buf, pv)
    <3>1. CameTo(text, C, st, "scan", buf, pv)
      BY <1>4, <2>1, <2>4
    <3>2. QED
      BY <1>2, <1>5, <2>3, <3>1, CameToReply, Zenon
  <2>5. peer'[c] # "dead" =>
          CameTo(ReadSoFar(c), cuts[c], stored'[c], pc'[c], in_buffer[c], prev'[c])
    BY <2>1, <2>2, <2>4 DEF text, C, buf, pv
  <2>6. QED
    BY <1>1, <2>1, <2>2, <2>5, OthersKeepStored
<1>9. CASE SeekLine(c)
  <2>1. /\ UNCHANGED <<peer, prev, stored>> /\ pc[c] = "scan" /\ Line(c) # << >>
        /\ IsSeek(Line(c))
        /\ pc' = [pc EXCEPT ![c] = "reply"] \/ pc' = [pc EXCEPT ![c] = "done"]
    BY <1>9 DEF SeekLine
  <2>2. /\ \A d \in Conn : d # c => pc'[d] = pc[d]
        /\ pc'[c] \in {"reply", "done"}
    BY <2>1 DEF Inv, Types
  <2>3. LineAt(buf, pv) # << >> /\ IsSeek(LineAt(buf, pv))
    BY <1>3, <2>1 DEF IsSeek
  <2> HIDE DEF text, C, st, buf, pv
  <2>4. ASSUME peer[c] # "dead" PROVE CameTo(text, C, st, pc'[c], buf, pv)
    <3>1. CameTo(text, C, st, "scan", buf, pv)
      BY <1>4, <2>1, <2>4
    <3>2. CameTo(text, C, st, "reply", buf, pv)
      BY <1>2, <1>5, <2>3, <3>1, CameToReply, Zenon
    <3>3. CameTo(text, C, st, "done", buf, pv)
      <4>1. \E p \in Nat : StoredTo(text, C, st, p)
        BY <1>2, <1>5, <3>1, CameToStop, Zenon
      <4>2. QED
        BY <4>1 DEF CameTo
    <3>4. QED
      BY <2>2, <3>2, <3>3
  <2>5. peer'[c] # "dead" =>
          CameTo(ReadSoFar(c), cuts[c], stored'[c], pc'[c], in_buffer[c], prev'[c])
    BY <2>1, <2>4 DEF text, C, st, buf, pv
  <2>6. QED
    BY <1>1, <1>6, <2>1, <2>2, <2>5, OthersKeepStored
<1>10. CASE Reply(c)
  <2>1. /\ UNCHANGED <<prev, stored>> /\ pc[c] = "reply"
        /\ pc' = pc \/ pc' = [pc EXCEPT ![c] = "failed"]
        /\ peer' = [peer EXCEPT ![c] = IF @ = "reset" THEN "dead" ELSE @]
    BY <1>10 DEF Reply
  <2>2. /\ \A d \in Conn : d # c => pc'[d] = pc[d]
        /\ pc'[c] \in {"reply", "failed"}
        /\ \A d \in Conn : peer'[d] # "dead" => peer[d] # "dead"
    BY <2>1 DEF Inv, Types
  <2> HIDE DEF text, C, st, buf, pv
  <2>3. ASSUME peer[c] # "dead" PROVE CameTo(text, C, st, pc'[c], buf, pv)
    <3>1. CameTo(text, C, st, "reply", buf, pv)
      BY <1>4, <2>1, <2>3
    <3>2. CameTo(text, C, st, "failed", buf, pv)
      <4>1. \E p \in Nat : StoredTo(text, C, st, p)
        BY <1>2, <1>5, <3>1, CameToStop, Zenon
      <4>2. QED
        BY <4>1 DEF CameTo
    <3>3. QED
      BY <2>2, <3>1, <3>2
  <2>4. peer'[c] # "dead" =>
          CameTo(ReadSoFar(c), cuts[c], stored'[c], pc'[c], in_buffer[c], prev'[c])
    BY <2>1, <2>2, <2>3 DEF text, C, st, buf, pv
  <2>5. QED
    BY <1>1, <1>6, <2>1, <2>2, <2>4, OthersKeepStored
<1>11. CASE ReplyDone(c)
  <2>1. /\ UNCHANGED <<peer, stored>> /\ pc[c] = "reply" /\ pc' = [pc EXCEPT ![c] = "scan"]
        /\ prev' = [prev EXCEPT ![c] = prev[c] + Len(Line(c))]
    BY <1>11 DEF ReplyDone, NextPrev
  <2>2. /\ \A d \in Conn : d # c => pc'[d] = pc[d] /\ prev'[d] = prev[d]
        /\ pc'[c] = "scan" /\ prev'[c] = pv + Len(LineAt(buf, pv))
    <3>1. /\ \A d \in Conn : d # c => pc'[d] = pc[d] /\ prev'[d] = prev[d]
          /\ pc'[c] = "scan" /\ prev'[c] = pv + Len(Line(c))
      BY <2>1 DEF Inv, Types
    <3>2. QED
      BY <1>3, <3>1
  <2> HIDE DEF text, C, st, buf, pv
  <2>3. ASSUME peer[c] # "dead"
        PROVE  CameTo(text, C, st, "scan", buf, pv + Len(LineAt(buf, pv)))
    <3>1. CameTo(text, C, st, "reply", buf, pv)
      BY <1>4, <2>1, <2>3
    <3>2. QED
      BY <1>2, <1>5, <3>1, CameToNextLine, Zenon
  <2>4. peer'[c] # "dead" =>
          CameTo(ReadSoFar(c), cuts[c], stored'[c], pc'[c], in_buffer[c], prev'[c])
    BY <2>1, <2>2, <2>3 DEF text, C, st, buf, pv
  <2>5. QED
    BY <1>1, <1>6, <2>1, <2>2, <2>4, OthersKeepStored
<1>12. QED
  BY <1>7, <1>8, <1>9, <1>10, <1>11

\* How far each thread has come is an inductive invariant, given the streams.
THEOREM SocketKeepsUp == Spec => []StoredInv
<1>1. Init => StoredInv
  <2>1. SUFFICES ASSUME Init PROVE StoredInv
    OBVIOUS
  <2>2. /\ cuts = [d \in Conn |-> cuts[d]] /\ stored = [d \in Conn |-> stored[d]]
    BY <2>1 DEF Init
  <2>3. ASSUME NEW c \in Conn PROVE KeepsUp(c)
    <3>1. /\ sent[c] = 0 /\ sock[c] = << >> /\ cuts[c] = {} /\ stored[c] = << >> /\ pc[c] = "none"
      BY <2>1 DEF Init
    <3> DEFINE text == ReadSoFar(c)
    <3>2. text = << >>
      <4>1. Segments[c] \in Seq(Seq(Nat)) /\ 0 \in 0 .. Len(Segments[c])
        BY SocketAssumption
      <4>2. SubSeq(Segments[c], 1, 0) = << >>
        BY <4>1
      <4>3. Stream(c) = FlattenSeq(<< >>)
        BY <3>1, <4>2 DEF Stream
      <4>5. FlattenSeq(<< >>) = << >>
        BY DEF FlattenSeq
      <4>6. QED
        BY <3>1, <4>3, <4>5 DEF ReadSoFar
    <3> HIDE DEF text
    <3>3. CutsOf(text, {})
      BY <3>2 DEF CutsOf
    <3>4. text \in Seq(Nat) /\ Len(text) = 0
      BY <3>2
    <3>5. StoredTo(text, {}, << >>, Len(text))
      <4>1. KeptEnds(text, {}) = {}
        BY <3>2 DEF KeptEnds, NewlinesOf
      <4>2. KeptTo(text, {}, Len(text)) = {}
        BY <4>1 DEF KeptTo
      <4>3. {} \in SUBSET Nat /\ IsFiniteSet({}) /\ Cardinality({}) = 0
        BY FS_EmptySet
      <4>4. PiecesAt(text, {}, {}) = [j \in 1 .. 0 |-> PiecesAt(text, {}, {})[j]]
        BY <4>3, PiecesByRank
      <4>5. PiecesAt(text, {}, {}) = << >>
        BY <4>4
      <4>6. QED
        BY <4>2, <4>5 DEF StoredTo
    <3>6. CameTo(text, {}, << >>, "none", in_buffer[c], prev[c])
      BY <3>5 DEF CameTo
    <3>7. QED
      BY <3>1, <3>3, <3>6 DEF KeepsUp, text
  <2>4. QED
    BY <2>2, <2>3 DEF StoredInv
<1>2. ASSUME Inv, Arrived, StoredInv, [Next]_vars PROVE StoredInv'
  <2>1. CASE UNCHANGED vars
    <3>1. UNCHANGED <<sent, sock, in_buffer, cuts, stored, pc, prev, peer>>
      BY <2>1 DEF vars, serverVars
    <3>2. \A d \in Conn : ReadSoFar(d)' = ReadSoFar(d)
      BY <3>1 DEF ReadSoFar, Stream
    <3>3. \A d \in Conn : Untouched(d)
      BY <3>1, <3>2 DEF Untouched
    <3>4. \A d \in Conn : KeepsUpNext(d)
      BY <1>2, <3>3, UntouchedKeepsUp DEF StoredInv
    <3>5. QED
      BY <1>2, <3>1, <3>4, StoredNext DEF StoredInv
  <2>2. ASSUME NEW c \in Conn, Send(c) \/ Disconnect(c) \/ ThreadStep(c)
        PROVE  StoredInv'
    BY <1>2, <2>2, ClientKeepsStored, ReadKeepsStored, ThreadKeepsStored DEF ThreadStep
  <2>3. QED
    BY <1>2, <2>1, <2>2 DEF Next
<1>3. QED
  BY <1>1, <1>2, SocketInvariant, SocketStreams, PTL DEF Spec

\* Each line that a client sends is stored once, in order, by what came behind the
\* last cut of it, and nothing else is, for all clients, segments and buffer sizes and
\* in every interleaving (StoredOnceInOrder).
THEOREM SocketStoredOnce == Spec => []StoredOnceInOrder
<1>1. ASSUME Inv, Arrived, StoredInv PROVE StoredOnceInOrder
  <2>1. SUFFICES ASSUME NEW c \in Conn, peer[c] # "dead"
                 PROVE  /\ IsPrefix(stored[c], Kept(c))
                        /\ pc[c] = "read" => stored[c] = Kept(c)
    BY DEF StoredOnceInOrder
  <2> DEFINE text == ReadSoFar(c)
             C == cuts[c]
             st == stored[c]
             K == KeptEnds(text, C)
  <2>2. text \in Seq(Nat) /\ prev[c] \in 0 .. Len(in_buffer[c]) /\ Len(text) \in Nat
    BY <1>1, ReadSoFarIs
  <2>3. CutsOf(text, C) /\ CameTo(text, C, st, pc[c], in_buffer[c], prev[c])
    BY <1>1, <2>1 DEF StoredInv, KeepsUp
  <2>4. C \in SUBSET Nat
    BY <2>2, <2>3 DEF CutsOf
  <2>5. pc[c] \in {"none", "read", "lock", "scan", "reply", "done", "failed"}
    BY <1>1 DEF Inv, Types
  <2>6. Kept(c) = PiecesAt(text, C, K)
    BY DEF Kept
  <2> HIDE DEF text, C, st
  <2>7. /\ K \in SUBSET (1 .. Len(text)) /\ K \in SUBSET Nat /\ IsFiniteSet(K)
        /\ \A p : KeptTo(text, C, p) \in SUBSET Nat /\ IsFiniteSet(KeptTo(text, C, p))
    BY <2>2, KeptFinite
  <2>8. PICK p \in Nat : StoredTo(text, C, st, p)
    BY <2>2, <2>3, <2>4, <2>5, CameToStop, Zenon
  <2> HIDE DEF K
  <2> DEFINE S == KeptTo(text, C, p)
             a == PiecesAt(text, C, S)
             b == PiecesAt(text, C, K)
             m == Cardinality(S)
  <2>9. S = {i \in K : i <= p} /\ S \in SUBSET Nat /\ IsFiniteSet(S)
    BY <2>7 DEF KeptTo, K
  <2> HIDE DEF S
  <2>10. Leads(S, K)
    <3>1. \A i \in K : i \in Nat
      BY <2>7
    <3>2. \A i \in S : \A j \in K : j \notin S => i < j
      BY <2>9, <3>1
    <3>3. QED
      BY <2>9, <3>2 DEF Leads
  <2>11. /\ m \in Nat /\ Cardinality(K) \in Nat /\ m <= Cardinality(K)
         /\ \A k \in 1 .. m : b[k] = a[k]
    <3>1. S \in SUBSET Nat /\ K \in SUBSET Nat /\ IsFiniteSet(K) /\ Leads(S, K)
      BY <2>7, <2>9, <2>10
    <3>2. QED
      BY <3>1, PiecesLead
  <2>12. /\ Len(a) = m /\ a = [k \in 1 .. m |-> a[k]]
    BY <2>9, PiecesByRank
  <2>13. Len(b) = Cardinality(K) /\ b = [k \in 1 .. Cardinality(K) |-> b[k]]
    BY <2>7, PiecesByRank
  <2>14. st = a
    BY <2>8 DEF StoredTo, S
  <2> HIDE DEF a, b, m
  <2>15. IsPrefix(a, b)
    <3>1. SubSeq(b, 1, m) = [k \in 1 .. m |-> b[k]]
      BY <2>11, <2>13
    <3>2. a = SubSeq(b, 1, m)
      BY <2>11, <2>12, <3>1
    <3>3. QED
      <4>1. SubSeq(a, 1, m) = [k \in 1 .. m |-> a[k]]
        BY <2>11, <2>12
      <4>2. SubSeq(a, 1, m) = SubSeq(b, 1, m)
        BY <2>12, <3>2, <4>1
      <4>3. QED
        BY <2>11, <2>12, <2>13, <4>2 DEF IsPrefix
  <2>16. IsPrefix(st, Kept(c))
    BY <2>6, <2>14, <2>15 DEF b
  <2>17. pc[c] = "read" => st = Kept(c)
    <3>1. SUFFICES ASSUME pc[c] = "read" PROVE st = Kept(c)
      OBVIOUS
    <3>2. StoredTo(text, C, st, Len(text))
      BY <2>3, <3>1 DEF CameTo
    <3>3. \A i \in K : i <= Len(text)
      BY <2>2, <2>7
    <3>4. KeptTo(text, C, Len(text)) = K
      BY <3>3 DEF KeptTo, K
    <3>5. QED
      BY <2>6, <3>2, <3>4 DEF StoredTo
  <2>18. QED
    BY <2>16, <2>17 DEF st
<1>2. QED
  BY <1>1, SocketInvariant, SocketStreams, SocketKeepsUp, PTL
=============================================================================
