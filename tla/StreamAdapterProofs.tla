------------------------ MODULE StreamAdapterProofs ------------------------
(***************************************************************************)
(* Proofs about StreamAdapter for any answers of a model server.           *)
(***************************************************************************)
EXTENDS StreamAdapter, WellFoundedInduction, TLAPS

-----------------------------------------------------------------------------
(* Induction up to a bound, from the least element of a set of naturals.   *)

\* A set that holds 0 and, up to n, every number whose predecessor it holds.
LEMMA UpTo ==
  ASSUME NEW n \in Nat, NEW S, 0 \in S,
         \A i \in 1..n : i - 1 \in S => i \in S
  PROVE  \A i \in 0..n : i \in S
<1> DEFINE T == {i \in 0..n : i \notin S}
<1>1. SUFFICES ASSUME T # {} PROVE FALSE
  OBVIOUS
<1>2. IsWellFoundedOn(OpToRel(<, Nat), Nat)
  BY NatLessThanWellFounded, Zenon
<1>3. T \subseteq Nat
  OBVIOUS
<1>4. \E i \in T : \A j \in T : ~ (<<j, i>> \in OpToRel(<, Nat))
  <2> HIDE DEF T
  <2> QED  BY <1>1, <1>2, <1>3, WFMin, Zenon
<1>5. \A i, j \in T : j < i => <<j, i>> \in OpToRel(<, Nat)
  BY DEF OpToRel
<1>6. \E i \in T : \A j \in T : ~ (j < i)
  <2> HIDE DEF T
  <2> QED  BY <1>4, <1>5, Zenon
<1>7. PICK i \in T : \A j \in T : ~ (j < i)
  BY <1>6
<1>8. i \in 1..n /\ i - 1 \in 0..n /\ i - 1 \notin T
  BY <1>7
<1> QED  BY <1>8

-----------------------------------------------------------------------------
(* What Only returns.                                                      *)

\* The recursive function in its definition exists.
LEMMA OnlyDefined ==
  ASSUME NEW s, Len(s) \in Nat, NEW T
  PROVE  \E g : /\ g[0] = <<>>
                /\ \A i \in 1..Len(s) :
                     g[i] = IF s[i] \in T THEN Append(g[i - 1], s[i])
                                          ELSE g[i - 1]
                /\ Only(s, T) = g[Len(s)]
<1> DEFINE Is1(g, m) == g = [i \in 0..m |->
                               IF i = 0 THEN <<>>
                               ELSE IF s[i] \in T THEN Append(g[i - 1], s[i])
                                                  ELSE g[i - 1]]
           S == {m \in 0..Len(s) : \E g : Is1(g, m)}
<1>1. 0 \in S
  <2>1. Is1([i \in 0..0 |-> <<>>], 0)
    OBVIOUS
  <2> HIDE DEF Is1
  <2> QED  BY <2>1
<1>2. ASSUME NEW m \in 1..Len(s), m - 1 \in S PROVE m \in S
  <2>1. PICK g : Is1(g, m - 1)
    BY <1>2
  <2> DEFINE h == [i \in 0..m |->
                     IF i \in 0..(m - 1) THEN g[i]
                     ELSE IF s[i] \in T THEN Append(g[m - 1], s[i])
                                        ELSE g[m - 1]]
  <2>2. \A i \in 0..m :
          h[i] = IF i = 0 THEN <<>>
                 ELSE IF s[i] \in T THEN Append(h[i - 1], s[i]) ELSE h[i - 1]
    <3>1. ASSUME NEW i \in 0..(m - 1)
          PROVE  g[i] = IF i = 0 THEN <<>>
                        ELSE IF s[i] \in T THEN Append(g[i - 1], s[i])
                                           ELSE g[i - 1]
      BY <2>1
    <3>2. \A i \in 0..(m - 1) : h[i] = g[i]
      OBVIOUS
    <3>3. h[m] = IF s[m] \in T THEN Append(g[m - 1], s[m]) ELSE g[m - 1]
      OBVIOUS
    <3>4. \A i \in 0..m : i # 0 => i - 1 \in 0..(m - 1)
      OBVIOUS
    <3>5. \A i \in 0..m : i \in 0..(m - 1) \/ (i = m /\ i # 0)
      OBVIOUS
    <3> HIDE DEF h
    <3> QED  BY <3>1, <3>2, <3>3, <3>4, <3>5
  <2>3. Is1(h, m)
    <3>1. h = [i \in 0..m |-> h[i]]
      OBVIOUS
    <3> HIDE DEF h
    <3> QED  BY <3>1, <2>2
  <2>4. \E k : Is1(k, m)
    <3> HIDE DEF h, Is1
    <3> QED  BY <2>3
  <2> HIDE DEF Is1
  <2> QED  BY <2>4, <1>2
<1>3. Len(s) \in S
  <2> HIDE DEF S
  <2>1. \A i \in 0..Len(s) : i \in S
    BY <1>1, <1>2, UpTo
  <2> QED  BY <2>1
<1>4. PICK g : Is1(g, Len(s))
  BY <1>3
<1> DEFINE f == CHOOSE upTo : Is1(upTo, Len(s))
<1>5. Is1(f, Len(s))
  <2> HIDE DEF Is1
  <2> QED  BY <1>4
<1>6. Only(s, T) = f[Len(s)]
  BY DEF Only
<1> HIDE DEF f
<1>7. f[0] = <<>>
  BY <1>5
<1>8. ASSUME NEW i \in 1..Len(s)
      PROVE  f[i] = IF s[i] \in T THEN Append(f[i - 1], s[i]) ELSE f[i - 1]
  <2>1. i \in 0..Len(s) /\ i # 0
    OBVIOUS
  <2> QED  BY <1>5, <2>1, Zenon
<1> QED  BY <1>6, <1>7, <1>8

LEMMA OnlyType ==
  ASSUME NEW X, NEW s \in Seq(X), NEW T
  PROVE  Only(s, T) \in Seq(X)
<1>1. PICK g : /\ g[0] = <<>>
               /\ \A i \in 1..Len(s) :
                    g[i] = IF s[i] \in T THEN Append(g[i - 1], s[i])
                                         ELSE g[i - 1]
               /\ Only(s, T) = g[Len(s)]
  BY OnlyDefined
<1> DEFINE S == {i \in 0..Len(s) : g[i] \in Seq(X)}
<1>2. 0 \in S
  <2>1. <<>> \in Seq(X) /\ 0 \in 0..Len(s)
    OBVIOUS
  <2> QED  BY <1>1, <2>1, Zenon
<1>3. ASSUME NEW i \in 1..Len(s), i - 1 \in S PROVE i \in S
  <2>1. i \in 0..Len(s) /\ s[i] \in X
    OBVIOUS
  <2>2. g[i] = IF s[i] \in T THEN Append(g[i - 1], s[i]) ELSE g[i - 1]
    BY <1>1, Zenon
  <2>3. g[i - 1] \in Seq(X)
    BY <1>3
  <2>4. g[i] \in Seq(X)
    BY <2>1, <2>2, <2>3
  <2> QED  BY <2>1, <2>4
<1>4. \A i \in 0..Len(s) : i \in S
  <2>1. Len(s) \in Nat
    OBVIOUS
  <2> HIDE DEF S
  <2> QED  BY <1>2, <1>3, <2>1, UpTo
<1> QED  BY <1>1, <1>4

LEMMA OnlyEmpty ==
  ASSUME NEW T
  PROVE  Only(<<>>, T) = <<>>
<1>1. Len(<<>>) = 0
  OBVIOUS
<1> QED  BY <1>1, OnlyDefined

LEMMA OnlyAppend ==
  ASSUME NEW X, NEW s \in Seq(X), NEW c \in X, NEW T
  PROVE  Only(Append(s, c), T) =
           IF c \in T THEN Append(Only(s, T), c) ELSE Only(s, T)
<1> DEFINE t == Append(s, c)
           n == Len(s)
<1>1. /\ Len(t) = n + 1 /\ t[n + 1] = c
      /\ \A i \in 1..n : t[i] = s[i]
      /\ n \in Nat
  OBVIOUS
<1>2. PICK g : /\ g[0] = <<>>
               /\ \A i \in 1..n :
                    g[i] = IF s[i] \in T THEN Append(g[i - 1], s[i])
                                         ELSE g[i - 1]
               /\ Only(s, T) = g[n]
  BY OnlyDefined
<1> HIDE DEF t, n
<1>3. PICK h : /\ h[0] = <<>>
               /\ \A i \in 1..Len(t) :
                    h[i] = IF t[i] \in T THEN Append(h[i - 1], t[i])
                                         ELSE h[i - 1]
               /\ Only(t, T) = h[Len(t)]
  <2>1. Len(t) \in Nat
    BY <1>1
  <2> QED  BY <2>1, OnlyDefined
<1> DEFINE S == {i \in 0..n : g[i] = h[i]}
<1>4. 0 \in S
  BY <1>1, <1>2, <1>3
<1>5. ASSUME NEW i \in 1..n, i - 1 \in S PROVE i \in S
  <2>1. i \in 1..Len(t) /\ s[i] = t[i]
    BY <1>1
  <2> QED  BY <1>2, <1>3, <1>5, <2>1
<1>6. \A i \in 0..n : i \in S
  <2> HIDE DEF S
  <2> QED  BY <1>1, <1>4, <1>5, UpTo
<1>7. g[n] = h[n]
  BY <1>1, <1>6
<1>8. h[n + 1] = IF t[n + 1] \in T THEN Append(h[n], t[n + 1]) ELSE h[n]
  <2>1. n + 1 \in 1..Len(t) /\ (n + 1) - 1 = n
    BY <1>1
  <2> QED  BY <1>3, <2>1
<1>9. Only(t, T) = IF c \in T THEN Append(Only(s, T), c) ELSE Only(s, T)
  BY <1>1, <1>2, <1>3, <1>7, <1>8
<1> QED  BY <1>9 DEF t

\* What Only finds in a longer prefix of s begins with what it finds in a
\* shorter one.
LEMMA OnlyPrefix ==
  ASSUME NEW X, NEW s \in Seq(X), NEW T, NEW k \in 0..Len(s)
  PROVE  IsPrefix(Only(SubSeq(s, 1, k), T), Only(s, T))
<1> DEFINE q(m) == Only(SubSeq(s, 1, m), T)
           S == {m \in 0..Len(s) : m >= k => IsPrefix(q(k), q(m))}
<1>1. \A m \in 0..Len(s) : q(m) \in Seq(X)
  <2>1. \A m \in 0..Len(s) : SubSeq(s, 1, m) \in Seq(X)
    OBVIOUS
  <2> QED  BY <2>1, OnlyType
<1>2. q(k) \in Seq(X) /\ IsPrefix(q(k), q(k))
  BY <1>1 DEF IsPrefix
<1>3. ASSUME NEW m \in 1..Len(s), m - 1 \in S PROVE m \in S
  <2>1. CASE m <= k
    <3> HIDE DEF q
    <3>1. m >= k => m = k
      BY <2>1
    <3> QED  BY <2>1, <3>1, <1>2
  <2>2. CASE m > k
    <3>1. SubSeq(s, 1, m) = Append(SubSeq(s, 1, m - 1), s[m])
      OBVIOUS
    <3>2. SubSeq(s, 1, m - 1) \in Seq(X) /\ s[m] \in X
      OBVIOUS
    <3>3. q(m) = IF s[m] \in T THEN Append(q(m - 1), s[m]) ELSE q(m - 1)
      <4>1. Only(Append(SubSeq(s, 1, m - 1), s[m]), T) =
              IF s[m] \in T THEN Append(q(m - 1), s[m]) ELSE q(m - 1)
        <5>1. ASSUME NEW u \in Seq(X), NEW x \in X
              PROVE  Only(Append(u, x), T) =
                       IF x \in T THEN Append(Only(u, T), x) ELSE Only(u, T)
          BY OnlyAppend
        <5> QED  BY <3>2, <5>1, Zenon
      <4> QED  BY <3>1, <4>1
    <3> HIDE DEF q
    <3>4. IsPrefix(q(k), q(m - 1)) /\ q(m - 1) \in Seq(X)
      BY <1>1, <1>3, <2>2
    <3>5. IsPrefix(q(k), q(m))
      BY <1>2, <3>2, <3>3, <3>4 DEF IsPrefix
    <3> QED  BY <1>3, <3>5
  <2> QED  BY <2>1, <2>2, <1>3
<1>4. 0 \in S
  <2> HIDE DEF q
  <2>1. 0 >= k => k = 0
    OBVIOUS
  <2> QED  BY <2>1, <1>2
<1>5. \A m \in 0..Len(s) : m \in S
  <2>1. Len(s) \in Nat
    OBVIOUS
  <2> HIDE DEF S
  <2> QED  BY <1>3, <1>4, <2>1, UpTo
<1>6. IsPrefix(q(k), q(Len(s)))
  <2> HIDE DEF q
  <2> QED  BY <1>5
<1>7. SubSeq(s, 1, Len(s)) = s
  OBVIOUS
<1> QED  BY <1>6, <1>7

-----------------------------------------------------------------------------
(* A read, symbol by symbol.                                               *)

\* What the dashboard makes of one symbol, and of the i-th one of a chunk.
Step(d, c, behindCR) == Took(d, c, behindCR, Handled)
Next1(d, chunk, i) == Step(d, chunk[i], i > 1 /\ chunk[i - 1] = CR)

LEMMA TookAllDefined ==
  ASSUME NEW chunk, Len(chunk) \in Nat, NEW d
  PROVE  \E g : /\ g[0] = d
                /\ \A i \in 1..Len(chunk) : g[i] = Next1(g[i - 1], chunk, i)
                /\ TookAll(d, chunk, Handled) = g[Len(chunk)]
<1> DEFINE Is1(g, m) == g = [i \in 0..m |-> IF i = 0 THEN d
                                            ELSE Next1(g[i - 1], chunk, i)]
           S == {m \in 0..Len(chunk) : \E g : Is1(g, m)}
<1>1. 0 \in S
  <2>1. Is1([i \in 0..0 |-> d], 0)
    OBVIOUS
  <2> HIDE DEF Is1
  <2> QED  BY <2>1
<1>2. ASSUME NEW m \in 1..Len(chunk), m - 1 \in S PROVE m \in S
  <2>1. PICK g : Is1(g, m - 1)
    BY <1>2
  <2> DEFINE h == [i \in 0..m |-> IF i \in 0..(m - 1) THEN g[i]
                                  ELSE Next1(g[m - 1], chunk, i)]
  <2>2. \A i \in 0..m : h[i] = IF i = 0 THEN d ELSE Next1(h[i - 1], chunk, i)
    <3>1. ASSUME NEW i \in 0..(m - 1)
          PROVE  g[i] = IF i = 0 THEN d ELSE Next1(g[i - 1], chunk, i)
      BY <2>1
    <3>2. \A i \in 0..(m - 1) : h[i] = g[i]
      OBVIOUS
    <3>3. h[m] = Next1(g[m - 1], chunk, m)
      OBVIOUS
    <3>4. \A i \in 0..m : i # 0 => i - 1 \in 0..(m - 1)
      OBVIOUS
    <3>5. \A i \in 0..m : i \in 0..(m - 1) \/ (i = m /\ i # 0)
      OBVIOUS
    <3> HIDE DEF h
    <3> QED  BY <3>1, <3>2, <3>3, <3>4, <3>5
  <2>3. Is1(h, m)
    <3>1. h = [i \in 0..m |-> h[i]]
      OBVIOUS
    <3> HIDE DEF h
    <3> QED  BY <3>1, <2>2
  <2>4. \E k : Is1(k, m)
    <3> HIDE DEF h, Is1
    <3> QED  BY <2>3
  <2> HIDE DEF Is1
  <2> QED  BY <2>4, <1>2
<1>3. Len(chunk) \in S
  <2> HIDE DEF S
  <2>1. \A i \in 0..Len(chunk) : i \in S
    BY <1>1, <1>2, UpTo
  <2> QED  BY <2>1
<1>4. PICK g : Is1(g, Len(chunk))
  BY <1>3
<1> DEFINE f == CHOOSE upTo : Is1(upTo, Len(chunk))
<1>5. Is1(f, Len(chunk))
  <2> HIDE DEF Is1
  <2> QED  BY <1>4
<1>6. TookAll(d, chunk, Handled) = f[Len(chunk)]
  BY Zenon DEF TookAll, Next1, Step, Took
<1> HIDE DEF f
<1>7. f[0] = d
  BY <1>5
<1>8. ASSUME NEW i \in 1..Len(chunk) PROVE f[i] = Next1(f[i - 1], chunk, i)
  <2>1. i \in 0..Len(chunk) /\ i # 0
    OBVIOUS
  <2> QED  BY <1>5, <2>1, Zenon
<1> QED  BY <1>6, <1>7, <1>8

-----------------------------------------------------------------------------
(* The symbols a client has been or will be sent, one more at a time.      *)

Plain == Payloads \cup {CR, LF}

\* s ends with a blank line.
Blank(s) ==
  \/ Len(s) > 1 /\ s[Len(s)] = LF /\ s[Len(s) - 1] = LF
  \/ Len(s) > 2 /\ s[Len(s)] = LF /\ s[Len(s) - 1] = CR /\ s[Len(s) - 2] = LF

\* How s ends when the stream is at this place of an event.
Ending(s, place) ==
  /\ place = "start"   => s = <<>> \/ Blank(s)
  /\ place = "payload" => s # <<>> /\ s[Len(s)] \in Payloads
  /\ place = "cr1"     => s # <<>> /\ s[Len(s)] = CR
  /\ place = "line"    => s # <<>> /\ s[Len(s)] = LF
  /\ place = "cr2"     => Len(s) > 1 /\ s[Len(s)] = CR /\ s[Len(s) - 1] = LF

\* s is the first n events of the answer a; the last one may lack its end.
Shape(a, n, s, place) ==
  /\ s \in Seq(Symbols) /\ Data(s) = SubSeq(a, 1, n)
  /\ Separated(s) /\ Ending(s, place)

LEMMA SymbolFacts ==
  /\ Plain \subseteq Symbols /\ Payloads \subseteq Plain
  /\ CR \in Plain /\ LF \in Plain /\ CR # LF
  /\ \A p \in Payloads \cup {"metrics"} : p # CR /\ p # LF /\ p \in Symbols
  /\ "metrics" \notin Plain
  BY DEF Plain, Symbols, Payloads, CR, LF

LEMMA LastAppend ==
  ASSUME NEW s \in Seq(Symbols), NEW c \in Symbols
  PROVE  Append(s, c) \in Seq(Symbols) /\ Append(s, c) # <<>> /\ Last(Append(s, c)) = c
BY DEF Last

\* A line end is no data.
LEMMA DataEnd ==
  ASSUME NEW s \in Seq(Symbols), NEW c \in {CR, LF}
  PROVE  Data(Append(s, c)) = Data(s)
<1>1. c \in Symbols /\ c \notin Symbols \ {CR, LF}
  BY SymbolFacts
<1> QED  BY <1>1, OnlyAppend DEF Data

LEMMA DataPayload ==
  ASSUME NEW s \in Seq(Symbols), NEW c \in Payloads \cup {"metrics"}
  PROVE  Data(Append(s, c)) = Append(Data(s), c)
<1>1. c \in Symbols /\ c \in Symbols \ {CR, LF}
  BY SymbolFacts
<1> QED  BY <1>1, OnlyAppend DEF Data

LEMMA SeparatedEnd ==
  ASSUME NEW s \in Seq(Symbols), Separated(s), NEW c \in {CR, LF}
  PROVE  Separated(Append(s, c))
<1> DEFINE t == Append(s, c)
<1>1. /\ Len(t) = Len(s) + 1 /\ DOMAIN t = 1..Len(t) /\ DOMAIN s = 1..Len(s)
      /\ t[Len(t)] \in {CR, LF} /\ \A i \in 1..Len(s) : t[i] = s[i]
      /\ Len(s) \in Nat
  BY SymbolFacts
<1> HIDE DEF t
<1>2. ASSUME NEW i \in DOMAIN t, NEW j \in DOMAIN t, i < j,
             {t[i], t[j]} \cap {CR, LF} = {}
      PROVE  \E k \in i..(j - 2) :
               t[k] = LF /\ (t[k + 1] = LF \/ (t[k + 1] = CR /\ t[k + 2] = LF))
  <2>1. j # Len(t)
    BY <1>1, <1>2
  <2>2. i \in DOMAIN s /\ j \in DOMAIN s
    BY <1>1, <1>2, <2>1
  <2>3. {s[i], s[j]} \cap {CR, LF} = {}
    BY <1>1, <1>2, <2>2
  <2>4. PICK k \in i..(j - 2) :
          s[k] = LF /\ (s[k + 1] = LF \/ (s[k + 1] = CR /\ s[k + 2] = LF))
    BY <1>2, <2>2, <2>3 DEF Separated
  <2>5. k \in 1..Len(s) /\ k + 1 \in 1..Len(s) /\ k + 2 \in 1..Len(s)
    BY <1>1, <2>2
  <2> QED  BY <1>1, <2>4, <2>5
<1> QED  BY <1>2 DEF Separated, t

LEMMA SeparatedPayload ==
  ASSUME NEW s \in Seq(Symbols), Separated(s), s = <<>> \/ Blank(s),
         NEW c \in Payloads
  PROVE  Separated(Append(s, c))
<1> DEFINE t == Append(s, c)
<1>1. /\ Len(t) = Len(s) + 1 /\ DOMAIN t = 1..Len(t) /\ DOMAIN s = 1..Len(s)
      /\ \A i \in 1..Len(s) : t[i] = s[i]
      /\ Len(s) \in Nat
  OBVIOUS
<1>2. Len(s) = 0 \/ Blank(s)
  OBVIOUS
<1> HIDE DEF t
<1>3. ASSUME NEW i \in DOMAIN t, NEW j \in DOMAIN t, i < j,
             {t[i], t[j]} \cap {CR, LF} = {}
      PROVE  \E k \in i..(j - 2) :
               t[k] = LF /\ (t[k + 1] = LF \/ (t[k + 1] = CR /\ t[k + 2] = LF))
  <2>1. i \in DOMAIN s /\ t[i] = s[i] /\ s[i] # LF /\ s[i] # CR
    <3>1. i \in 1..Len(s)
      BY <1>1, <1>3
    <3>2. t[i] \notin {CR, LF}
      BY <1>3, Zenon
    <3> QED  BY <1>1, <3>1, <3>2
  <2>2. CASE j = Len(t)
    <3>1. Blank(s)
      BY <1>1, <1>2, <2>1
    <3>2. CASE Len(s) > 1 /\ s[Len(s)] = LF /\ s[Len(s) - 1] = LF
      <4> DEFINE k == Len(s) - 1
      <4>1. k \in i..(j - 2)
        BY <1>1, <2>1, <2>2, <3>2
      <4>2. t[k] = LF /\ t[k + 1] = LF
        BY <1>1, <3>2
      <4> QED  BY <4>1, <4>2
    <3>3. CASE /\ Len(s) > 2 /\ s[Len(s)] = LF
               /\ s[Len(s) - 1] = CR /\ s[Len(s) - 2] = LF
      <4> DEFINE k == Len(s) - 2
      <4>1. k \in i..(j - 2)
        BY <1>1, <2>1, <2>2, <3>3
      <4>2. t[k] = LF /\ t[k + 1] = CR /\ t[k + 2] = LF
        BY <1>1, <3>3
      <4> QED  BY <4>1, <4>2
    <3> QED  BY <3>1, <3>2, <3>3 DEF Blank
  <2>3. CASE j # Len(t)
    <3>1. j \in DOMAIN s
      BY <1>1, <2>3
    <3>2. {s[i], s[j]} \cap {CR, LF} = {}
      BY <1>1, <1>3, <2>1, <3>1
    <3>3. PICK k \in i..(j - 2) :
            s[k] = LF /\ (s[k + 1] = LF \/ (s[k + 1] = CR /\ s[k + 2] = LF))
      BY <1>3, <2>1, <3>1, <3>2 DEF Separated
    <3>4. k \in 1..Len(s) /\ k + 1 \in 1..Len(s) /\ k + 2 \in 1..Len(s)
      BY <1>1, <2>1, <3>1
    <3> QED  BY <1>1, <3>3, <3>4
  <2> QED  BY <2>2, <2>3
<1> QED  BY <1>3 DEF Separated, t

\* What remains when a CR at the end is taken away.
LEMMA WithoutCR ==
  ASSUME NEW s \in Seq(Symbols), Separated(s), s # <<>>, s[Len(s)] = CR
  PROVE  /\ Front(s) \in Seq(Symbols) /\ s = Append(Front(s), CR)
         /\ Len(Front(s)) = Len(s) - 1
         /\ \A i \in 1..(Len(s) - 1) : Front(s)[i] = s[i]
         /\ Data(Front(s)) = Data(s) /\ Separated(Front(s))
<1> DEFINE f == Front(s)
<1>1. /\ f \in Seq(Symbols) /\ Len(f) = Len(s) - 1 /\ Len(s) \in Nat \ {0}
      /\ \A i \in 1..(Len(s) - 1) : f[i] = s[i]
      /\ s = Append(f, CR)
  <2>1. Len(s) \in Nat \ {0}
    OBVIOUS
  <2>2. f \in Seq(Symbols) /\ Len(f) = Len(s) - 1
    <3>1. ASSUME NEW m \in 0..Len(s)
          PROVE  SubSeq(s, 1, m) \in Seq(Symbols) /\ Len(SubSeq(s, 1, m)) = m
      OBVIOUS
    <3>2. Len(s) - 1 \in 0..Len(s)
      BY <2>1
    <3> QED  BY <3>1, <3>2, Zenon DEF Front
  <2>3. \A i \in 1..(Len(s) - 1) : f[i] = s[i]
    <3>1. ASSUME NEW m \in 0..Len(s), NEW i \in 1..m
          PROVE  SubSeq(s, 1, m)[i] = s[i]
      OBVIOUS
    <3>2. Len(s) - 1 \in 0..Len(s)
      BY <2>1
    <3> QED  BY <3>1, <3>2, Zenon DEF Front
  <2>4. s = Append(f, CR)
    <3> HIDE DEF f
    <3>1. Append(f, CR) \in Seq(Symbols) /\ Len(Append(f, CR)) = Len(s)
      BY <2>1, <2>2, SymbolFacts
    <3>2. \A i \in 1..Len(s) : Append(f, CR)[i] = s[i]
      BY <2>1, <2>2, <2>3
    <3> QED  BY <3>1, <3>2
  <2> QED  BY <2>1, <2>2, <2>3, <2>4
<1> HIDE DEF f
<1>2. Data(f) = Data(s)
  BY <1>1, DataEnd
<1>3. ASSUME NEW i \in DOMAIN f, NEW j \in DOMAIN f, i < j,
             {f[i], f[j]} \cap {CR, LF} = {}
      PROVE  \E k \in i..(j - 2) :
               f[k] = LF /\ (f[k + 1] = LF \/ (f[k + 1] = CR /\ f[k + 2] = LF))
  <2>1. /\ i \in 1..(Len(s) - 1) /\ j \in 1..(Len(s) - 1)
        /\ i \in DOMAIN s /\ j \in DOMAIN s /\ f[i] = s[i] /\ f[j] = s[j]
    BY <1>1
  <2>2. PICK k \in i..(j - 2) :
          s[k] = LF /\ (s[k + 1] = LF \/ (s[k + 1] = CR /\ s[k + 2] = LF))
    BY <1>3, <2>1 DEF Separated
  <2>3. /\ k \in 1..(Len(s) - 1) /\ k + 1 \in 1..(Len(s) - 1)
        /\ k + 2 \in 1..(Len(s) - 1)
    BY <2>1
  <2> QED  BY <1>1, <2>2, <2>3
<1>4. Separated(f)
  BY <1>3 DEF Separated
<1> QED  BY <1>1, <1>2, <1>4 DEF f

LEMMA ShapePayload ==
  ASSUME NEW a \in Seq(Payloads), NEW n \in 0..(Len(a) - 1), NEW s,
         Shape(a, n, s, "start")
  PROVE  Shape(a, n + 1, Append(s, a[n + 1]), "payload")
<1>1. a[n + 1] \in Payloads
  OBVIOUS
<1>2. s \in Seq(Symbols) /\ Separated(s) /\ (s = <<>> \/ Blank(s))
  BY DEF Shape, Ending
<1>3. Append(s, a[n + 1]) \in Seq(Symbols)
  BY <1>1, <1>2, SymbolFacts
<1>4. Data(Append(s, a[n + 1])) = SubSeq(a, 1, n + 1)
  <2>1. Data(Append(s, a[n + 1])) = Append(SubSeq(a, 1, n), a[n + 1])
    BY <1>1, <1>2, DataPayload DEF Shape
  <2>2. SubSeq(a, 1, n + 1) = Append(SubSeq(a, 1, n), a[n + 1])
    OBVIOUS
  <2> QED  BY <2>1, <2>2
<1>5. Separated(Append(s, a[n + 1]))
  BY <1>1, <1>2, SeparatedPayload
<1>6. Ending(Append(s, a[n + 1]), "payload")
  <2>1. /\ Append(s, a[n + 1]) # <<>>
        /\ Append(s, a[n + 1])[Len(Append(s, a[n + 1]))] = a[n + 1]
    <3>1. a[n + 1] \in Symbols
      BY <1>1, SymbolFacts
    <3> QED  BY <1>2, <3>1, LastAppend DEF Last
  <2> QED  BY <1>1, <2>1 DEF Ending
<1> QED  BY <1>3, <1>4, <1>5, <1>6 DEF Shape

LEMMA ShapeCR ==
  ASSUME NEW a, NEW n, NEW s, NEW to,
         \/ Shape(a, n, s, "payload") /\ to = "cr1"
         \/ Shape(a, n, s, "line") /\ to = "cr2"
  PROVE  Shape(a, n, Append(s, CR), to)
<1>1. s \in Seq(Symbols) /\ Separated(s) /\ Data(s) = SubSeq(a, 1, n)
  BY DEF Shape
<1>2. Append(s, CR) \in Seq(Symbols)
  BY <1>1, SymbolFacts
<1>3. Data(Append(s, CR)) = SubSeq(a, 1, n) /\ Separated(Append(s, CR))
  BY <1>1, DataEnd, SeparatedEnd
<1>4. Ending(Append(s, CR), to)
  <2> DEFINE t == Append(s, CR)
  <2>1. /\ t # <<>> /\ Len(t) = Len(s) + 1 /\ t[Len(t)] = CR
        /\ \A i \in 1..Len(s) : t[i] = s[i]
    BY <1>1
  <2> HIDE DEF t
  <2>2. CASE to = "cr1"
    BY <2>1, <2>2 DEF Ending
  <2>3. CASE Shape(a, n, s, "line") /\ to = "cr2"
    <3>1. s # <<>> /\ s[Len(s)] = LF /\ Len(s) \in Nat \ {0}
      BY <1>1, <2>3 DEF Shape, Ending
    <3>2. Len(t) > 1 /\ t[Len(t)] = CR /\ t[Len(t) - 1] = LF
      BY <2>1, <3>1
    <3> QED  BY <2>3, <3>2 DEF Ending, t
  <2> QED  BY <2>2, <2>3 DEF t
<1> QED  BY <1>2, <1>3, <1>4 DEF Shape

\* A CR before it may have gone by then.
LEMMA ShapeLF ==
  ASSUME NEW a, NEW n, NEW s, NEW from, Shape(a, n, s, from), NEW to,
         \/ from \in {"payload", "cr1"} /\ to = "line"
         \/ from \in {"line", "cr2"} /\ to = "start"
  PROVE  /\ Shape(a, n, Append(s, LF), to)
         /\ from \in {"cr1", "cr2"} => Shape(a, n, Append(Front(s), LF), to)
<1>1. s \in Seq(Symbols) /\ Separated(s) /\ Data(s) = SubSeq(a, 1, n)
  BY DEF Shape
<1>2. Shape(a, n, Append(s, LF), to)
  <2>1. Append(s, LF) \in Seq(Symbols)
    BY <1>1, SymbolFacts
  <2>2. Data(Append(s, LF)) = SubSeq(a, 1, n) /\ Separated(Append(s, LF))
    BY <1>1, DataEnd, SeparatedEnd
  <2>3. Ending(Append(s, LF), to)
    <3> DEFINE t == Append(s, LF)
    <3>1. /\ t # <<>> /\ Len(t) = Len(s) + 1 /\ t[Len(t)] = LF
          /\ \A i \in 1..Len(s) : t[i] = s[i]
      BY <1>1
    <3> HIDE DEF t
    <3>2. CASE to = "line"
      BY <3>1, <3>2 DEF Ending
    <3>3. CASE from = "line" /\ to = "start"
      <4>1. s # <<>> /\ s[Len(s)] = LF /\ Len(s) \in Nat \ {0}
        BY <1>1, <3>3 DEF Shape, Ending
      <4>2. Blank(t)
        BY <3>1, <4>1 DEF Blank
      <4> QED  BY <3>3, <4>2 DEF Ending, t
    <3>4. CASE from = "cr2" /\ to = "start"
      <4>1. /\ Len(s) > 1 /\ s[Len(s)] = CR /\ s[Len(s) - 1] = LF
            /\ Len(s) \in Nat
        BY <1>1, <3>4 DEF Shape, Ending
      <4>2. Blank(t)
        BY <3>1, <4>1 DEF Blank
      <4> QED  BY <3>4, <4>2 DEF Ending, t
    <3> QED  BY <3>2, <3>3, <3>4 DEF t
  <2> QED  BY <2>1, <2>2, <2>3 DEF Shape
<1>3. ASSUME from \in {"cr1", "cr2"} PROVE Shape(a, n, Append(Front(s), LF), to)
  <2>1. s # <<>> /\ s[Len(s)] = CR
    <3>1. Ending(s, from)
      BY DEF Shape
    <3> QED  BY <1>1, <1>3, <3>1 DEF Ending
  <2>2. /\ Front(s) \in Seq(Symbols) /\ Len(Front(s)) = Len(s) - 1
        /\ Data(Front(s)) = SubSeq(a, 1, n) /\ Separated(Front(s))
        /\ \A i \in 1..(Len(s) - 1) : Front(s)[i] = s[i]
    BY <1>1, <2>1, WithoutCR
  <2>3. Append(Front(s), LF) \in Seq(Symbols)
    BY <2>2, SymbolFacts
  <2>4. /\ Data(Append(Front(s), LF)) = SubSeq(a, 1, n)
        /\ Separated(Append(Front(s), LF))
    BY <2>2, DataEnd, SeparatedEnd
  <2>5. Ending(Append(Front(s), LF), to)
    <3> DEFINE t == Append(Front(s), LF)
    <3>1. /\ t # <<>> /\ Len(t) = Len(s) /\ t[Len(t)] = LF
          /\ \A i \in 1..(Len(s) - 1) : t[i] = s[i]
      BY <1>1, <2>2
    <3> HIDE DEF t
    <3>2. CASE from = "cr1"
      <4>1. to = "line"
        BY <3>2
      <4> QED  BY <3>1, <4>1 DEF Ending, t
    <3>3. CASE from = "cr2"
      <4>1. to = "start" /\ Ending(s, "cr2")
        BY <3>3 DEF Shape
      <4>2. Len(s) > 1 /\ s[Len(s) - 1] = LF /\ Len(s) \in Nat
        BY <1>1, <4>1 DEF Ending
      <4>3. Blank(t)
        BY <3>1, <4>2 DEF Blank
      <4> QED  BY <4>1, <4>3 DEF Ending, t
    <3> QED  BY <1>3, <3>2, <3>3
  <2> QED  BY <2>3, <2>4, <2>5 DEF Shape
<1> QED  BY <1>2, <1>3

-----------------------------------------------------------------------------
(* One more symbol at the dashboard.                                       *)

IsDb(d) ==
  d \in [rest : Seq(Symbols), first : {d.first}, usage : BOOLEAN,
         reported : {d.reported}, text : Seq({"delta", "raw"}),
         out : Seq(Symbols)]

LEMMA HandledFacts ==
  ASSUME NEW d, IsDb(d), NEW e \in Seq(Symbols)
  PROVE  LET r == Handled(d, e)
         IN  /\ IsDb(r) /\ r.rest = d.rest /\ (d.usage => r.usage)
             /\ mode = "api" => r.out = IF Consumed(e) THEN d.out
                                        ELSE d.out \o e \o <<LF, LF>>
<1> DEFINE r == Handled(d, e)
<1>1. /\ d.rest \in Seq(Symbols) /\ d.usage \in BOOLEAN
      /\ d.text \in Seq({"delta", "raw"}) /\ d.out \in Seq(Symbols)
  BY DEF IsDb
<1>2. ASSUME NEW x, x = SetReported(d, e)
      PROVE  /\ IsDb(x) /\ x.rest = d.rest /\ x.usage = d.usage
             /\ x.out = d.out /\ x.text = d.text
  <2>1. x = d \/ x = [d EXCEPT !.reported = ReportedBy(e)]
    BY <1>2 DEF SetReported
  <2> QED  BY <2>1 DEF IsDb
<1>3. ASSUME NEW x, x = Seen(d, e)
      PROVE  /\ IsDb(x) /\ x.rest = d.rest /\ (d.usage => x.usage)
             /\ x.out = d.out /\ x.text = d.text
  <2>1. Parses(e, "usage") \in BOOLEAN
    BY DEF Parses
  <2>2. x = [d EXCEPT !.first = @ \/ Parses(e, "delta"),
                      !.usage = @ \/ Parses(e, "usage")]
    BY <1>3 DEF Seen
  <2> HIDE DEF Parses
  <2> QED  BY <1>1, <2>1, <2>2 DEF IsDb
<1>4. CASE mode = "api"
  <2>1. CASE Consumed(e)
    <3>1. r = SetReported(d, e)
      BY <1>4, <2>1 DEF Handled, Forward
    <3> QED  BY <1>2, <2>1, <3>1, Zenon
  <2>2. CASE ~ Consumed(e)
    <3>1. PICK x : x = Seen(d, e)
      OBVIOUS
    <3>2. r = [x EXCEPT !.out = @ \o e \o <<LF, LF>>]
      BY <1>4, <2>2, <3>1 DEF Handled, Forward
    <3>3. d.out \o e \o <<LF, LF>> \in Seq(Symbols)
      BY <1>1, SymbolFacts
    <3>4. /\ IsDb(x) /\ x.rest = d.rest /\ (d.usage => x.usage) /\ x.out = d.out
      BY <1>3, <3>1
    <3>5. /\ r.rest = x.rest /\ r.usage = x.usage
          /\ r.out = d.out \o e \o <<LF, LF>> /\ IsDb(r)
      BY <3>2, <3>3, <3>4 DEF IsDb
    <3> HIDE DEF r
    <3> QED  BY <2>2, <3>4, <3>5 DEF r
  <2> QED  BY <2>1, <2>2
<1>5. CASE mode # "api"
  <2>1. r = Read(d, e)
    BY <1>5 DEF Handled
  <2>2. PICK x : x = Seen(d, e)
    OBVIOUS
  <2>3. \/ r = d \/ r = SetReported(d, e) \/ r = x
        \/ r = [x EXCEPT !.text = Append(@, "delta")]
        \/ r = [d EXCEPT !.first = TRUE, !.text = Append(@, "raw")]
    BY <2>1, <2>2 DEF Read
  <2>4. IsDb(x) /\ x.rest = d.rest /\ (d.usage => x.usage)
    BY <1>3, <2>2
  <2>5. CASE r = SetReported(d, e)
    BY <1>2, <1>5, <2>5, Zenon
  <2>6. CASE r = [x EXCEPT !.text = Append(@, "delta")]
    <3>1. Append(x.text, "delta") \in Seq({"delta", "raw"})
      BY <2>4 DEF IsDb
    <3>2. IsDb(r) /\ r.rest = x.rest /\ r.usage = x.usage
      BY <2>4, <2>6, <3>1 DEF IsDb
    <3> HIDE DEF r
    <3> QED  BY <1>5, <2>4, <3>2 DEF r
  <2>7. CASE r = [d EXCEPT !.first = TRUE, !.text = Append(@, "raw")]
    <3>1. Append(d.text, "raw") \in Seq({"delta", "raw"})
      BY <1>1
    <3>2. IsDb(r) /\ r.rest = d.rest /\ r.usage = d.usage
      BY <2>7, <3>1 DEF IsDb
    <3> HIDE DEF r
    <3> QED  BY <1>5, <3>2 DEF r
  <2>8. CASE r = d
    BY <1>5, <2>8
  <2>9. CASE r = x
    BY <1>5, <2>4, <2>9
  <2> HIDE DEF r
  <2> QED  BY <2>3, <2>5, <2>6, <2>7, <2>8, <2>9 DEF r
<1> QED  BY <1>4, <1>5

\* A step leaves everything but the buffer alone, or ends an event; rest is the
\* buffer without the CR that c takes away.
Stepped(d, c, rest, r) ==
  /\ IsDb(r) /\ rest \in Seq(Symbols)
  /\ \/ /\ ~ (c = LF /\ rest # <<>> /\ Last(rest) = LF)
        /\ r.rest = Append(rest, c)
        /\ r.usage = d.usage /\ r.text = d.text /\ r.out = d.out
     \/ /\ c = LF /\ rest # <<>> /\ Last(rest) = LF
        /\ Front(rest) \in Seq(Symbols) /\ r.rest = <<>>
        /\ r.usage = Handled(d, Front(rest)).usage
        /\ r.text = Handled(d, Front(rest)).text
        /\ r.out = Handled(d, Front(rest)).out

LEMMA StepFacts ==
  ASSUME NEW d, IsDb(d), NEW c \in Symbols, NEW b \in BOOLEAN,
         NEW rest, rest = IF c = LF /\ b THEN Front(d.rest) ELSE d.rest,
         NEW r, r = Step(d, c, b)
  PROVE  Stepped(d, c, rest, r)
<1>1. d.rest \in Seq(Symbols)
  BY DEF IsDb
<1>2. \A s \in Seq(Symbols) : Front(s) \in Seq(Symbols)
  BY DEF Front
<1>3. rest \in Seq(Symbols)
  BY <1>1, <1>2
<1>4. CASE ~ (c = LF /\ rest # <<>> /\ Last(rest) = LF)
  <2>1. r = [d EXCEPT !.rest = Append(rest, c)]
    BY <1>4 DEF Step, Took
  <2>2. Append(rest, c) \in Seq(Symbols)
    BY <1>3
  <2>3. /\ IsDb(r) /\ r.rest = Append(rest, c)
        /\ r.usage = d.usage /\ r.text = d.text /\ r.out = d.out
    BY <2>1, <2>2 DEF IsDb
  <2> QED  BY <1>3, <1>4, <2>3 DEF Stepped
<1>5. CASE c = LF /\ rest # <<>> /\ Last(rest) = LF
  <2>1. r = [Handled(d, Front(rest)) EXCEPT !.rest = <<>>]
    BY <1>5 DEF Step, Took
  <2>2. Front(rest) \in Seq(Symbols)
    BY <1>2, <1>3, <1>5
  <2>3. PICK h : h = Handled(d, Front(rest))
    OBVIOUS
  <2>4. IsDb(h)
    BY <2>2, <2>3, HandledFacts
  <2>5. <<>> \in Seq(Symbols)
    OBVIOUS
  <2>6. /\ IsDb(r) /\ r.rest = <<>>
        /\ r.usage = h.usage /\ r.text = h.text /\ r.out = h.out
    BY <2>1, <2>3, <2>4, <2>5 DEF IsDb
  <2> QED  BY <1>3, <1>5, <2>2, <2>3, <2>6 DEF Stepped
<1> QED  BY <1>4, <1>5

LEMMA FrontFacts ==
  ASSUME NEW X, NEW s \in Seq(X), s # <<>>
  PROVE  Front(s) \in Seq(X) /\ s = Append(Front(s), Last(s))
<1>1. Front(s) = SubSeq(s, 1, Len(s) - 1) /\ Last(s) = s[Len(s)]
  BY DEF Front, Last
<1>2. Len(s) \in Nat /\ Len(s) > 0
  OBVIOUS
<1>3. s = Append(SubSeq(s, 1, Len(s) - 1), s[Len(s)])
  BY <1>2
<1>4. SubSeq(s, 1, Len(s) - 1) \in Seq(X)
  BY <1>2
<1> QED  BY <1>1, <1>3, <1>4

LEMMA JoinAppend ==
  ASSUME NEW s \in Seq(Symbols), NEW t \in Seq(Symbols), NEW c \in Symbols
  PROVE  s \o Append(t, c) = Append(s \o t, c)
OBVIOUS

LEMMA FrontAppend ==
  ASSUME NEW u \in Seq(Symbols), NEW c \in Symbols
  PROVE  Front(Append(u, c)) = u
BY DEF Front

LEMMA JoinFront ==
  ASSUME NEW s \in Seq(Symbols), NEW t \in Seq(Symbols), NEW c \in Symbols
  PROVE  Front(Append(s \o t, c)) = s \o t
<1>1. s \o t \in Seq(Symbols)
  OBVIOUS
<1> QED  BY <1>1, FrontAppend

LEMMA JoinTwo ==
  ASSUME NEW s \in Seq(Symbols), NEW t \in Seq(Symbols), NEW c \in Symbols
  PROVE  s \o t \o <<c, c>> = Append(Append(s \o t, c), c)
<1>1. s \o t \in Seq(Symbols)
  OBVIOUS
<1>2. ASSUME NEW u \in Seq(Symbols)
      PROVE  u \o <<c, c>> = Append(Append(u, c), c)
  OBVIOUS
<1> QED  BY <1>1, <1>2

\* An event of the model server is nothing that the dashboard consumes.
LEMMA PlainEvent ==
  ASSUME NEW e \in Seq(Plain)
  PROVE  ~ Consumed(e)
<1>1. \A i \in DOMAIN e : e[i] # "metrics"
  BY SymbolFacts
<1> QED  BY <1>1 DEF Consumed, NamesMetrics

\* What has been sent and what is still held.
Flow(d) == d.out \o d.rest

\* Together they grow by the symbol, which may take a CR away.
Grown(d, c, b, r) ==
  /\ IsDb(r) /\ r.rest \in Seq(Plain)
  /\ c = LF /\ b => Flow(r) = Append(Front(Flow(d)), c)
  /\ ~ (c = LF /\ b) => Flow(r) = Append(Flow(d), c)
  /\ c # LF => r.rest # <<>> /\ Last(r.rest) = c
  /\ r.out = d.out \/ r.out = Flow(r)

LEMMA SentStep ==
  ASSUME mode = "api", NEW d, IsDb(d), d.rest \in Seq(Plain), NEW c \in Plain,
         NEW b \in BOOLEAN, c = LF /\ b => d.rest # <<>> /\ Last(d.rest) = CR,
         NEW r, r = Step(d, c, b)
  PROVE  Grown(d, c, b, r)
<1> DEFINE rest == IF c = LF /\ b THEN Front(d.rest) ELSE d.rest
           s == d.out \o d.rest
<1>1. /\ d.out \in Seq(Symbols) /\ Plain \subseteq Symbols /\ c \in Symbols
      /\ CR \in Symbols /\ LF \in Symbols
  BY SymbolFacts DEF IsDb
<1>2. rest \in Seq(Plain)
  BY FrontFacts
<1>3. d.out \o rest = IF c = LF /\ b THEN Front(s) ELSE s
  <2>1. CASE c = LF /\ b
    <3>1. Front(d.rest) \in Seq(Plain) /\ d.rest = Append(Front(d.rest), CR)
      BY <2>1, FrontFacts
    <3>2. Front(d.rest) \in Seq(Symbols)
      BY <1>1, <3>1
    <3>3. s = Append(d.out \o Front(d.rest), CR)
      <4>1. d.out \o Append(Front(d.rest), CR) = Append(d.out \o Front(d.rest), CR)
        BY <1>1, <3>2, JoinAppend, Zenon
      <4> QED  BY <3>1, <4>1, Zenon
    <3>4. Front(s) = d.out \o Front(d.rest)
      <4>1. Front(Append(d.out \o Front(d.rest), CR)) = d.out \o Front(d.rest)
        BY <1>1, <3>2, JoinFront, Zenon
      <4> QED  BY <3>3, <4>1, Zenon
    <3> QED  BY <2>1, <3>4
  <2> QED  BY <2>1
<1> HIDE DEF rest, s
<1>4. rest \in Seq(Symbols)
  BY <1>1, <1>2
<1>5. CASE /\ ~ (c = LF /\ rest # <<>> /\ Last(rest) = LF)
           /\ IsDb(r) /\ r.rest = Append(rest, c) /\ r.out = d.out
  <2>1. r.out \o r.rest = Append(d.out \o rest, c)
    <3>1. d.out \o Append(rest, c) = Append(d.out \o rest, c)
      BY <1>1, <1>4, JoinAppend, Zenon
    <3> QED  BY <1>5, <3>1, Zenon
  <2>2. /\ r.rest \in Seq(Plain) /\ r.rest # <<>> /\ Last(r.rest) = c
    BY <1>2, <1>5 DEF Last
  <2> QED  BY <1>3, <1>5, <2>1, <2>2 DEF Flow, s, Grown
<1>6. CASE /\ c = LF /\ rest # <<>> /\ Last(rest) = LF
           /\ Front(rest) \in Seq(Symbols) /\ IsDb(r) /\ r.rest = <<>>
           /\ r.out = Handled(d, Front(rest)).out
  <2>1. Front(rest) \in Seq(Plain) /\ rest = Append(Front(rest), LF)
    BY <1>2, <1>6, FrontFacts
  <2>2. ~ Consumed(Front(rest))
    BY <2>1, PlainEvent
  <2>3. r.out = d.out \o Front(rest) \o <<LF, LF>>
    BY <1>6, <2>2, HandledFacts
  <2>4. d.out \o rest = Append(d.out \o Front(rest), LF)
    <3>1. d.out \o Append(Front(rest), LF) = Append(d.out \o Front(rest), LF)
      BY <1>1, <1>6, JoinAppend, Zenon
    <3> QED  BY <2>1, <3>1, Zenon
  <2>5. r.out = Append(d.out \o rest, LF)
    <3>1. d.out \o Front(rest) \o <<LF, LF>>
            = Append(Append(d.out \o Front(rest), LF), LF)
      BY <1>1, <1>6, JoinTwo, Zenon
    <3> QED  BY <2>3, <2>4, <3>1, Zenon
  <2>6. r.out \in Seq(Symbols)
    BY <1>6 DEF IsDb
  <2>7. r.out \o r.rest = r.out
    <3>1. r.out \o <<>> = r.out
      BY <2>6
    <3> QED  BY <1>6, <3>1, Zenon
  <2>8. r.rest \in Seq(Plain)
    <3>1. <<>> \in Seq(Plain)
      OBVIOUS
    <3> QED  BY <1>6, <3>1, Zenon
  <2> QED  BY <1>3, <1>6, <2>5, <2>7, <2>8 DEF Flow, s, Grown
<1>7. c = LF /\ b => d.rest # <<>>
  OBVIOUS
<1>8. Stepped(d, c, rest, r)
  <2>1. rest = IF c = LF /\ b THEN Front(d.rest) ELSE d.rest
    BY DEF rest
  <2> QED  BY <1>1, <2>1, StepFacts, Zenon
<1> QED  BY <1>5, <1>6, <1>8 DEF Stepped

-----------------------------------------------------------------------------
(* A stream that no read of the dashboard cut between a CR and its LF: the *)
(* buffer holds the unfinished event alone, and every other was handled.   *)

Places == {"start", "payload", "cr1", "line", "cr2"}

\* A symbol c leads from one place of an event to the next.
Moves(from, c, to) ==
  \/ from = "start" /\ c \in Payloads /\ to = "payload"
  \/ from = "payload" /\ c = CR /\ to = "cr1"
  \/ from \in {"payload", "cr1"} /\ c = LF /\ to = "line"
  \/ from = "line" /\ c = CR /\ to = "cr2"
  \/ from \in {"line", "cr2"} /\ c = LF /\ to = "start"

\* The buffer within an event of payload p.
Held(p, place) ==
  CASE place = "start"   -> <<>>
    [] place = "payload" -> <<p>>
    [] place = "cr1"     -> <<p, CR>>
    [] place = "line"    -> <<p, LF>>
    [] place = "cr2"     -> <<p, LF, CR>>

\* What was noted of the first k events of the answer a.
Noted(a, k, d) ==
  /\ \A j \in 1..k : a[j] = "usage" => d.usage
  /\ mode = "chat" => d.text = Only(SubSeq(a, 1, k), {"delta"})

Exact(a, k, place, d) ==
  /\ Noted(a, k, d)
  /\ d.rest = Held(IF place = "start" THEN "done" ELSE a[k + 1], place)

LEMMA OneLine ==
  ASSUME NEW p \in Payloads \cup {"metrics"}, NEW e \in {<<p>>, <<p, LF>>}
  PROVE  /\ e \in Seq(Symbols) /\ Data(e) = <<p>>
         /\ \A q : Is(e, q) <=> p = q
         /\ \A q : Parses(e, q) <=> p = q
<1>1. /\ p \in Symbols \ {CR, LF} /\ p \in Symbols /\ LF \in Symbols
      /\ p \in Symbols \ {LF} /\ LF \notin Symbols \ {LF}
      /\ LF \notin Symbols \ {CR, LF}
  BY SymbolFacts
<1>2. /\ <<>> \in Seq(Symbols) /\ <<p>> \in Seq(Symbols)
      /\ <<p>> = Append(<<>>, p) /\ <<p, LF>> = Append(<<p>>, LF)
  BY <1>1
<1>3. ASSUME NEW T, p \in T, LF \notin T PROVE Only(e, T) = <<p>>
  <2>1. Only(<<p>>, T) = <<p>>
    <3>1. Only(Append(<<>>, p), T) = Append(Only(<<>>, T), p)
      BY <1>1, <1>2, <1>3, OnlyAppend
    <3> QED  BY <1>2, <3>1, OnlyEmpty
  <2>2. Only(Append(<<p>>, LF), T) = Only(<<p>>, T)
    BY <1>1, <1>2, <1>3, OnlyAppend
  <2> QED  BY <1>2, <2>1, <2>2
<1>4. Data(e) = <<p>> /\ Only(e, Symbols \ {LF}) = <<p>>
  BY <1>1, <1>3 DEF Data
<1>5. \A q : (<<p>> = <<q>>) <=> p = q
  OBVIOUS
<1>6. e \in Seq(Symbols)
  <2>1. <<p, LF>> \in Seq(Symbols)
    BY <1>1
  <2> QED  BY <1>2, <2>1
<1> QED  BY <1>4, <1>5, <1>6 DEF Is, Parses

LEMMA HandledLine ==
  ASSUME NEW p \in Payloads, NEW e \in {<<p>>, <<p, LF>>}, NEW d, IsDb(d),
         NEW h, h = Handled(d, e)
  PROVE  /\ p = "usage" /\ mode \in {"api", "chat"} => h.usage
         /\ mode = "chat" => h.text = IF p = "delta" THEN Append(d.text, "delta")
                                                     ELSE d.text
<1>1. /\ Data(e) = <<p>> /\ (Is(e, "done") <=> p = "done")
      /\ (Parses(e, "usage") <=> p = "usage")
      /\ (Parses(e, "delta") <=> p = "delta")
  <2>1. p \in Payloads \cup {"metrics"}
    OBVIOUS
  <2> QED  BY <2>1, OneLine
<1>2. ~ Consumed(e)
  <2>1. e \in Seq(Plain)
    <3>1. p \in Plain /\ LF \in Plain
      BY SymbolFacts
    <3>2. <<p>> \in Seq(Plain) /\ <<p, LF>> \in Seq(Plain)
      BY <3>1
    <3> QED  BY <3>2
  <2> QED  BY <2>1, PlainEvent
<1>3. PICK x : x = Seen(d, e)
  OBVIOUS
<1>4. /\ x.usage = (d.usage \/ Parses(e, "usage")) /\ x.text = d.text
      /\ x.out = d.out /\ DOMAIN x = DOMAIN d
  BY <1>3 DEF Seen, IsDb
<1>5. CASE mode = "api"
  <2>1. h = [x EXCEPT !.out = @ \o e \o <<LF, LF>>]
    BY <1>2, <1>3, <1>5 DEF Handled, Forward
  <2>2. h.usage = x.usage
    BY <1>3, <1>4, <2>1 DEF IsDb, Seen
  <2> QED  BY <1>1, <1>4, <1>5, <2>2
<1>6. CASE mode = "chat"
  <2>1. Data(e) # <<>>
    BY <1>1
  <2>2. h = IF p = "done" THEN d
            ELSE IF p = "delta" THEN [x EXCEPT !.text = Append(@, "delta")]
            ELSE x
    BY <1>1, <1>2, <1>3, <1>6, <2>1 DEF Handled, Read, Payloads
  <2>3. CASE p = "done"
    BY <1>6, <2>2, <2>3
  <2>4. CASE p = "delta"
    BY <1>4, <1>6, <2>2, <2>4 DEF IsDb
  <2>5. CASE p = "usage"
    BY <1>1, <1>4, <1>6, <2>2, <2>5
  <2> QED  BY <2>3, <2>4, <2>5 DEF Payloads
<1> QED  BY <1>5, <1>6

LEMMA ExactStep ==
  ASSUME mode \in {"api", "chat"}, NEW a \in Seq(Payloads), NEW k \in 0..Len(a),
         NEW from \in Places, NEW to \in Places, NEW c, Moves(from, c, to),
         k < Len(a), from = "start" => c = a[k + 1],
         NEW d, IsDb(d), Exact(a, k, from, d),
         NEW b \in BOOLEAN, b <=> from \in {"cr1", "cr2"},
         NEW r, r = Step(d, c, b)
  PROVE  Exact(a, IF to = "start" THEN k + 1 ELSE k, to, r)
<1> DEFINE p == a[k + 1]
           rest == IF c = LF /\ b THEN Front(d.rest) ELSE d.rest
<1>1. p \in Payloads /\ p # LF /\ p # CR /\ CR # LF /\ c \in Symbols
  BY SymbolFacts DEF Moves
<1>2. d.rest = Held(IF from = "start" THEN "done" ELSE p, from)
  BY DEF Exact
<1>3. c = LF /\ b => d.rest # <<>>
  BY <1>2 DEF Held
<1> HIDE DEF p
<1>9. /\ <<p, CR>> = Append(<<p>>, CR) /\ <<p, LF>> = Append(<<p>>, LF)
      /\ <<p, LF, CR>> = Append(<<p, LF>>, CR)
  OBVIOUS
<1>4. rest = CASE from = "start" -> <<>>
               [] from \in {"payload", "cr1"} -> IF c = LF \/ from = "payload"
                                                THEN <<p>> ELSE <<p, CR>>
               [] OTHER -> IF c = LF \/ from = "line" THEN <<p, LF>>
                           ELSE <<p, LF, CR>>
  <2>1. /\ <<p>> \in Seq(Symbols) /\ <<p, LF>> \in Seq(Symbols)
        /\ CR \in Symbols
    BY <1>1, SymbolFacts
  <2>3. Front(<<p, CR>>) = <<p>>
    BY <2>1, <1>9, FrontAppend
  <2>4. Front(<<p, LF, CR>>) = <<p, LF>>
    BY <2>1, <1>9, FrontAppend
  <2> QED  BY <1>1, <1>2, <2>3, <2>4 DEF Held, Moves, Places
<1>5. \/ /\ ~ (c = LF /\ rest # <<>> /\ Last(rest) = LF)
         /\ r.rest = Append(rest, c) /\ r.usage = d.usage /\ r.text = d.text
      \/ /\ c = LF /\ rest # <<>> /\ Last(rest) = LF /\ r.rest = <<>>
         /\ r.usage = Handled(d, Front(rest)).usage
         /\ r.text = Handled(d, Front(rest)).text
  <2>1. rest = IF c = LF /\ b THEN Front(d.rest) ELSE d.rest
    OBVIOUS
  <2> HIDE DEF rest
  <2>2. Stepped(d, c, rest, r)
    BY <1>1, <2>1, StepFacts, Zenon
  <2> QED  BY <2>2 DEF Stepped
<1> HIDE DEF rest
<1>6. Noted(a, k, d)
  BY DEF Exact
<1>7. CASE from \in {"start", "payload", "cr1"} \/ c = CR
  <2>1. ~ (c = LF /\ rest # <<>> /\ Last(rest) = LF)
    BY <1>1, <1>4, <1>7 DEF Last, Moves
  <2>2. r.rest = Append(rest, c) /\ r.usage = d.usage /\ r.text = d.text
    BY <1>5, <2>1
  <2>3. Noted(a, k, r)
    BY <1>6, <2>2 DEF Noted
  <2>4. to # "start" /\ Append(rest, c) = Held(p, to)
    <3>1. CASE from = "start"
      <4>1. to = "payload" /\ rest = <<>> /\ c = p
        BY <1>4, <3>1 DEF Moves, p
      <4> QED  BY <4>1 DEF Held
    <3>2. CASE from = "payload" /\ c = CR
      <4>1. to = "cr1" /\ rest = <<p>> /\ c = CR
        BY <1>1, <1>4, <3>2 DEF Moves
      <4>2. Append(rest, c) = <<p, CR>>
        BY <4>1, <1>9, Zenon
      <4> QED  BY <4>1, <4>2 DEF Held
    <3>3. CASE from \in {"payload", "cr1"} /\ c = LF
      <4>1. to = "line" /\ rest = <<p>> /\ c = LF
        BY <1>1, <1>4, <3>3 DEF Moves
      <4>2. Append(rest, c) = <<p, LF>>
        BY <4>1, <1>9, Zenon
      <4> QED  BY <4>1, <4>2 DEF Held
    <3>4. CASE from = "line" /\ c = CR
      <4>1. to = "cr2" /\ rest = <<p, LF>> /\ c = CR
        BY <1>1, <1>4, <3>4 DEF Moves
      <4>2. Append(rest, c) = <<p, LF, CR>>
        BY <4>1, <1>9, Zenon
      <4> QED  BY <4>1, <4>2 DEF Held
    <3> QED  BY <1>1, <1>7, <3>1, <3>2, <3>3, <3>4 DEF Moves
  <2> QED  BY <2>2, <2>3, <2>4 DEF Exact, p
<1>8. CASE from \in {"line", "cr2"} /\ c = LF
  <2>1. rest = <<p, LF>>
    BY <1>4, <1>8
  <2>2. c = LF /\ rest # <<>> /\ Last(rest) = LF /\ Front(rest) = <<p>>
    <3>1. <<p>> \in Seq(Symbols) /\ LF \in Symbols /\ rest = Append(<<p>>, LF)
      BY <1>1, <2>1, SymbolFacts
    <3>2. Front(rest) = <<p>>
      BY <3>1, FrontAppend
    <3> QED  BY <1>8, <2>1, <3>2 DEF Last
  <2>3. PICK h : h = Handled(d, <<p>>)
    OBVIOUS
  <2>4. r.rest = <<>> /\ r.usage = h.usage /\ r.text = h.text
    BY <1>5, <2>2, <2>3
  <2>5. d.usage => h.usage
    <3>1. <<p>> \in Seq(Symbols)
      BY <1>1, SymbolFacts
    <3> QED  BY <2>3, <3>1, HandledFacts
  <2>6. /\ p = "usage" => h.usage
        /\ mode = "chat" => h.text = IF p = "delta" THEN Append(d.text, "delta")
                                                    ELSE d.text
    <3>1. <<p>> \in {<<p>>, <<p, LF>>}
      OBVIOUS
    <3> QED  BY <1>1, <2>3, <3>1, HandledLine
  <2>7. to = "start"
    BY <1>1, <1>8 DEF Moves
  <2>8. \A j \in 1..(k + 1) : a[j] = "usage" => r.usage
    BY <1>6, <2>4, <2>5, <2>6 DEF Noted, p
  <2>9. ASSUME mode = "chat"
        PROVE  r.text = Only(SubSeq(a, 1, k + 1), {"delta"})
    <3>1. SubSeq(a, 1, k + 1) = Append(SubSeq(a, 1, k), p)
      BY DEF p
    <3>2. SubSeq(a, 1, k) \in Seq(Payloads)
      OBVIOUS
    <3>3. Only(Append(SubSeq(a, 1, k), p), {"delta"})
            = IF p \in {"delta"} THEN Append(Only(SubSeq(a, 1, k), {"delta"}), p)
              ELSE Only(SubSeq(a, 1, k), {"delta"})
      <4>1. ASSUME NEW s \in Seq(Payloads), NEW x \in Payloads, NEW T
            PROVE  Only(Append(s, x), T) = IF x \in T THEN Append(Only(s, T), x)
                                                     ELSE Only(s, T)
        BY OnlyAppend
      <4> QED  BY <1>1, <3>2, <4>1
    <3>4. d.text = Only(SubSeq(a, 1, k), {"delta"})
      BY <1>6, <2>9 DEF Noted
    <3> QED  BY <2>4, <2>6, <2>9, <3>1, <3>3, <3>4
  <2> QED  BY <2>4, <2>7, <2>8, <2>9 DEF Exact, Noted, Held
<1> QED  BY <1>7, <1>8 DEF Moves, Places

-----------------------------------------------------------------------------
(* Places in the stream of the model server.                               *)

Eols == {<<LF>>, <<CR, LF>>}
Ends == {"event", "line", "open"}

\* After t symbols, k events are over and the next one is at this place.
At(e, t, k, place) ==
  \/ /\ e = <<LF>>
     /\ \/ place = "start" /\ t = 3 * k
        \/ place = "payload" /\ t = 3 * k + 1
        \/ place = "line" /\ t = 3 * k + 2
  \/ /\ e = <<CR, LF>>
     /\ \/ place = "start" /\ t = 5 * k
        \/ place = "payload" /\ t = 5 * k + 1
        \/ place = "cr1" /\ t = 5 * k + 2
        \/ place = "line" /\ t = 5 * k + 3
        \/ place = "cr2" /\ t = 5 * k + 4

Size(a, e, close) ==
  IF e = <<LF>>
  THEN 3 * Len(a) - (CASE close = "event" -> 0 [] close = "line" -> 1 [] OTHER -> 2)
  ELSE 5 * Len(a) - (CASE close = "event" -> 0 [] close = "line" -> 2 [] OTHER -> 4)

LEMMA WrittenFacts ==
  ASSUME NEW a \in Seq(Payloads), a # <<>>, NEW e \in Eols, NEW close \in Ends
  PROVE  /\ Size(a, e, close) \in Nat \ {0}
         /\ Written(a, e, close) =
              [i \in 1..Size(a, e, close) |->
                 IF e = <<LF>>
                 THEN IF (i - 1) % 3 = 0 THEN a[((i - 1) \div 3) + 1] ELSE LF
                 ELSE IF (i - 1) % 5 = 0 THEN a[((i - 1) \div 5) + 1]
                      ELSE IF (i - 1) % 5 \in {1, 3} THEN CR ELSE LF]
<1>1. Len(a) \in Nat \ {0}
  OBVIOUS
<1>2. Size(a, e, close) \in Nat \ {0}
  BY <1>1 DEF Size
<1>3. CASE e = <<LF>>
  <2>1. Len(e) = 1 /\ e[1] = LF
    BY <1>3
  <2>2. Written(a, e, close) =
          [i \in 1..Size(a, e, close) |->
             IF (i - 1) % 3 = 0 THEN a[((i - 1) \div 3) + 1]
             ELSE e[((((i - 1) % 3) - 1) % 1) + 1]]
    <3>1. 1 + 2 * Len(e) = 3
      BY <2>1
    <3>2. 3 * Len(a) - (CASE close = "event" -> 0 [] close = "line" -> Len(e)
                          [] OTHER -> 2 * Len(e)) = Size(a, e, close)
      BY <1>1, <1>3, <2>1 DEF Size, Ends
    <3> QED  BY <2>1, <3>1, <3>2 DEF Written
  <2>3. ASSUME NEW i \in 1..Size(a, e, close)
        PROVE  e[((((i - 1) % 3) - 1) % 1) + 1] = LF
    BY <1>2, <2>1
  <2> QED  BY <1>2, <1>3, <2>2, <2>3
<1>4. CASE e = <<CR, LF>>
  <2>1. Len(e) = 2 /\ e[1] = CR /\ e[2] = LF /\ e # <<LF>>
    BY <1>4
  <2>2. Written(a, e, close) =
          [i \in 1..Size(a, e, close) |->
             IF (i - 1) % 5 = 0 THEN a[((i - 1) \div 5) + 1]
             ELSE e[((((i - 1) % 5) - 1) % 2) + 1]]
    <3>1. 1 + 2 * Len(e) = 5
      BY <2>1
    <3>2. 5 * Len(a) - (CASE close = "event" -> 0 [] close = "line" -> Len(e)
                          [] OTHER -> 2 * Len(e)) = Size(a, e, close)
      <4>1. Size(a, e, close) =
              5 * Len(a) - (CASE close = "event" -> 0 [] close = "line" -> 2
                              [] OTHER -> 4)
        BY <2>1, Zenon DEF Size
      <4> QED  BY <1>1, <2>1, <4>1 DEF Ends
    <3> QED  BY <2>1, <3>1, <3>2 DEF Written
  <2>3. ASSUME NEW i \in 1..Size(a, e, close), (i - 1) % 5 # 0
        PROVE  e[((((i - 1) % 5) - 1) % 2) + 1]
                 = IF (i - 1) % 5 \in {1, 3} THEN CR ELSE LF
    <3>1. (i - 1) % 5 \in 1..4
      BY <1>2, <2>3
    <3>2. PICK o \in 1..4 : o = (i - 1) % 5
      BY <3>1
    <3>3. e[((o - 1) % 2) + 1] = IF o \in {1, 3} THEN CR ELSE LF
      <4>1. CASE o \in {1, 3}
        <5>1. (o - 1) % 2 = 0
          BY <4>1
        <5> QED  BY <2>1, <4>1, <5>1
      <4>2. CASE o \in {2, 4}
        <5>1. (o - 1) % 2 = 1
          BY <4>2
        <5> QED  BY <2>1, <4>2, <5>1
      <4> QED  BY <4>1, <4>2
    <3> QED  BY <3>2, <3>3
  <2> QED  BY <1>2, <2>1, <2>2, <2>3
<1> QED  BY <1>2, <1>3, <1>4 DEF Eols

\* The next symbol leads to the next place.
LEMMA Advance ==
  ASSUME NEW a \in Seq(Payloads), a # <<>>, NEW e \in Eols, NEW close \in Ends,
         NEW t \in Nat, t < Size(a, e, close),
         NEW k \in 0..Len(a), NEW place \in Places, At(e, t, k, place),
         NEW c, c = Written(a, e, close)[t + 1]
  PROVE  /\ k < Len(a) /\ (place = "start" => c = a[k + 1])
         /\ \E to \in Places : /\ Moves(place, c, to)
                               /\ At(e, t + 1, IF to = "start" THEN k + 1 ELSE k, to)
<1>1. Len(a) \in Nat \ {0} /\ t + 1 \in 1..Size(a, e, close) /\ (t + 1) - 1 = t
  BY WrittenFacts
<1>2. c = IF e = <<LF>>
          THEN IF t % 3 = 0 THEN a[(t \div 3) + 1] ELSE LF
          ELSE IF t % 5 = 0 THEN a[(t \div 5) + 1]
               ELSE IF t % 5 \in {1, 3} THEN CR ELSE LF
  <2>1. PICK i \in 1..Size(a, e, close) : i = t + 1 /\ i - 1 = t
    BY <1>1
  <2>2. Written(a, e, close)[i] =
          IF e = <<LF>>
          THEN IF (i - 1) % 3 = 0 THEN a[((i - 1) \div 3) + 1] ELSE LF
          ELSE IF (i - 1) % 5 = 0 THEN a[((i - 1) \div 5) + 1]
               ELSE IF (i - 1) % 5 \in {1, 3} THEN CR ELSE LF
    BY WrittenFacts
  <2> QED  BY <2>1, <2>2
<1>3. CASE e = <<LF>>
  <2>1. t < 3 * Len(a)
    BY <1>1, <1>3 DEF Size, Ends
  <2>2. e # <<CR, LF>>
    BY <1>3
  <2>3. CASE place = "start"
    <3>1. t = 3 * k
      BY <2>2, <2>3 DEF At
    <3>2. k < Len(a) /\ t % 3 = 0 /\ t \div 3 = k
      BY <1>1, <2>1, <3>1
    <3>3. c = a[k + 1] /\ c \in Payloads
      BY <1>2, <1>3, <3>2
    <3>4. Moves(place, c, "payload") /\ At(e, t + 1, k, "payload")
      BY <1>3, <2>3, <3>1, <3>3 DEF Moves, At
    <3> QED  BY <3>2, <3>3, <3>4 DEF Places
  <2>4. CASE place = "payload"
    <3>1. t = 3 * k + 1
      BY <2>2, <2>4 DEF At
    <3>2. k < Len(a) /\ t % 3 # 0
      BY <1>1, <2>1, <3>1
    <3>3. c = LF
      BY <1>2, <1>3, <3>2
    <3>4. Moves(place, c, "line") /\ At(e, t + 1, k, "line")
      BY <1>3, <2>4, <3>1, <3>3 DEF Moves, At
    <3> QED  BY <2>4, <3>2, <3>4 DEF Places
  <2>5. CASE place = "line"
    <3>1. t = 3 * k + 2
      BY <2>2, <2>5 DEF At
    <3>2. k < Len(a) /\ t % 3 # 0 /\ t + 1 = 3 * (k + 1)
      BY <1>1, <2>1, <3>1
    <3>3. c = LF
      BY <1>2, <1>3, <3>2
    <3>4. Moves(place, c, "start") /\ At(e, t + 1, k + 1, "start")
      BY <1>3, <2>5, <3>2, <3>3 DEF Moves, At
    <3> QED  BY <2>5, <3>2, <3>4 DEF Places
  <2> QED  BY <2>2, <2>3, <2>4, <2>5 DEF At
<1>4. CASE e = <<CR, LF>>
  <2>1. e # <<LF>>
    BY <1>4
  <2>2. t < 5 * Len(a)
    <3>1. Size(a, e, close) =
            5 * Len(a) - (CASE close = "event" -> 0 [] close = "line" -> 2
                            [] OTHER -> 4)
      BY <2>1, Zenon DEF Size
    <3> QED  BY <1>1, <3>1 DEF Ends
  <2>3. c = IF t % 5 = 0 THEN a[(t \div 5) + 1]
            ELSE IF t % 5 \in {1, 3} THEN CR ELSE LF
    BY <1>2, <2>1, Zenon
  <2>4. CASE place = "start"
    <3>1. t = 5 * k
      BY <2>1, <2>4 DEF At
    <3>2. k < Len(a) /\ t % 5 = 0 /\ t \div 5 = k
      BY <1>1, <2>2, <3>1
    <3>3. c = a[k + 1] /\ c \in Payloads
      BY <2>3, <3>2
    <3>4. Moves(place, c, "payload") /\ At(e, t + 1, k, "payload")
      BY <1>4, <2>4, <3>1, <3>3 DEF Moves, At
    <3> QED  BY <3>2, <3>3, <3>4 DEF Places
  <2>5. CASE place = "payload"
    <3>1. t = 5 * k + 1
      BY <2>1, <2>5 DEF At
    <3>2. k < Len(a) /\ t % 5 = 1
      BY <1>1, <2>2, <3>1
    <3>3. c = CR
      BY <2>3, <3>2
    <3>4. Moves(place, c, "cr1") /\ At(e, t + 1, k, "cr1")
      BY <1>4, <2>5, <3>1, <3>3 DEF Moves, At
    <3> QED  BY <2>5, <3>2, <3>4 DEF Places
  <2>6. CASE place = "cr1"
    <3>1. t = 5 * k + 2
      BY <2>1, <2>6 DEF At
    <3>2. k < Len(a) /\ t % 5 = 2
      BY <1>1, <2>2, <3>1
    <3>3. c = LF
      BY <2>3, <3>2
    <3>4. Moves(place, c, "line") /\ At(e, t + 1, k, "line")
      BY <1>4, <2>6, <3>1, <3>3 DEF Moves, At
    <3> QED  BY <2>6, <3>2, <3>4 DEF Places
  <2>7. CASE place = "line"
    <3>1. t = 5 * k + 3
      BY <2>1, <2>7 DEF At
    <3>2. k < Len(a) /\ t % 5 = 3
      BY <1>1, <2>2, <3>1
    <3>3. c = CR
      BY <2>3, <3>2
    <3>4. Moves(place, c, "cr2") /\ At(e, t + 1, k, "cr2")
      BY <1>4, <2>7, <3>1, <3>3 DEF Moves, At
    <3> QED  BY <2>7, <3>2, <3>4 DEF Places
  <2>8. CASE place = "cr2"
    <3>1. t = 5 * k + 4
      BY <2>1, <2>8 DEF At
    <3>2. k < Len(a) /\ t % 5 = 4 /\ t + 1 = 5 * (k + 1)
      BY <1>1, <2>2, <3>1
    <3>3. c = LF
      BY <2>3, <3>2
    <3>4. Moves(place, c, "start") /\ At(e, t + 1, k + 1, "start")
      BY <1>4, <2>8, <3>2, <3>3 DEF Moves, At
    <3> QED  BY <2>8, <3>2, <3>4 DEF Places
  <2> QED  BY <2>4, <2>5, <2>6, <2>7, <2>8 DEF Places
<1> QED  BY <1>3, <1>4 DEF Eols

\* Where the stream of the model server ends.
LEMMA AtEnd ==
  ASSUME NEW a \in Seq(Payloads), a # <<>>, NEW e \in Eols, NEW close \in Ends,
         NEW k \in 0..Len(a), NEW place \in Places,
         At(e, Size(a, e, close), k, place)
  PROVE  \/ close = "event" /\ place = "start" /\ k = Len(a)
         \/ close = "line" /\ place = "line" /\ k = Len(a) - 1
         \/ close = "open" /\ place = "payload" /\ k = Len(a) - 1
<1>1. Len(a) \in Nat \ {0}
  OBVIOUS
<1>2. CASE e = <<LF>>
  <2>1. e # <<CR, LF>>
    BY <1>2
  <2>2. \/ place = "start" /\ Size(a, e, close) = 3 * k
        \/ place = "payload" /\ Size(a, e, close) = 3 * k + 1
        \/ place = "line" /\ Size(a, e, close) = 3 * k + 2
    BY <2>1 DEF At
  <2>3. \/ close = "event" /\ Size(a, e, close) = 3 * Len(a)
        \/ close = "line" /\ Size(a, e, close) = 3 * Len(a) - 1
        \/ close = "open" /\ Size(a, e, close) = 3 * Len(a) - 2
    BY <1>1, <1>2 DEF Size, Ends
  <2>4. ASSUME NEW n \in Nat
        PROVE  /\ 3 * k = 3 * n => k = n
               /\ 3 * k # 3 * n - 1 /\ 3 * k # 3 * n - 2
               /\ 3 * k + 1 # 3 * n /\ 3 * k + 1 # 3 * n - 1
               /\ 3 * k + 1 = 3 * n - 2 => k = n - 1
               /\ 3 * k + 2 # 3 * n /\ 3 * k + 2 # 3 * n - 2
               /\ 3 * k + 2 = 3 * n - 1 => k = n - 1
    OBVIOUS
  <2>5. CASE close = "event" /\ Size(a, e, close) = 3 * Len(a)
    BY <1>1, <2>2, <2>4, <2>5
  <2>6. CASE close = "line" /\ Size(a, e, close) = 3 * Len(a) - 1
    BY <1>1, <2>2, <2>4, <2>6
  <2>7. CASE close = "open" /\ Size(a, e, close) = 3 * Len(a) - 2
    BY <1>1, <2>2, <2>4, <2>7
  <2> QED  BY <2>3, <2>5, <2>6, <2>7
<1>3. CASE e = <<CR, LF>>
  <2>1. e # <<LF>>
    BY <1>3
  <2>2. \/ place = "start" /\ Size(a, e, close) = 5 * k
        \/ place = "payload" /\ Size(a, e, close) = 5 * k + 1
        \/ place = "cr1" /\ Size(a, e, close) = 5 * k + 2
        \/ place = "line" /\ Size(a, e, close) = 5 * k + 3
        \/ place = "cr2" /\ Size(a, e, close) = 5 * k + 4
    BY <2>1 DEF At
  <2>3. Size(a, e, close) =
          5 * Len(a) - (CASE close = "event" -> 0 [] close = "line" -> 2
                          [] OTHER -> 4)
    BY <2>1, Zenon DEF Size
  <2>4. \/ close = "event" /\ Size(a, e, close) = 5 * Len(a)
        \/ close = "line" /\ Size(a, e, close) = 5 * Len(a) - 2
        \/ close = "open" /\ Size(a, e, close) = 5 * Len(a) - 4
    BY <1>1, <2>3 DEF Ends
  <2>5. ASSUME NEW n \in Nat
        PROVE  /\ 5 * k = 5 * n => k = n
               /\ 5 * k # 5 * n - 2 /\ 5 * k # 5 * n - 4
               /\ 5 * k + 1 # 5 * n /\ 5 * k + 1 # 5 * n - 2
               /\ 5 * k + 1 = 5 * n - 4 => k = n - 1
               /\ 5 * k + 2 # 5 * n /\ 5 * k + 2 # 5 * n - 2
               /\ 5 * k + 2 # 5 * n - 4
               /\ 5 * k + 3 # 5 * n /\ 5 * k + 3 # 5 * n - 4
               /\ 5 * k + 3 = 5 * n - 2 => k = n - 1
               /\ 5 * k + 4 # 5 * n /\ 5 * k + 4 # 5 * n - 2
               /\ 5 * k + 4 # 5 * n - 4
    OBVIOUS
  <2>6. CASE close = "event" /\ Size(a, e, close) = 5 * Len(a)
    BY <1>1, <2>2, <2>5, <2>6
  <2>7. CASE close = "line" /\ Size(a, e, close) = 5 * Len(a) - 2
    BY <1>1, <2>2, <2>5, <2>7
  <2>8. CASE close = "open" /\ Size(a, e, close) = 5 * Len(a) - 4
    BY <1>1, <2>2, <2>5, <2>8
  <2> QED  BY <2>4, <2>6, <2>7, <2>8
<1> QED  BY <1>2, <1>3 DEF Eols

LEMMA LastCR ==
  ASSUME NEW a \in Seq(Payloads), a # <<>>, NEW e \in Eols, NEW close \in Ends,
         NEW t \in 1..Size(a, e, close), NEW k \in 0..Len(a),
         NEW place \in Places, At(e, t, k, place)
  PROVE  Written(a, e, close)[t] = CR <=> place \in {"cr1", "cr2"}
<1>1. Size(a, e, close) \in Nat /\ Len(a) \in Nat
  BY WrittenFacts
<1>2. Written(a, e, close)[t] =
        IF e = <<LF>>
        THEN IF (t - 1) % 3 = 0 THEN a[((t - 1) \div 3) + 1] ELSE LF
        ELSE IF (t - 1) % 5 = 0 THEN a[((t - 1) \div 5) + 1]
             ELSE IF (t - 1) % 5 \in {1, 3} THEN CR ELSE LF
  BY <1>1, WrittenFacts
<1>3. \A i \in 1..Len(a) : a[i] \in Payloads /\ a[i] # CR
  BY SymbolFacts
<1>4. CASE e = <<LF>>
  <2>1. t <= 3 * Len(a)
    BY <1>1, <1>4 DEF Size, Ends
  <2>2. (t - 1) \div 3 + 1 \in 1..Len(a)
    BY <1>1, <2>1
  <2>3. Written(a, e, close)[t] # CR
    BY <1>2, <1>3, <1>4, <2>2, SymbolFacts
  <2>4. place \notin {"cr1", "cr2"}
    BY <1>4 DEF At
  <2> QED  BY <2>3, <2>4
<1>5. CASE e = <<CR, LF>>
  <2>1. e # <<LF>>
    BY <1>5
  <2>2. t <= 5 * Len(a)
    <3>1. Size(a, e, close) =
            5 * Len(a) - (CASE close = "event" -> 0 [] close = "line" -> 2
                            [] OTHER -> 4)
      BY <2>1, Zenon DEF Size
    <3> QED  BY <1>1, <3>1 DEF Ends
  <2>3. (t - 1) \div 5 + 1 \in 1..Len(a)
    BY <1>1, <2>2
  <2>4. Written(a, e, close)[t] = CR <=> (t - 1) % 5 \in {1, 3}
    BY <1>2, <1>3, <2>1, <2>3, SymbolFacts
  <2>5. (t - 1) % 5 \in {1, 3} <=> place \in {"cr1", "cr2"}
    BY <2>1 DEF At
  <2> QED  BY <2>4, <2>5
<1> QED  BY <1>4, <1>5 DEF Eols

-----------------------------------------------------------------------------
(* Any stream: what an API client has been sent, with what is still held.  *)

\* The client has the first events of the answer a.
Served(a, o) == \E n \in 0..Len(a) : Data(o) = SubSeq(a, 1, n) /\ Separated(o)

Sent(a, k, place, d) ==
  /\ d.rest \in Seq(Plain) /\ Served(a, d.out)
  /\ Shape(a, IF place = "start" THEN k ELSE k + 1, Flow(d), place)
  /\ place \in {"cr1", "cr2"} => d.rest # <<>> /\ Last(d.rest) = CR

LEMMA SentAgain ==
  ASSUME mode = "api", NEW a \in Seq(Payloads), NEW k \in 0..Len(a), k < Len(a),
         NEW from \in Places, NEW to \in Places, NEW c, Moves(from, c, to),
         from = "start" => c = a[k + 1],
         NEW d, IsDb(d), Sent(a, k, from, d),
         NEW b \in BOOLEAN, b => from \in {"cr1", "cr2"},
         NEW r, r = Step(d, c, b)
  PROVE  Sent(a, IF to = "start" THEN k + 1 ELSE k, to, r)
<1> DEFINE s == Flow(d)
           n == IF from = "start" THEN k ELSE k + 1
           z == Flow(r)
<1>1. c \in Plain /\ (c = LF \/ c = CR \/ c \in Payloads)
  BY SymbolFacts DEF Moves
<1>2. Shape(a, n, s, from)
  BY DEF Sent
<1>3. /\ IsDb(r) /\ r.rest \in Seq(Plain)
      /\ c = LF /\ b => z = Append(Front(s), c)
      /\ ~ (c = LF /\ b) => z = Append(s, c)
      /\ c # LF => r.rest # <<>> /\ Last(r.rest) = c
      /\ r.out = d.out \/ r.out = z
  <2>1. /\ d.rest \in Seq(Plain)
        /\ c = LF /\ b => d.rest # <<>> /\ Last(d.rest) = CR
    BY DEF Sent
  <2>2. c \in Plain
    BY <1>1
  <2>3. d.rest \in Seq(Plain)
    BY <2>1
  <2>4. Grown(d, c, b, r)
    BY <2>1, <2>2, <2>3, SentStep, Zenon
  <2> QED  BY <2>4 DEF Grown
<1> HIDE DEF s, z
<1>4. CR # LF /\ \A p \in Payloads : p # CR /\ p # LF
  BY SymbolFacts
<1>5. Shape(a, k + 1, z, to)
  <2>1. CASE from = "start"
    <3>1. c = a[k + 1] /\ c # LF /\ to = "payload" /\ k \in 0..(Len(a) - 1)
      BY <1>4, <2>1 DEF Moves
    <3>2. z = Append(s, a[k + 1]) /\ n = k
      BY <1>3, <2>1, <3>1
    <3>3. Shape(a, k, s, "start")
      BY <1>2, <2>1
    <3> HIDE DEF n
    <3> QED  BY <3>1, <3>2, <3>3, ShapePayload
  <2>2. CASE from # "start" /\ c = CR
    <3>1. z = Append(s, CR) /\ n = k + 1
      BY <1>3, <1>4, <2>2
    <3> HIDE DEF n
    <3>2. \/ from = "payload" /\ to = "cr1"
          \/ from = "line" /\ to = "cr2"
      BY <1>4, <2>2 DEF Moves
    <3> QED  BY <1>2, <3>1, <3>2, ShapeCR
  <2>3. CASE from # "start" /\ c = LF
    <3>1. n = k + 1 /\ (z = Append(s, LF) \/ (b /\ z = Append(Front(s), LF)))
      BY <1>3, <2>3
    <3> HIDE DEF n
    <3>2. \/ from \in {"payload", "cr1"} /\ to = "line"
          \/ from \in {"line", "cr2"} /\ to = "start"
      BY <1>4, <2>3 DEF Moves
    <3>3. /\ Shape(a, n, Append(s, LF), to)
          /\ b => Shape(a, n, Append(Front(s), LF), to)
      BY <1>2, <3>2, ShapeLF
    <3> QED  BY <3>1, <3>3
  <2> QED  BY <2>1, <2>2, <2>3 DEF Moves
<1> HIDE DEF n
<1>6. to \in {"cr1", "cr2"} => r.rest # <<>> /\ Last(r.rest) = CR
  BY <1>3, <1>4 DEF Moves
<1>7. Served(a, r.out)
  <2>1. CASE r.out = d.out
    BY <2>1 DEF Sent
  <2>2. CASE r.out = z
    <3>2. Data(z) = SubSeq(a, 1, k + 1) /\ Separated(z)
      BY <1>5 DEF Shape
    <3>3. k + 1 \in 0..Len(a)
      OBVIOUS
    <3> QED  BY <2>2, <3>2, <3>3 DEF Served
  <2> QED  BY <1>3, <2>1, <2>2
<1>8. (IF to = "start" THEN IF to = "start" THEN k + 1 ELSE k
       ELSE (IF to = "start" THEN k + 1 ELSE k) + 1) = k + 1
  OBVIOUS
<1> QED  BY <1>3, <1>5, <1>6, <1>7, <1>8 DEF Sent, z

-----------------------------------------------------------------------------
(* The gateway's own event, behind a stream that was ended properly.       *)

\* The buffer when m of its symbols were read: what the model server sent
\* before may still be there, above it.
Own(m, q) == IF m = 3 THEN <<>>
             ELSE IF m = 1 THEN Append(q, "metrics")
             ELSE Append(Append(q, "metrics"), LF)

OwnLine(q, whole) == /\ q \in Seq(Plain) /\ (q = <<>> \/ Last(q) = LF)
                     /\ whole => q = <<>>

Behind(a, m, d, whole) ==
  /\ whole => Noted(a, Len(a), d)
  /\ mode = "api" => Served(a, d.out) /\ (whole => Data(d.out) = a)
  /\ mode = "api" \/ whole => \E q : OwnLine(q, whole) /\ d.rest = Own(m, q)

LEMMA OwnIs ==
  ASSUME NEW q
  PROVE  /\ Own(1, q) = Append(q, "metrics")
         /\ Own(2, q) = Append(Append(q, "metrics"), LF)
         /\ Own(3, q) = <<>>
<1>1. 1 # 3 /\ 2 # 3 /\ 2 # 1
  OBVIOUS
<1> QED  BY <1>1, Zenon DEF Own

\* A symbol behind no CR.
LEMMA StepOn ==
  ASSUME NEW d, IsDb(d), NEW c \in Symbols, NEW r, r = Step(d, c, FALSE)
  PROVE  Stepped(d, c, d.rest, r)
<1>1. d.rest \in Seq(Symbols) /\ <<>> \in Seq(Symbols)
  BY DEF IsDb
<1>2. (IF c = LF /\ FALSE THEN Front(d.rest) ELSE d.rest) = d.rest
  OBVIOUS
<1>3. r = IF c = LF /\ d.rest # <<>> /\ Last(d.rest) = LF
          THEN [Handled(d, Front(d.rest)) EXCEPT !.rest = <<>>]
          ELSE [d EXCEPT !.rest = Append(d.rest, c)]
  BY <1>2, Zenon DEF Step, Took
<1>4. CASE ~ (c = LF /\ d.rest # <<>> /\ Last(d.rest) = LF)
  <2>1. r = [d EXCEPT !.rest = Append(d.rest, c)]
    BY <1>3, <1>4
  <2>2. Append(d.rest, c) \in Seq(Symbols)
    BY <1>1
  <2>3. /\ IsDb(r) /\ r.rest = Append(d.rest, c)
        /\ r.usage = d.usage /\ r.text = d.text /\ r.out = d.out
    BY <2>1, <2>2 DEF IsDb
  <2> QED  BY <1>1, <1>4, <2>3 DEF Stepped
<1>5. CASE c = LF /\ d.rest # <<>> /\ Last(d.rest) = LF
  <2>1. Front(d.rest) \in Seq(Symbols)
    BY <1>1, <1>5, FrontFacts
  <2>2. PICK h : h = Handled(d, Front(d.rest))
    OBVIOUS
  <2>3. IsDb(h)
    BY <2>1, <2>2, HandledFacts
  <2>4. r = [h EXCEPT !.rest = <<>>]
    BY <1>3, <1>5, <2>2
  <2>5. /\ IsDb(r) /\ r.rest = <<>>
        /\ r.usage = h.usage /\ r.text = h.text /\ r.out = h.out
    BY <1>1, <2>3, <2>4 DEF IsDb
  <2> QED  BY <1>1, <1>5, <2>1, <2>2, <2>5 DEF Stepped
<1> QED  BY <1>4, <1>5

LEMMA LastOfJoin ==
  ASSUME NEW s \in Seq(Symbols), NEW t \in Seq(Symbols), t # <<>>
  PROVE  s \o t # <<>> /\ (s \o t)[Len(s \o t)] = t[Len(t)]
<1>1. Len(s) \in Nat /\ Len(t) \in Nat \ {0} /\ Len(s \o t) = Len(s) + Len(t)
  OBVIOUS
<1>2. \A i \in 1..Len(t) : (s \o t)[Len(s) + i] = t[i]
  OBVIOUS
<1>3. Len(t) \in 1..Len(t)
  BY <1>1
<1>4. (s \o t)[Len(s) + Len(t)] = t[Len(t)]
  BY <1>2, <1>3
<1>5. s \o t # <<>>
  BY <1>1
<1> QED  BY <1>1, <1>4, <1>5

LEMMA JoinNone ==
  ASSUME NEW s \in Seq(Symbols)
  PROVE  s \o <<>> = s
OBVIOUS

LEMMA TailBegins ==
  ASSUME mode \in {"api", "chat"}, NEW a \in Seq(Payloads), NEW d, IsDb(d),
         NEW whole \in BOOLEAN, whole => Exact(a, Len(a), "start", d),
         mode = "api" => Sent(a, Len(a), "start", d),
         NEW r, r = Step(d, "metrics", FALSE)
  PROVE  IsDb(r) /\ Behind(a, 1, r, whole)
<1>1. "metrics" \in Symbols /\ "metrics" # LF
  BY SymbolFacts
<1>2. /\ IsDb(r) /\ r.rest = Append(d.rest, "metrics")
      /\ r.usage = d.usage /\ r.text = d.text /\ r.out = d.out
  <2>1. Stepped(d, "metrics", d.rest, r)
    BY <1>1, StepOn, Zenon
  <2> QED  BY <1>1, <2>1 DEF Stepped
<1>3. whole => Noted(a, Len(a), d) /\ d.rest = <<>>
  BY DEF Exact, Held
<1>4. whole => Noted(a, Len(a), r)
  BY <1>2, <1>3 DEF Noted
<1>5. ASSUME mode = "api"
      PROVE  /\ Served(a, d.out) /\ (whole => Data(d.out) = a)
             /\ d.rest \in Seq(Plain) /\ (d.rest = <<>> \/ Last(d.rest) = LF)
  <2>1. /\ d.rest \in Seq(Plain) /\ Served(a, d.out)
        /\ Shape(a, Len(a), Flow(d), "start")
    BY <1>5 DEF Sent
  <2>2. d.out \in Seq(Symbols) /\ d.rest \in Seq(Symbols)
    BY DEF IsDb
  <2>3. d.rest # <<>> => Last(d.rest) = LF
    <3>1. SUFFICES ASSUME d.rest # <<>> PROVE Last(d.rest) = LF
      OBVIOUS
    <3>2. Flow(d) # <<>> /\ Flow(d)[Len(Flow(d))] = Last(d.rest)
      BY <2>2, <3>1, LastOfJoin DEF Flow, Last
    <3>3. Blank(Flow(d))
      BY <2>1, <3>2 DEF Shape, Ending
    <3> QED  BY <3>2, <3>3 DEF Blank
  <2>4. ASSUME whole PROVE Data(d.out) = a
    <3>1. Flow(d) = d.out
      <4>1. d.out \o <<>> = d.out
        BY <2>2, JoinNone
      <4> QED  BY <1>3, <2>4, <4>1, Zenon DEF Flow
    <3>2. Data(Flow(d)) = SubSeq(a, 1, Len(a))
      BY <2>1 DEF Shape
    <3>3. SubSeq(a, 1, Len(a)) = a
      OBVIOUS
    <3> QED  BY <3>1, <3>2, <3>3
  <2> QED  BY <2>1, <2>3, <2>4
<1>6. mode = "api" => Served(a, r.out) /\ (whole => Data(r.out) = a)
  BY <1>2, <1>5
<1>7. mode = "api" \/ whole => OwnLine(d.rest, whole) /\ r.rest = Own(1, d.rest)
  <2>1. r.rest = Own(1, d.rest)
    BY <1>2, OwnIs
  <2>2. <<>> \in Seq(Plain)
    OBVIOUS
  <2>3. whole => OwnLine(d.rest, whole)
    BY <1>3, <2>2, Zenon DEF OwnLine
  <2>4. mode = "api" => OwnLine(d.rest, whole)
    BY <1>3, <1>5 DEF OwnLine
  <2> QED  BY <2>1, <2>3, <2>4
<1> QED  BY <1>2, <1>4, <1>6, <1>7 DEF Behind

LEMMA ConsumedEvent ==
  ASSUME NEW q \in Seq(Plain), q = <<>> \/ Last(q) = LF, WantsMetrics
  PROVE  Consumed(Append(q, "metrics"))
<1> DEFINE e == Append(q, "metrics")
           n == Len(q) + 1
<1>1. n \in DOMAIN e /\ e[n] = "metrics"
  OBVIOUS
<1>2. n = 1 \/ e[n - 1] = LF
  BY DEF Last
<1> QED  BY <1>1, <1>2 DEF Consumed, NamesMetrics

LEMMA TailGoes ==
  ASSUME mode \in {"api", "chat"}, WantsMetrics, NEW a \in Seq(Payloads),
         NEW d, IsDb(d), NEW whole \in BOOLEAN, NEW m \in {1, 2},
         Behind(a, m, d, whole), NEW r, r = Step(d, LF, FALSE)
  PROVE  IsDb(r) /\ Behind(a, m + 1, r, whole)
<1>1. LF \in Symbols /\ "metrics" # LF /\ "metrics" \in Symbols
  BY SymbolFacts
<1>2. /\ IsDb(r)
      /\ \/ /\ ~ (d.rest # <<>> /\ Last(d.rest) = LF)
            /\ r.rest = Append(d.rest, LF)
            /\ r.usage = d.usage /\ r.text = d.text /\ r.out = d.out
         \/ /\ d.rest # <<>> /\ Last(d.rest) = LF
            /\ Front(d.rest) \in Seq(Symbols) /\ r.rest = <<>>
            /\ r.usage = Handled(d, Front(d.rest)).usage
            /\ r.text = Handled(d, Front(d.rest)).text
            /\ r.out = Handled(d, Front(d.rest)).out
  <2>1. Stepped(d, LF, d.rest, r)
    BY <1>1, StepOn, Zenon
  <2> QED  BY <2>1 DEF Stepped
<1>3. CASE ~ (mode = "api" \/ whole)
  BY <1>2, <1>3 DEF Behind
<1>4. CASE mode = "api" \/ whole
  <2>1. PICK q : OwnLine(q, whole) /\ d.rest = Own(m, q)
    BY <1>4 DEF Behind
  <2>2. q \in Seq(Plain) /\ (q = <<>> \/ Last(q) = LF) /\ (whole => q = <<>>)
    BY <2>1 DEF OwnLine
  <2> DEFINE e == Append(q, "metrics")
  <2>3. q \in Seq(Symbols)
    BY <2>2, SymbolFacts
  <2>4. e \in Seq(Symbols) /\ e # <<>> /\ Last(e) = "metrics"
    BY <1>1, <2>3, LastAppend
  <2>5. Consumed(e)
    BY <2>2, ConsumedEvent
  <2>6. whole => e = <<"metrics">>
    <3>1. Append(<<>>, "metrics") = <<"metrics">>
      OBVIOUS
    <3> QED  BY <2>2, <3>1, Zenon
  <2> HIDE DEF e
  <2>7. CASE m = 1
    <3>1. d.rest = e
      BY <2>1, <2>7, OwnIs DEF e
    <3>2. /\ r.rest = Append(e, LF)
          /\ r.usage = d.usage /\ r.text = d.text /\ r.out = d.out
      BY <1>1, <1>2, <2>4, <3>1
    <3>3. whole => Noted(a, Len(a), r)
      BY <3>2 DEF Behind, Noted
    <3>4. mode = "api" => Served(a, r.out) /\ (whole => Data(r.out) = a)
      BY <3>2 DEF Behind
    <3>5. r.rest = Own(m + 1, q)
      <4>1. m + 1 = 2
        BY <2>7
      <4> QED  BY <3>2, <4>1, OwnIs DEF e
    <3> QED  BY <1>2, <2>1, <3>3, <3>4, <3>5 DEF Behind
  <2>8. CASE m = 2
    <3>1. d.rest = Append(e, LF)
      BY <2>1, <2>8, OwnIs DEF e
    <3>2. d.rest # <<>> /\ Last(d.rest) = LF
      BY <1>1, <2>4, <3>1, LastAppend
    <3>3. Front(d.rest) = e
      <4>1. Front(Append(e, LF)) = e
        BY <1>1, <2>4, FrontAppend
      <4> QED  BY <3>1, <4>1, Zenon
    <3>4. PICK h : h = Handled(d, e)
      OBVIOUS
    <3>5. r.rest = <<>> /\ r.usage = h.usage /\ r.text = h.text /\ r.out = h.out
      BY <1>2, <3>2, <3>3, <3>4
    <3>6. (d.usage => h.usage) /\ (mode = "api" => h.out = d.out)
      BY <2>4, <2>5, <3>4, HandledFacts
    <3>7. ASSUME whole, mode = "chat" PROVE h.text = d.text
      <4>1. e \in {<<"metrics">>, <<"metrics", LF>>}
        BY <2>6, <3>7
      <4>2. Data(e) = <<"metrics">> /\ ~ Is(e, "done")
        <5>1. "metrics" \in Payloads \cup {"metrics"} /\ "metrics" # "done"
          OBVIOUS
        <5> QED  BY <4>1, <5>1, OneLine
      <4>3. Data(e) # <<>>
        BY <4>2
      <4>4. h = SetReported(d, e)
        BY <2>5, <3>4, <3>7, <4>2, <4>3 DEF Handled, Read
      <4> QED  BY <4>4 DEF SetReported, IsDb
    <3>8. whole => Noted(a, Len(a), r)
      BY <3>5, <3>6, <3>7 DEF Behind, Noted
    <3>9. mode = "api" => Served(a, r.out) /\ (whole => Data(r.out) = a)
      BY <3>5, <3>6 DEF Behind
    <3>10. r.rest = Own(m + 1, q)
      <4>1. m + 1 = 3
        BY <2>8
      <4> QED  BY <3>5, <4>1, OwnIs
    <3> QED  BY <1>2, <2>1, <3>8, <3>9, <3>10 DEF Behind
  <2> QED  BY <2>7, <2>8
<1> QED  BY <1>3, <1>4

-----------------------------------------------------------------------------
(* What the dashboard has after t symbols, however they were cut.          *)

\* The t-th symbol of the pipe, and how many there are.
Sym(a, e, close, t) ==
  IF t <= Size(a, e, close) THEN Written(a, e, close)[t]
  ELSE IF t = Size(a, e, close) + 1 THEN "metrics" ELSE LF

Total(a, e, close) == Size(a, e, close) + (IF WantsMetrics THEN 3 ELSE 0)

\* whole: no read ended between a CR and its LF.
Within(a, e, t, d, whole) ==
  \E k \in 0..Len(a), place \in Places :
    /\ At(e, t, k, place)
    /\ whole => Exact(a, k, place, d)
    /\ mode = "api" => Sent(a, k, place, d)

Rel(a, e, close, t, d, whole) ==
  /\ IsDb(d)
  /\ \/ t \in 0..Size(a, e, close) /\ Within(a, e, t, d, whole)
     \/ /\ WantsMetrics
        /\ \E m \in {1, 2, 3} : t = Size(a, e, close) + m /\ Behind(a, m, d, whole)

LEMMA RelWeaker ==
  ASSUME NEW a, NEW e, NEW close, NEW t, NEW d, NEW whole, NEW less,
         Rel(a, e, close, t, d, whole), less => whole
  PROVE  Rel(a, e, close, t, d, less)
<1>1. Within(a, e, t, d, whole) => Within(a, e, t, d, less)
  BY DEF Within
<1>2. \A m : Behind(a, m, d, whole) => Behind(a, m, d, less)
  BY DEF Behind, OwnLine
<1> QED  BY <1>1, <1>2 DEF Rel

LEMMA SymFacts ==
  ASSUME NEW a \in Seq(Payloads), a # <<>>, NEW e \in Eols, NEW close \in Ends,
         NEW t \in Nat \ {0}
  PROVE  Sym(a, e, close, t) \in Symbols
<1>1. Size(a, e, close) \in Nat \ {0} /\ Len(a) \in Nat
  BY WrittenFacts
<1>2. CASE t > Size(a, e, close)
  BY <1>1, <1>2, SymbolFacts DEF Sym
<1>3. CASE t <= Size(a, e, close)
  <2>1. t \in 1..Size(a, e, close) /\ Sym(a, e, close, t) = Written(a, e, close)[t]
    BY <1>1, <1>3 DEF Sym
  <2>2. Written(a, e, close)[t] =
          IF e = <<LF>>
          THEN IF (t - 1) % 3 = 0 THEN a[((t - 1) \div 3) + 1] ELSE LF
          ELSE IF (t - 1) % 5 = 0 THEN a[((t - 1) \div 5) + 1]
               ELSE IF (t - 1) % 5 \in {1, 3} THEN CR ELSE LF
    BY <2>1, WrittenFacts
  <2>3. CASE e = <<LF>>
    <3>1. t <= 3 * Len(a)
      BY <1>1, <2>1, <2>3 DEF Size, Ends
    <3>2. (t - 1) \div 3 + 1 \in 1..Len(a)
      BY <1>1, <3>1
    <3> QED  BY <2>1, <2>2, <2>3, <3>2, SymbolFacts
  <2>4. CASE e = <<CR, LF>>
    <3>1. e # <<LF>>
      BY <2>4
    <3>2. t <= 5 * Len(a)
      <4>1. Size(a, e, close) =
              5 * Len(a) - (CASE close = "event" -> 0 [] close = "line" -> 2
                              [] OTHER -> 4)
        BY <3>1, Zenon DEF Size
      <4> QED  BY <1>1, <2>1, <4>1 DEF Ends
    <3>3. (t - 1) \div 5 + 1 \in 1..Len(a)
      BY <1>1, <3>2
    <3> QED  BY <2>1, <2>2, <3>1, <3>3, SymbolFacts
  <2> QED  BY <2>3, <2>4 DEF Eols
<1> QED  BY <1>1, <1>2, <1>3

\* One more symbol of the model server.
LEMMA WithinStep ==
  ASSUME mode \in {"api", "chat"}, NEW a \in Seq(Payloads), a # <<>>,
         NEW e \in Eols, NEW close \in Ends, NEW t \in Nat,
         t < Size(a, e, close), NEW whole \in BOOLEAN,
         NEW d, IsDb(d), Within(a, e, t, d, whole),
         NEW c, c = Written(a, e, close)[t + 1], NEW b \in BOOLEAN,
         b => t > 0 /\ Written(a, e, close)[t] = CR,
         whole /\ ~ b => t = 0 \/ Written(a, e, close)[t] # CR,
         NEW r, r = Step(d, c, b)
  PROVE  IsDb(r) /\ Within(a, e, t + 1, r, whole)
<1>1. PICK k \in 0..Len(a), from \in Places :
        /\ At(e, t, k, from)
        /\ whole => Exact(a, k, from, d)
        /\ mode = "api" => Sent(a, k, from, d)
  BY DEF Within
<1>2. k < Len(a) /\ (from = "start" => c = a[k + 1])
  BY <1>1, Advance
<1>3. PICK to \in Places :
        Moves(from, c, to) /\ At(e, t + 1, IF to = "start" THEN k + 1 ELSE k, to)
  BY <1>1, Advance
<1>4. Size(a, e, close) \in Nat
  BY WrittenFacts
<1>5. (t > 0 /\ Written(a, e, close)[t] = CR) <=> from \in {"cr1", "cr2"}
  <2>1. CASE t > 0
    <3>1. t \in 1..Size(a, e, close)
      BY <1>4, <2>1
    <3> QED  BY <1>1, <2>1, <3>1, LastCR
  <2>2. CASE t = 0
    BY <1>1, <2>2 DEF At
  <2> QED  BY <2>1, <2>2
<1>6. IsDb(r)
  <2>1. c \in Symbols
    BY <1>3, SymbolFacts DEF Moves
  <2>2. PICK rest : rest = IF c = LF /\ b THEN Front(d.rest) ELSE d.rest
    OBVIOUS
  <2>3. Stepped(d, c, rest, r)
    BY <2>1, <2>2, StepFacts, Zenon
  <2> QED  BY <2>3 DEF Stepped
<1>7. b => from \in {"cr1", "cr2"}
  BY <1>5
<1> DEFINE j == IF to = "start" THEN k + 1 ELSE k
<1>8. whole => Exact(a, j, to, r)
  <2>1. SUFFICES ASSUME whole PROVE Exact(a, j, to, r)
    OBVIOUS
  <2>2. b <=> from \in {"cr1", "cr2"}
    BY <1>5, <2>1
  <2>3. Exact(a, k, from, d)
    BY <1>1, <2>1
  <2> QED  BY <1>2, <1>3, <2>2, <2>3, ExactStep
<1>9. mode = "api" => Sent(a, j, to, r)
  <2>1. SUFFICES ASSUME mode = "api" PROVE Sent(a, j, to, r)
    OBVIOUS
  <2>2. Sent(a, k, from, d)
    BY <1>1, <2>1
  <2> QED  BY <1>2, <1>3, <1>7, <2>1, <2>2, SentAgain
<1>10. j \in 0..Len(a)
  BY <1>2
<1> HIDE DEF j
<1>11. At(e, t + 1, j, to)
  BY <1>3 DEF j
<1> QED  BY <1>6, <1>8, <1>9, <1>10, <1>11 DEF Within

\* One more symbol of the pipe.
LEMMA RelStep ==
  ASSUME mode \in {"api", "chat"}, NEW a \in Seq(Payloads), a # <<>>,
         NEW e \in Eols, NEW close \in Ends, close = "event" \/ ~ WantsMetrics,
         NEW t \in Nat, t < Total(a, e, close), NEW whole \in BOOLEAN,
         NEW d, Rel(a, e, close, t, d, whole),
         NEW c, c = Sym(a, e, close, t + 1), NEW b \in BOOLEAN,
         b => t > 0 /\ Sym(a, e, close, t) = CR,
         whole /\ ~ b => t = 0 \/ Sym(a, e, close, t) # CR,
         NEW r, r = Step(d, c, b)
  PROVE  Rel(a, e, close, t + 1, r, whole)
<1>1. Size(a, e, close) \in Nat \ {0} /\ IsDb(d)
  BY WrittenFacts DEF Rel
<1> DEFINE z == Size(a, e, close)
<1>2. CASE t < z
  <2>1. Within(a, e, t, d, whole)
    BY <1>1, <1>2 DEF Rel
  <2>2. Sym(a, e, close, t + 1) = Written(a, e, close)[t + 1]
    BY <1>1, <1>2 DEF Sym
  <2>3. Sym(a, e, close, t) = Written(a, e, close)[t]
    BY <1>1, <1>2 DEF Sym
  <2>4. IsDb(r) /\ Within(a, e, t + 1, r, whole)
    BY <1>1, <1>2, <2>1, <2>2, <2>3, WithinStep
  <2>5. t + 1 \in 0..z
    BY <1>1, <1>2
  <2> QED  BY <2>4, <2>5 DEF Rel
<1>3. CASE t >= z
  <2>1. WantsMetrics /\ close = "event" /\ t \in {z, z + 1, z + 2}
    BY <1>1, <1>3 DEF Total
  <2>2. "metrics" # CR /\ LF # CR /\ "metrics" # LF
    BY SymbolFacts
  <2>3. CASE t = z
    <3>1. Within(a, e, z, d, whole)
      BY <1>1, <2>3 DEF Rel
    <3>2. PICK k \in 0..Len(a), place \in Places :
            /\ At(e, z, k, place)
            /\ whole => Exact(a, k, place, d)
            /\ mode = "api" => Sent(a, k, place, d)
      BY <3>1 DEF Within
    <3>3. place = "start" /\ k = Len(a)
      BY <2>1, <3>2, AtEnd
    <3>4. z \in 1..z
      BY <1>1
    <3>5. Written(a, e, close)[z] # CR
      BY <3>2, <3>3, <3>4, LastCR
    <3>6. Sym(a, e, close, t) # CR
      BY <1>1, <2>3, <3>5 DEF Sym
    <3>7. c = "metrics"
      BY <1>1, <2>3 DEF Sym
    <3>8. r = Step(d, "metrics", FALSE)
      BY <3>6, <3>7
    <3>9. whole => Exact(a, Len(a), "start", d)
      BY <3>2, <3>3
    <3>10. mode = "api" => Sent(a, Len(a), "start", d)
      BY <3>2, <3>3
    <3>11. IsDb(r) /\ Behind(a, 1, r, whole)
      BY <1>1, <3>8, <3>9, <3>10, TailBegins
    <3> QED  BY <2>1, <2>3, <3>11 DEF Rel
  <2>4. CASE t \in {z + 1, z + 2}
    <3>1. PICK m \in {1, 2} : t = z + m /\ Behind(a, m, d, whole)
      BY <1>1, <2>4 DEF Rel
    <3>2. Sym(a, e, close, t) # CR
      BY <1>1, <2>2, <2>4 DEF Sym
    <3>3. c = LF
      BY <1>1, <2>4 DEF Sym
    <3>4. r = Step(d, LF, FALSE)
      BY <3>2, <3>3
    <3>5. IsDb(r) /\ Behind(a, m + 1, r, whole)
      BY <1>1, <2>1, <3>1, <3>4, TailGoes
    <3>6. t + 1 = z + (m + 1) /\ m + 1 \in {1, 2, 3}
      BY <1>1, <3>1
    <3> QED  BY <2>1, <3>5, <3>6 DEF Rel
  <2> QED  BY <2>1, <2>3, <2>4
<1> QED  BY <1>1, <1>2, <1>3

\* The pipe and how far the dashboard has read it.
Piped(a, e, close, s) ==
  /\ s \in Seq(Symbols) /\ Len(s) <= Total(a, e, close)
  /\ \A t \in 1..Len(s) : s[t] = Sym(a, e, close, t)

\* A whole read.
LEMMA RelReads ==
  ASSUME mode \in {"api", "chat"}, NEW a \in Seq(Payloads), a # <<>>,
         NEW e \in Eols, NEW close \in Ends, close = "event" \/ ~ WantsMetrics,
         NEW s, Piped(a, e, close, s), NEW t \in Nat, NEW n \in Nat \ {0},
         t + n <= Len(s), NEW whole \in BOOLEAN,
         whole => t = 0 \/ s[t] # CR,
         NEW d, Rel(a, e, close, t, d, whole),
         NEW r, r = TookAll(d, SubSeq(s, t + 1, t + n), Handled)
  PROVE  Rel(a, e, close, t + n, r, whole)
<1> DEFINE chunk == SubSeq(s, t + 1, t + n)
<1>1. s \in Seq(Symbols) /\ Len(s) \in Nat
  BY DEF Piped
<1>2. Len(chunk) = n /\ \A i \in 1..n : chunk[i] = s[t + i]
  <2>1. /\ t + 1 \in Nat /\ t + n \in Nat /\ t + 1 >= 1 /\ t + n <= Len(s)
        /\ (t + n) - (t + 1) + 1 = n
    BY <1>1
  <2>2. Len(chunk) = n
    BY <1>1, <2>1
  <2>3. ASSUME NEW i \in 1..n PROVE chunk[i] = s[t + i]
    <3>1. (t + 1) + i - 1 = t + i
      OBVIOUS
    <3>2. chunk[i] = s[(t + 1) + i - 1]
      BY <1>1, <2>1
    <3> QED  BY <3>1, <3>2
  <2> QED  BY <2>2, <2>3
<1> HIDE DEF chunk
<1>3. PICK g : /\ g[0] = d
               /\ \A i \in 1..n : g[i] = Next1(g[i - 1], chunk, i)
               /\ r = g[n]
  <2>1. PICK g : /\ g[0] = d
                 /\ \A i \in 1..Len(chunk) : g[i] = Next1(g[i - 1], chunk, i)
                 /\ TookAll(d, chunk, Handled) = g[Len(chunk)]
    BY <1>2, TookAllDefined
  <2> QED  BY <1>2, <2>1 DEF chunk
<1> DEFINE S == {i \in 0..n : Rel(a, e, close, t + i, g[i], whole)}
<1>4. 0 \in S
  BY <1>3
<1>5. ASSUME NEW i \in 1..n, i - 1 \in S PROVE i \in S
  <2> DEFINE u == t + (i - 1)
             b == i > 1 /\ chunk[i - 1] = CR
             c == s[u + 1]
  <2>1. /\ u \in Nat /\ u + 1 = t + i /\ u + 1 \in 1..Len(s)
        /\ i > 1 => u \in 1..Len(s) /\ i - 1 \in 1..n /\ t + (i - 1) = u
        /\ i = 1 => u = t
    BY <1>1
  <2>2. Rel(a, e, close, u, g[i - 1], whole)
    BY <1>5
  <2>3. u < Total(a, e, close)
    <3>1. Size(a, e, close) \in Nat
      BY WrittenFacts
    <3>2. Total(a, e, close) \in Nat
      BY <3>1 DEF Total
    <3> QED  BY <1>1, <2>1, <3>2 DEF Piped
  <2>4. c = Sym(a, e, close, u + 1)
    BY <2>1 DEF Piped
  <2>5. b => u > 0 /\ Sym(a, e, close, u) = CR
    <3>1. SUFFICES ASSUME b PROVE u > 0 /\ Sym(a, e, close, u) = CR
      OBVIOUS
    <3>2. s[u] = CR /\ u \in 1..Len(s)
      BY <1>2, <2>1, <3>1
    <3> QED  BY <3>2 DEF Piped
  <2>6. whole /\ ~ b => u = 0 \/ Sym(a, e, close, u) # CR
    <3>1. SUFFICES ASSUME whole, ~ b, u # 0 PROVE Sym(a, e, close, u) # CR
      OBVIOUS
    <3>2. u \in 1..Len(s) /\ s[u] # CR
      <4>1. CASE i = 1
        BY <2>1, <3>1, <4>1
      <4>2. CASE i > 1
        BY <1>2, <2>1, <3>1, <4>2
      <4> QED  BY <4>1, <4>2
    <3> QED  BY <3>2 DEF Piped
  <2>7. g[i] = Step(g[i - 1], c, b)
    BY <1>2, <1>3, <2>1 DEF Next1
  <2>8. b \in BOOLEAN
    OBVIOUS
  <2> HIDE DEF b, c, u
  <2>9. Rel(a, e, close, u + 1, g[i], whole)
    BY <2>1, <2>2, <2>3, <2>4, <2>5, <2>6, <2>7, <2>8, RelStep
  <2> QED  BY <2>1, <2>9
<1>6. \A i \in 0..n : i \in S
  <2> HIDE DEF S
  <2> QED  BY <1>4, <1>5, UpTo
<1>7. n \in S
  BY <1>6
<1> QED  BY <1>3, <1>7

-----------------------------------------------------------------------------
(* What follows for the client and for the record.                         *)

LEMMA FirstPart ==
  ASSUME NEW X, NEW a \in Seq(X), NEW n \in 0..Len(a)
  PROVE  IsPrefix(SubSeq(a, 1, n), a)
<1>1. SubSeq(a, 1, n) \in Seq(X) /\ Len(SubSeq(a, 1, n)) = n
  OBVIOUS
<1>2. SubSeq(SubSeq(a, 1, n), 1, n) = SubSeq(a, 1, n)
  BY <1>1
<1> QED  BY <1>1, <1>2 DEF IsPrefix

LEMMA ServedPrefix ==
  ASSUME NEW a \in Seq(Payloads), NEW o, Served(a, o)
  PROVE  IsPrefix(Data(o), a) /\ Separated(o)
BY FirstPart DEF Served

LEMMA RelServed ==
  ASSUME mode = "api", NEW a, NEW e, NEW close, NEW t, NEW d, NEW whole,
         Rel(a, e, close, t, d, whole)
  PROVE  Served(a, d.out)
BY DEF Rel, Within, Sent, Behind

LEMMA RelNoted ==
  ASSUME NEW a \in Seq(Payloads), NEW e, NEW close, NEW t, NEW d,
         Rel(a, e, close, t, d, TRUE)
  PROVE  \E k \in 0..Len(a) : Noted(a, k, d)
<1>1. Len(a) \in 0..Len(a)
  OBVIOUS
<1> QED  BY <1>1 DEF Rel, Within, Exact, Behind

\* At the end of the stream.
LEMMA RelEnd ==
  ASSUME mode \in {"api", "chat"}, NEW a \in Seq(Payloads), a # <<>>,
         NEW e \in Eols, NEW close \in Ends, close = "event" \/ ~ WantsMetrics,
         NEW whole \in BOOLEAN,
         NEW d, Rel(a, e, close, Total(a, e, close), d, whole)
  PROVE  \/ /\ WantsMetrics /\ close = "event" /\ Behind(a, 3, d, whole)
         \/ /\ ~ WantsMetrics
            /\ \E k \in 0..Len(a), place \in Places :
                 /\ whole => Exact(a, k, place, d)
                 /\ mode = "api" => Sent(a, k, place, d)
                 /\ \/ close = "event" /\ place = "start" /\ k = Len(a)
                    \/ close = "line" /\ place = "line" /\ k = Len(a) - 1
                    \/ close = "open" /\ place = "payload" /\ k = Len(a) - 1
<1>1. Size(a, e, close) \in Nat
  BY WrittenFacts
<1>2. CASE WantsMetrics
  <2>1. Total(a, e, close) = Size(a, e, close) + 3
    BY <1>2 DEF Total
  <2>2. PICK m \in {1, 2, 3} :
          Size(a, e, close) + 3 = Size(a, e, close) + m /\ Behind(a, m, d, whole)
    BY <1>1, <2>1 DEF Rel
  <2>3. m = 3
    BY <1>1, <2>2
  <2> QED  BY <1>2, <2>2, <2>3
<1>3. CASE ~ WantsMetrics
  <2>1. Total(a, e, close) = Size(a, e, close)
    BY <1>1, <1>3 DEF Total
  <2>2. Within(a, e, Size(a, e, close), d, whole)
    BY <1>3, <2>1 DEF Rel
  <2>3. PICK k \in 0..Len(a), place \in Places :
          /\ At(e, Size(a, e, close), k, place)
          /\ whole => Exact(a, k, place, d)
          /\ mode = "api" => Sent(a, k, place, d)
    BY <2>2 DEF Within
  <2>4. \/ close = "event" /\ place = "start" /\ k = Len(a)
        \/ close = "line" /\ place = "line" /\ k = Len(a) - 1
        \/ close = "open" /\ place = "payload" /\ k = Len(a) - 1
    BY <2>3, AtEnd
  <2> QED  BY <1>3, <2>3, <2>4
<1> QED  BY <1>2, <1>3

\* An API client has everything.
LEMMA EndServed ==
  ASSUME mode = "api", NEW a \in Seq(Payloads), a # <<>>,
         NEW e \in Eols, NEW close \in Ends, close = "event" \/ ~ WantsMetrics,
         NEW whole \in BOOLEAN,
         NEW d, Rel(a, e, close, Total(a, e, close), d, whole)
  PROVE  /\ Served(a, Flow(d))
         /\ whole \/ ~ WantsMetrics => Data(Flow(d)) = a
<1>1. IsDb(d) /\ d.out \in Seq(Symbols)
  BY DEF Rel, IsDb
<1>2. CASE WantsMetrics /\ Behind(a, 3, d, whole)
  <2>1. Served(a, d.out) /\ (whole => Data(d.out) = a)
    BY <1>2 DEF Behind
  <2>2. d.rest = <<>>
    BY <1>2, OwnIs DEF Behind
  <2>3. Flow(d) = d.out
    <3>1. d.out \o <<>> = d.out
      BY <1>1, JoinNone
    <3> QED  BY <2>2, <3>1, Zenon DEF Flow
  <2> QED  BY <1>2, <2>1, <2>3
<1>3. CASE \E k \in 0..Len(a), place \in Places :
             /\ Sent(a, k, place, d)
             /\ \/ place = "start" /\ k = Len(a)
                \/ place # "start" /\ k = Len(a) - 1
  <2>1. PICK k \in 0..Len(a), place \in Places :
               /\ Sent(a, k, place, d)
               /\ \/ place = "start" /\ k = Len(a)
                  \/ place # "start" /\ k = Len(a) - 1
    BY <1>3
  <2>2. (IF place = "start" THEN k ELSE k + 1) = Len(a)
    BY <2>1
  <2>3. Shape(a, Len(a), Flow(d), place)
    BY <2>1, <2>2 DEF Sent
  <2>4. SubSeq(a, 1, Len(a)) = a /\ Len(a) \in 0..Len(a)
    OBVIOUS
  <2> QED  BY <2>3, <2>4 DEF Shape, Served
<1> QED  BY <1>2, <1>3, RelEnd

LEMMA ReadLine ==
  ASSUME NEW p \in Payloads, NEW d, IsDb(d), NEW e \in {<<p>>, <<p, LF>>}
  PROVE  Read(d, e).text = IF p = "delta" THEN Append(d.text, "delta") ELSE d.text
<1>1. /\ Data(e) = <<p>> /\ (Is(e, "done") <=> p = "done")
      /\ (Parses(e, "usage") <=> p = "usage")
      /\ (Parses(e, "delta") <=> p = "delta")
  <2>1. p \in Payloads \cup {"metrics"}
    OBVIOUS
  <2> QED  BY <2>1, OneLine
<1>2. Data(e) # <<>>
  BY <1>1
<1>3. ~ Consumed(e)
  <2>1. p \in Plain /\ LF \in Plain
    BY SymbolFacts
  <2>2. <<p>> \in Seq(Plain) /\ <<p, LF>> \in Seq(Plain)
    BY <2>1
  <2>3. e \in Seq(Plain)
    BY <2>2
  <2> QED  BY <2>3, PlainEvent
<1>4. PICK x : x = Seen(d, e)
  OBVIOUS
<1>5. x.text = d.text /\ DOMAIN x = DOMAIN d
  BY <1>4 DEF Seen, IsDb
<1>6. Read(d, e) = IF p = "done" THEN d
                   ELSE IF p = "delta" THEN [x EXCEPT !.text = Append(@, "delta")]
                   ELSE x
  BY <1>1, <1>2, <1>3, <1>4 DEF Read, Payloads
<1>7. [x EXCEPT !.text = Append(@, "delta")].text = Append(d.text, "delta")
  BY <1>5 DEF IsDb
<1> QED  BY <1>5, <1>6, <1>7

\* The text of a chat is complete once its rest has been read.
LEMMA EndNoted ==
  ASSUME mode \in {"api", "chat"}, NEW a \in Seq(Payloads), a # <<>>,
         NEW e \in Eols, NEW close \in Ends, close = "event" \/ ~ WantsMetrics,
         NEW d, Rel(a, e, close, Total(a, e, close), d, TRUE)
  PROVE  /\ close = "event" => Noted(a, Len(a), d) /\ d.rest = <<>>
         /\ mode = "chat" => Read(d, d.rest).text = Only(a, {"delta"})
<1>1. IsDb(d)
  BY DEF Rel
<1>2. \/ Noted(a, Len(a), d) /\ d.rest = <<>>
      \/ \E k \in 0..Len(a), place \in {"payload", "line"} :
           close # "event" /\ k = Len(a) - 1 /\ Exact(a, k, place, d)
  <2>1. CASE Behind(a, 3, d, TRUE)
    BY <2>1, OwnIs DEF Behind
  <2>2. ASSUME NEW k \in 0..Len(a), NEW place \in Places, Exact(a, k, place, d),
               \/ close = "event" /\ place = "start" /\ k = Len(a)
               \/ close = "line" /\ place = "line" /\ k = Len(a) - 1
               \/ close = "open" /\ place = "payload" /\ k = Len(a) - 1
        PROVE  \/ Noted(a, Len(a), d) /\ d.rest = <<>>
               \/ /\ close # "event" /\ k = Len(a) - 1
                  /\ place \in {"payload", "line"}
    <3>1. CASE close = "event" /\ place = "start" /\ k = Len(a)
      BY <2>2, <3>1 DEF Exact, Held
    <3>2. CASE close \in {"line", "open"} /\ place \in {"payload", "line"}
               /\ k = Len(a) - 1
      BY <3>2
    <3> QED  BY <2>2, <3>1, <3>2
  <2>3. \/ Behind(a, 3, d, TRUE)
        \/ \E k \in 0..Len(a), place \in Places :
             /\ Exact(a, k, place, d)
             /\ \/ close = "event" /\ place = "start" /\ k = Len(a)
                \/ close = "line" /\ place = "line" /\ k = Len(a) - 1
                \/ close = "open" /\ place = "payload" /\ k = Len(a) - 1
    <3>1. PICK whole \in BOOLEAN : whole = TRUE
      OBVIOUS
    <3>2. Rel(a, e, close, Total(a, e, close), d, whole)
      BY <3>1
    <3>3. \/ Behind(a, 3, d, whole)
          \/ \E k \in 0..Len(a), place \in Places :
               /\ whole => Exact(a, k, place, d)
               /\ \/ close = "event" /\ place = "start" /\ k = Len(a)
                  \/ close = "line" /\ place = "line" /\ k = Len(a) - 1
                  \/ close = "open" /\ place = "payload" /\ k = Len(a) - 1
      BY <3>2, RelEnd
    <3> QED  BY <3>1, <3>3
  <2> QED  BY <2>1, <2>2, <2>3
<1>3. SubSeq(a, 1, Len(a)) = a
  OBVIOUS
<1>4. CASE Noted(a, Len(a), d) /\ d.rest = <<>>
  <2>1. Data(<<>>) = <<>>
    BY OnlyEmpty DEF Data
  <2>2. Read(d, d.rest) = d
    BY <1>4, <2>1 DEF Read
  <2> QED  BY <1>3, <1>4, <2>2 DEF Noted
<1>5. ASSUME NEW k \in 0..Len(a), NEW place \in {"payload", "line"},
             close # "event", k = Len(a) - 1, Exact(a, k, place, d), mode = "chat"
      PROVE  Read(d, d.rest).text = Only(a, {"delta"})
  <2> DEFINE p == a[k + 1]
  <2>1. p \in Payloads /\ k + 1 = Len(a)
    BY <1>5
  <2>2. d.rest \in {<<p>>, <<p, LF>>} /\ d.text = Only(SubSeq(a, 1, k), {"delta"})
    BY <1>5 DEF Exact, Held, Noted
  <2>3. Read(d, d.rest) = Handled(d, d.rest)
    BY <1>5 DEF Handled
  <2>4. a = Append(SubSeq(a, 1, k), p) /\ SubSeq(a, 1, k) \in Seq(Payloads)
    BY <2>1
  <2> HIDE DEF p
  <2>5. Read(d, d.rest).text = IF p = "delta" THEN Append(d.text, "delta") ELSE d.text
    BY <1>1, <1>5, <2>1, <2>2, ReadLine
  <2>6. Only(Append(SubSeq(a, 1, k), p), {"delta"})
          = IF p \in {"delta"} THEN Append(Only(SubSeq(a, 1, k), {"delta"}), p)
            ELSE Only(SubSeq(a, 1, k), {"delta"})
    <3>1. ASSUME NEW s \in Seq(Payloads), NEW x \in Payloads, NEW T
          PROVE  Only(Append(s, x), T) = IF x \in T THEN Append(Only(s, T), x)
                                                    ELSE Only(s, T)
      BY OnlyAppend
    <3> QED  BY <2>1, <2>4, <3>1
  <2> QED  BY <2>2, <2>4, <2>5, <2>6
<1> QED  BY <1>2, <1>4, <1>5

-----------------------------------------------------------------------------
(* The pipe grows.                                                         *)

LEMMA BodyFacts ==
  ASSUME NEW a \in Seq(Payloads), a # <<>>, NEW e \in Eols, NEW close \in Ends
  PROVE  /\ Written(a, e, close) \in Seq(Symbols)
         /\ Len(Written(a, e, close)) = Size(a, e, close)
<1> DEFINE w == Written(a, e, close)
           z == Size(a, e, close)
<1>1. z \in Nat /\ DOMAIN w = 1..z
  BY WrittenFacts
<1>2. \A t \in 1..z : w[t] \in Symbols
  <2>1. SUFFICES ASSUME NEW t \in 1..z PROVE w[t] \in Symbols
    OBVIOUS
  <2>2. w[t] = Sym(a, e, close, t) /\ t \in Nat \ {0}
    BY <1>1 DEF Sym
  <2> HIDE DEF w
  <2> QED  BY <2>2, SymFacts
<1>3. w = [t \in 1..z |-> w[t]]
  BY WrittenFacts
<1> HIDE DEF w, z
<1>4. w \in Seq(Symbols) /\ Len(w) = z
  BY <1>1, <1>2, <1>3
<1> QED  BY <1>4 DEF w, z

\* r consists of s and t.
Joined(s, t, r) ==
  /\ r \in Seq(Symbols) /\ Len(r) = Len(s) + Len(t)
  /\ \A i \in 1..Len(s) : r[i] = s[i]
  /\ \A i \in 1..Len(t) : r[Len(s) + i] = t[i]

LEMMA JoinFacts ==
  ASSUME NEW s \in Seq(Symbols), NEW t \in Seq(Symbols), NEW r, r = s \o t
  PROVE  Joined(s, t, r)
<1>1. r \in Seq(Symbols) /\ Len(r) = Len(s) + Len(t)
  OBVIOUS
<1>2. \A i \in 1..Len(s) : r[i] = s[i]
  OBVIOUS
<1>3. \A i \in 1..Len(t) : r[Len(s) + i] = t[i]
  OBVIOUS
<1> QED  BY <1>1, <1>2, <1>3 DEF Joined

\* r goes on where s ends.
Longer(a, e, close, s, r, n) ==
  /\ Piped(a, e, close, r) /\ Len(r) = n
  /\ \A t \in 1..Len(s) : r[t] = s[t]

LEMMA PipeGrows ==
  ASSUME NEW a \in Seq(Payloads), a # <<>>, NEW e \in Eols, NEW close \in Ends,
         NEW s, Piped(a, e, close, s), NEW n \in Nat,
         Len(s) + n <= Size(a, e, close),
         NEW w, w = Written(a, e, close),
         NEW r, r = s \o SubSeq(w, Len(s) + 1, Len(s) + n)
  PROVE  Longer(a, e, close, s, r, Len(s) + n)
<1>1. s \in Seq(Symbols) /\ Len(s) \in Nat
  BY DEF Piped
<1>2. w \in Seq(Symbols) /\ Len(w) = Size(a, e, close)
  BY BodyFacts
<1> DEFINE chunk == SubSeq(w, Len(s) + 1, Len(s) + n)
<1>3. /\ chunk \in Seq(Symbols) /\ Len(chunk) = n
      /\ \A i \in 1..n : chunk[i] = w[Len(s) + i]
  <2>1. /\ Len(s) + 1 \in Nat /\ Len(s) + n \in Nat /\ Len(s) + 1 >= 1
        /\ Len(s) + n <= Len(w) /\ (Len(s) + n) - (Len(s) + 1) + 1 = n
    BY <1>1, <1>2
  <2>2. chunk \in Seq(Symbols) /\ Len(chunk) = n
    BY <1>2, <2>1
  <2>3. ASSUME NEW i \in 1..n PROVE chunk[i] = w[Len(s) + i]
    <3>1. (Len(s) + 1) + i - 1 = Len(s) + i
      BY <1>1
    <3>2. chunk[i] = w[(Len(s) + 1) + i - 1]
      BY <1>2, <2>1
    <3> QED  BY <3>1, <3>2
  <2> QED  BY <2>2, <2>3
<1>4. r = s \o chunk
  OBVIOUS
<1> HIDE DEF chunk
<1>5. /\ r \in Seq(Symbols) /\ Len(r) = Len(s) + n
      /\ \A t \in 1..Len(s) : r[t] = s[t]
      /\ \A i \in 1..n : r[Len(s) + i] = chunk[i]
  <2>1. Joined(s, chunk, r)
    BY <1>1, <1>3, <1>4, JoinFacts, Zenon
  <2> QED  BY <1>3, <2>1 DEF Joined
<1>6. ASSUME NEW t \in 1..Len(r) PROVE r[t] = Sym(a, e, close, t)
  <2>1. CASE t \in 1..Len(s)
    BY <1>5, <2>1 DEF Piped
  <2>2. CASE t \notin 1..Len(s)
    <3>1. PICK i \in 1..n : t = Len(s) + i
      <4>1. t - Len(s) \in 1..n /\ t = Len(s) + (t - Len(s))
        BY <1>1, <1>5, <2>2
      <4> QED  BY <4>1
    <3>2. r[t] = w[t] /\ t <= Size(a, e, close)
      BY <1>1, <1>2, <1>3, <1>5, <3>1
    <3> QED  BY <3>2 DEF Sym
  <2> QED  BY <2>1, <2>2
<1>7. Len(r) <= Total(a, e, close)
  BY <1>1, <1>2, <1>5 DEF Total
<1> QED  BY <1>5, <1>6, <1>7 DEF Piped, Longer

LEMMA PipeEnds ==
  ASSUME NEW a \in Seq(Payloads), a # <<>>, NEW e \in Eols, NEW close \in Ends,
         NEW s, Piped(a, e, close, s), Len(s) = Size(a, e, close),
         NEW r, r = IF WantsMetrics THEN s \o <<"metrics", LF, LF>> ELSE s
  PROVE  Longer(a, e, close, s, r, Total(a, e, close))
<1>1. s \in Seq(Symbols) /\ Len(s) \in Nat
  BY DEF Piped
<1>2. CASE ~ WantsMetrics
  BY <1>1, <1>2 DEF Total, Longer
<1>3. CASE WantsMetrics
  <2> DEFINE own == <<"metrics", LF, LF>>
  <2>1. own \in Seq(Symbols)
    BY SymbolFacts
  <2>8. Len(own) = 3
    OBVIOUS
  <2>2. own[1] = "metrics" /\ own[2] = LF /\ own[3] = LF
    OBVIOUS
  <2>3. r = s \o own
    BY <1>3
  <2> HIDE DEF own
  <2>4. /\ r \in Seq(Symbols) /\ Len(r) = Len(s) + 3
        /\ \A t \in 1..Len(s) : r[t] = s[t]
        /\ \A i \in 1..3 : r[Len(s) + i] = own[i]
    <3>1. Joined(s, own, r)
      BY <1>1, <2>1, <2>3, JoinFacts, Zenon
    <3> QED  BY <2>8, <3>1 DEF Joined
  <2>5. Len(r) = Total(a, e, close) /\ Total(a, e, close) = Size(a, e, close) + 3
    BY <1>3, <2>4 DEF Total
  <2>6. ASSUME NEW t \in 1..Len(r) PROVE r[t] = Sym(a, e, close, t)
    <3>1. CASE t \in 1..Len(s)
      BY <2>4, <3>1 DEF Piped
    <3>2. CASE t \notin 1..Len(s)
      <4>1. t \in {Len(s) + 1, Len(s) + 2, Len(s) + 3}
        <5>1. t \in Nat /\ t > Len(s) /\ t <= Len(s) + 3
          BY <1>1, <2>4, <3>2
        <5> QED  BY <1>1, <5>1
      <4>2. r[t] = IF t = Len(s) + 1 THEN "metrics" ELSE LF
        <5>1. /\ r[Len(s) + 1] = "metrics" /\ r[Len(s) + 2] = LF
              /\ r[Len(s) + 3] = LF
          <6>1. 1 \in 1..3 /\ 2 \in 1..3 /\ 3 \in 1..3
            OBVIOUS
          <6> QED  BY <2>2, <2>4, <6>1, Zenon
        <5>2. Len(s) + 2 # Len(s) + 1 /\ Len(s) + 3 # Len(s) + 1
          BY <1>1
        <5> QED  BY <4>1, <5>1, <5>2, Zenon
      <4>3. ~ (t <= Size(a, e, close))
        BY <1>1, <4>1
      <4> QED  BY <4>2, <4>3 DEF Sym
    <3> QED  BY <3>1, <3>2
  <2>7. Len(r) <= Total(a, e, close)
    BY <1>1, <2>4, <2>5
  <2> QED  BY <2>4, <2>5, <2>6, <2>7 DEF Piped, Longer
<1> QED  BY <1>2, <1>3

-----------------------------------------------------------------------------
(* The invariant.                                                          *)

Inputs ==
  /\ mode \in {"api", "chat", "json"} /\ closed \in Ends /\ split \in BOOLEAN
  /\ answer \in Seq(Payloads) /\ answer # <<>>

\* The hops: what has been read of the body, and of the pipe.
Pipe(e) ==
  /\ body = Written(answer, e, closed)
  /\ fed \in 0..Size(answer, e, closed) /\ piping \in BOOLEAN
  /\ Piped(answer, e, closed, piped)
  /\ piping => Len(piped) = fed
  /\ ~ piping => /\ fed = Size(answer, e, closed)
                 /\ Len(piped) = Total(answer, e, closed)
  /\ taken \in 0..Len(piped)
  /\ ~ split => taken = 0 \/ piped[taken] # CR

\* The gateway's event stands apart from the last one of the model server.
Apart == closed = "event" \/ ~ WantsMetrics

\* What the dashboard has made of it so far.
Heard(e) ==
  record = None =>
    IF mode = "json" THEN IsDb(db)
    ELSE Apart => Rel(answer, e, closed, taken, db, ~ split)

StreamInv == Inputs /\ \E e \in Eols : Pipe(e) /\ Heard(e)

IInv == StreamInv /\ ClientStream /\ AnswerText /\ UsageRecorded

\* A stream that goes on is right so far.
LEMMA RelSafe ==
  ASSUME NEW a \in Seq(Payloads), NEW e, NEW close, NEW t, NEW d,
         NEW whole \in BOOLEAN, Rel(a, e, close, t, d, whole)
  PROVE  /\ mode = "api" => IsPrefix(Data(d.out), a) /\ Separated(d.out)
         /\ mode = "chat" /\ whole => IsPrefix(d.text, Only(a, {"delta"}))
<1>1. mode = "api" => IsPrefix(Data(d.out), a) /\ Separated(d.out)
  BY RelServed, ServedPrefix
<1>2. ASSUME mode = "chat", whole
      PROVE  IsPrefix(d.text, Only(a, {"delta"}))
  <2>1. Rel(a, e, close, t, d, TRUE)
    BY <1>2
  <2>2. PICK k \in 0..Len(a) : Noted(a, k, d)
    BY <2>1, RelNoted
  <2>3. d.text = Only(SubSeq(a, 1, k), {"delta"})
    BY <1>2, <2>2 DEF Noted
  <2> QED  BY <2>3, OnlyPrefix
<1> QED  BY <1>1, <1>2

LEMMA RelNext ==
  ASSUME mode' = mode, provider' = provider, answer' = answer, closed' = closed,
         NEW e, Rel(answer, e, closed, taken', db', ~ split')
  PROVE  Rel(answer, e, closed, taken, db, ~ split)'
BY DEF Rel, Within, Exact, Sent, Behind, Noted, WantsMetrics

LEMMA PipeNext ==
  ASSUME UNCHANGED input, NEW e,
         /\ body = Written(answer, e, closed)
         /\ fed' \in 0..Size(answer, e, closed) /\ piping' \in BOOLEAN
         /\ Piped(answer, e, closed, piped')
         /\ piping' => Len(piped') = fed'
         /\ ~ piping' => /\ fed' = Size(answer, e, closed)
                         /\ Len(piped') = Total(answer, e, closed)
         /\ taken' \in 0..Len(piped')
         /\ ~ split' => taken' = 0 \/ piped'[taken'] # CR
  PROVE  Pipe(e)'
BY DEF Pipe, Piped, Total, WantsMetrics, input

Statuses == {200, 502}

\* What counts of the record r of d.
Kept(d, status, r) ==
  /\ r # None /\ (r.status = 200 => status = 200)
  /\ d.usage = TRUE => r.tokens # None

LEMMA ResultFacts ==
  ASSUME NEW d, NEW status \in Statuses
  PROVE  Kept(d, status, Result(d, status))
<1> DEFINE r == Result(d, status)
<1>1. /\ r.status = IF mode = "chat" /\ d.text = <<>> THEN None ELSE status
      /\ r.tokens \in Sources \cup {None}
      /\ d.usage = TRUE => r.tokens \in Sources
      /\ r \in [status : {200, 502, None}, tokens : Sources \cup {None},
                queue : Sources \cup {None}, ttft : Sources \cup {None},
                speed : Sources \cup {None}]
  BY DEF Result, Sources, Statuses
<1> HIDE DEF r
<1>2. r # None /\ None # 200 /\ None \notin Sources
  BY <1>1, NoneAssumption
<1> QED  BY <1>1, <1>2 DEF r, Kept

LEMMA StreamInit == Init => IInv
<1> SUFFICES ASSUME Init PROVE IInv
  OBVIOUS
<1>1. /\ mode \in {"api", "chat", "json"} /\ closed \in Ends /\ split = FALSE
      /\ fed = 0 /\ piped = <<>> /\ piping = TRUE /\ taken = 0 /\ record = None
      /\ db = [rest |-> <<>>, first |-> FALSE, usage |-> FALSE, reported |-> None,
               text |-> <<>>, out |-> <<>>]
  BY DEF Init, Ends
<1>2. answer \in Answers
  BY DEF Init, Reports
<1>3. answer \in Seq(Payloads) /\ answer # <<>>
  BY <1>2, AnswersAssumption
<1>4. Inputs
  BY <1>1, <1>3 DEF Inputs
<1>5. PICK e \in Eols : body = Written(answer, e, closed)
  BY DEF Init, Eols
<1>6. Size(answer, e, closed) \in Nat
  BY <1>1, <1>3, WrittenFacts
<1>7. Pipe(e)
  <2>1. Piped(answer, e, closed, <<>>)
    BY <1>6 DEF Piped, Total
  <2> QED  BY <1>1, <1>5, <1>6, <2>1 DEF Pipe
<1>8. IsDb(db) /\ db.rest = <<>> /\ db.out = <<>> /\ db.text = <<>>
  BY <1>1 DEF IsDb
<1>9. Data(<<>>) = <<>> /\ SubSeq(answer, 1, 0) = <<>> /\ Only(<<>>, {"delta"}) = <<>>
  BY <1>3, OnlyEmpty DEF Data
<1>10. Separated(<<>>)
  BY DEF Separated
<1>11. Served(answer, <<>>)
  <2>1. 0 \in 0..Len(answer)
    BY <1>3
  <2> QED  BY <1>9, <1>10, <2>1 DEF Served
<1>12. Rel(answer, e, closed, taken, db, ~ split)
  <2>1. Exact(answer, 0, "start", db)
    <3>1. Held("done", "start") = <<>>
      BY DEF Held
    <3>2. Only(SubSeq(answer, 1, 0), {"delta"}) = <<>>
      BY <1>9
    <3>3. Noted(answer, 0, db)
      BY <1>8, <3>2 DEF Noted
    <3> QED  BY <1>8, <3>1, <3>3, Zenon DEF Exact
  <2>2. Sent(answer, 0, "start", db)
    <3>1. <<>> \in Seq(Plain) /\ <<>> \in Seq(Symbols)
      OBVIOUS
    <3>2. Flow(db) = <<>>
      <4>1. <<>> \o <<>> = <<>>
        BY <3>1, JoinNone
      <4> QED  BY <1>8, <4>1, Zenon DEF Flow
    <3>3. Shape(answer, 0, <<>>, "start")
      BY <1>9, <1>10, <3>1 DEF Shape, Ending
    <3> QED  BY <1>8, <1>11, <3>1, <3>2, <3>3 DEF Sent
  <2>3. At(e, 0, 0, "start") /\ 0 \in 0..Len(answer) /\ "start" \in Places
    BY <1>3 DEF At, Eols, Places
  <2>4. Within(answer, e, 0, db, ~ split)
    BY <2>1, <2>2, <2>3 DEF Within
  <2> QED  BY <1>1, <1>6, <1>8, <2>4 DEF Rel
<1>13. Heard(e)
  BY <1>8, <1>12 DEF Heard
<1>14. ~ Complete
  BY <1>1 DEF Complete
<1>15. ClientStream
  <2>1. IsPrefix(Data(db.out), answer) /\ Separated(db.out)
    BY <1>3, <1>8, <1>11, ServedPrefix
  <2> QED  BY <1>14, <2>1 DEF ClientStream
<1>16. AnswerText
  <2>1. ASSUME mode = "chat" PROVE IsPrefix(db.text, Only(answer, {"delta"}))
    <3>1. ~ split = TRUE
      BY <1>1
    <3> QED  BY <1>3, <1>12, <2>1, <3>1, RelSafe
  <2> QED  BY <1>14, <2>1 DEF AnswerText
<1>17. UsageRecorded
  BY <1>14 DEF UsageRecorded
<1> QED  BY <1>4, <1>5, <1>7, <1>13, <1>15, <1>16, <1>17 DEF IInv, StreamInv

\* The properties read the dashboard's state only.
LEMMA SameDashboard ==
  ASSUME ClientStream /\ AnswerText /\ UsageRecorded,
         UNCHANGED <<input, db, record, split>>
  PROVE  ClientStream' /\ AnswerText' /\ UsageRecorded'
BY DEF ClientStream, AnswerText, UsageRecorded, Complete, WantsMetrics, input

LEMMA GatewaySteps ==
  ASSUME IInv,
         \/ \E n \in 1..Len(body) : GatewayReads(n)
         \/ GatewayEnds
  PROVE  IInv'
<1>1. PICK e \in Eols : Pipe(e) /\ Heard(e)
  BY DEF IInv, StreamInv
<1>2. Inputs
  BY DEF IInv, StreamInv
<1>3. /\ answer \in Seq(Payloads) /\ answer # <<>> /\ closed \in Ends
  BY <1>2 DEF Inputs
<1> DEFINE z == Size(answer, e, closed)
<1>4. /\ z \in Nat \ {0} /\ Len(body) = z
  BY <1>1, <1>3, WrittenFacts, BodyFacts DEF Pipe
<1>5. /\ body = Written(answer, e, closed) /\ fed \in 0..z /\ piping \in BOOLEAN
      /\ Piped(answer, e, closed, piped)
      /\ piping => Len(piped) = fed
      /\ ~ piping => fed = z /\ Len(piped) = Total(answer, e, closed)
      /\ taken \in 0..Len(piped)
      /\ ~ split => taken = 0 \/ piped[taken] # CR
  BY <1>1 DEF Pipe
<1>6. /\ UNCHANGED <<input, dash>> /\ UNCHANGED <<input, db, record, split>>
  BY DEF GatewayReads, GatewayEnds, dash
<1>7. /\ fed' \in 0..z /\ piping' \in BOOLEAN
      /\ Piped(answer, e, closed, piped')
      /\ piping' => Len(piped') = fed'
      /\ ~ piping' => fed' = z /\ Len(piped') = Total(answer, e, closed)
      /\ Len(piped') >= Len(piped)
      /\ \A t \in 1..Len(piped) : piped'[t] = piped[t]
  <2>1. CASE \E n \in 1..Len(body) : GatewayReads(n)
    <3>8. PICK n \in 1..Len(body) : GatewayReads(n)
      BY <2>1
    <3>1. /\ fed + n <= z /\ fed' = fed + n /\ piping' = piping
          /\ piped' = piped \o SubSeq(body, fed + 1, fed + n)
      BY <1>4, <3>8 DEF GatewayReads
    <3>2. n \in Nat /\ n > 0
      BY <1>4
    <3>3. piping /\ Len(piped) = fed
      BY <1>4, <1>5, <3>1, <3>2
    <3>4. Len(piped) + n <= Size(answer, e, closed)
      BY <3>1, <3>3
    <3>5. PICK r : r = piped'
      OBVIOUS
    <3>6. r = piped \o SubSeq(body, Len(piped) + 1, Len(piped) + n)
      BY <3>1, <3>3, <3>5
    <3> HIDE DEF z
    <3>7. /\ Piped(answer, e, closed, r) /\ Len(r) = Len(piped) + n
          /\ \A t \in 1..Len(piped) : r[t] = piped[t]
      <4>1. body = Written(answer, e, closed)
        BY <1>5
      <4>2. Piped(answer, e, closed, piped)
        BY <1>5
      <4>3. n \in Nat
        BY <3>2
      <4>4. Longer(answer, e, closed, piped, r, Len(piped) + n)
        BY <1>3, <3>4, <3>6, <4>1, <4>2, <4>3, PipeGrows, Zenon
      <4> QED  BY <4>4 DEF Longer
    <3> QED  BY <1>4, <1>5, <3>1, <3>2, <3>3, <3>5, <3>7
  <2>2. CASE GatewayEnds
    <3>1. /\ piping /\ fed = z /\ fed' = fed /\ piping' = FALSE
          /\ piped' = IF WantsMetrics THEN piped \o <<"metrics", LF, LF>> ELSE piped
      BY <1>4, <2>2 DEF GatewayEnds
    <3>2. Len(piped) = Size(answer, e, closed)
      BY <1>5, <3>1
    <3>3. PICK r : r = piped'
      OBVIOUS
    <3>4. r = IF WantsMetrics THEN piped \o <<"metrics", LF, LF>> ELSE piped
      BY <3>1, <3>3
    <3> HIDE DEF z
    <3>5. /\ Piped(answer, e, closed, r) /\ Len(r) = Total(answer, e, closed)
          /\ \A t \in 1..Len(piped) : r[t] = piped[t]
      <4>1. Piped(answer, e, closed, piped)
        BY <1>5
      <4>2. Longer(answer, e, closed, piped, r, Total(answer, e, closed))
        BY <1>3, <3>2, <3>4, <4>1, PipeEnds, Zenon
      <4> QED  BY <4>2 DEF Longer
    <3>6. Len(r) >= Len(piped)
      BY <1>4, <3>2, <3>5 DEF Total, z
    <3> QED  BY <1>4, <1>5, <3>1, <3>3, <3>5, <3>6
  <2> QED  BY <2>1, <2>2
<1>8. taken' \in 0..Len(piped') /\ (~ split' => taken' = 0 \/ piped'[taken'] # CR)
  <2>1. taken' = taken /\ split' = split
    BY <1>6 DEF dash
  <2>2. Len(piped) \in Nat /\ Len(piped') \in Nat
    BY <1>5, <1>7 DEF Piped
  <2> QED  BY <1>5, <1>7, <2>1, <2>2
<1>9. Pipe(e)'
  BY <1>5, <1>6, <1>7, <1>8, PipeNext
<1>10. Heard(e)'
  <2>1. CASE record = None /\ mode # "json" /\ Apart
    <3>1. Rel(answer, e, closed, taken, db, ~ split)
      BY <1>1, <2>1 DEF Heard
    <3>2. Rel(answer, e, closed, taken', db', ~ split')
      BY <1>6, <3>1 DEF dash
    <3>3. Rel(answer, e, closed, taken, db, ~ split)'
      BY <1>6, <3>2, RelNext DEF input
    <3> QED  BY <1>6, <2>1, <3>3 DEF Heard, input, dash
  <2>2. CASE ~ (record = None /\ mode # "json" /\ Apart)
    BY <1>1, <1>6, <2>2 DEF Heard, Apart, WantsMetrics, input, dash
  <2> QED  BY <2>1, <2>2
<1>11. Inputs'
  BY <1>2, <1>6 DEF Inputs, input, dash
<1>12. ClientStream' /\ AnswerText' /\ UsageRecorded'
  BY <1>6, SameDashboard DEF IInv
<1> QED  BY <1>9, <1>10, <1>11, <1>12 DEF IInv, StreamInv

LEMMA ReadStep ==
  ASSUME IInv, NEW n \in 1..(Len(body) + 3), DashboardReads(n)
  PROVE  IInv'
<1>1. PICK e \in Eols : Pipe(e) /\ Heard(e)
  BY DEF IInv, StreamInv
<1>2. Inputs
  BY DEF IInv, StreamInv
<1>3. /\ answer \in Seq(Payloads) /\ answer # <<>> /\ closed \in Ends
      /\ split \in BOOLEAN /\ mode \in {"api", "chat", "json"}
  BY <1>2 DEF Inputs
<1>4. /\ mode \in {"api", "chat"} /\ record = None /\ taken + n <= Len(piped)
      /\ db' = TookAll(db, SubSeq(piped, taken + 1, taken + n), Handled)
      /\ taken' = taken + n /\ split' = (split \/ piped[taken + n] = CR)
      /\ UNCHANGED <<input, gateway, record>>
  BY <1>3 DEF DashboardReads
<1>5. /\ Piped(answer, e, closed, piped) /\ taken \in 0..Len(piped)
      /\ piped \in Seq(Symbols) /\ Len(piped) \in Nat
      /\ ~ split => taken = 0 \/ piped[taken] # CR
  BY <1>1 DEF Pipe, Piped
<1>6. n \in Nat \ {0} /\ taken \in Nat
  <2>1. Len(body) \in Nat
    BY <1>1, <1>3, WrittenFacts, BodyFacts DEF Pipe
  <2> QED  BY <1>5, <2>1
<1>7. Pipe(e)'
  <2>1. taken' \in 0..Len(piped) /\ (~ split' => piped[taken'] # CR)
    <3>1. taken' = taken + n /\ taken + n <= Len(piped)
      BY <1>4
    <3>2. taken' \in 0..Len(piped)
      BY <1>5, <1>6, <3>1
    <3>3. split' = (split \/ piped[taken'] = CR)
      BY <1>4, <3>1
    <3>4. ~ split' => piped[taken'] # CR
      BY <3>3, Zenon
    <3> QED  BY <3>2, <3>4
  <2>2. /\ fed' = fed /\ piped' = piped /\ piping' = piping
    BY <1>4 DEF gateway
  <2>3. /\ body = Written(answer, e, closed)
        /\ fed \in 0..Size(answer, e, closed) /\ piping \in BOOLEAN
        /\ piping => Len(piped) = fed
        /\ ~ piping => /\ fed = Size(answer, e, closed)
                       /\ Len(piped) = Total(answer, e, closed)
    BY <1>1 DEF Pipe
  <2> QED  BY <1>4, <1>5, <2>1, <2>2, <2>3, PipeNext
<1>8. split' \in BOOLEAN
  BY <1>3, <1>4
<1>9. Inputs'
  BY <1>2, <1>4, <1>8 DEF Inputs, input
<1>10. ~ Complete'
  BY <1>4 DEF Complete
<1>11. CASE Apart
  <2>1. Rel(answer, e, closed, taken, db, ~ split)
    BY <1>1, <1>4, <1>11 DEF Heard
  <2>2. PICK whole \in BOOLEAN : whole = ~ split'
    BY <1>8
  <2>3. (whole => ~ split) /\ (whole => taken = 0 \/ piped[taken] # CR)
    BY <1>3, <1>4, <1>5, <2>2
  <2>4. Rel(answer, e, closed, taken, db, whole)
    BY <2>1, <2>3, RelWeaker
  <2>5. PICK r : r = db'
    OBVIOUS
  <2>6. r = TookAll(db, SubSeq(piped, taken + 1, taken + n), Handled)
    BY <1>4, <2>5
  <2>7. closed = "event" \/ ~ WantsMetrics
    BY <1>11 DEF Apart
  <2>8. Rel(answer, e, closed, taken + n, r, whole)
    BY <1>3, <1>4, <1>5, <1>6, <2>3, <2>4, <2>6, <2>7, RelReads
  <2>9. Rel(answer, e, closed, taken', db', ~ split')
    BY <1>4, <2>2, <2>5, <2>8
  <2>10. Rel(answer, e, closed, taken, db, ~ split)'
    BY <1>4, <2>9, RelNext DEF input
  <2>11. Heard(e)'
    BY <1>4, <2>10 DEF Heard, input
  <2>12. /\ mode = "api" => IsPrefix(Data(r.out), answer) /\ Separated(r.out)
         /\ mode = "chat" /\ whole => IsPrefix(r.text, Only(answer, {"delta"}))
    BY <1>3, <2>8, RelSafe
  <2>13. ClientStream'
    BY <1>4, <1>10, <2>5, <2>12 DEF ClientStream, input
  <2>14. AnswerText'
    BY <1>4, <1>10, <2>2, <2>5, <2>12 DEF AnswerText, input
  <2>15. UsageRecorded'
    BY <1>10 DEF UsageRecorded
  <2> QED  BY <1>7, <1>9, <2>11, <2>13, <2>14, <2>15 DEF IInv, StreamInv
<1>12. CASE ~ Apart
  <2>1. ~ Apart'
    BY <1>4, <1>12 DEF Apart, WantsMetrics, input
  <2>2. Heard(e)'
    BY <1>4, <2>1 DEF Heard, input
  <2>3. ClientStream' /\ AnswerText' /\ UsageRecorded'
    BY <1>10, <2>1 DEF ClientStream, AnswerText, UsageRecorded, Apart
  <2> QED  BY <1>7, <1>9, <2>2, <2>3 DEF IInv, StreamInv
<1> QED  BY <1>11, <1>12

\* Once there is a record, nothing is read any more.
LEMMA Recorded ==
  ASSUME IInv, UNCHANGED <<input, gateway, taken, split>>, record' # None,
         ClientStream', AnswerText', UsageRecorded'
  PROVE  IInv'
<1>1. PICK e \in Eols : Pipe(e)
  BY DEF IInv, StreamInv
<1>2. Pipe(e)'
  BY <1>1 DEF Pipe, Piped, Total, WantsMetrics, input, gateway
<1>3. Heard(e)'
  BY DEF Heard
<1>4. Inputs'
  BY DEF IInv, StreamInv, Inputs, input
<1> QED  BY <1>2, <1>3, <1>4 DEF IInv, StreamInv

LEMMA CutStep ==
  ASSUME IInv, DashboardCut
  PROVE  IInv'
<1>1. /\ UNCHANGED <<input, gateway, taken, db, split>> /\ record = None
      /\ record' = Result(db, 502)
  BY DEF DashboardCut
<1>2. record' # None /\ record'.status # 200
  <2>1. PICK status \in Statuses : status = 502
    BY DEF Statuses
  <2>2. Kept(db, status, Result(db, status))
    BY ResultFacts, Zenon
  <2> QED  BY <1>1, <2>1, <2>2 DEF Kept
<1>3. ~ Complete' /\ ~ Complete
  BY <1>1, <1>2 DEF Complete
<1>4. ClientStream'
  BY <1>1, <1>3 DEF IInv, ClientStream, WantsMetrics, input
<1>5. AnswerText'
  BY <1>1, <1>3 DEF IInv, AnswerText, WantsMetrics, input
<1>6. UsageRecorded'
  BY <1>3 DEF UsageRecorded
<1> QED  BY <1>1, <1>2, <1>4, <1>5, <1>6, Recorded

LEMMA JsonStep ==
  ASSUME IInv, JsonAnswer
  PROVE  IInv'
<1>1. PICK e \in Eols : Pipe(e) /\ Heard(e)
  BY DEF IInv, StreamInv
<1>2. /\ mode = "json" /\ record = None
      /\ UNCHANGED <<input, gateway, taken, split>> /\ record' = Result(db', 200)
      /\ \E reported : db' = [db EXCEPT !.usage = "usage" \in ToSet(answer),
                                        !.reported = reported]
  BY DEF JsonAnswer
<1>3. IsDb(db)
  BY <1>1, <1>2 DEF Heard
<1>4. PICK r : r = db'
  OBVIOUS
<1>5. r.usage = ("usage" \in ToSet(answer))
  BY <1>2, <1>3, <1>4 DEF IsDb
<1>6. record' = Result(r, 200)
  BY <1>2, <1>4
<1>7. record' # None /\ ("usage" \in ToSet(answer) => record'.tokens # None)
  <2>1. PICK status \in Statuses : status = 200
    BY DEF Statuses
  <2>2. Kept(r, status, Result(r, status))
    BY ResultFacts, Zenon
  <2>3. "usage" \in ToSet(answer) => r.usage = TRUE
    BY <1>5
  <2> QED  BY <1>6, <2>1, <2>2, <2>3 DEF Kept
<1>8. ClientStream' /\ AnswerText' /\ UsageRecorded'
  BY <1>2, <1>7 DEF ClientStream, AnswerText, UsageRecorded, input
<1> QED  BY <1>2, <1>7, <1>8, Recorded

\* What the collector has once the rest was forwarded or read.
LEMMA RestRead ==
  ASSUME mode \in {"api", "chat"}, NEW d, IsDb(d),
         NEW r, r = [IF mode = "api" THEN [d EXCEPT !.out = @ \o d.rest]
                     ELSE Read(d, d.rest) EXCEPT !.rest = <<>>]
  PROVE  /\ mode = "api" => r.out = Flow(d)
         /\ mode = "chat" => r.text = Read(d, d.rest).text
         /\ d.usage => r.usage = TRUE
<1>1. d.rest \in Seq(Symbols) /\ d.usage \in BOOLEAN
  BY DEF IsDb
<1>2. CASE mode = "api"
  <2>1. r = [[d EXCEPT !.out = d.out \o d.rest] EXCEPT !.rest = <<>>]
    BY <1>2
  <2>2. r.out = d.out \o d.rest /\ r.usage = d.usage
    BY <2>1 DEF IsDb
  <2> QED  BY <1>1, <1>2, <2>2 DEF Flow
<1>3. CASE mode = "chat"
  <2>1. PICK h : h = Handled(d, d.rest)
    OBVIOUS
  <2>2. h = Read(d, d.rest)
    BY <1>3, <2>1 DEF Handled
  <2>3. IsDb(h) /\ (d.usage => h.usage)
    BY <1>1, <2>1, HandledFacts
  <2>4. r = [h EXCEPT !.rest = <<>>]
    BY <1>3, <2>2
  <2>5. r.text = h.text /\ r.usage = h.usage /\ h.usage \in BOOLEAN
    BY <2>3, <2>4 DEF IsDb
  <2> QED  BY <1>3, <2>2, <2>3, <2>5
<1> QED  BY <1>2, <1>3

LEMMA EndStep ==
  ASSUME IInv, DashboardEnds
  PROVE  IInv'
<1>1. PICK e \in Eols : Pipe(e) /\ Heard(e)
  BY DEF IInv, StreamInv
<1>2. Inputs
  BY DEF IInv, StreamInv
<1>3. /\ answer \in Seq(Payloads) /\ answer # <<>> /\ closed \in Ends
      /\ split \in BOOLEAN /\ mode \in {"api", "chat", "json"}
  BY <1>2 DEF Inputs
<1>4. /\ mode \in {"api", "chat"} /\ record = None
      /\ ~ piping /\ taken = Len(piped)
      /\ db' = [IF mode = "api" THEN [db EXCEPT !.out = @ \o db.rest]
                ELSE Read(db, db.rest) EXCEPT !.rest = <<>>]
      /\ record' = Result(db', 200)
      /\ UNCHANGED <<input, gateway, taken, split>>
  BY <1>3 DEF DashboardEnds
<1>5. PICK r : r = db'
  OBVIOUS
<1>6. record' # None /\ (r.usage = TRUE => record'.tokens # None)
  <2>1. PICK status \in Statuses : status = 200
    BY DEF Statuses
  <2>2. Kept(r, status, Result(r, status))
    BY ResultFacts, Zenon
  <2> QED  BY <1>4, <1>5, <2>1, <2>2 DEF Kept
<1>7. CASE ~ Apart
  <2>1. ~ Apart'
    BY <1>4, <1>7 DEF Apart, WantsMetrics, input
  <2>2. ClientStream' /\ AnswerText' /\ UsageRecorded'
    BY <2>1 DEF ClientStream, AnswerText, UsageRecorded, Apart
  <2> QED  BY <1>4, <1>6, <2>2, Recorded
<1>8. CASE Apart
  <2>1. taken = Total(answer, e, closed)
    BY <1>1, <1>4 DEF Pipe
  <2>2. PICK whole \in BOOLEAN : whole = ~ split
    BY <1>3
  <2>3. Rel(answer, e, closed, Total(answer, e, closed), db, whole)
    BY <1>1, <1>4, <1>8, <2>1, <2>2 DEF Heard
  <2>4. closed = "event" \/ ~ WantsMetrics
    BY <1>8 DEF Apart
  <2>5. IsDb(db)
    BY <2>3 DEF Rel
  <2>6. /\ mode = "api" => r.out = Flow(db)
        /\ mode = "chat" => r.text = Read(db, db.rest).text
        /\ db.usage => r.usage = TRUE
    <3>1. r = [IF mode = "api" THEN [db EXCEPT !.out = @ \o db.rest]
               ELSE Read(db, db.rest) EXCEPT !.rest = <<>>]
      BY <1>4, <1>5
    <3> QED  BY <1>4, <2>5, <3>1, RestRead
  <2>7. whole => /\ closed = "event" => Noted(answer, Len(answer), db)
                 /\ mode = "chat" =>
                      Read(db, db.rest).text = Only(answer, {"delta"})
    <3>1. SUFFICES ASSUME whole
                   PROVE  /\ closed = "event" => Noted(answer, Len(answer), db)
                          /\ mode = "chat" =>
                               Read(db, db.rest).text = Only(answer, {"delta"})
      OBVIOUS
    <3>2. Rel(answer, e, closed, Total(answer, e, closed), db, TRUE)
      BY <2>3, <3>1
    <3> QED  BY <1>3, <1>4, <2>4, <3>2, EndNoted
  <2>8. ClientStream'
    <3>1. CASE mode = "api"
      <4>1. /\ Served(answer, Flow(db))
            /\ whole \/ ~ WantsMetrics => Data(Flow(db)) = answer
        BY <1>3, <2>3, <2>4, <3>1, EndServed
      <4>2. IsPrefix(Data(Flow(db)), answer) /\ Separated(Flow(db))
        BY <1>3, <4>1, ServedPrefix
      <4>3. r.out = Flow(db)
        BY <2>6, <3>1
      <4>4. /\ IsPrefix(Data(r.out), answer) /\ Separated(r.out)
            /\ ~ split \/ ~ WantsMetrics => Data(r.out) = answer
        BY <2>2, <4>1, <4>2, <4>3
      <4> QED  BY <1>4, <1>5, <4>4 DEF ClientStream, WantsMetrics, input
    <3>2. CASE mode # "api"
      BY <1>4, <3>2 DEF ClientStream, input
    <3> QED  BY <3>1, <3>2
  <2>9. AnswerText'
    <3>1. CASE mode = "chat" /\ ~ split
      <4>1. r.text = Only(answer, {"delta"})
        BY <2>2, <2>6, <2>7, <3>1
      <4>2. IsPrefix(r.text, Only(answer, {"delta"}))
        <5>1. PICK o : o = Only(answer, {"delta"})
          OBVIOUS
        <5>2. o \in Seq(Payloads)
          BY <1>3, <5>1, OnlyType
        <5>3. IsPrefix(o, o)
          BY <5>2 DEF IsPrefix
        <5> QED  BY <4>1, <5>1, <5>3
      <4> QED  BY <1>4, <1>5, <4>1, <4>2 DEF AnswerText, input
    <3>2. CASE ~ (mode = "chat" /\ ~ split)
      BY <1>4, <3>2 DEF AnswerText, input
    <3> QED  BY <3>1, <3>2
  <2>10. UsageRecorded'
    <3>1. ASSUME "usage" \in ToSet(answer), closed = "event", ~ split
          PROVE  record'.tokens # None
      <4>1. PICK j \in 1..Len(answer) : answer[j] = "usage"
        BY <1>3, <3>1 DEF ToSet
      <4>2. db.usage
        BY <2>2, <2>7, <3>1, <4>1 DEF Noted
      <4> QED  BY <1>6, <2>6, <4>2
    <3> QED  BY <1>4, <3>1 DEF UsageRecorded, input
  <2> QED  BY <1>4, <1>6, <2>8, <2>9, <2>10, Recorded
<1> QED  BY <1>7, <1>8

-----------------------------------------------------------------------------
(* The theorems.                                                           *)

LEMMA StreamStep == IInv /\ [Next]_vars => IInv'
<1> SUFFICES ASSUME IInv, [Next]_vars PROVE IInv'
  OBVIOUS
<1>1. CASE \E n \in 1..Len(body) : GatewayReads(n)
  BY <1>1, GatewaySteps
<1>2. CASE GatewayEnds
  BY <1>2, GatewaySteps
<1>3. CASE \E n \in 1..(Len(body) + 3) : DashboardReads(n)
  BY <1>3, ReadStep
<1>4. CASE DashboardEnds
  BY <1>4, EndStep
<1>5. CASE DashboardCut
  BY <1>5, CutStep
<1>6. CASE JsonAnswer
  BY <1>6, JsonStep
<1>7. CASE UNCHANGED vars
  <2>1. UNCHANGED <<input, gateway, dash>>
    BY <1>7 DEF vars
  <2>2. PICK e \in Eols : Pipe(e) /\ Heard(e)
    BY DEF IInv, StreamInv
  <2>3. Pipe(e)'
    BY <2>1, <2>2 DEF Pipe, Piped, Total, WantsMetrics, input, gateway, dash
  <2>4. Heard(e)'
    BY <2>1, <2>2 DEF Heard, Apart, Rel, Within, Exact, Sent, Behind, Noted,
                      WantsMetrics, input, dash
  <2>5. Inputs'
    BY <2>1 DEF IInv, StreamInv, Inputs, input, dash
  <2>6. ClientStream' /\ AnswerText' /\ UsageRecorded'
    BY <2>1, SameDashboard DEF IInv, dash
  <2> QED  BY <2>3, <2>4, <2>5, <2>6 DEF IInv, StreamInv
<1> QED  BY <1>1, <1>2, <1>3, <1>4, <1>5, <1>6, <1>7 DEF Next

\* However a stream is cut on either hop, the client of an API reads the model
\* server's events, each once and in order (forwardEvent of proxyOpenAI).
THEOREM StreamReachesClient == Spec => []ClientStream
<1>1. IInv => ClientStream
  BY DEF IInv
<1> QED  BY StreamInit, StreamStep, <1>1, PTL DEF Spec

\* The stored answer of a chat consists of the deltas, in order, unless a read
\* cut a CRLF (consumeEvent of streamDashboardChat).
THEOREM ChatAnswerIsDeltas == Spec => []AnswerText
<1>1. IInv => AnswerText
  BY DEF IInv
<1> QED  BY StreamInit, StreamStep, <1>1, PTL DEF Spec

\* Token counts that the model server sent are in the record of a request that
\* came through (metricsCollector).
THEOREM ReportedUsageIsRecorded == Spec => []UsageRecorded
<1>1. IInv => UsageRecorded
  BY DEF IInv
<1> QED  BY StreamInit, StreamStep, <1>1, PTL DEF Spec

=============================================================================
