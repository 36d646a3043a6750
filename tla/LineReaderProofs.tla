-------------------------- MODULE LineReaderProofs --------------------------
(***************************************************************************)
(* Theorems about readline() under its two callers, for lines and streams  *)
(* of any length and any cutting of the stream into pieces.                *)
(***************************************************************************)
EXTENDS LineReader, SequenceTheorems, WellFoundedInduction, TLAPS

\* The form of induction that the provers take: a least counterexample.
LEMMA Least ==
  ASSUME NEW T \in SUBSET Nat, T # {}
  PROVE  \E x \in T : \A y \in T : x <= y
<1>1. PICK R : /\ IsWellFoundedOn(R, Nat)
               /\ \A x, y \in Nat : y < x => <<y, x>> \in R
  <2>1. \A x, y \in Nat : y < x => <<y, x>> \in OpToRel(<, Nat)
    BY DEF OpToRel
  <2> QED  BY <2>1, NatLessThanWellFounded, Zenon
<1>2. PICK x \in T : \A y \in T : ~ (<<y, x>> \in R)
  BY <1>1, WFMin
<1>3. \A y \in T : ~(y < x)
  BY <1>1, <1>2, Zenon
<1> QED  BY <1>3
-----------------------------------------------------------------------------
(***************************************************************************)
(* FlattenSeq of the community modules, of which nothing is proved there:  *)
(* f[i] is the concatenation of the first i sequences of s.                *)
(***************************************************************************)
Flattens(f, s) ==
  f = [i \in 1 .. Len(s) |-> IF i = 1 THEN s[i] ELSE f[i - 1] \o s[i]]

LEMMA FlattensStep ==
  ASSUME NEW f, NEW s, Flattens(f, s)
  PROVE  \A i \in 1 .. Len(s) : f[i] = IF i = 1 THEN s[i] ELSE f[i - 1] \o s[i]
<1> DEFINE g == [i \in 1 .. Len(s) |-> IF i = 1 THEN s[i] ELSE f[i - 1] \o s[i]]
<1>1. \A i \in 1 .. Len(s) : g[i] = IF i = 1 THEN s[i] ELSE f[i - 1] \o s[i]
  OBVIOUS
<1>2. f = g
  BY DEF Flattens
<1> HIDE DEF g
<1> QED  BY <1>1, <1>2

\* Two sequences that begin alike have the same concatenations.
LEMMA FlattensAlike ==
  ASSUME NEW f, NEW s, NEW g, NEW t, NEW n \in Nat,
         Flattens(f, s), Flattens(g, t), Len(s) \in Nat, Len(t) \in Nat,
         n <= Len(s), n <= Len(t), \A i \in 1 .. n : s[i] = t[i]
  PROVE  \A i \in 1 .. n : f[i] = g[i]
<1> DEFINE T == {i \in 1 .. n : f[i] # g[i]}
<1> SUFFICES ASSUME T # {} PROVE FALSE
  OBVIOUS
<1>1. PICK k \in T : \A j \in T : k <= j
  <2>1. T \in SUBSET Nat
    OBVIOUS
  <2> HIDE DEF T
  <2> QED  BY <2>1, Least
<1>2. /\ f[k] = IF k = 1 THEN s[k] ELSE f[k - 1] \o s[k]
      /\ g[k] = IF k = 1 THEN t[k] ELSE g[k - 1] \o t[k]
  BY FlattensStep
<1>3. k # 1 => f[k - 1] = g[k - 1]
  BY <1>1
<1> QED  BY <1>2, <1>3

\* They exist for every sequence of sequences.
LEMMA FlattensExists ==
  ASSUME NEW S, NEW s \in Seq(Seq(S))
  PROVE  \E f : Flattens(f, s)
<1> DEFINE Has(n) == \A t \in Seq(Seq(S)) : Len(t) = n => \E f : Flattens(f, t)
           T == {n \in Nat : ~Has(n)}
<1> SUFFICES ASSUME T # {} PROVE FALSE
  OBVIOUS
<1>1. PICK n \in T : \A j \in T : n <= j
  BY Least
<1>2. PICK t \in Seq(Seq(S)) : Len(t) = n /\ ~ \E f : Flattens(f, t)
  OBVIOUS
<1>3. CASE n = 0
  <2>1. Flattens(<<>>, t)
    BY <1>2, <1>3 DEF Flattens
  <2> QED  BY <1>2, <2>1
<1>4. CASE n # 0
  <2> DEFINE u == SubSeq(t, 1, n - 1)
  <2>1. u \in Seq(Seq(S)) /\ Len(u) = n - 1 /\ \A i \in 1 .. n - 1 : u[i] = t[i]
    BY <1>2, <1>4
  <2> HIDE DEF u
  <2>2. PICK g : Flattens(g, u)
    <3>1. n - 1 \in Nat /\ ~(n <= n - 1)
      BY <1>4
    <3>2. Has(n - 1)
      BY <1>1, <3>1
    <3> QED  BY <2>1, <3>2
  <2>3. \A i \in 1 .. n - 1 : g[i] = IF i = 1 THEN t[i] ELSE g[i - 1] \o t[i]
    <3>1. \A i \in 1 .. Len(u) : g[i] = IF i = 1 THEN u[i] ELSE g[i - 1] \o u[i]
      BY <2>2, FlattensStep
    <3> QED  BY <2>1, <3>1
  <2> DEFINE f == [i \in 1 .. n |-> IF i = 1 THEN t[i] ELSE g[i - 1] \o t[i]]
  <2>4. \A i \in 1 .. n : f[i] = IF i = 1 THEN t[i] ELSE g[i - 1] \o t[i]
    OBVIOUS
  <2>5. \A i \in 1 .. n : f[i] = IF i = 1 THEN t[i] ELSE f[i - 1] \o t[i]
    <3> HIDE DEF f
    <3>1. \A i \in 1 .. n - 1 : f[i] = g[i]
      BY <2>3, <2>4
    <3>2. \A i \in 1 .. n : i # 1 => i - 1 \in 1 .. n - 1
      OBVIOUS
    <3> QED  BY <2>4, <3>1, <3>2
  <2>6. f = [i \in 1 .. n |-> f[i]]
    OBVIOUS
  <2> HIDE DEF f
  <2>7. Flattens(f, t)
    BY <1>2, <2>5, <2>6 DEF Flattens
  <2> QED  BY <1>2, <2>7
<1> QED  BY <1>3, <1>4

LEMMA FlattenSeqIs ==
  ASSUME NEW S, NEW s \in Seq(Seq(S)), s # <<>>
  PROVE  \E f : Flattens(f, s) /\ FlattenSeq(s) = f[Len(s)]
<1> DEFINE f == CHOOSE h : Flattens(h, s)
<1>1. Flattens(f, s)
  BY FlattensExists
<1>2. FlattenSeq(s) = f[Len(s)]
  BY DEF FlattenSeq, Flattens
<1> QED  BY <1>1, <1>2

LEMMA FlattensTyped ==
  ASSUME NEW S, NEW s \in Seq(Seq(S)), NEW f, Flattens(f, s)
  PROVE  \A i \in 1 .. Len(s) : f[i] \in Seq(S)
<1> DEFINE T == {i \in 1 .. Len(s) : f[i] \notin Seq(S)}
<1> SUFFICES ASSUME T # {} PROVE FALSE
  OBVIOUS
<1>1. PICK k \in T : \A j \in T : k <= j
  <2>1. T \in SUBSET Nat
    OBVIOUS
  <2> HIDE DEF T
  <2> QED  BY <2>1, Least
<1>2. f[k] = IF k = 1 THEN s[k] ELSE f[k - 1] \o s[k]
  BY FlattensStep
<1>3. s[k] \in Seq(S) /\ (k # 1 => f[k - 1] \in Seq(S))
  BY <1>1, ElementOfSeq
<1> QED  BY <1>2, <1>3, ConcatProperties

\* What a line adds to the lines returned before it.
LEMMA FlattenAppend ==
  ASSUME NEW S, NEW s \in Seq(Seq(S)), NEW x \in Seq(S)
  PROVE  /\ FlattenSeq(<<>>) = <<>>
         /\ FlattenSeq(s) \in Seq(S)
         /\ FlattenSeq(Append(s, x)) = FlattenSeq(s) \o x
<1>1. FlattenSeq(<<>>) = <<>>
  BY DEF FlattenSeq
<1> DEFINE t == Append(s, x)
           n == Len(s)
<1>2. /\ t \in Seq(Seq(S)) /\ Len(t) = n + 1 /\ t # <<>> /\ n \in Nat
      /\ t[n + 1] = x /\ \A i \in 1 .. n : t[i] = s[i]
  BY AppendProperties
<1> HIDE DEF t
<1>3. PICK g : Flattens(g, t) /\ FlattenSeq(t) = g[n + 1]
  BY <1>2, FlattenSeqIs
<1>4. g[n + 1] = IF n = 0 THEN x ELSE g[n] \o x
  BY <1>2, <1>3, FlattensStep
<1>5. CASE n = 0
  <2>1. s = <<>>
    BY <1>5
  <2> QED  BY <1>1, <1>3, <1>4, <1>5, <2>1, ConcatEmptySeq, EmptySeq DEF t
<1>6. CASE n # 0
  <2>1. s # <<>>
    BY <1>6
  <2>2. PICK f : Flattens(f, s) /\ FlattenSeq(s) = f[n]
    BY <2>1, FlattenSeqIs
  <2>3. f[n] = g[n] /\ f[n] \in Seq(S)
    <3>1. n <= Len(s) /\ n <= Len(t) /\ Len(t) \in Nat /\ n \in 1 .. n
      BY <1>2, <1>6
    <3>2. \A i \in 1 .. n : f[i] = g[i]
      <4>1. /\ Flattens(f, s) /\ Flattens(g, t) /\ n \in Nat /\ Len(s) \in Nat
            /\ \A i \in 1 .. n : s[i] = t[i]
        BY <1>2, <1>3, <2>2
      <4> HIDE DEF n
      <4> QED  BY <3>1, <4>1, FlattensAlike
    <3>3. f[n] \in Seq(S)
      BY <2>2, <3>1, FlattensTyped
    <3> QED  BY <3>1, <3>2, <3>3
  <2> QED  BY <1>1, <1>3, <1>4, <1>6, <2>2, <2>3 DEF t
<1> QED  BY <1>5, <1>6
-----------------------------------------------------------------------------
(***************************************************************************)
(* Streams of characters and what readline() takes out of one.             *)
(***************************************************************************)
Streams == Seq(Chars)

LEMMA StreamFacts ==
  /\ <<>> \in Streams /\ Len(<<>>) = 0
  /\ \A s \in Streams : Len(s) \in Nat /\ (s # <<>> <=> Len(s) > 0)
  /\ \A s, t \in Streams : s \o t \in Streams
  /\ \A s \in Streams : s \o <<>> = s /\ <<>> \o s = s
BY ConcatProperties, ConcatEmptySeq, EmptySeq DEF Streams

LEMMA StreamJoin ==
  ASSUME NEW s \in Streams, NEW t \in Streams
  PROVE  /\ s \o t \in Streams /\ Len(s \o t) = Len(s) + Len(t)
         /\ \A i \in 1 .. Len(s) : (s \o t)[i] = s[i]
         /\ \A i \in 1 .. Len(t) : (s \o t)[Len(s) + i] = t[i]
<1>1. s \in Seq(Chars) /\ t \in Seq(Chars) /\ Len(s) \in Nat /\ Len(t) \in Nat
  BY DEF Streams
<1>2. \A i \in 1 .. Len(s) + Len(t) :
        (s \o t)[i] = IF i <= Len(s) THEN s[i] ELSE t[i - Len(s)]
  BY <1>1, ConcatProperties
<1>3. \A i \in 1 .. Len(t) : /\ Len(s) + i \in 1 .. Len(s) + Len(t)
                             /\ ~(Len(s) + i <= Len(s)) /\ (Len(s) + i) - Len(s) = i
  BY <1>1
<1>4. \A i \in 1 .. Len(s) : i \in 1 .. Len(s) + Len(t)
  BY <1>1
<1>5. s \o t \in Streams /\ Len(s \o t) = Len(s) + Len(t)
  BY <1>1, ConcatProperties DEF Streams
<1>6. \A i \in 1 .. Len(s) : (s \o t)[i] = s[i]
  BY <1>2, <1>4
<1>7. \A i \in 1 .. Len(t) : (s \o t)[Len(s) + i] = t[i]
  BY <1>2, <1>3
<1> QED  BY <1>5, <1>6, <1>7

\* A read() cuts the stream in two.
LEMMA Cut ==
  ASSUME NEW s \in Streams, NEW k \in 1 .. Len(s)
  PROVE  LET x == SubSeq(s, 1, k)
             r == SubSeq(s, k + 1, Len(s))
         IN  /\ x \in Streams /\ Len(x) = k /\ \A i \in 1 .. k : x[i] = s[i]
             /\ r \in Streams /\ Len(r) = Len(s) - k
             /\ \A i \in 1 .. Len(r) : r[i] = s[k + i]
             /\ x \o r = s
<1> DEFINE x == SubSeq(s, 1, k)
           r == SubSeq(s, k + 1, Len(s))
<1>1. s \in Seq(Chars) /\ Len(s) \in Nat /\ \A i \in 1 .. Len(s) : s[i] \in Chars
  BY DEF Streams
<1>2. x \in Streams /\ Len(x) = k /\ \A i \in 1 .. k : x[i] = s[i]
  <2>1. \A i \in 1 .. k : s[i] \in Chars
    BY <1>1
  <2> QED  BY <1>1, <2>1, SubSeqProperties DEF Streams
<1>3. /\ r \in Streams /\ Len(r) = Len(s) - k
      /\ \A i \in 1 .. Len(r) : r[i] = s[k + i]
  <2>1. \A i \in k + 1 .. Len(s) : s[i] \in Chars
    BY <1>1
  <2>2. /\ r \in Streams
        /\ Len(r) = IF k + 1 <= Len(s) THEN Len(s) - (k + 1) + 1 ELSE 0
        /\ \A i \in 1 .. Len(s) - (k + 1) + 1 : r[i] = s[(k + 1) + i - 1]
    BY <1>1, <2>1, SubSeqProperties DEF Streams
  <2> HIDE DEF r
  <2>3. Len(r) = Len(s) - k
    BY <1>1, <2>2
  <2>4. ASSUME NEW i \in 1 .. Len(r) PROVE r[i] = s[k + i]
    <3>1. i \in 1 .. Len(s) - (k + 1) + 1 /\ (k + 1) + i - 1 = k + i
      BY <1>1, <2>3
    <3> QED  BY <2>2, <3>1
  <2> QED  BY <2>2, <2>3, <2>4
<1>4. x \o r = s
  <2>1. 1 \in 1 .. Len(s) + 1 /\ k \in 1 - 1 .. Len(s) /\ Len(s) \in k .. Len(s)
    BY <1>1
  <2> QED  BY <1>1, <2>1, ConcatAdjacentSubSeq, SubSeqFull
<1> QED  BY <1>2, <1>3, <1>4

\* What is cut off the stream z goes to the buffer b.
LEMMA JoinMoves ==
  \A a, b, x, r \in Streams : \A z, y :
    z = x \o r /\ y = b \o x => (a \o b) \o z = (a \o y) \o r
<1> SUFFICES ASSUME NEW a \in Streams, NEW b \in Streams, NEW x \in Streams,
                    NEW r \in Streams, NEW z, NEW y, z = x \o r, y = b \o x
             PROVE  (a \o b) \o z = (a \o y) \o r
  OBVIOUS
<1> DEFINE ab == a \o b
<1>1. \A s, t, u \in Streams : (s \o t) \o u = s \o (t \o u)
  <2> SUFFICES ASSUME NEW s \in Seq(Chars), NEW t \in Seq(Chars), NEW u \in Seq(Chars)
               PROVE  (s \o t) \o u = s \o (t \o u)
    BY DEF Streams
  <2> QED  BY ConcatAssociative, SMT
<1>2. ab \in Streams
  BY StreamFacts
<1>3. ab \o x = a \o y
  BY <1>1
<1> HIDE DEF ab
<1>4. (ab \o x) \o r = ab \o z
  BY <1>1, <1>2
<1>5. ab \o z = (a \o y) \o r
  BY <1>3, <1>4
<1> QED  BY <1>5 DEF ab

\* What is taken out ends at the first newline or has none.
LEMMA Taken ==
  ASSUME NEW s \in Streams, s # <<>>
  PROVE  /\ Take(s) \in 1 .. Len(s)
         /\ \A i \in 1 .. Take(s) : s[i] = "n" => i = Take(s)
<1>1. Len(s) \in Nat /\ Len(s) > 0 /\ DOMAIN s = 1 .. Len(s)
  BY DEF Streams
<1>2. CASE Newlines(s) = {}
  <2>1. Take(s) = Len(s)
    BY <1>2 DEF Take
  <2>2. \A i \in 1 .. Len(s) : s[i] # "n"
    BY <1>1, <1>2 DEF Newlines
  <2>3. Len(s) \in 1 .. Len(s)
    BY <1>1
  <2> QED  BY <2>1, <2>2, <2>3
<1>3. CASE Newlines(s) # {}
  <2>1. Newlines(s) \in SUBSET Nat
    BY <1>1 DEF Newlines
  <2>2. \E i \in Newlines(s) : \A j \in Newlines(s) : i <= j
    BY <1>3, <2>1, Least
  <2>3. /\ FirstNewline(s) \in Newlines(s)
        /\ \A j \in Newlines(s) : FirstNewline(s) <= j
    BY <2>2 DEF FirstNewline
  <2>4. Take(s) = FirstNewline(s)
    BY <1>3 DEF Take
  <2> QED  BY <1>1, <2>3, <2>4 DEF Newlines
<1> QED  BY <1>2, <1>3
LEMMA StreamAppend ==
  ASSUME NEW s \in Streams, NEW ch \in Chars
  PROVE  /\ Append(s, ch) \in Streams /\ Len(Append(s, ch)) = Len(s) + 1
         /\ \A i \in 1 .. Len(s) : Append(s, ch)[i] = s[i]
         /\ \A t \in Streams : t \o Append(s, ch) = Append(t \o s, ch)
<1>1. s \in Seq(Chars) /\ <<ch>> \in Streams
  BY DEF Streams
<1>2. /\ Append(s, ch) \in Streams /\ Len(Append(s, ch)) = Len(s) + 1
      /\ \A i \in 1 .. Len(s) : Append(s, ch)[i] = s[i]
  BY <1>1, AppendProperties DEF Streams
<1>3. ASSUME NEW t \in Streams
      PROVE  t \o Append(s, ch) = Append(t \o s, ch)
  <2> DEFINE ts == t \o s
  <2>1. ts \in Seq(Chars) /\ ts \o <<ch>> = t \o (s \o <<ch>>)
    <3>1. t \in Seq(Chars) /\ s \in Seq(Chars) /\ <<ch>> \in Seq(Chars)
      BY <1>1 DEF Streams
    <3> QED  BY <3>1, ConcatAssociative, ConcatProperties, SMT
  <2>2. Append(s, ch) = s \o <<ch>>
    BY <1>1, AppendIsConcat
  <2> HIDE DEF ts
  <2>3. Append(ts, ch) = ts \o <<ch>>
    BY <2>1, AppendIsConcat
  <2> QED  BY <2>1, <2>2, <2>3 DEF ts
<1> QED  BY <1>2, <1>3
-----------------------------------------------------------------------------
(***************************************************************************)
(* The inductive invariant.                                                *)
(***************************************************************************)
Typing ==
  /\ sock \in Streams /\ sent \in Streams
  /\ closed \in BOOLEAN /\ data_fd \in BOOLEAN
  /\ at \in [Callers -> {"out", "peek", "read", "exited"}]
  /\ buf \in [Callers -> Streams]
  /\ want \in [Callers -> Nat]
  /\ lines \in Seq(Streams)
  /\ \A c \in Callers : Len(buf[c]) + want[c] < MaxLine

\* The handler runs only while a command uses a data connection, that is when
\* the loop is not in readline(): the two never read the stream at once.
OneReads ==
  /\ data_fd => at["loop"] \in {"out", "exited"}
  /\ at["handler"] # "out" => at["loop"] \in {"out", "exited"}
  /\ \A c \in Callers :
       /\ at[c] = "out" => buf[c] = <<>>
       /\ at[c] = "exited" => at["loop"] = "exited" /\ at["handler"] = "exited"

\* What a caller has, and what it is about to take out of the stream, has a
\* newline at its very end or none.
Inside ==
  \A c \in Callers :
    /\ at[c] = "peek" =>
         /\ Len(buf[c]) < MaxLine - 1
         /\ \A i \in 1 .. Len(buf[c]) : buf[c][i] # "n"
    /\ at[c] = "read" =>
         /\ want[c] <= Len(sock) /\ Len(buf[c]) + want[c] > 0
         /\ \A i \in 1 .. Len(buf[c]) : buf[c][i] = "n" => i = Len(buf[c]) /\ want[c] = 0
         /\ \A i \in 1 .. want[c] : sock[i] = "n" => i = want[c]

IInv == Typing /\ OneReads /\ Inside /\ NothingLost /\ LinesWhole

LEMMA Types == (TypeOK <=> Typing) /\ (TypeOK' <=> Typing')
BY DEF TypeOK, Typing, Streams

Other(c) == IF c = "loop" THEN "handler" ELSE "loop"

\* A caller inside readline() that runs is alone.
LEMMA Alone ==
  ASSUME IInv, NEW c \in Callers, Runs(c), at[c] \in {"peek", "read"}
  PROVE  /\ Other(c) \in Callers /\ Other(c) # c
         /\ at[Other(c)] = "out" /\ buf[Other(c)] = <<>>
         /\ c = "loop" => ~data_fd
BY DEF IInv, Typing, OneReads, Callers, Runs, Other

LEMMA SendKeeps ==
  ASSUME IInv, NEW ch \in Chars, Send(ch)
  PROVE  IInv'
<1> USE DEF IInv
<1>1. /\ sock' = Append(sock, ch) /\ sent' = Append(sent, ch)
      /\ UNCHANGED <<closed, at, buf, want, data_fd, lines>>
  BY DEF Send, frames
<1>2. /\ sock \in Streams /\ sent \in Streams
      /\ sock' \in Streams /\ sent' \in Streams /\ Len(sock') = Len(sock) + 1
      /\ \A i \in 1 .. Len(sock) : sock'[i] = sock[i]
  BY <1>1, StreamAppend DEF Typing
<1>3. Typing'
  BY <1>1, <1>2 DEF Typing
<1>4. OneReads'
  BY <1>1 DEF OneReads
<1>5. Inside'
  <2>1. Len(sock) \in Nat /\ \A c \in Callers : want[c] \in Nat
    BY <1>2, StreamFacts DEF Typing
  <2>2. ASSUME NEW c \in Callers, at[c] = "read", NEW i \in 1 .. want[c]
        PROVE  want[c] <= Len(sock') /\ sock'[i] = sock[i]
    BY <1>2, <2>1, <2>2 DEF Inside
  <2> QED  BY <1>1, <2>1, <2>2, <1>2 DEF Inside
<1>6. NothingLost'
  <2> DEFINE t == FlattenSeq(lines) \o buf["loop"] \o buf["handler"]
  <2>1. t \in Streams
    <3>1. FlattenSeq(lines) \in Streams
      BY FlattenAppend DEF Typing, Streams
    <3> QED  BY <3>1, StreamFacts DEF Typing, Callers
  <2>2. t' = t
    BY <1>1
  <2>3. t \o sock = sent
    BY DEF NothingLost
  <2> HIDE DEF t
  <2>4. t \o sock' = sent'
    BY <1>1, <1>2, <2>1, <2>3, StreamAppend
  <2>5. t' \o sock' = sent'
    BY <2>2, <2>4
  <2> QED  BY <2>5 DEF NothingLost, t
<1>7. LinesWhole'
  BY <1>1 DEF LinesWhole, Newlines
<1> QED  BY <1>3, <1>4, <1>5, <1>6, <1>7

\* Neither the stream, nor what has been taken out of it, nor a line changes.
LEMMA CloseKeeps ==
  ASSUME IInv, Close \/ OpenData \/ UNCHANGED vars
  PROVE  IInv'
<1> USE DEF IInv
<1>1. UNCHANGED <<sock, sent, at, buf, want, lines>>
  BY DEF Close, OpenData, vars, frames
<1>2. CASE Close \/ UNCHANGED vars
  <2>1. data_fd' = data_fd /\ closed' \in BOOLEAN
    BY <1>2 DEF Close, vars, Typing
  <2> QED  BY <1>1, <2>1 DEF Typing, OneReads, Inside, NothingLost, LinesWhole, Newlines
<1>3. CASE OpenData
  <2>1. data_fd' = TRUE /\ closed' = closed /\ at["loop"] = "out"
    BY <1>3 DEF OpenData
  <2> QED  BY <1>1, <2>1 DEF Typing, OneReads, Inside, NothingLost, LinesWhole, Newlines
<1> QED  BY <1>2, <1>3

\* A call of readline() begins with nothing in the buffer.
LEMMA CallKeeps ==
  ASSUME IInv, NextCommand \/ Urgent
  PROVE  IInv'
<1> USE DEF IInv
<1>1. PICK c \in Callers :
        /\ at[c] = "out" /\ at' = [at EXCEPT ![c] = "peek"]
        /\ buf' = [buf EXCEPT ![c] = <<>>]
        /\ UNCHANGED <<sock, closed, sent, want, lines>>
        /\ c = "loop" => ~data_fd' /\ at["handler"] = "out"
        /\ c = "handler" => data_fd' = data_fd /\ data_fd /\ at["loop"] # "exited"
        /\ data_fd' \in BOOLEAN
  BY DEF NextCommand, Urgent, Call, Callers, Runs, Exited, Typing
<1>2. buf' = buf
  BY <1>1 DEF Typing, OneReads
<1>3. Typing'
  BY <1>1, <1>2 DEF Typing
<1>4. OneReads'
  BY <1>1, <1>2 DEF OneReads, Typing, Callers
<1>5. Inside'
  <2>1. MaxLine - 1 > 0 /\ Len(<<>>) = 0
    BY ConstantsAssumption
  <2>2. buf[c] = <<>> /\ at'[c] = "peek"
    BY <1>1 DEF OneReads, Typing
  <2>3. \A d \in Callers : d # c => at'[d] = at[d]
    BY <1>1 DEF Typing
  <2> QED  BY <1>1, <1>2, <2>1, <2>2, <2>3 DEF Inside
<1>6. NothingLost'
  BY <1>1, <1>2 DEF NothingLost
<1>7. LinesWhole'
  BY <1>1 DEF LinesWhole, Newlines
<1> QED  BY <1>3, <1>4, <1>5, <1>6, <1>7
\* What a step of one caller in readline() leaves alone.
LEMMA ReaderKeeps ==
  ASSUME IInv, NEW c \in Callers, Runs(c), at[c] \in {"peek", "read"},
         NEW p \in {"out", "peek", "read"}, at' = [at EXCEPT ![c] = p],
         UNCHANGED data_fd, buf'[c] = <<>> \/ p # "out",
         \A d \in Callers : d # c => buf'[d] = buf[d]
  PROVE  /\ OneReads'
         /\ at'[c] = p
         /\ \A d \in Callers : d # c => at[d] = "out" /\ at'[d] = "out" /\ buf[d] = <<>>
<1>1. /\ Other(c) \in Callers /\ Other(c) # c /\ at[Other(c)] = "out"
      /\ buf[Other(c)] = <<>> /\ (c = "loop" => ~data_fd)
  BY Alone
<1>2. at'[c] = p /\ \A d \in Callers : d # c => at'[d] = at[d] /\ d = Other(c)
  BY DEF IInv, Typing, Callers, Other
<1>3. /\ data_fd => at["loop"] \in {"out", "exited"}
      /\ c = "loop" => at["handler"] = "out"
      /\ c = "handler" => at["loop"] = "out"
  BY <1>1 DEF Other, Callers, IInv, OneReads
<1>4. OneReads'
  BY <1>1, <1>2, <1>3 DEF OneReads, Callers
<1> QED  BY <1>1, <1>2, <1>4

LEMMA PeekKeeps ==
  ASSUME IInv, NEW c \in Callers, Peek(c)
  PROVE  IInv'
<1> USE DEF IInv
<1>1. /\ Runs(c) /\ at[c] = "peek" /\ at' = [at EXCEPT ![c] = "read"]
      /\ UNCHANGED <<sock, closed, sent, buf, data_fd, lines>>
  BY DEF Peek
<1>2. PICK n \in 1 .. Len(sock) :
        n <= Room(c) /\ want' = [want EXCEPT ![c] = Take(SubSeq(sock, 1, n))]
  BY DEF Peek
<1> DEFINE x == SubSeq(sock, 1, n)
           w == Take(x)
<1>3. sock \in Streams /\ Len(sock) \in Nat /\ Len(buf[c]) \in Nat
  BY StreamFacts DEF Typing
<1>4. x \in Streams /\ Len(x) = n /\ \A i \in 1 .. n : x[i] = sock[i]
  BY <1>3, Cut
<1>5. w \in 1 .. n /\ \A i \in 1 .. w : sock[i] = "n" => i = w
  <2> HIDE DEF x
  <2>1. x # <<>>
    BY <1>3, <1>4, StreamFacts
  <2>2. w \in 1 .. n /\ \A i \in 1 .. w : x[i] = "n" => i = w
    BY <1>4, <2>1, Taken
  <2> QED  BY <1>3, <1>4, <2>2
<1> HIDE DEF w
<1>6. want'[c] = w /\ \A d \in Callers : d # c => want'[d] = want[d]
  BY <1>2 DEF w, Typing
<1>7. Typing'
  <2>1. want' \in [Callers -> Nat]
    BY <1>2, <1>3, <1>5 DEF w, Typing
  <2>2. Len(buf[c]) + w < MaxLine
    BY <1>2, <1>3, <1>5, ConstantsAssumption DEF Room
  <2> QED  BY <1>1, <1>6, <2>1, <2>2 DEF Typing
<1>8. OneReads' /\ at'[c] = "read" /\ \A d \in Callers : d # c => at'[d] = "out"
  BY <1>1, ReaderKeeps
<1>9. Inside'
  <2>1. w <= Len(sock) /\ Len(buf[c]) + w > 0 /\ \A i \in 1 .. Len(buf[c]) : buf[c][i] # "n"
    BY <1>1, <1>3, <1>5 DEF Inside
  <2> QED  BY <1>1, <1>5, <1>6, <1>8, <2>1 DEF Inside
<1> QED  BY <1>1, <1>7, <1>8, <1>9 DEF NothingLost, LinesWhole, Newlines

LEMMA PeekEndsKeeps ==
  ASSUME IInv, NEW c \in Callers, PeekEnds(c)
  PROVE  IInv'
<1> USE DEF IInv
<1>1. /\ at' = [r \in Callers |-> "exited"]
      /\ UNCHANGED <<sock, closed, sent, buf, want, data_fd, lines>>
  BY DEF PeekEnds
<1>2. \A d \in Callers : at'[d] = "exited"
  BY <1>1
<1>3. OneReads' /\ Inside'
  BY <1>2 DEF OneReads, Inside, Callers
<1>4. Typing'
  BY <1>1 DEF Typing
<1> QED  BY <1>1, <1>3, <1>4 DEF NothingLost, LinesWhole, Newlines

\* What one read() takes from the stream is added to the buffer.
LEMMA ReadKeeps ==
  ASSUME IInv, NEW c \in Callers, Read(c)
  PROVE  IInv'
<1> USE DEF IInv
<1>1. /\ Runs(c) /\ at[c] = "read" /\ want[c] > 0
      /\ UNCHANGED <<at, closed, sent, data_fd, lines>>
  BY DEF Read
<1>2. PICK k \in 1 .. Len(sock) :
        /\ k <= want[c] /\ want' = [want EXCEPT ![c] = @ - k]
        /\ buf' = [buf EXCEPT ![c] = @ \o SubSeq(sock, 1, k)]
        /\ sock' = SubSeq(sock, k + 1, Len(sock))
  BY DEF Read
<1> DEFINE x == SubSeq(sock, 1, k)
           b == buf[c]
<1>3. sock \in Streams /\ b \in Streams /\ Len(sock) \in Nat /\ Len(b) \in Nat /\ want[c] \in Nat
  BY StreamFacts DEF Typing
<1>4. /\ x \in Streams /\ Len(x) = k /\ \A i \in 1 .. k : x[i] = sock[i]
      /\ sock' \in Streams /\ Len(sock') = Len(sock) - k
      /\ \A i \in 1 .. Len(sock') : sock'[i] = sock[k + i]
      /\ x \o sock' = sock
  BY <1>2, <1>3, Cut
<1> HIDE DEF x
<1>5. /\ b \o x \in Streams /\ Len(b \o x) = Len(b) + k
      /\ \A i \in 1 .. Len(b) : (b \o x)[i] = b[i]
      /\ \A i \in 1 .. k : (b \o x)[Len(b) + i] = x[i]
  BY <1>3, <1>4, StreamJoin
<1>6. /\ buf'[c] = b \o x /\ want'[c] = want[c] - k
      /\ \A d \in Callers : d # c => buf'[d] = buf[d] /\ want'[d] = want[d]
  BY <1>2 DEF x, Typing
<1> HIDE DEF b
<1>7. Typing'
  <2>1. want' \in [Callers -> Nat]
    BY <1>2, <1>3 DEF Typing
  <2>2. buf' \in [Callers -> Streams]
    BY <1>2, <1>5 DEF Typing, x, b
  <2>3. Len(b \o x) + (want[c] - k) < MaxLine
    BY <1>3, <1>5 DEF Typing, b
  <2> QED  BY <1>1, <1>4, <1>6, <2>1, <2>2, <2>3 DEF Typing
<1>8. OneReads' /\ \A d \in Callers : d # c => at[d] = "out" /\ buf[d] = <<>>
  <2>1. at' = [at EXCEPT ![c] = "read"]
    BY <1>1 DEF Typing
  <2> QED  BY <1>1, <1>6, <2>1, ReaderKeeps
<1>9. Inside'
  <2>1. /\ want[c] <= Len(sock)
        /\ \A i \in 1 .. Len(b) : b[i] # "n"
        /\ \A i \in 1 .. want[c] : sock[i] = "n" => i = want[c]
    BY <1>1, <1>3 DEF Inside, b
  <2>2. ASSUME NEW i \in 1 .. Len(b \o x), (b \o x)[i] = "n"
        PROVE  i = Len(b \o x) /\ want[c] - k = 0
    <3>1. i \notin 1 .. Len(b)
      BY <1>5, <2>1, <2>2
    <3> DEFINE j == i - Len(b)
    <3>2. j \in 1 .. k /\ i = Len(b) + j
      BY <1>3, <1>5, <3>1
    <3> HIDE DEF j
    <3>3. sock[j] = "n"
      BY <1>4, <1>5, <2>2, <3>2
    <3>4. j \in 1 .. want[c]
      BY <1>2, <1>3, <3>2
    <3>5. j = want[c]
      BY <2>1, <3>3, <3>4
    <3> QED  BY <1>2, <1>3, <1>5, <3>2, <3>5
  <2>3. ASSUME NEW i \in 1 .. want[c] - k, sock'[i] = "n"
        PROVE  i = want[c] - k
    <3>1. i \in 1 .. Len(sock') /\ k + i \in 1 .. want[c]
      BY <1>2, <1>3, <1>4, <2>1
    <3>2. sock[k + i] = "n"
      BY <1>4, <2>3, <3>1
    <3> QED  BY <1>2, <1>3, <2>1, <3>1, <3>2
  <2>4. want[c] - k <= Len(sock') /\ Len(b \o x) + (want[c] - k) > 0
    <3>1. Len(b \o x) > 0
      BY <1>3, <1>5
    <3>2. want[c] - k >= 0 /\ want[c] - k <= Len(sock')
      BY <1>2, <1>3, <1>4, <2>1
    <3> QED  BY <1>3, <1>5, <3>1, <3>2
  <2> DEFINE bx == b \o x
             wk == want[c] - k
  <2>5. /\ wk <= Len(sock') /\ Len(bx) + wk > 0
        /\ \A i \in 1 .. Len(bx) : bx[i] = "n" => i = Len(bx) /\ wk = 0
        /\ \A i \in 1 .. wk : sock'[i] = "n" => i = wk
    BY <2>2, <2>3, <2>4
  <2>6. buf'[c] = bx /\ want'[c] = wk
    BY <1>6
  <2> HIDE DEF bx, wk
  <2>7. at'[c] = "read" /\ \A d \in Callers : d # c => at'[d] = "out"
    BY <1>1, <1>8
  <2> QED  BY <2>5, <2>6, <2>7 DEF Inside
<1>10. NothingLost'
  <2> DEFINE f == FlattenSeq(lines)
  <2>1. f \in Streams
    BY FlattenAppend DEF Typing, Streams
  <2>2. f' = f
    BY <1>1
  <2>3. buf["handler"] \in Streams /\ buf["loop"] \in Streams
    BY DEF Typing, Callers
  <2>4. ((f \o buf["loop"]) \o buf["handler"]) \o sock = sent
    BY DEF NothingLost
  <2> HIDE DEF f
  <2> DEFINE bl == buf["loop"]
             bh == buf["handler"]
             fl == f \o bl
  <2>5. bl \in Streams /\ bh \in Streams /\ fl \in Streams
    BY <2>1, <2>3, StreamFacts
  <2>6. ((f \o buf'["loop"]) \o buf'["handler"]) \o sock' = sent
    <3>1. CASE c = "handler"
      <4> DEFINE y == bh \o x
      <4>1. buf'["loop"] = bl /\ buf'["handler"] = y
        BY <1>6, <3>1 DEF b, Callers
      <4>2. (fl \o bh) \o sock = (fl \o y) \o sock'
        <5>1. sock = x \o sock' /\ y = bh \o x /\ x \in Streams /\ sock' \in Streams
          BY <1>4
        <5> HIDE DEF bl, bh, fl, y
        <5> QED  BY <5>1, <2>5, JoinMoves
      <4> HIDE DEF y
      <4> QED  BY <2>4, <4>1, <4>2
    <3>2. CASE c = "loop"
      <4> DEFINE y == bl \o x
      <4>1. buf'["loop"] = y /\ buf'["handler"] = <<>> /\ bh = <<>>
        BY <1>6, <1>8, <3>2 DEF b, Callers
      <4>2. fl \o sock = (f \o y) \o sock'
        <5>1. sock = x \o sock' /\ y = bl \o x /\ x \in Streams /\ sock' \in Streams
          BY <1>4
        <5> HIDE DEF bl, bh, y
        <5> QED  BY <5>1, <2>1, <2>5, JoinMoves
      <4>3. f \o y \in Streams
        BY <1>4, <2>1, <2>5, StreamFacts
      <4> HIDE DEF y
      <4>4. fl \o <<>> = fl /\ (f \o y) \o <<>> = f \o y
        BY <2>5, <4>3, StreamFacts
      <4>5. (fl \o bh) \o sock = sent
        BY <2>4
      <4> HIDE DEF bl, bh, fl
      <4> QED  BY <4>1, <4>2, <4>4, <4>5
    <3> QED  BY <3>1, <3>2 DEF Callers
  <2> QED  BY <1>1, <2>2, <2>6 DEF NothingLost, f
<1>11. LinesWhole'
  BY <1>1 DEF LinesWhole, Newlines
<1> QED  BY <1>7, <1>8, <1>9, <1>10, <1>11

\* A buffer that is not complete has no newline at all.
LEMMA ReadMoreKeeps ==
  ASSUME IInv, NEW c \in Callers, ReadMore(c)
  PROVE  IInv'
<1> USE DEF IInv
<1>1. /\ Runs(c) /\ at[c] = "read" /\ want[c] = 0 /\ ~Complete(buf[c]) /\ Room(c) > 0
      /\ at' = [at EXCEPT ![c] = "peek"]
      /\ UNCHANGED <<sock, closed, sent, buf, want, data_fd, lines>>
  BY DEF ReadMore
<1>2. buf[c] \in Streams /\ Len(buf[c]) \in Nat
  BY StreamFacts DEF Typing
<1>3. OneReads' /\ at'[c] = "peek" /\ \A d \in Callers : d # c => at'[d] = "out"
  BY <1>1, ReaderKeeps
<1>4. Inside'
  <2>1. /\ Len(buf[c]) > 0
        /\ \A i \in 1 .. Len(buf[c]) : buf[c][i] = "n" => i = Len(buf[c])
    BY <1>1, <1>2 DEF Inside
  <2>2. buf[c][Len(buf[c])] # "n"
    <3>1. buf[c] # <<>>
      BY <1>2, <2>1, StreamFacts
    <3> QED  BY <1>1, <3>1 DEF Complete, Last
  <2>3. Len(buf[c]) < MaxLine - 1
    <3> DEFINE n == Len(buf[c])
    <3>1. (MaxLine - 1) - n > 0 /\ n \in Nat /\ MaxLine \in Nat
      BY <1>1, <1>2, ConstantsAssumption DEF Room
    <3> HIDE DEF n, IInv
    <3>2. n < MaxLine - 1
      BY <3>1
    <3> QED  BY <3>2 DEF n
  <2> QED  BY <1>1, <1>3, <2>1, <2>2, <2>3 DEF Inside
<1>5. Typing'
  BY <1>1 DEF Typing
<1> QED  BY <1>1, <1>3, <1>4, <1>5 DEF NothingLost, LinesWhole, Newlines

LEMMA ReturnKeeps ==
  ASSUME IInv, NEW c \in Callers, Return(c)
  PROVE  IInv'
<1> USE DEF IInv
<1> DEFINE b == buf[c]
<1>1. /\ Runs(c) /\ at[c] = "read" /\ want[c] = 0 /\ (Complete(b) \/ Room(c) = 0)
      /\ lines' = Append(lines, b) /\ buf' = [buf EXCEPT ![c] = <<>>]
      /\ at' = [at EXCEPT ![c] = "out"]
      /\ UNCHANGED <<sock, closed, sent, want, data_fd>>
  BY DEF Return
<1>2. b \in Streams /\ Len(b) \in Nat
  BY StreamFacts DEF Typing
<1>3. buf'[c] = <<>> /\ \A d \in Callers : d # c => buf'[d] = buf[d]
  BY <1>1 DEF Typing
<1>4. /\ OneReads' /\ at'[c] = "out"
      /\ \A d \in Callers : d # c => at'[d] = "out" /\ buf[d] = <<>>
  BY <1>1, <1>3, ReaderKeeps
<1>5. \A d \in Callers : buf'[d] = <<>> /\ at'[d] = "out"
  BY <1>3, <1>4
<1>6. /\ lines \in Seq(Streams) /\ lines' \in Seq(Streams)
      /\ Len(lines) \in Nat /\ Len(lines') = Len(lines) + 1
      /\ lines'[Len(lines) + 1] = b /\ \A i \in 1 .. Len(lines) : lines'[i] = lines[i]
  BY <1>1, <1>2, AppendProperties DEF Typing
<1>7. Typing'
  <2>1. buf' \in [Callers -> Streams]
    BY <1>1, StreamFacts DEF Typing
  <2>2. \A d \in Callers : Len(buf'[d]) + want'[d] < MaxLine
    <3>1. \A d \in Callers : want[d] \in Nat /\ Len(buf[d]) \in Nat
      BY StreamFacts DEF Typing
    <3>2. \A d \in Callers : Len(buf[d]) + want[d] < MaxLine /\ want'[d] = want[d]
      BY <1>1 DEF Typing
    <3>3. \A d \in Callers : Len(buf'[d]) = 0
      BY <1>5, StreamFacts
    <3> QED  BY <3>1, <3>2, <3>3, ConstantsAssumption
  <2> QED  BY <1>1, <1>6, <2>1, <2>2 DEF Typing
<1>8. Inside'
  BY <1>5 DEF Inside
<1>9. NothingLost'
  <2> DEFINE f == FlattenSeq(lines)
  <2>1. f \in Streams /\ FlattenSeq(lines') = f \o b
    BY <1>1, <1>2, FlattenAppend DEF Typing, Streams
  <2>2. f \o buf["loop"] \o buf["handler"] \o sock = sent
    BY DEF NothingLost
  <2> HIDE DEF f
  <2>3. f \o buf["loop"] \o buf["handler"] = f \o b
    <3>1. CASE c = "handler"
      BY <1>4, <2>1, <3>1, StreamFacts DEF Callers
    <3>2. CASE c = "loop"
      <4>1. buf["handler"] = <<>> /\ f \o buf["loop"] \in Streams
        BY <1>2, <1>4, <2>1, <3>2, StreamFacts DEF Callers
      <4> QED  BY <3>2, <4>1, StreamFacts
    <3> QED  BY <3>1, <3>2 DEF Callers
  <2>4. (f \o b) \o buf'["loop"] \o buf'["handler"] = f \o b
    <3>1. f \o b \in Streams
      BY <1>2, <2>1, StreamFacts
    <3>2. buf'["loop"] = <<>> /\ buf'["handler"] = <<>>
      BY <1>5 DEF Callers
    <3> QED  BY <3>1, <3>2, StreamFacts
  <2> QED  BY <1>1, <2>1, <2>2, <2>3, <2>4 DEF NothingLost
<1>10. LinesWhole'
  <2>1. DOMAIN lines = 1 .. Len(lines) /\ DOMAIN lines' = 1 .. Len(lines) + 1
    BY <1>6
  <2>2. DOMAIN b = 1 .. Len(b)
    BY <1>2 DEF Streams
  <2>3. \A i \in 1 .. Len(b) : b[i] = "n" => i = Len(b)
    BY <1>1, <1>2 DEF Inside
  <2>4. \/ Newlines(b) = {Len(b)}
        \/ Newlines(b) = {} /\ Len(b) = MaxLine - 1
    <3>1. CASE Complete(b)
      <4>1. Len(b) \in 1 .. Len(b) /\ b[Len(b)] = "n"
        BY <1>2, <3>1, StreamFacts DEF Complete, Last
      <4> QED  BY <2>2, <2>3, <4>1 DEF Newlines
    <3>2. CASE ~Complete(b)
      <4>1. Len(b) = MaxLine - 1 /\ Len(b) > 0
        BY <1>1, <1>2, <3>2, ConstantsAssumption DEF Room
      <4>2. b[Len(b)] # "n"
        BY <1>2, <3>2, <4>1, StreamFacts DEF Complete, Last
      <4> QED  BY <2>2, <2>3, <4>1, <4>2 DEF Newlines
    <3> QED  BY <3>1, <3>2
  <2> HIDE DEF b
  <2>5. ASSUME NEW i \in DOMAIN lines'
        PROVE  \/ Newlines(lines'[i]) = {Len(lines'[i])}
               \/ Newlines(lines'[i]) = {} /\ Len(lines'[i]) = MaxLine - 1
    <3>1. CASE i \in DOMAIN lines
      <4>1. lines'[i] = lines[i]
        BY <1>6, <2>1, <3>1
      <4> QED  BY <3>1, <4>1 DEF LinesWhole
    <3>2. CASE i \notin DOMAIN lines
      <4>1. lines'[i] = b
        BY <1>6, <2>1, <3>2
      <4> QED  BY <2>4, <4>1
    <3> QED  BY <3>1, <3>2
  <2> QED  BY <2>5 DEF LinesWhole, Newlines
<1> QED  BY <1>4, <1>7, <1>8, <1>9, <1>10
-----------------------------------------------------------------------------
\* However the stream is cut into pieces and wherever SIGURG comes, the two
\* callers of readline() never read at once, a buffer has no newline inside,
\* no byte of the stream is missing and no line goes past its newline.
THEOREM ReadlineHolds == Spec => []IInv
<1>1. Init => IInv
  <2> SUFFICES ASSUME Init PROVE IInv
    OBVIOUS
  <2>1. \A c \in Callers : buf[c] = <<>> /\ want[c] = 0
    BY DEF Init
  <2>2. Typing
    <3>1. \A c \in Callers : Len(buf[c]) = 0
      BY <2>1, StreamFacts
    <3>2. \A c \in Callers : Len(buf[c]) + want[c] < MaxLine
      BY <2>1, <3>1, ConstantsAssumption
    <3>3. buf \in [Callers -> Streams] /\ sock \in Streams /\ sent \in Streams
      BY StreamFacts DEF Init
    <3>4. /\ at \in [Callers -> {"out", "peek", "read", "exited"}]
          /\ closed \in BOOLEAN /\ data_fd \in BOOLEAN
      BY DEF Init
    <3>5. want \in [Callers -> Nat]
      BY DEF Init
    <3>6. lines \in Seq(Streams)
      BY DEF Init
    <3> QED  BY <3>2, <3>3, <3>4, <3>5, <3>6 DEF Typing
  <2>3. OneReads /\ Inside
    BY <2>1, StreamFacts, ConstantsAssumption DEF Init, OneReads, Inside, Callers
  <2>4. NothingLost
    <3>1. FlattenSeq(lines) = <<>>
      BY DEF Init, FlattenSeq
    <3>2. buf["loop"] = <<>> /\ buf["handler"] = <<>> /\ sock = <<>> /\ sent = <<>>
      BY <2>1 DEF Init, Callers
    <3>3. <<>> \o <<>> = <<>>
      BY StreamFacts
    <3> QED  BY <3>1, <3>2, <3>3 DEF NothingLost
  <2>5. LinesWhole
    BY DEF Init, LinesWhole
  <2> QED  BY <2>2, <2>3, <2>4, <2>5 DEF IInv
<1>2. IInv /\ [Next]_vars => IInv'
  <2> SUFFICES ASSUME IInv, [Next]_vars PROVE IInv'
    OBVIOUS
  <2>1. CASE \E ch \in Chars : Send(ch)
    BY <2>1, SendKeeps
  <2>2. CASE Close \/ OpenData \/ UNCHANGED vars
    BY <2>2, CloseKeeps
  <2>3. CASE NextCommand \/ Urgent
    BY <2>3, CallKeeps
  <2>4. CASE \E c \in Callers : Readline(c)
    BY <2>4, PeekKeeps, PeekEndsKeeps, ReadKeeps, ReadMoreKeeps, ReturnKeeps DEF Readline
  <2> QED  BY <2>1, <2>2, <2>3, <2>4 DEF Next
<1> QED  BY <1>1, <1>2, PTL DEF Spec

\* The buffers of both callers stay within max_len with a place for the
\* terminator, whatever read_n() is still to add.
THEOREM ReadlineTypes == Spec => []TypeOK
<1>1. IInv => TypeOK
  BY Types DEF IInv
<1> QED  BY <1>1, ReadlineHolds, PTL

\* Nothing the client sends is lost, doubled or swapped by readline() and the
\* handler that interrupts it, for a stream of any length.
THEOREM StreamKept == Spec => []NothingLost
<1>1. IInv => NothingLost
  BY DEF IInv
<1> QED  BY <1>1, ReadlineHolds, PTL

\* A line that readline() returns ends at its first newline, or has none and
\* fills the buffer.
THEOREM LinesEndAtNewline == Spec => []LinesWhole
<1>1. IInv => LinesWhole
  BY DEF IInv
<1> QED  BY <1>1, ReadlineHolds, PTL
=============================================================================
