------------------------- MODULE TimedTransferProofs -------------------------
(***************************************************************************)
(* Theorems about the settings, the timeouts and the rate limit, for any   *)
(* configuration files, any limits and chunks of any size.                 *)
(***************************************************************************)
EXTENDS TimedTransfer, TLAPS

(***************************************************************************)
(* The arithmetic of the pause.                                            *)
(***************************************************************************)
LEMMA Division ==
  ASSUME NEW a \in Nat, NEW b \in Nat, b > 0
  PROVE  /\ a \div b \in Nat
         /\ b * (a \div b) <= a
         /\ a < b * (a \div b) + b
OBVIOUS

LEMMA Products ==
  ASSUME NEW a \in Int, NEW b \in Int, NEW c \in Int
  PROVE  /\ a * b \in Int
         /\ a * (b + c) = a * b + a * c
         /\ (b + c) * a = b * a + c * a
         /\ (b - c) * a = b * a - c * a
         /\ a \in Nat /\ b <= c => a * b <= a * c
OBVIOUS

LEMMA TimePasses ==
  ASSUME NEW e \in Nat, NEW p \in Nat, NEW q \in Nat, NEW s \in Nat, q = p \/ q = p - 1
  PROVE  /\ e + p + s \in Nat /\ (e + 1) + q + s \in Nat
         /\ e + p + s <= (e + 1) + q + s
OBVIOUS

\* A pause of at least (rate / max - 1) * e after e ticks makes the chunk take
\* as long as it takes at the maximal rate, but for the rounding of the rate.
LEMMA PauseSuffices ==
  ASSUME NEW n \in Nat, NEW t \in Nat, NEW e \in Nat, e > 0, NEW max \in Nat, max > 0,
         NEW rate \in Nat, rate = (n * t) \div e,
         NEW p \in Nat,
         \/ rate <= max /\ p = 0
         \/ rate > max /\ p = ((rate - max) * e + max - 1) \div max
  PROVE  n * t <= max * (e + p) + e
<1> DEFINE nt == n * t
<1>1. nt \in Nat
  OBVIOUS
<1> HIDE DEF nt
<1>2. rate = nt \div e
  BY DEF nt
<1>3. nt < e * rate + e
  BY <1>1, <1>2, Division
<1>4. max * e + max * p >= e * rate
  <2>1. CASE rate <= max
    BY <2>1, Products
  <2>2. CASE rate > max
    <3> DEFINE x == (rate - max) * e
    <3>1. x \in Nat
      BY <2>2
    <3>2. x = rate * e - max * e
      BY Products
    <3> HIDE DEF x
    <3>3. p = (x + max - 1) \div max
      BY <2>2 DEF x
    <3>4. x + max - 1 < max * p + max
      BY <3>1, <3>3, Division
    <3>5. max * p \in Int /\ max * e \in Int /\ rate * e \in Int /\ rate * e = e * rate
      OBVIOUS
    <3> QED  BY <3>1, <3>2, <3>4, <3>5
  <2> QED  BY <2>1, <2>2
<1>5. max * (e + p) = max * e + max * p
  BY Products
<1>6. max * e \in Int /\ max * p \in Int /\ e * rate \in Int
  OBVIOUS
<1> QED  BY <1>1, <1>3, <1>4, <1>5, <1>6 DEF nt
-----------------------------------------------------------------------------
(***************************************************************************)
(* The configuration file.                                                 *)
(***************************************************************************)
LEMMA FileLines ==
  ASSUME NEW f \in Files
  PROVE  /\ DOMAIN f = 1 .. Len(f) /\ Len(f) \in Nat
         /\ f \in Seq({f[i] : i \in DOMAIN f})
         /\ \A i \in DOMAIN f : IsLine(f[i])
<1>1. f \in Seq({f[i] : i \in DOMAIN f}) /\ \A i \in DOMAIN f : IsLine(f[i])
  BY ConfigAssumption
<1> QED  BY <1>1

LEMMA Extracted ==
  ASSUME NEW old, NEW l, IsLine(l), l.text = "none" => old \in 0 .. Modulus - 1
  PROVE  Extract(old, l) \in 0 .. Modulus - 1
<1>1. Modulus \in Nat /\ Modulus > 0 /\ l.n \in Int /\ l.text \in {"none", "word", "number"}
  BY ConfigAssumption DEF IsLine
<1>2. l.n % Modulus \in 0 .. Modulus - 1
  BY <1>1
<1> QED  BY <1>1, <1>2 DEF Extract

LEMMA ExtractNone ==
  ASSUME NEW old, NEW l, l.text = "none"
  PROVE  Extract(old, l) = old
BY DEF Extract

LEMMA ExtractValue ==
  ASSUME NEW old, NEW l, IsLine(l), l.text # "none"
  PROVE  Extract(old, l) = Extract(0, l)
<1>1. l.text = "word" \/ l.text = "number"
  BY DEF IsLine
<1> QED  BY <1>1 DEF Extract

LEMMA Raised ==
  ASSUME NEW item, NEW v \in 0 .. Modulus - 1
  PROVE  /\ Raise(item, v) \in 0 .. Modulus - 1
         /\ item \in Rates => Raise(item, v) >= MinRate
BY ConfigAssumption DEF Raise

\* What the first k lines of the file stand for.
UpTo(k, S) == {i \in S : i <= k}

MeantUpTo(k, item) ==
  LET v == IF UpTo(k, Giving(item)) = {} THEN Default[item]
           ELSE Extract(0, file[LastOf(UpTo(k, Giving(item)))])
  IN IF item \in Rates /\ UpTo(k, Naming(item)) # {} /\ v < MinRate THEN MinRate ELSE v

\* The settings are those of the lines that have been read.
Loading ==
  pc = "load" =>
    /\ file \in Files /\ Len(rest) \in Nat /\ Len(rest) <= Len(file)
    /\ rest \in Seq({file[i] : i \in DOMAIN file})
    /\ \A i \in 1 .. Len(rest) : rest[i] = file[Len(file) - Len(rest) + i]
    /\ conf = [item \in Items |-> MeantUpTo(Len(file) - Len(rest), item)]

LEMMA LastIs ==
  ASSUME NEW S, NEW k \in Nat, k \in S, \A i \in S : i \in Nat /\ i <= k
  PROVE  LastOf(S) = k
<1> DEFINE m == LastOf(S)
<1>1. m \in S /\ \A j \in S : j <= m
  BY DEF LastOf
<1> HIDE DEF m
<1>2. m \in Nat /\ m <= k /\ k <= m
  BY <1>1
<1>3. m = k
  BY <1>2
<1> QED  BY <1>3 DEF m

\* One line more: its item gets its value, the others keep theirs.
LEMMA OneLineMore ==
  ASSUME file \in Files, NEW k \in Nat, k + 1 <= Len(file), NEW item \in Items
  PROVE  LET l == file[k + 1]
             old == MeantUpTo(k, item)
         IN  MeantUpTo(k + 1, item) =
               IF l.item = item THEN Raise(item, Extract(old, l)) ELSE old
<1> DEFINE l == file[k + 1]
           N == UpTo(k, Naming(item))
           G == UpTo(k, Giving(item))
           N1 == UpTo(k + 1, Naming(item))
           G1 == UpTo(k + 1, Giving(item))
<1>1. DOMAIN file = 1 .. Len(file) /\ Len(file) \in Nat /\ k + 1 \in DOMAIN file
  BY FileLines
<1>2. l.item # item => N1 = N /\ G1 = G
  BY <1>1 DEF UpTo, Naming, Giving
<1>3. l.item = item /\ l.text = "none" => N1 = N \cup {k + 1} /\ G1 = G
  BY <1>1 DEF UpTo, Naming, Giving
<1>4. l.item = item /\ l.text # "none" => N1 # {} /\ G1 # {} /\ LastOf(G1) = k + 1
  <2> SUFFICES ASSUME l.item = item, l.text # "none"
               PROVE  N1 # {} /\ G1 # {} /\ LastOf(G1) = k + 1
    OBVIOUS
  <2>1. k + 1 \in N1 /\ k + 1 \in G1 /\ \A i \in G1 : i \in Nat /\ i <= k + 1
    BY <1>1 DEF UpTo, Naming, Giving
  <2> HIDE DEF N1, G1
  <2> QED  BY <2>1, LastIs
<1>5. MeantUpTo(k, item) =
        LET v == IF G = {} THEN Default[item] ELSE Extract(0, file[LastOf(G)])
        IN IF item \in Rates /\ N # {} /\ v < MinRate THEN MinRate ELSE v
  BY DEF MeantUpTo
<1>6. MeantUpTo(k + 1, item) =
        LET v == IF G1 = {} THEN Default[item] ELSE Extract(0, file[LastOf(G1)])
        IN IF item \in Rates /\ N1 # {} /\ v < MinRate THEN MinRate ELSE v
  BY DEF MeantUpTo
<1> HIDE DEF N, G, N1, G1
<1>7. CASE l.item # item
  BY <1>2, <1>5, <1>6, <1>7
<1>8. CASE l.item = item /\ l.text = "none"
  <2>1. Extract(MeantUpTo(k, item), l) = MeantUpTo(k, item)
    BY <1>8, ExtractNone
  <2>2. N1 # {} /\ G1 = G
    BY <1>3, <1>8
  <2> DEFINE v == IF G = {} THEN Default[item] ELSE Extract(0, file[LastOf(G)])
  <2> HIDE DEF v
  <2>3. MeantUpTo(k, item) = IF item \in Rates /\ N # {} /\ v < MinRate THEN MinRate ELSE v
    BY <1>5 DEF v
  <2>4. MeantUpTo(k + 1, item) = IF item \in Rates /\ v < MinRate THEN MinRate ELSE v
    BY <1>6, <2>2 DEF v
  <2>5. ~(MinRate < MinRate)
    BY ConfigAssumption
  <2>6. MeantUpTo(k + 1, item) = Raise(item, MeantUpTo(k, item))
    BY <2>2, <2>3, <2>4, <2>5, <1>3 DEF Raise
  <2> QED  BY <1>8, <2>1, <2>6
<1>9. CASE l.item = item /\ l.text # "none"
  <2>1. MeantUpTo(k + 1, item) = Raise(item, Extract(0, l))
    BY <1>4, <1>6, <1>9 DEF Raise
  <2>2. Extract(MeantUpTo(k, item), l) = Extract(0, l)
    BY <1>1, <1>9, FileLines, ExtractValue
  <2> QED  BY <1>9, <2>1, <2>2
<1> QED  BY <1>7, <1>8, <1>9
(***************************************************************************)
(* The inductive invariant.                                                *)
(***************************************************************************)
\* connect_with_timeout() leaves O_NONBLOCK behind nowhere; a wait begins at 0;
\* the handler of SIGURG interrupts a transfer only.
Modes ==
  /\ nonblock => pc \in {"connect", "connecting"}
  /\ held => pc \in {"select", "io", "limit", "sleep"}
  /\ pc \in {"load", "connect"} => waited = 0
  /\ way \in {"upload", "download"} /\ (way = "upload" => todo = 0)
  /\ \A r \in Rates : conf[r] = 0 \/ conf[r] >= MinRate

\* The pause that is left counts as passed.
Paced ==
  (pc \in {"sleep", "limited"} /\ MaxRate > 0 /\ ~wrapped) =>
    moved * TicksPerSecond <=
      MaxRate * (elapsed + pause + (IF raw = 0 THEN MinElapsed ELSE 0)) + Effective(raw)

Woken == pc = "limited" => pause = 0

IInv == TimeTypeOK /\ Modes /\ Paced /\ Woken /\ Loading

LEMMA Constants ==
  /\ TicksPerSecond \in Nat /\ TicksPerSecond > 0 /\ MinElapsed \in Nat /\ MinElapsed > 0
  /\ Chunk \in Nat /\ Chunk > 0 /\ Capacity \in Nat /\ Capacity > 0
  /\ MinRate \in Nat /\ MinRate > 0 /\ MaxElapsed \in Nat
  /\ Modulus \in Nat /\ Modulus > 0
  /\ {"connect_timeout", "accept_timeout", "idle_data_timeout"} \subseteq Items
  /\ Rates \subseteq Items
  /\ MaxElapsed * MinRate >= Chunk * TicksPerSecond
BY ConfigAssumption, TimeAssumption

\* The settings stay as they are once they are used.
LEMMA Limits ==
  ASSUME TimeTypeOK
  PROVE  /\ \A p \in Waiting : Limit(p) \in Nat
         /\ MaxRate \in Nat
         /\ conf' = conf => /\ \A p \in Waiting : Limit(p)' = Limit(p)
                            /\ pc' \in Waiting => Limit(pc)' \in Nat
                            /\ pc' = pc => Limit(pc)' = Limit(pc)
                            /\ way' = way => MaxRate' = MaxRate
<1>1. \A i \in Items : conf[i] \in Nat /\ TicksPerSecond * conf[i] \in Nat
  BY Constants DEF TimeTypeOK
<1>2. MaxRate \in Nat
  BY <1>1, Constants DEF MaxRate, Rates
<1>3. /\ Limit("connecting") = TicksPerSecond * conf["connect_timeout"]
      /\ Limit("accepting") = TicksPerSecond * conf["accept_timeout"]
      /\ Limit("select") = TicksPerSecond * conf["idle_data_timeout"]
  BY DEF Limit
<1>4. \A p \in Waiting : Limit(p) \in Nat
  BY <1>1, <1>3, Constants DEF Waiting
<1>5. ASSUME conf' = conf
      PROVE  /\ \A p \in Waiting : Limit(p)' = Limit(p)
             /\ pc' \in Waiting => Limit(pc)' \in Nat
             /\ pc' = pc => Limit(pc)' = Limit(pc)
             /\ way' = way => MaxRate' = MaxRate
  <2>1. ASSUME NEW p PROVE Limit(p)' = Limit(p)
    BY <1>5 DEF Limit
  <2>2. Limit(pc)' = Limit(pc')
    BY <1>5 DEF Limit
  <2>3. way' = way => MaxRate' = MaxRate
    BY <1>5 DEF MaxRate
  <2> QED  BY <1>4, <2>1, <2>2, <2>3
<1> QED  BY <1>2, <1>4, <1>5

LEMMA ChunkBegins ==
  ASSUME IInv, BeginChunk
  PROVE  /\ pc' \in {"select", "io"} /\ waited' = 0
         /\ todo' \in 0 .. Chunk /\ (way = "upload" => todo' = 0) /\ moved' = 0
         /\ elapsed' = 0 /\ pause' = 0 /\ raw' = 0 /\ wrapped' = FALSE
BY Constants DEF BeginChunk, Iterate, IInv, Modes

LEMMA LoadKeeps ==
  ASSUME IInv, Load
  PROVE  IInv'
<1> USE DEF IInv
<1> DEFINE l == Head(rest)
<1>0. PICK k : k = Len(file) - Len(rest)
  OBVIOUS
<1>1. /\ pc = "load" /\ rest # <<>> /\ rest' = Tail(rest) /\ file' = file
      /\ conf' = IF l.item \in Items
                   THEN [conf EXCEPT ![l.item] = Raise(l.item, Extract(@, l))]
                   ELSE conf
      /\ UNCHANGED <<pc, way, nonblock, wait, avail, eof, chunk, pace>>
  BY DEF Load, ParseConfig
<1>2. UNCHANGED <<pc, way, nonblock, waited, interrupted, held, avail, eof, todo, moved,
                  elapsed, pause, raw, wrapped>>
  BY <1>1 DEF wait, signals, chunk, pace
<1>3. /\ file \in Files /\ Len(rest) \in Nat /\ Len(rest) <= Len(file)
      /\ rest \in Seq({file[i] : i \in DOMAIN file})
      /\ \A i \in 1 .. Len(rest) : rest[i] = file[k + i]
      /\ conf = [item \in Items |-> MeantUpTo(k, item)]
  BY <1>0, <1>1 DEF Loading
<1>4. DOMAIN file = 1 .. Len(file) /\ Len(file) \in Nat /\ \A i \in DOMAIN file : IsLine(file[i])
  BY <1>3, FileLines
<1>5. /\ Len(rest) > 0 /\ l = rest[1] /\ Len(rest') = Len(rest) - 1
      /\ rest' \in Seq({file[i] : i \in DOMAIN file})
      /\ \A i \in 1 .. Len(rest) - 1 : rest'[i] = rest[i + 1]
  BY <1>1, <1>3
<1>6. l = file[k + 1] /\ k \in Nat /\ k + 1 <= Len(file) /\ IsLine(l)
  BY <1>0, <1>3, <1>4, <1>5
<1> HIDE DEF l
<1>7. \A item \in Items :
        conf'[item] = IF l.item = item THEN Raise(item, Extract(conf[item], l)) ELSE conf[item]
  BY <1>1 DEF TimeTypeOK
<1>8. conf' \in [Items -> 0 .. Modulus - 1] /\ \A r \in Rates : conf'[r] = 0 \/ conf'[r] >= MinRate
  <2>1. ASSUME NEW item \in Items
        PROVE  /\ Extract(conf[item], l) \in 0 .. Modulus - 1
               /\ Raise(item, Extract(conf[item], l)) \in 0 .. Modulus - 1
               /\ item \in Rates => Raise(item, Extract(conf[item], l)) >= MinRate
    BY <1>6, Extracted, Raised DEF TimeTypeOK
  <2>2. conf' \in [Items -> 0 .. Modulus - 1]
    BY <1>1, <2>1 DEF TimeTypeOK
  <2> QED  BY <1>7, <2>1, <2>2, Constants DEF Modes
<1>9. TimeTypeOK' /\ Modes' /\ Paced' /\ Woken'
  <2>1. pc' = "load"
    BY <1>1
  <2>2. TimeTypeOK'
    BY <1>2, <1>8, <2>1 DEF TimeTypeOK, Waiting
  <2>3. Modes'
    BY <1>2, <1>8 DEF Modes
  <2> QED  BY <2>1, <2>2, <2>3 DEF Paced, Woken
<1>10. Loading'
  <2>1. Len(file') - Len(rest') = k + 1 /\ Len(rest') \in Nat /\ Len(rest') <= Len(file')
    BY <1>0, <1>1, <1>3, <1>4, <1>5
  <2>2. ASSUME NEW item \in Items
        PROVE  conf'[item] = MeantUpTo(Len(file) - Len(rest), item)'
    <3>1. MeantUpTo(k + 1, item) =
            IF l.item = item THEN Raise(item, Extract(MeantUpTo(k, item), l)) ELSE MeantUpTo(k, item)
      BY <1>3, <1>6, OneLineMore
    <3>2. conf[item] = MeantUpTo(k, item)
      BY <1>3
    <3>3. MeantUpTo(Len(file) - Len(rest), item)' = MeantUpTo(k + 1, item)
      BY <1>1, <2>1 DEF MeantUpTo, UpTo, Naming, Giving
    <3> QED  BY <1>7, <3>1, <3>2, <3>3
  <2>3. conf' = [item \in Items |-> MeantUpTo(Len(file) - Len(rest), item)']
    <3>1. conf' = [item \in Items |-> conf'[item]]
      BY <1>8
    <3> QED  BY <2>2, <3>1
  <2>4. Len(rest) \in Nat /\ Len(rest') = Len(rest) - 1 /\ k \in Nat
    BY <1>3, <1>5, <1>6
  <2>5. ASSUME NEW i \in 1 .. Len(rest')
        PROVE  rest'[i] = file'[Len(file') - Len(rest') + i]
    <3>1. i \in 1 .. Len(rest) - 1 /\ i + 1 \in 1 .. Len(rest) /\ k + (i + 1) = (k + 1) + i
      BY <2>4
    <3>2. rest'[i] = file[k + (i + 1)]
      BY <1>3, <1>5, <3>1
    <3> QED  BY <1>1, <2>1, <3>1, <3>2
  <2>6. file' \in Files /\ rest' \in Seq({file'[i] : i \in DOMAIN file'})
    BY <1>1, <1>3, <1>5
  <2> QED  BY <2>1, <2>3, <2>5, <2>6 DEF Loading
<1> QED  BY <1>9, <1>10
\* Outside load, sleep and limited there is nothing to show of the settings
\* and of the pace.
LEMMA ElsewhereKeeps ==
  ASSUME pc' \notin {"load", "sleep", "limited"}
  PROVE  Paced' /\ Woken' /\ Loading'
BY DEF Paced, Woken, Loading

LEMMA NewChunk ==
  ASSUME IInv, BeginChunk, UNCHANGED <<way, interrupted, held, avail, conf>>, nonblock' = FALSE
  PROVE  TimeTypeOK' /\ Modes'
<1>1. /\ pc' \in {"select", "io"} /\ waited' = 0
      /\ todo' \in 0 .. Chunk /\ (way = "upload" => todo' = 0) /\ moved' = 0
      /\ elapsed' = 0 /\ pause' = 0 /\ raw' = 0 /\ wrapped' = FALSE
  BY ChunkBegins
<1>2. pc' \in Waiting => Limit(pc)' \in Nat
  BY Limits DEF IInv
<1>3. TimeTypeOK'
  <2>1. waited' \in Nat /\ (pc' \in Waiting => Limit(pc)' = 0 \/ waited' <= Limit(pc)')
    BY <1>1, <1>2
  <2>2. /\ nonblock' \in BOOLEAN /\ interrupted' \in BOOLEAN /\ held' \in BOOLEAN
        /\ wrapped' \in BOOLEAN
    BY <1>1 DEF IInv, TimeTypeOK
  <2>3. /\ todo' \in 0 .. Chunk /\ moved' \in 0 .. Chunk /\ todo' + moved' <= Chunk
        /\ elapsed' \in 0 .. MaxElapsed /\ raw' \in 0 .. MaxElapsed /\ pause' \in Nat
    <3>1. Chunk \in Nat /\ MaxElapsed \in Nat /\ todo' \in 0 .. Chunk
      BY <1>1, Constants
    <3>2. moved' = 0 /\ elapsed' = 0 /\ raw' = 0 /\ pause' = 0
      BY <1>1
    <3>3. moved' \in 0 .. Chunk
      BY <3>1, <3>2
    <3>4. todo' + moved' <= Chunk
      <4>1. \A i \in 0 .. Chunk : i \in Int /\ i <= Chunk /\ i + 0 = i
        BY <3>1
      <4>2. todo' + 0 = todo' /\ todo' <= Chunk
        BY <3>1, <4>1
      <4>3. todo' + moved' = todo'
        BY <3>2, <4>2
      <4> QED  BY <4>2, <4>3
    <3>5. elapsed' \in 0 .. MaxElapsed /\ raw' \in 0 .. MaxElapsed /\ pause' \in Nat
      BY <3>1, <3>2
    <3> QED  BY <3>1, <3>3, <3>5, <3>4
  <2>4. pc' \in {"load", "connect", "io", "limit", "sleep", "limited"} \cup Waiting \cup Ends
    BY <1>1 DEF Waiting
  <2>5. avail' \in 0 .. Capacity /\ conf' \in [Items -> 0 .. Modulus - 1]
    BY DEF IInv, TimeTypeOK
  <2> QED  BY <2>1, <2>2, <2>3, <2>4, <2>5 DEF TimeTypeOK
<1>4. Modes'
  BY <1>1 DEF IInv, Modes
<1> QED  BY <1>3, <1>4

\* How the data connection is made.
LEMMA ConnectKeeps ==
  ASSUME IInv, Ask \/ Connect \/ Answered
  PROVE  IInv'
<1> USE DEF IInv
<1>1. TimeTypeOK' /\ Modes'
  <2> USE Constants, Limits
  <2>1. CASE Ask
    <3>1. /\ pc = "load" /\ pc' \in {"connect", "accepting"}
          /\ UNCHANGED <<way, waited, interrupted, held, avail, eof, todo, moved, elapsed, pause,
                         raw, wrapped, conf>>
      BY <2>1 DEF Ask, wait, signals, chunk, pace
    <3>2. nonblock' \in BOOLEAN /\ (nonblock' => pc' = "connect")
      BY <2>1, Zenon DEF Ask
    <3>3. waited' = 0 /\ ~held
      BY <3>1 DEF Modes
    <3> QED  BY <3>1, <3>2, <3>3 DEF TimeTypeOK, Modes, Waiting, Ends
  <2>2. CASE Connect
    <3>1. UNCHANGED <<way, interrupted, held, avail, eof, conf>>
      BY <2>2 DEF Connect, signals, loaded
    <3>0. ~held
      BY <2>2 DEF Connect, Modes
    <3>2. CASE BeginChunk /\ nonblock' = FALSE
      BY <3>1, <3>2, NewChunk
    <3>3. CASE pc' = "refused" /\ nonblock' = FALSE /\ UNCHANGED <<waited, chunk, pace>>
      BY <3>0, <3>1, <3>3 DEF TimeTypeOK, Modes, Waiting, Ends, chunk, pace
    <3>4. CASE nonblock /\ pc' = "connecting" /\ waited' = 0 /\ UNCHANGED <<nonblock, chunk, pace>>
      BY <3>0, <3>1, <3>4 DEF TimeTypeOK, Modes, Waiting, Ends, chunk, pace
    <3> QED  BY <2>2, <3>2, <3>3, <3>4 DEF Connect
  <2>3. CASE Answered
    <3>1. UNCHANGED <<way, interrupted, held, avail, eof, conf>> /\ nonblock' = FALSE
      BY <2>3 DEF Answered, signals, loaded
    <3>0. ~held
      BY <2>3 DEF Answered, Modes
    <3>2. CASE BeginChunk
      BY <3>1, <3>2, NewChunk
    <3>3. CASE pc' = "refused" /\ UNCHANGED <<waited, chunk, pace>>
      BY <3>0, <3>1, <3>3 DEF TimeTypeOK, Modes, Waiting, Ends, chunk, pace
    <3> QED  BY <2>3, <3>2, <3>3 DEF Answered
  <2> QED  BY <2>1, <2>2, <2>3
<1>2. pc' \notin {"load", "sleep", "limited"}
  BY ChunkBegins DEF Ask, Connect, Answered
<1> QED  BY <1>1, <1>2, ElsewhereKeeps

\* How a wait ends, and a transfer's next read() or sendfile().
LEMMA TransferKeeps ==
  ASSUME IInv, ~held, Ready \/ TimeOut \/ ReadChunk \/ ReadEof \/ SendSome \/ Again \/ Done
  PROVE  IInv'
<1> USE DEF IInv
<1>1. TimeTypeOK' /\ Modes'
  <2> USE Constants, Limits
  <2>1. CASE Ready
    BY <2>1 DEF Ready, TimeTypeOK, Modes, Waiting, Ends, wait, signals, chunk, pace, loaded
  <2>2. CASE TimeOut
    BY <2>2 DEF TimeOut, TimeTypeOK, Modes, Waiting, Ends, wait, signals, chunk, pace, loaded
  <2>3. CASE ReadChunk
    BY <2>3 DEF ReadChunk, TimeTypeOK, Modes, Waiting, Ends, wait, signals, pace, loaded
  <2>4. CASE ReadEof
    BY <2>4 DEF ReadEof, TimeTypeOK, Modes, Waiting, Ends, wait, signals, chunk, pace, loaded
  <2>5. CASE SendSome
    BY <2>5 DEF SendSome, TimeTypeOK, Modes, Waiting, Ends, wait, signals, pace, loaded
  <2>6. CASE Again
    <3>1. UNCHANGED <<way, nonblock, interrupted, held, avail, eof, conf>> /\ pc = "limited"
      BY <2>6 DEF Again, signals, loaded
    <3>2. nonblock' = FALSE
      BY <3>1 DEF Modes, TimeTypeOK
    <3> QED  BY <2>6, <3>1, <3>2, NewChunk DEF Again
  <2>7. CASE Done
    BY <2>7 DEF Done, TimeTypeOK, Modes, Waiting, Ends, wait, signals, chunk, pace, loaded
  <2> QED  BY <2>1, <2>2, <2>3, <2>4, <2>5, <2>6, <2>7
<1>2. pc' \notin {"load", "sleep", "limited"}
  BY ChunkBegins DEF Ready, TimeOut, ReadChunk, ReadEof, SendSome, Again, Done
<1> QED  BY <1>1, <1>2, ElsewhereKeeps

\* The pause that is computed makes the chunk last as long as it should.
LEMMA LimitSpeedKeeps ==
  ASSUME IInv, LimitSpeed
  PROVE  IInv'
<1> USE DEF IInv
<1> DEFINE e == Effective(elapsed)
           r == Rate(moved, elapsed)
           max == MaxRate
<1>1. /\ pc = "limit" /\ pc' = "sleep"
      /\ raw' = elapsed
      /\ UNCHANGED <<way, nonblock, waited, interrupted, held, avail, eof, todo, moved,
                     elapsed, conf, rest, file>>
  BY DEF LimitSpeed, wait, signals, chunk, loaded
<1>2. pause' = IF max > 0 /\ r % Modulus > max THEN Pause(r % Modulus, elapsed) ELSE 0
  BY DEF LimitSpeed
<1>3. wrapped' = (r >= Modulus)
  BY DEF LimitSpeed
<1>4. /\ e \in Nat /\ e > 0 /\ moved \in Nat /\ elapsed \in Nat /\ moved * TicksPerSecond \in Nat
      /\ e = elapsed + (IF elapsed = 0 THEN MinElapsed ELSE 0)
  BY Constants DEF TimeTypeOK, Effective
<1>5. max \in Nat /\ max' = max
  BY <1>1, Limits
<1>6. r \in Nat /\ r = (moved * TicksPerSecond) \div e
  BY <1>4, Division DEF Rate
<1>7. \A q \in Nat : Pause(q, elapsed) = ((q - max) * e + max - 1) \div max
  BY DEF Pause
<1> HIDE DEF e, r, max
<1>8. r % Modulus \in Nat /\ (r < Modulus => r % Modulus = r)
  BY <1>6, Constants
<1>9. pause' \in Nat
  <2>1. CASE max > 0 /\ r % Modulus > max
    <3> DEFINE x == ((r % Modulus) - max) * e
    <3>1. x \in Nat
      BY <1>4, <1>5, <1>8, <2>1
    <3>2. pause' = (x + max - 1) \div max
      BY <1>2, <1>7, <1>8, <2>1
    <3> HIDE DEF x
    <3>3. x + max - 1 \in Nat
      BY <1>5, <2>1, <3>1
    <3> QED  BY <1>5, <2>1, <3>2, <3>3, Division
  <2>2. CASE ~(max > 0 /\ r % Modulus > max)
    BY <1>2, <2>2
  <2> QED  BY <2>1, <2>2
<1>10. TimeTypeOK' /\ Modes'
  <2>1. wrapped' \in BOOLEAN
    BY <1>3
  <2> QED  BY <1>1, <1>9, <2>1 DEF TimeTypeOK, Modes, Waiting, Ends
<1>11. Paced'
  <2>1. ASSUME max > 0, r < Modulus
        PROVE  moved * TicksPerSecond
                 <= max * (elapsed + pause' + (IF elapsed = 0 THEN MinElapsed ELSE 0)) + e
    <3>1. r % Modulus = r
      BY <1>8, <2>1
    <3>2. (r <= max /\ pause' = 0) \/ (r > max /\ pause' = Pause(r, elapsed))
      <4>1. pause' = IF r > max THEN Pause(r, elapsed) ELSE 0
        BY <1>2, <2>1, <3>1, Zenon
      <4>2. r <= max <=> ~(r > max)
        BY <1>5, <1>6
      <4> QED  BY <4>1, <4>2, Zenon
    <3>3. Pause(r, elapsed) = ((r - max) * e + max - 1) \div max
      BY <1>6, <1>7
    <3>4. \/ r <= max /\ pause' = 0
          \/ r > max /\ pause' = ((r - max) * e + max - 1) \div max
      BY <3>2, <3>3
    <3>5. moved * TicksPerSecond <= max * (e + pause') + e
      BY <1>4, <1>5, <1>6, <1>9, <2>1, <3>4, PauseSuffices, Constants
    <3>6. elapsed + pause' + (IF elapsed = 0 THEN MinElapsed ELSE 0) = e + pause'
      BY <1>4, <1>9, Constants
    <3> QED  BY <3>5, <3>6
  <2>2. Effective(raw)' = e
    BY <1>1 DEF Effective, e
  <2>3. MaxRate' = max
    BY <1>5 DEF max
  <2>4. ~wrapped' => r < Modulus
    <3>1. ~wrapped' => ~(r >= Modulus)
      BY <1>3, Zenon
    <3> QED  BY <1>6, <3>1, Constants
  <2> QED  BY <1>1, <2>1, <2>2, <2>3, <2>4 DEF Paced
<1> QED  BY <1>1, <1>10, <1>11 DEF Woken, Loading

\* Without a step of time or of the pause, the pace is kept as it is.
LEMMA QuietKeeps ==
  ASSUME IInv,
         \/ Resume \/ Signal \/ LineArrives \/ (~held /\ Wake)
         \/ ClientMoves \/ ClientEnds \/ UNCHANGED allVars
  PROVE  IInv'
<1> USE DEF IInv
<1>1. /\ UNCHANGED <<way, nonblock, waited, todo, moved, conf, rest, file,
                     elapsed, pause, raw, wrapped>>
      /\ interrupted' \in BOOLEAN /\ held' \in BOOLEAN
      /\ held' => held \/ pc \in {"select", "io", "sleep"}
      /\ held' => pc' = pc \/ pc' = "limit"
      /\ avail' \in 0 .. Capacity
      /\ \/ pc' = pc
         \/ pc' \in {pc, "gone"} /\ held
         \/ pc = "io" /\ pc' = "limit"
         \/ pc = "sleep" /\ pc' = "limited" /\ pause = 0
  <2> USE DEF chunk, pace, loaded, TimeTypeOK, Modes
  <2>1. CASE Resume
    BY <2>1 DEF Resume
  <2>2. CASE Signal
    BY <2>2 DEF Signal
  <2>7. CASE LineArrives
    BY <2>7 DEF LineArrives
  <2>3. CASE ~held /\ Wake
    BY <2>3 DEF Wake, wait, signals
  <2>4. CASE ClientMoves
    BY <2>4, Constants DEF ClientMoves, wait, signals
  <2>5. CASE ClientEnds
    BY <2>5 DEF ClientEnds, wait, signals
  <2>6. CASE UNCHANGED allVars
    BY <2>6 DEF allVars, wait, signals
  <2> QED  BY <2>1, <2>2, <2>3, <2>4, <2>5, <2>6, <2>7
<1>2. TimeTypeOK'
  BY <1>1 DEF TimeTypeOK, Waiting, Ends, Limit
<1>3. Modes' /\ Woken'
  <2>1. (nonblock => pc' \in {"connect", "connecting"})
    BY <1>1 DEF Modes
  <2>2. held' => pc' \in {"select", "io", "limit", "sleep"}
    BY <1>1 DEF Modes
  <2>3. pc' \in {"load", "connect"} => waited = 0
    BY <1>1 DEF Modes
  <2> QED  BY <1>1, <2>1, <2>2, <2>3 DEF Modes, Woken
<1>4. Paced'
  <2>1. MaxRate' = MaxRate
    BY <1>1, Limits
  <2> QED  BY <1>1, <2>1 DEF Paced, Effective
<1>5. Loading'
  <2> SUFFICES ASSUME pc = "load", pc' = "load" PROVE Loading'
    BY <1>1 DEF Loading
  <2>1. \A k, item : MeantUpTo(k, item)' = MeantUpTo(k, item)
    BY <1>1 DEF MeantUpTo, UpTo, Naming, Giving
  <2> QED  BY <1>1, <2>1 DEF Loading, MeantUpTo, UpTo, Naming, Giving
<1> QED  BY <1>2, <1>3, <1>4, <1>5

LEMMA TickKeeps ==
  ASSUME IInv, Tick
  PROVE  IInv'
<1> USE DEF IInv
<1>0. pc \in Waiting \cup {"io", "limit", "sleep"}
  BY DEF Tick, Modes, Waiting
<1>1. /\ pc' = pc
      /\ waited' \in {waited, waited + 1}
      /\ pause' = pause \/ (pc = "sleep" /\ pause > 0 /\ pause' = pause - 1)
      /\ elapsed' = IF elapsed < MaxElapsed THEN elapsed + 1 ELSE elapsed
      /\ UNCHANGED <<way, nonblock, interrupted, held, avail, eof, todo, moved, raw, wrapped,
                     conf, rest, file>>
  BY DEF Tick, signals, chunk, loaded
<1>2. waited' = waited \/ (pc \in Waiting /\ waited < Limit(pc) /\ waited' = waited + 1)
  BY DEF Tick
<1>3. TimeTypeOK'
  <2>1. pc \in Waiting => Limit(pc) \in Nat /\ Limit(pc)' = Limit(pc)
    BY <1>1, Limits
  <2>2. pc' \in Waiting => Limit(pc)' = 0 \/ waited' <= Limit(pc)'
    <3>1. waited \in Nat /\ (pc \in Waiting => Limit(pc) = 0 \/ waited <= Limit(pc))
      BY DEF TimeTypeOK
    <3>2. waited' \in Nat /\ (pc \in Waiting => Limit(pc) = 0 \/ waited' <= Limit(pc))
      BY <1>2, <2>1, <3>1
    <3> QED  BY <1>1, <2>1, <3>2
  <2>3. waited' \in Nat /\ elapsed' \in 0 .. MaxElapsed /\ pause' \in Nat
    BY <1>1, Constants DEF TimeTypeOK
  <2> QED  BY <1>1, <2>2, <2>3 DEF TimeTypeOK
<1>4. Modes'
  BY <1>0, <1>1 DEF Modes, Waiting
<1>5. Paced'
  <2>1. MaxRate \in Nat /\ MaxRate' = MaxRate
    BY <1>1, Limits
  <2> DEFINE slack == IF raw = 0 THEN MinElapsed ELSE 0
             mt == moved * TicksPerSecond
             max == MaxRate
  <2> SUFFICES ASSUME pc = "sleep", max > 0, ~wrapped
               PROVE  mt <= max * (elapsed' + pause' + slack) + Effective(raw)
    <3>1. Effective(raw)' = Effective(raw)
      BY <1>1 DEF Effective
    <3>2. pc # "limited"
      BY <1>0 DEF Waiting
    <3> QED  BY <1>1, <2>1, <3>1, <3>2 DEF Paced
  <2>2. mt <= max * (elapsed + pause + slack) + Effective(raw)
    BY DEF Paced
  <2>3. slack \in Nat /\ Effective(raw) \in Nat /\ mt \in Nat
        /\ elapsed \in 0 .. MaxElapsed /\ pause \in Nat
    BY Constants DEF TimeTypeOK, Effective
  <2>4. CASE elapsed < MaxElapsed
    <3> DEFINE before == elapsed + pause + slack
               after == elapsed' + pause' + slack
    <3>1. before \in Nat /\ after \in Nat /\ before <= after
      <4>1. elapsed' = elapsed + 1 /\ elapsed \in Nat
        BY <1>1, <2>3, <2>4, Constants
      <4>2. pause' \in Nat /\ (pause' = pause \/ pause' = pause - 1)
        BY <1>1, <2>3
      <4>3. slack \in Nat /\ pause \in Nat
        BY <2>3
      <4> HIDE DEF slack
      <4> QED  BY <4>1, <4>2, <4>3, TimePasses
    <3> HIDE DEF before, after, slack, mt, max
    <3>2. max \in Nat
      BY <2>1 DEF max
    <3>3. max * before <= max * after /\ max * before \in Int /\ max * after \in Int
      BY <3>1, <3>2, Products
    <3>4. mt <= max * before + Effective(raw)
      BY <2>2 DEF before
    <3>5. mt <= max * after + Effective(raw)
      BY <2>3, <3>3, <3>4
    <3> QED  BY <3>5 DEF after
  <2>5. CASE elapsed = MaxElapsed
    <3>1. max >= MinRate
      BY DEF Modes, MaxRate, Rates
    <3>2. mt <= Chunk * TicksPerSecond
      BY Constants DEF TimeTypeOK
    <3>3. MaxElapsed * MinRate <= MaxElapsed * max
      BY <2>1, <3>1, Constants
    <3> DEFINE more == pause' + slack
    <3>4. more \in Nat /\ elapsed' + pause' + slack = MaxElapsed + more
      BY <1>1, <2>3, <2>5, Constants
    <3> HIDE DEF more, slack, mt, max
    <3>5. max \in Nat
      BY <2>1 DEF max
    <3>6. max * (MaxElapsed + more) = max * MaxElapsed + max * more /\ max * more \in Nat
      BY <3>4, <3>5, Constants, Products
    <3>7. max * MaxElapsed = MaxElapsed * max
      BY <3>5, Constants
    <3> DEFINE a == MaxElapsed * max
               b == max * more
               c == MaxElapsed * MinRate
               d == Chunk * TicksPerSecond
    <3>8. a \in Nat /\ b \in Nat /\ c \in Nat /\ d \in Nat /\ mt <= d /\ c <= a /\ d <= c
      BY <3>2, <3>3, <3>5, <3>6, Constants
    <3>9. max * (elapsed' + pause' + slack) = a + b
      BY <3>4, <3>6, <3>7
    <3> HIDE DEF a, b, c, d
    <3> QED  BY <2>3, <3>8, <3>9
  <2> QED  BY <2>3, <2>4, <2>5, Constants
<1> QED  BY <1>0, <1>1, <1>3, <1>4, <1>5 DEF Woken, Loading, Waiting
-----------------------------------------------------------------------------
LEMMA Starts ==
  ASSUME TimeInit
  PROVE  IInv
<1>1. /\ conf = Default /\ file \in Files /\ rest = file /\ pc = "load"
      /\ nonblock = FALSE /\ waited = 0 /\ interrupted = FALSE /\ held = FALSE /\ wrapped = FALSE
      /\ avail = 0 /\ todo = 0 /\ moved = 0 /\ elapsed = 0 /\ pause = 0 /\ raw = 0
      /\ way \in {"upload", "download"}
  BY DEF TimeInit, ConfigInit
<1>2. TimeTypeOK
  <2>1. conf \in [Items -> 0 .. Modulus - 1]
    BY <1>1, ConfigAssumption
  <2>2. nonblock \in BOOLEAN /\ interrupted \in BOOLEAN /\ held \in BOOLEAN /\ wrapped \in BOOLEAN
    BY <1>1
  <2>3. /\ waited \in Nat /\ avail \in 0 .. Capacity
        /\ todo \in 0 .. Chunk /\ moved \in 0 .. Chunk /\ todo + moved <= Chunk
        /\ elapsed \in 0 .. MaxElapsed /\ raw \in 0 .. MaxElapsed /\ pause \in Nat
    BY <1>1, Constants
  <2>4. /\ pc \in {"load", "connect", "io", "limit", "sleep", "limited"} \cup Waiting \cup Ends
        /\ pc \notin Waiting
    BY <1>1 DEF Waiting
  <2> QED  BY <2>1, <2>2, <2>3, <2>4 DEF TimeTypeOK
<1>3. Modes
  BY <1>1, ConfigAssumption DEF Modes
<1>4. Paced /\ Woken
  BY <1>1 DEF Paced, Woken
<1>5. Loading
  <2>1. /\ file \in Seq({file[i] : i \in DOMAIN file})
        /\ DOMAIN file = 1 .. Len(file) /\ Len(file) \in Nat
    BY <1>1, ConfigAssumption
  <2>2. \A item : UpTo(0, Giving(item)) = {} /\ UpTo(0, Naming(item)) = {}
    BY <2>1 DEF UpTo, Giving, Naming
  <2>3. \A item \in Items : MeantUpTo(0, item) = Default[item]
    BY <2>2 DEF MeantUpTo
  <2>4. Default = [item \in Items |-> Default[item]]
    BY ConfigAssumption
  <2>5. conf = [item \in Items |-> MeantUpTo(0, item)]
    BY <1>1, <2>3, <2>4
  <2>6. Len(file) - Len(rest) = 0 /\ \A i \in 1 .. Len(rest) : 0 + i = i
    BY <1>1, <2>1
  <2> QED  BY <1>1, <2>1, <2>5, <2>6 DEF Loading
<1> QED  BY <1>2, <1>3, <1>4, <1>5 DEF IInv

\* The settings are those of the lines read so far, a wait stays within its
\* timeout, O_NONBLOCK is set for connect() only, and the pause that is left
\* makes up for what a chunk was too fast.
THEOREM TransferHolds == TimeSpec => []IInv
<1>1. TimeInit => IInv
  BY Starts
<1>2. IInv /\ [TimeNext]_allVars => IInv'
  <2> SUFFICES ASSUME IInv, [TimeNext]_allVars PROVE IInv'
    OBVIOUS
  <2>1. CASE Load
    BY <2>1, LoadKeeps
  <2>2. CASE Ask \/ Connect \/ Answered
    BY <2>2, ConnectKeeps
  <2>3. CASE ~held /\ (Ready \/ TimeOut \/ ReadChunk \/ ReadEof \/ SendSome \/ Again \/ Done)
    BY <2>3, TransferKeeps
  <2>4. CASE LimitSpeed
    BY <2>4, LimitSpeedKeeps
  <2>5. CASE Resume \/ Signal \/ LineArrives \/ (~held /\ Wake) \/ ClientMoves \/ ClientEnds \/ UNCHANGED allVars
    BY <2>5, QuietKeeps
  <2>6. CASE Tick
    BY <2>6, TickKeeps
  <2> QED  BY <2>1, <2>2, <2>3, <2>4, <2>5, <2>6 DEF TimeNext, Process
<1> QED  BY <1>1, <1>2, PTL DEF TimeSpec

\* The settings fit an unsigned int, a wait stays within its timeout, and the
\* counts of bytes stay within a chunk and the buffer.
THEOREM TransferTypes == TimeSpec => []TimeTypeOK
<1>1. IInv => TimeTypeOK
  BY DEF IInv
<1> QED  BY <1>1, TransferHolds, PTL

\* Whatever the file, of any length, parse_config() gives every item the value
\* of the last line that has one for it, and raises a rate that is named.
THEOREM SettingsAsWritten == TimeSpec => []LoadedAsWritten
<1>1. IInv => LoadedAsWritten
  <2> SUFFICES ASSUME IInv, pc = "load", rest = <<>>
               PROVE  conf = [item \in Items |-> Meant(item)]
    BY DEF LoadedAsWritten
  <2>1. /\ file \in Files /\ Len(rest) = 0
        /\ conf = [item \in Items |-> MeantUpTo(Len(file) - Len(rest), item)]
    BY DEF IInv, Loading
  <2>2. DOMAIN file = 1 .. Len(file) /\ Len(file) \in Nat
    BY <2>1, ConfigAssumption
  <2>3. conf = [item \in Items |-> MeantUpTo(Len(file), item)]
    BY <2>1, <2>2
  <2>4. \A item : /\ UpTo(Len(file), Giving(item)) = Giving(item)
                  /\ UpTo(Len(file), Naming(item)) = Naming(item)
    BY <2>2 DEF UpTo, Giving, Naming
  <2>5. \A item \in Items : MeantUpTo(Len(file), item) = Meant(item)
    BY <2>4 DEF MeantUpTo, Meant
  <2> QED  BY <2>3, <2>5
<1> QED  BY <1>1, TransferHolds, PTL

\* connect_with_timeout() hands over a descriptor that blocks again.
THEOREM TransfersBlock == TimeSpec => []BlockingForTransfers
<1>1. IInv => BlockingForTransfers
  BY DEF IInv, Modes, BlockingForTransfers
<1> QED  BY <1>1, TransferHolds, PTL

\* limit_transmission_speed() keeps the maximal rate, for any limit, chunk and
\* clock, as long as the rate of the chunk fits 32 bits.
THEOREM PaceHolds == TimeSpec => []PaceKeptUnlessWrapped
<1>1. IInv => PaceKeptUnlessWrapped
  <2> SUFFICES ASSUME IInv, pc = "limited", MaxRate > 0, ~wrapped
               PROVE  moved * TicksPerSecond <=
                        MaxRate * (elapsed + (IF raw = 0 THEN MinElapsed ELSE 0)) + Effective(raw)
    BY DEF PaceKeptUnlessWrapped
  <2>1. pause = 0 /\ elapsed \in Nat
    BY Constants DEF IInv, Woken, TimeTypeOK
  <2>2. elapsed + pause = elapsed
    BY <2>1
  <2>3. moved * TicksPerSecond <=
          MaxRate * (elapsed + pause + (IF raw = 0 THEN MinElapsed ELSE 0)) + Effective(raw)
    BY DEF IInv, Paced
  <2> QED  BY <2>2, <2>3
<1> QED  BY <1>1, TransferHolds, PTL
=============================================================================
