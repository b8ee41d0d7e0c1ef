---------------------------- MODULE QueueLemmas ----------------------------
(***************************************************************************)
(* What putting and taking does to the content of a queue.  The proofs     *)
(* about the event loop, the command queue and the FIFO of SDO requests    *)
(* speak of the elements of a queue and of their order, never of their     *)
(* positions.  The completions that a handler of the owner has yet to make *)
(* are a list of pairs of a request and its result.                        *)
(***************************************************************************)
EXTENDS Integers, Sequences, TLAPS, SequenceTheorems

\* x is in the queue; it is there once only; every x is before every y.
Has(s, x) == \E i \in 1 .. Len(s) : s[i] = x
AtMostOne(s, x) == \A i, j \in 1 .. Len(s) : s[i] = x /\ s[j] = x => i = j
Before(s, x, y) == \A i, j \in 1 .. Len(s) : s[i] = x /\ s[j] = y => i < j

\* In a list of pairs: there is a pair for k; there is only one.
HasKey(ts, k) == \E i \in 1 .. Len(ts) : ts[i][1] = k
OneKey(ts, k) == \A i, j \in 1 .. Len(ts) : ts[i][1] = k /\ ts[j][1] = k => i = j

\* The empty queue.
LEMMA QueueEmpty ==
    /\ \A y : ~Has(<<>>, y) /\ AtMostOne(<<>>, y)
    /\ \A y, z : Before(<<>>, y, z)
BY DEF Has, AtMostOne, Before

\* Putting x at the end of the queue.
LEMMA QueuePut ==
    ASSUME NEW T, NEW s \in Seq(T), NEW x \in T
    PROVE  /\ Append(s, x) \in Seq(T) /\ Append(s, x) # <<>> /\ Len(Append(s, x)) = Len(s) + 1
           /\ \A y : Has(Append(s, x), y) <=> Has(s, y) \/ x = y
           /\ \A y : AtMostOne(s, y) /\ (x = y => ~Has(s, y)) => AtMostOne(Append(s, x), y)
           /\ \A y, z : Before(s, y, z) /\ y # z /\ (x = y => ~Has(s, z))
                          => Before(Append(s, x), y, z)
<1>1. Append(s, x) \in Seq(T) /\ Len(Append(s, x)) = Len(s) + 1 /\ Len(s) \in Nat
  OBVIOUS
<1>0. Append(s, x) # <<>>
  BY <1>1
<1>2. \A i \in 1 .. Len(s) + 1 : Append(s, x)[i] = IF i = Len(s) + 1 THEN x ELSE s[i]
  OBVIOUS
<1>3. \A y : Has(Append(s, x), y) <=> Has(s, y) \/ x = y
  BY <1>1, <1>2 DEF Has
<1>4. \A y : AtMostOne(s, y) /\ (x = y => ~Has(s, y)) => AtMostOne(Append(s, x), y)
  BY <1>1, <1>2 DEF Has, AtMostOne
<1>5. \A y, z : Before(s, y, z) /\ y # z /\ (x = y => ~Has(s, z))
                          => Before(Append(s, x), y, z)
  BY <1>1, <1>2 DEF Has, Before
<1>6. QED
  BY <1>0, <1>1, <1>3, <1>4, <1>5

\* Taking the first element.
LEMMA QueueTake ==
    ASSUME NEW T, NEW s \in Seq(T), s # <<>>
    PROVE  /\ Tail(s) \in Seq(T) /\ Head(s) \in T
           /\ \A y : Has(s, y) <=> Head(s) = y \/ Has(Tail(s), y)
           /\ \A y : AtMostOne(s, y) => /\ AtMostOne(Tail(s), y)
                                        /\ Head(s) = y => ~Has(Tail(s), y)
           /\ \A y, z : Before(s, y, z) => /\ Before(Tail(s), y, z)
                                           /\ Head(s) = z => ~Has(Tail(s), y)
<1>1. /\ Tail(s) \in Seq(T) /\ Len(Tail(s)) = Len(s) - 1 /\ Len(s) \in Nat \ {0}
      /\ Head(s) = s[1] /\ Head(s) \in T
  OBVIOUS
<1>2. \A i \in 1 .. Len(s) - 1 : Tail(s)[i] = s[i + 1]
  OBVIOUS
<1>3. ASSUME NEW y
      PROVE  Has(s, y) <=> Head(s) = y \/ Has(Tail(s), y)
  <2>1. ASSUME NEW i \in 1 .. Len(s), s[i] = y, i # 1
        PROVE  Has(Tail(s), y)
    <3>1. i - 1 \in 1 .. Len(Tail(s)) /\ Tail(s)[i - 1] = s[i]
      BY <1>1, <1>2, <2>1
    <3>2. QED
      BY <2>1, <3>1 DEF Has
  <2>2. QED
    BY <1>1, <1>2, <2>1 DEF Has
<1>4. \A y : AtMostOne(s, y) => /\ AtMostOne(Tail(s), y)
                                /\ Head(s) = y => ~Has(Tail(s), y)
  BY <1>1, <1>2 DEF Has, AtMostOne
<1>5. \A y, z : Before(s, y, z) => /\ Before(Tail(s), y, z)
                                   /\ Head(s) = z => ~Has(Tail(s), y)
  BY <1>1, <1>2 DEF Has, Before
<1>6. QED
  BY <1>1, <1>3, <1>4, <1>5

\* One or two elements put at once.
LEMMA QueueConcat ==
    ASSUME NEW T, NEW s \in Seq(T), NEW x \in T, NEW y \in T
    PROVE  /\ s \o <<>> = s
           /\ s \o <<x>> = Append(s, x)
           /\ s \o <<x, y>> = Append(Append(s, x), y)
           /\ <<>> \in Seq(T)
<1>1. s \o <<>> = s /\ s \o <<x>> = Append(s, x) /\ <<>> \in Seq(T)
  OBVIOUS
<1>2. s \o <<x, y>> = Append(Append(s, x), y)
  <2>1. <<x, y>> \in Seq(T) /\ Len(<<x, y>>) = 2 /\ <<x, y>>[1] = x /\ <<x, y>>[2] = y
    OBVIOUS
  <2>2. s \o <<x, y>> \in Seq(T) /\ Append(Append(s, x), y) \in Seq(T)
    BY <2>1
  <2>3. Len(s \o <<x, y>>) = Len(Append(Append(s, x), y))
    BY <2>1
  <2>4. \A i \in 1 .. Len(s) + 2 : (s \o <<x, y>>)[i] = Append(Append(s, x), y)[i]
    BY <2>1
  <2>5. QED
    BY <2>1, <2>2, <2>3, <2>4, SeqEqual
<1>3. QED
  BY <1>1, <1>2

-----------------------------------------------------------------------------
(* Lists of pairs                                                          *)

\* The empty list.
LEMMA KeyedNone ==
    \A k : ~HasKey(<<>>, k) /\ OneKey(<<>>, k)
BY DEF HasKey, OneKey

\* A list of one pair.
LEMMA KeyedOne ==
    ASSUME NEW K, NEW V, NEW x \in K, NEW v \in V
    PROVE  /\ <<<<x, v>>>> \in Seq(K \X V) /\ <<<<x, v>>>> # <<>>
           /\ Len(<<<<x, v>>>>) = 1 /\ <<<<x, v>>>>[1] = <<x, v>>
           /\ \A k : HasKey(<<<<x, v>>>>, k) <=> x = k
           /\ \A k : OneKey(<<<<x, v>>>>, k)
           /\ \A y : Has(<<<<x, v>>>>, y) <=> <<x, v>> = y
<1> DEFINE ts == <<<<x, v>>>>
<1>1. ts \in Seq(K \X V) /\ Len(ts) = 1 /\ ts[1] = <<x, v>> /\ ts # <<>>
  OBVIOUS
<1>2. ts[1][1] = x /\ ts[1] = <<x, v>> /\ 1 .. Len(ts) = {1}
  BY <1>1
<1> HIDE DEF ts
<1>3. \A k : HasKey(ts, k) <=> x = k
  BY <1>2 DEF HasKey
<1>4. \A k : OneKey(ts, k)
  BY <1>2 DEF OneKey
<1>5. \A y : Has(ts, y) <=> <<x, v>> = y
  BY <1>2 DEF Has
<1>6. QED
  BY <1>1, <1>3, <1>4, <1>5 DEF ts

\* Taking the first pair.
LEMMA KeyedTake ==
    ASSUME NEW K, NEW V, NEW ts \in Seq(K \X V), ts # <<>>
    PROVE  /\ Tail(ts) \in Seq(K \X V) /\ ts[1] \in K \X V
           /\ Len(ts) = 1 <=> Tail(ts) = <<>>
           /\ \A k : HasKey(ts, k) <=> ts[1][1] = k \/ HasKey(Tail(ts), k)
           /\ \A k : OneKey(ts, k) => /\ OneKey(Tail(ts), k)
                                      /\ ts[1][1] = k => ~HasKey(Tail(ts), k)
<1>1. /\ Tail(ts) \in Seq(K \X V) /\ Len(Tail(ts)) = Len(ts) - 1
      /\ Len(ts) \in Nat \ {0} /\ 1 \in 1 .. Len(ts) /\ ts[1] \in K \X V
  OBVIOUS
<1>2. \A i \in 1 .. Len(ts) - 1 : Tail(ts)[i] = ts[i + 1] /\ i + 1 \in 1 .. Len(ts)
  OBVIOUS
<1>3. \A i \in 1 .. Len(ts) : i # 1 => i - 1 \in 1 .. Len(Tail(ts)) /\ Tail(ts)[i - 1] = ts[i]
  BY <1>1, <1>2
<1>4. Len(ts) = 1 <=> Tail(ts) = <<>>
  <2>1. Tail(ts) = <<>> <=> Len(Tail(ts)) = 0
    BY <1>1, EmptySeq
  <2>2. QED
    BY <1>1, <2>1
<1>5. \A k : HasKey(ts, k) <=> ts[1][1] = k \/ HasKey(Tail(ts), k)
  <2> TAKE k
  <2>1. HasKey(ts, k) => ts[1][1] = k \/ HasKey(Tail(ts), k)
    BY <1>1, <1>3 DEF HasKey
  <2>2. ts[1][1] = k \/ HasKey(Tail(ts), k) => HasKey(ts, k)
    BY <1>1, <1>2 DEF HasKey
  <2>3. QED
    BY <2>1, <2>2
<1>6. \A k : OneKey(ts, k) => /\ OneKey(Tail(ts), k)
                              /\ ts[1][1] = k => ~HasKey(Tail(ts), k)
  BY <1>1, <1>2 DEF HasKey, OneKey
<1>7. QED
  BY <1>1, <1>4, <1>5, <1>6

\* One list after another.
LEMMA KeyedConcat ==
    ASSUME NEW K, NEW V, NEW s \in Seq(K \X V), NEW u \in Seq(K \X V)
    PROVE  /\ s \o u \in Seq(K \X V)
           /\ \A k : HasKey(s \o u, k) <=> HasKey(s, k) \/ HasKey(u, k)
           /\ \A y : Has(s \o u, y) <=> Has(s, y) \/ Has(u, y)
           /\ \A k : OneKey(s, k) /\ OneKey(u, k) /\ ~(HasKey(s, k) /\ HasKey(u, k))
                         => OneKey(s \o u, k)
<1> DEFINE w == s \o u
           m == Len(s)
           l == Len(u)
<1>1. w \in Seq(K \X V) /\ Len(w) = m + l /\ m \in Nat /\ l \in Nat
  OBVIOUS
<1>2. \A i \in 1 .. m : w[i] = s[i] /\ i \in 1 .. Len(w)
  OBVIOUS
<1>3. \A i \in 1 .. l : w[i + m] = u[i] /\ i + m \in 1 .. Len(w)
  OBVIOUS
<1> HIDE DEF w
<1>4. \A i \in 1 .. Len(w) : i \in 1 .. m \/ (i > m /\ i - m \in 1 .. l /\ w[i] = u[i - m])
  <2> TAKE i \in 1 .. Len(w)
  <2>1. CASE i <= m
    BY <1>1, <2>1
  <2>2. CASE i > m
    <3>1. i - m \in 1 .. l /\ (i - m) + m = i
      BY <1>1, <2>2
    <3>2. QED
      BY <1>3, <2>2, <3>1
  <2>3. QED
    BY <1>1, <2>1, <2>2
<1> HIDE DEF m, l
<1>5. \A k : HasKey(w, k) <=> HasKey(s, k) \/ HasKey(u, k)
  <2> TAKE k
  <2>1. HasKey(w, k) => HasKey(s, k) \/ HasKey(u, k)
    BY <1>2, <1>4 DEF HasKey, m, l
  <2>2. HasKey(s, k) \/ HasKey(u, k) => HasKey(w, k)
    BY <1>2, <1>3 DEF HasKey, m, l
  <2>3. QED
    BY <2>1, <2>2
<1>6. \A y : Has(w, y) <=> Has(s, y) \/ Has(u, y)
  <2> TAKE y
  <2>1. Has(w, y) => Has(s, y) \/ Has(u, y)
    BY <1>2, <1>4 DEF Has, m, l
  <2>2. Has(s, y) \/ Has(u, y) => Has(w, y)
    BY <1>2, <1>3 DEF Has, m, l
  <2>3. QED
    BY <2>1, <2>2
<1>7. ASSUME NEW k, OneKey(s, k), OneKey(u, k), ~(HasKey(s, k) /\ HasKey(u, k)),
             NEW i \in 1 .. Len(w), NEW j \in 1 .. Len(w), w[i][1] = k, w[j][1] = k
      PROVE  i = j
  <2>1. CASE i \in 1 .. m /\ j \in 1 .. m
    BY <1>2, <1>7, <2>1 DEF OneKey, m
  <2>2. CASE i > m /\ j > m
    <3>1. i - m \in 1 .. l /\ j - m \in 1 .. l /\ u[i - m][1] = k /\ u[j - m][1] = k
      BY <1>1, <1>4, <1>7, <2>2
    <3>2. i - m = j - m
      BY <1>7, <3>1 DEF OneKey, l
    <3>3. QED
      BY <1>1, <3>2
  <2>3. \A x \in 1 .. Len(w) : w[x][1] = k /\ x \in 1 .. m => HasKey(s, k)
    BY <1>2 DEF HasKey, m
  <2>4. \A x \in 1 .. Len(w) : w[x][1] = k /\ x > m => HasKey(u, k)
    BY <1>1, <1>4 DEF HasKey, l
  <2>5. (i \in 1 .. m \/ i > m) /\ (j \in 1 .. m \/ j > m)
    BY <1>4
  <2>6. QED
    BY <1>7, <2>1, <2>2, <2>3, <2>4, <2>5
<1>8. QED
  BY <1>1, <1>5, <1>6, <1>7 DEF OneKey, w

=============================================================================
