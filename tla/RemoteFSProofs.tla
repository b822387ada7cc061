---------------------------- MODULE RemoteFSProofs ----------------------------
(***************************************************************************)
(* Safety properties of RemoteFS for every number of reads, every size of  *)
(* the file and of a read, every directory and every ACL.                  *)
(***************************************************************************)
EXTENDS RemoteFS, SequenceTheorems, WellFoundedInduction, TLAPS

\* One step of the object that is looked at, or one that leaves everything as it is.
Step == [UseFile \/ UseDir \/ UseAttrs]_remoteVars

-----------------------------------------------------------------------------
(* What the recursive definition and the choices of the model give.  A set of natural numbers
   has a least one: a claim about every number, or every directory, that failed at all would
   fail first somewhere, and it holds there because it holds just before. *)

\* A set of natural numbers has a least one.
LEMMA LeastNumber ==
  ASSUME NEW T, T \subseteq Nat, T # {}
  PROVE \E m \in T : \A n \in T : m <= n
<1>1. IsWellFoundedOn(OpToRel(<, Nat), Nat)
  BY Zenon, NatLessThanWellFounded
<1>2. PICK m \in T : \A n \in T : <<n, m>> \notin OpToRel(<, Nat)
  BY <1>1, WFMin, Zenon
<1>3. \A n \in T : ~(n < m)
  BY <1>2 DEF OpToRel
<1> QED BY <1>3

\* One step of the recursion behind Visible.
Grown(s, a, i) == IF i <= a THEN <<>> ELSE IF i \in hidden THEN s ELSE Append(s, i)

LEMMA GrownType == ASSUME NEW a, NEW i \in Nat, NEW s \in Seq(Nat) PROVE Grown(s, a, i) \in Seq(Nat)
BY DEF Grown

\* The equations of the recursion up to n.
Approximates(f, a, n) ==
  /\ f \in [0 .. n -> Seq(Nat)] /\ f[0] = <<>>
  /\ \A i \in 1 .. n : f[i] = Grown(f[i - 1], a, i)

LEMMA ApproximationGrows ==
  ASSUME NEW a \in Nat, NEW k \in Nat, NEW f, Approximates(f, a, k)
  PROVE  \E g : Approximates(g, a, k + 1)
<1> DEFINE last == Grown(f[k], a, k + 1)
           g == [i \in 0 .. k + 1 |-> IF i = k + 1 THEN last ELSE f[i]]
<1>1. f[k] \in Seq(Nat) /\ last \in Seq(Nat)
  <2>1. f[k] \in Seq(Nat)
    BY DEF Approximates
  <2> QED BY <2>1, GrownType
<1>2. g[k + 1] = Grown(f[k], a, k + 1) /\ \A i \in 0 .. k : g[i] = f[i]
  OBVIOUS
<1>3. g \in [0 .. k + 1 -> Seq(Nat)]
  BY <1>1 DEF Approximates
<1> HIDE DEF g
<1>4. \A i \in 1 .. k + 1 : g[i] = Grown(g[i - 1], a, i)
  <2> SUFFICES ASSUME NEW i \in 1 .. k + 1 PROVE g[i] = Grown(g[i - 1], a, i)
    OBVIOUS
  <2>1. i - 1 \in 0 .. k /\ g[i - 1] = f[i - 1]
    BY <1>2
  <2>2. CASE i = k + 1
    BY <1>2, <2>1, <2>2
  <2>3. CASE i \in 1 .. k
    BY <1>2, <2>1, <2>3 DEF Approximates
  <2> QED BY <2>2, <2>3
<1>5. g[0] = <<>>
  BY <1>2 DEF Approximates
<1> QED BY <1>3, <1>4, <1>5 DEF Approximates

LEMMA Approximation ==
  ASSUME NEW a \in Nat, NEW n \in Nat PROVE \E f : Approximates(f, a, n)
<1> DEFINE T == {k \in Nat : \A f : ~ Approximates(f, a, k)}
<1> SUFFICES ASSUME T # {} PROVE FALSE
  OBVIOUS
<1>1. PICK k \in T : \A m \in T : k <= m
  <2>1. T \subseteq Nat
    OBVIOUS
  <2> HIDE DEF T
  <2> QED BY <2>1, LeastNumber
<1>2. k # 0
  <2>1. Approximates([i \in 0 .. 0 |-> <<>>], a, 0)
    BY DEF Approximates
  <2> QED BY <2>1, <1>1
<1>3. k - 1 \in Nat /\ k - 1 \notin T
  BY <1>1, <1>2
<1>4. PICK f : Approximates(f, a, k - 1)
  BY <1>3
<1>5. \E g : Approximates(g, a, (k - 1) + 1)
  BY <1>3, <1>4, ApproximationGrows
<1>6. (k - 1) + 1 = k
  BY <1>1
<1> QED BY <1>1, <1>5, <1>6

LEMMA ApproximationsAgree ==
  ASSUME NEW a \in Nat, NEW m \in Nat, NEW n \in Nat, m <= n, NEW f, NEW g,
         Approximates(f, a, m), Approximates(g, a, n)
  PROVE  f[m] = g[m]
<1> SUFFICES ASSUME f[m] # g[m] PROVE FALSE
  OBVIOUS
<1> DEFINE T == {k \in 0 .. m : f[k] # g[k]}
<1>1. PICK k \in T : \A j \in T : k <= j
  <2>1. T \subseteq Nat /\ m \in T
    OBVIOUS
  <2> HIDE DEF T
  <2> QED BY <2>1, LeastNumber
<1>2. k # 0
  BY DEF Approximates
<1>3. k - 1 \in 0 .. m /\ k - 1 \notin T
  BY <1>1, <1>2
<1>4. k \in 1 .. m /\ k \in 1 .. n /\ f[k - 1] = g[k - 1]
  BY <1>2, <1>3
<1>5. f[k] = Grown(f[k - 1], a, k) /\ g[k] = Grown(g[k - 1], a, k)
  BY <1>4 DEF Approximates
<1> QED BY <1>4, <1>5

LEMMA VisibleIs ==
  ASSUME NEW a \in Nat
  PROVE  /\ Visible(a, 0) = <<>>
         /\ \A b \in Nat : /\ Visible(a, b) \in Seq(Nat)
                           /\ Visible(a, b + 1) = Grown(Visible(a, b), a, b + 1)
<1> DEFINE Rough(n) == CHOOSE f : Approximates(f, a, n)
           h == [n \in Nat |-> Rough(n)[n]]
           Eq(f) == f = [i \in Nat |-> IF i <= a THEN <<>>
                       ELSE IF i \in hidden THEN f[i - 1] ELSE Append(f[i - 1], i)]
<1>1. \A n \in Nat : Approximates(Rough(n), a, n)
  BY Approximation
<1>2. \A n \in Nat : h[n] = Rough(n)[n]
  OBVIOUS
<1> HIDE DEF Rough
<1>3. h[0] = <<>> /\ \A n \in Nat : h[n] \in Seq(Nat)
  BY <1>1, <1>2 DEF Approximates
<1>4. ASSUME NEW n \in Nat PROVE h[n + 1] = Grown(h[n], a, n + 1)
  <2>1. Rough(n + 1)[n + 1] = Grown(Rough(n + 1)[n], a, n + 1)
    BY <1>1 DEF Approximates
  <2>2. Rough(n)[n] = Rough(n + 1)[n]
    BY <1>1, ApproximationsAgree
  <2> QED BY <1>2, <2>1, <2>2
<1>5. ASSUME NEW n \in Nat
      PROVE  h[n] = IF n <= a THEN <<>> ELSE IF n \in hidden THEN h[n - 1] ELSE Append(h[n - 1], n)
  <2>1. CASE n = 0
    BY <1>3, <2>1
  <2>2. CASE n # 0
    <3>1. n - 1 \in Nat /\ (n - 1) + 1 = n
      BY <2>2
    <3>2. h[n] = Grown(h[n - 1], a, n)
      BY <3>1, <1>4
    <3> QED BY <3>2 DEF Grown
  <2> QED BY <2>1, <2>2
<1>6. Eq(h)
  <2>1. h = [n \in Nat |-> h[n]]
    OBVIOUS
  <2> HIDE DEF h
  <2> QED BY <1>5, <2>1
<1> DEFINE v == CHOOSE f : Eq(f)
<1>7. Eq(v)
  <2> HIDE DEF Eq, h
  <2> QED BY <1>6
<1>8. \A b : Visible(a, b) = v[b]
  BY DEF Visible
<1> HIDE DEF v
<1>9. \A n \in Nat : v[n] = IF n <= a THEN <<>> ELSE IF n \in hidden THEN v[n - 1] ELSE Append(v[n - 1], n)
  BY <1>7
<1>10. v[0] = <<>> /\ \A n \in Nat : v[n + 1] = Grown(v[n], a, n + 1)
  BY <1>9 DEF Grown
<1>11. \A n \in Nat : v[n] \in Seq(Nat)
  <2> DEFINE T == {k \in Nat : v[k] \notin Seq(Nat)}
  <2> SUFFICES ASSUME T # {} PROVE FALSE
    OBVIOUS
  <2>1. PICK k \in T : \A j \in T : k <= j
    <3>1. T \subseteq Nat
      OBVIOUS
    <3> HIDE DEF T
    <3> QED BY <3>1, LeastNumber
  <2>2. k # 0
    <3>1. v[0] \in Seq(Nat)
      BY <1>10
    <3> QED BY <2>1, <3>1
  <2>3. k - 1 \in Nat /\ v[k - 1] \in Seq(Nat) /\ (k - 1) + 1 = k
    BY <2>1, <2>2
  <2>4. v[k] = Grown(v[k - 1], a, k)
    BY <2>3, <1>10
  <2> QED BY <2>1, <2>3, <2>4, GrownType
<1> QED BY <1>8, <1>10, <1>11

LEMMA VisibleNone ==
  ASSUME NEW a \in Nat, NEW b \in Nat, b <= a PROVE Visible(a, b) = <<>>
<1>1. CASE b = 0
  BY <1>1, VisibleIs
<1>2. CASE b # 0
  <2>1. b - 1 \in Nat /\ (b - 1) + 1 = b
    BY <1>2
  <2> QED BY <2>1, VisibleIs DEF Grown
<1> QED BY <1>1, <1>2

LEMMA GrownBehind ==
  ASSUME NEW a \in Nat, NEW b \in Nat, NEW k \in Nat, a <= b, b < k,
         NEW s \in Seq(Nat), NEW t \in Seq(Nat), NEW u, u = s \o t
  PROVE  Grown(u, a, k) = s \o Grown(t, b, k)
<1>1. Append(s \o t, k) = s \o Append(t, k)
  <2>1. s \o t \in Seq(Nat) /\ <<k>> \in Seq(Nat)
    OBVIOUS
  <2>2. Append(s \o t, k) = (s \o t) \o <<k>> /\ Append(t, k) = t \o <<k>>
    BY <2>1, AppendIsConcat
  <2>3. (s \o t) \o <<k>> = s \o (t \o <<k>>)
    BY <2>1, ConcatAssociative
  <2> QED BY <2>2, <2>3, Zenon
<1>2. ~ (k <= a) /\ ~ (k <= b)
  OBVIOUS
<1> QED BY <1>1, <1>2, Zenon DEF Grown

\* A directory that is gone through in two pieces gives the entries of the one and then those
\* of the other.
LEMMA VisibleConcat ==
  ASSUME NEW a \in Nat, NEW b \in Nat, NEW c \in Nat, a <= b, b <= c
  PROVE  Visible(a, c) = Visible(a, b) \o Visible(b, c)
<1> DEFINE T == {k \in Nat : b <= k /\ Visible(a, k) # Visible(a, b) \o Visible(b, k)}
<1> SUFFICES ASSUME T # {} PROVE FALSE
  OBVIOUS
<1>1. PICK k \in T : \A j \in T : k <= j
  <2>1. T \subseteq Nat
    OBVIOUS
  <2> HIDE DEF T
  <2> QED BY <2>1, LeastNumber
<1>2. k # b
  <2>1. Visible(b, b) = <<>> /\ Visible(a, b) \in Seq(Nat)
    BY VisibleNone, VisibleIs
  <2>2. Visible(a, b) \o <<>> = Visible(a, b)
    BY <2>1
  <2> QED BY <2>1, <2>2, <1>1
<1>3. k - 1 \in Nat /\ b <= k - 1 /\ (k - 1) + 1 = k /\ k - 1 \notin T /\ b < k
  BY <1>1, <1>2
<1>4. Visible(a, k - 1) = Visible(a, b) \o Visible(b, k - 1)
  BY <1>3
<1>5. Visible(a, k) = Grown(Visible(a, k - 1), a, k) /\ Visible(b, k) = Grown(Visible(b, k - 1), b, k)
  BY <1>3, VisibleIs
<1>6. Visible(a, b) \in Seq(Nat) /\ Visible(b, k - 1) \in Seq(Nat)
  BY <1>3, VisibleIs
<1>7. Grown(Visible(a, b) \o Visible(b, k - 1), a, k)
        = Visible(a, b) \o Grown(Visible(b, k - 1), b, k)
  <2>1. k \in Nat /\ b < k
    BY <1>1, <1>3
  <2> DEFINE s == Visible(a, b)
             t == Visible(b, k - 1)
  <2>2. s \in Seq(Nat) /\ t \in Seq(Nat)
    BY <1>6
  <2> DEFINE u == s \o t
  <2> HIDE DEF T, s, t
  <2>3. Grown(u, a, k) = s \o Grown(t, b, k)
    <3>1. u = s \o t
      OBVIOUS
    <3>2. \A x \in Seq(Nat), y \in Seq(Nat) : \A z : z = x \o y => Grown(z, a, k) = x \o Grown(y, b, k)
      BY <2>1, GrownBehind
    <3> QED BY <2>2, <3>1, <3>2
  <2> QED BY <2>3 DEF s, t, u
<1> QED BY <1>1, <1>4, <1>5, <1>7

\* What Visible gives: the entries of the range that are not left out, each one once, in order.
Lists(s, S) ==
  /\ s \in Seq(S)
  /\ \A i \in 1 .. Len(s), j \in 1 .. Len(s) : i < j => s[i] < s[j]
  /\ \A e \in S : \E i \in 1 .. Len(s) : s[i] = e

Shown(a, b) == {e \in a + 1 .. b : e \notin hidden}

LEMMA VisibleLists ==
  ASSUME NEW a \in Nat, NEW b \in Nat PROVE Lists(Visible(a, b), Shown(a, b))
<1> DEFINE T == {k \in Nat : ~ Lists(Visible(a, k), Shown(a, k))}
<1> SUFFICES ASSUME T # {} PROVE FALSE
  OBVIOUS
<1>1. PICK k \in T : \A j \in T : k <= j
  <2>1. T \subseteq Nat
    OBVIOUS
  <2> HIDE DEF T
  <2> QED BY <2>1, LeastNumber
<1>2. a < k
  <2> SUFFICES ASSUME k <= a PROVE FALSE
    BY <1>1
  <2>1. Visible(a, k) = <<>> /\ Shown(a, k) = {}
    BY <1>1, VisibleNone DEF Shown
  <2>2. Lists(<<>>, {})
    BY DEF Lists
  <2> QED BY <1>1, <2>1, <2>2
<1>3. k - 1 \in Nat /\ (k - 1) + 1 = k /\ k - 1 \notin T
  BY <1>1, <1>2
<1> DEFINE s == Visible(a, k - 1)
           S == Shown(a, k - 1)
<1>4. Lists(s, S) /\ Visible(a, k) = Grown(s, a, k)
  BY <1>3, VisibleIs
<1>5. CASE k \in hidden
  <2>1. Visible(a, k) = s
    BY <1>2, <1>3, <1>4, <1>5 DEF Grown
  <2>2. Shown(a, k) = S
    BY <1>3, <1>5 DEF Shown
  <2> HIDE DEF s, S
  <2> QED BY <1>1, <1>4, <2>1, <2>2
<1>6. CASE k \notin hidden
  <2>1. Visible(a, k) = Append(s, k)
    BY <1>2, <1>3, <1>4, <1>6 DEF Grown
  <2>2. Shown(a, k) = S \cup {k} /\ \A e \in S : e \in Nat /\ e < k
    BY <1>2, <1>3, <1>6 DEF Shown
  <2> HIDE DEF s, S
  <2>3. Append(s, k) \in Seq(S \cup {k})
    BY <1>4 DEF Lists
  <2>4. /\ Len(Append(s, k)) = Len(s) + 1 /\ Len(s) \in Nat
        /\ Append(s, k)[Len(s) + 1] = k
        /\ \A i \in 1 .. Len(s) : Append(s, k)[i] = s[i] /\ s[i] \in S
    BY <1>4 DEF Lists
  <2> DEFINE t == Append(s, k)
  <2> HIDE DEF t
  <2>5. ASSUME NEW i \in 1 .. Len(t), NEW j \in 1 .. Len(t), i < j PROVE t[i] < t[j]
    <3>1. i \in 1 .. Len(s)
      BY <2>4, <2>5 DEF t
    <3>2. CASE j = Len(s) + 1
      <4>1. t[i] \in S /\ t[j] = k
        BY <2>4, <3>1, <3>2 DEF t
      <4> QED BY <2>2, <4>1
    <3>3. CASE j # Len(s) + 1
      <4>1. j \in 1 .. Len(s) /\ t[i] = s[i] /\ t[j] = s[j]
        BY <2>4, <2>5, <3>1, <3>3 DEF t
      <4> QED BY <1>4, <2>5, <3>1, <4>1 DEF Lists
    <3> QED BY <3>2, <3>3
  <2>6. ASSUME NEW e \in S \cup {k} PROVE \E i \in 1 .. Len(t) : t[i] = e
    BY <1>4, <2>4 DEF t, Lists
  <2> QED BY <1>1, <2>1, <2>2, <2>3, <2>5, <2>6 DEF t, Lists
<1> QED BY <1>5, <1>6

\* What is allocated of the file; a layout is any set of offsets.
Data == {o \in disk.data : o < disk.size}
DiskOK == disk.size \in 0 .. Size /\ disk.data \subseteq 0 .. Size - 1

RangeOK(x) ==
  /\ x = [lo |-> x.lo, hi |-> x.hi]
  /\ x.lo \in Data /\ x.hi \in 1 .. disk.size /\ x.lo < x.hi
  /\ x.lo .. x.hi - 1 \subseteq Data /\ x.hi \notin Data /\ (x.lo > 0 => x.lo - 1 \notin Data)

LEMMA RangesAre == \A x : x \in Ranges <=> RangeOK(x)
<1>1. Ranges = {x \in [lo : Data, hi : 1 .. disk.size] :
                  /\ x.lo < x.hi /\ x.lo .. x.hi - 1 \subseteq Data
                  /\ x.hi \notin Data /\ (x.lo > 0 => x.lo - 1 \notin Data)}
  BY DEF Ranges, Data
<1>2. \A x : x \in [lo : Data, hi : 1 .. disk.size]
                <=> x = [lo |-> x.lo, hi |-> x.hi] /\ x.lo \in Data /\ x.hi \in 1 .. disk.size
  OBVIOUS
<1> QED BY <1>1, <1>2 DEF RangeOK

\* Every allocated offset is in a range.
LEMMA RangeAround ==
  ASSUME DiskOK, NEW o \in Data PROVE \E x \in Ranges : x.lo <= o /\ o < x.hi
<1> USE FileAssumption
<1>1. o \in Nat /\ o < disk.size /\ disk.size \in Nat /\ disk.size \notin Data /\ Data \subseteq Nat
  BY DEF DiskOK, Data
<1> DEFINE T == {k \in Nat : o < k /\ k \notin Data}
           B == {k \in Nat : k <= o /\ k .. o \subseteq Data}
<1>2. PICK hi \in T : \A k \in T : hi <= k
  <2>1. T \subseteq Nat /\ disk.size \in T
    BY <1>1
  <2> HIDE DEF T
  <2> QED BY <2>1, LeastNumber
<1>3. PICK lo \in B : \A k \in B : lo <= k
  <2>1. B \subseteq Nat /\ o \in B
    BY <1>1
  <2> HIDE DEF B
  <2> QED BY <2>1, LeastNumber
<1>4. hi \in 1 .. disk.size /\ lo \in Data /\ lo <= o /\ o < hi /\ hi \notin Data
  BY <1>1, <1>2, <1>3
<1>5. ASSUME NEW k \in lo .. hi - 1 PROVE k \in Data
  <2>1. k \in Nat
    BY <1>1, <1>3, <1>4
  <2>2. CASE k <= o
    BY <1>1, <1>3, <2>1, <2>2
  <2>3. CASE o < k
    BY <1>1, <1>2, <1>4, <2>1, <2>3
  <2> QED BY <1>1, <2>1, <2>2, <2>3
<1>6. ASSUME lo > 0 PROVE lo - 1 \notin Data
  <2> SUFFICES ASSUME lo - 1 \in Data PROVE FALSE
    OBVIOUS
  <2>1. lo - 1 \in B
    BY <1>1, <1>3, <1>6
  <2> QED BY <1>3, <2>1
<1> DEFINE x == [lo |-> lo, hi |-> hi]
<1>7. RangeOK(x)
  BY <1>1, <1>4, <1>5, <1>6 DEF RangeOK
<1> QED BY <1>4, <1>7, RangesAre

LEMMA RangeFacts ==
  ASSUME DiskOK, NEW x \in Ranges
  PROVE  /\ x.lo \in Nat /\ x.hi \in Nat /\ x.lo < x.hi /\ x.hi <= disk.size
         /\ x.lo \in Data /\ x.hi \notin Data /\ \A k \in x.lo .. x.hi - 1 : k \in Data
BY RangesAre DEF RangeOK, Data, DiskOK

\* A set of ranges has a first one, and one that ends last.
LEMMA FirstRange ==
  ASSUME DiskOK, NEW rs, rs \subseteq Ranges, rs # {}
  PROVE  FirstOf(rs) \in rs /\ \A s \in rs : FirstOf(rs).lo <= s.lo
<1> DEFINE T == {r.lo : r \in rs}
<1>1. T \subseteq Nat /\ T # {}
  BY RangeFacts
<1>2. PICK m \in T : \A k \in T : m <= k
  <2> HIDE DEF T
  <2> QED BY <1>1, LeastNumber
<1>3. \E r \in rs : \A s \in rs : r.lo <= s.lo
  BY <1>2
<1> QED BY <1>3 DEF FirstOf

LEMMA LastRange ==
  ASSUME DiskOK, NEW rs, rs \subseteq Ranges, rs # {}
  PROVE  \E r \in rs : \A s \in rs : s.hi <= r.hi
<1> DEFINE T == {disk.size - r.hi : r \in rs}
<1>1. T \subseteq Nat /\ T # {}
  BY RangeFacts DEF DiskOK
<1>2. PICK m \in T : \A k \in T : m <= k
  <2> HIDE DEF T
  <2> QED BY <1>1, LeastNumber
<1>3. PICK r \in rs : m = disk.size - r.hi
  BY <1>2
<1>4. ASSUME NEW s \in rs PROVE s.hi <= r.hi
  <2>1. disk.size - r.hi <= disk.size - s.hi
    BY <1>2, <1>3
  <2> QED BY <2>1, RangeFacts, <1>3 DEF DiskOK
<1> QED BY <1>3, <1>4

\* SEEK_DATA and SEEK_HOLE: what the property says of their result.
Lands(whence, off, res) ==
  /\ res \notin Data <=> whence = "hole"
  /\ \A o \in off .. Size : o < res => (o \in Data <=> whence = "hole")
  /\ res < off => /\ whence = "hole" /\ res .. off \cap Data = {}
                  /\ \E o \in Data : o > off

LEMMA SeekDataLands ==
  ASSUME DiskOK, NEW off \in 0 .. Size - 1, off < disk.size, SeekData(off) # Failed
  PROVE  SeekData(off) \in 0 .. Size /\ Lands("data", off, SeekData(off))
<1> USE FileAssumption
<1> DEFINE rs == {r \in Ranges : off < r.hi}
           r == FirstOf(rs)
<1>1. rs # {} /\ SeekData(off) = IF off >= r.lo THEN off ELSE r.lo
  BY DEF SeekData
<1>2. r \in rs /\ \A s \in rs : r.lo <= s.lo
  <2>1. rs \subseteq Ranges
    OBVIOUS
  <2> HIDE DEF rs
  <2> QED BY <1>1, <2>1, FirstRange
<1>3. r \in Ranges /\ off < r.hi
  BY <1>2
<1>4. r.lo \in Nat /\ r.hi \in Nat /\ r.hi <= disk.size /\ r.lo < r.hi /\ \A k \in r.lo .. r.hi - 1 : k \in Data
  BY <1>3, RangeFacts
<1>5. ASSUME NEW o \in off .. Size, o < r.lo PROVE o \notin Data
  <2> SUFFICES ASSUME o \in Data PROVE FALSE
    OBVIOUS
  <2>1. PICK x \in Ranges : x.lo <= o /\ o < x.hi
    BY RangeAround
  <2>2. x.lo \in Nat /\ x.hi \in Nat
    BY RangeFacts
  <2>3. x \in rs
    BY <2>1, <2>2
  <2> QED BY <1>2, <1>4, <1>5, <2>1, <2>2, <2>3
<1> HIDE DEF r, rs
<1>6. CASE off >= r.lo
  BY <1>1, <1>3, <1>4, <1>6 DEF Lands
<1>7. CASE ~ (off >= r.lo)
  BY <1>1, <1>3, <1>4, <1>5, <1>7 DEF Lands, DiskOK
<1> QED BY <1>6, <1>7

LEMMA SeekHoleLands ==
  ASSUME DiskOK, NEW off \in 0 .. Size - 1, off < disk.size
  PROVE  SeekHole(off) \in 0 .. Size /\ Lands("hole", off, SeekHole(off))
<1> USE FileAssumption
<1> DEFINE within == {r \in Ranges : r.lo <= off /\ off < r.hi}
           before == {r \in Ranges : r.hi <= off /\ \E s \in Ranges : off < s.lo}
<1>1. CASE within # {}
  <2> DEFINE r == CHOOSE r \in within : TRUE
  <2>1. r \in Ranges /\ r.lo <= off /\ off < r.hi
    BY <1>1
  <2>2. SeekHole(off) = r.hi
    BY <1>1 DEF SeekHole
  <2> HIDE DEF r
  <2>3. /\ r.lo \in Nat /\ r.hi \in Nat /\ r.hi <= disk.size /\ r.hi \notin Data
        /\ \A k \in r.lo .. r.hi - 1 : k \in Data
    BY <2>1, RangeFacts
  <2>4. \A o \in off .. Size : o < r.hi => o \in Data
    BY <2>1, <2>3
  <2> QED BY <2>1, <2>2, <2>3, <2>4 DEF Lands, DiskOK
<1>2. ASSUME within = {}, NEW o \in Data, o <= off
      PROVE  \E x \in Ranges : x.lo <= o /\ o < x.hi /\ x.hi <= off
  <2>1. PICK x \in Ranges : x.lo <= o /\ o < x.hi
    BY RangeAround
  <2>2. x.lo \in Nat /\ x.hi \in Nat /\ o \in Nat
    BY RangeFacts DEF Data, DiskOK
  <2>3. x \notin within
    BY <1>2
  <2> QED BY <1>2, <2>1, <2>2, <2>3
<1>3. CASE within = {} /\ before # {}
  <2> DEFINE r == CHOOSE r \in before : \A s \in before : s.hi <= r.hi
  <2>1. r \in before /\ \A s \in before : s.hi <= r.hi
    <3>1. before \subseteq Ranges /\ before # {}
      BY <1>3
    <3> HIDE DEF before
    <3>2. \E x \in before : \A s \in before : s.hi <= x.hi
      BY <3>1, LastRange
    <3> QED BY <3>2
  <2>2. SeekHole(off) = r.hi
    BY <1>3 DEF SeekHole
  <2> HIDE DEF r
  <2>3. PICK s \in Ranges : off < s.lo
    BY <2>1
  <2>4. /\ r \in Ranges /\ r.hi \in Nat /\ r.hi <= off /\ r.hi \notin Data /\ s.lo \in Data /\ s.lo \in Nat
    BY <2>1, <2>3, RangeFacts
  <2>5. ASSUME NEW o \in r.hi .. off, o \in Data PROVE FALSE
    <3>1. PICK x \in Ranges : x.lo <= o /\ o < x.hi /\ x.hi <= off
      BY <1>2, <1>3, <2>4, <2>5
    <3>2. x \in before
      BY <2>3, <3>1
    <3>3. x.hi \in Nat
      BY RangeFacts
    <3> QED BY <2>1, <2>4, <3>1, <3>2, <3>3
  <2> QED BY <2>2, <2>3, <2>4, <2>5 DEF Lands
<1>4. CASE within = {} /\ before = {}
  <2>1. SeekHole(off) = off
    BY <1>4 DEF SeekHole
  <2>2. off \notin Data
    BY <1>2, <1>4, RangeFacts
  <2> QED BY <2>1, <2>2 DEF Lands
<1> QED BY <1>1, <1>3, <1>4

-----------------------------------------------------------------------------
(* The file: what its handle, its requests and its reads have to do with each other *)

ReadStages == {"idle", "sent", "placed", "streaming", "ended", "error", "done"}
ReadRec == [stage : ReadStages, off : Nat, from : Nat, left : Nat, n : Nat,
            logged : BOOLEAN, cut : BOOLEAN]

FileShape ==
  /\ conn \in {"up", "down", "over"}
  /\ told = Size /\ disk \in [size : 0 .. Size, data : Layouts]
  /\ handle = [open |-> handle.open, size |-> handle.size, pos |-> handle.pos]
  /\ handle.open \in BOOLEAN /\ handle.size \in 0 .. Size
  /\ asked \subseteq {OpenFileReq, CloseReq}
  /\ rd \in [Reads -> ReadRec]

\* A handle is open from the open of the file to its close, and requests of the kernel only
\* between the two.
Handles ==
  /\ file \in {"none", "opening"} => ~ handle.open
  /\ OpenFileReq \in asked => file \in {"opening", "released"}
  /\ CloseReq \in asked => file \in {"closing", "released"}
  /\ \A r \in Reads : rd[r].stage # "idle" => file = "open"
  /\ conn = "over" => ~ handle.open

\* While a handle of Windows is open nobody writes the file.
SizesAgree ==
  /\ agent # "unix" /\ handle.open => handle.size = disk.size
  /\ ~ changed => disk.size = Size

\* Who has moved the file pointer and is about to read has the lock, and finds the pointer
\* where it was put.
Placed ==
  \A r \in Reads :
    Up /\ rd[r].stage = "placed" =>
      /\ lock = r /\ agent # "unix"
      /\ handle.open /\ handle.pos = rd[r].off /\ rd[r].off < handle.size

\* What a read at this offset has to give of a file that has not changed.
Whole(x) == Least(Want, Size - x.off)

\* A reply begins at its offset; until the file changes, what has been sent and what is left
\* to send are together what there is to give.
BytesOK(x) ==
  /\ x.stage # "idle" => x.off < Size
  /\ x.stage \in {"idle", "sent", "placed", "error"} => x.n = 0
  /\ x.stage \in {"streaming", "ended"} => x.from = x.off
  /\ x.stage = "streaming" => changed \/ x.n + x.left = IF agent = "unix" THEN Want ELSE Whole(x)
  /\ x.stage = "ended" => changed \/ Whole(x) <= x.n \/ (agent = "unix" /\ x.cut)
  /\ x.stage = "done" /\ x.n > 0 => x.from = x.off
  /\ x.stage = "done" => \/ changed \/ Whole(x) <= x.n
                         \/ x.logged /\ x.n = 0
                         \/ agent = "unix" /\ x.cut

Bytes == \A r \in Reads : BytesOK(rd[r])

FileInv == FileShape /\ Handles /\ SizesAgree /\ Placed /\ Bytes /\ HandleLeft

LEMMA FileInit0 == RemoteInit => FileInv
<1> SUFFICES ASSUME RemoteInit PROVE FileInv
  OBVIOUS
<1> USE DEF RemoteInit, WireInit, FileInit
<1>1. \A r \in Reads : rd[r] = IdleRead
  OBVIOUS
<1>2. FileShape
  BY FileAssumption DEF FileShape, Shut, IdleRead, ReadRec, ReadStages
<1>3. Handles /\ SizesAgree /\ HandleLeft
  BY <1>1 DEF Handles, SizesAgree, HandleLeft, Shut, IdleRead
<1>4. Placed /\ Bytes
  BY <1>1 DEF Placed, Bytes, BytesOK, IdleRead
<1> QED BY <1>2, <1>3, <1>4 DEF FileInv

\* One read goes on and the agent's handle stays, the pointer perhaps excepted.
LEMMA ReadGoesOn ==
  ASSUME FileInv, NEW r \in Reads, NEW x \in ReadRec, rd' = [rd EXCEPT ![r] = x],
         UNCHANGED <<agent, conn, Rest>>, file = "open",
         handle'.open = handle.open, handle'.size = handle.size,
         handle' = [open |-> handle'.open, size |-> handle'.size, pos |-> handle'.pos],
         BytesOK(x), Placed'
  PROVE  FileInv'
<1> USE DEF FileInv, Rest
<1>1. FileShape'
  BY DEF FileShape
<1>2. Handles'
  BY DEF Handles
<1>3. SizesAgree' /\ HandleLeft'
  BY DEF SizesAgree, HandleLeft
<1>4. Bytes'
  <2>1. \A q \in Reads : BytesOK(rd'[q])
    BY DEF Bytes, FileShape
  <2>2. ASSUME NEW y PROVE BytesOK(y) => BytesOK(y)'
    BY DEF BytesOK, Whole
  <2> QED BY <2>1 DEF Bytes, BytesOK, Whole
<1> QED BY <1>1, <1>2, <1>3, <1>4

\* Neither the lock nor the handle is touched, and the read is not about to use them.
LEMMA PlacedStays ==
  ASSUME FileInv, NEW r \in Reads, NEW x \in ReadRec, rd' = [rd EXCEPT ![r] = x],
         UNCHANGED <<agent, conn, handle, lock>>, x.stage # "placed"
  PROVE  Placed'
BY DEF FileInv, FileShape, Placed, Up

\* The lock is given back by the one read that has it.
LEMMA PlacedLeaves ==
  ASSUME FileInv, NEW r \in Reads, NEW x \in ReadRec, rd' = [rd EXCEPT ![r] = x],
         UNCHANGED <<agent, conn>>, x.stage # "placed", Up, rd[r].stage = "placed"
  PROVE  Placed'
<1>1. \A q \in Reads \ {r} : rd[q].stage # "placed"
  BY DEF FileInv, Placed
<1> QED BY <1>1 DEF FileInv, FileShape, Placed

\* The stages of a read.
LEMMA ReadBegins ==
  ASSUME FileInv, NEW r \in Reads, NEW off \in 0 .. Size - 1, ReadAt(r, off) PROVE FileInv'
<1> DEFINE x == ReadAtReq(off)
<1>1. x \in ReadRec /\ BytesOK(x) /\ x.stage = "sent"
  BY FileAssumption DEF ReadAtReq, ReadRec, ReadStages, BytesOK, FileInv, FileShape
<1>2. /\ rd' = [rd EXCEPT ![r] = x] /\ UNCHANGED <<agent, conn, Rest>>
      /\ handle' = handle /\ lock' = lock /\ file = "open"
  BY DEF ReadAt, wireVars, Rest
<1> HIDE DEF x
<1>3. Placed'
  BY <1>1, <1>2, PlacedStays
<1>4. handle = [open |-> handle.open, size |-> handle.size, pos |-> handle.pos]
  BY DEF FileInv, FileShape
<1>5. /\ handle'.open = handle.open /\ handle'.size = handle.size
      /\ handle' = [open |-> handle'.open, size |-> handle'.size, pos |-> handle'.pos]
  BY <1>2, <1>4
<1> QED BY <1>1, <1>2, <1>3, <1>5, ReadGoesOn

\* What a read is known to be before it begins to stream, and where its file is.
LEMMA ReadUnderWay ==
  ASSUME FileInv, NEW r \in Reads, rd[r].stage # "idle"
  PROVE  /\ file = "open" /\ rd[r] \in ReadRec /\ BytesOK(rd[r]) /\ rd[r].off \in 0 .. Size - 1
         /\ rd \in [Reads -> ReadRec]
<1>1. file = "open" /\ rd \in [Reads -> ReadRec] /\ rd[r] \in ReadRec /\ BytesOK(rd[r])
  BY DEF FileInv, FileShape, Handles, Bytes
<1>2. rd[r].off \in Nat /\ rd[r].off < Size
  BY <1>1 DEF BytesOK, ReadRec
<1> QED BY <1>1, <1>2, FileAssumption

\* A stream begins at the offset of the read, as long as what there is to give.
LEMMA StreamBegins ==
  ASSUME FileInv, NEW r \in Reads, NEW n \in Nat, rd[r].stage \in {"sent", "placed"},
         Streams(r, rd[r].off, n),
         changed \/ n = IF agent = "unix" THEN Want ELSE Whole(rd[r])
  PROVE  \E x \in ReadRec : BytesOK(x) /\ x.stage = "streaming" /\ rd' = [rd EXCEPT ![r] = x]
<1> DEFINE x == [rd[r] EXCEPT !.stage = "streaming", !.from = rd[r].off, !.left = n]
<1>1. rd[r] \in ReadRec /\ BytesOK(rd[r]) /\ rd \in [Reads -> ReadRec]
  BY ReadUnderWay
<1>2. x \in ReadRec /\ x.off = rd[r].off /\ x.n = rd[r].n /\ x.left = n /\ x.from = rd[r].off
      /\ x.stage = "streaming"
  BY <1>1 DEF ReadRec, ReadStages
<1>3. rd' = [rd EXCEPT ![r] = x]
  BY <1>1 DEF Streams
<1> HIDE DEF x
<1>4. BytesOK(x)
  BY <1>1, <1>2 DEF BytesOK, Whole, ReadRec
<1> QED BY <1>2, <1>3, <1>4

\* Where a read is served the handle knows the size of the file.
LEMMA SizeKnown ==
  ASSUME FileInv, NEW r \in Reads, rd[r].stage # "idle", agent # "unix", handle.open
  PROVE  changed \/ (handle.size = Size /\ Clamp(r) = Whole(rd[r]))
BY DEF FileInv, SizesAgree, Clamp, Whole, Least

LEMMA ReadStreams ==
  ASSUME FileInv, NEW r \in Reads, ReadNothing(r) \/ MapView(r) \/ ReadSection(r) PROVE FileInv'
<1>1. /\ Arrived(r) /\ rd[r].stage = "sent" /\ handle.open
      /\ UNCHANGED <<agent, conn, handle, lock, Rest>>
  BY DEF ReadNothing, MapView, ReadSection, Arrived, wireVars
<1>2. rd[r].off \in 0 .. Size - 1 /\ file = "open" /\ handle.size \in 0 .. Size
  BY <1>1, ReadUnderWay DEF FileInv, FileShape
<1>3. \E n \in Nat : /\ Streams(r, rd[r].off, n)
                     /\ changed \/ n = IF agent = "unix" THEN Want ELSE Whole(rd[r])
  <2>1. CASE ReadNothing(r)
    BY <1>1, <1>2, <2>1, SizeKnown DEF ReadNothing
  <2>2. CASE MapView(r)
    <3>1. Clamp(r) \in Nat
      BY <1>2, <2>2, FileAssumption DEF MapView, Clamp, Least
    <3> QED BY <1>1, <2>2, <3>1, SizeKnown DEF MapView
  <2>3. CASE ReadSection(r)
    BY <2>3, FileAssumption DEF ReadSection
  <2> QED BY <2>1, <2>2, <2>3
<1>4. PICK x \in ReadRec : BytesOK(x) /\ x.stage = "streaming" /\ rd' = [rd EXCEPT ![r] = x]
  BY <1>1, <1>3, StreamBegins
<1>5. Placed'
  BY <1>1, <1>4, PlacedStays
<1> QED BY <1>1, <1>2, <1>4, <1>5, ReadGoesOn DEF FileInv, FileShape

LEMMA PointerPlaced ==
  ASSUME FileInv, NEW r \in Reads, SetFilePointer(r) PROVE FileInv'
<1> DEFINE x == [rd[r] EXCEPT !.stage = "placed"]
<1>1. /\ Arrived(r) /\ rd[r].stage = "sent" /\ handle.open /\ lock = NoRead /\ agent # "unix"
      /\ UNCHANGED <<agent, conn, Rest>> /\ lock' = r /\ rd[r].off < handle.size
      /\ handle' = [handle EXCEPT !.pos = rd[r].off]
  BY DEF SetFilePointer, Arrived, wireVars
<1>2. rd[r] \in ReadRec /\ BytesOK(rd[r]) /\ file = "open" /\ rd \in [Reads -> ReadRec]
  BY <1>1, ReadUnderWay
<1>3. x \in ReadRec /\ x.stage = "placed" /\ x.off = rd[r].off /\ x.n = rd[r].n
  BY <1>2 DEF ReadRec, ReadStages
<1>4. rd' = [rd EXCEPT ![r] = x]
  BY <1>2 DEF SetFilePointer
<1> HIDE DEF x
<1>5. BytesOK(x)
  BY <1>1, <1>2, <1>3 DEF BytesOK
<1>6. /\ handle' = [open |-> handle'.open, size |-> handle'.size, pos |-> handle'.pos]
      /\ handle'.open = handle.open /\ handle'.size = handle.size /\ handle'.pos = rd[r].off
  BY <1>1 DEF FileInv, FileShape
<1>7. \A q \in Reads \ {r} : Up => rd[q].stage # "placed"
  BY <1>1, FileAssumption DEF FileInv, Placed
<1>8. Placed'
  BY <1>1, <1>2, <1>3, <1>4, <1>6, <1>7 DEF Placed, Up
<1> QED BY <1>1, <1>2, <1>3, <1>4, <1>5, <1>6, <1>8, ReadGoesOn

LEMMA PointerRead ==
  ASSUME FileInv, NEW r \in Reads, ReadFile(r) PROVE FileInv'
<1> DEFINE n == Least(Clamp(r), disk.size - handle.pos)
<1>1. /\ Up /\ rd[r].stage = "placed" /\ UNCHANGED <<agent, conn, Rest>>
      /\ Streams(r, handle.pos, n) /\ handle' = [handle EXCEPT !.pos = @ + n]
  BY DEF ReadFile, wireVars
<1>2. /\ agent # "unix" /\ handle.open /\ handle.pos = rd[r].off /\ rd[r].off < handle.size
      /\ handle.size = disk.size /\ disk.size \in 0 .. Size
  BY <1>1 DEF FileInv, Placed, SizesAgree, FileShape
<1>3. /\ rd[r].off \in 0 .. Size - 1 /\ file = "open"
  BY <1>1, ReadUnderWay
<1>4. n \in Nat /\ n = Clamp(r)
  BY <1>2, <1>3, FileAssumption DEF Clamp, Least
<1>5. changed \/ n = Whole(rd[r])
  BY <1>1, <1>2, <1>4, SizeKnown
<1> HIDE DEF n
<1>6. PICK x \in ReadRec : BytesOK(x) /\ x.stage = "streaming" /\ rd' = [rd EXCEPT ![r] = x]
  BY <1>1, <1>2, <1>4, <1>5, StreamBegins
<1>7. /\ handle' = [open |-> handle'.open, size |-> handle'.size, pos |-> handle'.pos]
      /\ handle'.open = handle.open /\ handle'.size = handle.size
  BY <1>1 DEF FileInv, FileShape
<1>8. Placed'
  BY <1>1, <1>6, PlacedLeaves
<1> QED BY <1>1, <1>3, <1>6, <1>7, <1>8, ReadGoesOn

LEMMA ReadFails ==
  ASSUME FileInv, NEW r \in Reads, ReadFileFails(r) PROVE FileInv'
<1> DEFINE x == [rd[r] EXCEPT !.stage = "error"]
<1>1. Up /\ rd[r].stage = "placed" /\ UNCHANGED <<agent, conn, handle, Rest>>
  BY DEF ReadFileFails, Fault
<1>2. rd[r] \in ReadRec /\ BytesOK(rd[r]) /\ file = "open" /\ rd \in [Reads -> ReadRec]
  BY <1>1, ReadUnderWay
<1>3. x \in ReadRec /\ x.stage = "error" /\ x.off = rd[r].off /\ x.n = rd[r].n
  BY <1>2 DEF ReadRec, ReadStages
<1>4. rd' = [rd EXCEPT ![r] = x]
  BY <1>2 DEF ReadFileFails
<1> HIDE DEF x
<1>5. BytesOK(x)
  BY <1>1, <1>2, <1>3 DEF BytesOK
<1>6. Placed'
  BY <1>1, <1>3, <1>4, PlacedLeaves
<1>7. handle = [open |-> handle.open, size |-> handle.size, pos |-> handle.pos]
  BY DEF FileInv, FileShape
<1> QED BY <1>1, <1>2, <1>3, <1>4, <1>5, <1>6, <1>7, ReadGoesOn

\* A stage in which only the read changes.
LEMMA ReadAlone ==
  ASSUME FileInv, NEW r \in Reads, rd[r].stage # "idle", NEW x \in ReadRec,
         rd' = [rd EXCEPT ![r] = x], BytesOK(x), x.stage # "placed",
         UNCHANGED <<agent, conn, handle, lock, Rest>>
  PROVE  FileInv'
<1>1. Placed'
  BY PlacedStays
<1>2. handle = [open |-> handle.open, size |-> handle.size, pos |-> handle.pos] /\ file = "open"
  BY ReadUnderWay DEF FileInv, FileShape
<1> QED BY <1>1, <1>2, ReadGoesOn

LEMMA ChunkSent ==
  ASSUME FileInv, NEW r \in Reads, SendChunk(r) PROVE FileInv'
<1>1. rd[r].stage = "streaming" /\ UNCHANGED <<agent, conn, handle, lock, Rest>>
  BY DEF SendChunk, wireVars
<1>2. rd[r] \in ReadRec /\ BytesOK(rd[r]) /\ rd \in [Reads -> ReadRec] /\ disk.size \in Nat
  BY <1>1, ReadUnderWay, FileAssumption DEF FileInv, FileShape
<1>3. PICK k \in 1 .. Available(r) : rd' = [rd EXCEPT ![r].n = @ + k, ![r].left = @ - k]
  BY DEF SendChunk
<1>4. /\ k \in Nat /\ rd[r].n \in Nat /\ rd[r].left \in Nat
      /\ rd[r].n + k \in Nat /\ rd[r].left - k \in Nat
  <2>1. rd[r].left \in Nat /\ rd[r].from \in Nat /\ rd[r].n \in Nat
    BY <1>2 DEF ReadRec
  <2>2. Available(r) \in Nat /\ Available(r) <= rd[r].left
    BY <1>2, <2>1 DEF Available, Least
  <2> QED BY <2>1, <2>2
<1> DEFINE x == [rd[r] EXCEPT !.n = @ + k, !.left = @ - k]
<1>5. /\ x \in ReadRec /\ x.stage = "streaming" /\ x.off = rd[r].off /\ x.from = rd[r].from
      /\ x.n = rd[r].n + k /\ x.left = rd[r].left - k
  BY <1>1, <1>2, <1>4 DEF ReadRec
<1>6. rd' = [rd EXCEPT ![r] = x]
  BY <1>2, <1>3
<1> HIDE DEF x
<1>7. BytesOK(x)
  BY <1>1, <1>2, <1>4, <1>5 DEF BytesOK, Whole, ReadRec
<1> QED BY <1>1, <1>5, <1>6, <1>7, ReadAlone

LEMMA StreamEnds ==
  ASSUME FileInv, NEW r \in Reads, SendSentinel(r) \/ SendFails(r) PROVE FileInv'
<1>1. rd[r].stage = "streaming" /\ UNCHANGED <<agent, conn, handle, lock, Rest>>
  BY DEF SendSentinel, SendFails, Fault, wireVars
<1>2. /\ rd[r] \in ReadRec /\ BytesOK(rd[r]) /\ rd \in [Reads -> ReadRec] /\ disk.size \in Nat
      /\ changed \/ disk.size = Size
  BY <1>1, ReadUnderWay, FileAssumption DEF FileInv, FileShape, SizesAgree
<1>3. CASE SendSentinel(r)
  <2> DEFINE x == [rd[r] EXCEPT !.stage = "ended"]
  <2>1. /\ x \in ReadRec /\ x.stage = "ended" /\ x.off = rd[r].off /\ x.from = rd[r].from
        /\ x.n = rd[r].n /\ x.left = rd[r].left /\ x.cut = rd[r].cut
    BY <1>2 DEF ReadRec, ReadStages
  <2>2. rd' = [rd EXCEPT ![r] = x]
    BY <1>2, <1>3 DEF SendSentinel
  <2> HIDE DEF x
  <2>3. changed \/ Whole(rd[r]) <= rd[r].n
    <3>1. Available(r) = 0
      BY <1>3 DEF SendSentinel
    <3>2. /\ rd[r].left \in Nat /\ rd[r].from \in Nat /\ rd[r].n \in Nat /\ rd[r].off \in Nat
          /\ rd[r].from = rd[r].off /\ Want \in Nat /\ Size \in Nat
      BY <1>1, <1>2, FileAssumption DEF ReadRec, BytesOK
    <3>3. CASE agent # "unix"
      BY <1>1, <1>2, <3>1, <3>2, <3>3 DEF Available, BytesOK, Whole, Least
    <3>4. CASE agent = "unix"
      BY <1>1, <1>2, <3>1, <3>2, <3>4 DEF Available, BytesOK, Whole, Least
    <3> QED BY <3>3, <3>4
  <2>4. BytesOK(x)
    BY <1>1, <1>2, <2>1, <2>3 DEF BytesOK, Whole
  <2> QED BY <1>1, <2>1, <2>2, <2>4, ReadAlone
<1>4. CASE SendFails(r)
  <2> DEFINE x == [rd[r] EXCEPT !.stage = "ended", !.cut = TRUE]
  <2>1. /\ x \in ReadRec /\ x.stage = "ended" /\ x.off = rd[r].off /\ x.from = rd[r].from
        /\ x.cut /\ agent = "unix"
    BY <1>2, <1>4 DEF ReadRec, ReadStages, SendFails
  <2>2. rd' = [rd EXCEPT ![r] = x]
    BY <1>2, <1>4 DEF SendFails
  <2> HIDE DEF x
  <2>3. BytesOK(x)
    BY <1>1, <1>2, <2>1 DEF BytesOK
  <2> QED BY <1>1, <2>1, <2>2, <2>3, ReadAlone
<1> QED BY <1>3, <1>4

LEMMA ReadReturns ==
  ASSUME FileInv, NEW r \in Reads, Receive(r) \/ Answer(r) PROVE FileInv'
<1>1. rd[r].stage # "idle" /\ UNCHANGED <<agent, conn, handle, lock, Rest>>
  BY DEF Receive, CallFailed, Answer, wireVars
<1>2. rd[r] \in ReadRec /\ BytesOK(rd[r]) /\ rd \in [Reads -> ReadRec]
  BY <1>1, ReadUnderWay
<1>3. CASE rd[r].stage = "ended" /\ rd' = [rd EXCEPT ![r].stage = "done"]
  <2> DEFINE x == [rd[r] EXCEPT !.stage = "done"]
  <2>1. /\ x \in ReadRec /\ x.stage = "done" /\ x.off = rd[r].off /\ x.from = rd[r].from
        /\ x.n = rd[r].n /\ x.cut = rd[r].cut /\ rd' = [rd EXCEPT ![r] = x]
    BY <1>2, <1>3 DEF ReadRec, ReadStages
  <2> HIDE DEF x
  <2>2. BytesOK(x)
    BY <1>1, <1>2, <1>3, <2>1 DEF BytesOK, Whole
  <2> QED BY <1>1, <2>1, <2>2, ReadAlone
<1>4. CASE rd' = [rd EXCEPT ![r].stage = "done", ![r].n = 0, ![r].logged = TRUE]
  <2> DEFINE x == [rd[r] EXCEPT !.stage = "done", !.n = 0, !.logged = TRUE]
  <2>1. /\ x \in ReadRec /\ x.stage = "done" /\ x.off = rd[r].off
        /\ x.n = 0 /\ x.logged /\ rd' = [rd EXCEPT ![r] = x]
    BY <1>2, <1>4 DEF ReadRec, ReadStages
  <2> HIDE DEF x
  <2>2. BytesOK(x)
    BY <1>1, <1>2, <2>1 DEF BytesOK
  <2> QED BY <1>1, <2>1, <2>2, ReadAlone
<1>5. CASE rd' = [rd EXCEPT ![r] = IdleRead]
  <2>1. IdleRead \in ReadRec /\ BytesOK(IdleRead) /\ IdleRead.stage = "idle"
    BY DEF IdleRead, ReadRec, ReadStages, BytesOK
  <2> QED BY <1>1, <1>5, <2>1, ReadAlone
<1> QED BY <1>3, <1>4, <1>5 DEF Receive, Answer

\* Requests of the reads are where they were, and the file has at most become another.
LEMMA BytesStay ==
  ASSUME FileInv, UNCHANGED <<rd, agent>>, changed => changed'
  PROVE  Bytes'
BY DEF FileInv, Bytes, BytesOK, Whole

LEMMA Opening ==
  ASSUME FileInv, OpenFile \/ HandleOpenFile \/ OpenFails PROVE FileInv'
<1>1. /\ UNCHANGED <<rd, agent, conn, disk, told, changed, lock>>
      /\ \/ handle' = handle
         \/ HandleOpenFile /\ handle' = [open |-> TRUE, size |-> disk.size, pos |-> 0]
  BY DEF OpenFile, HandleOpenFile, OpenFails, Fault, wireVars
<1>2. asked' \subseteq {OpenFileReq, CloseReq}
  BY DEF OpenFile, HandleOpenFile, OpenFails, FileInv, FileShape
<1>s. /\ handle' = [open |-> handle'.open, size |-> handle'.size, pos |-> handle'.pos]
      /\ handle'.open \in BOOLEAN /\ handle'.size \in 0 .. Size
  <2>1. CASE handle' = handle
    BY <2>1 DEF FileInv, FileShape
  <2>2. CASE handle' = [open |-> TRUE, size |-> disk.size, pos |-> 0]
    <3>1. disk.size \in 0 .. Size
      BY DEF FileInv, FileShape
    <3> QED BY <2>2, <3>1
  <2> QED BY <1>1, <2>1, <2>2
<1>3. FileShape'
  BY <1>1, <1>2, <1>s DEF FileInv, FileShape
<1>4. SizesAgree' /\ Bytes'
  BY <1>1, BytesStay DEF FileInv, SizesAgree, Bytes
<1>5. CASE OpenFile
  <2>1. Handles' /\ Placed'
    BY <1>1, <1>5 DEF OpenFile, FileInv, Handles, Placed, Up, OpenFileReq, CloseReq
  <2>2. HandleLeft'
    BY <1>5 DEF OpenFile, HandleLeft
  <2> QED BY <1>3, <1>4, <2>1, <2>2 DEF FileInv
<1>6. CASE HandleOpenFile
  <2>1. \A r \in Reads : rd[r].stage = "idle"
    BY <1>6 DEF HandleOpenFile, FileInv, Handles
  <2>2. Handles' /\ Placed'
    BY <1>1, <1>6, <2>1 DEF HandleOpenFile, Up, FileInv, FileShape, Handles, Placed, OpenFileReq, CloseReq
  <2>3. HandleLeft'
    BY <1>6 DEF HandleOpenFile, FileInv, Handles, HandleLeft
  <2> QED BY <1>3, <1>4, <2>2, <2>3 DEF FileInv
<1>7. CASE OpenFails
  BY <1>1, <1>3, <1>4, <1>7 DEF OpenFails, FileInv, Handles, Placed, Up, HandleLeft, OpenFileReq, CloseReq
<1> QED BY <1>5, <1>6, <1>7

LEMMA Closing ==
  ASSUME FileInv, Release \/ HandleClose \/ CloseFails PROVE FileInv'
<1>1. /\ UNCHANGED <<rd, agent, conn, disk, told, changed, lock>>
      /\ \/ handle' = handle
         \/ HandleClose /\ handle' = Shut
  BY DEF Release, HandleClose, CloseFails, Fault, wireVars
<1>2. asked' \subseteq {OpenFileReq, CloseReq}
  BY DEF Release, HandleClose, CloseFails, FileInv, FileShape
<1>s. /\ handle' = [open |-> handle'.open, size |-> handle'.size, pos |-> handle'.pos]
      /\ handle'.open \in BOOLEAN /\ handle'.size \in 0 .. Size
  <2>1. CASE handle' = handle
    BY <2>1 DEF FileInv, FileShape
  <2>2. CASE handle' = Shut
    BY <2>2, FileAssumption DEF Shut
  <2> QED BY <1>1, <2>1, <2>2
<1>3. FileShape'
  BY <1>1, <1>2, <1>s DEF FileInv, FileShape
<1>4. SizesAgree' /\ Bytes'
  BY <1>1, BytesStay DEF FileInv, SizesAgree, Bytes, Shut
<1>5. CASE Release
  <2>1. Handles' /\ Placed'
    BY <1>1, <1>5 DEF Release, FileInv, Handles, Placed, Up, OpenFileReq, CloseReq
  <2>2. HandleLeft'
    BY <1>5 DEF Release, HandleLeft
  <2> QED BY <1>3, <1>4, <2>1, <2>2 DEF FileInv
<1>6. CASE HandleClose
  <2>1. \A r \in Reads : rd[r].stage = "idle"
    BY <1>6 DEF HandleClose, FileInv, Handles
  <2>2. Handles' /\ Placed' /\ HandleLeft'
    BY <1>1, <1>6, <2>1 DEF HandleClose, FileInv, Handles, Placed, HandleLeft, Shut, OpenFileReq, CloseReq
  <2> QED BY <1>3, <1>4, <2>2 DEF FileInv
<1>7. CASE CloseFails
  <2>1. \A r \in Reads : rd[r].stage = "idle"
    BY <1>7 DEF CloseFails, FileInv, Handles
  <2>2. Handles' /\ Placed'
    BY <1>1, <1>7, <2>1 DEF CloseFails, FileInv, Handles, Placed, OpenFileReq, CloseReq
  <2>3. HandleLeft'
    BY <1>2, <1>7 DEF CloseFails, FileInv, Handles, HandleLeft, OpenFileReq, CloseReq
  <2> QED BY <1>3, <1>4, <2>2, <2>3 DEF FileInv
<1> QED BY <1>5, <1>6, <1>7

LEMMA Seeking ==
  ASSUME FileInv, \/ \E w \in Whences, off \in 0 .. Size - 1 : Lseek(w, off)
                  \/ HandleLseek \/ LseekFails \/ LseekReturns
  PROVE  FileInv'
<1>1. /\ UNCHANGED <<rd, agent, conn, disk, told, changed, lock, file, asked, orphaned>>
      /\ handle' = handle \/ (lock = NoRead /\ \E p : handle' = [handle EXCEPT !.pos = p])
  BY DEF Lseek, HandleLseek, LseekFails, LseekReturns, Fault, wireVars
<1>2. /\ handle' = [open |-> handle'.open, size |-> handle'.size, pos |-> handle'.pos]
      /\ handle'.open = handle.open /\ handle'.size = handle.size
  BY <1>1 DEF FileInv, FileShape
<1>3. FileShape'
  BY <1>1, <1>2 DEF FileInv, FileShape
<1>4. SizesAgree' /\ Bytes' /\ Handles' /\ HandleLeft'
  BY <1>1, <1>2, BytesStay DEF FileInv, SizesAgree, Handles, HandleLeft
<1>5. Placed'
  BY <1>1, <1>2, FileAssumption DEF FileInv, Placed, Up
<1> QED BY <1>3, <1>4, <1>5 DEF FileInv

LEMMA Otherwise ==
  ASSUME FileInv, \/ \E n \in 0 .. Size : Change(n)
                  \/ CloseFileHandles \/ Lose \/ UNCHANGED <<wireVars, fileVars>>
  PROVE  FileInv'
<1>1. ASSUME NEW n \in 0 .. Size, Change(n) PROVE FileInv'
  <2>1. /\ disk' = [disk EXCEPT !.size = n] /\ changed' /\ (agent = "unix" \/ ~ handle.open)
        /\ UNCHANGED <<agent, conn, told, file, asked, handle, lock, rd, orphaned>>
    BY <1>1 DEF Change, Fault
  <2>2. FileShape' /\ Handles' /\ SizesAgree' /\ Placed' /\ HandleLeft'
    BY <2>1 DEF FileInv, FileShape, Handles, SizesAgree, Placed, Up, HandleLeft
  <2> QED BY <2>1, <2>2, BytesStay DEF FileInv
<1>2. CASE CloseFileHandles
  <2>1. /\ handle' = Shut /\ conn' = "over"
        /\ UNCHANGED <<agent, disk, told, file, asked, rd, orphaned, changed>>
    BY <1>2 DEF CloseFileHandles, Rest
  <2>2. FileShape' /\ Handles' /\ SizesAgree' /\ Placed' /\ HandleLeft'
    BY <2>1, FileAssumption DEF FileInv, FileShape, Handles, SizesAgree, Placed, Up, HandleLeft, Shut
  <2> QED BY <2>1, <2>2, BytesStay DEF FileInv
<1>3. CASE Lose
  <2>1. conn' = "down" /\ conn = "up" /\ UNCHANGED <<agent, fileVars>>
    BY <1>3 DEF Lose, Up
  <2>2. FileShape' /\ Handles' /\ SizesAgree' /\ Placed' /\ HandleLeft'
    BY <2>1 DEF FileInv, FileShape, Handles, SizesAgree, Placed, Up, HandleLeft, fileVars
  <2> QED BY <2>1, <2>2, BytesStay DEF FileInv, fileVars
<1>4. CASE UNCHANGED <<wireVars, fileVars>>
  <2>1. FileShape' /\ Handles' /\ SizesAgree' /\ Placed' /\ HandleLeft'
    BY <1>4 DEF FileInv, FileShape, Handles, SizesAgree, Placed, Up, HandleLeft, fileVars, wireVars
  <2> QED BY <1>4, <2>1, BytesStay DEF FileInv, fileVars, wireVars
<1> QED BY <1>1, <1>2, <1>3, <1>4

LEMMA FileStep == FileInv /\ Step => FileInv'
<1> SUFFICES ASSUME FileInv, Step PROVE FileInv'
  OBVIOUS
<1>1. ASSUME NEW r \in Reads,
             \/ \E off \in 0 .. Size - 1 : ReadAt(r, off)
             \/ ReadStep(r) \/ ReadFileFails(r) \/ SendFails(r)
      PROVE  FileInv'
  BY <1>1, ReadBegins, ReadStreams, PointerPlaced, PointerRead, ReadFails, ChunkSent, StreamEnds, ReadReturns
     DEF ReadStep
<1>2. CASE FileNext
  BY <1>1, <1>2, Opening, Closing, Seeking, Otherwise DEF FileNext
<1>3. FileNext \/ Lose \/ UNCHANGED <<wireVars, fileVars>>
  BY DEF Step, UseFile, UseDir, UseAttrs, remoteVars
<1> QED BY <1>2, <1>3, Otherwise

LEMMA FileHolds == RemoteSpec => []FileInv
BY FileInit0, FileStep, PTL DEF RemoteSpec, Step

\* Several reads, seeks and a moving file pointer: what a read returns is what the kernel asked
\* for.
THEOREM DataIsRight == RemoteSpec => []DataRight
<1>1. FileInv => DataRight
  BY DEF FileInv, Bytes, BytesOK, DataRight
<1> QED BY <1>1, FileHolds, PTL

\* Every short reply has one of the causes, none of them the order of requests.
THEOREM ShortRepliesExplained == RemoteSpec => []ShortExplained
<1>1. ASSUME FileInv PROVE ShortExplained
  <2> SUFFICES ASSUME NEW r \in Reads, rd[r].stage = "done", rd[r].n < Left(r)
               PROVE  \/ changed
                      \/ rd[r].logged /\ rd[r].n = 0
                      \/ agent = "unix" /\ rd[r].cut
    BY DEF ShortExplained
  <2>1. BytesOK(rd[r]) /\ rd[r] \in ReadRec /\ rd[r].off < Size /\ told = Size
    BY <1>1 DEF FileInv, Bytes, BytesOK, FileShape
  <2>2. Left(r) = Whole(rd[r]) /\ rd[r].n \in Nat /\ Whole(rd[r]) \in Int
    BY <2>1, FileAssumption DEF Left, Whole, ReadRec, Least
  <2>3. ~ (Whole(rd[r]) <= rd[r].n)
    BY <2>2
  <2> QED BY <2>1, <2>3 DEF BytesOK
<1> QED BY <1>1, FileHolds, PTL

-----------------------------------------------------------------------------
(* The lock of the handle *)

\* While the connection is up, the file that the kernel has open is open at the agent, and its
\* lock is given back by the step that reads from the pointer, well or not.
LockInv ==
  Up => /\ file = "open" => handle.open
        /\ lock # NoRead => lock \in Reads /\ rd[lock].stage = "placed"

LEMMA LockInit0 == RemoteInit => LockInv
BY DEF RemoteInit, FileInit, LockInv

LEMMA LockOfReads ==
  ASSUME FileInv, LockInv, NEW r \in Reads,
         \/ \E off \in 0 .. Size - 1 : ReadAt(r, off)
         \/ ReadStep(r) \/ ReadFileFails(r) \/ SendFails(r)
  PROVE  LockInv'
<1> USE DEF ReadAt, ReadStep, ReadNothing, SetFilePointer, ReadFile, MapView, ReadSection, SendChunk,
            SendSentinel, Receive, Answer, ReadFileFails, SendFails
<1>1. SUFFICES ASSUME Up' PROVE LockInv'
  BY DEF LockInv
<1>2. UNCHANGED <<conn, file>> /\ Up
  BY <1>1 DEF Rest, wireVars, Fault, Up
<1>3. handle' = handle \/ \E p : handle' = [handle EXCEPT !.pos = p]
  OBVIOUS
<1>4. handle'.open = handle.open
  BY <1>3 DEF FileInv, FileShape
<1>5. \E x : rd' = [rd EXCEPT ![r] = x]
  BY DEF Streams
<1>6. \A q \in Reads \ {r} : rd'[q] = rd[q]
  BY <1>5 DEF FileInv, FileShape
<1>7. CASE SetFilePointer(r)
  <2>1. lock' = r /\ rd' = [rd EXCEPT ![r].stage = "placed"]
    BY <1>7
  <2>2. rd \in [Reads -> ReadRec] /\ rd[r] \in ReadRec
    BY DEF FileInv, FileShape
  <2>3. rd'[r] = [rd[r] EXCEPT !.stage = "placed"]
    BY <2>1, <2>2
  <2>4. rd'[r].stage = "placed"
    BY <2>2, <2>3 DEF ReadRec
  <2> QED BY <1>2, <1>4, <2>1, <2>4 DEF LockInv
<1>8. CASE lock' = NoRead
  BY <1>2, <1>4, <1>8 DEF LockInv
<1>9. CASE lock' = lock /\ rd[r].stage # "placed"
  BY <1>2, <1>4, <1>6, <1>9 DEF LockInv
<1>10. \/ SetFilePointer(r) \/ lock' = NoRead
       \/ lock' = lock /\ rd[r].stage # "placed"
  BY <1>2 DEF CallFailed, Arrived
<1> QED BY <1>7, <1>8, <1>9, <1>10

LEMMA LockOfOthers ==
  ASSUME FileInv, LockInv,
         \/ OpenFile \/ HandleOpenFile \/ OpenFails \/ Release \/ HandleClose \/ CloseFails
         \/ \E w \in Whences, off \in 0 .. Size - 1 : Lseek(w, off)
         \/ HandleLseek \/ LseekFails \/ LseekReturns
         \/ \E n \in 0 .. Size : Change(n)
         \/ CloseFileHandles \/ Lose \/ UNCHANGED <<wireVars, fileVars>>
  PROVE  LockInv'
<1>1. CASE CloseFileHandles \/ Lose
  BY <1>1 DEF CloseFileHandles, Lose, LockInv, Up
<1>2. CASE OpenFile \/ OpenFails \/ Release \/ CloseFails \/ HandleClose
  BY <1>2 DEF OpenFile, OpenFails, Release, CloseFails, HandleClose, wireVars, Fault, LockInv, Up
<1>3. CASE HandleOpenFile
  BY <1>3 DEF HandleOpenFile, wireVars, LockInv, Up
<1>4. CASE HandleLseek
  <2>1. UNCHANGED <<conn, file, lock, rd>> /\ \E p : handle' = [handle EXCEPT !.pos = p]
    BY <1>4 DEF HandleLseek, wireVars
  <2>2. handle'.open = handle.open
    BY <2>1 DEF FileInv, FileShape
  <2> QED BY <2>1, <2>2 DEF LockInv, Up
<1>5. CASE UNCHANGED <<conn, file, handle, lock, rd>>
  BY <1>5 DEF LockInv, Up
<1> QED BY <1>1, <1>2, <1>3, <1>4, <1>5 DEF Lseek, LseekFails, LseekReturns, Change, wireVars, fileVars, Fault

LEMMA LockStep == FileInv /\ LockInv /\ Step => LockInv'
<1> SUFFICES ASSUME FileInv, LockInv, Step PROVE LockInv'
  OBVIOUS
<1>1. CASE FileNext
  BY <1>1, LockOfReads, LockOfOthers DEF FileNext
<1>2. FileNext \/ Lose \/ UNCHANGED <<wireVars, fileVars>>
  BY DEF Step, UseFile, UseDir, UseAttrs, remoteVars
<1> QED BY <1>1, <1>2, LockOfOthers

LEMMA LockHolds == RemoteSpec => [](FileInv /\ LockInv)
BY FileInit0, FileStep, LockInit0, LockStep, PTL DEF RemoteSpec, Step

\* Reads that fail, connections that end and closes that overtake nobody: a read waits for
\* another that can go on, at most.
THEOREM ReadsDoGoOn == RemoteSpec => []ReadsGoOn
<1>1. ASSUME FileInv, LockInv PROVE ReadsGoOn
  <2> SUFFICES ASSUME NEW r \in Reads, rd[r].stage # "idle", Up
               PROVE  CanGoOn(r) \/ (lock \in Reads /\ rd[lock].stage # "idle" /\ CanGoOn(lock))
    BY DEF ReadsGoOn, CanGoOn
  <2>1. rd[r].stage \in ReadStages /\ file = "open"
    BY <1>1 DEF FileInv, FileShape, Handles, ReadRec
  <2>2. handle.open /\ (lock # NoRead => lock \in Reads /\ rd[lock].stage = "placed")
    BY <1>1, <2>1 DEF LockInv
  <2>3. rd[r].stage = "placed" => lock = r
    BY <1>1 DEF FileInv, Placed
  <2> QED BY <2>1, <2>2, <2>3 DEF CanGoOn, ReadStages
<1> QED BY <1>1, LockHolds, PTL

-----------------------------------------------------------------------------
(* The seeks *)

\* A result is one of a handle that was open, of a Windows agent, whose file nobody has changed
\* since; it lands where the file says.
SeekInv ==
  /\ seek \in [stage : {"idle", "sent", "done"}, whence : Whences, off : 0 .. Size, res : 0 .. Failed]
  /\ seek.stage # "idle" => file = "open" /\ seek.off < Size
  /\ seek.stage = "done" /\ seek.res # Failed =>
       agent # "unix" /\ (handle.open => Lands(seek.whence, seek.off, seek.res))

LEMMA SeekInit0 == RemoteInit => SeekInv
BY FileAssumption DEF RemoteInit, WireInit, FileInit, IdleSeek, SeekInv, Whences, Failed

\* A step of a read, or of an open or a close: there is no seek under way, or it stays what it is.
LEMMA SeekStays ==
  ASSUME SeekInv, UNCHANGED <<agent, disk, seek>>,
         seek.stage # "idle" => file' = file /\ (handle'.open => handle.open)
  PROVE  SeekInv'
<1>1. \A w, o, x : Lands(w, o, x)' <=> Lands(w, o, x)
  BY DEF Lands, Data
<1> QED BY <1>1 DEF SeekInv

LEMMA SeekOfReads ==
  ASSUME FileInv, SeekInv, NEW r \in Reads,
         \/ \E off \in 0 .. Size - 1 : ReadAt(r, off)
         \/ ReadStep(r) \/ ReadFileFails(r) \/ SendFails(r)
  PROVE  SeekInv'
<1>1. UNCHANGED <<agent, disk, seek, file>>
  BY DEF ReadAt, ReadStep, ReadNothing, SetFilePointer, ReadFile, MapView, ReadSection, SendChunk,
         SendSentinel, Receive, Answer, ReadFileFails, SendFails, Rest, wireVars, Fault
<1>2. handle' = handle \/ \E p : handle' = [handle EXCEPT !.pos = p]
  BY DEF ReadAt, ReadStep, ReadNothing, SetFilePointer, ReadFile, MapView, ReadSection, SendChunk,
         SendSentinel, Receive, Answer, ReadFileFails, SendFails
<1>3. handle'.open = handle.open
  BY <1>2 DEF FileInv, FileShape
<1> QED BY <1>1, <1>3, SeekStays

LEMMA SeekOfHandles ==
  ASSUME FileInv, SeekInv,
         \/ OpenFile \/ HandleOpenFile \/ OpenFails \/ Release \/ HandleClose \/ CloseFails
         \/ CloseFileHandles \/ Lose \/ UNCHANGED <<wireVars, fileVars>>
  PROVE  SeekInv'
<1>1. UNCHANGED <<agent, disk, seek>>
  BY DEF OpenFile, HandleOpenFile, OpenFails, Release, HandleClose, CloseFails, CloseFileHandles, Lose,
         Fault, Rest, wireVars, fileVars
<1>2. ASSUME seek.stage # "idle" PROVE file' = file /\ (handle'.open => handle.open)
  <2>1. file = "open"
    BY <1>2 DEF SeekInv
  <2>2. OpenFileReq \notin asked /\ CloseReq \notin asked
    BY <2>1 DEF FileInv, Handles
  <2> QED BY <1>2, <2>1, <2>2 DEF OpenFile, HandleOpenFile, OpenFails, Release, HandleClose, CloseFails,
            CloseFileHandles, Lose, Rest, fileVars, Shut
<1> QED BY <1>1, <1>2, SeekStays

\* A file of Windows does not change while its handle is open.
LEMMA SeekOfChanges == ASSUME FileInv, SeekInv, NEW n \in 0 .. Size, Change(n) PROVE SeekInv'
<1>1. (agent = "unix" \/ ~ handle.open) /\ UNCHANGED <<agent, seek, file, handle>>
  BY DEF Change, Fault
<1> QED BY <1>1 DEF SeekInv

LEMMA SeekAsked ==
  ASSUME FileInv, SeekInv, \/ \E w \in Whences, off \in 0 .. Size - 1 : Lseek(w, off)
                           \/ LseekFails \/ LseekReturns
  PROVE  SeekInv'
<1>1. CASE \E w \in Whences, off \in 0 .. Size - 1 : Lseek(w, off)
  BY <1>1, FileAssumption DEF Lseek, LseekReq, SeekInv, Failed
<1>2. CASE LseekFails
  <2>1. /\ seek' = [seek EXCEPT !.stage = "done", !.res = Failed] /\ file' = file /\ seek.stage = "sent"
        /\ Failed \in 0 .. Failed
    BY <1>2, FileAssumption DEF LseekFails, LseekResp, Failed
  <2> QED BY <2>1 DEF SeekInv
<1>3. CASE LseekReturns
  BY <1>3, FileAssumption DEF LseekReturns, IdleSeek, SeekInv, Whences, Failed
<1> QED BY <1>1, <1>2, <1>3

LEMMA SparseSeekLands ==
  ASSUME DiskOK, NEW w \in Whences, NEW off \in 0 .. Size - 1, SparseSeek(w, off) # Failed
  PROVE  SparseSeek(w, off) \in 0 .. Size /\ Lands(w, off, SparseSeek(w, off))
<1>1. off < disk.size
  BY FileAssumption DEF SparseSeek, DiskOK
<1>2. CASE w = "data"
  BY <1>1, <1>2, FileAssumption, SeekDataLands DEF SparseSeek, DiskOK
<1>3. CASE w = "hole"
  BY <1>1, <1>3, FileAssumption, SeekHoleLands DEF SparseSeek, DiskOK
<1> QED BY <1>2, <1>3 DEF Whences

LEMMA SeekServed == ASSUME FileInv, SeekInv, HandleLseek PROVE SeekInv'
<1> DEFINE res == IF agent = "unix" THEN Failed ELSE SparseSeek(seek.whence, seek.off)
<1>1. /\ seek' = [seek EXCEPT !.stage = "done", !.res = res] /\ seek.stage = "sent"
      /\ UNCHANGED <<agent, disk, file>>
  BY DEF HandleLseek, LseekResp, wireVars
<1>2. DiskOK /\ seek.whence \in Whences /\ seek.off \in 0 .. Size - 1
  BY <1>1, FileAssumption DEF DiskOK, FileInv, FileShape, SeekInv
<1>3. res # Failed => agent # "unix" /\ res \in 0 .. Size /\ Lands(seek.whence, seek.off, res)
  BY <1>2, SparseSeekLands
<1>4. Failed \in 0 .. Failed /\ 0 .. Size \subseteq 0 .. Failed
  BY FileAssumption DEF Failed
<1> HIDE DEF res
<1>5. res \in 0 .. Failed
  BY <1>3, <1>4
<1>6. /\ seek' \in [stage : {"idle", "sent", "done"}, whence : Whences, off : 0 .. Size, res : 0 .. Failed]
      /\ seek'.stage = "done" /\ seek'.off = seek.off /\ seek'.whence = seek.whence /\ seek'.res = res
  BY <1>1, <1>5 DEF SeekInv
<1>7. seek'.res # Failed => Lands(seek.whence, seek.off, seek.res)'
  BY <1>1, <1>3, <1>6 DEF Lands, Data
<1> QED BY <1>1, <1>3, <1>6, <1>7 DEF SeekInv, Failed

LEMMA SeekStep == FileInv /\ SeekInv /\ Step => SeekInv'
<1> SUFFICES ASSUME FileInv, SeekInv, Step PROVE SeekInv'
  OBVIOUS
<1>1. CASE FileNext
  BY <1>1, SeekOfReads, SeekOfHandles, SeekOfChanges, SeekAsked, SeekServed DEF FileNext
<1>2. FileNext \/ Lose \/ UNCHANGED <<wireVars, fileVars>>
  BY DEF Step, UseFile, UseDir, UseAttrs, remoteVars
<1> QED BY <1>1, <1>2, SeekOfHandles

LEMMA SeekHolds == RemoteSpec => [](FileInv /\ SeekInv)
BY FileInit0, FileStep, SeekInit0, SeekStep, PTL DEF RemoteSpec, Step

\* Whatever is allocated of the file, a seek finds the next data, and no data is taken for a hole.
THEOREM SeeksLand == RemoteSpec => []SeekLands
<1>1. SeekInv => SeekLands
  BY DEF SeekInv, SeekLands, Lands, Data
<1> QED BY <1>1, SeekHolds, PTL

-----------------------------------------------------------------------------
(* Types: numbers of the file stay in their bounds because a read is sent no more than it asked
   for, and because the pointer it moves is where the read put it *)

ReadOK(x) == x.off <= Size /\ x.from <= Size /\ x.n + x.left <= Want

FileBounds ==
  /\ agent \in {"read", "mmap", "unix"} /\ faults \in 0 .. MaxFaults
  /\ file \in {"none", "opening", "open", "closing", "released"}
  /\ lock \in Reads \cup {NoRead} /\ handle.pos \in 0 .. Size
  /\ orphaned \in BOOLEAN /\ changed \in BOOLEAN
  /\ \A r \in Reads : ReadOK(rd[r])

LEMMA BoundsInit0 == RemoteInit => FileBounds
<1> SUFFICES ASSUME RemoteInit PROVE FileBounds
  OBVIOUS
<1> USE FileAssumption
<1>1. /\ agent \in {"read", "mmap", "unix"} /\ faults = 0 /\ file = "none" /\ lock = NoRead /\ handle = Shut
      /\ orphaned = FALSE /\ changed = FALSE /\ \A r \in Reads : rd[r] = IdleRead
  BY DEF RemoteInit, WireInit, FileInit
<1>2. ReadOK(IdleRead) /\ Shut.pos = 0
  BY DEF IdleRead, ReadOK, Shut
<1>3. \A r \in Reads : ReadOK(rd[r])
  BY <1>1, <1>2
<1>4. faults \in 0 .. MaxFaults /\ handle.pos \in 0 .. Size
  BY <1>1, <1>2
<1> QED BY <1>1, <1>3, <1>4 DEF FileBounds

LEMMA FaultBound == ASSUME FileBounds, Fault PROVE faults' \in 0 .. MaxFaults /\ agent' = agent
BY FileAssumption DEF Fault, FileBounds

\* A step of a read: the numbers it leaves in the read and in the pointer.
LEMMA BoundsOfRead ==
  ASSUME FileBounds, NEW r \in Reads, NEW x, rd \in [Reads -> ReadRec], rd' = [rd EXCEPT ![r] = x],
         ReadOK(x), UNCHANGED Rest, agent' = agent, faults' \in 0 .. MaxFaults,
         lock' \in {r, NoRead, lock}, handle'.pos \in 0 .. Size
  PROVE  FileBounds'
<1>1. \A q \in Reads : ReadOK(rd'[q])
  BY DEF FileBounds
<1> QED BY <1>1 DEF FileBounds, Rest, ReadOK

LEMMA BoundsOfReads ==
  ASSUME FileInv, FileBounds, NEW r \in Reads,
         \/ \E off \in 0 .. Size - 1 : ReadAt(r, off)
         \/ ReadStep(r) \/ ReadFileFails(r) \/ SendFails(r)
  PROVE  FileBounds'
<1>1. /\ rd \in [Reads -> ReadRec] /\ rd[r] \in ReadRec /\ ReadOK(rd[r]) /\ BytesOK(rd[r])
      /\ handle = [open |-> handle.open, size |-> handle.size, pos |-> handle.pos]
      /\ handle.size \in 0 .. Size /\ disk.size \in 0 .. Size /\ handle.pos \in 0 .. Size
      /\ faults \in 0 .. MaxFaults
  BY DEF FileInv, FileShape, FileBounds, Bytes
<1> USE FileAssumption
<1>2. CASE \E off \in 0 .. Size - 1 : ReadAt(r, off)
  <2>1. PICK off \in 0 .. Size - 1 : ReadAt(r, off)
    BY <1>2
  <2>2. ReadOK(ReadAtReq(off)) /\ rd' = [rd EXCEPT ![r] = ReadAtReq(off)]
    BY <2>1 DEF ReadOK, ReadAtReq, ReadAt
  <2>3. UNCHANGED <<agent, faults, handle, lock, Rest>>
    BY <2>1 DEF ReadAt, Rest, wireVars
  <2> QED BY <1>1, <2>2, <2>3, BoundsOfRead
<1>3. ASSUME NEW from \in 0 .. Size, NEW n \in 0 .. Want, Streams(r, from, n), rd[r].stage \in {"sent", "placed"},
             UNCHANGED <<agent, faults, Rest>>, lock' \in {lock, NoRead}, handle'.pos \in 0 .. Size
      PROVE  FileBounds'
  <2> DEFINE x == [rd[r] EXCEPT !.stage = "streaming", !.from = from, !.left = n]
  <2>1. rd' = [rd EXCEPT ![r] = x]
    BY <1>3 DEF Streams
  <2>2. ReadOK(x)
    BY <1>1, <1>3 DEF ReadOK, BytesOK, ReadRec
  <2> HIDE DEF x
  <2> QED BY <1>1, <1>3, <2>1, <2>2, BoundsOfRead
<1>4. CASE ReadNothing(r) \/ MapView(r) \/ ReadSection(r)
  <2>1. PICK n : Streams(r, rd[r].off, n) /\ n \in {0, Clamp(r), Want}
                 /\ (n = Clamp(r) => n = 0 \/ n = Want \/ rd[r].off < handle.size)
    BY <1>4 DEF ReadNothing, MapView, ReadSection
  <2>2. n \in 0 .. Want /\ rd[r].off \in 0 .. Size
    BY <1>1, <2>1 DEF Clamp, Least, ReadRec, ReadOK
  <2>3. rd[r].stage = "sent" /\ UNCHANGED <<agent, faults, handle, lock, Rest>>
    BY <1>4 DEF ReadNothing, MapView, ReadSection, Arrived, Rest, wireVars
  <2> QED BY <1>1, <1>3, <2>1, <2>2, <2>3
<1>5. CASE ReadFile(r)
  <2> DEFINE n == Least(Clamp(r), disk.size - handle.pos)
  <2>1. /\ Streams(r, handle.pos, n) /\ handle' = [handle EXCEPT !.pos = @ + n] /\ lock' = NoRead
        /\ Up /\ rd[r].stage = "placed" /\ UNCHANGED <<agent, faults, Rest>>
    BY <1>5 DEF ReadFile, Rest, wireVars
  <2>2. handle.pos = rd[r].off /\ rd[r].off < handle.size /\ handle.size = disk.size
    BY <2>1 DEF FileInv, Placed, SizesAgree
  <2>3. n \in 0 .. Want /\ handle.pos + n \in 0 .. Size
    BY <1>1, <2>2 DEF Clamp, Least, ReadRec
  <2> HIDE DEF n
  <2>4. handle'.pos \in 0 .. Size
    BY <1>1, <2>1, <2>3
  <2> QED BY <1>1, <1>3, <2>1, <2>3, <2>4
<1>6. CASE SetFilePointer(r)
  <2> DEFINE x == [rd[r] EXCEPT !.stage = "placed"]
  <2>1. /\ rd' = [rd EXCEPT ![r] = x] /\ handle' = [handle EXCEPT !.pos = rd[r].off] /\ lock' = r
        /\ UNCHANGED <<agent, faults, Rest>>
    BY <1>6 DEF SetFilePointer, Rest, wireVars
  <2>2. ReadOK(x) /\ rd[r].off \in 0 .. Size
    BY <1>1 DEF ReadOK, ReadRec
  <2>3. handle'.pos \in 0 .. Size
    BY <1>1, <2>1, <2>2
  <2> HIDE DEF x
  <2> QED BY <1>1, <2>1, <2>2, <2>3, BoundsOfRead
<1>7. CASE SendChunk(r)
  <2>1. PICK k \in 1 .. Available(r) : rd' = [rd EXCEPT ![r].n = @ + k, ![r].left = @ - k]
    BY <1>7 DEF SendChunk
  <2> DEFINE x == [rd[r] EXCEPT !.n = @ + k, !.left = @ - k]
  <2>2. rd' = [rd EXCEPT ![r] = x]
    BY <1>1, <2>1
  <2>3. k \in Int
    OBVIOUS
  <2>4. ReadOK(x)
    BY <1>1, <2>3 DEF ReadOK, ReadRec
  <2>5. UNCHANGED <<agent, faults, handle, lock, Rest>>
    BY <1>7 DEF SendChunk, Rest, wireVars
  <2> HIDE DEF x
  <2> QED BY <1>1, <2>2, <2>4, <2>5, BoundsOfRead
<1>8. CASE SendSentinel(r) \/ ReadFileFails(r) \/ SendFails(r) \/ Receive(r) \/ Answer(r)
  <2>1. /\ UNCHANGED <<agent, handle, Rest>> /\ lock' \in {lock, NoRead}
        /\ faults' = faults \/ Fault
    BY <1>8 DEF SendSentinel, ReadFileFails, SendFails, Receive, Answer, Rest, wireVars, Fault
  <2>2. faults' \in 0 .. MaxFaults
    BY <1>1, <2>1, FaultBound
  <2>3. \E x : rd' = [rd EXCEPT ![r] = x] /\ ReadOK(x)
    <3>1. CASE SendSentinel(r)
      <4>1. ReadOK([rd[r] EXCEPT !.stage = "ended"])
        BY <1>1 DEF ReadOK, ReadRec
      <4> QED BY <3>1, <4>1 DEF SendSentinel
    <3>2. CASE ReadFileFails(r)
      <4>1. ReadOK([rd[r] EXCEPT !.stage = "error"])
        BY <1>1 DEF ReadOK, ReadRec
      <4> QED BY <3>2, <4>1 DEF ReadFileFails
    <3>3. CASE SendFails(r)
      <4>1. ReadOK([rd[r] EXCEPT !.stage = "ended", !.cut = TRUE])
        BY <1>1 DEF ReadOK, ReadRec
      <4>2. rd' = [rd EXCEPT ![r] = [rd[r] EXCEPT !.stage = "ended", !.cut = TRUE]]
        BY <1>1, <3>3 DEF SendFails
      <4> QED BY <4>1, <4>2
    <3>4. CASE Receive(r)
      <4>1. /\ ReadOK([rd[r] EXCEPT !.stage = "done"])
            /\ ReadOK([rd[r] EXCEPT !.stage = "done", !.n = 0, !.logged = TRUE])
        BY <1>1 DEF ReadOK, ReadRec
      <4>2. \/ rd' = [rd EXCEPT ![r].stage = "done"]
            \/ rd' = [rd EXCEPT ![r].stage = "done", ![r].n = 0, ![r].logged = TRUE]
        BY <3>4 DEF Receive
      <4>3. \/ rd' = [rd EXCEPT ![r] = [rd[r] EXCEPT !.stage = "done"]]
            \/ rd' = [rd EXCEPT ![r] = [rd[r] EXCEPT !.stage = "done", !.n = 0, !.logged = TRUE]]
        BY <1>1, <4>2
      <4> QED BY <4>1, <4>3
    <3>5. CASE Answer(r)
      <4>1. ReadOK(IdleRead)
        BY DEF ReadOK, IdleRead
      <4> QED BY <3>5, <4>1 DEF Answer
    <3> QED BY <1>8, <3>1, <3>2, <3>3, <3>4, <3>5
  <2> QED BY <1>1, <2>1, <2>2, <2>3, BoundsOfRead
<1> QED BY <1>2, <1>4, <1>5, <1>6, <1>7, <1>8 DEF ReadStep

\* The other steps leave the reads alone.
LEMMA BoundsOfFile ==
  ASSUME FileInv, SeekInv, FileBounds,
         \/ OpenFile \/ HandleOpenFile \/ OpenFails \/ Release \/ HandleClose \/ CloseFails
         \/ \E w \in Whences, off \in 0 .. Size - 1 : Lseek(w, off)
         \/ HandleLseek \/ LseekFails \/ LseekReturns
         \/ \E n \in 0 .. Size : Change(n)
         \/ CloseFileHandles \/ Lose \/ UNCHANGED <<wireVars, fileVars>>
  PROVE  FileBounds'
<1> USE FileAssumption
<1>1. rd' = rd /\ agent' = agent
  BY DEF OpenFile, HandleOpenFile, OpenFails, Release, HandleClose, CloseFails, Lseek, HandleLseek, LseekFails,
         LseekReturns, Change, CloseFileHandles, Lose, Fault, wireVars, fileVars
<1>2. faults' \in 0 .. MaxFaults
  <2>1. \/ faults' = faults
        \/ Fault
        \/ Lose
    BY DEF OpenFile, HandleOpenFile, OpenFails, Release, HandleClose, CloseFails, Lseek, HandleLseek,
           LseekFails, LseekReturns, Change, CloseFileHandles, wireVars
  <2> QED BY <2>1, FaultBound DEF Lose, FileBounds
<1>3. /\ file' \in {"none", "opening", "open", "closing", "released"} /\ lock' \in {lock, NoRead}
      /\ orphaned' \in BOOLEAN /\ changed' \in BOOLEAN
  <2>1. CASE OpenFile \/ HandleOpenFile \/ OpenFails \/ Release \/ HandleClose \/ CloseFails
    BY <2>1 DEF OpenFile, HandleOpenFile, OpenFails, Release, HandleClose, CloseFails, FileBounds
  <2>2. CASE ~ (OpenFile \/ HandleOpenFile \/ OpenFails \/ Release \/ HandleClose \/ CloseFails)
    BY <2>2 DEF Lseek, HandleLseek, LseekFails, LseekReturns, Change, CloseFileHandles, Lose, Rest, fileVars,
           FileBounds
  <2> QED BY <2>1, <2>2
<1>4. handle'.pos \in 0 .. Size
  <2>1. CASE HandleLseek
    <3> DEFINE res == IF agent = "unix" THEN Failed ELSE SparseSeek(seek.whence, seek.off)
    <3>1. handle' = [handle EXCEPT !.pos = IF res = Failed THEN @ ELSE res] /\ seek.stage = "sent"
      BY <2>1 DEF HandleLseek
    <3>2. DiskOK /\ seek.whence \in Whences /\ seek.off \in 0 .. Size - 1
      BY <3>1 DEF DiskOK, FileInv, FileShape, SeekInv
    <3>3. res # Failed => res \in 0 .. Size
      BY <3>2, SparseSeekLands
    <3> HIDE DEF res
    <3>4. handle.pos \in 0 .. Size /\ handle = [open |-> handle.open, size |-> handle.size, pos |-> handle.pos]
      BY DEF FileBounds, FileInv, FileShape
    <3> QED BY <3>1, <3>3, <3>4
  <2>2. CASE ~ HandleLseek
    <3>1. handle' = handle \/ handle'.pos = 0
      BY <2>2 DEF OpenFile, HandleOpenFile, OpenFails, Release, HandleClose, CloseFails, Lseek, LseekFails,
             LseekReturns, Change, CloseFileHandles, Lose, Shut, fileVars
    <3> QED BY <3>1 DEF FileBounds
  <2> QED BY <2>1, <2>2
<1> QED BY <1>1, <1>2, <1>3, <1>4 DEF FileBounds, ReadOK

LEMMA BoundsStep == FileInv /\ SeekInv /\ FileBounds /\ Step => FileBounds'
<1> SUFFICES ASSUME FileInv, SeekInv, FileBounds, Step PROVE FileBounds'
  OBVIOUS
<1>1. CASE FileNext
  BY <1>1, BoundsOfReads, BoundsOfFile DEF FileNext
<1>2. FileNext \/ Lose \/ UNCHANGED <<wireVars, fileVars>>
  BY DEF Step, UseFile, UseDir, UseAttrs, remoteVars
<1> QED BY <1>1, <1>2, BoundsOfFile

LEMMA FileTypes == FileInv /\ SeekInv /\ FileBounds => FileTypeOK
<1> SUFFICES ASSUME FileInv, SeekInv, FileBounds PROVE FileTypeOK
  OBVIOUS
<1> USE FileAssumption
<1>1. disk \in [size : 0 .. Size, data : SUBSET (0 .. Size - 1)] /\ told \in 0 .. Size
  BY DEF FileInv, FileShape
<1>2. handle \in [open : BOOLEAN, size : 0 .. Size, pos : 0 .. Size]
  <2>1. /\ handle.open \in BOOLEAN /\ handle.size \in 0 .. Size /\ handle.pos \in 0 .. Size
        /\ handle = [open |-> handle.open, size |-> handle.size, pos |-> handle.pos]
    BY DEF FileInv, FileShape, FileBounds
  <2> QED BY <2>1
<1>3. rd \in [Reads -> [stage : ReadStages, off : 0 .. Size, from : 0 .. Size, left : 0 .. Want, n : 0 .. Want,
                        logged : BOOLEAN, cut : BOOLEAN]]
  <2>1. ASSUME NEW x \in ReadRec, ReadOK(x)
        PROVE  x \in [stage : ReadStages, off : 0 .. Size, from : 0 .. Size, left : 0 .. Want, n : 0 .. Want,
                      logged : BOOLEAN, cut : BOOLEAN]
    <3>1. x.off \in 0 .. Size /\ x.from \in 0 .. Size /\ x.left \in 0 .. Want /\ x.n \in 0 .. Want
      BY <2>1 DEF ReadRec, ReadOK
    <3> QED BY <3>1 DEF ReadRec
  <2> QED BY <2>1 DEF FileInv, FileShape, FileBounds
<1> QED BY <1>1, <1>2, <1>3 DEF FileTypeOK, FileInv, FileShape, SeekInv, FileBounds, ReadStages

-----------------------------------------------------------------------------
(* The listing: what its stream and the agent's handle have to do with each other *)

\* A handle of a directory is open from the open of the listing to its close; a stream that is
\* closed has been read to its end, or is about to be released.
DirHandles ==
  /\ reader \in [open : BOOLEAN, at : Nat, end : BOOLEAN]
  /\ calls \subseteq {OpenFileReq, CloseReq}
  /\ dir \in {"none", "opening"} => ~ reader.open
  /\ OpenFileReq \in calls => dir \in {"opening", "released"}
  /\ CloseReq \in calls => dir \in {"closing", "released"}
  /\ closed => "read" \in why \/ dir \in {"closing", "released"}

DirInv == DirHandles /\ DirHandleLeft

LEMMA DirInit0 == RemoteInit => DirInv
BY DEF RemoteInit, DirInit, DirInv, DirHandles, DirHandleLeft

\* Neither the handle nor the requests to the agent change, and the listing is neither before
\* its open nor at its close.
LEMMA ListingGoesOn ==
  ASSUME DirInv, UNCHANGED <<reader, calls, stray, mounted>>, why \subseteq why',
         dir \notin {"none", "opening", "closing", "released"},
         dir' \in {"idle", "reading", "asking", "answered", "end"},
         closed' => closed \/ "read" \in why'
  PROVE  DirInv'
BY DEF DirInv, DirHandles, DirHandleLeft

LEMMA ListingStep ==
  ASSUME DirInv, \/ NextEntry \/ HasNextCalls \/ HasNextStops \/ HasNextAnswered
                 \/ HasNextFails \/ Readdir
  PROVE  DirInv'
<1>1. CASE NextEntry
  BY <1>1, ListingGoesOn DEF NextEntry, MayGoOn, ReturnWith
<1>2. CASE HasNextCalls \/ HasNextStops
  BY <1>2, ListingGoesOn DEF HasNextCalls, HasNextStops, MayGoOn, ReturnWith
<1>3. CASE HasNextAnswered
  BY <1>3, ListingGoesOn DEF HasNextAnswered, ReturnWith
<1>4. CASE HasNextFails \/ Readdir
  BY <1>4, ListingGoesOn DEF HasNextFails, Readdir, ReturnWith
<1> QED BY <1>1, <1>2, <1>3, <1>4

LEMMA AgentDirStep ==
  ASSUME DirInv, HandleOpenDir \/ HandleCloseDir \/ HandleReadDir PROVE DirInv'
<1> USE DEF OpenFileReq, CloseReq
<1>1. CASE HandleOpenDir
  BY <1>1 DEF HandleOpenDir, DirInv, DirHandles, DirHandleLeft
<1>2. CASE HandleCloseDir
  BY <1>2 DEF HandleCloseDir, DirInv, DirHandles, DirHandleLeft
<1>3. CASE HandleReadDir
  <2>1. PICK at \in Nat, end \in BOOLEAN : reader' = [reader EXCEPT !.at = at, !.end = end]
    <3>1. Upto(reader.at + Batch, Entries) \in Nat
      BY DirAssumption DEF Upto, DirInv, DirHandles
    <3>2. \/ reader' = [reader EXCEPT !.at = Entries, !.end = TRUE]
          \/ reader' = [reader EXCEPT !.at = Upto(reader.at + Batch, Entries),
                                      !.end = (reader.at = Entries)]
      BY <1>3 DEF HandleReadDir, ReadDirBulk, NextBatch
    <3> QED BY <3>1, <3>2, DirAssumption
  <2>2. reader' \in [open : BOOLEAN, at : Nat, end : BOOLEAN] /\ reader'.open = reader.open
    BY <2>1 DEF DirInv, DirHandles
  <2>3. dir = "asking" /\ dir' = "answered" /\ UNCHANGED <<calls, closed, why, stray, mounted>>
    BY <1>3 DEF HandleReadDir
  <2> QED BY <2>2, <2>3 DEF DirInv, DirHandles, DirHandleLeft
<1> QED BY <1>1, <1>2, <1>3

LEMMA ListingEnds ==
  ASSUME DirInv, OpenDir \/ OpenDirFails \/ CloseDir \/ CloseDirFails \/ LoseSession
  PROVE  DirInv'
<1> USE DEF OpenFileReq, CloseReq
<1>1. CASE OpenDir
  BY <1>1 DEF OpenDir, DirInv, DirHandles, DirHandleLeft
<1>2. CASE OpenDirFails
  BY <1>2 DEF OpenDirFails, DirInv, DirHandles, DirHandleLeft
<1>3. CASE CloseDir
  BY <1>3 DEF CloseDir, DirInv, DirHandles, DirHandleLeft
<1>4. CASE CloseDirFails
  BY <1>4 DEF CloseDirFails, DirInv, DirHandles, DirHandleLeft
<1>5. CASE LoseSession
  BY <1>5 DEF LoseSession, DirInv, DirHandles, DirHandleLeft
<1> QED BY <1>1, <1>2, <1>3, <1>4, <1>5

LEMMA DirStepKeeps == DirInv /\ Step => DirInv'
<1> SUFFICES ASSUME DirInv, Step PROVE DirInv'
  OBVIOUS
<1>1. CASE DirNext
  BY <1>1, ListingStep, AgentDirStep, ListingEnds DEF DirNext, DirStep
<1>2. CASE UNCHANGED dirVars
  BY <1>2 DEF dirVars, DirInv, DirHandles, DirHandleLeft
<1> QED BY <1>1, <1>2 DEF Step, UseFile, UseDir, UseAttrs, remoteVars

\* Handles that nobody will close are left at the agent for the named causes only.
THEOREM HandlesAreLeft == RemoteSpec => []HandlesLeft
<1>1. RemoteInit => FileInv /\ DirInv
  BY FileInit0, DirInit0
<1>2. FileInv /\ DirInv /\ Step => FileInv' /\ DirInv'
  BY FileStep, DirStepKeeps
<1>3. FileInv /\ DirInv => HandlesLeft
  BY DEF FileInv, DirInv, HandlesLeft
<1> QED BY <1>1, <1>2, <1>3, PTL DEF RemoteSpec, Step

-----------------------------------------------------------------------------
(* The listing: what the kernel is given *)

E == 1 .. Entries

\* Entries on their way to the kernel: the one that did not fit, and those of the batch.
Over == IF over = NoEntry THEN <<>> ELSE <<over>>
Fetched == IF answer = ErrProcessDone THEN <<>> ELSE answer
\* What the agent has sent: the entries listed and those on their way.
Sent == listed \o (Over \o (lastResp \o Fetched))

\* The beginnings of the directory as it is shown.
Order == [b \in Nat |-> Visible(0, b)]

ListTypes ==
  /\ hidden \subseteq 1 .. Entries /\ mounted \in BOOLEAN
  /\ dir \in {"none", "opening", "idle", "reading", "asking", "answered", "end", "closing", "released"}
  /\ got \in 0 .. Buffer /\ over \in 0 .. Entries
  /\ answer \in {ErrProcessDone} \cup Seq(1 .. Entries)
  /\ lastResp \in Seq(1 .. Entries) /\ listed \in Seq(1 .. Entries)
  /\ total \in 0 .. MaxDirEntries /\ closed \in BOOLEAN
  /\ reader \in [open : BOOLEAN, at : 0 .. Entries, end : BOOLEAN]
  /\ why \subseteq {"read", "limit", "filtered", "error"}

\* Where the entries on their way are at each stage.
Stages ==
  /\ dir # "answered" => answer = <<>>
  /\ over # NoEntry => dir \in {"idle", "closing", "released"}
  /\ lastResp # <<>> => dir \in {"reading", "idle", "closing", "released", "end"}
  /\ dir \in {"asking", "answered"} => ~ closed
  /\ total = Len(listed) + Len(Over)
  /\ dir \in {"none", "opening"} => listed = <<>> /\ over = NoEntry /\ lastResp = <<>> /\ reader.at = 0 /\ ~ reader.end /\ ~ closed

\* How far the agent has read.
AgentRead ==
  /\ reader.end => reader.at = Entries
  /\ answer = ErrProcessDone => reader.at = Entries
  /\ bulk /\ ~ reader.end /\ dir # "released" => reader.at = 0
  /\ bulk /\ dir = "answered" => reader.end

\* Nothing is lost between the agent and the kernel, unless the session is.
NothingLost ==
  /\ \E rest \in Seq(1 .. Entries) : Sent \o rest = Order[Entries]
  /\ (mounted \/ dir = "answered") /\ dir # "released" => Sent = Order[reader.at]
  /\ closed /\ dir \notin {"closing", "released"} =>
       lastResp = <<>> /\ Sent = Order[Entries]

EndReasons ==
  dir = "end" =>
       \/ listed = Order[Entries]
       \/ "error" \in why
       \/ "limit" \in why /\ Len(listed) = MaxDirEntries
       \/ "filtered" \in why /\ ~bulk /\ listed = Order[reader.at]

ListInv == ListTypes /\ Stages /\ AgentRead /\ NothingLost /\ EndReasons

LEMMA OrderIs ==
  ASSUME hidden \subseteq E
  PROVE  /\ Order[0] = <<>> /\ \A b \in 0 .. Entries : Order[b] \in Seq(E)
         /\ \A b \in 0 .. Entries, c \in 0 .. Entries :
              b <= c => Visible(b, c) \in Seq(E) /\ Order[c] = Order[b] \o Visible(b, c)
<1>1. ASSUME NEW b \in 0 .. Entries, NEW c \in 0 .. Entries PROVE Visible(b, c) \in Seq(E)
  <2>1. b \in Nat /\ c \in Nat /\ Shown(b, c) \subseteq E
    BY DirAssumption DEF E, Shown
  <2>2. Visible(b, c) \in Seq(Shown(b, c))
    BY <2>1, VisibleLists DEF Lists
  <2> QED BY <2>1, <2>2, SeqMonotonic
<1>2. Order[0] = <<>> /\ \A b \in Nat : Order[b] = Visible(0, b)
  BY VisibleIs DEF Order
<1>3. ASSUME NEW b \in 0 .. Entries PROVE Order[b] \in Seq(E)
  BY <1>1, <1>2, DirAssumption
<1>4. ASSUME NEW b \in 0 .. Entries, NEW c \in 0 .. Entries, b <= c
      PROVE  Order[c] = Order[b] \o Visible(b, c)
  <2>1. 0 \in Nat /\ 0 <= b /\ b \in Nat /\ c \in Nat /\ b <= c
    BY <1>4, DirAssumption
  <2>2. Visible(0, c) = Visible(0, b) \o Visible(b, c)
    BY <2>1, VisibleConcat, Zenon
  <2> QED BY <1>2, <2>1, <2>2
<1> QED BY <1>1, <1>2, <1>3, <1>4

LEMMA OrderStays == ASSUME UNCHANGED hidden PROVE Order' = Order
BY DEF Order, Visible

LEMMA Joined ==
  ASSUME NEW S
  PROVE  /\ \A s \in Seq(S) : s \o <<>> = s /\ <<>> \o s = s
         /\ \A s \in Seq(S), t \in Seq(S) : s \o t \in Seq(S)
         /\ \A s \in Seq(S), t \in Seq(S), u \in Seq(S) : (s \o t) \o u = s \o (t \o u)
BY ConcatEmptySeq, ConcatProperties, ConcatAssociative

LEMMA SentTypes == ASSUME ListTypes PROVE Over \in Seq(E) /\ Fetched \in Seq(E) /\ Sent \in Seq(E)
<1>1. Over \in Seq(E)
  <2>1. over = NoEntry \/ over \in E
    BY DEF ListTypes, NoEntry, E
  <2>2. <<>> \in Seq(E) /\ \A e \in E : <<e>> \in Seq(E)
    OBVIOUS
  <2> QED BY <2>1, <2>2 DEF Over
<1>2. Fetched \in Seq(E)
  <2>1. answer = ErrProcessDone \/ answer \in Seq(E)
    BY DEF ListTypes, E
  <2>2. <<>> \in Seq(E)
    OBVIOUS
  <2> QED BY <2>1, <2>2 DEF Fetched
<1> QED BY <1>1, <1>2, Joined DEF ListTypes, Sent, E

LEMMA ListInit0 == RemoteInit => ListInv
<1> SUFFICES ASSUME RemoteInit PROVE ListInv
  OBVIOUS
<1> USE DirAssumption DEF RemoteInit, DirInit
<1>1. ListTypes
  <2>1. listed \in Seq(1 .. Entries) /\ lastResp \in Seq(1 .. Entries) /\ answer \in Seq(1 .. Entries)
    OBVIOUS
  <2>2. /\ got \in 0 .. Buffer /\ over \in 0 .. Entries /\ total \in 0 .. MaxDirEntries
        /\ reader \in [open : BOOLEAN, at : 0 .. Entries, end : BOOLEAN]
    BY DEF NoEntry
  <2>3. /\ hidden \subseteq 1 .. Entries /\ mounted \in BOOLEAN /\ dir = "none" /\ closed \in BOOLEAN
        /\ why = {}
    OBVIOUS
  <2> QED BY <2>1, <2>2, <2>3 DEF ListTypes
<1>2. Over = <<>> /\ Fetched = <<>> /\ Sent = <<>>
  <2>1. Over = <<>> /\ Fetched = <<>>
    BY DEF Over, Fetched, ErrProcessDone
  <2> QED BY <2>1 DEF Sent
<1>3. Stages /\ AgentRead /\ EndReasons
  BY <1>2 DEF Stages, AgentRead, EndReasons, ErrProcessDone
<1>4. NothingLost
  <2>1. Order[0] = <<>> /\ Order[Entries] \in Seq(E)
    BY <1>1, OrderIs DEF ListTypes, E
  <2>2. <<>> \o Order[Entries] = Order[Entries]
    BY <2>1, Joined
  <2> QED BY <1>2, <2>1, <2>2 DEF NothingLost, E
<1> QED BY <1>1, <1>3, <1>4 DEF ListInv

\* A step that sends nothing to the client and takes nothing away.
LEMMA SentStays ==
  ASSUME ListInv, Sent' = Sent, UNCHANGED <<hidden, reader>>,
         mounted' \/ dir' = "answered" => mounted \/ dir = "answered",
         dir' # "released" => dir # "released",
         closed' /\ dir' \notin {"closing", "released"} =>
           lastResp' = <<>> /\ Sent = Order[Entries]
  PROVE  NothingLost'
<1>1. Order' = Order
  BY OrderStays
<1> QED BY <1>1 DEF ListInv, NothingLost

LEMMA ListingOpens ==
  ASSUME ListInv, DirHandles, OpenDir \/ OpenDirFails \/ HandleOpenDir PROVE ListInv'
<1> USE DEF ListInv
<1>1. /\ UNCHANGED <<bulk, hidden, mounted, got, over, lastResp, total, closed, answer, listed, why>>
      /\ dir \in {"none", "opening", "released"} /\ dir' # "answered" /\ dir' # "end"
      /\ dir = "released" => dir' = "released"
      /\ dir' \in {"none", "opening"} => dir \in {"none", "opening"}
      /\ dir' \in {"opening", "idle", "released"}
      /\ reader' = reader \/ (reader' = [open |-> TRUE, at |-> 0, end |-> FALSE] /\ dir' \in {"idle", "released"})
  BY DEF OpenDir, OpenDirFails, HandleOpenDir, OpenFileReq, CloseReq, DirHandles
<1>2. ListTypes'
  <2>1. [open |-> TRUE, at |-> 0, end |-> FALSE] \in [open : BOOLEAN, at : 0 .. Entries, end : BOOLEAN]
    BY DirAssumption
  <2> QED BY <1>1, <2>1 DEF ListTypes
<1>3. Over' = Over /\ Fetched' = Fetched /\ Sent' = Sent
  BY <1>1 DEF Over, Fetched, Sent
<1>4. Stages'
  BY <1>1, <1>3 DEF Stages
<1>5. AgentRead'
  <2>1. answer' # ErrProcessDone
    BY <1>1 DEF Stages, ErrProcessDone
  <2> QED BY <1>1, <2>1 DEF AgentRead, Stages
<1>6. NothingLost'
  <2>1. Order' = Order /\ Order[0] = <<>>
    BY <1>1, OrderStays, OrderIs DEF ListTypes, E
  <2>2. CASE dir = "released"
    BY <1>1, <1>3, <2>1, <2>2 DEF NothingLost
  <2>3. CASE dir # "released"
    <3>1. Sent = <<>> /\ ~ closed /\ reader.at = 0 /\ reader'.at = 0
      <4>1. listed = <<>> /\ over = NoEntry /\ lastResp = <<>> /\ answer = <<>> /\ ~ closed /\ reader.at = 0
        BY <1>1, <2>3 DEF Stages
      <4>2. Over = <<>> /\ Fetched = <<>>
        BY <4>1 DEF Over, Fetched, ErrProcessDone
      <4> QED BY <1>1, <4>1, <4>2 DEF Sent
    <3> QED BY <1>1, <1>3, <2>1, <3>1 DEF NothingLost
  <2> QED BY <2>2, <2>3
<1> QED BY <1>1, <1>2, <1>4, <1>5, <1>6 DEF EndReasons

\* Closing a listing, and losing the session.
LEMMA ListingCloses ==
  ASSUME ListInv, DirHandles, CloseDir \/ CloseDirFails \/ HandleCloseDir \/ LoseSession PROVE ListInv'
<1> USE DEF ListInv
<1>1. /\ UNCHANGED <<bulk, hidden, got, over, lastResp, total, answer, listed, why>>
      /\ mounted' \in BOOLEAN /\ (mounted' => mounted) /\ closed' \in BOOLEAN
      /\ reader' = reader \/ reader' = [reader EXCEPT !.open = FALSE]
      /\ \/ dir' = dir /\ closed' = closed
         \/ dir' \in {"closing", "released"} /\ dir \in {"idle", "end", "closing", "released"}
      /\ dir = "released" => dir' = "released"
  <2>1. CASE CloseDir
    BY <2>1 DEF CloseDir, ListTypes
  <2>2. CASE CloseDirFails
    BY <2>2 DEF CloseDirFails, ListTypes
  <2>3. CASE HandleCloseDir
    BY <2>3 DEF HandleCloseDir, ListTypes, DirHandles
  <2>4. CASE LoseSession
    BY <2>4 DEF LoseSession, ListTypes
  <2> QED BY <2>1, <2>2, <2>3, <2>4
<1>2. /\ reader'.at = reader.at /\ reader'.end = reader.end
      /\ reader' \in [open : BOOLEAN, at : 0 .. Entries, end : BOOLEAN]
  BY <1>1 DEF ListTypes
<1>3. ListTypes'
  BY <1>1, <1>2 DEF ListTypes
<1>4. Over' = Over /\ Fetched' = Fetched /\ Sent' = Sent
  BY <1>1 DEF Over, Fetched, Sent
<1>5. Stages' /\ AgentRead' /\ EndReasons'
  <2>1. Order' = Order
    BY <1>1, OrderStays
  <2> QED BY <1>1, <1>4, <1>2, <2>1 DEF Stages, AgentRead, EndReasons
<1>6. NothingLost'
  <2>1. Order' = Order
    BY <1>1, OrderStays
  <2> QED BY <1>1, <1>4, <1>2, <2>1 DEF NothingLost
<1> QED BY <1>3, <1>5, <1>6

\* Where nothing is on its way but a batch that has arrived.
LEMMA Reading ==
  ASSUME ListInv, dir = "reading" \/ dir = "asking"
  PROVE  Over = <<>> /\ Fetched = <<>> /\ Sent = listed \o lastResp /\ total = Len(listed)
<1> USE DEF ListInv
<1>1. over = NoEntry /\ answer = <<>>
  BY DEF Stages
<1>2. Over = <<>> /\ Fetched = <<>>
  BY <1>1 DEF Over, Fetched, ErrProcessDone
<1>3. <<>> \o (lastResp \o <<>>) = lastResp /\ lastResp \in Seq(E) /\ listed \in Seq(E)
  BY Joined DEF ListTypes, E
<1>4. total = Len(listed)
  BY <1>2, <1>3 DEF Stages
<1> QED BY <1>2, <1>3, <1>4 DEF Sent

LEMMA ReaddirBegins == ASSUME ListInv, Readdir PROVE ListInv'
<1> USE DEF ListInv
<1>1. /\ UNCHANGED <<bulk, hidden, mounted, lastResp, total, closed, reader, answer, why>>
      /\ dir = "idle" /\ dir' = "reading" /\ over' = NoEntry
      /\ got' = (IF over = NoEntry THEN 0 ELSE 1)
      /\ listed' = (IF over = NoEntry THEN listed ELSE Append(listed, over))
  BY DEF Readdir
<1>2. answer = <<>>
  BY <1>1 DEF Stages
<1>3. /\ listed \in Seq(E) /\ Over \in Seq(E) /\ lastResp \in Seq(E) /\ Fetched = <<>> /\ Fetched' = <<>>
      /\ Over' = <<>>
  BY <1>1, <1>2, SentTypes DEF ListTypes, E, Fetched, ErrProcessDone, Over
<1>4. listed' = listed \o Over
  <2>1. CASE over = NoEntry
    BY <1>1, <1>3, <2>1, Joined DEF Over
  <2>2. CASE over # NoEntry
    BY <1>1, <1>3, <2>2, AppendIsConcat DEF Over, ListTypes, NoEntry, E
  <2> QED BY <2>1, <2>2
<1>5. listed' \in Seq(E) /\ Len(listed') = Len(listed) + Len(Over)
  BY <1>3, <1>4, ConcatProperties
<1>6. Sent' = Sent
  <2>1. Sent' = listed' \o lastResp
    BY <1>1, <1>3, Joined DEF Sent
  <2>2. Sent = listed \o (Over \o lastResp)
    BY <1>3, Joined DEF Sent
  <2> QED BY <1>3, <1>4, <2>1, <2>2, Joined
<1>7. ListTypes'
  BY <1>1, <1>5, DirAssumption DEF ListTypes, E, NoEntry
<1>8. Stages' /\ AgentRead' /\ EndReasons'
  <2>1. Len(Over') = 0 /\ Len(listed') \in Nat
    BY <1>3, <1>5
  <2> QED BY <1>1, <1>2, <1>3, <1>5, <2>1 DEF Stages, AgentRead, EndReasons, ErrProcessDone
<1>9. NothingLost'
  BY <1>1, <1>6, SentStays DEF NothingLost
<1> QED BY <1>7, <1>8, <1>9

LEMMA EntryGiven == ASSUME ListInv, NextEntry PROVE ListInv'
<1> USE DEF ListInv
<1>1. /\ UNCHANGED <<bulk, hidden, mounted, closed, reader, answer>>
      /\ dir = "reading" /\ ~ closed /\ total < MaxDirEntries /\ lastResp # <<>>
      /\ lastResp' = Tail(lastResp) /\ total' = total + 1
  BY DEF NextEntry, MayGoOn
<1>2. \/ /\ got < Buffer /\ got' = got + 1 /\ listed' = Append(listed, Head(lastResp))
         /\ UNCHANGED <<dir, over, why>>
      \/ /\ ~ (got < Buffer) /\ over' = Head(lastResp) /\ dir' = "idle" /\ UNCHANGED <<why, got, listed>>
  <2>1. got >= Buffer => got # 0
    BY DirAssumption DEF ListTypes
  <2> QED BY <2>1, DirAssumption DEF NextEntry, ReturnWith, ListTypes
<1> DEFINE h == Head(lastResp)
           t == Tail(lastResp)
<1>3. /\ h \in E /\ t \in Seq(E) /\ lastResp = <<h>> \o t /\ listed \in Seq(E) /\ lastResp \in Seq(E)
      /\ <<h>> \in Seq(E)
  <2>1. lastResp \in Seq(E) /\ listed \in Seq(E)
    BY DEF ListTypes, E
  <2> QED BY <1>1, <2>1
<1>4. Sent = listed \o (<<h>> \o t) /\ over = NoEntry /\ answer = <<>> /\ total = Len(listed)
      /\ Over = <<>>
  BY <1>1, <1>3, Reading DEF Stages
<1>5. Fetched' = <<>>
  BY <1>1, <1>4 DEF Fetched, ErrProcessDone
<1> HIDE DEF h, t
<1>6. CASE got < Buffer
  <2>1. got' = got + 1 /\ listed' = listed \o <<h>> /\ UNCHANGED <<dir, over, why>>
    BY <1>2, <1>3, <1>6, AppendIsConcat DEF ListTypes, h
  <2>2. Over' = <<>>
    BY <1>4, <2>1 DEF Over
  <2>3. Sent' = listed' \o t /\ listed' \in Seq(E) /\ Len(listed') = Len(listed) + 1
    BY <1>1, <1>3, <1>5, <2>1, <2>2, Joined DEF Sent, t
  <2>4. Sent' = Sent
    BY <1>3, <1>4, <2>1, <2>3, Joined
  <2>5. ListTypes'
    <3>1. got' \in 0 .. Buffer /\ total' \in 0 .. MaxDirEntries
      BY <1>1, <1>6, <2>1, DirAssumption DEF ListTypes
    <3>2. lastResp' \in Seq(1 .. Entries) /\ listed' \in Seq(1 .. Entries)
      BY <1>1, <1>3, <2>3 DEF t, E
    <3> QED BY <1>1, <2>1, <3>1, <3>2 DEF ListTypes
  <2>6. Stages' /\ AgentRead' /\ EndReasons'
    <3>1. Len(Over') = 0
      BY <2>2
    <3>2. total' = Len(listed') + Len(Over')
      BY <1>1, <1>4, <2>3, <3>1 DEF ListTypes
    <3> QED BY <1>1, <1>4, <2>1, <3>2 DEF Stages, AgentRead, EndReasons, ErrProcessDone
  <2> QED BY <1>1, <2>1, <2>4, <2>5, <2>6, SentStays
<1>7. CASE ~ (got < Buffer)
  <2>1. over' = h /\ dir' = "idle" /\ UNCHANGED <<why, got, listed>>
    BY <1>2, <1>7 DEF h
  <2>2. Over' = <<h>>
    BY <1>3, <2>1 DEF Over, NoEntry, E
  <2>3. Sent' = listed \o (<<h>> \o t)
    BY <1>1, <1>3, <1>5, <2>1, <2>2, Joined DEF Sent, t
  <2>4. ListTypes'
    <3>1. total' \in 0 .. MaxDirEntries /\ over' \in 0 .. Entries
      BY <1>1, <1>3, <2>1, DirAssumption DEF ListTypes, E
    <3>2. lastResp' \in Seq(1 .. Entries)
      BY <1>1, <1>3 DEF t, E
    <3> QED BY <1>1, <2>1, <3>1, <3>2 DEF ListTypes
  <2>5. Stages' /\ AgentRead' /\ EndReasons'
    <3>1. Len(Over') = 1
      BY <2>2
    <3>2. total' = Len(listed') + Len(Over')
      BY <1>1, <1>4, <2>1, <3>1 DEF ListTypes
    <3> QED BY <1>1, <1>4, <2>1, <3>2 DEF Stages, AgentRead, EndReasons, ErrProcessDone
  <2> QED BY <1>1, <1>4, <2>1, <2>3, <2>4, <2>5, SentStays
<1> QED BY <1>6, <1>7

\* READDIRs that end without an entry have one of the reasons.
LEMMA ReaddirEnds == ASSUME ListInv, HasNextStops PROVE ListInv'
<1> USE DEF ListInv
<1>1. /\ UNCHANGED <<bulk, hidden, mounted, got, over, lastResp, total, closed, reader, answer, listed>>
      /\ dir = "reading" /\ (closed \/ total >= MaxDirEntries)
      /\ dir' \in {"end", "idle"}
      /\ why' = why \/ (dir' = "end" /\ ~ closed /\ why' = why \cup {"limit"})
      /\ dir' = "end" => closed \/ "limit" \in why'
  BY DEF HasNextStops, ReturnWith
<1>2. Sent' = Sent /\ Over' = Over
  BY <1>1 DEF Sent, Over, Fetched
<1>3. Order' = Order
  BY <1>1, OrderStays
<1>4. ListTypes' /\ Stages' /\ AgentRead'
  BY <1>1, <1>2 DEF ListTypes, Stages, AgentRead, ErrProcessDone
<1>5. NothingLost'
  BY <1>1, <1>2, SentStays DEF NothingLost
<1>6. EndReasons'
  <2> SUFFICES ASSUME dir' = "end"
               PROVE  listed = Order[Entries] \/ ("limit" \in why' /\ Len(listed) = MaxDirEntries)
    BY <1>1, <1>3 DEF EndReasons
  <2>1. Sent = listed \o lastResp /\ total = Len(listed) /\ listed \in Seq(E)
    BY <1>1, Reading DEF ListTypes, E
  <2>2. CASE closed
    <3>1. lastResp = <<>> /\ Sent = Order[Entries]
      BY <1>1, <2>2 DEF NothingLost
    <3> QED BY <2>1, <3>1, Joined
  <2>3. CASE ~ closed
    <3>1. total = MaxDirEntries
      BY <1>1, <2>3, DirAssumption DEF ListTypes
    <3> QED BY <1>1, <2>1, <2>3, <3>1
  <2> QED BY <2>2, <2>3
<1> QED BY <1>4, <1>5, <1>6

LEMMA BatchAsked == ASSUME ListInv, HasNextCalls PROVE ListInv'
<1> USE DEF ListInv
<1>1. /\ UNCHANGED <<bulk, hidden, mounted, got, over, lastResp, total, closed, reader, answer, listed, why>>
      /\ dir = "reading" /\ dir' = "asking" /\ lastResp = <<>> /\ ~ closed
  BY DEF HasNextCalls, MayGoOn
<1>2. Sent' = Sent /\ Over' = Over
  BY <1>1 DEF Sent, Over, Fetched
<1>3. ListTypes'
  BY <1>1 DEF ListTypes
<1>4. Stages'
  BY <1>1, <1>2 DEF Stages
<1>5. AgentRead' /\ EndReasons'
  BY <1>1 DEF AgentRead, EndReasons
<1>6. NothingLost'
  BY <1>1, <1>2, SentStays DEF NothingLost
<1> QED BY <1>3, <1>4, <1>5, <1>6

\* What a batch that is asked for adds.
LEMMA BatchSent == ASSUME ListInv, HandleReadDir PROVE ListInv'
<1> USE DEF ListInv
<1>1. /\ UNCHANGED <<bulk, hidden, mounted, got, over, lastResp, total, closed, listed, why>>
      /\ mounted /\ dir = "asking" /\ dir' = "answered"
      /\ IF bulk THEN ReadDirBulk ELSE NextBatch
  BY DEF HandleReadDir
<1>2. /\ Over = <<>> /\ lastResp = <<>> /\ Sent = listed /\ listed \in Seq(E) /\ ~ closed
      /\ listed = Order[reader.at] /\ reader.at \in 0 .. Entries /\ over = NoEntry
  <2>1. Over = <<>> /\ Sent = listed \o lastResp /\ listed \in Seq(E) /\ over = NoEntry
    BY <1>1, Reading DEF ListTypes, E, Stages
  <2>2. lastResp = <<>> /\ ~ closed
    BY <1>1 DEF Stages
  <2>3. listed \o <<>> = listed
    BY <2>1, Joined
  <2>4. Sent = Order[reader.at] /\ reader.at \in 0 .. Entries
    BY <1>1 DEF NothingLost, ListTypes
  <2> QED BY <2>1, <2>2, <2>3, <2>4
<1>3. Over' = <<>> /\ Order' = Order
  BY <1>1, <1>2, OrderStays DEF Over
<1>4. \* The agent goes on to m and answers with what is shown up to there, or with the end.
      \E m \in 0 .. Entries :
        /\ reader.at <= m /\ reader'.at = m
        /\ reader' \in [open : BOOLEAN, at : 0 .. Entries, end : BOOLEAN]
        /\ reader'.end => m = Entries
        /\ bulk => reader'.end
        /\ \/ answer' = ErrProcessDone /\ reader.at = Entries
           \/ answer' = Visible(reader.at, m)
  <2>1. CASE bulk
    <3>1. /\ reader' = [reader EXCEPT !.at = Entries, !.end = TRUE]
          /\ answer' = IF reader.end THEN ErrProcessDone ELSE Visible(0, Entries)
      BY <1>1, <2>1 DEF ReadDirBulk
    <3>2. reader.end => reader.at = Entries
      BY DEF AgentRead
    <3>3. ~ reader.end => reader.at = 0
      BY <1>1, <2>1 DEF AgentRead
    <3>4. /\ reader' \in [open : BOOLEAN, at : 0 .. Entries, end : BOOLEAN]
          /\ reader'.at = Entries /\ reader'.end
      <4>1. reader \in [open : BOOLEAN, at : 0 .. Entries, end : BOOLEAN] /\ Entries \in 0 .. Entries
        BY DirAssumption DEF ListTypes
      <4> QED BY <3>1, <4>1
    <3>5. Entries \in 0 .. Entries /\ reader.at <= Entries
      BY <1>2, DirAssumption
    <3> QED BY <3>1, <3>2, <3>3, <3>4, <3>5
  <2>2. CASE ~ bulk
    <3> DEFINE b == Upto(reader.at + Batch, Entries)
    <3>1. /\ answer' = IF reader.at = Entries THEN ErrProcessDone ELSE Visible(reader.at, b)
          /\ reader' = [reader EXCEPT !.at = b, !.end = (reader.at = Entries)]
      BY <1>1, <2>2 DEF NextBatch
    <3>2. b \in 0 .. Entries /\ reader.at <= b /\ (reader.at = Entries => b = Entries)
      BY <1>2, DirAssumption DEF Upto
    <3> HIDE DEF b
    <3>3. /\ reader' \in [open : BOOLEAN, at : 0 .. Entries, end : BOOLEAN]
          /\ reader'.at = b /\ reader'.end = (reader.at = Entries)
      BY <3>1, <3>2 DEF ListTypes
    <3> QED BY <2>2, <3>1, <3>2, <3>3
  <2> QED BY <2>1, <2>2
<1>5. PICK m \in 0 .. Entries :
        /\ reader.at <= m /\ reader'.at = m
        /\ reader' \in [open : BOOLEAN, at : 0 .. Entries, end : BOOLEAN]
        /\ reader'.end => m = Entries
        /\ bulk => reader'.end
        /\ \/ answer' = ErrProcessDone /\ reader.at = Entries
           \/ answer' = Visible(reader.at, m)
  BY <1>4
<1>6. /\ Fetched' \in Seq(E) /\ Order[m] = listed \o Fetched' /\ Order[m] \in Seq(E)
      /\ answer' \in {ErrProcessDone} \cup Seq(E)
      /\ answer' = ErrProcessDone => m = Entries
  <2> hidden \subseteq E
    BY DEF ListTypes, E
  <2>1. Order[m] \in Seq(E)
    BY OrderIs
  <2>2. CASE answer' = ErrProcessDone /\ reader.at = Entries
    <3>1. m = Entries /\ Fetched' = <<>>
      BY <1>5, <2>2, DirAssumption DEF Fetched
    <3> QED BY <1>2, <2>1, <2>2, <3>1, Joined
  <2>3. CASE answer' = Visible(reader.at, m)
    <3>1. Visible(reader.at, m) \in Seq(E) /\ Order[m] = listed \o Visible(reader.at, m)
      BY <1>2, <1>5, OrderIs
    <3>2. answer' # ErrProcessDone
      <4>1. ErrProcessDone \notin Seq(E)
        BY DEF ErrProcessDone, E
      <4> QED BY <2>3, <3>1, <4>1
    <3> QED BY <2>1, <2>3, <3>1, <3>2 DEF Fetched
  <2> QED BY <1>5, <2>2, <2>3
<1>7. Sent' = Order[m]
  <2>1. Sent' = listed \o Fetched'
    BY <1>1, <1>2, <1>3, <1>6, Joined DEF Sent
  <2> QED BY <1>6, <2>1
<1>8. ListTypes'
  BY <1>1, <1>5, <1>6 DEF ListTypes, E
<1>9. Stages' /\ AgentRead' /\ EndReasons'
  <2>1. Len(Over') = Len(Over)
    BY <1>2, <1>3
  <2> QED BY <1>1, <1>2, <1>5, <1>6, <2>1 DEF Stages, AgentRead, EndReasons
<1>10. NothingLost'
  <2>1. PICK rest \in Seq(E) : Order[Entries] = Order[m] \o rest
    <3>1. hidden \subseteq E /\ Entries \in 0 .. Entries /\ m <= Entries
      BY DirAssumption DEF ListTypes, E
    <3> QED BY <3>1, OrderIs
  <2> QED BY <1>1, <1>2, <1>3, <1>5, <1>7, <2>1 DEF NothingLost, E
<1> QED BY <1>8, <1>9, <1>10

\* The client takes a batch, or what it gets in place of one; and a READDIR that fails.
LEMMA BatchTaken == ASSUME ListInv, HasNextAnswered \/ HasNextFails PROVE ListInv'
<1> USE DEF ListInv
<1>1. /\ UNCHANGED <<bulk, hidden, mounted, got, over, total, reader, listed>>
      /\ dir \in {"asking", "answered"} /\ answer' = <<>>
  BY DEF HasNextAnswered, HasNextFails
<1>2. /\ Over = <<>> /\ over = NoEntry /\ lastResp = <<>> /\ ~ closed /\ listed \in Seq(E)
      /\ Fetched \in Seq(E) /\ Sent = listed \o Fetched /\ total = Len(listed)
  <2>1. lastResp = <<>> /\ ~ closed /\ over = NoEntry
    BY <1>1 DEF Stages
  <2>2. Over = <<>> /\ Fetched \in Seq(E) /\ listed \in Seq(E)
    BY <2>1, SentTypes DEF Over, ListTypes, E
  <2>3. <<>> \o (<<>> \o Fetched) = Fetched
    BY <2>2, Joined
  <2>4. total = Len(listed)
    BY <2>2 DEF Stages, ListTypes
  <2> QED BY <2>1, <2>2, <2>3, <2>4 DEF Sent
<1>3. Over' = <<>> /\ Fetched' = <<>> /\ Order' = Order /\ Sent' = listed \o lastResp'
  <2>1. Over' = <<>> /\ Fetched' = <<>> /\ Order' = Order
    BY <1>1, <1>2, OrderStays DEF Over, Fetched, ErrProcessDone
  <2>2. lastResp' \in Seq(E)
    BY <1>2 DEF HasNextAnswered, HasNextFails, ListTypes, E
  <2>3. <<>> \o (lastResp' \o <<>>) = lastResp'
    BY <2>2, Joined
  <2> QED BY <1>1, <2>1, <2>3 DEF Sent
<1>4. CASE HasNextFails
  <2>1. /\ UNCHANGED <<closed, lastResp>> /\ why' \in {why, why \cup {"error"}}
        /\ dir' \in {"idle", "end"} /\ (dir' = "end" => "error" \in why')
        /\ dir = "asking" \/ ~ mounted
    BY <1>4 DEF HasNextFails, ReturnWith
  <2>2. ListTypes' /\ Stages' /\ AgentRead' /\ EndReasons'
    BY <1>1, <1>2, <1>3, <2>1 DEF ListTypes, Stages, AgentRead, EndReasons, ErrProcessDone
  <2>3. Sent' = listed
    BY <1>2, <1>3, <2>1, Joined
  <2>4. \E rest \in Seq(E) : listed \o rest = Order[Entries]
    <3>1. PICK rest \in Seq(E) : Sent \o rest = Order[Entries]
      BY DEF NothingLost, E
    <3>2. (listed \o Fetched) \o rest = listed \o (Fetched \o rest) /\ Fetched \o rest \in Seq(E)
      BY <1>2, Joined
    <3> QED BY <1>2, <3>1, <3>2
  <2>5. mounted => Sent = listed
    <3>1. dir = "asking" => Fetched = <<>>
      BY DEF Stages, Fetched, ErrProcessDone
    <3> QED BY <1>2, <2>1, <3>1, Joined
  <2>6. NothingLost'
    BY <1>1, <1>2, <1>3, <2>1, <2>3, <2>4, <2>5 DEF NothingLost, E
  <2> QED BY <2>2, <2>6
<1>5. CASE HasNextAnswered /\ answer = ErrProcessDone
  <2>1. /\ closed' = TRUE /\ dir' \in {"end", "idle"} /\ why' = why \cup {"read"} /\ lastResp' = lastResp
        /\ dir = "answered"
    BY <1>5 DEF HasNextAnswered
  <2>2. Sent = listed /\ Sent' = listed
    BY <1>2, <1>3, <1>5, <2>1, Joined DEF Fetched
  <2>3. listed = Order[Entries] /\ reader.at = Entries
    BY <1>5, <2>1, <2>2 DEF NothingLost, AgentRead
  <2>4. ListTypes' /\ Stages' /\ AgentRead' /\ EndReasons'
    BY <1>1, <1>2, <1>3, <2>1, <2>3 DEF ListTypes, Stages, AgentRead, EndReasons, ErrProcessDone
  <2>5. NothingLost'
    BY <1>1, <1>2, <1>3, <2>1, <2>2, <2>3 DEF NothingLost
  <2> QED BY <2>4, <2>5
<1>6. CASE HasNextAnswered /\ answer # ErrProcessDone
  <2>1. /\ lastResp' = answer /\ UNCHANGED closed /\ dir = "answered"
        /\ \/ answer # <<>> /\ dir' = "reading" /\ UNCHANGED why
           \/ answer = <<>> /\ dir' \in {"idle", "end"} /\ why' \in {why, why \cup {"filtered"}}
              /\ (dir' = "end" => "filtered" \in why')
    BY <1>6 DEF HasNextAnswered, ReturnWith
  <2>2. Fetched = answer /\ Sent' = Sent
    BY <1>2, <1>3, <1>6, <2>1 DEF Fetched
  <2>3. ListTypes'
    BY <1>1, <1>2, <1>6, <2>1 DEF ListTypes, Fetched
  <2>4. Stages' /\ AgentRead'
    BY <1>1, <1>2, <1>3, <2>1 DEF Stages, AgentRead, ErrProcessDone
  <2>5. EndReasons'
    <3> SUFFICES ASSUME dir' = "end"
                 PROVE  listed = Order[Entries] \/ (~ bulk /\ listed = Order[reader.at])
      BY <1>1, <1>3, <2>1 DEF EndReasons
    <3>1. listed = Sent /\ Sent = Order[reader.at]
      BY <1>2, <2>1, <2>2, Joined DEF NothingLost
    <3>2. bulk => reader.at = Entries
      BY <2>1 DEF AgentRead
    <3> QED BY <3>1, <3>2
  <2>6. NothingLost'
    BY <1>1, <1>2, <2>1, <2>2, SentStays
  <2> QED BY <2>3, <2>4, <2>5, <2>6
<1> QED BY <1>4, <1>5, <1>6

LEMMA ListStep == ListInv /\ DirHandles /\ Step => ListInv'
<1> SUFFICES ASSUME ListInv, DirHandles, Step PROVE ListInv'
  OBVIOUS
<1>1. CASE DirNext
  BY <1>1, ListingOpens, ListingCloses, ReaddirBegins, EntryGiven, ReaddirEnds, BatchAsked, BatchSent,
     BatchTaken DEF DirNext, DirStep
<1>2. CASE UNCHANGED dirVars
  <2>1. Order' = Order /\ Sent' = Sent /\ Over' = Over
    BY <1>2, OrderStays DEF dirVars, Sent, Over, Fetched
  <2>2. ListTypes' /\ Stages' /\ AgentRead'
    BY <1>2, <2>1 DEF dirVars, ListInv, ListTypes, Stages, AgentRead
  <2>3. NothingLost' /\ EndReasons'
    BY <1>2, <2>1 DEF dirVars, ListInv, NothingLost, EndReasons
  <2> QED BY <2>2, <2>3 DEF ListInv
<1> QED BY <1>1, <1>2 DEF Step, UseFile, UseDir, UseAttrs, remoteVars

LEMMA ListWhole == ListInv => ListingWhole
<1> SUFFICES ASSUME ListInv PROVE ListingWhole
  OBVIOUS
<1>1. Order[Entries] = Visible(0, Entries) /\ Order[reader.at] = Visible(0, reader.at)
  BY DirAssumption DEF Order, ListInv, ListTypes
<1>2. IsPrefix(listed, Order[Entries])
  <2>1. PICK rest \in Seq(E) : Sent \o rest = Order[Entries]
    BY DEF ListInv, NothingLost, E
  <2> DEFINE more == (Over \o (lastResp \o Fetched)) \o rest
  <2>2. more \in Seq(E) /\ listed \in Seq(E) /\ Order[Entries] = listed \o more
    <3>1. Over \in Seq(E) /\ lastResp \in Seq(E) /\ Fetched \in Seq(E) /\ listed \in Seq(E)
      BY SentTypes DEF ListInv, ListTypes, E
    <3> DEFINE way == Over \o (lastResp \o Fetched)
    <3>2. way \in Seq(E)
      BY <3>1, Joined
    <3> HIDE DEF way
    <3>3. way \o rest \in Seq(E) /\ (listed \o way) \o rest = listed \o (way \o rest)
      <4>1. rest \in Seq(E) /\ way \in Seq(E) /\ listed \in Seq(E)
        BY <2>1, <3>1, <3>2
      <4>2. way \o rest \in Seq(E)
        BY <4>1, Joined
      <4>3. (listed \o way) \o rest = listed \o (way \o rest)
        BY <4>1, ConcatAssociative
      <4> QED BY <4>2, <4>3
    <3> QED BY <2>1, <3>1, <3>3 DEF Sent, way
  <2> HIDE DEF more
  <2>3. Len(listed) <= Len(Order[Entries]) /\ SubSeq(Order[Entries], 1, Len(listed)) = listed
    BY <2>2, SubSeqOfConcat1, SubSeqFull, ConcatProperties
  <2>4. SubSeq(listed, 1, Len(listed)) = listed
    BY <2>2, SubSeqFull
  <2> QED BY <2>3, <2>4 DEF IsPrefix
<1> QED BY <1>1, <1>2 DEF ListInv, EndReasons, ListingWhole

LEMMA ListHolds == RemoteSpec => [](DirInv /\ ListInv)
<1>1. DirInv => DirHandles
  BY DEF DirInv
<1> QED BY <1>1, DirInit0, DirStepKeeps, ListInit0, ListStep, PTL DEF RemoteSpec, Step

\* However READDIRs, batches and failed calls fall together, and whatever the agent leaves out
\* of its batches: a listing is the beginning of the directory, and one that is taken for whole
\* is whole but for the named causes.
THEOREM ListingIsWhole == RemoteSpec => []ListingWhole
BY ListHolds, ListWhole, PTL

-----------------------------------------------------------------------------
(* Attributes *)

AttrInv ==
  /\ object \in Objects
  /\ known.type \in {"dir", "file"} => known.type = TypeOf([dir |-> object.dir])
  /\ AclsSeen

\* What the two calls give of the object.
LEMMA AttrGives ==
  /\ TypeOf(Attr) = TypeOf([dir |-> object.dir])
  /\ Attr.size = object.size /\ Attr.mtime = object.mtime /\ Attr.lastWrite = Epoch
BY DEF Attr, AgentFileInfo, HandleAttr, NoInfo, TypeOf

LEMMA XattrGives ==
  LET acls == IF Xattr.posixACLs # Nil THEN Xattr.posixACLs ELSE Xattr.winACLs
  IN  acls # Nil => acls = Made(IF object.windows THEN {} ELSE {PosixACL(e) : e \in object.acl})
<1>1. CASE object.windows
  <2>1. Xattr.posixACLs = Made({})
    BY <1>1 DEF Xattr, AgentFileInfo, HandleXattrWindows, NoInfo, PosixACLArray
  <2> QED BY <1>1, <2>1 DEF Made, Nil
<1>2. CASE ~ object.windows
  <2>1. Xattr.posixACLs = PosixACLArray(GetPosixACL)
    BY <1>2 DEF Xattr, AgentFileInfo, HandleXattrUnix, NoInfo
  <2>2. Xattr.posixACLs = Made({PosixACL(e) : e \in object.acl})
    <3>1. CASE object.acl = {}
      BY <2>1, <3>1 DEF PosixACLArray, GetPosixACL
    <3>2. CASE object.acl # {}
      BY <2>1, <3>2 DEF PosixACLArray, GetPosixACL, Made, Nil
    <3> QED BY <3>1, <3>2
  <2> QED BY <1>2, <2>2 DEF Made, Nil
<1> QED BY <1>1, <1>2

LEMMA AttrInit0 == RemoteInit => AttrInv
BY DEF RemoteInit, AttrInit, AttrInv, AclsSeen, Unknown, NotAsked

\* A step on the attributes keeps what is known in agreement.
LEMMA AttrStep ==
  ASSUME AttrInv, AttrNext
  PROVE  AttrInv'
<1>1. CASE Lookup \/ Getattr
  <2>1. /\ UNCHANGED <<object, xattrs>> /\ known'.type = TypeOf(Attr) /\ known'.size = Attr.size
        /\ known'.mtime \in {Attr.mtime, Attr.lastWrite}
    BY <1>1 DEF Lookup, Getattr
  <2> QED BY <2>1, AttrGives DEF AttrInv, AclsSeen
<1>2. CASE AttrFails \/ Expire
  BY <1>2 DEF AttrFails, Expire, Unknown, AttrInv, AclsSeen
<1>3. CASE Listxattr \/ Getxattr
  <2>1. UNCHANGED <<object, known>>
    BY <1>3 DEF Listxattr, Getxattr
  <2>2. AclsSeen'
    <3>1. CASE Listxattr
      BY <3>1 DEF Listxattr, AttrInv, AclsSeen
    <3>2. CASE Getxattr
      <4>1. xattrs'.acls = IF Xattr.posixACLs # Nil THEN Xattr.posixACLs ELSE Xattr.winACLs
        BY <3>2 DEF Getxattr
      <4> QED BY <2>1, <4>1, XattrGives DEF AclsSeen
    <3> QED BY <1>3, <3>1, <3>2
  <2> QED BY <2>1, <2>2 DEF AttrInv
<1>4. CASE Write
  <2>1. PICK s \in Sizes, t \in Times : object' = [object EXCEPT !.size = s, !.mtime = t]
    BY <1>4 DEF Write
  <2>2. /\ object' \in Objects /\ object'.dir = object.dir /\ object'.windows = object.windows
        /\ object'.acl = object.acl /\ UNCHANGED <<known, xattrs>>
    BY <1>4, <2>1 DEF Write, AttrInv, Objects
  <2> QED BY <2>2 DEF AttrInv, AclsSeen
<1> QED BY <1>1, <1>2, <1>3, <1>4 DEF AttrNext

LEMMA AttrStays == AttrInv /\ UNCHANGED attrVars => AttrInv'
BY DEF attrVars, AttrInv, AclsSeen

LEMMA AttrSteps == Step => AttrNext \/ UNCHANGED attrVars
BY DEF Step, UseFile, UseDir, UseAttrs, remoteVars

LEMMA AttrHolds == RemoteSpec => []AttrInv
BY AttrInit0, AttrStep, AttrStays, AttrSteps, PTL DEF RemoteSpec, Step

\* Of a Unix machine the client is given the ACL of the object; those of a Windows machine are
\* lost on the way.
THEOREM AclsAreSeen == RemoteSpec => []AclsSeen
<1>1. AttrInv => AclsSeen
  BY DEF AttrInv
<1> QED BY <1>1, AttrHolds, PTL

-----------------------------------------------------------------------------
(* Types of the three *)

DirBounds ==
  bulk \in BOOLEAN /\ failed \in 0 .. DirFaults /\ stray \in BOOLEAN

LEMMA DirBoundsInit0 == RemoteInit => DirBounds
<1> SUFFICES ASSUME RemoteInit PROVE DirBounds
  OBVIOUS
<1>1. bulk \in BOOLEAN /\ failed = 0 /\ stray = FALSE
  BY DEF RemoteInit, DirInit
<1>2. failed \in 0 .. DirFaults
  BY <1>1, DirAssumption
<1> QED BY <1>1, <1>2 DEF DirBounds

LEMMA DirBoundsStep == DirBounds /\ Step => DirBounds'
<1> SUFFICES ASSUME DirBounds, Step PROVE DirBounds'
  OBVIOUS
<1>1. CASE DirNext
  <2>1. bulk' = bulk /\ (failed' = failed \/ DirFault)
    BY <1>1 DEF DirNext, DirStep, HandleOpenDir, HandleCloseDir, HandleReadDir, NextEntry, HasNextCalls,
           HasNextStops, HasNextAnswered, HasNextFails, OpenDir, OpenDirFails, Readdir, CloseDir,
           CloseDirFails, LoseSession
  <2>2. stray' \in BOOLEAN
    BY <1>1 DEF DirBounds, DirNext, DirStep, HandleOpenDir, HandleCloseDir, HandleReadDir, NextEntry, HasNextCalls,
           HasNextStops, HasNextAnswered, HasNextFails, OpenDir, OpenDirFails, Readdir, CloseDir,
           CloseDirFails, LoseSession
  <2>3. failed' \in 0 .. DirFaults
    BY <2>1, DirAssumption DEF DirBounds, DirFault
  <2> QED BY <2>1, <2>2, <2>3 DEF DirBounds
<1>2. CASE UNCHANGED dirVars
  BY <1>2 DEF dirVars, DirBounds
<1> QED BY <1>1, <1>2 DEF Step, UseFile, UseDir, UseAttrs, remoteVars

LEMMA DirTypes == DirInv /\ ListInv /\ DirBounds => DirTypeOK
BY DEF DirInv, DirHandles, ListInv, ListTypes, DirBounds, DirTypeOK

Knowledge == [type : {"unknown", "absent", "dir", "file"}, size : Sizes \cup {0}, mtime : Times \cup {Epoch}]

AttrBounds ==
  /\ known \in Knowledge /\ lost \in 0 .. MaxLost
  /\ xattrs = [listed |-> xattrs.listed, acls |-> xattrs.acls] /\ xattrs.listed \in BOOLEAN

LEMMA AttrBoundsInit0 == RemoteInit => AttrBounds
BY AttrAssumption DEF RemoteInit, AttrInit, AttrBounds, Knowledge, Unknown, NotAsked

LEMMA AttrBoundsStep == AttrInv /\ AttrBounds /\ Step => AttrBounds'
<1> SUFFICES ASSUME AttrInv, AttrBounds, Step PROVE AttrBounds'
  OBVIOUS
<1>1. CASE Lookup \/ Getattr
  <2>1. object.size \in Sizes /\ object.mtime \in Times
    BY DEF AttrInv, Objects
  <2>2. PICK t \in {Attr.mtime, Attr.lastWrite} : known' = [type |-> TypeOf(Attr), size |-> Attr.size, mtime |-> t]
    BY <1>1 DEF Lookup, Getattr
  <2>3. TypeOf(Attr) \in {"dir", "file"} /\ t \in Times \cup {Epoch} /\ Attr.size \in Sizes
    BY <2>1, <2>2, AttrGives DEF TypeOf
  <2>4. known' \in Knowledge
    BY <2>2, <2>3 DEF Knowledge
  <2> QED BY <1>1, <2>4 DEF Lookup, Getattr, AttrBounds
<1>2. CASE AttrFails \/ Expire
  <2>1. Unknown \in Knowledge /\ [Unknown EXCEPT !.type = "absent"] \in Knowledge
    BY DEF Unknown, Knowledge
  <2> QED BY <1>2, <2>1, AttrAssumption DEF AttrFails, Expire, AttrBounds
<1>3. CASE Listxattr \/ Getxattr
  <2>1. \/ \E l \in BOOLEAN : xattrs' = [xattrs EXCEPT !.listed = l]
        \/ \E a : xattrs' = [xattrs EXCEPT !.acls = a]
    BY <1>3 DEF Listxattr, Getxattr
  <2>2. xattrs' = [listed |-> xattrs'.listed, acls |-> xattrs'.acls] /\ xattrs'.listed \in BOOLEAN
    BY <2>1 DEF AttrBounds
  <2> QED BY <1>3, <2>2 DEF Listxattr, Getxattr, AttrBounds
<1>4. CASE Write
  BY <1>4 DEF Write, AttrBounds
<1>5. CASE UNCHANGED attrVars
  BY <1>5 DEF attrVars, AttrBounds
<1> QED BY <1>1, <1>2, <1>3, <1>4, <1>5, AttrSteps DEF AttrNext

LEMMA AttrTypes == AttrInv /\ AttrBounds => AttrTypeOK
<1> SUFFICES ASSUME AttrInv, AttrBounds PROVE AttrTypeOK
  OBVIOUS
<1>1. CASE xattrs.acls = Nil
  BY <1>1 DEF Nil, AttrInv, AttrBounds, AttrTypeOK, Knowledge
<1>2. CASE xattrs.acls # Nil
  <2>1. xattrs.acls = Made(IF object.windows THEN {} ELSE {PosixACL(e) : e \in object.acl})
    BY <1>2 DEF AttrInv, AclsSeen
  <2>2. object.acl \subseteq Aces
    BY DEF AttrInv, Objects
  <2>3. (IF object.windows THEN {} ELSE {PosixACL(e) : e \in object.acl}) \subseteq {PosixACL(e) : e \in Aces}
    BY <2>2
  <2>4. xattrs.acls \subseteq (SUBSET Aces) \cup (SUBSET {PosixACL(e) : e \in Aces})
    BY <2>1, <2>3 DEF Made
  <2> QED BY <2>4 DEF AttrInv, AttrBounds, AttrTypeOK, Knowledge
<1> QED BY <1>1, <1>2

\* Every part of the state stays of its type, the bounds of a read, of the pointer and of the
\* listing among them.
THEOREM RemoteTypesCorrect == RemoteSpec => []RemoteTypeOK
<1>1. RemoteSpec => []FileTypeOK
  BY FileTypes, SeekHolds, BoundsInit0, BoundsStep, PTL DEF RemoteSpec, Step
<1>2. RemoteSpec => []DirTypeOK
  BY DirTypes, ListHolds, DirBoundsInit0, DirBoundsStep, PTL DEF RemoteSpec, Step
<1>3. RemoteSpec => []AttrTypeOK
  BY AttrTypes, AttrHolds, AttrBoundsInit0, AttrBoundsStep, PTL DEF RemoteSpec, Step
<1> QED BY <1>1, <1>2, <1>3, PTL DEF RemoteTypeOK
=============================================================================
