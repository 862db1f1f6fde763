----------------------------- MODULE HttpProofs -----------------------------
(***************************************************************************)
(* What HttpConnection's runs check on a few requests, for all requests a  *)
(* client makes: the read loop never waits for what was not sent, drops a  *)
(* connection for a cause only, and hands over the call that was asked.    *)
(*                                                                         *)
(* The way there: where each part of a request lies in its encoding; what  *)
(* Find then finds in the first bytes of it, and so what Parse answers of  *)
(* them; the invariant of the loop; at last what GetVar finds in the query.*)
(***************************************************************************)
EXTENDS HttpConnection, WellFoundedInduction, TLAPS

-----------------------------------------------------------------------------
(* Numbers and sequences.                                                   *)

\* A set of numbers has a least one.
LEMMA Least ==
    ASSUME NEW S, S \subseteq Nat, S # {}
    PROVE  \E n \in S : \A k \in S : n <= k
<1> DEFINE R == {ss \in Nat \X Nat : ss[1] < ss[2]}
<1>1. IsWellFoundedOn(R, Nat)
  BY NatLessThanWellFounded DEF OpToRel
<1>2. PICK x \in S : \A y \in S : ~ (<<y, x>> \in R)
  BY <1>1, WFMin
<1>3. \A y \in S : ~(y < x)
  BY <1>2
<1> QED
  BY <1>3

\* Induction, for a set of numbers.
LEMMA SetInduction ==
    ASSUME NEW S, 0 \in S, \A n \in Nat : n \in S => n + 1 \in S
    PROVE  Nat \subseteq S
<1> SUFFICES ASSUME Nat \ S # {} PROVE FALSE
  OBVIOUS
<1>1. PICK n \in Nat \ S : \A k \in Nat \ S : n <= k
  BY Least
<1>2. n - 1 \in Nat /\ n - 1 \in S
  BY <1>1
<1> QED
  BY <1>1, <1>2

\* What a sequence put together from two has at each place.
LEMMA Appended ==
    ASSUME NEW T, NEW s \in Seq(T), NEW t \in Seq(T)
    PROVE  /\ s \o t \in Seq(T)
           /\ Len(s \o t) = Len(s) + Len(t)
           /\ \A i \in 1 .. Len(s) : (s \o t)[i] = s[i]
           /\ \A i \in 1 .. Len(t) : (s \o t)[Len(s) + i] = t[i]
OBVIOUS

\* The strings, by those of them the delimiters are made of.
Tokens == STRING \cup {" ", "CRLF", "NUL", ":", "?", "&"}

\* A sequence over a set is one over any larger set.
LEMMA LargerSet ==
    ASSUME NEW S, NEW T, S \subseteq T, NEW s \in Seq(S)
    PROVE  s \in Seq(T)
<1>1. Len(s) \in Nat /\ s = [i \in 1 .. Len(s) |-> s[i]] /\ \A i \in 1 .. Len(s) : s[i] \in S
  OBVIOUS
<1>2. \A i \in 1 .. Len(s) : s[i] \in T
  BY <1>1
<1> QED
  BY <1>1, <1>2

\* The domain of a sequence, and what is in it.
LEMMA Elements ==
    ASSUME NEW T, NEW s \in Seq(T)
    PROVE  DOMAIN s = 1 .. Len(s) /\ Len(s) \in Nat /\ \A k \in DOMAIN s : s[k] \in T
OBVIOUS

\* A sequence of one.
LEMMA TupleOne ==
    ASSUME NEW T, NEW a \in T
    PROVE  <<a>> \in Seq(T) /\ Len(<<a>>) = 1 /\ <<a>>[1] = a
<1>1. <<a>> \in Seq(T)
  OBVIOUS
<1>2. Len(<<a>>) = 1
  OBVIOUS
<1>3. <<a>>[1] = a
  OBVIOUS
<1> QED
  BY <1>1, <1>2, <1>3

\* A sequence of two.
LEMMA TupleTwo ==
    ASSUME NEW T, NEW a \in T, NEW b \in T
    PROVE  /\ <<a, b>> \in Seq(T) /\ Len(<<a, b>>) = 2
           /\ <<a, b>>[1] = a /\ <<a, b>>[2] = b
<1>1. <<a, b>> \in Seq(T)
  OBVIOUS
<1>2. Len(<<a, b>>) = 2
  OBVIOUS
<1>3. <<a, b>>[1] = a
  OBVIOUS
<1>4. <<a, b>>[2] = b
  OBVIOUS
<1> QED
  BY <1>1, <1>2, <1>3, <1>4

-----------------------------------------------------------------------------
(* Parts put together.                                                      *)

\* A part lies in a text, behind its first so many tokens.
Placed(text, at, part) ==
    /\ at + Len(part) <= Len(text)
    /\ \A i \in 1 .. Len(part) : text[at + i] = part[i]

\* The first token of a part that has one.
LEMMA PlacedFirst ==
    ASSUME NEW x, NEW n \in Nat, NEW y, Placed(x, n, y), NEW m \in Nat, Len(y) = m, m > 0
    PROVE  x[n + 1] = y[1] /\ n + 1 <= Len(x)
<1>1. 1 \in 1 .. Len(y)
  OBVIOUS
<1>2. n + Len(y) <= Len(x) /\ x[n + 1] = y[1]
  BY <1>1 DEF Placed
<1> QED
  BY <1>2

\* The two parts of a text put together.
LEMMA PlacedBehind ==
    ASSUME NEW x \in Seq(Tokens), NEW y \in Seq(Tokens)
    PROVE  Placed(x \o y, Len(x), y) /\ Placed(x \o y, 0, x)
<1> DEFINE z == x \o y
<1>1. /\ Len(z) = Len(x) + Len(y)
      /\ \A i \in 1 .. Len(x) : z[i] = x[i]
      /\ \A i \in 1 .. Len(y) : z[Len(x) + i] = y[i]
  BY Appended
<1> HIDE DEF z
<1>2. \A i \in 1 .. Len(x) : z[0 + i] = x[i]
  BY <1>1
<1>3. Placed(z, Len(x), y) /\ Placed(z, 0, x)
  BY <1>1, <1>2 DEF Placed
<1> QED
  BY <1>3 DEF z

\* A part of a part.
LEMMA PlacedIn ==
    ASSUME NEW x \in Seq(Tokens), NEW y \in Seq(Tokens), NEW z \in Seq(Tokens),
           NEW m \in Nat, NEW n \in Nat, Placed(x, m, y), Placed(y, n, z)
    PROVE  Placed(x, m + n, z)
<1> SUFFICES ASSUME NEW i \in 1 .. Len(z)
             PROVE  (m + n) + Len(z) <= Len(x) /\ x[(m + n) + i] = z[i]
  BY DEF Placed
<1>1. (m + n) + Len(z) <= Len(x)
  BY DEF Placed
<1> DEFINE j == n + i
<1>2. j \in 1 .. Len(y) /\ y[j] = z[i] /\ m + j = (m + n) + i
  BY DEF Placed
<1> HIDE DEF j
<1>3. x[m + j] = y[j]
  BY <1>2 DEF Placed
<1> QED
  BY <1>1, <1>2, <1>3

Upto(parts) ==
    LET to[n \in 0 .. Len(parts)] == IF n = 0 THEN <<>> ELSE to[n - 1] \o parts[n]
    IN to

\* Joined is the last of the texts it builds.
LEMMA JoinedIsUpto == \A parts : Joined(parts) = Upto(parts)[Len(parts)]
BY DEF Joined, Upto

\* There is such a function.
LEMMA UptoExists ==
    ASSUME NEW parts \in Seq(Seq(Tokens))
    PROVE  \E to : to = [n \in 0 .. Len(parts) |->
                            IF n = 0 THEN <<>> ELSE to[n - 1] \o parts[n]]
<1> DEFINE Is(f, m) == f = [n \in 0 .. m |-> IF n = 0 THEN <<>> ELSE f[n - 1] \o parts[n]]
           S == {m \in Nat : \E f : Is(f, m)}
<1>1. 0 \in S
  <2> DEFINE f == [n \in 0 .. 0 |-> <<>>]
  <2>1. Is(f, 0)
    OBVIOUS
  <2> HIDE DEF f
  <2> QED
    BY <2>1
<1>2. ASSUME NEW m \in Nat, m \in S PROVE m + 1 \in S
  <2>1. PICK f : Is(f, m)
    BY <1>2
  <2> DEFINE g == [n \in 0 .. m + 1 |-> IF n = m + 1 THEN f[m] \o parts[m + 1] ELSE f[n]]
             h == [n \in 0 .. m + 1 |-> IF n = 0 THEN <<>> ELSE g[n - 1] \o parts[n]]
  <2>2. ASSUME NEW n \in 0 .. m + 1 PROVE g[n] = h[n]
    <3>1. CASE n = 0
      BY <2>1, <3>1
    <3>2. CASE n = m + 1
      <4>1. m \in 0 .. m + 1 /\ m # m + 1 /\ n - 1 = m
        BY <3>2
      <4>2. g[n - 1] = f[m]
        BY <4>1
      <4>3. h[n] = g[n - 1] \o parts[n]
        <5>1. n # 0
          BY <3>2
        <5> HIDE DEF g
        <5> QED
          BY <5>1
      <4>4. g[n] = f[m] \o parts[m + 1]
        BY <3>2
      <4> QED
        BY <3>2, <4>2, <4>3, <4>4
    <3>3. CASE n \in 1 .. m
      <4>1. n - 1 \in 0 .. m + 1 /\ n - 1 # m + 1 /\ n \in 0 .. m /\ n # 0
        BY <3>3
      <4>2. g[n - 1] = f[n - 1] /\ g[n] = f[n]
        BY <3>3, <4>1
      <4>3. f[n] = f[n - 1] \o parts[n]
        BY <2>1, <4>1
      <4>4. h[n] = g[n - 1] \o parts[n]
        BY <4>1
      <4> QED
        BY <4>2, <4>3, <4>4
    <3> QED
      BY <3>1, <3>2, <3>3
  <2>3. g = h
    BY <2>2
  <2>4. Is(g, m + 1)
    BY <2>3
  <2> HIDE DEF g, h, Is
  <2> QED
    BY <2>4
<1>3. Nat \subseteq S
  <2> HIDE DEF S
  <2> QED
    BY <1>1, <1>2, SetInduction
<1>4. Len(parts) \in S
  <2> HIDE DEF S
  <2> QED
    BY <1>3
<1> QED
  BY <1>4

\* One part more.
LEMMA UptoStep ==
    ASSUME NEW parts \in Seq(Seq(Tokens))
    PROVE  /\ Upto(parts)[0] = <<>>
           /\ \A n \in 0 .. Len(parts) - 1 :
                 Upto(parts)[n + 1] = Upto(parts)[n] \o parts[n + 1]
<1> DEFINE Is(to) == to = [n \in 0 .. Len(parts) |->
                              IF n = 0 THEN <<>> ELSE to[n - 1] \o parts[n]]
<1>1. \E to : Is(to)
  BY UptoExists
<1>2. Upto(parts) = CHOOSE to : Is(to)
  BY DEF Upto
<1>3. Is(Upto(parts))
  <2> HIDE DEF Is
  <2> QED
    BY <1>1, <1>2
<1> HIDE DEF Is
<1>4. Upto(parts) = [n \in 0 .. Len(parts) |->
                        IF n = 0 THEN <<>> ELSE Upto(parts)[n - 1] \o parts[n]]
  BY <1>3 DEF Is
<1> DEFINE up == Upto(parts)
<1> HIDE DEF up
<1>5. up = [n \in 0 .. Len(parts) |-> IF n = 0 THEN <<>> ELSE up[n - 1] \o parts[n]]
  BY <1>4 DEF up
<1>6. up[0] = <<>>
  BY <1>5
<1>7. ASSUME NEW n \in 0 .. Len(parts) - 1 PROVE up[n + 1] = up[n] \o parts[n + 1]
  <2> DEFINE len == Len(parts)
             m == n + 1
  <2>1. m \in 0 .. len /\ m # 0 /\ m - 1 = n
    OBVIOUS
  <2>2. up = [k \in 0 .. len |-> IF k = 0 THEN <<>> ELSE up[k - 1] \o parts[k]]
    BY <1>5
  <2> HIDE DEF m, len
  <2>3. up[m] = up[m - 1] \o parts[m]
    BY <2>1, <2>2
  <2>4. up[m] = up[n] \o parts[m]
    BY <2>1, <2>3
  <2> QED
    BY <2>4 DEF m
<1> QED
  BY <1>6, <1>7 DEF up

\* Each is a text.
LEMMA UptoType ==
    ASSUME NEW parts \in Seq(Seq(Tokens))
    PROVE  \A n \in 0 .. Len(parts) : Upto(parts)[n] \in Seq(Tokens)
<1> DEFINE S == {n \in Nat : n <= Len(parts) => Upto(parts)[n] \in Seq(Tokens)}
<1>1. 0 \in S
  <2>1. Upto(parts)[0] = <<>>
    BY UptoStep
  <2>2. <<>> \in Seq(Tokens)
    OBVIOUS
  <2> QED
    BY <2>1, <2>2
<1>2. ASSUME NEW n \in Nat, n \in S PROVE n + 1 \in S
  <2> SUFFICES ASSUME n + 1 <= Len(parts) PROVE Upto(parts)[n + 1] \in Seq(Tokens)
    OBVIOUS
  <2>1. /\ Upto(parts)[n] \in Seq(Tokens) /\ n + 1 \in 1 .. Len(parts)
        /\ n \in 0 .. Len(parts) - 1
    BY <1>2
  <2>2. parts[n + 1] \in Seq(Tokens)
    BY <2>1
  <2>3. Upto(parts)[n + 1] = Upto(parts)[n] \o parts[n + 1]
    BY <2>1, UptoStep
  <2> QED
    BY <2>1, <2>2, <2>3
<1>3. Nat \subseteq S
  <2> HIDE DEF S
  <2> QED
    BY <1>1, <1>2, SetInduction
<1> QED
  <2> HIDE DEF S
  <2>1. \A n \in 0 .. Len(parts) : n \in S
    BY <1>3
  <2> QED
    BY <2>1 DEF S

\* Where each part ends, and that it is there.
Places(parts, P) ==
    /\ P \in [0 .. Len(parts) -> Nat]
    /\ P[0] = 0 /\ P[Len(parts)] = Len(Joined(parts))
    /\ \A k \in 1 .. Len(parts) :
          /\ P[k] = P[k - 1] + Len(parts[k])
          /\ Placed(Joined(parts), P[k - 1], parts[k])

\* Joined parts lie one behind the other.
LEMMA JoinedPlaces ==
    ASSUME NEW parts \in Seq(Seq(Tokens))
    PROVE  Joined(parts) \in Seq(Tokens) /\ \E P : Places(parts, P)
<1> DEFINE up == Upto(parts)
           len == Len(parts)
           P == [k \in 0 .. len |-> Len(up[k])]
<1>1. len \in Nat /\ \A n \in 1 .. len : parts[n] \in Seq(Tokens)
  OBVIOUS
<1>2. \A n \in 0 .. len : up[n] \in Seq(Tokens)
  BY UptoType
<1>3. up[0] = <<>> /\ \A n \in 0 .. len - 1 : up[n + 1] = up[n] \o parts[n + 1]
  BY UptoStep
<1>4. Joined(parts) = up[len]
  BY JoinedIsUpto
<1> HIDE DEF up, len
<1>5. P \in [0 .. len -> Nat]
  BY <1>2
<1>6. \A k \in 1 .. len : up[k] = up[k - 1] \o parts[k]
  <2> TAKE k \in 1 .. len
  <2> DEFINE j == k - 1
  <2>1. j \in 0 .. len - 1 /\ j + 1 = k
    BY <1>1
  <2>2. up[j + 1] = up[j] \o parts[j + 1]
    <3> HIDE DEF j
    <3> QED
      BY <1>3, <2>1
  <2> QED
    BY <2>1, <2>2
<1>7. \A k \in 1 .. len : k - 1 \in 0 .. len /\ k \in 0 .. len
  BY <1>1
<1>8. \A k \in 1 .. len : P[k] = P[k - 1] + Len(parts[k])
  <2> TAKE k \in 1 .. len
  <2> DEFINE a == up[k - 1]
             b == parts[k]
  <2>1. a \in Seq(Tokens) /\ b \in Seq(Tokens) /\ up[k] = a \o b
    BY <1>1, <1>2, <1>6, <1>7
  <2>2. P[k] = Len(up[k]) /\ P[k - 1] = Len(a)
    BY <1>7
  <2> HIDE DEF a, b, P
  <2> QED
    BY <2>1, <2>2 DEF b
\* What is put together first stays where it is.
<1>9. \A k \in 0 .. len : \A n \in k .. len :
         P[k] <= P[n] /\ \A i \in 1 .. P[k] : up[n][i] = up[k][i]
  <2> TAKE k \in 0 .. len
  <2> DEFINE Kept(n) == P[k] <= P[n] /\ \A i \in 1 .. P[k] : up[n][i] = up[k][i]
             S == {n \in Nat : k <= n /\ n <= len => Kept(n)}
  <2> HIDE DEF P
  <2>1. 0 \in S
    BY <1>5
  <2>2. ASSUME NEW n \in Nat, n \in S PROVE n + 1 \in S
    <3> SUFFICES ASSUME k <= n + 1, n + 1 <= len PROVE Kept(n + 1)
      OBVIOUS
    <3>1. CASE k = n + 1
      BY <1>5, <3>1
    <3>2. CASE k <= n
      <4> DEFINE m == n + 1
                 a == up[n]
                 b == parts[m]
                 c == up[m]
      <4>1. Kept(n) /\ n \in 0 .. len /\ m \in 1 .. len /\ m - 1 = n
        BY <1>1, <2>2, <3>2
      <4>2. a \in Seq(Tokens) /\ b \in Seq(Tokens)
        BY <1>1, <1>2, <4>1
      <4>3. c = a \o b /\ P[m] = P[n] + Len(b)
        <5> HIDE DEF m
        <5> QED
          BY <1>6, <1>8, <4>1
      <4>4. P[n] = Len(a) /\ P[n] \in Nat /\ P[k] \in Nat
        BY <1>5, <4>1 DEF P
      <4> HIDE DEF a, b, c, m
      <4>5. P[k] <= P[m] /\ \A i \in 1 .. P[n] : c[i] = a[i]
        BY <4>1, <4>2, <4>3, <4>4, Appended
      <4>6. \A i \in 1 .. P[k] : c[i] = up[k][i]
        BY <4>1, <4>4, <4>5 DEF a
      <4> QED
        BY <4>5, <4>6 DEF c, m
    <3> QED
      BY <3>1, <3>2
  <2>3. Nat \subseteq S
    <3> HIDE DEF S
    <3> QED
      BY <2>1, <2>2, SetInduction
  <2>4. \A n \in k .. len : n \in S
    <3> HIDE DEF S
    <3> QED
      BY <1>1, <2>3
  <2> QED
    BY <2>4
<1>10. \A k \in 1 .. len :
          P[k] <= Len(up[len]) /\ \A i \in 1 .. Len(parts[k]) : up[len][P[k - 1] + i] = parts[k][i]
  <2> TAKE k \in 1 .. len
  <2> DEFINE a == up[k - 1]
             b == parts[k]
             c == up[k]
             d == up[len]
  <2>1. a \in Seq(Tokens) /\ b \in Seq(Tokens) /\ c = a \o b
    BY <1>1, <1>2, <1>6, <1>7
  <2>2. P[k - 1] = Len(a) /\ P[k] = Len(c) /\ P[len] = Len(d)
    BY <1>1, <1>7
  <2>3. P[k] <= P[len] /\ \A i \in 1 .. P[k] : d[i] = c[i]
    <3>1. k \in 0 .. len /\ len \in k .. len
      BY <1>1
    <3> HIDE DEF P
    <3> QED
      BY <3>1, <1>9
  <2> HIDE DEF a, b, c, d, P
  <2>4. \A i \in 1 .. Len(b) : c[Len(a) + i] = b[i] /\ Len(a) + i \in 1 .. Len(c)
    BY <2>1, Appended
  <2>5. \A i \in 1 .. Len(b) : d[Len(a) + i] = b[i]
    <3> TAKE i \in 1 .. Len(b)
    <3> DEFINE j == Len(a) + i
    <3>1. j \in 1 .. Len(c) /\ c[j] = b[i]
      BY <2>4
    <3> HIDE DEF j
    <3>2. d[j] = c[j]
      BY <2>2, <2>3, <3>1
    <3> QED
      BY <3>1, <3>2 DEF j
  <2> QED
    BY <2>2, <2>3, <2>5 DEF b, d
<1>11. P[0] = 0 /\ P[len] = Len(up[len])
  BY <1>1, <1>3
<1>12. Places(parts, P)
  <2> HIDE DEF P
  <2>1. \A k \in 1 .. len : Placed(up[len], P[k - 1], parts[k])
    BY <1>8, <1>10 DEF Placed
  <2> QED
    BY <1>4, <1>5, <1>8, <1>11, <2>1 DEF Places, len
<1>13. Joined(parts) \in Seq(Tokens)
  BY <1>1, <1>2, <1>4
<1> QED
  BY <1>12, <1>13

-----------------------------------------------------------------------------
(* Searches.                                                                *)

\* A search ends in the first place, or behind the text.
LEMMA FindFacts ==
    ASSUME NEW s \in Seq(Tokens), NEW from \in 1 .. Len(s) + 1, NEW delim
    PROVE  /\ Find(s, from, delim) \in from .. Len(s) + 1
           /\ Find(s, from, delim) <= Len(s) => At(s, Find(s, from, delim), delim)
           /\ \A j \in from .. Len(s) : At(s, j, delim) => Find(s, from, delim) <= j
<1> DEFINE First(k) == /\ k <= Len(s) => At(s, k, delim)
                       /\ \A j \in Hits(s, from, delim) : k <= j
<1>1. \E k \in from .. Len(s) + 1 : First(k)
  <2>1. CASE Hits(s, from, delim) = {}
    <3>1. First(Len(s) + 1) /\ Len(s) + 1 \in from .. Len(s) + 1
      BY <2>1
    <3> QED
      BY <3>1
  <2>2. CASE Hits(s, from, delim) # {}
    <3>1. Hits(s, from, delim) \subseteq Nat
      BY DEF Hits
    <3>2. PICK k \in Hits(s, from, delim) : \A j \in Hits(s, from, delim) : k <= j
      BY <2>2, <3>1, Least
    <3>3. k \in from .. Len(s) + 1 /\ First(k)
      BY <3>2 DEF Hits
    <3> QED
      BY <3>3
  <2> QED
    BY <2>1, <2>2
<1>2. Find(s, from, delim) = CHOOSE k \in from .. Len(s) + 1 : First(k)
  BY DEF Find
<1>3. Find(s, from, delim) \in from .. Len(s) + 1 /\ First(Find(s, from, delim))
  <2> HIDE DEF First
  <2> QED
    BY <1>1, <1>2
<1> QED
  BY <1>3 DEF Hits

\* A first place is the one Find chooses.
LEMMA FindIs ==
    ASSUME NEW s \in Seq(Tokens), NEW from \in 1 .. Len(s) + 1, NEW delim,
           NEW k \in from .. Len(s) + 1,
           k <= Len(s) => At(s, k, delim),
           \A j \in from .. Len(s) : At(s, j, delim) => k <= j
    PROVE  Find(s, from, delim) = k
<1> DEFINE f == Find(s, from, delim)
<1>1. /\ f \in from .. Len(s) + 1
      /\ f <= Len(s) => At(s, f, delim)
      /\ \A j \in from .. Len(s) : At(s, j, delim) => f <= j
  BY FindFacts
<1> HIDE DEF f
<1>2. f = k
  <2>1. f <= Len(s) => k <= f
    BY <1>1
  <2>2. k <= Len(s) => f <= k
    BY <1>1
  <2> QED
    BY <1>1, <2>1, <2>2
<1> QED
  BY <1>2 DEF f

\* Where a delimiter is, of one token and of two.
LEMMA AtOne ==
    ASSUME NEW s \in Seq(Tokens), NEW k \in Nat, NEW a
    PROVE  At(s, k, <<a>>) <=> k <= Len(s) /\ s[k] = a
<1>1. Len(<<a>>) = 1 /\ <<a>>[1] = a
  OBVIOUS
<1>2. At(s, k, <<a>>) <=> k + 1 - 1 <= Len(s) /\ s[k + 1 - 1] = a
  BY <1>1 DEF At
<1> QED
  BY <1>2

\* A delimiter of two tokens.
LEMMA AtTwo ==
    ASSUME NEW s \in Seq(Tokens), NEW k \in Nat, NEW a, NEW b
    PROVE  At(s, k, <<a, b>>) <=> k + 1 <= Len(s) /\ s[k] = a /\ s[k + 1] = b
<1> DEFINE d == <<a, b>>
<1>1. Len(d) = 2 /\ d[1] = a /\ d[2] = b
  OBVIOUS
<1> HIDE DEF d
<1>2. At(s, k, d) <=> k + 2 - 1 <= Len(s) /\ \A n \in {1, 2} : s[k + n - 1] = d[n]
  BY <1>1 DEF At
<1>3. k + 2 - 1 = k + 1 /\ k + 1 - 1 = k
  OBVIOUS
<1>4. (\A n \in {1, 2} : s[k + n - 1] = d[n]) <=> s[k] = d[1] /\ s[k + 1] = d[2]
  BY <1>3
<1> QED
  BY <1>1, <1>2, <1>3, <1>4 DEF d

\* The delimiters, token by token.
LEMMA Delims ==
    /\ LineDelim = <<"CRLF">> /\ Len(LineDelim) = 1
    /\ EndDelim = <<"CRLF", "CRLF">> /\ Len(EndDelim) = 2
    /\ KeyDelim = <<":", " ">> /\ Len(KeyDelim) = 2
    /\ Len(<<" ">>) = 1
<1>1. LineDelim = <<"CRLF">> /\ KeyDelim = <<":", " ">>
  BY DEF LineDelim, KeyDelim
<1>2. EndDelim = <<"CRLF", "CRLF">>
  <2> DEFINE c == <<"CRLF">>
             d == c \o c
             e == <<"CRLF", "CRLF">>
  <2>1. "CRLF" \in Tokens
    BY DEF Tokens
  <2>2. c \in Seq(Tokens) /\ Len(c) = 1 /\ c[1] = "CRLF"
    BY <2>1, TupleOne
  <2>3. e \in Seq(Tokens) /\ Len(e) = 2 /\ e[1] = "CRLF" /\ e[2] = "CRLF"
    BY <2>1, TupleTwo
  <2> HIDE DEF c, e
  <2>4. /\ d \in Seq(Tokens) /\ Len(d) = 2
        /\ \A i \in 1 .. 1 : d[i] = c[i]
        /\ \A i \in 1 .. 1 : d[1 + i] = c[i]
    BY <2>2, Appended
  <2> HIDE DEF d
  <2>5. d[1] = "CRLF" /\ d[1 + 1] = "CRLF"
    BY <2>2, <2>4
  <2>6. \A i \in 1 .. 2 : d[i] = e[i]
    <3> TAKE i \in 1 .. 2
    <3>1. i = 1 \/ i = 1 + 1
      OBVIOUS
    <3> QED
      BY <2>3, <2>5, <3>1
  <2>7. d = e
    BY <2>3, <2>4, <2>6
  <2> QED
    BY <2>7 DEF c, d, e, EndDelim, LineDelim
<1>3. Len(<<"CRLF">>) = 1 /\ Len(<<"CRLF", "CRLF">>) = 2 /\ Len(<<":", " ">>) = 2 /\ Len(<<" ">>) = 1
  OBVIOUS
<1> QED
  BY <1>1, <1>2, <1>3

-----------------------------------------------------------------------------
(* The request as it is sent.                                               *)

\* Two parts that lie one behind the other are one part.
LEMMA PlacedJoin ==
    ASSUME NEW x \in Seq(Tokens), NEW y \in Seq(Tokens), NEW z \in Seq(Tokens),
           NEW n \in Nat, Placed(x, n, y), Placed(x, n + Len(y), z)
    PROVE  Placed(x, n, y \o z)
<1> DEFINE w == y \o z
<1>1. /\ Len(w) = Len(y) + Len(z)
      /\ \A i \in 1 .. Len(y) : w[i] = y[i]
      /\ \A i \in 1 .. Len(z) : w[Len(y) + i] = z[i]
  BY Appended
<1> HIDE DEF w
<1>2. Len(y) \in Nat /\ Len(z) \in Nat
  OBVIOUS
<1>3. n + Len(w) <= Len(x)
  BY <1>1, <1>2 DEF Placed
<1>4. ASSUME NEW i \in 1 .. Len(w) PROVE x[n + i] = w[i]
  <2>1. CASE i <= Len(y)
    BY <1>1, <1>2, <2>1 DEF Placed
  <2>2. CASE i > Len(y)
    <3> DEFINE j == i - Len(y)
    <3>1. j \in 1 .. Len(z) /\ Len(y) + j = i /\ (n + Len(y)) + j = n + i
      BY <1>1, <1>2, <2>2
    <3> HIDE DEF j
    <3>2. w[Len(y) + j] = z[j] /\ x[(n + Len(y)) + j] = z[j]
      BY <1>1, <3>1 DEF Placed
    <3> QED
      BY <3>1, <3>2
  <2> QED
    BY <1>1, <1>2, <2>1, <2>2
<1>5. Placed(x, n, w)
  BY <1>3, <1>4 DEF Placed
<1> QED
  BY <1>5 DEF w

\* Two texts more: what is in the first text is in the last.
LEMMA Grown ==
    ASSUME NEW x \in Seq(Tokens), NEW y \in Seq(Tokens), NEW e \in Seq(Tokens),
           Placed(e, 0, x \o y)
    PROVE  Placed(e, 0, x) /\ Placed(e, Len(x), y)
<1>1. x \o y \in Seq(Tokens) /\ Len(x) \in Nat /\ 0 \in Nat
  OBVIOUS
<1>2. Placed(x \o y, 0, x) /\ Placed(x \o y, Len(x), y)
  BY PlacedBehind
<1>3. Placed(e, 0 + 0, x) /\ Placed(e, 0 + Len(x), y)
  <2> DEFINE z == x \o y
  <2>1. z \in Seq(Tokens) /\ Placed(e, 0, z) /\ Placed(z, 0, x) /\ Placed(z, Len(x), y)
    BY <1>1, <1>2
  <2> HIDE DEF z
  <2> QED
    BY <1>1, <2>1, PlacedIn
<1>4. 0 + 0 = 0 /\ 0 + Len(x) = Len(x)
  BY <1>1
<1> QED
  BY <1>3, <1>4

\* The type and the length of two texts put together.
LEMMA Joining ==
    ASSUME NEW x \in Seq(Tokens), NEW y \in Seq(Tokens)
    PROVE  x \o y \in Seq(Tokens) /\ Len(x \o y) = Len(x) + Len(y)
OBVIOUS

\* One header as it is sent, and one argument.
Line(h) == <<h.name>> \o KeyDelim \o h.value \o LineDelim
Assigned(mark, arg) == <<mark, arg.name>> \o arg.value

Target(r) == r.path \o Query(r.args)

\* Where the start line ends, and where the header does.
LineEnd(r) == 4 + Len(Target(r)) + Len(r.version)
HeadEnd(r) == LineEnd(r) + Len(HeaderLines(r.headers)) + 1

\* The delimiters are texts.
LEMMA DelimTypes ==
    /\ LineDelim \in Seq(Tokens) /\ KeyDelim \in Seq(Tokens) /\ <<" ">> \in Seq(Tokens)
    /\ LineDelim[1] = "CRLF" /\ KeyDelim[1] = ":" /\ KeyDelim[2] = " "
    /\ <<" ">>[1] = " "
<1>1. "CRLF" \in Tokens /\ ":" \in Tokens /\ " " \in Tokens
  BY DEF Tokens
<1>2. LineDelim \in Seq(Tokens) /\ LineDelim[1] = "CRLF"
  BY <1>1, TupleOne DEF LineDelim
<1>3. <<" ">> \in Seq(Tokens) /\ <<" ">>[1] = " "
  BY <1>1, TupleOne
<1>4. KeyDelim \in Seq(Tokens) /\ KeyDelim[1] = ":" /\ KeyDelim[2] = " "
  BY <1>1, TupleTwo DEF KeyDelim
<1> QED
  BY <1>2, <1>3, <1>4

\* The parts of a request are texts.
LEMMA FramedTypes ==
    ASSUME NEW r, Framed(r)
    PROVE  /\ r.method \in Tokens /\ r.path \in Seq(Tokens) /\ r.version \in Seq(Tokens)
           /\ r.body \in Seq(Tokens)
           /\ DOMAIN r.args = 1 .. Len(r.args) /\ Len(r.args) \in Nat
           /\ \A k \in DOMAIN r.args :
                 r.args[k].name \in Tokens /\ r.args[k].value \in Seq(Tokens)
           /\ DOMAIN r.headers = 1 .. Len(r.headers) /\ Len(r.headers) \in Nat
           /\ \A k \in DOMAIN r.headers :
                 r.headers[k].name \in Tokens /\ r.headers[k].value \in Seq(Tokens)
<1>1. Words \subseteq Tokens /\ InLine \subseteq Tokens /\ STRING \subseteq Tokens
  BY DEF Words, InLine, Tokens
<1>2. r.method \in Tokens
  BY <1>1 DEF Framed
<1>3. r.path \in Seq(Tokens)
  BY <1>1, LargerSet DEF Framed
<1>4. r.version \in Seq(Tokens)
  BY <1>1, LargerSet DEF Framed
<1>5. r.body \in Seq(Tokens)
  BY <1>1, LargerSet DEF Framed
<1>6. /\ DOMAIN r.args = 1 .. Len(r.args) /\ Len(r.args) \in Nat
      /\ \A k \in DOMAIN r.args : r.args[k] \in [name : Words, value : Seq(Words)]
  <2>1. r.args \in Seq([name : Words, value : Seq(Words)])
    BY DEF Framed
  <2> QED
    BY <2>1, Elements
<1>7. \A k \in DOMAIN r.args : r.args[k].name \in Tokens /\ r.args[k].value \in Seq(Tokens)
  <2> TAKE k \in DOMAIN r.args
  <2>1. r.args[k].name \in Words /\ r.args[k].value \in Seq(Words)
    BY <1>6
  <2>2. r.args[k].value \in Seq(Tokens)
    BY <1>1, <2>1, LargerSet
  <2> QED
    BY <1>1, <2>1, <2>2
<1>8. /\ DOMAIN r.headers = 1 .. Len(r.headers) /\ Len(r.headers) \in Nat
      /\ \A k \in DOMAIN r.headers : r.headers[k] \in [name : InLine, value : Seq(InLine)]
  <2>1. r.headers \in Seq([name : InLine, value : Seq(InLine)])
    BY DEF Framed
  <2> QED
    BY <2>1, Elements
<1>9. \A k \in DOMAIN r.headers :
         r.headers[k].name \in Tokens /\ r.headers[k].value \in Seq(Tokens)
  <2> TAKE k \in DOMAIN r.headers
  <2>1. r.headers[k].name \in InLine /\ r.headers[k].value \in Seq(InLine)
    BY <1>8
  <2>2. r.headers[k].value \in Seq(Tokens)
    BY <1>1, <2>1, LargerSet
  <2> QED
    BY <1>1, <2>1, <2>2
<1> QED
  BY <1>2, <1>3, <1>4, <1>5, <1>6, <1>7, <1>8, <1>9

\* One header line: name, delimiter, value, end of line.
LEMMA LinePlaces ==
    ASSUME NEW h, h.name \in Tokens, h.value \in Seq(Tokens)
    PROVE  /\ Line(h) \in Seq(Tokens) /\ Len(Line(h)) = Len(h.value) + 4
           /\ Line(h)[1] = h.name /\ Line(h)[2] = ":" /\ Line(h)[3] = " "
           /\ Line(h)[Len(h.value) + 4] = "CRLF"
           /\ \A i \in 1 .. Len(h.value) : Line(h)[3 + i] = h.value[i]
<1> DEFINE a == <<h.name>>
           b == KeyDelim
           c == h.value
           d == LineDelim
           x == a \o b
           y == x \o c
           z == y \o d
<1>1. a \in Seq(Tokens) /\ Len(a) = 1 /\ a[1] = h.name
  BY TupleOne
<1>2. c \in Seq(Tokens) /\ Len(c) \in Nat
  OBVIOUS
<1>3. Line(h) = z
  BY DEF Line
<1> HIDE DEF a, b, c, d
<1>4. b \in Seq(Tokens) /\ Len(b) = 2 /\ b[1] = ":" /\ b[2] = " "
  BY DelimTypes, Delims DEF b
<1>5. d \in Seq(Tokens) /\ Len(d) = 1 /\ d[1] = "CRLF"
  BY DelimTypes, Delims DEF d
<1>6. /\ x \in Seq(Tokens) /\ Len(x) = Len(a) + Len(b)
      /\ \A i \in 1 .. Len(a) : x[i] = a[i]
      /\ \A i \in 1 .. Len(b) : x[Len(a) + i] = b[i]
  <2>1. a \in Seq(Tokens) /\ b \in Seq(Tokens)
    BY <1>1, <1>4
  <2> QED
    BY ONLY <2>1, Appended
<1> HIDE DEF x
<1>7. x[1] = a[1] /\ x[1 + 1] = b[1] /\ x[1 + 2] = b[2] /\ Len(x) = 3
  <2>1. Len(a) = 1 /\ Len(b) = 2
    BY <1>1, <1>4
  <2>2. 1 \in 1 .. Len(a) /\ 1 \in 1 .. Len(b) /\ 2 \in 1 .. Len(b)
    BY <2>1
  <2>3. x[1] = a[1] /\ x[Len(a) + 1] = b[1] /\ x[Len(a) + 2] = b[2]
    BY <1>6, <2>2
  <2> QED
    BY <1>6, <2>1, <2>3
<1>8. x[1] = h.name /\ x[2] = ":" /\ x[3] = " "
  <2>1. 1 + 1 = 2 /\ 1 + 2 = 3
    OBVIOUS
  <2> QED
    BY <1>1, <1>4, <1>7, <2>1
<1>9. /\ y \in Seq(Tokens) /\ Len(y) = Len(x) + Len(c)
      /\ \A i \in 1 .. Len(x) : y[i] = x[i]
      /\ \A i \in 1 .. Len(c) : y[Len(x) + i] = c[i]
  <2>1. x \in Seq(Tokens) /\ c \in Seq(Tokens)
    BY <1>2, <1>6
  <2> QED
    BY ONLY <2>1, Appended
<1> HIDE DEF y
<1>10. /\ z \in Seq(Tokens) /\ Len(z) = Len(y) + Len(d)
       /\ \A i \in 1 .. Len(y) : z[i] = y[i]
       /\ \A i \in 1 .. Len(d) : z[Len(y) + i] = d[i]
  <2>1. y \in Seq(Tokens) /\ d \in Seq(Tokens)
    BY <1>5, <1>9
  <2> QED
    BY ONLY <2>1, Appended
<1> HIDE DEF z
<1>11. Len(y) + 1 = Len(c) + 4 /\ Len(z) = Len(c) + 4
  BY <1>2, <1>5, <1>7, <1>9, <1>10
<1>12. z[Len(y) + 1] = d[1]
  BY <1>5, <1>10
<1>13. z[1] = h.name /\ z[2] = ":" /\ z[3] = " "
  <2>1. 1 \in 1 .. Len(x) /\ 2 \in 1 .. Len(x) /\ 3 \in 1 .. Len(x) /\ Len(x) <= Len(y)
    BY <1>2, <1>7, <1>9
  <2>2. 1 \in 1 .. Len(y) /\ 2 \in 1 .. Len(y) /\ 3 \in 1 .. Len(y)
    BY <1>2, <1>7, <1>9
  <2>3. y[1] = x[1] /\ y[2] = x[2] /\ y[3] = x[3]
    BY <1>9, <2>1
  <2>4. z[1] = y[1] /\ z[2] = y[2] /\ z[3] = y[3]
    BY <1>10, <2>2
  <2> QED
    BY <1>8, <2>3, <2>4
<1>14. \A i \in 1 .. Len(c) : z[3 + i] = c[i]
  <2> TAKE i \in 1 .. Len(c)
  <2> DEFINE j == 3 + i
  <2>1. j \in 1 .. Len(y) /\ y[j] = c[i]
    BY <1>2, <1>7, <1>9
  <2> HIDE DEF j
  <2>2. z[j] = c[i]
    BY <1>10, <2>1
  <2> QED
    BY <2>2 DEF j
<1> QED
  BY <1>3, <1>5, <1>10, <1>11, <1>12, <1>13, <1>14 DEF c

\* One argument: its mark, its name, its value.
LEMMA AssignedPlaces ==
    ASSUME NEW mark \in Tokens, NEW arg, arg.name \in Tokens, arg.value \in Seq(Tokens)
    PROVE  /\ Assigned(mark, arg) \in Seq(Tokens)
           /\ Len(Assigned(mark, arg)) = Len(arg.value) + 2
           /\ Assigned(mark, arg)[1] = mark /\ Assigned(mark, arg)[2] = arg.name
           /\ \A i \in 1 .. Len(arg.value) : Assigned(mark, arg)[2 + i] = arg.value[i]
<1> DEFINE a == <<mark, arg.name>>
           b == arg.value
           x == a \o b
<1>1. a \in Seq(Tokens) /\ Len(a) = 2 /\ a[1] = mark /\ a[2] = arg.name
  BY TupleTwo
<1>2. b \in Seq(Tokens) /\ Len(b) \in Nat
  OBVIOUS
<1>3. Assigned(mark, arg) = x
  BY DEF Assigned
<1> HIDE DEF a, b
<1>4. /\ x \in Seq(Tokens) /\ Len(x) = Len(a) + Len(b)
      /\ \A i \in 1 .. Len(a) : x[i] = a[i]
      /\ \A i \in 1 .. Len(b) : x[Len(a) + i] = b[i]
  <2>1. a \in Seq(Tokens) /\ b \in Seq(Tokens)
    BY <1>1, <1>2
  <2> QED
    BY ONLY <2>1, Appended
<1> HIDE DEF x
<1>5. x[1] = a[1] /\ x[2] = a[2]
  BY <1>1, <1>4
<1> QED
  BY <1>1, <1>2, <1>3, <1>4, <1>5 DEF b

\* Of these, what is about numbers.
LEMMA LineLength ==
    ASSUME NEW h, h.name \in Tokens, h.value \in Seq(Tokens)
    PROVE  /\ Line(h) \in Seq(Tokens) /\ Len(Line(h)) = Len(h.value) + 4
           /\ Len(h.value) \in Nat
           /\ \A i \in 1 .. Len(h.value) : Line(h)[3 + i] = h.value[i]
<1>1. Len(h.value) \in Nat
  OBVIOUS
<1>2. /\ Line(h) \in Seq(Tokens) /\ Len(Line(h)) = Len(h.value) + 4
      /\ \A i \in 1 .. Len(h.value) : Line(h)[3 + i] = h.value[i]
  BY LinePlaces, Zenon
<1> QED
  BY <1>1, <1>2

\* The length of an argument, and where its value is.
LEMMA AssignedLength ==
    ASSUME NEW mark \in Tokens, NEW arg, arg.name \in Tokens, arg.value \in Seq(Tokens)
    PROVE  /\ Assigned(mark, arg) \in Seq(Tokens)
           /\ Len(Assigned(mark, arg)) = Len(arg.value) + 2
           /\ Len(arg.value) \in Nat
           /\ \A i \in 1 .. Len(arg.value) : Assigned(mark, arg)[2 + i] = arg.value[i]
<1>1. Len(arg.value) \in Nat
  OBVIOUS
<1>2. /\ Assigned(mark, arg) \in Seq(Tokens)
      /\ Len(Assigned(mark, arg)) = Len(arg.value) + 2
      /\ \A i \in 1 .. Len(arg.value) : Assigned(mark, arg)[2 + i] = arg.value[i]
  BY AssignedPlaces
<1> QED
  BY <1>1, <1>2

\* The header lines are joined from texts.
LEMMA LinesJoined ==
    ASSUME NEW r, Framed(r)
    PROVE  LET lines == [k \in DOMAIN r.headers |-> Line(r.headers[k])]
           IN /\ HeaderLines(r.headers) = Joined(lines)
              /\ lines \in Seq(Seq(Tokens)) /\ Len(lines) = Len(r.headers)
<1> DEFINE lines == [k \in DOMAIN r.headers |-> Line(r.headers[k])]
<1>1. /\ DOMAIN r.headers = 1 .. Len(r.headers) /\ Len(r.headers) \in Nat
      /\ \A k \in DOMAIN r.headers : Line(r.headers[k]) \in Seq(Tokens)
  BY FramedTypes, LinePlaces
<1>2. lines \in Seq(Seq(Tokens)) /\ Len(lines) = Len(r.headers)
  BY <1>1
<1>3. HeaderLines(r.headers) = Joined(lines)
  BY DEF HeaderLines, Line
<1> QED
  BY <1>2, <1>3

\* The query is joined from texts.
LEMMA QueryJoined ==
    ASSUME NEW r, Framed(r)
    PROVE  LET parts == [k \in DOMAIN r.args |->
                            Assigned(IF k = 1 THEN "?" ELSE "&", r.args[k])]
           IN /\ Query(r.args) = Joined(parts)
              /\ parts \in Seq(Seq(Tokens)) /\ Len(parts) = Len(r.args)
<1> DEFINE parts == [k \in DOMAIN r.args |->
                        Assigned(IF k = 1 THEN "?" ELSE "&", r.args[k])]
<1>1. "?" \in Tokens /\ "&" \in Tokens
  BY DEF Tokens
<1>2. /\ DOMAIN r.args = 1 .. Len(r.args) /\ Len(r.args) \in Nat
      /\ \A k \in DOMAIN r.args :
            Assigned(IF k = 1 THEN "?" ELSE "&", r.args[k]) \in Seq(Tokens)
  BY <1>1, FramedTypes, AssignedPlaces
<1>3. parts \in Seq(Seq(Tokens)) /\ Len(parts) = Len(r.args)
  BY <1>2
<1>4. Query(r.args) = Joined(parts)
  BY DEF Query, Assigned
<1> QED
  BY <1>3, <1>4

\* Where everything is in a request.
LEMMA Layout ==
    ASSUME NEW r, Framed(r)
    PROVE  /\ Encoded(r) \in Seq(Tokens) /\ Target(r) \in Seq(Tokens)
           /\ HeaderLines(r.headers) \in Seq(Tokens)
           /\ LineEnd(r) \in Nat /\ HeadEnd(r) \in Nat
           /\ Len(Encoded(r)) = HeadEnd(r) + Len(r.body)
           /\ Encoded(r)[1] = r.method /\ Encoded(r)[2] = " "
           /\ Placed(Encoded(r), 2, Target(r))
           /\ Encoded(r)[3 + Len(Target(r))] = " "
           /\ Placed(Encoded(r), 3 + Len(Target(r)), r.version)
           /\ Encoded(r)[LineEnd(r)] = "CRLF"
           /\ Placed(Encoded(r), LineEnd(r), HeaderLines(r.headers))
           /\ Encoded(r)[HeadEnd(r)] = "CRLF"
           /\ Placed(Encoded(r), HeadEnd(r), r.body)
<1> DEFINE x == Encoded(r)
           a == <<r.method, " ">>
           b == r.path
           c == Query(r.args)
           d == <<" ">>
           e == r.version
           f == LineDelim
           g == HeaderLines(r.headers)
           i == r.body
           t == Target(r)
<1>1. x = a \o b \o c \o d \o e \o f \o g \o f \o i
  BY DEF Encoded
<1>2. " " \in Tokens
  BY DEF Tokens
<1>3. a \in Seq(Tokens) /\ Len(a) = 2
  BY <1>2, FramedTypes, TupleTwo
<1>4. a[1] = r.method /\ a[2] = " "
  BY <1>2, FramedTypes, TupleTwo
<1>5. d \in Seq(Tokens) /\ Len(d) = 1 /\ f \in Seq(Tokens) /\ Len(f) = 1
  BY DelimTypes, Delims
<1>6. d[1] = " " /\ f[1] = "CRLF"
  BY DelimTypes
<1>7. b \in Seq(Tokens) /\ e \in Seq(Tokens) /\ i \in Seq(Tokens)
  BY FramedTypes
<1>8. c \in Seq(Tokens) /\ g \in Seq(Tokens)
  BY QueryJoined, LinesJoined, JoinedPlaces
<1>9. t = b \o c /\ LineEnd(r) = 4 + Len(t) + Len(e) /\ HeadEnd(r) = LineEnd(r) + Len(g) + 1
  BY DEF Target, LineEnd, HeadEnd
<1> HIDE DEF x, a, b, c, d, e, f, g, i, t
<1>10. t \in Seq(Tokens) /\ Len(t) = Len(b) + Len(c)
  BY <1>7, <1>8, <1>9, Joining
<1>11. /\ Len(b) \in Nat /\ Len(c) \in Nat /\ Len(e) \in Nat /\ Len(g) \in Nat
      /\ Len(i) \in Nat
  BY <1>7, <1>8
<1>12. /\ x \in Seq(Tokens)
      /\ Len(x) = Len(a) + Len(b) + Len(c) + Len(d) + Len(e) + Len(f) + Len(g)
                  + Len(f) + Len(i)
      /\ Placed(x, 0, a) /\ Placed(x, Len(a), b)
      /\ Placed(x, Len(a) + Len(b), c)
      /\ Placed(x, Len(a) + Len(b) + Len(c), d)
      /\ Placed(x, Len(a) + Len(b) + Len(c) + Len(d), e)
      /\ Placed(x, Len(a) + Len(b) + Len(c) + Len(d) + Len(e), f)
      /\ Placed(x, Len(a) + Len(b) + Len(c) + Len(d) + Len(e) + Len(f), g)
      /\ Placed(x, Len(a) + Len(b) + Len(c) + Len(d) + Len(e) + Len(f) + Len(g), f)
      /\ Placed(x, Len(a) + Len(b) + Len(c) + Len(d) + Len(e) + Len(f) + Len(g)
                   + Len(f), i)
  <2> DEFINE x2 == a \o b
             x3 == x2 \o c
             x4 == x3 \o d
             x5 == x4 \o e
             x6 == x5 \o f
             x7 == x6 \o g
             x8 == x7 \o f
  <2>1. x = x8 \o i
    BY <1>1
  <2>2. x2 \in Seq(Tokens) /\ Len(x2) = Len(a) + Len(b)
    BY <1>3, <1>5, <1>7, <1>8, Joining
  <2>3. \A u \in Seq(Tokens) : Placed(u, 0, x2) => Placed(u, 0, a) /\ Placed(u, Len(a), b)
    BY <1>3, <1>5, <1>7, <1>8, Grown
  <2> HIDE DEF x2
  <2>4. x3 \in Seq(Tokens) /\ Len(x3) = Len(x2) + Len(c)
    BY <1>3, <1>5, <1>7, <1>8, <2>2, Joining
  <2>5. \A u \in Seq(Tokens) : Placed(u, 0, x3) => Placed(u, 0, x2) /\ Placed(u, Len(x2), c)
    BY <1>3, <1>5, <1>7, <1>8, <2>2, Grown
  <2> HIDE DEF x3
  <2>6. x4 \in Seq(Tokens) /\ Len(x4) = Len(x3) + Len(d)
    BY <1>3, <1>5, <1>7, <1>8, <2>4, Joining
  <2>7. \A u \in Seq(Tokens) : Placed(u, 0, x4) => Placed(u, 0, x3) /\ Placed(u, Len(x3), d)
    BY <1>3, <1>5, <1>7, <1>8, <2>4, Grown
  <2> HIDE DEF x4
  <2>8. x5 \in Seq(Tokens) /\ Len(x5) = Len(x4) + Len(e)
    BY <1>3, <1>5, <1>7, <1>8, <2>6, Joining
  <2>9. \A u \in Seq(Tokens) : Placed(u, 0, x5) => Placed(u, 0, x4) /\ Placed(u, Len(x4), e)
    BY <1>3, <1>5, <1>7, <1>8, <2>6, Grown
  <2> HIDE DEF x5
  <2>10. x6 \in Seq(Tokens) /\ Len(x6) = Len(x5) + Len(f)
    BY <1>3, <1>5, <1>7, <1>8, <2>8, Joining
  <2>11. \A u \in Seq(Tokens) : Placed(u, 0, x6) => Placed(u, 0, x5) /\ Placed(u, Len(x5), f)
    BY <1>3, <1>5, <1>7, <1>8, <2>8, Grown
  <2> HIDE DEF x6
  <2>12. x7 \in Seq(Tokens) /\ Len(x7) = Len(x6) + Len(g)
    BY <1>3, <1>5, <1>7, <1>8, <2>10, Joining
  <2>13. \A u \in Seq(Tokens) : Placed(u, 0, x7) => Placed(u, 0, x6) /\ Placed(u, Len(x6), g)
    BY <1>3, <1>5, <1>7, <1>8, <2>10, Grown
  <2> HIDE DEF x7
  <2>14. x8 \in Seq(Tokens) /\ Len(x8) = Len(x7) + Len(f)
    BY <1>3, <1>5, <1>7, <1>8, <2>12, Joining
  <2>15. \A u \in Seq(Tokens) : Placed(u, 0, x8) => Placed(u, 0, x7) /\ Placed(u, Len(x7), f)
    BY <1>3, <1>5, <1>7, <1>8, <2>12, Grown
  <2> HIDE DEF x8
  <2>16. x \in Seq(Tokens) /\ Len(x) = Len(x8) + Len(i)
    BY <1>3, <1>5, <1>7, <1>8, <2>1, <2>14, Joining
  <2>17. Placed(x, 0, x8) /\ Placed(x, Len(x8), i)
    BY <1>7, <2>1, <2>14, PlacedBehind
  <2>18. /\ Placed(x, 0, x7) /\ Placed(x, Len(x7), f)
         /\ Placed(x, 0, x6) /\ Placed(x, Len(x6), g)
         /\ Placed(x, 0, x5) /\ Placed(x, Len(x5), f)
         /\ Placed(x, 0, x4) /\ Placed(x, Len(x4), e)
    BY <2>9, <2>11, <2>13, <2>15, <2>16, <2>17
  <2>19. /\ Placed(x, 0, x3) /\ Placed(x, Len(x3), d)
         /\ Placed(x, 0, x2) /\ Placed(x, Len(x2), c)
         /\ Placed(x, 0, a) /\ Placed(x, Len(a), b)
    BY <2>3, <2>5, <2>7, <2>16, <2>18
  <2>20. /\ Len(x3) = Len(a) + Len(b) + Len(c)
         /\ Len(x4) = Len(a) + Len(b) + Len(c) + Len(d)
         /\ Len(x5) = Len(a) + Len(b) + Len(c) + Len(d) + Len(e)
         /\ Len(x6) = Len(a) + Len(b) + Len(c) + Len(d) + Len(e) + Len(f)
         /\ Len(x7) = Len(a) + Len(b) + Len(c) + Len(d) + Len(e) + Len(f) + Len(g)
         /\ Len(x8) = Len(a) + Len(b) + Len(c) + Len(d) + Len(e) + Len(f) + Len(g) + Len(f)
    BY <2>2, <2>4, <2>6, <2>8, <2>10, <2>12, <2>14
  <2>21. /\ x \in Seq(Tokens)
         /\ Len(x) = Len(x8) + Len(i)
         /\ Placed(x, 0, a) /\ Placed(x, Len(a), b)
         /\ Placed(x, Len(x2), c) /\ Placed(x, Len(x3), d) /\ Placed(x, Len(x4), e)
         /\ Placed(x, Len(x5), f) /\ Placed(x, Len(x6), g) /\ Placed(x, Len(x7), f)
         /\ Placed(x, Len(x8), i)
    BY <2>16, <2>17, <2>18, <2>19
  <2> QED
    BY <2>2, <2>20, <2>21
<1>13. /\ LineEnd(r) \in Nat /\ HeadEnd(r) \in Nat
       /\ Len(x) = HeadEnd(r) + Len(i)
       /\ Placed(x, 2, b) /\ Placed(x, 2 + Len(b), c) /\ Placed(x, 2 + Len(t), d)
       /\ Placed(x, 3 + Len(t), e) /\ Placed(x, 3 + Len(t) + Len(e), f)
       /\ Placed(x, LineEnd(r), g) /\ Placed(x, LineEnd(r) + Len(g), f)
       /\ Placed(x, HeadEnd(r), i)
  <2>1. Len(a) = 2 /\ Len(d) = 1 /\ Len(f) = 1
    BY <1>3, <1>5
  <2>2. /\ Len(a) + Len(b) = 2 + Len(b)
        /\ Len(a) + Len(b) + Len(c) = 2 + Len(t)
        /\ Len(a) + Len(b) + Len(c) + Len(d) = 3 + Len(t)
        /\ Len(a) + Len(b) + Len(c) + Len(d) + Len(e) = 3 + Len(t) + Len(e)
        /\ Len(a) + Len(b) + Len(c) + Len(d) + Len(e) + Len(f) = LineEnd(r)
        /\ Len(a) + Len(b) + Len(c) + Len(d) + Len(e) + Len(f) + Len(g) = LineEnd(r) + Len(g)
        /\ Len(a) + Len(b) + Len(c) + Len(d) + Len(e) + Len(f) + Len(g) + Len(f) = HeadEnd(r)
    BY <2>1, <1>9, <1>10, <1>11
  <2>3. LineEnd(r) \in Nat /\ HeadEnd(r) \in Nat
    BY <1>9, <1>10, <1>11
  <2> QED
    BY <2>1, <1>12, <2>2, <2>3
<1>14. Placed(x, 2, t)
  BY <1>7, <1>8, <1>9, <1>12, <1>13, PlacedJoin
<1>15. x[0 + 1] = a[1] /\ x[0 + 2] = a[2]
  <2>1. 1 \in 1 .. Len(a) /\ 2 \in 1 .. Len(a)
    BY <1>3
  <2> QED
    BY <1>12, <2>1 DEF Placed
<1>16. x[(2 + Len(t)) + 1] = d[1]
  <2> DEFINE n == 2 + Len(t)
  <2>1. n \in Nat /\ Placed(x, n, d)
    BY <1>10, <1>11, <1>13
  <2> HIDE DEF n
  <2>2. x[n + 1] = d[1]
    BY <1>5, <2>1, PlacedFirst
  <2> QED
    BY <2>2 DEF n
<1>17. x[(3 + Len(t) + Len(e)) + 1] = f[1] /\ x[(LineEnd(r) + Len(g)) + 1] = f[1]
  <2> DEFINE m == 3 + Len(t) + Len(e)
             n == LineEnd(r) + Len(g)
  <2>1. m \in Nat /\ Placed(x, m, f) /\ n \in Nat /\ Placed(x, n, f)
    BY <1>10, <1>11, <1>13
  <2> HIDE DEF m, n
  <2>2. x[m + 1] = f[1] /\ x[n + 1] = f[1]
    BY <1>5, <2>1, PlacedFirst
  <2> QED
    BY <2>2 DEF m, n
<1>18. /\ 0 + 1 = 1 /\ 0 + 2 = 2 /\ (2 + Len(t)) + 1 = 3 + Len(t)
       /\ (3 + Len(t) + Len(e)) + 1 = LineEnd(r)
       /\ (LineEnd(r) + Len(g)) + 1 = HeadEnd(r)
  BY <1>9, <1>10, <1>11
<1>19. /\ x[1] = r.method /\ x[2] = " " /\ x[3 + Len(t)] = " "
       /\ x[LineEnd(r)] = "CRLF" /\ x[HeadEnd(r)] = "CRLF"
  BY <1>4, <1>6, <1>15, <1>16, <1>17, <1>18
<1> QED
  BY <1>8, <1>10, <1>12, <1>13, <1>14, <1>19 DEF x, e, g, i, t

\* Where one header is, and one argument.
HeaderAt(x, at, h) ==
    /\ x[at + 1] = h.name /\ x[at + 2] = ":" /\ x[at + 3] = " "
    /\ Placed(x, at + 3, h.value)
    /\ x[at + 4 + Len(h.value)] = "CRLF"

ArgAt(x, at, mark, arg) ==
    /\ x[at + 1] = mark /\ x[at + 2] = arg.name
    /\ Placed(x, at + 2, arg.value)

\* Where the tokens of a header line are in a text it lies in.
LEMMA LineAt ==
    ASSUME NEW x, NEW at \in Nat, NEW h, h.name \in Tokens, h.value \in Seq(Tokens),
           Placed(x, at, Line(h)), Len(x) \in Nat
    PROVE  HeaderAt(x, at, h)
<1> DEFINE w == Line(h)
           v == h.value
<1>1. /\ Len(w) = Len(v) + 4 /\ Len(v) \in Nat
      /\ \A i \in 1 .. Len(v) : w[3 + i] = v[i]
  BY LineLength
<1>2. w[1] = h.name /\ w[2] = ":" /\ w[3] = " " /\ w[Len(v) + 4] = "CRLF"
  BY LinePlaces
<1>3. at + Len(w) <= Len(x) /\ \A i \in 1 .. Len(w) : x[at + i] = w[i]
  BY DEF Placed
<1> HIDE DEF w, v
<1>4. x[at + 1] = w[1] /\ x[at + 2] = w[2] /\ x[at + 3] = w[3]
  <2>1. 1 \in 1 .. Len(w) /\ 2 \in 1 .. Len(w) /\ 3 \in 1 .. Len(w)
    BY <1>1
  <2> QED
    BY <1>3, <2>1
<1>5. x[at + 4 + Len(v)] = w[Len(v) + 4]
  <2>1. Len(v) + 4 \in 1 .. Len(w) /\ at + (Len(v) + 4) = at + 4 + Len(v)
    BY <1>1
  <2> DEFINE j == Len(v) + 4
  <2>2. j \in 1 .. Len(w) /\ at + j = at + 4 + Len(v)
    BY <2>1
  <2> HIDE DEF j
  <2>3. x[at + j] = w[j]
    BY <1>3, <2>2
  <2> QED
    BY <2>2, <2>3 DEF j
<1>6. Placed(x, at + 3, v)
  <2>1. (at + 3) + Len(v) <= Len(x)
    BY <1>1, <1>3
  <2>2. ASSUME NEW i \in 1 .. Len(v) PROVE x[(at + 3) + i] = v[i]
    <3> DEFINE j == 3 + i
    <3>1. j \in 1 .. Len(w) /\ w[j] = v[i] /\ at + j = (at + 3) + i
      BY <1>1
    <3> HIDE DEF j
    <3> QED
      BY <1>3, <3>1
  <2> QED
    BY <2>1, <2>2 DEF Placed
<1> QED
  BY <1>2, <1>4, <1>5, <1>6 DEF HeaderAt, v

\* Where the tokens of an argument are in a text it lies in.
LEMMA AssignedAt ==
    ASSUME NEW x, NEW at \in Nat, NEW mark \in Tokens, NEW arg, arg.name \in Tokens,
           arg.value \in Seq(Tokens), Placed(x, at, Assigned(mark, arg)), Len(x) \in Nat
    PROVE  ArgAt(x, at, mark, arg)
<1> DEFINE w == Assigned(mark, arg)
           v == arg.value
<1>1. /\ Len(w) = Len(v) + 2 /\ Len(v) \in Nat
      /\ \A i \in 1 .. Len(v) : w[2 + i] = v[i]
  BY AssignedLength
<1>2. w[1] = mark /\ w[2] = arg.name
  BY AssignedPlaces
<1>3. at + Len(w) <= Len(x) /\ \A i \in 1 .. Len(w) : x[at + i] = w[i]
  BY DEF Placed
<1> HIDE DEF w, v
<1>4. x[at + 1] = w[1] /\ x[at + 2] = w[2]
  <2>1. 1 \in 1 .. Len(w) /\ 2 \in 1 .. Len(w)
    BY <1>1
  <2> QED
    BY <1>3, <2>1
<1>5. Placed(x, at + 2, v)
  <2>1. (at + 2) + Len(v) <= Len(x)
    BY <1>1, <1>3
  <2>2. ASSUME NEW i \in 1 .. Len(v) PROVE x[(at + 2) + i] = v[i]
    <3> DEFINE j == 2 + i
    <3>1. w[j] = v[i]
      BY <1>1
    <3>2. j \in 1 .. Len(w) /\ w[j] = v[i] /\ at + j = (at + 2) + i
      BY <1>1, <3>1
    <3> HIDE DEF j
    <3> QED
      BY <1>3, <3>2
  <2> QED
    BY <2>1, <2>2 DEF Placed
<1> QED
  BY <1>2, <1>4, <1>5 DEF ArgAt, v

\* Where all headers are in a request, and all arguments in its query.
HeaderPlaces(r, P) ==
    /\ P \in [0 .. Len(r.headers) -> Nat]
    /\ P[0] = LineEnd(r) /\ P[Len(r.headers)] + 1 = HeadEnd(r)
    /\ \A k \in 1 .. Len(r.headers) :
          /\ P[k] = P[k - 1] + 4 + Len(r.headers[k].value)
          /\ P[k] < HeadEnd(r)
          /\ HeaderAt(Encoded(r), P[k - 1], r.headers[k])

ArgPlaces(r, Q) ==
    /\ Q \in [0 .. Len(r.args) -> Nat]
    /\ Q[0] = 0 /\ Q[Len(r.args)] = Len(Query(r.args))
    /\ \A k \in 1 .. Len(r.args) :
          /\ Q[k] = Q[k - 1] + 2 + Len(r.args[k].value)
          /\ Q[k] <= Len(Query(r.args))
          /\ ArgAt(Query(r.args), Q[k - 1], IF k = 1 THEN "?" ELSE "&", r.args[k])

\* Every header has its place in the request.
LEMMA HeadersPlaced == ASSUME NEW r, Framed(r) PROVE \E P : HeaderPlaces(r, P)
<1> DEFINE n == Len(r.headers)
           x == Encoded(r)
           y == HeaderLines(r.headers)
           lines == [k \in DOMAIN r.headers |-> Line(r.headers[k])]
           e == LineEnd(r)
<1>1. n \in Nat /\ DOMAIN r.headers = 1 .. n
  BY FramedTypes
<1>2. \A k \in 1 .. n : r.headers[k].name \in Tokens /\ r.headers[k].value \in Seq(Tokens)
  BY <1>1, FramedTypes
<1>3. y = Joined(lines) /\ lines \in Seq(Seq(Tokens)) /\ Len(lines) = n
  BY LinesJoined
<1>4. \A k \in 1 .. n : lines[k] = Line(r.headers[k]) /\ lines[k] \in Seq(Tokens)
  <2>1. \A k \in 1 .. n : lines[k] = Line(r.headers[k])
    BY <1>1
  <2>2. \A k \in 1 .. n : Line(r.headers[k]) \in Seq(Tokens)
    BY <1>2, LinePlaces
  <2> QED
    BY <2>1, <2>2
<1> HIDE DEF lines
<1>5. PICK Q : Places(lines, Q)
  BY <1>3, JoinedPlaces
<1>6. /\ x \in Seq(Tokens) /\ y \in Seq(Tokens) /\ e \in Nat /\ Placed(x, e, y)
      /\ HeadEnd(r) = e + Len(y) + 1
  BY Layout DEF HeadEnd
<1> DEFINE P == [k \in 0 .. n |-> e + Q[k]]
<1>7. /\ Q \in [0 .. n -> Nat] /\ Q[0] = 0 /\ Q[n] = Len(y)
      /\ \A k \in 1 .. n : Q[k] = Q[k - 1] + Len(lines[k]) /\ Placed(y, Q[k - 1], lines[k])
  BY <1>3, <1>5 DEF Places
<1> HIDE DEF n, x, y, e
<1>8. P \in [0 .. n -> Nat] /\ P[0] = e /\ P[n] + 1 = HeadEnd(r)
  <2>1. 0 \in 0 .. n /\ n \in 0 .. n
    BY <1>1
  <2>2. P[0] = e + Q[0] /\ P[n] = e + Q[n]
    BY <2>1
  <2>3. \A k \in 0 .. n : e + Q[k] \in Nat
    BY <1>6, <1>7
  <2> QED
    BY <1>6, <1>7, <2>2, <2>3
<1>9. ASSUME NEW k \in 1 .. n
      PROVE  /\ P[k] = P[k - 1] + 4 + Len(r.headers[k].value) /\ P[k] < HeadEnd(r)
             /\ HeaderAt(x, P[k - 1], r.headers[k])
  <2> DEFINE h == r.headers[k]
             q == Q[k - 1]
             w == lines[k]
  <2>1. k \in 0 .. n /\ k - 1 \in 0 .. n
    BY <1>1
  <2>2. q \in Nat /\ Q[k] \in Nat /\ Q[k] = q + Len(w) /\ Placed(y, q, w)
    BY <1>7, <2>1
  <2>3. w = Line(h) /\ w \in Seq(Tokens) /\ h.name \in Tokens /\ h.value \in Seq(Tokens)
    BY <1>2, <1>4
  <2>4. P[k] = e + Q[k] /\ P[k - 1] = e + q
    BY <2>1
  <2> HIDE DEF h, q, w, P
  <2>5. Len(w) = Len(h.value) + 4 /\ Len(h.value) \in Nat
    BY <2>3, LineLength
  <2>6. q + Len(w) <= Len(y)
    BY <2>2 DEF Placed
  <2>7. Placed(x, e + q, w)
    BY <1>6, <2>2, <2>3, PlacedIn
  <2>8. HeaderAt(x, e + q, h)
    <3> DEFINE m == e + q
    <3>1. m \in Nat /\ Placed(x, m, Line(h)) /\ Len(x) \in Nat
      BY <1>6, <2>2, <2>3, <2>7
    <3> HIDE DEF m
    <3>2. HeaderAt(x, m, h)
      BY <2>3, <3>1, LineAt
    <3> QED
      BY <3>2 DEF m
  <2>9. P[k] = P[k - 1] + 4 + Len(h.value) /\ P[k] < HeadEnd(r)
    <3> DEFINE l == Len(h.value)
               b == Q[k]
               m == Len(w)
               o == Len(y)
    <3>1. o \in Nat /\ HeadEnd(r) = e + o + 1 /\ e \in Nat
      BY <1>6
    <3>2. q \in Nat /\ b = q + m /\ m = l + 4 /\ l \in Nat /\ q + m <= o
      BY <2>2, <2>5, <2>6
    <3>3. P[k] = e + b /\ P[k - 1] = e + q
      BY <2>4
    <3> HIDE DEF l, b, m, o
    <3>4. P[k] = P[k - 1] + 4 + l /\ P[k] < HeadEnd(r)
      BY <3>1, <3>2, <3>3
    <3> QED
      BY <3>4 DEF l
  <2> QED
    BY <2>4, <2>8, <2>9 DEF h
<1> HIDE DEF P
<1>10. HeaderPlaces(r, P)
  BY <1>8, <1>9 DEF HeaderPlaces, n, x, e
<1> QED
  BY <1>10

\* Every argument has its place in the query.
LEMMA ArgsPlaced == ASSUME NEW r, Framed(r) PROVE \E Q : ArgPlaces(r, Q)
<1> DEFINE n == Len(r.args)
           y == Query(r.args)
           mark == [k \in 1 .. n |-> IF k = 1 THEN "?" ELSE "&"]
           parts == [k \in DOMAIN r.args |->
                        Assigned(IF k = 1 THEN "?" ELSE "&", r.args[k])]
<1>1. n \in Nat /\ DOMAIN r.args = 1 .. n
  BY FramedTypes
<1>2. \A k \in 1 .. n : r.args[k].name \in Tokens /\ r.args[k].value \in Seq(Tokens)
  BY <1>1, FramedTypes
<1>3. y = Joined(parts) /\ parts \in Seq(Seq(Tokens)) /\ Len(parts) = n
  BY QueryJoined
<1>4. \A k \in 1 .. n : mark[k] \in Tokens /\ mark[k] = IF k = 1 THEN "?" ELSE "&"
  BY DEF Tokens
<1>5. \A k \in 1 .. n : parts[k] = Assigned(mark[k], r.args[k])
  BY <1>1, <1>4
<1> HIDE DEF parts, mark
<1>6. PICK Q : Places(parts, Q)
  BY <1>3, JoinedPlaces
<1>7. y \in Seq(Tokens)
  BY <1>3, JoinedPlaces
<1>8. /\ Q \in [0 .. n -> Nat] /\ Q[0] = 0 /\ Q[n] = Len(y)
      /\ \A k \in 1 .. n : Q[k] = Q[k - 1] + Len(parts[k]) /\ Placed(y, Q[k - 1], parts[k])
  BY <1>3, <1>6 DEF Places
<1> HIDE DEF n, y
<1>9. ASSUME NEW k \in 1 .. n
      PROVE  /\ Q[k] = Q[k - 1] + 2 + Len(r.args[k].value) /\ Q[k] <= Len(y)
             /\ ArgAt(y, Q[k - 1], mark[k], r.args[k])
  <2> DEFINE arg == r.args[k]
             q == Q[k - 1]
             w == parts[k]
             m == mark[k]
  <2>1. k \in 0 .. n /\ k - 1 \in 0 .. n
    BY <1>1
  <2>2. q \in Nat /\ Q[k] \in Nat /\ Q[k] = q + Len(w) /\ Placed(y, q, w)
    BY <1>8, <2>1
  <2>3. w = Assigned(m, arg) /\ m \in Tokens /\ arg.name \in Tokens /\ arg.value \in Seq(Tokens)
    BY <1>2, <1>4, <1>5
  <2> HIDE DEF arg, q, w, m
  <2>4. Len(w) = Len(arg.value) + 2 /\ Len(arg.value) \in Nat
    BY <2>3, AssignedLength
  <2>5. q + Len(w) <= Len(y)
    BY <2>2 DEF Placed
  <2>6. ArgAt(y, q, m, arg)
    <3>1. Len(y) \in Nat
      BY <1>7
    <3> QED
      BY <2>2, <2>3, <3>1, AssignedAt
  <2>7. Q[k] = q + 2 + Len(arg.value) /\ Q[k] <= Len(y)
    <3> DEFINE l == Len(arg.value)
               b == Q[k]
               v == Len(w)
    <3>1. q \in Nat /\ b = q + v /\ v = l + 2 /\ l \in Nat /\ q + v <= Len(y)
      BY <2>2, <2>4, <2>5
    <3> HIDE DEF l, b, v
    <3>2. b = q + 2 + l /\ b <= Len(y)
      BY <3>1
    <3> QED
      BY <3>2 DEF l, b
  <2> QED
    BY <2>6, <2>7 DEF arg, q, m
<1>10. ArgPlaces(r, Q)
  BY <1>4, <1>8, <1>9 DEF ArgPlaces, n, y
<1> QED
  BY <1>10

\* Every place between two ends lies in one of the parts.
LEMMA Covered ==
    ASSUME NEW n \in Nat, NEW P \in [0 .. n -> Nat], NEW j \in Nat, P[0] < j, j <= P[n]
    PROVE  \E k \in 1 .. n : P[k - 1] < j /\ j <= P[k]
<1> DEFINE S == {k \in 0 .. n : j <= P[k]}
<1>1. n \in S /\ S \subseteq Nat /\ 0 \notin S
  OBVIOUS
<1>2. PICK k \in S : \A i \in S : k <= i
  <2> HIDE DEF S
  <2> QED
    BY <1>1, Least
<1>3. k \in 1 .. n /\ j <= P[k]
  BY <1>1
<1> DEFINE i == k - 1
<1>4. i \in 0 .. n /\ ~(k <= i)
  BY <1>3
<1> HIDE DEF i
<1>5. P[i] < j
  <2>1. i \notin S
    BY <1>2, <1>4
  <2> QED
    BY <1>4, <2>1
<1> QED
  BY <1>3, <1>5 DEF i

\* The tokens that end a line or the text; a word is not ended by a space either.
Ends == {"CRLF", "NUL"}
Delimiters == {" ", "CRLF", "NUL"}

\* No part of a request has in it what ends it.
LEMMA FramedWords ==
    ASSUME NEW r, Framed(r)
    PROVE  /\ r.method \notin Delimiters
           /\ \A i \in 1 .. Len(r.path) : r.path[i] \notin Delimiters
           /\ \A k \in 1 .. Len(r.args) :
                 /\ r.args[k].name \notin Delimiters
                 /\ \A i \in 1 .. Len(r.args[k].value) : r.args[k].value[i] \notin Delimiters
           /\ \A i \in 1 .. Len(r.version) : r.version[i] \notin Ends
           /\ \A k \in 1 .. Len(r.headers) :
                 /\ r.headers[k].name \notin Ends
                 /\ \A i \in 1 .. Len(r.headers[k].value) : r.headers[k].value[i] \notin Ends
<1>1. \A x \in Words : x \notin Delimiters
  BY DEF Words, Delimiters
<1>2. \A x \in InLine : x \notin Ends
  BY DEF InLine, Ends
<1>3. r.method \notin Delimiters
  BY <1>1 DEF Framed
<1>4. \A i \in 1 .. Len(r.path) : r.path[i] \notin Delimiters
  <2>1. r.path \in Seq(Words)
    BY DEF Framed
  <2>2. \A i \in 1 .. Len(r.path) : r.path[i] \in Words
    BY <2>1, Elements
  <2> QED
    BY <1>1, <2>2
<1>5. \A k \in 1 .. Len(r.args) :
         /\ r.args[k].name \notin Delimiters
         /\ \A i \in 1 .. Len(r.args[k].value) : r.args[k].value[i] \notin Delimiters
  <2> TAKE k \in 1 .. Len(r.args)
  <2>1. r.args \in Seq([name : Words, value : Seq(Words)])
    BY DEF Framed
  <2>2. r.args[k] \in [name : Words, value : Seq(Words)]
    BY <2>1, Elements
  <2> DEFINE v == r.args[k].value
  <2>3. r.args[k].name \in Words /\ v \in Seq(Words)
    BY <2>2
  <2> HIDE DEF v
  <2>4. \A i \in 1 .. Len(v) : v[i] \in Words
    BY <2>3, Elements
  <2> QED
    BY <1>1, <2>3, <2>4 DEF v
<1>6. \A i \in 1 .. Len(r.version) : r.version[i] \notin Ends
  <2>1. r.version \in Seq(InLine)
    BY DEF Framed
  <2>2. \A i \in 1 .. Len(r.version) : r.version[i] \in InLine
    BY <2>1, Elements
  <2> QED
    BY <1>2, <2>2
<1>7. \A k \in 1 .. Len(r.headers) :
         /\ r.headers[k].name \notin Ends
         /\ \A i \in 1 .. Len(r.headers[k].value) : r.headers[k].value[i] \notin Ends
  <2> TAKE k \in 1 .. Len(r.headers)
  <2>1. r.headers \in Seq([name : InLine, value : Seq(InLine)])
    BY DEF Framed
  <2>2. r.headers[k] \in [name : InLine, value : Seq(InLine)]
    BY <2>1, Elements
  <2> DEFINE v == r.headers[k].value
  <2>3. r.headers[k].name \in InLine /\ v \in Seq(InLine)
    BY <2>2
  <2> HIDE DEF v
  <2>4. \A i \in 1 .. Len(v) : v[i] \in InLine
    BY <2>3, Elements
  <2> QED
    BY <1>2, <2>3, <2>4 DEF v
<1> QED
  BY <1>3, <1>4, <1>5, <1>6, <1>7

\* The URI has no token in it that ends it.
LEMMA TargetWords ==
    ASSUME NEW r, Framed(r)
    PROVE  \A i \in 1 .. Len(Target(r)) : Target(r)[i] \notin Delimiters
<1> DEFINE p == r.path
           q == Query(r.args)
           t == Target(r)
           n == Len(r.args)
<1>1. PICK Q : ArgPlaces(r, Q)
  BY ArgsPlaced
<1>2. p \in Seq(Tokens) /\ q \in Seq(Tokens) /\ t = p \o q /\ n \in Nat
  BY FramedTypes, QueryJoined, JoinedPlaces DEF Target
<1>3. \A i \in 1 .. Len(p) : p[i] \notin Delimiters
  BY FramedWords
<1>4. ASSUME NEW j \in 1 .. Len(q) PROVE q[j] \notin Delimiters
  <2>1. Q \in [0 .. n -> Nat] /\ Q[0] = 0 /\ Q[n] = Len(q)
    BY <1>1 DEF ArgPlaces
  <2>2. PICK k \in 1 .. n : Q[k - 1] < j /\ j <= Q[k]
    <3>1. j \in Nat /\ Q[0] < j /\ j <= Q[n]
      BY <2>1
    <3> HIDE DEF n, q
    <3> QED
      BY <1>2, <2>1, <3>1, Covered
  <2> DEFINE arg == r.args[k]
             v == arg.value
             at == Q[k - 1]
             mark == IF k = 1 THEN "?" ELSE "&"
  <2>3. at \in Nat /\ v \in Seq(Tokens) /\ Len(v) \in Nat
    <3>1. k - 1 \in 0 .. n
      <4> HIDE DEF n
      <4> QED
        BY <1>2
    <3>2. at \in Nat
      <4> HIDE DEF n
      <4> QED
        BY <2>1, <3>1
    <3>3. v \in Seq(Tokens)
      BY FramedTypes
    <3> QED
      BY <3>2, <3>3
  <2>4. Q[k] = at + 2 + Len(v) /\ ArgAt(q, at, mark, arg)
    BY <1>1 DEF ArgPlaces
  <2>5. arg.name \notin Delimiters /\ \A i \in 1 .. Len(v) : v[i] \notin Delimiters
    BY FramedWords
  <2>6. mark \notin Delimiters
    BY DEF Delimiters
  <2> HIDE DEF v, at, mark, arg, q
  <2>7. CASE j = at + 1
    BY <2>4, <2>6, <2>7 DEF ArgAt
  <2>8. CASE j = at + 2
    BY <2>4, <2>5, <2>8 DEF ArgAt
  <2>9. CASE j > at + 2
    <3> DEFINE i == j - (at + 2)
    <3>1. i \in 1 .. Len(v) /\ (at + 2) + i = j
      BY <2>2, <2>3, <2>4, <2>9 DEF at
    <3> HIDE DEF i
    <3>2. q[(at + 2) + i] = v[i]
      BY <2>4, <3>1 DEF ArgAt, Placed, v
    <3> QED
      BY <2>5, <3>1, <3>2
  <2> QED
    BY <2>2, <2>3, <2>7, <2>8, <2>9 DEF at
<1> HIDE DEF p, q, t
<1>5. /\ Len(t) = Len(p) + Len(q) /\ Len(p) \in Nat /\ Len(q) \in Nat
      /\ \A i \in 1 .. Len(p) : t[i] = p[i]
      /\ \A i \in 1 .. Len(q) : t[Len(p) + i] = q[i]
  BY <1>2, Appended
<1>6. ASSUME NEW i \in 1 .. Len(t) PROVE t[i] \notin Delimiters
  <2>1. CASE i <= Len(p)
    BY <1>3, <1>5, <2>1
  <2>2. CASE i > Len(p)
    <3> DEFINE j == i - Len(p)
    <3>1. j \in 1 .. Len(q) /\ Len(p) + j = i
      BY <1>5, <2>2
    <3> HIDE DEF j
    <3>2. t[Len(p) + j] = q[j] /\ q[j] \notin Delimiters
      BY <1>4, <1>5, <3>1
    <3> QED
      BY <3>1, <3>2
  <2> QED
    BY <1>5, <2>1, <2>2
<1> QED
  BY <1>6 DEF t

\* A header has its line end at its end only, and no NUL.
LEMMA InHeader ==
    ASSUME NEW x, NEW at \in Nat, NEW h, h.value \in Seq(Tokens), HeaderAt(x, at, h),
           h.name \notin Ends, \A i \in 1 .. Len(h.value) : h.value[i] \notin Ends,
           NEW j \in Nat, at < j, j < at + 4 + Len(h.value)
    PROVE  x[j] \notin Ends
<1> DEFINE v == h.value
<1>1. Len(v) \in Nat
  OBVIOUS
<1>2. x[at + 1] = h.name /\ x[at + 2] = ":" /\ x[at + 3] = " " /\ Placed(x, at + 3, v)
  BY DEF HeaderAt
<1>3. ":" \notin Ends /\ " " \notin Ends
  BY DEF Ends
<1>4. \A i \in 1 .. Len(v) : x[(at + 3) + i] = v[i] /\ v[i] \notin Ends
  BY <1>2 DEF Placed
<1>5. j < at + 4 + Len(v)
  OBVIOUS
<1> HIDE DEF v
<1>6. j = at + 1 \/ j = at + 2 \/ j = at + 3 \/ j > at + 3
  OBVIOUS
<1>7. CASE j > at + 3
  <2> DEFINE i == j - (at + 3)
  <2>1. i \in 1 .. Len(v) /\ (at + 3) + i = j
    BY <1>1, <1>5, <1>7
  <2> HIDE DEF i
  <2> QED
    BY <1>4, <2>1
<1> QED
  BY <1>2, <1>3, <1>6, <1>7

\* What the header of a request has between its first token and its last: the
\* delimiters where they belong, and nowhere else.
LEMMA HeadTokens ==
    ASSUME NEW r, Framed(r), NEW P, HeaderPlaces(r, P)
    PROVE  /\ \A j \in 1 .. HeadEnd(r) : Encoded(r)[j] # "NUL"
           /\ \A j \in 1 .. LineEnd(r) - 1 : Encoded(r)[j] # "CRLF"
           /\ \A k \in 1 .. Len(r.headers) : \A j \in P[k - 1] + 1 .. P[k] - 1 :
                 Encoded(r)[j] # "CRLF"
           /\ \A k \in 0 .. Len(r.headers) : Encoded(r)[P[k]] = "CRLF"
<1> DEFINE x == Encoded(r)
           t == Target(r)
           v == r.version
           n == Len(r.headers)
           e == LineEnd(r)
           h == HeadEnd(r)
<1>1. /\ t \in Seq(Tokens) /\ v \in Seq(Tokens) /\ Len(t) \in Nat /\ Len(v) \in Nat
      /\ n \in Nat /\ e \in Nat /\ h \in Nat /\ e = 4 + Len(t) + Len(v)
  <2>1. t \in Seq(Tokens) /\ v \in Seq(Tokens) /\ n \in Nat
    BY Layout, FramedTypes
  <2>2. e \in Nat /\ h \in Nat
    BY Layout
  <2>3. e = 4 + Len(t) + Len(v)
    BY DEF LineEnd
  <2> HIDE DEF t, v, e, h, n
  <2> QED
    BY <2>1, <2>2, <2>3
<1>2. /\ x[1] = r.method /\ x[2] = " " /\ x[3 + Len(t)] = " " /\ x[e] = "CRLF"
      /\ x[h] = "CRLF" /\ Placed(x, 2, t) /\ Placed(x, 3 + Len(t), v)
  BY Layout
<1>3. ASSUME NEW j \in 1 .. e - 1 PROVE x[j] \notin Ends
  <2>1. \A y : y \notin Delimiters => y \notin Ends
    BY DEF Delimiters, Ends
  <2>2. " " \notin Ends
    BY DEF Ends
  <2>3. CASE j = 1
    BY <1>2, <2>1, <2>3, FramedWords
  <2>4. CASE j = 2 \/ j = 3 + Len(t)
    BY <1>2, <2>2, <2>4
  <2>5. CASE j > 2 /\ j < 3 + Len(t)
    <3> DEFINE i == j - 2
    <3> HIDE DEF x, t
    <3>1. i \in 1 .. Len(t) /\ 2 + i = j
      BY <1>1, <2>5
    <3> HIDE DEF i
    <3>2. x[2 + i] = t[i]
      BY <1>2, <3>1 DEF Placed
    <3>3. t[i] \notin Delimiters
      BY <3>1, TargetWords DEF t
    <3> QED
      BY <2>1, <3>1, <3>2, <3>3 DEF x
  <2>6. CASE j > 3 + Len(t)
    <3> DEFINE i == j - (3 + Len(t))
    <3> HIDE DEF x, t, v
    <3>1. i \in 1 .. Len(v) /\ (3 + Len(t)) + i = j
      BY <1>1, <2>6
    <3> HIDE DEF i
    <3>2. x[(3 + Len(t)) + i] = v[i]
      BY <1>2, <3>1 DEF Placed
    <3>3. v[i] \notin Ends
      BY <3>1, FramedWords DEF v
    <3> QED
      BY <3>1, <3>2, <3>3 DEF x
  <2> HIDE DEF x, t
  <2> QED
    BY <1>1, <2>3, <2>4, <2>5, <2>6 DEF x
<1>4. /\ P \in [0 .. n -> Nat] /\ P[0] = e /\ P[n] + 1 = h
      /\ \A k \in 1 .. n : P[k] = P[k - 1] + 4 + Len(r.headers[k].value)
      /\ \A k \in 1 .. n : HeaderAt(x, P[k - 1], r.headers[k])
  BY DEF HeaderPlaces
<1>5. ASSUME NEW k \in 1 .. n, NEW j \in P[k - 1] + 1 .. P[k] - 1 PROVE x[j] \notin Ends
  <2> DEFINE g == r.headers[k]
             a == P[k - 1]
             l == Len(g.value)
  <2>1. k - 1 \in 0 .. n /\ k \in 0 .. n /\ k \in DOMAIN r.headers
    BY <1>1, FramedTypes
  <2>2. a \in Nat /\ P[k] = a + 4 + l /\ HeaderAt(x, a, g) /\ g.value \in Seq(Tokens)
    BY <1>4, <2>1, FramedTypes
  <2>3. g.name \notin Ends /\ \A i \in 1 .. Len(g.value) : g.value[i] \notin Ends
    BY FramedWords
  <2>4. l \in Nat
    BY <2>2
  <2>5. j \in Nat /\ a < j /\ j < a + 4 + l
    <3> HIDE DEF l
    <3> QED
      BY <2>2, <2>4
  <2> HIDE DEF a, x, g
  <2>6. x[j] \notin Ends
    BY <2>2, <2>3, <2>5, InHeader DEF l
  <2> QED
    BY <2>6 DEF x
<1>6. ASSUME NEW k \in 0 .. n PROVE x[P[k]] = "CRLF"
  <2>1. CASE k = 0
    BY <1>2, <1>4, <2>1
  <2>2. CASE k \in 1 .. n
    BY <1>4, <2>2 DEF HeaderAt
  <2> QED
    BY <1>1, <2>1, <2>2
<1> HIDE DEF x, e, h, n, t, v
<1>7. ASSUME NEW j \in 1 .. h PROVE x[j] # "NUL"
  <2>1. "CRLF" # "NUL" /\ "NUL" \in Ends
    BY DEF Ends
  <2>2. CASE j < e
    <3>1. j \in 1 .. e - 1
      BY <1>1, <2>2
    <3> QED
      BY <1>3, <2>1, <3>1
  <2>3. CASE j = e \/ j = h
    BY <1>2, <2>1, <2>3
  <2>4. CASE e < j /\ j < h
    <3>1. 0 \in 0 .. n /\ n \in 0 .. n /\ P[n] \in Nat
      BY <1>1, <1>4
    <3>2. j \in Nat /\ P[0] < j /\ j <= P[n]
      BY <1>1, <1>4, <2>4, <3>1
    <3>3. PICK k \in 1 .. n : P[k - 1] < j /\ j <= P[k]
      BY <1>1, <1>4, <3>2, Covered
    <3>4. k \in 0 .. n /\ k - 1 \in 0 .. n
      BY <1>1
    <3>5. k \in 0 .. n /\ P[k] \in Nat /\ P[k - 1] \in Nat
      BY <1>4, <3>4
    <3>6. CASE j = P[k]
      BY <1>6, <2>1, <3>5, <3>6
    <3>7. CASE j < P[k]
      <4>1. j \in P[k - 1] + 1 .. P[k] - 1
        BY <3>3, <3>5, <3>7
      <4> QED
        BY <1>5, <2>1, <4>1
    <3> QED
      BY <3>3, <3>5, <3>6, <3>7
  <2> QED
    BY <1>1, <2>2, <2>3, <2>4
<1> QED
  BY <1>3, <1>5, <1>6, <1>7 DEF Ends, x, e, h, n

\* The numbers among them.
LEMMA HeadNumbers ==
    ASSUME NEW r, Framed(r)
    PROVE  /\ Encoded(r) \in Seq(Tokens)
           /\ LineEnd(r) \in Nat /\ HeadEnd(r) \in Nat
           /\ LineEnd(r) < HeadEnd(r) /\ LineEnd(r) > 0
           /\ Len(Target(r)) \in Nat /\ Len(r.version) \in Nat /\ Len(r.body) \in Nat
           /\ LineEnd(r) = 4 + Len(Target(r)) + Len(r.version)
           /\ Len(Encoded(r)) = HeadEnd(r) + Len(r.body) /\ Len(Encoded(r)) \in Nat
<1> DEFINE t == Target(r)
           v == r.version
           g == HeaderLines(r.headers)
           b == r.body
<1>1. t \in Seq(Tokens) /\ v \in Seq(Tokens) /\ g \in Seq(Tokens)
  BY Layout, FramedTypes
<1>2. b \in Seq(Tokens)
  BY FramedTypes
<1>3. LineEnd(r) = 4 + Len(t) + Len(v) /\ HeadEnd(r) = LineEnd(r) + Len(g) + 1
  BY DEF LineEnd, HeadEnd
<1>4. Encoded(r) \in Seq(Tokens) /\ Len(Encoded(r)) = HeadEnd(r) + Len(b)
  BY Layout
<1> HIDE DEF t, v, g, b
<1>5. Len(t) \in Nat /\ Len(v) \in Nat /\ Len(g) \in Nat /\ Len(b) \in Nat
  BY <1>1, <1>2
<1>6. /\ LineEnd(r) \in Nat /\ HeadEnd(r) \in Nat
      /\ LineEnd(r) < HeadEnd(r) /\ LineEnd(r) > 0
  BY <1>3, <1>5
<1>7. Len(Encoded(r)) \in Nat
  BY <1>4, <1>5, <1>6
<1> QED
  BY <1>3, <1>4, <1>5, <1>6, <1>7 DEF t, v, b

\* The empty line is the first of its kind.
LEMMA NoEarlyEnd ==
    ASSUME NEW r, Framed(r), NEW j \in 1 .. HeadEnd(r) - 2,
           Encoded(r)[j] = "CRLF", Encoded(r)[j + 1] = "CRLF"
    PROVE  FALSE
<1> DEFINE x == Encoded(r)
           n == Len(r.headers)
           e == LineEnd(r)
           h == HeadEnd(r)
<1>1. PICK P : HeaderPlaces(r, P)
  BY HeadersPlaced
<1>2. /\ P \in [0 .. n -> Nat] /\ P[0] = e /\ P[n] + 1 = h
      /\ \A k \in 1 .. n : HeaderAt(x, P[k - 1], r.headers[k])
  BY <1>1 DEF HeaderPlaces
<1>3. /\ \A i \in 1 .. e - 1 : x[i] # "CRLF"
      /\ \A k \in 1 .. n : \A i \in P[k - 1] + 1 .. P[k] - 1 : x[i] # "CRLF"
  BY <1>1, HeadTokens
<1>4. e \in Nat /\ h \in Nat
  BY Layout
<1>5. n \in Nat
  BY FramedTypes
<1>6. x[j] = "CRLF" /\ x[j + 1] = "CRLF" /\ j \in 1 .. h - 2
  OBVIOUS
<1> HIDE DEF x, n, e, h
<1>7. j >= e
  BY <1>3, <1>4, <1>6
\* It would be at the end of a line before the last, and a name follows that.
<1>8. \A k \in 1 .. n : j # P[k - 1]
  <2> SUFFICES ASSUME NEW k \in 1 .. n, j = P[k - 1] PROVE FALSE
    OBVIOUS
  <2>1. x[j + 1] = r.headers[k].name
    BY <1>2 DEF HeaderAt
  <2>2. r.headers[k].name # "CRLF"
    BY FramedWords DEF n, Ends
  <2> QED
    BY <1>6, <2>1, <2>2
<1>9. 0 \in 0 .. n /\ n \in 0 .. n
  BY <1>5
<1>10. CASE j = e
  <2>1. n > 0
    <3> SUFFICES ASSUME n = 0 PROVE FALSE
      BY <1>5
    <3> QED
      BY <1>2, <1>4, <1>6, <1>10
  <2>2. 1 \in 1 .. n /\ P[1 - 1] = P[0]
    BY <1>5, <2>1
  <2> QED
    BY <1>2, <1>8, <1>10, <2>2
<1>11. CASE j > e
  <2>1. j \in Nat /\ P[0] < j /\ j <= P[n]
    BY <1>2, <1>4, <1>6, <1>9, <1>11
  <2>2. PICK k \in 1 .. n : P[k - 1] < j /\ j <= P[k]
    BY <1>2, <1>5, <2>1, Covered
  <2>3. k \in 0 .. n /\ k - 1 \in 0 .. n
    BY <1>5
  <2>4. P[k] \in Nat /\ P[k - 1] \in Nat
    BY <1>2, <2>3
  <2>5. j = P[k]
    <3> SUFFICES ASSUME j # P[k] PROVE FALSE
      OBVIOUS
    <3>1. j \in P[k - 1] + 1 .. P[k] - 1
      BY <2>1, <2>2, <2>4
    <3> QED
      BY <1>3, <1>6, <3>1
  <2>6. k # n
    BY <1>2, <1>4, <1>6, <1>9, <2>4, <2>5
  <2> DEFINE i == k + 1
  <2>7. i \in 1 .. n /\ i - 1 = k
    BY <1>5, <2>6
  <2> HIDE DEF i
  <2> QED
    BY <1>8, <2>5, <2>7
<1> QED
  BY <1>4, <1>6, <1>7, <1>10, <1>11

-----------------------------------------------------------------------------
(* Texts that begin as a request does, and have no NUL.                     *)

Beginning(s, r) ==
    /\ s \in Seq(Tokens) /\ Len(s) <= Len(Encoded(r))
    /\ \A i \in 1 .. Len(s) : s[i] = Encoded(r)[i] /\ s[i] # "NUL"

\* The first tokens of a request are a text.
LEMMA BeginningText ==
    ASSUME NEW r, NEW s, Beginning(s, r)
    PROVE  s \in Seq(Tokens) /\ Len(s) \in Nat
<1>1. s \in Seq(Tokens)
  BY DEF Beginning
<1> QED
  BY <1>1

\* A part of a text is what is cut out at its place.
LEMMA SubSeqIs ==
    ASSUME NEW s \in Seq(Tokens), NEW n \in Nat, NEW part \in Seq(Tokens), Placed(s, n, part)
    PROVE  SubSeq(s, n + 1, n + Len(part)) = part
<1> DEFINE m == Len(part)
           b == SubSeq(s, n + 1, n + m)
<1>1. m \in Nat /\ n + m <= Len(s) /\ \A i \in 1 .. m : s[n + i] = part[i]
  BY DEF Placed
<1>2. b \in Seq(Tokens) /\ Len(b) = m /\ \A i \in 1 .. m : b[i] = s[n + i]
  <2> HIDE DEF m
  <2>1. n + 1 \in 1 .. Len(s) + 1 /\ n + m \in n .. Len(s)
    BY <1>1
  <2> QED
    BY <1>1, <2>1
<1> HIDE DEF b
<1>3. \A i \in 1 .. m : b[i] = part[i]
  BY <1>1, <1>2
<1>4. b = part
  BY <1>2, <1>3
<1> QED
  BY <1>4 DEF b

\* A part of the request that has arrived whole lies in what has arrived.
LEMMA PlacedEarly ==
    ASSUME NEW r, NEW s, Beginning(s, r), NEW n \in Nat, NEW part \in Seq(Tokens),
           Placed(Encoded(r), n, part), n + Len(part) <= Len(s)
    PROVE  Placed(s, n, part)
<1>1. Len(s) \in Nat /\ Len(part) \in Nat /\ \A i \in 1 .. Len(s) : s[i] = Encoded(r)[i]
  BY DEF Beginning
<1>2. ASSUME NEW i \in 1 .. Len(part) PROVE s[n + i] = part[i]
  <2> DEFINE j == n + i
  <2>1. j \in 1 .. Len(s) /\ Encoded(r)[j] = part[i]
    BY <1>1 DEF Placed
  <2> HIDE DEF j
  <2> QED
    BY <1>1, <2>1 DEF j
<1> QED
  BY <1>2 DEF Placed

\* As long as the header has not arrived there is no empty line.
LEMMA HeaderToCome ==
    ASSUME NEW r, Framed(r), NEW s, Beginning(s, r), Len(s) < HeadEnd(r)
    PROVE  ~HeaderReceived(s)
<1> DEFINE l == Len(s)
<1>1. s \in Seq(Tokens) /\ l \in Nat /\ HeadEnd(r) \in Nat
  BY BeginningText, HeadNumbers
<1>2. EndDelim = <<"CRLF", "CRLF">>
  BY Delims
<1>3. ASSUME NEW j \in 1 .. l, At(s, j, EndDelim) PROVE FALSE
  <2>1. j + 1 <= l /\ s[j] = "CRLF" /\ s[j + 1] = "CRLF"
    BY <1>1, <1>2, <1>3, AtTwo
  <2>2. s[j] = Encoded(r)[j] /\ s[j + 1] = Encoded(r)[j + 1]
    <3> DEFINE i == j + 1
    <3>1. i \in 1 .. l
      BY <1>1, <2>1
    <3> HIDE DEF i, l
    <3>2. s[i] = Encoded(r)[i] /\ s[j] = Encoded(r)[j]
      BY <3>1 DEF Beginning, l
    <3> QED
      BY <3>2 DEF i
  <2>3. j \in 1 .. HeadEnd(r) - 2
    BY <1>1, <2>1
  <2> QED
    BY <2>1, <2>2, <2>3, NoEarlyEnd
<1>4. Find(s, 1, EndDelim) = l + 1
  BY <1>1, <1>3, FindIs
<1> QED
  BY <1>1, <1>4 DEF HeaderReceived, Found

\* When it has, the empty line is where it should be, and so are the parts of
\* the start line.
LEMMA HeaderHere ==
    ASSUME NEW r, Framed(r), NEW s, Beginning(s, r), Len(s) >= HeadEnd(r)
    PROVE  HeaderReceived(s) /\ After(s, 1, EndDelim) = HeadEnd(r) + 1
<1> DEFINE l == Len(s)
           h == HeadEnd(r)
           e == LineEnd(r)
<1>1. s \in Seq(Tokens) /\ l \in Nat /\ h \in Nat /\ e \in Nat /\ e < h /\ e > 0
  <2>1. s \in Seq(Tokens) /\ l \in Nat
    BY BeginningText
  <2>2. h \in Nat /\ e \in Nat /\ e < h /\ e > 0
    BY HeadNumbers, Zenon
  <2> QED
    BY <2>1, <2>2
<1>2. EndDelim = <<"CRLF", "CRLF">> /\ Len(EndDelim) = 2
  BY Delims
<1>3. PICK P : HeaderPlaces(r, P)
  BY HeadersPlaced
<1>4. Encoded(r)[h] = "CRLF" /\ Encoded(r)[h - 1] = "CRLF"
  <2>1. Encoded(r)[h] = "CRLF"
    BY Layout
  <2>2. Len(r.headers) \in Nat
    BY FramedTypes
  <2>3. Len(r.headers) \in 0 .. Len(r.headers)
    BY <2>2
  <2>4. Encoded(r)[P[Len(r.headers)]] = "CRLF"
    BY <1>3, <2>3, HeadTokens
  <2>5. P[Len(r.headers)] + 1 = h /\ P[Len(r.headers)] \in Nat
    BY <1>3, <2>3 DEF HeaderPlaces
  <2>6. P[Len(r.headers)] = h - 1
    <3> HIDE DEF h
    <3> QED
      BY <1>1, <2>5
  <2> QED
    BY <2>1, <2>4, <2>6
<1>5. \A i \in 1 .. l : s[i] = Encoded(r)[i]
  BY DEF Beginning
<1>6. l >= h
  OBVIOUS
<1> DEFINE k == h - 1
<1> HIDE DEF h, e, l
<1>7. k \in 1 .. l + 1 /\ k \in Nat /\ k + 1 = h /\ k <= l /\ k \in 1 .. l /\ h \in 1 .. l
  BY <1>1, <1>6
<1> HIDE DEF k
<1>8. s[k] = "CRLF" /\ s[k + 1] = "CRLF"
  BY <1>4, <1>5, <1>7 DEF k
<1>9. At(s, k, EndDelim)
  BY <1>1, <1>2, <1>7, <1>8, <1>6, AtTwo DEF l
<1>10. ASSUME NEW j \in 1 .. l, At(s, j, EndDelim) PROVE k <= j
  <2> SUFFICES ASSUME j < k PROVE FALSE
    BY <1>7
  <2>1. s[j] = "CRLF" /\ s[j + 1] = "CRLF"
    BY <1>1, <1>2, <1>10, AtTwo
  <2> DEFINE i == j + 1
  <2>2. i \in 1 .. l /\ j \in 1 .. h - 2
    BY <1>1, <1>7
  <2>3. s[i] = Encoded(r)[i] /\ s[j] = Encoded(r)[j]
    <3> HIDE DEF i
    <3> QED
      BY <1>5, <2>2
  <2> QED
    BY <2>1, <2>2, <2>3, NoEarlyEnd DEF h
<1>11. Find(s, 1, EndDelim) = k
  <2>1. /\ 1 \in 1 .. Len(s) + 1 /\ k \in 1 .. Len(s) + 1
        /\ k <= Len(s) => At(s, k, EndDelim)
        /\ \A j \in 1 .. Len(s) : At(s, j, EndDelim) => k <= j
    BY <1>1, <1>7, <1>9, <1>10 DEF l
  <2> QED
    BY <1>1, <2>1, FindIs
<1> QED
  BY <1>1, <1>2, <1>7, <1>11 DEF HeaderReceived, Found, After, h, l

\* The first token of a kind is where Find stops.
LEMMA FindOne ==
    ASSUME NEW s \in Seq(Tokens), NEW from \in Nat, from > 0, NEW k \in Nat, from <= k,
           k <= Len(s), NEW a, s[k] = a, \A j \in from .. k - 1 : s[j] # a
    PROVE  Find(s, from, <<a>>) = k /\ Found(s, from, <<a>>) /\ After(s, from, <<a>>) = k + 1
<1> DEFINE l == Len(s)
<1>1. l \in Nat /\ k <= l
  OBVIOUS
<1>2. At(s, k, <<a>>)
  BY AtOne
<1>3. ASSUME NEW j \in from .. l, At(s, j, <<a>>) PROVE k <= j
  <2>1. j \in Nat /\ s[j] = a
    BY <1>3, AtOne
  <2> QED
    BY <2>1
<1>4. from \in 1 .. l + 1 /\ k \in from .. l + 1
  BY <1>1
<1>5. Find(s, from, <<a>>) = k
  BY <1>2, <1>3, <1>4, FindIs
<1>6. Len(<<a>>) = 1
  OBVIOUS
<1> QED
  BY <1>1, <1>5, <1>6 DEF Found, After

\* With the header, the start line is taken apart as it was put together.
LEMMA StartLineHere ==
    ASSUME NEW r, Framed(r), NEW s, Beginning(s, r), Len(s) >= HeadEnd(r)
    PROVE  /\ StartLine(s).uri = 3 /\ StartLine(s).version = 4 + Len(Target(r))
           /\ StartLine(s).next = LineEnd(r) + 1
           /\ WellStarted(s) <=> KnownVersion(r.version)
           /\ Token(s, 1, <<" ">>) = <<r.method>>
<1> DEFINE x == Encoded(r)
           t == Target(r)
           v == r.version
           u == Len(t)
           w == Len(v)
           l == Len(s)
           e == LineEnd(r)
           h == HeadEnd(r)
<1>1. s \in Seq(Tokens) /\ l \in Nat
  BY BeginningText
<1>2. e \in Nat /\ h \in Nat /\ u \in Nat /\ w \in Nat /\ e = 4 + u + w /\ e < h
  BY HeadNumbers
<1>3. l >= h
  OBVIOUS
<1>4. \A i \in 1 .. l : s[i] = x[i]
  BY DEF Beginning
<1>5. /\ x[1] = r.method /\ x[2] = " " /\ x[3 + u] = " " /\ x[e] = "CRLF"
      /\ Placed(x, 2, t) /\ Placed(x, 3 + u, v)
  BY Layout
<1>6. r.method # " " /\ r.method \in Tokens
  BY FramedWords, FramedTypes DEF Delimiters
<1>7. \A i \in 1 .. u : x[2 + i] # " "
  <2> TAKE i \in 1 .. u
  <2>1. x[2 + i] = t[i]
    BY <1>5 DEF Placed
  <2> QED
    BY <2>1, TargetWords DEF Delimiters
<1>8. \A i \in 1 .. e - 1 : x[i] # "CRLF"
  <2>1. PICK P : HeaderPlaces(r, P)
    BY HeadersPlaced
  <2> QED
    BY <2>1, HeadTokens
<1>9. v \in Seq(Tokens)
  BY FramedTypes
<1> HIDE DEF x, t, v, u, w, l, e, h
<1>10. 1 \in 1 .. l /\ 2 \in 1 .. l /\ 3 + u \in 1 .. l /\ e \in 1 .. l
  BY <1>1, <1>2, <1>3
<1>11. s[1] = r.method /\ s[2] = " " /\ s[3 + u] = " " /\ s[e] = "CRLF"
  BY <1>4, <1>5, <1>10
<1>12. /\ s[2] = " " /\ s[3 + u] = " " /\ s[e] = "CRLF" /\ s[1] # " "
  BY <1>6, <1>11
<1>13. Find(s, 1, <<" ">>) = 2 /\ Found(s, 1, <<" ">>) /\ After(s, 1, <<" ">>) = 2 + 1
  <2>1. \A j \in 1 .. 2 - 1 : j = 1
    OBVIOUS
  <2>2. \A j \in 1 .. 2 - 1 : s[j] # " "
    BY <1>12, <2>1
  <2>3. 1 \in Nat /\ 1 > 0 /\ 2 \in Nat /\ 1 <= 2 /\ 2 <= Len(s)
    BY <1>10 DEF l
  <2> QED
    <3> DEFINE a == 1
               k == 2
               d == " "
    <3>1. a \in Nat /\ a > 0 /\ k \in Nat /\ a <= k /\ k <= Len(s)
      BY <2>3
    <3>2. s[k] = d /\ \A j \in a .. k - 1 : s[j] # d
      BY <1>12, <2>2
    <3> HIDE DEF a, k, d
    <3>3. Find(s, a, <<d>>) = k /\ Found(s, a, <<d>>) /\ After(s, a, <<d>>) = k + 1
      BY <1>1, <3>1, <3>2, FindOne
    <3> QED
      BY <3>3 DEF a, k, d
<1>14. /\ Found(s, 3, <<" ">>) /\ After(s, 3, <<" ">>) = (3 + u) + 1
  <2>1. ASSUME NEW j \in 3 .. (3 + u) - 1 PROVE s[j] # " "
    <3> DEFINE i == j - 2
    <3>1. i \in 1 .. u /\ 2 + i = j /\ j \in 1 .. l
      BY <1>1, <1>2, <1>10
    <3> HIDE DEF i
    <3> QED
      BY <1>4, <1>7, <3>1
  <2> DEFINE k == 3 + u
  <2>2. 3 \in Nat /\ 3 > 0 /\ k \in Nat /\ 3 <= k /\ k <= Len(s)
    BY <1>2, <1>10 DEF l
  <2>3. s[k] = " "
    BY <1>12
  <2>4. \A j \in 3 .. k - 1 : s[j] # " "
    BY <2>1
  <2> HIDE DEF k
  <2>5. Found(s, 3, <<" ">>) /\ After(s, 3, <<" ">>) = k + 1
    <3> DEFINE d == " "
               a == 3
    <3>1. s[k] = d /\ \A j \in a .. k - 1 : s[j] # d
      BY <2>3, <2>4
    <3>2. a \in Nat /\ a > 0 /\ a <= k
      BY <2>2
    <3> HIDE DEF d, a
    <3>3. Found(s, a, <<d>>) /\ After(s, a, <<d>>) = k + 1
      BY <1>1, <2>2, <3>1, <3>2, FindOne
    <3> QED
      BY <3>3 DEF d, a
  <2> QED
    BY <2>5 DEF k
<1>15. /\ Found(s, 4 + u, LineDelim) /\ Find(s, 4 + u, LineDelim) = e
       /\ After(s, 4 + u, LineDelim) = e + 1
  <2> DEFINE k == 4 + u
  <2>1. k \in Nat /\ k > 0 /\ k <= e
    BY <1>2
  <2>2. ASSUME NEW j \in k .. e - 1 PROVE s[j] # "CRLF"
    <3>1. j \in 1 .. e - 1 /\ j \in 1 .. l
      BY <1>1, <1>2, <1>10, <2>1
    <3> QED
      BY <1>4, <1>8, <3>1
  <2>3. LineDelim = <<"CRLF">>
    BY Delims
  <2>4. e <= Len(s)
    BY <1>10 DEF l
  <2> HIDE DEF k
  <2>5. /\ Found(s, k, <<"CRLF">>) /\ Find(s, k, <<"CRLF">>) = e
        /\ After(s, k, <<"CRLF">>) = e + 1
    <3> DEFINE d == "CRLF"
    <3>1. s[e] = d /\ \A j \in k .. e - 1 : s[j] # d
      BY <1>12, <2>2
    <3> HIDE DEF d
    <3>2. /\ Found(s, k, <<d>>) /\ Find(s, k, <<d>>) = e /\ After(s, k, <<d>>) = e + 1
      BY <1>1, <1>2, <2>1, <2>4, <3>1, FindOne
    <3> QED
      BY <3>2 DEF d
  <2> QED
    BY <2>3, <2>5 DEF k
<1>16. 2 + 1 = 3 /\ (3 + u) + 1 = 4 + u
  BY <1>2
<1>17. StartLine(s).uri = 3 /\ StartLine(s).version = 4 + u /\ StartLine(s).next = e + 1
  <2>1. StartLine(s).uri = 3
    BY <1>13, <1>16 DEF StartLine
  <2>2. StartLine(s).version = 4 + u
    BY <1>13, <1>14, <1>16 DEF StartLine
  <2>3. StartLine(s).next = e + 1
    BY <1>13, <1>14, <1>15, <1>16 DEF StartLine
  <2> QED
    BY <2>1, <2>2, <2>3
<1>18. Token(s, 4 + u, LineDelim) = v
  <2>1. Token(s, 4 + u, LineDelim) = SubSeq(s, 4 + u, e - 1)
    BY <1>15 DEF Token
  <2> DEFINE n == 3 + u
  <2>2. n \in Nat /\ n + 1 = 4 + u /\ n + w = e - 1 /\ n + w <= l
    BY <1>1, <1>2, <1>3
  <2>3. Placed(x, n, v)
    BY <1>5
  <2> HIDE DEF n
  <2>4. Placed(s, n, v)
    BY <1>9, <2>2, <2>3, PlacedEarly DEF x, l, w
  <2>5. SubSeq(s, n + 1, n + w) = v
    BY <1>1, <1>9, <2>2, <2>4, SubSeqIs DEF w
  <2> QED
    BY <2>1, <2>2, <2>5
<1>19. WellStarted(s) <=> KnownVersion(v)
  BY <1>13, <1>14, <1>15, <1>17, <1>18 DEF WellStarted
<1>20. Token(s, 1, <<" ">>) = <<r.method>>
  <2>1. Token(s, 1, <<" ">>) = SubSeq(s, 1, 2 - 1)
    BY <1>13 DEF Token
  <2> DEFINE b == SubSeq(s, 1, 2 - 1)
             c == <<r.method>>
  <2>2. b \in Seq(Tokens) /\ Len(b) = 1 /\ b[1] = s[1]
    BY <1>1, <1>10 DEF l
  <2>3. c \in Seq(Tokens) /\ Len(c) = 1 /\ c[1] = r.method
    BY <1>6, TupleOne
  <2> HIDE DEF b, c
  <2>4. \A i \in 1 .. 1 : b[i] = c[i]
    <3>1. b[1] = c[1]
      BY <1>11, <2>2, <2>3
    <3> QED
      BY <3>1
  <2>5. b = c
    BY <2>2, <2>3, <2>4
  <2> QED
    BY <2>1, <2>5 DEF b, c
<1> QED
  BY <1>17, <1>19, <1>20 DEF t, v, u, e

-----------------------------------------------------------------------------
(* The headers, taken apart.                                                *)

\* http_parse_headers at each place of the text, by what it makes of the rest.
Header(s, from, i) ==
    IF ~Found(s, i, KeyDelim) \/ Token(s, i, KeyDelim) = <<>> THEN <<>>
    ELSE LET v == After(s, i, KeyDelim) IN
         IF ~Found(s, v, LineDelim) THEN <<Unended>>
         ELSE <<[key |-> Token(s, i, KeyDelim), value |-> Token(s, v, LineDelim)]>>
              \o from[After(s, v, LineDelim)]

HeadersFrom(s, start) ==
    CHOOSE from : from = [i \in start .. Len(s) + 1 |-> Header(s, from, i)]

\* http_parse_headers is the function its recursion defines.
LEMMA HeadersAreFrom == \A s, start : Headers(s, start) = HeadersFrom(s, start)[start]
BY DEF Headers, HeadersFrom, Header

\* It depends on what lies behind.
LEMMA NextSame ==
    ASSUME NEW s \in Seq(Tokens), NEW i \in 1 .. Len(s) + 1, NEW f, NEW g,
           \A j \in i + 1 .. Len(s) + 1 : f[j] = g[j]
    PROVE  Header(s, f, i) = Header(s, g, i)
<1> DEFINE l == Len(s)
           k == Find(s, i, KeyDelim)
           v == After(s, i, KeyDelim)
           m == Find(s, v, LineDelim)
           a == After(s, v, LineDelim)
<1>1. l \in Nat
  OBVIOUS
<1>2. Len(KeyDelim) = 2 /\ Len(LineDelim) = 1
  BY Delims
<1>3. k \in i .. l + 1 /\ (k <= l => At(s, k, KeyDelim))
  BY FindFacts
<1>4. CASE ~Found(s, i, KeyDelim)
  BY <1>4 DEF Header
<1>5. CASE Found(s, i, KeyDelim)
  <2>1. k <= l /\ v = k + 2
    BY <1>2, <1>5 DEF Found, After
  <2>2. k + 2 - 1 <= l
    BY <1>2, <1>3, <2>1 DEF At
  <2>3. v \in 1 .. l + 1 /\ v > i
    <3> HIDE DEF k, v, l
    <3> QED
      BY <1>1, <1>3, <2>1, <2>2 DEF l
  <2>4. m \in v .. l + 1
    <3> HIDE DEF v, k
    <3> QED
      BY <2>3, FindFacts
  <2>5. CASE ~Found(s, v, LineDelim)
    BY <2>5 DEF Header
  <2>6. CASE Found(s, v, LineDelim)
    <3>1. m <= l /\ a = m + 1
      BY <1>2, <2>6 DEF Found, After
    <3>2. a \in i + 1 .. l + 1
      <4> HIDE DEF k, v, m, a, l
      <4> QED
        BY <1>1, <2>3, <2>4, <3>1 DEF l
    <3>3. f[a] = g[a]
      <4> HIDE DEF k, v, m, a
      <4> QED
        BY <3>2
    <3> QED
      BY <3>3 DEF Header
  <2> QED
    BY <2>5, <2>6
<1> QED
  BY <1>4, <1>5

\* That recursion has a solution: it goes forward in the text.
LEMMA HeadersExist ==
    ASSUME NEW s \in Seq(Tokens), NEW start \in 1 .. Len(s) + 1
    PROVE  \E from : from = [i \in start .. Len(s) + 1 |-> Header(s, from, i)]
<1> DEFINE b == Len(s) + 1
           Is(f, a) == f = [i \in a .. b |-> Header(s, f, i)]
           S == {m \in Nat : m <= b => \E f : Is(f, b + 1 - m)}
<1>1. b \in Nat
  OBVIOUS
<1>2. 0 \in S
  <2> DEFINE f == [i \in b + 1 .. b |-> <<>>]
             g == [i \in b + 1 .. b |-> Header(s, f, i)]
  <2>1. b + 1 .. b = {}
    BY <1>1
  <2>2. f = g
    BY <2>1
  <2>3. Is(f, b + 1)
    BY <2>2
  <2>4. b + 1 - 0 = b + 1
    BY <1>1
  <2> HIDE DEF f, Is, b
  <2> QED
    BY <2>3, <2>4
<1>3. ASSUME NEW m \in Nat, m \in S PROVE m + 1 \in S
  <2> SUFFICES ASSUME m + 1 <= b PROVE \E f : Is(f, b + 1 - (m + 1))
    OBVIOUS
  <2> DEFINE a == b - m
  <2> HIDE DEF b
  <2>1. a \in 1 .. b /\ b + 1 - m = a + 1 /\ b + 1 - (m + 1) = a
    BY <1>1
  <2>2. PICK f : Is(f, a + 1)
    <3>1. \E f : Is(f, b + 1 - m)
      BY <1>1, <1>3
    <3> HIDE DEF Is
    <3> QED
      BY <2>1, <3>1
  <2> HIDE DEF a
  <2> DEFINE g == [i \in a .. b |-> IF i = a THEN Header(s, f, a) ELSE f[i]]
             h == [i \in a .. b |-> Header(s, g, i)]
  <2>3. \A j \in a + 1 .. b : f[j] = g[j]
    BY <1>1, <2>1
  <2>4. ASSUME NEW i \in a .. b PROVE g[i] = h[i]
    <3>1. \A j \in i + 1 .. Len(s) + 1 : f[j] = g[j]
      <4> HIDE DEF g
      <4> QED
        BY <1>1, <2>1, <2>3 DEF b
    <3>2. i \in 1 .. Len(s) + 1
      BY <1>1, <2>1 DEF b
    <3>3. Header(s, f, i) = Header(s, g, i)
      <4> HIDE DEF g
      <4> QED
        BY <3>1, <3>2, NextSame
    <3>4. CASE i = a
      BY <3>3, <3>4
    <3>5. CASE i # a
      <4>1. i \in a + 1 .. b
        BY <1>1, <2>1, <3>5
      <4>2. f[i] = Header(s, f, i)
        BY <2>2, <4>1
      <4> QED
        BY <3>3, <3>5, <4>2
    <3> QED
      BY <3>4, <3>5
  <2>5. g = h
    BY <2>4
  <2>6. Is(g, a)
    BY <2>5
  <2> HIDE DEF g, Is
  <2> QED
    BY <2>1, <2>6
<1>4. Nat \subseteq S
  <2> HIDE DEF S
  <2> QED
    BY <1>2, <1>3, SetInduction
<1> DEFINE n == b + 1 - start
<1>5. n \in Nat /\ n <= b /\ b + 1 - n = start
  BY <1>1
<1>6. n \in S
  <2> HIDE DEF S, n
  <2> QED
    BY <1>4, <1>5
<1>7. \E f : Is(f, start)
  <2> HIDE DEF Is, n, b
  <2> QED
    BY <1>5, <1>6
<1> QED
  BY <1>7

\* One header more.
LEMMA HeadersStep ==
    ASSUME NEW s \in Seq(Tokens), NEW start \in 1 .. Len(s) + 1
    PROVE  \A i \in start .. Len(s) + 1 :
              HeadersFrom(s, start)[i] = Header(s, HeadersFrom(s, start), i)
<1> DEFINE Is(from) == from = [i \in start .. Len(s) + 1 |-> Header(s, from, i)]
           f == HeadersFrom(s, start)
<1>1. \E from : Is(from)
  BY HeadersExist
<1>2. f = CHOOSE from : Is(from)
  BY DEF HeadersFrom
<1>3. Is(f)
  <2> HIDE DEF Is, f
  <2> QED
    BY <1>1, <1>2
<1> HIDE DEF f
<1>4. f = [i \in start .. Len(s) + 1 |-> Header(s, f, i)]
  BY <1>3
<1>5. \A i \in start .. Len(s) + 1 : f[i] = Header(s, f, i)
  <2> TAKE i \in start .. Len(s) + 1
  <2> DEFINE y == Header(s, f, i)
  <2> QED
    BY <1>4
<1> QED
  BY <1>5 DEF f

\* A text of one token, cut out.
LEMMA OneToken ==
    ASSUME NEW s \in Seq(Tokens), NEW i \in 1 .. Len(s)
    PROVE  SubSeq(s, i, i) = <<s[i]>>
<1> DEFINE b == SubSeq(s, i, i)
           c == <<s[i]>>
<1>1. s[i] \in Tokens /\ i \in Nat /\ Len(s) \in Nat
  OBVIOUS
<1>2. b \in Seq(Tokens) /\ Len(b) = 1 /\ b[1] = s[i]
  OBVIOUS
<1>3. c \in Seq(Tokens) /\ Len(c) = 1 /\ c[1] = s[i]
  BY <1>1, TupleOne
<1> HIDE DEF b, c
<1>4. \A j \in 1 .. 1 : b[j] = c[j]
  <2>1. b[1] = c[1]
    BY <1>2, <1>3
  <2> QED
    BY <2>1
<1>5. b = c
  BY <1>2, <1>3, <1>4
<1> QED
  BY <1>5 DEF b, c

\* One header is found, its name and its value.
LEMMA HeaderFound ==
    ASSUME NEW r, Framed(r), NEW P, HeaderPlaces(r, P), NEW s, Beginning(s, r),
           Len(s) >= HeadEnd(r), NEW k \in 1 .. Len(r.headers), NEW at, at = P[k - 1]
    PROVE  /\ at \in Nat /\ P[k] \in Nat /\ at < P[k] /\ P[k] < Len(s)
           /\ Found(s, at + 1, KeyDelim)
           /\ Token(s, at + 1, KeyDelim) = <<r.headers[k].name>>
           /\ After(s, at + 1, KeyDelim) = at + 4
           /\ Found(s, at + 4, LineDelim)
           /\ Token(s, at + 4, LineDelim) = r.headers[k].value
           /\ After(s, at + 4, LineDelim) = P[k] + 1
<1> DEFINE x == Encoded(r)
           n == Len(r.headers)
           h == HeadEnd(r)
           l == Len(s)
           name == r.headers[k].name
           v == r.headers[k].value
           w == Len(v)
           p == P[k]
<1>1. s \in Seq(Tokens) /\ l \in Nat
  BY BeginningText
<1>2. h \in Nat
  BY HeadNumbers
<1>3. n \in Nat
  BY FramedTypes
<1>4. P \in [0 .. n -> Nat] /\ p = at + 4 + w /\ p < h /\ HeaderAt(x, at, r.headers[k])
  BY DEF HeaderPlaces
<1>5. p = at + 4 + w /\ p < h
  BY <1>4
<1>6. k \in 1 .. n
  OBVIOUS
<1>7. v \in Seq(Tokens) /\ name \in Tokens /\ name # "CRLF"
  BY FramedTypes, FramedWords DEF Ends
<1>8. w \in Nat
  BY <1>7
<1>9. at \in Nat /\ p \in Nat
  <2>1. k - 1 \in 0 .. n /\ k \in 0 .. n
    <3> HIDE DEF n
    <3> QED
      BY <1>3, <1>6
  <2> HIDE DEF n
  <2> QED
    BY <1>4, <2>1
<1>10. l >= h
  OBVIOUS
<1>11. /\ x[at + 1] = name /\ x[at + 2] = ":" /\ x[at + 3] = " "
      /\ Placed(x, at + 3, v)
  BY <1>4 DEF HeaderAt
<1>12. \A i \in 1 .. l : s[i] = x[i]
  BY DEF Beginning
<1>13. x[p] = "CRLF" /\ \A j \in at + 1 .. p - 1 : x[j] # "CRLF"
  <2>1. k \in 0 .. Len(r.headers)
    BY <1>3 DEF n
  <2> QED
    BY <2>1, HeadTokens
<1>14. KeyDelim = <<":", " ">> /\ Len(KeyDelim) = 2 /\ LineDelim = <<"CRLF">>
  BY Delims
<1> HIDE DEF x, n, h, l, name, v, w, p
<1>15. l \in Nat
  BY <1>1
<1>16. /\ at + 1 \in 1 .. l /\ at + 2 \in 1 .. l /\ at + 3 \in 1 .. l /\ p \in 1 .. l
       /\ at + 4 \in 1 .. l /\ at + 4 <= p /\ at < p /\ p < l
  BY ONLY <1>15, <1>2, <1>5, <1>8, <1>9, <1>10
<1>17. at + 4 <= p /\ p < l /\ p = at + 4 + w
  BY <1>16, <1>5
<1>18. s[at + 1] = name /\ s[at + 2] = ":" /\ s[at + 3] = " " /\ s[p] = "CRLF"
  BY <1>11, <1>12, <1>13, <1>16
<1>19. Find(s, at + 1, KeyDelim) = at + 2
  <2> DEFINE a == at + 1
             b == at + 2
  <2>1. b + 1 = at + 3 /\ a + 1 = b /\ a \in Nat /\ b \in Nat
    BY <1>9
  <2>2. a \in 1 .. l + 1 /\ b \in a .. l + 1 /\ b + 1 <= l
    BY ONLY <1>15, <1>9, <1>17
  <2>3. s[b] = ":" /\ s[b + 1] = " "
    BY <1>18, <2>1
  <2> HIDE DEF a, b
  <2>4. At(s, b, KeyDelim)
    BY <1>1, <1>14, <2>1, <2>2, <2>3, AtTwo DEF l
  <2>5. ASSUME NEW j \in a .. l, At(s, j, KeyDelim) PROVE b <= j
    <3>1. j \in Nat /\ a <= j
      BY <2>1, <2>2, <2>5, <1>15
    <3>2. s[j + 1] = " "
      <4> DEFINE c1 == ":"
                 c2 == " "
      <4>1. KeyDelim = <<c1, c2>>
        BY <1>14
      <4>2. At(s, j, <<c1, c2>>)
        BY <2>5, <4>1
      <4> HIDE DEF c1, c2
      <4>3. s[j + 1] = c2
        BY <1>1, <3>1, <4>2, AtTwo
      <4> QED
        BY <4>3 DEF c2
    <3>3. j # a
      BY <2>1, <2>3, <3>2
    <3> QED
      BY <2>1, <3>1, <3>3
  <2>6. Find(s, a, KeyDelim) = b
    BY <1>1, <2>2, <2>4, <2>5, FindIs DEF l
  <2> QED
    BY <2>6 DEF a, b
<1>20. Found(s, at + 1, KeyDelim)
  BY <1>1, <1>16, <1>19 DEF Found, l
<1>21. After(s, at + 1, KeyDelim) = at + 4
  <2>1. After(s, at + 1, KeyDelim) = Find(s, at + 1, KeyDelim) + Len(KeyDelim)
    BY DEF After
  <2>2. Len(KeyDelim) = 2
    BY <1>14
  <2> QED
    BY <1>9, <1>19, <2>1, <2>2
<1>22. Token(s, at + 1, KeyDelim) = <<name>>
  <2> DEFINE a == at + 1
  <2>1. a \in 1 .. l /\ (at + 2) - 1 = a
    BY <1>9, <1>16
  <2>2. Token(s, a, KeyDelim) = SubSeq(s, a, a)
    BY <1>19, <2>1 DEF Token
  <2>3. s[a] = name
    BY <1>18
  <2> HIDE DEF a
  <2>4. Token(s, a, KeyDelim) = <<name>>
    BY <1>1, <2>1, <2>2, <2>3, OneToken DEF l
  <2> QED
    BY <2>4 DEF a
<1>23. /\ Find(s, at + 4, LineDelim) = p /\ Found(s, at + 4, LineDelim)
       /\ After(s, at + 4, LineDelim) = p + 1
  <2> DEFINE a == at + 4
             d == "CRLF"
  <2>1. a \in Nat /\ a > 0 /\ a <= p /\ p <= l
    BY ONLY <1>9, <1>17, <1>15
  <2>2. ASSUME NEW j \in a .. p - 1 PROVE s[j] # d
    <3>1. j \in at + 1 .. p - 1 /\ j \in 1 .. l
      BY ONLY <1>15, <1>9, <1>17, <2>2
    <3> QED
      BY <1>12, <1>13, <3>1
  <2>3. s[p] = d
    BY <1>18
  <2> HIDE DEF a, d
  <2>4. Find(s, a, <<d>>) = p /\ Found(s, a, <<d>>) /\ After(s, a, <<d>>) = p + 1
    BY <1>1, <1>9, <2>1, <2>2, <2>3, FindOne DEF l
  <2> QED
    BY <1>14, <2>4 DEF a, d
<1>24. Token(s, at + 4, LineDelim) = v
  <2> DEFINE m == at + 3
  <2>1. m \in Nat /\ m + 1 = at + 4 /\ m + w = p - 1 /\ m + w <= l
    BY ONLY <1>15, <1>17, <1>8, <1>9
  <2>2. Placed(x, m, v)
    BY <1>11
  <2>3. Token(s, at + 4, LineDelim) = SubSeq(s, at + 4, p - 1)
    BY <1>23 DEF Token
  <2> HIDE DEF m
  <2>4. Placed(s, m, v)
    BY <1>7, <2>1, <2>2, PlacedEarly DEF x, l, w
  <2>5. SubSeq(s, m + 1, m + w) = v
    BY <1>1, <1>7, <2>1, <2>4, SubSeqIs DEF w
  <2> QED
    BY <2>1, <2>3, <2>5
<1> QED
  BY <1>9, <1>16, <1>20, <1>21, <1>22, <1>23, <1>24 DEF name, v, p, l

\* Behind the header no other is found.
LEMMA NoHeaderBehind ==
    ASSUME NEW r, Framed(r), NEW s, Beginning(s, r), Len(s) >= HeadEnd(r)
    PROVE  ~Found(s, HeadEnd(r), KeyDelim)
<1> DEFINE x == Encoded(r)
           h == HeadEnd(r)
           l == Len(s)
           b == r.body
           o == Len(b)
<1>1. s \in Seq(Tokens) /\ l \in Nat
  BY BeginningText
<1>2. h \in Nat /\ o \in Nat /\ Len(x) = h + o /\ h > 0
  <2>1. LineEnd(r) \in Nat /\ h \in Nat /\ LineEnd(r) < h /\ o \in Nat /\ Len(x) = h + o
    BY HeadNumbers
  <2> HIDE DEF h, o, x
  <2> QED
    BY <2>1
<1>3. x[h] = "CRLF" /\ Placed(x, h, b)
  BY Layout
<1>4. \A i \in 1 .. l : s[i] = x[i] /\ s[i] # "NUL"
  BY DEF Beginning
<1>5. l <= Len(x) /\ l >= h
  BY DEF Beginning
<1>6. KeyDelim = <<":", " ">> /\ Len(KeyDelim) = 2
  BY Delims
<1>7. \A i \in Hits(b, 1, KeyDelim) : \E j \in 1 .. i : b[j] = "NUL"
  BY DEF Framed
<1>8. b \in Seq(Tokens)
  BY FramedTypes
<1> HIDE DEF h, l, o
<1>9. \A i \in 1 .. o : x[h + i] = b[i]
  BY <1>3 DEF Placed, o
<1> HIDE DEF x, b
<1>10. ASSUME NEW j \in h .. l, At(s, j, KeyDelim) PROVE FALSE
  <2>1. j \in Nat /\ j \in 1 .. l /\ j >= h /\ j <= l
    BY <1>1, <1>2, <1>10
  <2>2. j + 1 <= l /\ s[j] = ":" /\ s[j + 1] = " "
    BY <1>1, <1>6, <1>10, <2>1, AtTwo DEF l
  <2>3. j # h
    BY <1>3, <1>4, <2>1, <2>2
  <2> DEFINE i == j - h
             m == j + 1
             q == i + 1
  <2>4. j + 1 <= l
    BY <2>2
  <2>5. l <= h + o /\ h \in Nat /\ o \in Nat /\ l \in Nat
    BY <1>1, <1>2, <1>5
  <2>6. i \in 1 .. o /\ q \in 1 .. o /\ h + i = j /\ h + q = m /\ m \in 1 .. l /\ i \in Nat
    BY ONLY <2>4, <2>5, <2>1, <2>3
  <2>7. s[m] = " "
    BY <2>2
  <2> HIDE DEF i, m, q
  <2>8. b[i] = ":" /\ b[q] = " "
    BY <1>4, <1>9, <2>1, <2>2, <2>6, <2>7
  <2>9. At(b, i, KeyDelim)
    <3>1. q <= o /\ q = i + 1
      BY <2>5, <2>6 DEF q
    <3>2. i + 1 <= Len(b) /\ b[i + 1] = " "
      BY <2>8, <3>1 DEF o
    <3> QED
      BY <1>6, <1>8, <2>6, <2>8, <3>2, AtTwo
  <2>10. i \in Hits(b, 1, KeyDelim)
    BY <2>6, <2>9 DEF Hits, o
  <2>11. PICK y \in 1 .. i : b[y] = "NUL"
    BY <1>7, <2>10
  <2> DEFINE z == h + y
  <2>12. y \in 1 .. o /\ z \in 1 .. l
    BY <1>1, <1>2, <2>1, <2>6
  <2>13. x[z] = b[y]
    BY <1>9, <2>12
  <2> HIDE DEF z
  <2> QED
    BY <1>4, <2>11, <2>12, <2>13
<1>11. Find(s, h, KeyDelim) = l + 1
  <2>1. h \in 1 .. l + 1 /\ l + 1 \in h .. l + 1
    BY <1>1, <1>2, <1>5
  <2>2. \A j \in h .. l : At(s, j, KeyDelim) => l + 1 <= j
    BY <1>10
  <2>3. l + 1 <= l => At(s, l + 1, KeyDelim)
    BY <1>1
  <2> DEFINE k == l + 1
  <2>4. k \in h .. l + 1 /\ (k <= l => At(s, k, KeyDelim)) /\ \A j \in h .. l : At(s, j, KeyDelim) => k <= j
    BY <2>1, <2>2, <2>3
  <2> HIDE DEF k
  <2>5. Find(s, h, KeyDelim) = k
    BY <1>1, <2>1, <2>4, FindIs DEF l
  <2> QED
    BY <2>5 DEF k
<1> QED
  BY <1>1, <1>11 DEF Found, h, l

\* What grows at every step is at least what it was at the start.
LEMMA Rising ==
    ASSUME NEW n \in Nat, NEW P \in [0 .. n -> Nat], \A k \in 1 .. n : P[k - 1] < P[k]
    PROVE  \A k \in 0 .. n : P[0] <= P[k]
<1> DEFINE S == {k \in Nat : k <= n => P[0] <= P[k]}
<1>1. 0 \in S
  <2>1. P[0] \in Nat
    OBVIOUS
  <2> QED
    BY <2>1
<1>2. ASSUME NEW k \in Nat, k \in S PROVE k + 1 \in S
  <2> SUFFICES ASSUME k + 1 <= n PROVE P[0] <= P[k + 1]
    OBVIOUS
  <2> DEFINE m == k + 1
  <2>1. m \in 1 .. n /\ m - 1 = k /\ k \in 0 .. n /\ m \in 0 .. n /\ 0 \in 0 .. n
    OBVIOUS
  <2> HIDE DEF m
  <2>2. P[k] < P[m] /\ P[k] \in Nat /\ P[m] \in Nat /\ P[0] \in Nat
    <3>1. P[m - 1] < P[m]
      BY <2>1
    <3> QED
      BY <2>1, <3>1
  <2>3. P[0] <= P[k]
    BY <1>2, <2>1
  <2>4. P[0] <= P[m]
    BY <2>2, <2>3
  <2> QED
    BY <2>4 DEF m
<1>3. Nat \subseteq S
  <2> HIDE DEF S
  <2> QED
    BY <1>1, <1>2, SetInduction
<1> QED
  BY <1>3

\* The first of what is left, and the rest.
LEMMA FirstAndRest ==
    ASSUME NEW T, NEW q \in Seq(T), NEW k \in 1 .. Len(q)
    PROVE  <<q[k]>> \o SubSeq(q, k + 1, Len(q)) = SubSeq(q, k, Len(q))
<1> DEFINE a == <<q[k]>>
           b == SubSeq(q, k + 1, Len(q))
           c == SubSeq(q, k, Len(q))
           n == Len(q) - k
<1>1. q[k] \in T /\ k \in Nat /\ Len(q) \in Nat /\ n \in Nat
  OBVIOUS
<1>2. a \in Seq(T) /\ Len(a) = 1 /\ a[1] = q[k]
  BY <1>1, TupleOne
<1>3. b \in Seq(T) /\ Len(b) = n /\ \A i \in 1 .. n : b[i] = q[k + i]
  OBVIOUS
<1>4. c \in Seq(T) /\ Len(c) = n + 1 /\ \A i \in 1 .. n + 1 : c[i] = q[k - 1 + i]
  OBVIOUS
<1> HIDE DEF a, b, c, n
<1> DEFINE d == a \o b
<1>5. /\ d \in Seq(T) /\ Len(d) = n + 1 /\ d[1] = a[1]
      /\ \A i \in 1 .. n : d[1 + i] = b[i]
  <2>1. /\ d \in Seq(T) /\ Len(d) = Len(a) + Len(b)
        /\ \A i \in 1 .. Len(a) : d[i] = a[i]
        /\ \A i \in 1 .. Len(b) : d[Len(a) + i] = b[i]
    <3>1. a \in Seq(T) /\ b \in Seq(T)
      BY <1>2, <1>3
    <3> QED
      BY ONLY <3>1, Appended
  <2> HIDE DEF d
  <2> QED
    BY <1>1, <1>2, <1>3, <2>1
<1> HIDE DEF d
<1>6. ASSUME NEW i \in 1 .. n + 1 PROVE d[i] = c[i]
  <2>1. CASE i = 1
    <3>1. c[1] = q[k - 1 + 1] /\ k - 1 + 1 = k
      BY <1>1, <1>4
    <3> QED
      BY <1>2, <1>5, <2>1, <3>1
  <2>2. CASE i # 1
    <3> DEFINE j == i - 1
    <3>1. j \in 1 .. n /\ 1 + j = i /\ k - 1 + i = k + j
      BY <1>1, <2>2
    <3> HIDE DEF j
    <3>2. d[1 + j] = b[j] /\ b[j] = q[k + j]
      BY <1>3, <1>5, <3>1
    <3>3. c[i] = q[k - 1 + i]
      BY <1>4
    <3> QED
      BY <3>1, <3>2, <3>3
  <2> QED
    BY <2>1, <2>2
<1>7. d = c
  BY <1>1, <1>4, <1>5, <1>6
<1> QED
  BY <1>7 DEF a, b, c, d

\* The headers of the text are those the client stated.
LEMMA HeadersHere ==
    ASSUME NEW r, Framed(r), NEW s, Beginning(s, r), Len(s) >= HeadEnd(r)
    PROVE  Headers(s, LineEnd(r) + 1) = Stated(r.headers)
<1> DEFINE n == Len(r.headers)
           l == Len(s)
           h == HeadEnd(r)
           start == LineEnd(r) + 1
           q == Stated(r.headers)
           T == [key : Seq(Tokens), value : Seq(Tokens)]
           f == HeadersFrom(s, start)
<1>1. PICK P : HeaderPlaces(r, P)
  BY HeadersPlaced
<1>2. n \in Nat /\ DOMAIN r.headers = 1 .. n
  BY FramedTypes
<1>3. P \in [0 .. n -> Nat] /\ P[0] = LineEnd(r) /\ P[n] + 1 = h
  BY <1>1 DEF HeaderPlaces
<1>4. /\ LineEnd(r) \in Nat /\ h \in Nat /\ l \in Nat /\ h <= l /\ LineEnd(r) < h
  BY HeadNumbers, BeginningText
<1>5. s \in Seq(Tokens)
  BY BeginningText
<1>6. \A k \in 1 .. n :
         q[k] = [key |-> <<r.headers[k].name>>, value |-> r.headers[k].value] /\ q[k] \in T
  <2> TAKE k \in 1 .. n
  <2>1. q[k] = [key |-> <<r.headers[k].name>>, value |-> r.headers[k].value]
    BY <1>2 DEF Stated
  <2>2. r.headers[k].name \in Tokens /\ r.headers[k].value \in Seq(Tokens)
    BY <1>2, FramedTypes
  <2>3. <<r.headers[k].name>> \in Seq(Tokens)
    BY <2>2, TupleOne
  <2> QED
    BY <2>1, <2>2, <2>3
<1>7. q \in Seq(T) /\ Len(q) = n
  <2>1. DOMAIN q = 1 .. n /\ q = [k \in 1 .. n |-> q[k]]
    BY <1>2 DEF Stated
  <2> HIDE DEF q, T, n
  <2> QED
    BY <1>2, <1>6, <2>1
<1>8. \A k \in 1 .. n : P[k - 1] < P[k] /\ P[k - 1] \in Nat /\ P[k] \in Nat /\ P[k] < l
  <2> TAKE k \in 1 .. n
  <2> DEFINE at == P[k - 1]
  <2>1. at \in Nat /\ P[k] \in Nat /\ at < P[k] /\ P[k] < Len(s)
    <3> HIDE DEF at
    <3>1. at = P[k - 1]
      BY DEF at
    <3> QED
      BY <1>1, <3>1, HeaderFound
  <2> QED
    BY <2>1
<1>9. \A k \in 0 .. n : P[0] <= P[k]
  <2> HIDE DEF n
  <2> QED
    BY <1>2, <1>3, <1>8, Rising
<1>10. \A i \in start .. l + 1 : f[i] = Header(s, f, i)
  <2>1. start \in 1 .. Len(s) + 1
    BY <1>4
  <2> HIDE DEF start
  <2> QED
    BY <1>5, <2>1, HeadersStep
<1> DEFINE S == {d \in Nat : d <= n => f[P[n - d] + 1] = SubSeq(q, n - d + 1, n)}
<1>11. 0 \in S
  <2>1. h \in start .. l + 1 /\ P[n - 0] + 1 = h /\ n - 0 + 1 = n + 1
    <3> HIDE DEF n, h, l
    <3>1. n - 0 = n
      BY <1>2
    <3> QED
      BY <1>3, <1>4, <3>1
  <2> HIDE DEF f, start, l, n
  <2>2. f[h] = Header(s, f, h)
    BY <1>10, <2>1
  <2>3. ~Found(s, h, KeyDelim)
    BY NoHeaderBehind
  <2>4. f[h] = <<>>
    BY <2>2, <2>3 DEF Header
  <2> HIDE DEF q, T, h
  <2>5. SubSeq(q, n + 1, n) = <<>>
    BY <1>2, <1>7
  <2> QED
    BY <2>1, <2>4, <2>5
<1>12. ASSUME NEW d \in Nat, d \in S PROVE d + 1 \in S
  <2> HIDE DEF f, q, T, n
  <2> SUFFICES ASSUME d + 1 <= n
               PROVE  f[P[n - (d + 1)] + 1] = SubSeq(q, n - (d + 1) + 1, n)
    OBVIOUS
  <2> DEFINE k == n - d
             j == k - 1
             at == P[j]
             i == at + 1
             p == P[k]
  <2>1. n - d \in Nat
    BY <1>2
  <2>2. k \in 1 .. n /\ k \in Nat /\ j \in 0 .. n /\ n - (d + 1) = j /\ j + 1 = k
    BY <1>2
  <2>3. at = P[k - 1] /\ k \in 1 .. Len(r.headers)
    BY <2>2 DEF n
  <2>4. f[p + 1] = SubSeq(q, k + 1, n)
    <3>1. d <= n
      BY <1>2
    <3> QED
      BY <1>12, <3>1
  <2>5. at \in Nat /\ p \in Nat /\ at < p /\ p < l /\ P[0] <= at
    <3> HIDE DEF n, l, j, k
    <3> QED
      BY <1>8, <1>9, <2>2, <2>3
  <2>6. i \in start .. l + 1
    <3> HIDE DEF l, p, at
    <3> QED
      BY <1>3, <1>4, <2>5
  <2> DEFINE a == q[k]
  <2>7. a = [key |-> <<r.headers[k].name>>, value |-> r.headers[k].value]
    BY <1>6, <2>2 DEF n
  <2>8. f[i] = Header(s, f, i)
    <3> HIDE DEF i, f, start, l
    <3> QED
      BY <1>10, <2>6
  <2> HIDE DEF n, l, k, j, at
  <2>9. /\ Found(s, at + 1, KeyDelim)
        /\ Token(s, at + 1, KeyDelim) = <<r.headers[k].name>>
        /\ After(s, at + 1, KeyDelim) = at + 4
        /\ Found(s, at + 4, LineDelim)
        /\ Token(s, at + 4, LineDelim) = r.headers[k].value
        /\ After(s, at + 4, LineDelim) = P[k] + 1
    BY ONLY <1>1, <2>3, Framed(r), Beginning(s, r), Len(s) >= HeadEnd(r), HeaderFound
  <2>10. <<r.headers[k].name>> # <<>>
    OBVIOUS
  <2>11. Header(s, f, i) = <<a>> \o f[p + 1]
    <3> HIDE DEF f, a
    <3> QED
      BY <2>7, <2>9, <2>10 DEF Header
  <2>12. <<a>> \o SubSeq(q, k + 1, n) = SubSeq(q, k, n)
    <3> HIDE DEF q, T
    <3> QED
      BY <1>7, <2>2, FirstAndRest
  <2>13. f[i] = SubSeq(q, k, n)
    BY <2>4, <2>8, <2>11, <2>12
  <2>14. P[n - (d + 1)] + 1 = i /\ n - (d + 1) + 1 = k
    BY <2>2 DEF at
  <2> QED
    BY <2>13, <2>14
<1>13. n \in S
  <2>1. Nat \subseteq S
    <3> HIDE DEF S
    <3> QED
      BY <1>11, <1>12, SetInduction
  <2> HIDE DEF S
  <2> QED
    BY <1>2, <2>1
<1>14. f[P[n - n] + 1] = SubSeq(q, n - n + 1, n)
  <2> HIDE DEF f, q, n
  <2> QED
    BY <1>2, <1>13
<1>15. f[start] = SubSeq(q, 1, n)
  <2>1. n - n = 0 /\ n - n + 1 = 1
    BY <1>2
  <2>2. P[n - n] + 1 = start
    BY <1>3, <2>1
  <2> HIDE DEF f, q, n, start
  <2> QED
    BY <1>14, <2>1, <2>2
<1>16. SubSeq(q, 1, n) = q
  <2> HIDE DEF q, T, n
  <2> QED
    BY <1>7
<1>17. Headers(s, start) = f[start]
  BY HeadersAreFrom
<1> QED
  BY <1>15, <1>16, <1>17

-----------------------------------------------------------------------------
(* http_parse_message on the first bytes of a request.                      *)

\* The first bytes of a request, ended by a NUL.
Received(buf, m, r) ==
    /\ buf \in Seq(Tokens) /\ m \in Nat /\ m < Len(buf) /\ m <= Len(Encoded(r))
    /\ \A i \in 1 .. m : buf[i] = Encoded(r)[i]
    /\ buf[m + 1] = "NUL"

\* Up to its first NUL the buffer is the beginning of the request, with all of the
\* header once that has arrived.
LEMMA TextReceived ==
    ASSUME NEW r, Framed(r), NEW buf, NEW m, Received(buf, m, r)
    PROVE  /\ Beginning(Text(buf), r) /\ Len(Text(buf)) <= m
           /\ m >= HeadEnd(r) => Len(Text(buf)) >= HeadEnd(r)
<1> DEFINE x == Encoded(r)
           h == HeadEnd(r)
           d == "NUL"
           k == Find(buf, 1, <<d>>)
           s == Text(buf)
           o == m + 1
           e == k - 1
<1>1. buf \in Seq(Tokens) /\ m \in Nat /\ o <= Len(buf) /\ m <= Len(x)
  BY DEF Received
<1>2. \A i \in 1 .. m : buf[i] = x[i]
  BY DEF Received
<1>3. buf[o] = d
  BY DEF Received
<1>4. h \in Nat /\ x \in Seq(Tokens)
  BY HeadNumbers
<1>5. \A j \in 1 .. h : x[j] # d
  <2>1. PICK P : HeaderPlaces(r, P)
    BY HeadersPlaced
  <2> QED
    BY <2>1, HeadTokens
<1>6. s = SubSeq(buf, 1, e)
  BY DEF Text
<1> HIDE DEF d, x, h, s
<1>7. Len(buf) \in Nat /\ 1 \in 1 .. Len(buf) + 1 /\ o \in Nat /\ o \in 1 .. Len(buf)
  BY <1>1
<1>8. At(buf, o, <<d>>)
  <2> HIDE DEF o
  <2> QED
    BY <1>1, <1>3, <1>7, AtOne
<1>9. /\ k \in 1 .. Len(buf) + 1 /\ (k <= Len(buf) => At(buf, k, <<d>>))
      /\ \A j \in 1 .. Len(buf) : At(buf, j, <<d>>) => k <= j
  <2> DEFINE one == 1
             delim == <<d>>
  <2>1. one \in 1 .. Len(buf) + 1
    BY <1>7
  <2> HIDE DEF one, delim
  <2>2. /\ Find(buf, one, delim) \in one .. Len(buf) + 1
        /\ Find(buf, one, delim) <= Len(buf) => At(buf, Find(buf, one, delim), delim)
        /\ \A j \in one .. Len(buf) : At(buf, j, delim) => Find(buf, one, delim) <= j
    BY <1>1, <2>1, FindFacts
  <2> QED
    BY <2>2 DEF one, delim
<1>10. k <= o
  BY <1>7, <1>8, <1>9
<1> HIDE DEF k
<1>11. k \in Nat /\ k >= 1 /\ k <= Len(buf) /\ e \in 0 .. m /\ e < k /\ e + 1 = k
  BY <1>1, <1>7, <1>9, <1>10
<1>12. buf[k] = d
  BY <1>1, <1>9, <1>11, AtOne
<1>13. \A j \in 1 .. e : buf[j] # d
  <2> SUFFICES ASSUME NEW j \in 1 .. e, buf[j] = d PROVE FALSE
    OBVIOUS
  <2>1. j \in Nat /\ j \in 1 .. Len(buf) /\ j <= Len(buf) /\ j < k
    BY <1>7, <1>11
  <2>2. At(buf, j, <<d>>)
    BY <1>1, <2>1, AtOne
  <2> QED
    BY <1>9, <1>11, <2>1, <2>2
<1> HIDE DEF e
<1>14. s \in Seq(Tokens) /\ Len(s) = e /\ \A i \in 1 .. e : s[i] = buf[i]
  BY <1>1, <1>6, <1>7, <1>11
<1>15. Beginning(s, r)
  <2>1. Len(s) <= Len(x)
    BY <1>1, <1>4, <1>11, <1>14
  <2>2. \A i \in 1 .. Len(s) : s[i] = x[i] /\ s[i] # d
    <3> TAKE i \in 1 .. Len(s)
    <3>1. i \in 1 .. e /\ i \in 1 .. m
      BY <1>1, <1>11, <1>14
    <3> QED
      BY <1>2, <1>13, <1>14, <3>1
  <2> QED
    BY <1>14, <2>1, <2>2 DEF Beginning, x, d
<1>16. Len(s) <= m
  BY <1>1, <1>11, <1>14
<1>17. ASSUME m >= h PROVE Len(s) >= h
  <2> SUFFICES ASSUME e < h PROVE FALSE
    BY <1>4, <1>11, <1>14
  <2>1. k \in 1 .. h /\ k \in 1 .. m
    BY <1>1, <1>4, <1>11, <1>17
  <2> QED
    BY <1>2, <1>5, <1>12, <2>1
<1> QED
  BY <1>15, <1>16, <1>17 DEF s, h

\* The header array has room for the headers, or the message is malformed.
LEMMA StatedWellFormed ==
    ASSUME NEW r, Framed(r)
    PROVE  WellFormed(Stated(r.headers)) <=> Len(r.headers) <= MaxHeaders
<1> DEFINE q == Stated(r.headers)
           n == Len(r.headers)
<1>1. DOMAIN q = 1 .. n /\ q = [k \in 1 .. n |-> q[k]] /\ n \in Nat
  BY FramedTypes DEF Stated
<1>2. Len(q) = n
  <2> HIDE DEF q, n
  <2> QED
    BY <1>1
<1>3. ASSUME NEW i \in DOMAIN q PROVE q[i] # Unended
  <2>1. q[i].key = <<r.headers[i].name>>
    BY <1>1, <1>3, FramedTypes DEF Stated
  <2>2. <<r.headers[i].name>> # <<>>
    OBVIOUS
  <2>3. Unended.key = <<>>
    BY DEF Unended
  <2> QED
    BY <2>1, <2>2, <2>3
<1> QED
  BY <1>2, <1>3 DEF WellFormed

\* Less than the header: more is waited for.
LEMMA ParseStart ==
    ASSUME NEW r, Framed(r), NEW buf, NEW m, Received(buf, m, r), m < HeadEnd(r)
    PROVE  Parse(buf, m) = Incomplete
<1>1. Beginning(Text(buf), r) /\ Len(Text(buf)) <= m
  BY TextReceived
<1>2. Len(Text(buf)) < HeadEnd(r)
  <2> DEFINE a == Len(Text(buf))
             h == HeadEnd(r)
  <2>1. a \in Nat /\ h \in Nat /\ m \in Nat /\ a <= m /\ m < h
    BY <1>1, HeadNumbers, BeginningText DEF Received
  <2> HIDE DEF a, h
  <2>2. a < h
    BY <2>1
  <2> QED
    BY <2>2 DEF a, h
<1>3. ~HeaderReceived(Text(buf))
  BY <1>1, <1>2, HeaderToCome
<1> QED
  BY <1>3 DEF Parse

\* The header, with some of the body, all of it, or none.
LEMMA ParseHead ==
    ASSUME NEW r, Framed(r), NEW buf, NEW m, Received(buf, m, r), m >= HeadEnd(r)
    PROVE  Parse(buf, m) =
              IF ~KnownVersion(r.version) \/ Len(r.headers) > MaxHeaders THEN Malformed
              ELSE IF m < Len(Encoded(r)) THEN Incomplete
              ELSE Message(Text(buf), <<r.method>>, 3, 2 + Len(Target(r)), r.body)
<1> DEFINE s == Text(buf)
           q == Stated(r.headers)
           n == Len(r.body)
           h == HeadEnd(r)
           t == Len(Target(r))
<1>1. Beginning(s, r) /\ Len(s) >= h
  BY TextReceived
<1> HIDE DEF s
<1>2. HeaderReceived(s) /\ After(s, 1, EndDelim) = h + 1
  BY <1>1, HeaderHere
<1>3. /\ StartLine(s).uri = 3 /\ StartLine(s).version = 4 + t
      /\ StartLine(s).next = LineEnd(r) + 1
      /\ WellStarted(s) <=> KnownVersion(r.version)
      /\ Token(s, 1, <<" ">>) = <<r.method>>
  BY <1>1, StartLineHere
<1>4. StartLine(s).version = 4 + t /\ (WellStarted(s) <=> KnownVersion(r.version))
  BY <1>3
<1>5. Headers(s, StartLine(s).next) = q
  BY <1>1, <1>3, HeadersHere
<1>6. ContentLength(q) = n
  BY DEF Framed
<1>7. WellFormed(q) <=> Len(r.headers) <= MaxHeaders
  BY StatedWellFormed
<1>8. /\ h \in Nat /\ n \in Nat /\ t \in Nat /\ Len(Encoded(r)) = h + n /\ m \in Nat
      /\ Len(r.headers) \in Nat /\ MaxHeaders \in Nat
  BY HeadNumbers, FramedTypes, MaxHeadersAssumption DEF Received
<1>9. After(s, 1, EndDelim) - 1 = h /\ StartLine(s).version - 2 = 2 + t
  <2> HIDE DEF h, t
  <2> QED
    BY <1>2, <1>4, <1>8
<1>10. m >= h
  OBVIOUS
<1>11. r.body \in Seq(Tokens) /\ (n = 0 => r.body = <<>>)
  BY FramedTypes
<1>12. ASSUME m >= h + n PROVE SubSeq(buf, h + 1, h + n) = r.body
  <2>1. Placed(Encoded(r), h, r.body)
    BY Layout
  <2>2. \A i \in 1 .. n : h + i \in 1 .. m
    <3> HIDE DEF h, n
    <3> QED
      BY <1>8, <1>12
  <2>3. Len(buf) \in Nat /\ m < Len(buf) /\ buf \in Seq(Tokens)
    BY DEF Received
  <2>4. \A i \in 1 .. m : buf[i] = Encoded(r)[i]
    BY DEF Received
  <2>5. \A i \in 1 .. n : buf[h + i] = r.body[i]
    <3>1. \A i \in 1 .. n : Encoded(r)[h + i] = r.body[i]
      BY <2>1 DEF Placed
    <3> HIDE DEF h, n
    <3> QED
      BY <2>2, <2>4, <3>1
  <2>6. h + n <= Len(buf)
    <3> HIDE DEF h, n
    <3> QED
      BY <1>8, <1>12, <2>3
  <2>7. Placed(buf, h, r.body)
    BY <2>5, <2>6 DEF Placed
  <2> HIDE DEF h
  <2> QED
    BY <1>8, <1>11, <2>3, <2>7, SubSeqIs
<1> DEFINE body == IF n > 0 THEN SubSeq(buf, h + 1, h + n) ELSE <<>>
<1>13. m >= h + n => body = r.body
  <2> SUFFICES ASSUME m >= h + n PROVE body = r.body
    OBVIOUS
  <2>1. CASE n > 0
    <3> QED
      BY <1>12, <2>1
  <2>2. CASE ~(n > 0)
    <3>1. n = 0
      <4> HIDE DEF n
      <4> QED
        BY <1>8, <2>2
    <3>2. body = <<>>
      BY <2>2
    <3> QED
      BY <1>11, <3>1, <3>2
  <2> QED
    BY <2>1, <2>2
<1>14. Parse(buf, m) =
          IF ~WellStarted(s) \/ ~WellFormed(q) THEN Malformed
          ELSE IF n > 0 /\ ~BodyReceived(n, h, m) THEN Incomplete
          ELSE Message(s, <<r.method>>, 3, 2 + t, body)
  <2> HIDE DEF q, n, h, t
  <2> QED
    BY <1>2, <1>3, <1>5, <1>6, <1>9 DEF Parse, s
<1>15. BodyReceived(n, h, m) <=> m >= h + n
  BY DEF BodyReceived
<1>16. n > 0 /\ ~BodyReceived(n, h, m) <=> m < Len(Encoded(r))
  <2> HIDE DEF h, n
  <2> QED
    BY <1>8, <1>15, <1>10
<1>17. ~WellStarted(s) \/ ~WellFormed(q) <=>
          ~KnownVersion(r.version) \/ Len(r.headers) > MaxHeaders
  BY <1>4, <1>7, <1>8
<1>18. ~(m < Len(Encoded(r))) => body = r.body
  <2> HIDE DEF h, n, body
  <2> QED
    BY <1>8, <1>13
<1> HIDE DEF body, q, h, n, t
<1>19. Parse(buf, m) =
          IF ~KnownVersion(r.version) \/ Len(r.headers) > MaxHeaders THEN Malformed
          ELSE IF m < Len(Encoded(r)) THEN Incomplete
          ELSE Message(s, <<r.method>>, 3, 2 + t, r.body)
  BY <1>14, <1>16, <1>17, <1>18
<1> QED
  BY <1>19 DEF s, t

-----------------------------------------------------------------------------
(* The invariant of a connection: while a request is without its call, the   *)
(* beginning of the buffer and the wire are the request; else both are empty.*)

Last == asked[Len(asked)]

\* What has been read of the request, and what has not.
Underway(r) ==
    /\ wire # <<>> /\ bytes_received < BufferSize
    /\ bytes_received <= Len(buffer)
    /\ Len(Encoded(r)) = bytes_received + Len(wire)
    /\ \A i \in 1 .. bytes_received : buffer[i] = Encoded(r)[i]
    /\ \A i \in 1 .. Len(wire) : wire[i] = Encoded(r)[bytes_received + i]

Types ==
    /\ asked \in Seq(Requests) /\ wire \in Seq(Tokens) /\ buffer \in Seq(Tokens)
    /\ bytes_received \in Nat /\ \E C : calls \in Seq(C)

Pending == Len(calls) + 1 = Len(asked)

ConnectionInv ==
    /\ Types
    /\ Len(calls) = Len(asked) \/ Pending
    /\ connection = "open" /\ Pending => Underway(Last)
    /\ connection = "open" /\ ~Pending => wire = <<>> /\ bytes_received = 0
    /\ DroppedForCause

\* The lengths are numbers.
LEMMA Lengths ==
    ASSUME Types
    PROVE  Len(asked) \in Nat /\ Len(calls) \in Nat /\ Len(wire) \in Nat /\ Len(buffer) \in Nat
<1>1. PICK C : calls \in Seq(C)
  BY DEF Types
<1> QED
  BY <1>1 DEF Types

\* What is read is ended by a NUL.
LEMMA TerminatedText ==
    ASSUME buffer \in Seq(Tokens), bytes_received \in Nat, bytes_received <= Len(buffer),
           NEW piece \in Seq(Tokens), NEW n \in Nat, Len(piece) = n
    PROVE  /\ Terminated(piece) \in Seq(Tokens)
           /\ bytes_received + n + 1 <= Len(Terminated(piece))
           /\ \A i \in 1 .. bytes_received : Terminated(piece)[i] = buffer[i]
           /\ \A i \in 1 .. n : Terminated(piece)[bytes_received + i] = piece[i]
           /\ Terminated(piece)[bytes_received + n + 1] = "NUL"
<1> DEFINE b == bytes_received
           d == "NUL"
           x == SubSeq(buffer, 1, b)
           y == x \o piece
           z == y \o <<d>>
           t == SubSeq(buffer, b + n + 2, Len(buffer))
           u == Terminated(piece)
           o == b + n
           e == o + 1
<1>1. b \in Nat /\ n \in Nat /\ o \in Nat /\ e \in Nat
  OBVIOUS
<1>2. x \in Seq(Tokens) /\ Len(x) = b /\ \A i \in 1 .. b : x[i] = buffer[i]
  OBVIOUS
<1>3. d \in Tokens
  BY DEF Tokens
<1>4. t \in Seq(Tokens)
  OBVIOUS
<1>5. u = z \o t
  BY DEF Terminated
<1> HIDE DEF d, x, t, u, b
<1>6. /\ y \in Seq(Tokens) /\ Len(y) = o
      /\ \A i \in 1 .. b : y[i] = buffer[i]
      /\ \A i \in 1 .. n : y[b + i] = piece[i]
  <2>1. /\ y \in Seq(Tokens) /\ Len(y) = Len(x) + Len(piece)
        /\ \A i \in 1 .. Len(x) : y[i] = x[i]
        /\ \A i \in 1 .. Len(piece) : y[Len(x) + i] = piece[i]
    <3>1. x \in Seq(Tokens) /\ piece \in Seq(Tokens)
      BY <1>2
    <3> QED
      BY ONLY <3>1, Appended
  <2> HIDE DEF y
  <2> QED
    BY <1>1, <1>2, <2>1
<1> HIDE DEF y
<1>7. <<d>> \in Seq(Tokens) /\ Len(<<d>>) = 1 /\ <<d>>[1] = d
  BY <1>3, TupleOne
<1> DEFINE v == <<d>>
<1> HIDE DEF v
<1>8. v \in Seq(Tokens) /\ Len(v) = 1 /\ v[1] = d
  BY <1>7 DEF v
<1>9. z \in Seq(Tokens) /\ Len(z) = e /\ (\A i \in 1 .. o : z[i] = y[i]) /\ z[e] = d
  <2>1. z = y \o v
    BY DEF v
  <2>2. /\ z \in Seq(Tokens) /\ Len(z) = Len(y) + Len(v)
        /\ \A i \in 1 .. Len(y) : z[i] = y[i]
        /\ \A i \in 1 .. Len(v) : z[Len(y) + i] = v[i]
    BY ONLY <1>6, <1>8, <2>1, Appended
  <2> HIDE DEF z
  <2>3. z[o + 1] = v[1]
    BY <1>1, <1>6, <1>8, <2>2
  <2> QED
    BY <1>1, <1>6, <1>8, <2>2, <2>3
<1> HIDE DEF z
<1>10. /\ u \in Seq(Tokens) /\ Len(u) = Len(z) + Len(t)
       /\ \A i \in 1 .. Len(z) : u[i] = z[i]
  BY ONLY <1>4, <1>5, <1>9, Appended
<1>11. e <= Len(u)
  <2>1. Len(t) \in Nat
    BY <1>4
  <2> QED
    BY <1>1, <1>9, <1>10, <2>1
<1>12. \A i \in 1 .. o : u[i] = y[i]
  BY <1>1, <1>9, <1>10
<1>13. \A i \in 1 .. b : u[i] = buffer[i]
  BY <1>1, <1>6, <1>12
<1>14. \A i \in 1 .. n : u[b + i] = piece[i]
  <2> TAKE i \in 1 .. n
  <2> DEFINE j == b + i
  <2>1. j \in 1 .. o
    BY <1>1
  <2> HIDE DEF j
  <2>2. u[j] = y[j]
    BY <1>12, <2>1
  <2> QED
    BY <1>6, <2>2 DEF j
<1>15. u[e] = d
  <2>1. e \in 1 .. Len(z)
    BY <1>1, <1>9
  <2> HIDE DEF e
  <2> QED
    BY <1>9, <1>10, <2>1
<1> QED
  BY <1>10, <1>11, <1>13, <1>14, <1>15 DEF b, u, d

\* After tcp_read and the NUL behind it, the buffer has more of the request.
LEMMA ReceivedNext ==
    ASSUME buffer \in Seq(Tokens), bytes_received \in Nat, wire \in Seq(Tokens),
           NEW r, Framed(r), Underway(r), NEW n \in Nat, n <= Len(wire)
    PROVE  Received(Terminated(SubSeq(wire, 1, n)), bytes_received + n, r)
<1> DEFINE piece == SubSeq(wire, 1, n)
           b == bytes_received
           x == Encoded(r)
           u == Terminated(piece)
           m == b + n
<1>1. piece \in Seq(Tokens) /\ Len(piece) = n /\ \A i \in 1 .. n : piece[i] = wire[i]
  OBVIOUS
<1>2. /\ b <= Len(buffer) /\ Len(x) = b + Len(wire)
      /\ \A i \in 1 .. b : buffer[i] = x[i]
      /\ \A i \in 1 .. Len(wire) : wire[i] = x[b + i]
  BY DEF Underway
<1> HIDE DEF piece
<1>3. /\ u \in Seq(Tokens) /\ b + n + 1 <= Len(u)
      /\ \A i \in 1 .. b : u[i] = buffer[i]
      /\ \A i \in 1 .. n : u[b + i] = piece[i]
      /\ u[b + n + 1] = "NUL"
  BY <1>1, <1>2, TerminatedText
<1> HIDE DEF u, x
<1>4. b \in Nat /\ m \in Nat /\ Len(wire) \in Nat /\ Len(u) \in Nat
  BY <1>3
<1>5. \A i \in 1 .. m : u[i] = x[i]
  <2> TAKE i \in 1 .. m
  <2> HIDE DEF b
  <2>1. CASE i <= b
    BY <1>2, <1>3, <1>4, <2>1
  <2>2. CASE ~(i <= b)
    <3> DEFINE j == i - b
    <3>1. j \in 1 .. n /\ j \in 1 .. Len(wire) /\ b + j = i
      BY <1>4, <2>2
    <3> HIDE DEF j
    <3>2. u[b + j] = piece[j] /\ piece[j] = wire[j] /\ wire[j] = x[b + j]
      BY <1>1, <1>2, <1>3, <3>1
    <3> QED
      BY <3>1, <3>2
  <2> QED
    BY <2>1, <2>2
<1>6. m < Len(u) /\ m <= Len(x)
  <2>1. b + n + 1 <= Len(u) /\ Len(x) = b + Len(wire)
    BY <1>2, <1>3
  <2> HIDE DEF b
  <2> QED
    BY <1>4, <2>1
<1>7. u[m + 1] = "NUL"
  BY <1>3
<1>8. Received(u, m, r)
  BY <1>3, <1>4, <1>5, <1>6, <1>7 DEF Received, x
<1> QED
  BY <1>8 DEF u, piece

\* One call more.
LEMMA Counts ==
    ASSUME NEW C, calls \in Seq(C), NEW c
    PROVE  /\ Append(calls, c) \in Seq(C \cup {c})
           /\ Len(Append(calls, c)) = Len(calls) + 1
<1> DEFINE D == C \cup {c}
<1>1. calls \in Seq(D)
  BY LargerSet
<1>2. c \in D
  OBVIOUS
<1> HIDE DEF D
<1>3. Append(calls, c) \in Seq(D) /\ Len(Append(calls, c)) = Len(calls) + 1
  BY <1>1, <1>2
<1> QED
  BY <1>3 DEF D

\* The invariant holds before anything is asked.
LEMMA InitInv == Init => ConnectionInv
<1> SUFFICES ASSUME Init PROVE ConnectionInv
  OBVIOUS
<1>1. asked = <<>> /\ wire = <<>> /\ buffer = <<>> /\ bytes_received = 0 /\ calls = <<>>
  BY DEF Init
<1>2. connection = "open"
  BY DEF Init
<1>3. calls \in Seq({})
  BY <1>1
<1>4. Types
  BY <1>1, <1>3 DEF Types
<1>5. Len(calls) = 0 /\ Len(asked) = 0
  BY <1>1
<1>6. ~Pending
  BY <1>5 DEF Pending
<1>7. DroppedForCause
  BY <1>2 DEF DroppedForCause
<1> QED
  BY <1>1, <1>4, <1>5, <1>6, <1>7 DEF ConnectionInv

\* It holds when a request is sent.
LEMMA AskInv == ASSUME ConnectionInv, NEW r \in Requests, Ask(r) PROVE ConnectionInv'
<1> DEFINE n == Len(asked)
           x == Encoded(r)
<1>1. connection = "open" /\ connection' = "open"
  BY DEF Ask
<1>2. /\ Len(calls) = n /\ asked' = Append(asked, r)
      /\ wire' = wire \o x
      /\ buffer' = buffer /\ bytes_received' = bytes_received /\ calls' = calls
  BY DEF Ask
<1>3. Types /\ asked \in Seq(Requests) /\ n \in Nat
  BY Lengths DEF ConnectionInv, Types
<1>4. ~Pending
  <2> HIDE DEF n
  <2>1. Len(calls) + 1 # n
    BY <1>2, <1>3
  <2> QED
    BY <2>1 DEF Pending, n
<1>5. wire = <<>> /\ bytes_received = 0
  BY <1>1, <1>4 DEF ConnectionInv
<1>6. Framed(r)
  BY RequestsAssumption
<1>7. x \in Seq(Tokens) /\ Len(x) \in Nat /\ Len(x) > 0
  <2> DEFINE h == HeadEnd(r)
             o == Len(r.body)
             e == LineEnd(r)
  <2>1. x \in Seq(Tokens) /\ h \in Nat /\ e \in Nat /\ e < h /\ o \in Nat /\ Len(x) = h + o
    BY <1>6, HeadNumbers
  <2> HIDE DEF h, o, e, x
  <2> QED
    BY <2>1
<1> HIDE DEF x
<1>8. wire' = x
  BY <1>2, <1>5, <1>7
<1>9. asked' \in Seq(Requests) /\ Len(asked') = n + 1 /\ asked'[n + 1] = r
  BY <1>2, <1>3
<1>10. Types'
  <2>1. PICK C : calls \in Seq(C)
    BY <1>3 DEF Types
  <2>2. calls' \in Seq(C)
    BY <1>2, <2>1
  <2>3. wire' \in Seq(Tokens)
    BY <1>7, <1>8
  <2>4. buffer' \in Seq(Tokens) /\ bytes_received' \in Nat
    BY <1>2, <1>3 DEF Types
  <2> QED
    BY <1>9, <2>2, <2>3, <2>4 DEF Types
<1>11. Pending'
  BY <1>2, <1>9 DEF Pending
<1>12. Last' = r
  BY <1>9 DEF Last
<1>13. Underway(r)'
  <2>1. wire' # <<>>
    BY <1>7, <1>8
  <2>2. bytes_received' = 0 /\ Len(wire') = Len(x) /\ Len(buffer') \in Nat
    BY <1>2, <1>3, <1>5, <1>8, Lengths
  <2>3. bytes_received' < BufferSize /\ bytes_received' <= Len(buffer')
    BY <2>2, BoundsAssumption
  <2>4. Len(x) = bytes_received' + Len(wire')
    BY <1>7, <2>2
  <2>5. \A i \in 1 .. bytes_received' : buffer'[i] = x[i]
    BY <2>2
  <2>6. \A i \in 1 .. Len(wire') : wire'[i] = x[bytes_received' + i]
    <3> TAKE i \in 1 .. Len(wire')
    <3>1. bytes_received' + i = i
      BY <2>2
    <3> QED
      BY <1>8, <3>1
  <2> QED
    BY <2>1, <2>3, <2>4, <2>5, <2>6 DEF Underway, x
<1>14. DroppedForCause'
  BY <1>1 DEF DroppedForCause
<1>15. Underway(Last)'
  BY <1>12, <1>13 DEF Underway
<1> QED
  BY <1>10, <1>11, <1>14, <1>15 DEF ConnectionInv

\* It holds when the client leaves.
LEMMA LeaveInv == ASSUME ConnectionInv, Leave PROVE ConnectionInv'
<1>1. connection' = "left"
  BY DEF Leave
<1>2. /\ asked' = asked /\ wire' = wire /\ buffer' = buffer
      /\ bytes_received' = bytes_received /\ calls' = calls
  BY DEF Leave
<1>3. Types' /\ (Len(calls') = Len(asked') \/ Pending')
  BY <1>2 DEF ConnectionInv, Types, Pending
<1>4. connection' # "open" /\ connection' # "dropped"
  BY <1>1
<1>5. DroppedForCause'
  BY <1>4 DEF DroppedForCause
<1> QED
  BY <1>3, <1>4, <1>5 DEF ConnectionInv

\* It holds when nothing changes.
LEMMA StutterInv == ASSUME ConnectionInv, UNCHANGED vars PROVE ConnectionInv'
BY DEF ConnectionInv, Types, Pending, Underway, Last, DroppedForCause, vars

\* What one turn of the loop finds: the first bytes of the last request, and
\* what is left of it on the wire.
LEMMA ReadFinds ==
    ASSUME ConnectionInv, NEW n \in 1 .. BufferSize, Read(n)
    PROVE  /\ Pending /\ Last \in Requests /\ Framed(Last) /\ Underway(Last)
           /\ Received(Terminated(SubSeq(wire, 1, n)), bytes_received + n, Last)
           /\ n \in Nat /\ n <= Len(wire)
<1>1. connection = "open" /\ n <= Len(wire)
  BY DEF Read
<1>2. Types /\ n \in Nat /\ n > 0
  BY BoundsAssumption DEF ConnectionInv
<1>3. wire # <<>>
  <2>1. wire = <<>> => Len(wire) = 0
    OBVIOUS
  <2> QED
    BY <1>1, <1>2, <2>1
<1>4. Pending
  BY <1>1, <1>3 DEF ConnectionInv
<1>5. Underway(Last)
  BY <1>1, <1>4 DEF ConnectionInv
<1>6. Last \in Requests
  <2>1. asked \in Seq(Requests) /\ Len(asked) \in Nat /\ Len(calls) \in Nat
    BY <1>2, Lengths DEF Types
  <2>2. Len(asked) \in 1 .. Len(asked)
    BY <1>4, <2>1 DEF Pending
  <2> QED
    BY <2>1, <2>2 DEF Last
<1>7. Framed(Last)
  BY <1>6, RequestsAssumption
<1> DEFINE r == Last
<1> HIDE DEF r
<1>8. Received(Terminated(SubSeq(wire, 1, n)), bytes_received + n, r)
  <2>1. buffer \in Seq(Tokens) /\ bytes_received \in Nat /\ wire \in Seq(Tokens)
    BY <1>2 DEF Types
  <2>2. Framed(r) /\ Underway(r)
    BY <1>5, <1>7 DEF r
  <2> QED
    BY <1>1, <1>2, <2>1, <2>2, ReceivedNext
<1> QED
  BY <1>1, <1>2, <1>4, <1>5, <1>6, <1>7, <1>8 DEF r

\* What http_parse_message makes of it.
LEMMA ReadParses ==
    ASSUME NEW r, Framed(r), NEW buf, NEW m, Received(buf, m, r)
    PROVE  \/ Parse(buf, m) = Incomplete /\ m < Len(Encoded(r))
           \/ Parse(buf, m) = Malformed /\ ~Acceptable(r)
           \/ /\ m = Len(Encoded(r))
              /\ Parse(buf, m) = Message(Text(buf), <<r.method>>, 3, 2 + Len(Target(r)), r.body)
<1> DEFINE x == Encoded(r)
           h == HeadEnd(r)
           o == Len(r.body)
<1>1. /\ h \in Nat /\ o \in Nat /\ Len(x) = h + o /\ m \in Nat /\ m <= Len(x)
  BY HeadNumbers DEF Received
<1>2. CASE m < h
  <2>1. Parse(buf, m) = Incomplete
    BY <1>2, ParseStart
  <2>2. m < Len(x)
    <3> HIDE DEF h, o, x
    <3> QED
      BY <1>1, <1>2
  <2> QED
    BY <2>1, <2>2
<1>3. CASE m >= h
  <2> DEFINE bad == ~KnownVersion(r.version) \/ Len(r.headers) > MaxHeaders
             msg == Message(Text(buf), <<r.method>>, 3, 2 + Len(Target(r)), r.body)
  <2>1. Parse(buf, m) = IF bad THEN Malformed
                        ELSE IF m < Len(x) THEN Incomplete ELSE msg
    BY <1>3, ParseHead
  <2>2. bad => ~Acceptable(r)
    <3>1. Len(r.headers) \in Nat /\ MaxHeaders \in Nat
      BY FramedTypes, MaxHeadersAssumption
    <3>2. Len(r.headers) > MaxHeaders => ~(Len(r.headers) <= MaxHeaders)
      BY <3>1
    <3>3. ~KnownVersion(r.version) => r.version # <<"HTTP/1.1">>
      BY DEF KnownVersion
    <3> QED
      BY <3>2, <3>3 DEF Acceptable
  <2>3. ~(m < Len(x)) => m = Len(x)
    <3> HIDE DEF h, o, x
    <3> QED
      BY <1>1
  <2> HIDE DEF bad, msg
  <2>4. \/ Parse(buf, m) = Incomplete /\ m < Len(x)
        \/ Parse(buf, m) = Malformed /\ ~Acceptable(r)
        \/ m = Len(x) /\ Parse(buf, m) = msg
    BY <2>1, <2>2, <2>3
  <2> QED
    BY <2>4 DEF msg
<1> QED
  <2> HIDE DEF h
  <2>1. m < h \/ m >= h
    BY <1>1
  <2> QED
    BY <1>2, <1>3, <2>1 DEF h

\* The three results of http_parse_message.
LEMMA Results ==
    /\ Incomplete.result = 0 /\ Malformed.result = -1
    /\ \A s, method, first, last, body : Message(s, method, first, last, body).result = 1
BY DEF Incomplete, Malformed, Message

\* A turn of the loop keeps the types.
LEMMA ReadTypes ==
    ASSUME ConnectionInv, NEW n \in 1 .. BufferSize, Read(n)
    PROVE  Types'
<1> DEFINE buf == Terminated(SubSeq(wire, 1, n))
           m == bytes_received + n
           msg == Parse(buf, m)
<1>1. Received(buf, m, Last) /\ n \in Nat /\ n <= Len(wire)
  BY ReadFinds
<1>2. buf \in Seq(Tokens) /\ m \in Nat /\ m < Len(buf)
  BY <1>1 DEF Received
<1>3. Types
  BY DEF ConnectionInv
<1>4. wire' = SubSeq(wire, n + 1, Len(wire)) /\ asked' = asked
  BY DEF Read
<1>5. wire' \in Seq(Tokens)
  BY <1>1, <1>3, <1>4 DEF Types
<1>6. PICK C : calls \in Seq(C)
  BY <1>3 DEF Types
<1>7. \/ /\ calls' = Append(calls, Handle(msg)) /\ bytes_received' = 0
         /\ buffer' = Cleared(buf)
      \/ /\ bytes_received' = m /\ buffer' = buf /\ calls' = calls
      \/ /\ calls' = calls /\ bytes_received' = bytes_received /\ buffer' = buffer
  BY DEF Read
<1> HIDE DEF buf, m, msg
<1>8. Cleared(buf) \in Seq(Tokens)
  <2> DEFINE d == "NUL"
             k == Len(buf)
             new == [buf EXCEPT ![1] = d]
  <2>1. k \in Nat
    BY <1>2
  <2>2. buf \in [1 .. k -> Tokens]
    BY <1>2
  <2>3. d \in Tokens
    BY DEF Tokens
  <2> HIDE DEF d, k
  <2>4. new \in [1 .. k -> Tokens]
    BY <2>2, <2>3
  <2> HIDE DEF new
  <2>5. new \in Seq(Tokens)
    BY <2>1, <2>4
  <2> QED
    BY <2>5 DEF Cleared, d, new
<1>9. \E D : Append(calls, Handle(msg)) \in Seq(D)
  BY <1>6, Counts
<1>10. buffer' \in Seq(Tokens) /\ bytes_received' \in Nat
  BY <1>2, <1>3, <1>7, <1>8 DEF Types
<1>11. \E D : calls' \in Seq(D)
  BY <1>6, <1>7, <1>9
<1> QED
  BY <1>3, <1>4, <1>5, <1>10, <1>11 DEF Types

\* A turn of the loop keeps the invariant: on a request without its call it waits
\* for more, or drops it for a cause, or handles it with nothing left on the wire.
LEMMA ReadInv ==
    ASSUME ConnectionInv, NEW n \in 1 .. BufferSize, Read(n)
    PROVE  ConnectionInv'
<1> DEFINE r == Last
           x == Encoded(r)
           w == Len(wire)
           b == bytes_received
           buf == Terminated(SubSeq(wire, 1, n))
           m == b + n
           msg == Parse(buf, m)
<1>1. Pending /\ r \in Requests /\ Framed(r) /\ Underway(r)
  BY ReadFinds
<1>2. Received(buf, m, r) /\ n \in Nat /\ n <= w /\ n > 0
  <2>1. Received(buf, m, r) /\ n \in Nat /\ n <= w
    BY ReadFinds
  <2> QED
    BY <2>1, BoundsAssumption
<1>3. /\ Len(x) = b + w /\ \A i \in 1 .. w : wire[i] = x[b + i]
  BY <1>1 DEF Underway
<1>4. wire \in Seq(Tokens) /\ w \in Nat /\ b \in Nat /\ m \in Nat
  BY <1>2, Lengths DEF ConnectionInv, Types
<1>5. /\ Len(asked) \in Nat /\ Len(calls) \in Nat /\ Len(calls) + 1 = Len(asked)
  BY <1>1, Lengths DEF ConnectionInv, Pending
<1>6. wire' = SubSeq(wire, n + 1, w) /\ asked' = asked
  BY DEF Read
<1>7. /\ wire' \in Seq(Tokens) /\ Len(wire') = w - n
      /\ \A i \in 1 .. w - n : wire'[i] = wire[n + i]
  BY <1>2, <1>4, <1>6
<1>8. Types'
  BY ReadTypes
<1>9. connection = "open"
  BY DEF Read
<1>10. Last' = r
  BY <1>6 DEF Last
<1>11. \/ /\ msg.result = 1 /\ calls' = Append(calls, Handle(msg)) /\ b' = 0
          /\ connection' = "open"
       \/ /\ msg.result = 0 /\ b' = m /\ buffer' = buf /\ calls' = calls
          /\ connection' = IF b' >= BufferSize THEN "dropped" ELSE "open"
       \/ /\ msg.result = -1 /\ connection' = "dropped" /\ calls' = calls
  BY <1>9 DEF Read
<1>12. \/ msg = Incomplete /\ m < Len(x)
       \/ msg = Malformed /\ ~Acceptable(r)
       \/ m = Len(x) /\ msg = Message(Text(buf), <<r.method>>, 3, 2 + Len(Target(r)), r.body)
  <2> HIDE DEF r, buf, m
  <2> QED
    BY <1>1, <1>2, ReadParses
<1>13. BufferSize \in Nat
  BY BoundsAssumption
<1>14. CASE m = Len(x) /\ msg = Message(Text(buf), <<r.method>>, 3, 2 + Len(Target(r)), r.body)
  <2>1. msg.result = 1
    <3> HIDE DEF buf, r
    <3> QED
      BY <1>14, Results
  <2>2. calls' = Append(calls, Handle(msg)) /\ b' = 0 /\ connection' = "open"
    BY <1>11, <2>1
  <2> HIDE DEF msg, x, buf, w, r
  <2>3. Len(calls') = Len(calls) + 1
    <3>1. PICK C : calls \in Seq(C)
      BY DEF ConnectionInv, Types
    <3> QED
      BY <2>2, <3>1, Counts
  <2>4. Len(calls') = Len(asked')
    BY <1>5, <1>6, <2>3
  <2>5. ~Pending'
    BY <1>5, <1>6, <2>4 DEF Pending
  <2>6. w = n
    BY <1>2, <1>3, <1>4, <1>14
  <2>7. wire' = <<>>
    BY <1>2, <1>7, <2>6
  <2>8. DroppedForCause'
    BY <2>2 DEF DroppedForCause
  <2> QED
    BY <1>8, <2>2, <2>4, <2>5, <2>7, <2>8 DEF ConnectionInv
<1>15. CASE msg = Malformed /\ ~Acceptable(r)
  <2>1. msg.result = -1
    <3> HIDE DEF buf, r
    <3> QED
      BY <1>15, Results
  <2>2. connection' = "dropped" /\ calls' = calls
    BY <1>11, <2>1
  <2>3. Len(calls') + 1 = Len(asked')
    BY <1>5, <1>6, <2>2
  <2>4. DroppedForCause'
    BY <1>10, <1>15 DEF DroppedForCause, Last, Acceptable
  <2>5. connection' # "open"
    BY <2>2
  <2> QED
    BY <1>8, <2>3, <2>4, <2>5 DEF ConnectionInv, Pending
<1>16. CASE msg = Incomplete /\ m < Len(x)
  <2>1. msg.result = 0
    <3> HIDE DEF buf, r
    <3> QED
      BY <1>16, Results
  <2>2. /\ b' = m /\ buffer' = buf /\ calls' = calls
        /\ connection' = IF m >= BufferSize THEN "dropped" ELSE "open"
    BY <1>11, <2>1
  <2>3. Len(calls') + 1 = Len(asked')
    BY <1>5, <1>6, <2>2
  <2>4. m < b + w
    BY <1>3, <1>16
  <2>5. Len(x) >= BufferSize => ~Acceptable(r)
    <3>1. Len(x) \in Nat
      BY <1>1, HeadNumbers
    <3> QED
      BY <1>13, <3>1 DEF Acceptable
  <2>6. m >= BufferSize => ~Acceptable(r)
    <3> HIDE DEF x, r, w
    <3> QED
      BY <1>3, <1>4, <1>13, <2>4, <2>5
  <2>7. DroppedForCause'
    <3>1. connection' = "dropped" => m >= BufferSize
      BY <2>2
    <3>2. ~Acceptable(r) => ~Acceptable(asked'[Len(asked')])
      BY <1>6 DEF Last, Acceptable
    <3> QED
      BY <2>6, <3>1, <3>2 DEF DroppedForCause, Acceptable
  <2>8. ASSUME connection' = "open" PROVE Underway(r)'
    <3>1. m < BufferSize
      BY <1>4, <1>13, <2>2, <2>8
    <3>2. wire' # <<>>
      <4>1. Len(wire') # 0
        <5> HIDE DEF w
        <5> QED
          BY <1>2, <1>4, <1>7, <2>4
      <4> QED
        BY <4>1
    <3>3. b' <= Len(buffer')
      <4>1. buf \in Seq(Tokens) /\ m < Len(buf)
        BY <1>2 DEF Received
      <4> HIDE DEF buf
      <4> QED
        BY <1>4, <2>2, <4>1
    <3>4. Len(x) = b' + Len(wire')
      <4> HIDE DEF x, w
      <4> QED
        BY <1>2, <1>3, <1>4, <1>7, <2>2
    <3>5. \A i \in 1 .. b' : buffer'[i] = x[i]
      BY <1>2, <2>2 DEF Received
    <3>6. \A i \in 1 .. Len(wire') : wire'[i] = x[b' + i]
      <4> HIDE DEF x, w, buf, r
      <4> TAKE i \in 1 .. Len(wire')
      <4> DEFINE j == n + i
      <4>1. j \in 1 .. w /\ b + j = m + i /\ i \in 1 .. w - n
        BY <1>2, <1>4, <1>7
      <4> HIDE DEF j
      <4>2. wire'[i] = wire[j]
        BY <1>7, <4>1 DEF j
      <4>3. wire[j] = x[b + j]
        BY <1>3, <4>1
      <4>4. b' + i = b + j
        BY <2>2, <4>1
      <4> QED
        BY <4>2, <4>3, <4>4
    <3>7. b' < BufferSize
      BY <2>2, <3>1
    <3>8. x' = x
      BY <1>10
    <3> HIDE DEF x
    <3> QED
      BY <1>10, <3>2, <3>3, <3>4, <3>5, <3>6, <3>7, <3>8 DEF Underway, x
  <2>9. Pending'
    BY <2>3 DEF Pending
  <2>10. connection' = "open" => Underway(Last)'
    BY <2>8
  <2> QED
    BY <1>8, <2>7, <2>9, <2>10 DEF ConnectionInv
<1> QED
  BY <1>12, <1>14, <1>15, <1>16

\* So does every step.
LEMMA NextInv == ConnectionInv /\ [Next]_vars => ConnectionInv'
<1> SUFFICES ASSUME ConnectionInv, [Next]_vars PROVE ConnectionInv'
  OBVIOUS
<1>1. CASE \E r \in Requests : Ask(r)
  BY <1>1, AskInv
<1>2. CASE Leave
  BY <1>2, LeaveInv
<1>3. CASE \E n \in 1 .. BufferSize : Read(n)
  BY <1>3, ReadInv
<1>4. CASE UNCHANGED vars
  BY <1>4, StutterInv
<1> QED
  BY <1>1, <1>2, <1>3, <1>4 DEF Next

\* The invariant is one of the connection.
THEOREM ConnectionHolds == Spec => []ConnectionInv
<1>1. Init => ConnectionInv
  BY InitInv
<1>2. ConnectionInv /\ [Next]_vars => ConnectionInv'
  BY NextInv
<1> QED
  BY <1>1, <1>2, PTL DEF Spec

\* However TCP cuts the requests, handle_connection never waits for a byte the
\* client has not sent, nor with a buffer that is full.
THEOREM NeverStarves == Spec => []NeverStarved
<1>1. ConnectionInv => NeverStarved
  <2> SUFFICES ASSUME ConnectionInv, connection = "open", Len(calls) < Len(asked)
               PROVE  wire # <<>> /\ bytes_received < BufferSize
    BY DEF NeverStarved
  <2>1. Len(asked) \in Nat /\ Len(calls) \in Nat
    BY Lengths DEF ConnectionInv
  <2>2. Pending
    BY <2>1 DEF ConnectionInv
  <2> QED
    BY <2>2 DEF ConnectionInv, Underway
<1> QED
  BY <1>1, ConnectionHolds, PTL

\* handle_connection drops a connection for a request it cannot take only: one of
\* another version, of too many headers, or too long for the buffer.
THEOREM DropsForCause == Spec => []DroppedForCause
<1>1. ConnectionInv => DroppedForCause
  BY DEF ConnectionInv
<1> QED
  BY <1>1, ConnectionHolds, PTL

-----------------------------------------------------------------------------
(* What a request that says nothing twice is understood as.                  *)

\* The names the handlers look for are marks, and none starts an argument.
LEMMA Names ==
    /\ DOMAIN MaxValue = {"res=", "img_id=", "name="}
    /\ \A name \in DOMAIN MaxValue :
          name \in Marks /\ name # "?" /\ name # "&" /\ MaxValue[name] \in Nat
    /\ "&" \in Marks
<1>1. DOMAIN MaxValue = {"res=", "img_id=", "name="}
  BY MaxValueAssumption
<1>2. \A name \in DOMAIN MaxValue : name # "?" /\ name # "&"
  BY <1>1
<1>3. \A name \in DOMAIN MaxValue : MaxValue[name] \in Nat
  BY MaxValueAssumption
<1> QED
  BY <1>1, <1>2, <1>3 DEF Marks

\* What an argument starts with.
Mark(k) == IF k = 1 THEN "?" ELSE "&"

\* One argument, where it lies in the query.
LEMMA ArgTokens ==
    ASSUME NEW r, Framed(r), Plain(r), NEW Q, ArgPlaces(r, Q), NEW k \in 1 .. Len(r.args)
    PROVE  /\ k - 1 \in 0 .. Len(r.args) /\ k \in 0 .. Len(r.args)
           /\ Q[k - 1] \in Nat /\ Q[k] \in Nat /\ Len(r.args[k].value) \in Nat
           /\ Q[k] = Q[k - 1] + 2 + Len(r.args[k].value)
           /\ Q[k] <= Len(Query(r.args))
           /\ Query(r.args)[Q[k - 1] + 1] = Mark(k)
           /\ Query(r.args)[Q[k - 1] + 2] = r.args[k].name
           /\ \A i \in 1 .. Len(r.args[k].value) :
                 /\ Query(r.args)[Q[k - 1] + 2 + i] = r.args[k].value[i]
                 /\ r.args[k].value[i] \notin Marks
<1> DEFINE n == Len(r.args)
           q == Query(r.args)
           v == r.args[k].value
<1>1. n \in Nat /\ DOMAIN r.args = 1 .. n /\ v \in Seq(Tokens)
  BY FramedTypes
<1>2. Q \in [0 .. n -> Nat]
  BY DEF ArgPlaces
<1>3. k \in 1 .. n
  OBVIOUS
<1>4. k - 1 \in 0 .. n /\ k \in 0 .. n
  <2> HIDE DEF n
  <2> QED
    BY <1>1, <1>3
<1>5. Q[k - 1] \in Nat /\ Q[k] \in Nat
  <2> HIDE DEF n
  <2> QED
    BY <1>2, <1>4
<1>6. /\ Q[k] = Q[k - 1] + 2 + Len(v) /\ Q[k] <= Len(q)
      /\ ArgAt(q, Q[k - 1], Mark(k), r.args[k])
  BY DEF ArgPlaces, Mark
<1>7. /\ q[Q[k - 1] + 1] = Mark(k)
      /\ q[Q[k - 1] + 2] = r.args[k].name
      /\ Placed(q, Q[k - 1] + 2, v)
  <2> HIDE DEF q, v
  <2> QED
    BY <1>6 DEF ArgAt, v
<1>8. \A i \in DOMAIN v : v[i] \notin Marks
  BY <1>1 DEF Plain
<1>9. DOMAIN v = 1 .. Len(v) /\ Len(v) \in Nat
  BY <1>1
<1>10. \A i \in 1 .. Len(v) : q[Q[k - 1] + 2 + i] = v[i]
  BY <1>7 DEF Placed
<1> QED
  BY <1>4, <1>5, <1>6, <1>7, <1>8, <1>9, <1>10

\* A name of the handlers' is in the query where an argument of that name is.
LEMMA NameElsewhere ==
    ASSUME NEW r, Framed(r), Plain(r), NEW Q, ArgPlaces(r, Q), NEW m \in 0 .. Len(r.args),
           NEW name \in DOMAIN MaxValue, \A k \in 1 .. m : r.args[k].name # name
    PROVE  /\ Q[m] \in Nat /\ Q[m] <= Len(Query(r.args)) /\ Len(Query(r.args)) \in Nat
           /\ \A j \in 1 .. Q[m] : Query(r.args)[j] # name
<1> DEFINE n == Len(r.args)
           q == Query(r.args)
           P == [i \in 0 .. m |-> Q[i]]
<1>1. n \in Nat /\ m \in Nat /\ m <= n
  BY FramedTypes
<1>2. Q \in [0 .. n -> Nat] /\ Q[0] = 0 /\ Q[n] = Len(q)
  BY DEF ArgPlaces
<1>3. name \in Marks /\ name # "?" /\ name # "&"
  BY Names
<1>4. P \in [0 .. m -> Nat] /\ P[0] = 0 /\ P[m] = Q[m] /\ Q[m] \in Nat /\ Len(q) \in Nat
  <2> HIDE DEF n, q
  <2>1. \A i \in 0 .. m : i \in 0 .. n
    BY <1>1
  <2>2. 0 \in 0 .. m /\ m \in 0 .. m /\ n \in 0 .. n
    BY <1>1
  <2> QED
    BY <1>2, <2>1, <2>2
<1>5. Q[m] <= Len(q)
  <2>1. CASE m = 0
    BY <1>2, <1>4, <2>1
  <2>2. CASE m # 0
    <3>1. m \in 1 .. Len(r.args)
      BY <1>1, <2>2
    <3> QED
      BY <3>1, ArgTokens
  <2> QED
    BY <2>1, <2>2
<1>6. ASSUME NEW j \in 1 .. Q[m] PROVE q[j] # name
  <2>1. PICK k \in 1 .. m : P[k - 1] < j /\ j <= P[k]
    <3>1. j \in Nat /\ P[0] < j /\ j <= P[m]
      BY <1>4, <1>6
    <3> HIDE DEF P
    <3> QED
      BY <1>1, <1>4, <3>1, Covered
  <2> DEFINE at == Q[k - 1]
             v == r.args[k].value
             w == Len(v)
  <2>2. k \in 1 .. Len(r.args) /\ P[k - 1] = at /\ P[k] = Q[k]
    BY <1>1
  <2>3. /\ at \in Nat /\ w \in Nat /\ Q[k] = at + 2 + w
        /\ q[at + 1] = Mark(k)
        /\ q[at + 2] = r.args[k].name
        /\ \A i \in 1 .. w : q[at + 2 + i] = v[i] /\ v[i] \notin Marks
    <3>1. k \in 1 .. Len(r.args)
      BY <2>2
    <3>2. Q[k - 1] \in Nat /\ Len(r.args[k].value) \in Nat
      BY <3>1, ArgTokens
    <3>3. Q[k] = Q[k - 1] + 2 + Len(r.args[k].value)
      BY <3>1, ArgTokens
    <3>4. Query(r.args)[Q[k - 1] + 1] = Mark(k)
      BY ONLY <3>1, Framed(r), Plain(r), ArgPlaces(r, Q), ArgTokens, SMTT(30)
    <3>5. Query(r.args)[Q[k - 1] + 2] = r.args[k].name
      BY ONLY <3>1, Framed(r), Plain(r), ArgPlaces(r, Q), ArgTokens, SMTT(30)
    <3>6. \A i \in 1 .. Len(r.args[k].value) :
             /\ Query(r.args)[Q[k - 1] + 2 + i] = r.args[k].value[i]
             /\ r.args[k].value[i] \notin Marks
      BY <3>1, ArgTokens
    <3> QED
      BY <3>2, <3>3, <3>4, <3>5, <3>6
  <2>4. at \in Nat /\ w \in Nat /\ Q[k] = at + 2 + w
    BY <2>3
  <2>5. j \in Nat /\ at < j /\ j <= at + 2 + w
    <3>1. j \in Nat
      BY <1>4
    <3> QED
      BY <2>1, <2>2, <2>4, <3>1
  <2> HIDE DEF P, n, q, v, at, w
  <2>6. CASE j = at + 1
    BY <1>3, <2>3, <2>6 DEF Mark
  <2>7. CASE j = at + 2
    BY <2>3, <2>7
  <2>8. CASE j # at + 1 /\ j # at + 2
    <3> DEFINE i == j - (at + 2)
    <3>1. i \in 1 .. w /\ at + 2 + i = j
      BY <2>4, <2>5, <2>8
    <3> HIDE DEF i
    <3>2. q[at + 2 + i] = v[i] /\ v[i] \notin Marks
      BY <2>3, <3>1
    <3>3. q[j] \notin Marks
      BY <3>1, <3>2
    <3> QED
      BY <1>3, <3>3
  <2> QED
    BY <2>6, <2>7, <2>8
<1> QED
  BY <1>4, <1>5, <1>6

\* The target in the text, and no mark behind it.
LEMMA QueryHere ==
    ASSUME NEW r, Framed(r), Plain(r), NEW s, Beginning(s, r), Len(s) >= HeadEnd(r)
    PROVE  /\ Len(Target(r)) = 1 + Len(Query(r.args)) /\ Len(Query(r.args)) \in Nat
           /\ 3 + Len(Query(r.args)) < Len(s)
           /\ SubSeq(s, 3, 2 + Len(Target(r))) = Target(r)
           /\ Target(r)[1] = r.path[1]
           /\ s[3] # "?"
           /\ \A j \in 1 .. Len(Query(r.args)) : s[3 + j] = Query(r.args)[j]
           /\ \A j \in 4 + Len(Query(r.args)) .. Len(s) : s[j] \notin Marks
<1> DEFINE t == Target(r)
           p == r.path
           q == Query(r.args)
           w == Len(q)
           x == Encoded(r)
           l == Len(s)
<1>1. t \in Seq(Tokens) /\ p \in Seq(Tokens) /\ Len(p) = 1 /\ p # <<"?">>
  BY Layout, FramedTypes DEF Plain
<1>2. q \in Seq(Tokens)
  BY QueryJoined, JoinedPlaces
<1>3. t = p \o q
  BY DEF Target
<1> HIDE DEF t, p, q
<1>4. /\ Len(t) = Len(p) + Len(q)
      /\ \A i \in 1 .. Len(p) : t[i] = p[i]
      /\ \A i \in 1 .. Len(q) : t[Len(p) + i] = q[i]
  <2>1. p \in Seq(Tokens) /\ q \in Seq(Tokens)
    BY <1>1, <1>2
  <2> QED
    BY ONLY <1>3, <2>1, Appended
<1>5. w \in Nat /\ Len(t) = 1 + w /\ t[1] = p[1] /\ \A i \in 1 .. w : t[1 + i] = q[i]
  BY <1>1, <1>2, <1>4
<1>6. p[1] # "?"
  <2> DEFINE d == "?"
             e == <<d>>
  <2>1. d \in Tokens
    BY DEF Tokens
  <2> HIDE DEF d
  <2>2. e \in Seq(Tokens) /\ Len(e) = 1 /\ e[1] = d
    BY <2>1, TupleOne
  <2>3. p # e
    BY <1>1 DEF d
  <2> HIDE DEF e
  <2>4. p[1] # d
    <3> SUFFICES ASSUME p[1] = d PROVE FALSE
      OBVIOUS
    <3>1. \A i \in 1 .. 1 : p[i] = e[i]
      BY <2>2
    <3>2. p = e
      BY <1>1, <2>2, <3>1
    <3> QED
      BY <2>3, <3>2
  <2> QED
    BY <2>4 DEF d
<1>7. /\ l \in Nat /\ s \in Seq(Tokens)
      /\ \A i \in 1 .. l : s[i] = x[i] /\ s[i] # "NUL"
  BY BeginningText DEF Beginning
<1>8. Placed(x, 2, t)
  BY Layout DEF t
<1>9. 3 + w < l
  <2> DEFINE h == HeadEnd(r)
             e == LineEnd(r)
             o == Len(r.version)
  <2>1. h \in Nat /\ e \in Nat /\ o \in Nat /\ e < h /\ e = 4 + Len(t) + o
    BY HeadNumbers DEF t
  <2>2. l >= h
    OBVIOUS
  <2> HIDE DEF h, e, o, w, l
  <2> QED
    BY <1>5, <1>7, <2>1, <2>2
<1>10. Placed(s, 2, t)
  <2>1. 2 + Len(t) <= l
    <3> HIDE DEF l, w
    <3> QED
      BY <1>5, <1>7, <1>9
  <2> QED
    BY <1>1, <1>8, <2>1, PlacedEarly
<1>11. SubSeq(s, 3, 2 + Len(t)) = t
  <2> DEFINE two == 2
  <2>1. two \in Nat /\ two + 1 = 3
    OBVIOUS
  <2>2. Placed(s, two, t)
    BY <1>10
  <2> HIDE DEF two
  <2>3. SubSeq(s, two + 1, two + Len(t)) = t
    BY <1>1, <1>7, <2>1, <2>2, SubSeqIs
  <2> QED
    BY <2>1, <2>3 DEF two
<1>12. \A i \in 1 .. Len(t) : s[2 + i] = t[i]
  BY <1>10 DEF Placed
<1>13. s[3] = p[1]
  <2>1. 1 \in 1 .. Len(t) /\ 2 + 1 = 3
    BY <1>5
  <2> QED
    BY <1>5, <1>12, <2>1
<1>14. \A j \in 1 .. w : s[3 + j] = q[j]
  <2> TAKE j \in 1 .. w
  <2> DEFINE i == 1 + j
  <2>1. i \in 1 .. Len(t) /\ 2 + i = 3 + j
    BY <1>5
  <2>2. t[i] = q[j]
    BY <1>5
  <2> HIDE DEF i
  <2> QED
    BY <1>12, <2>1, <2>2
<1>15. ASSUME NEW j \in 4 + w .. l, s[j] \in Marks PROVE FALSE
  <2>1. \A k \in Len(t) + 3 .. Len(x) : x[k] \in Marks => \E i \in 1 .. k : x[i] = "NUL"
    BY DEF Plain, Target, t
  <2>2. j \in 1 .. l /\ j \in Len(t) + 3 .. Len(x)
    <3>1. l <= Len(x) /\ Len(x) \in Nat
      BY HeadNumbers DEF Beginning
    <3> HIDE DEF l, w, x
    <3> QED
      BY <1>5, <1>7, <3>1
  <2>3. x[j] \in Marks
    BY <1>7, <1>15, <2>2
  <2>4. PICK i \in 1 .. j : x[i] = "NUL"
    BY <2>1, <2>2, <2>3
  <2>5. i \in 1 .. l
    BY <1>7, <2>2
  <2> QED
    BY <1>7, <2>4, <2>5
<1> QED
  BY <1>5, <1>6, <1>9, <1>11, <1>13, <1>14, <1>15 DEF t, p, q

\* The argument that counts is the first of its name.
LEMMA FirstArg ==
    ASSUME NEW r, Framed(r), NEW name, Args(r, name) # {}
    PROVE  \E k \in 1 .. Len(r.args) :
              /\ r.args[k].name = name /\ Arg(r, name) = r.args[k].value
              /\ \A j \in 1 .. k - 1 : r.args[j].name # name
<1> DEFINE A == Args(r, name)
           n == Len(r.args)
           Is(k) == k \in A /\ \A j \in A : k <= j
           k == CHOOSE k \in A : \A j \in A : k <= j
<1>1. n \in Nat /\ DOMAIN r.args = 1 .. n
  BY FramedTypes
<1>2. \A j : j \in A <=> j \in 1 .. n /\ r.args[j].name = name
  BY <1>1 DEF Args
<1>3. A \subseteq Nat
  <2> HIDE DEF A, n
  <2> QED
    BY <1>1, <1>2
<1>4. \E j \in A : \A i \in A : j <= i
  <2> HIDE DEF A
  <2> QED
    BY <1>3, Least DEF A
<1>5. k \in A /\ \A j \in A : k <= j
  <2> HIDE DEF A
  <2> QED
    BY <1>4
<1>6. Arg(r, name) = r.args[k].value
  BY DEF Arg
<1> HIDE DEF k, A
<1>7. k \in 1 .. n /\ r.args[k].name = name
  BY <1>2, <1>5
<1>8. \A j \in 1 .. k - 1 : r.args[j].name # name
  <2> TAKE j \in 1 .. k - 1
  <2>1. j \in 1 .. n /\ ~(k <= j)
    <3> HIDE DEF n
    <3> QED
      BY <1>1, <1>7
  <2> QED
    BY <1>2, <1>5, <2>1
<1> QED
  BY <1>6, <1>7, <1>8

\* Without an argument of the name http_get_var finds none in the text.
LEMMA NoArg ==
    ASSUME NEW r, Framed(r), Plain(r), NEW s, Beginning(s, r), Len(s) >= HeadEnd(r),
           NEW name \in DOMAIN MaxValue, Args(r, name) = {}
    PROVE  Find(s, 4, <<name>>) = Len(s) + 1
<1> DEFINE n == Len(r.args)
           q == Query(r.args)
           w == Len(q)
           l == Len(s)
           o == l + 1
           d == <<name>>
           from == 4
<1>1. PICK Q : ArgPlaces(r, Q)
  BY ArgsPlaced
<1>2. n \in Nat /\ DOMAIN r.args = 1 .. n
  BY FramedTypes
<1>3. \A k \in 1 .. n : r.args[k].name # name
  BY <1>2 DEF Args
<1>4. \A j \in 1 .. w : q[j] # name
  <2>1. n \in 0 .. Len(r.args)
    BY <1>2
  <2>2. Q[n] = w
    BY <1>1 DEF ArgPlaces
  <2>3. \A j \in 1 .. Q[n] : q[j] # name
    <3> HIDE DEF n
    <3> QED
      BY <1>1, <1>3, <2>1, NameElsewhere
  <2> QED
    BY <2>2, <2>3
<1>5. /\ w \in Nat /\ 3 + w < l
      /\ \A j \in 1 .. w : s[3 + j] = q[j]
      /\ \A j \in 4 + w .. l : s[j] \notin Marks
  BY QueryHere
<1>6. s \in Seq(Tokens) /\ l \in Nat
  BY BeginningText
<1>7. name \in Marks
  BY Names
<1> HIDE DEF q, w, l
<1>8. ASSUME NEW j \in from .. l PROVE s[j] # name
  <2>1. CASE j <= 3 + w
    <3> DEFINE i == j - 3
    <3>1. i \in 1 .. w /\ 3 + i = j
      BY <1>5, <1>6, <2>1
    <3> HIDE DEF i
    <3> QED
      BY <1>4, <1>5, <3>1
  <2>2. CASE ~(j <= 3 + w)
    <3>1. j \in 4 + w .. l
      BY <1>5, <1>6, <2>2
    <3> QED
      BY <1>5, <1>7, <3>1
  <2> QED
    BY <2>1, <2>2
<1>9. from \in 1 .. l + 1 /\ o \in from .. l + 1 /\ from \in Nat /\ ~(o <= l)
  BY <1>5, <1>6
<1> HIDE DEF from, o
<1>10. ASSUME NEW j \in from .. l, At(s, j, d) PROVE o <= j
  <2>1. j \in Nat
    BY <1>9
  <2>2. s[j] = name
    BY <1>6, <1>10, <2>1, AtOne
  <2> QED
    BY <1>8, <2>2
<1> HIDE DEF d
<1>11. Find(s, from, d) = o
  BY <1>6, <1>9, <1>10, FindIs DEF l
<1> QED
  BY <1>11 DEF from, d, o, l

\* ValueEnd, by what it reads of the message.
EndOf(s, at, last) == IF Found(s, at, <<"&">>) THEN Find(s, at, <<"&">>) ELSE last + 1

\* The value that follows the name in the text.
ValueAt(s, at, value, last) ==
    /\ EndOf(s, at, last) = at + 1 + Len(value)
    /\ SubSeq(s, at + 1, at + Len(value)) = value

\* The first argument of a name, and where the name is in the text.
FirstOf(r, name, k, Q, at) ==
    /\ k \in 1 .. Len(r.args) /\ r.args[k].name = name
    /\ \A j \in 1 .. k - 1 : r.args[j].name # name
    /\ at = Q[k - 1] + 5

\* Else it finds the first, and its value ends where the next argument starts,
\* or with the URI.
LEMMA ArgFound ==
    ASSUME NEW r, Framed(r), Plain(r), NEW s, Beginning(s, r), Len(s) >= HeadEnd(r),
           NEW name \in DOMAIN MaxValue, NEW Q, ArgPlaces(r, Q),
           NEW k, NEW at, FirstOf(r, name, k, Q, at)
    PROVE  /\ at \in Nat /\ Find(s, 4, <<name>>) = at /\ at <= Len(s)
           /\ ValueAt(s, at, r.args[k].value, 2 + Len(Target(r)))
<1> DEFINE n == Len(r.args)
           q == Query(r.args)
           w == Len(q)
           l == Len(s)
           v == r.args[k].value
           o == Len(v)
           p == Q[k - 1]
           e == Q[k]
           from == 4
<1>1. /\ k \in 1 .. Len(r.args) /\ r.args[k].name = name
      /\ \A j \in 1 .. k - 1 : r.args[j].name # name
      /\ at = Q[k - 1] + 5
  BY DEF FirstOf
<1>2. n \in Nat /\ v \in Seq(Tokens) /\ DOMAIN r.args = 1 .. n
  BY <1>1, FramedTypes
<1>3. k \in 1 .. n /\ k - 1 \in 0 .. Len(r.args)
  BY <1>1, <1>2
<1>4. p \in Nat /\ e \in Nat /\ o \in Nat /\ e = p + 2 + o /\ e <= w
  BY <1>1, ArgTokens
<1>5. q[p + 1] = Mark(k) /\ q[p + 2] = name
  <2>1. q[p + 1] = Mark(k)
    BY <1>1, ArgTokens
  <2>2. q[p + 2] = r.args[k].name
    BY ONLY <1>3, Framed(r), Plain(r), ArgPlaces(r, Q), ArgTokens
  <2> QED
    BY <1>1, <2>1, <2>2
<1>6. \A i \in 1 .. o : q[p + 2 + i] = v[i] /\ v[i] \notin Marks
  BY <1>3, ArgTokens
<1>7. \A j \in 1 .. p : q[j] # name
  <2> DEFINE m == k - 1
  <2>1. m \in 0 .. Len(r.args) /\ \A j \in 1 .. m : r.args[j].name # name
    BY <1>1, <1>3
  <2> HIDE DEF m
  <2>2. \A j \in 1 .. Q[m] : q[j] # name
    BY <2>1, NameElsewhere
  <2> QED
    BY <2>2 DEF m
<1>8. /\ w \in Nat /\ 3 + w < l /\ Len(Target(r)) = 1 + w
      /\ \A j \in 1 .. w : s[3 + j] = q[j]
      /\ \A j \in 4 + w .. l : s[j] \notin Marks
  BY QueryHere
<1>9. Len(Target(r)) = 1 + w
  BY <1>8
<1>10. s \in Seq(Tokens) /\ l \in Nat
  BY BeginningText
<1>11. name \in Marks /\ name # "?" /\ name # "&" /\ "&" \in Marks
  BY Names
<1>12. at = p + 5
  BY <1>1
<1>13. w \in Nat /\ l \in Nat /\ 3 + w < l
  BY <1>8, <1>10
<1> HIDE DEF q, w, l, v, o, p, e, n
<1>14. /\ at \in Nat /\ from \in Nat /\ from > 0 /\ from <= at /\ at <= l /\ at + o <= 3 + w
       /\ at + o = 3 + e
  BY ONLY <1>4, <1>12, <1>13
<1>15. at \in Nat /\ at <= l /\ at + o = 3 + e
  BY <1>14
<1>16. s[at] = name
  <2> DEFINE j == p + 2
  <2>1. j \in 1 .. w /\ 3 + j = at
    BY <1>4, <1>8, <1>12
  <2> HIDE DEF j
  <2>2. s[3 + j] = q[j]
    BY <1>8, <2>1
  <2> QED
    BY <1>5, <2>1, <2>2 DEF j
<1>17. ASSUME NEW j \in from .. at - 1 PROVE s[j] # name
  <2> DEFINE i == j - 3
  <2>1. i \in 1 .. p + 1 /\ i \in 1 .. w /\ 3 + i = j
    BY <1>4, <1>8, <1>12, <1>14
  <2> HIDE DEF i
  <2>2. s[j] = q[i]
    BY <1>8, <2>1
  <2>3. CASE i = p + 1
    <3>1. Mark(k) # name
      BY <1>11 DEF Mark
    <3> QED
      BY <1>5, <2>2, <2>3, <3>1
  <2>4. CASE i # p + 1
    <3>1. i \in 1 .. p
      BY <1>4, <2>1, <2>4
    <3> QED
      BY <1>7, <2>2, <3>1
  <2> QED
    BY <2>3, <2>4
<1>18. Find(s, from, <<name>>) = at
  <2> HIDE DEF from
  <2> QED
    BY ONLY <1>10, <1>14, <1>16, <1>17, FindOne DEF l
<1>19. \A i \in 1 .. o : s[at + i] = v[i]
  <2> TAKE i \in 1 .. o
  <2> DEFINE j == p + 2 + i
  <2>1. j \in 1 .. w /\ 3 + j = at + i
    BY <1>4, <1>13, <1>12
  <2>2. q[j] = v[i]
    BY <1>6
  <2> HIDE DEF j
  <2>3. s[3 + j] = q[j]
    BY <1>8, <2>1
  <2> QED
    BY <2>1, <2>2, <2>3
<1>20. SubSeq(s, at + 1, at + o) = v
  <2>1. Placed(s, at, v)
    <3>1. at + o <= l
      BY <1>4, <1>8, <1>10, <1>14
    <3> QED
      BY <1>19, <3>1 DEF Placed, o, l
  <2> QED
    BY <1>2, <1>10, <1>14, <2>1, SubSeqIs DEF o
<1> DEFINE d == "&"
           f == at + 1 + o
<1>21. f \in Nat /\ f <= l /\ at <= f /\ f = 4 + e
  BY <1>4, <1>13, <1>15, <1>12
<1>22. name # d /\ d \in Marks
  BY <1>11
<1> HIDE DEF d, f
<1>23. ASSUME NEW j \in at .. f - 1 PROVE s[j] # d
  <2>1. CASE j = at
    BY <1>16, <1>22, <2>1
  <2>2. CASE j # at
    <3> DEFINE i == j - at
    <3>1. i \in 1 .. o /\ at + i = j
      BY ONLY <1>4, <1>15, <1>21, <2>2 DEF f
    <3> HIDE DEF i
    <3>2. s[j] = v[i] /\ v[i] \notin Marks
      BY <1>6, <1>19, <3>1
    <3> QED
      BY <1>22, <3>2
  <2> QED
    BY <2>1, <2>2
<1>24. CASE k < n
  <2> DEFINE j == k + 1
             i == e + 1
  <2>1. j \in 1 .. Len(r.args) /\ j - 1 = k /\ j # 1
    BY <1>2, <1>3, <1>24 DEF n
  <2>2. Mark(j) = d
    BY <2>1 DEF Mark, d
  <2> HIDE DEF j
  <2>3. q[Q[j - 1] + 1] = Mark(j)
    BY <2>1, ArgTokens DEF q
  <2>4. q[e + 1] = d
    BY <2>1, <2>2, <2>3 DEF e
  <2>5. e + 1 <= w
    <3>1. Q[j] = Q[j - 1] + 2 + Len(r.args[j].value) /\ Len(r.args[j].value) \in Nat /\ Q[j] <= w
      BY <2>1, ArgTokens DEF w, q
    <3>2. Q[j - 1] = e
      BY <2>1 DEF e
    <3> DEFINE c == Len(r.args[j].value)
               g == Q[j]
    <3>3. g = Q[j - 1] + 2 + c /\ c \in Nat /\ g <= w
      BY <3>1
    <3> HIDE DEF c, g
    <3>4. g = e + 2 + c
      BY ONLY <3>2, <3>3
    <3> QED
      BY ONLY <1>4, <1>13, <3>3, <3>4
  <2>6. i \in 1 .. w /\ 3 + i = f
    BY <1>4, <1>8, <1>21, <2>5
  <2>7. q[i] = d
    BY <2>4
  <2> HIDE DEF i
  <2>8. s[f] = d
    BY <1>8, <2>6, <2>7
  <2>9. Find(s, at, <<d>>) = f /\ Found(s, at, <<d>>)
    <3>1. at > 0
      BY <1>12, <1>4
    <3> QED
      BY ONLY <1>10, <1>15, <1>21, <1>23, <2>8, <3>1, FindOne DEF l
  <2>10. Find(s, at, <<d>>) = at + 1 + o
    BY <2>9 DEF f
  <2>11. EndOf(s, at, 2 + Len(Target(r))) = at + 1 + o
    BY <2>9, <2>10 DEF EndOf, d
  <2> QED
    BY <1>14, <1>18, <1>20, <2>11 DEF l, v, o, from, ValueAt
<1>25. CASE k = n
  <2>1. e = w
    BY <1>25, ArgPlaces(r, Q) DEF ArgPlaces, e, n, w, q
  <2>2. ASSUME NEW j \in at .. l PROVE s[j] # d
    <3>1. CASE j <= f - 1
      <4>1. j \in at .. f - 1
        BY <1>14, <1>21, <3>1
      <4> QED
        BY <1>23, <4>1
    <3>2. CASE ~(j <= f - 1)
      <4>1. j \in 4 + w .. l
        BY <1>8, <1>10, <1>14, <1>21, <2>1, <3>2
      <4> QED
        BY <1>8, <1>22, <4>1
    <3> QED
      BY <3>1, <3>2
  <2>3. ~Found(s, at, <<d>>)
    <3> SUFFICES ASSUME Found(s, at, <<d>>) PROVE FALSE
      OBVIOUS
    <3> DEFINE j == Find(s, at, <<d>>)
               c == <<d>>
    <3>1. at \in 1 .. l + 1
      BY <1>4, <1>10, <1>12, <1>14
    <3>2. j <= l
      BY DEF Found, l
    <3>3. j \in at .. l + 1 /\ (j <= l => At(s, j, c))
      <4> HIDE DEF c
      <4> QED
        BY <1>10, <3>1, FindFacts DEF l, c
    <3> HIDE DEF j
    <3>4. j \in Nat /\ j \in at .. l
      BY <1>10, <1>14, <3>2, <3>3
    <3>5. s[j] = d
      BY <1>10, <3>2, <3>3, <3>4, AtOne
    <3> QED
      BY <2>2, <3>4, <3>5
  <2>4. 2 + Len(Target(r)) + 1 = at + 1 + o
    BY ONLY <1>4, <1>13, <1>9, <1>15, <2>1
  <2>5. EndOf(s, at, 2 + Len(Target(r))) = at + 1 + o
    BY <2>3, <2>4 DEF EndOf, d
  <2> QED
    BY <1>14, <1>18, <1>20, <2>5 DEF l, v, o, from, ValueAt
<1> QED
  <2>1. k < n \/ k = n
    BY <1>2, <1>3
  <2> QED
    BY <1>24, <1>25, <2>1

\* With an argument, the first question mark is the one behind the path.
LEMMA QueryFound ==
    ASSUME NEW r, Framed(r), Plain(r), NEW s, Beginning(s, r), Len(s) >= HeadEnd(r),
           r.args # <<>>
    PROVE  Find(s, 3, <<"?">>) = 4 /\ 4 <= Len(s)
<1> DEFINE n == Len(r.args)
           q == Query(r.args)
           w == Len(q)
           l == Len(s)
           d == "?"
           k == 1
           from == 3
           to == 4
<1>1. PICK Q : ArgPlaces(r, Q)
  BY ArgsPlaced
<1>2. k \in 1 .. n /\ k - 1 = 0
  <2>1. r.args \in Seq([name : Words, value : Seq(Words)])
    BY DEF Framed
  <2>2. n \in Nat /\ n # 0
    BY <2>1
  <2> HIDE DEF n
  <2> QED
    BY <2>2
<1>3. Mark(k) = d
  BY DEF Mark
<1> HIDE DEF k
<1>4. /\ Q[k - 1] \in Nat /\ Q[k] \in Nat /\ Len(r.args[k].value) \in Nat
      /\ Q[k] = Q[k - 1] + 2 + Len(r.args[k].value) /\ Q[k] <= w
  BY <1>1, <1>2, ArgTokens
<1>5. q[Q[k - 1] + 1] = Mark(k)
  BY <1>1, <1>2, ArgTokens
<1>6. Q[k - 1] = 0
  BY <1>1, <1>2 DEF ArgPlaces
<1>7. q[1] = d
  BY <1>3, <1>5, <1>6
<1>8. /\ w \in Nat /\ 3 + w < l /\ s[3] # d
      /\ \A j \in 1 .. w : s[3 + j] = q[j]
  BY QueryHere
<1>9. s \in Seq(Tokens) /\ l \in Nat
  BY BeginningText
<1>10. w \in Nat /\ l \in Nat /\ 3 + w < l
  BY <1>8, <1>9
<1> HIDE DEF w, l, d, n, q
<1>11. 1 \in 1 .. w /\ 3 + 1 = to /\ to <= l
  <2> DEFINE c == Len(r.args[k].value)
             g == Q[k]
  <2>1. g \in Nat /\ c \in Nat /\ g = Q[k - 1] + 2 + c /\ g <= w
    BY <1>4
  <2> HIDE DEF c, g
  <2>2. g = 2 + c
    BY ONLY <1>6, <2>1
  <2> QED
    BY ONLY <1>10, <2>1, <2>2
<1>12. s[to] = d
  BY <1>7, <1>8, <1>11
<1>13. from \in Nat /\ from > 0 /\ to \in Nat /\ from <= to
  OBVIOUS
<1>14. \A j \in from .. to - 1 : s[j] # d
  BY <1>8
<1> HIDE DEF from, to
<1>15. Find(s, from, <<d>>) = to
  BY ONLY <1>9, <1>11, <1>12, <1>13, <1>14, FindOne DEF l
<1> QED
  BY <1>11, <1>15 DEF from, to, l, d

\* The argument of a name, or that there is none.
LEMMA GetVarIs ==
    ASSUME NEW r, Framed(r), Plain(r), NEW s, Beginning(s, r), Len(s) >= HeadEnd(r),
           r.args # <<>>, NEW name \in DOMAIN MaxValue,
           NEW msg, msg.text = s, msg.first = 3, msg.last = 2 + Len(Target(r))
    PROVE  /\ GetVar(msg, name) = IF Args(r, name) = {} THEN [code |-> "absent", value |-> <<>>]
                                  ELSE [code |-> "found", value |-> Arg(r, name)]
           /\ Args(r, name) # {} => Arg(r, name) # <<>>
<1> DEFINE query == Find(s, 3, <<"?">>)
           at == Find(s, 4, <<name>>)
           l == Len(s)
           length == ValueEnd(msg, at) - (at + 1)
<1>1. query = 4 /\ 4 <= l /\ l \in Nat
  BY QueryFound, BeginningText
<1>2. GetVar(msg, name) =
         IF at > l THEN [code |-> "absent", value |-> <<>>]
         ELSE IF length \notin 1 .. MaxValue[name] THEN [code |-> "error", value |-> <<>>]
         ELSE [code |-> "found", value |-> SubSeq(s, at + 1, at + length)]
  <2>1. ~(query > l)
    BY <1>1
  <2>2. Find(msg.text, msg.first, <<"?">>) = 4
    BY <1>1
  <2> QED
    BY <1>1, <2>1, <2>2 DEF GetVar
<1>3. CASE Args(r, name) = {}
  <2>1. at = l + 1
    BY <1>3, NoArg
  <2>2. at > l
    <3> HIDE DEF at, l
    <3> QED
      BY <1>1, <2>1
  <2> HIDE DEF at, l, length
  <2> QED
    BY <1>2, <1>3, <2>2
<1>4. CASE Args(r, name) # {}
  <2>1. PICK k \in 1 .. Len(r.args) :
           /\ r.args[k].name = name /\ Arg(r, name) = r.args[k].value
           /\ \A j \in 1 .. k - 1 : r.args[j].name # name
    BY <1>4, FirstArg
  <2>2. PICK Q : ArgPlaces(r, Q)
    BY ArgsPlaced
  <2> DEFINE v == r.args[k].value
             o == Len(v)
             a == Q[k - 1] + 5
  <2>3. /\ a \in Nat /\ at = a /\ a <= l
        /\ EndOf(s, a, 2 + Len(Target(r))) = a + 1 + o
        /\ SubSeq(s, a + 1, a + o) = v
    <3> HIDE DEF a
    <3>1. FirstOf(r, name, k, Q, a)
      BY <2>1 DEF FirstOf, a
    <3> HIDE DEF v, o, at, l
    <3>2. a \in Nat /\ at = a /\ a <= l
      BY <2>2, <3>1, ArgFound DEF at, l
    <3>3. ValueAt(s, a, r.args[k].value, 2 + Len(Target(r)))
      BY <2>2, <3>1, ArgFound
    <3> QED
      BY <3>2, <3>3 DEF ValueAt, o, v
  <2> HIDE DEF a
  <2>4. ValueEnd(msg, at) = a + 1 + o
    <3> HIDE DEF at, o, v
    <3>1. ValueEnd(msg, at) = EndOf(s, at, 2 + Len(Target(r)))
      BY DEF ValueEnd, EndOf
    <3> QED
      BY <2>3, <3>1
  <2>5. v \in Seq(Tokens) /\ o \in Nat /\ k \in DOMAIN r.args
    BY FramedTypes
  <2>6. o \in 1 .. MaxValue[name]
    BY <2>1, <2>5 DEF Plain
  <2>7. length = o
    <3>1. at = a /\ a \in Nat
      BY <2>3
    <3> HIDE DEF at, o, v
    <3> QED
      BY ONLY <2>4, <2>5, <3>1
  <2>8. v # <<>>
    <3>1. o # 0
      BY <2>6
    <3> QED
      BY <3>1
  <2>9. ~(at > l)
    <3> HIDE DEF at, l
    <3> QED
      BY <1>1, <2>3
  <2>10. SubSeq(s, at + 1, at + length) = v
    <3> HIDE DEF length, at, o, v
    <3> QED
      BY <2>3, <2>7
  <2> HIDE DEF at, l, length, o, v
  <2>11. GetVar(msg, name) = [code |-> "found", value |-> v]
    BY <1>2, <2>6, <2>7, <2>9, <2>10
  <2>12. Arg(r, name) = v
    BY <2>1 DEF v
  <2> QED
    BY <1>4, <2>8, <2>11, <2>12
<1> QED
  BY <1>3, <1>4

\* A text of one token, compared.
LEMMA OneIs ==
    ASSUME NEW T, NEW p \in Seq(T), Len(p) = 1, NEW a
    PROVE  p = <<a>> <=> p[1] = a
<1>1. p = <<a>> => p[1] = a
  OBVIOUS
<1>2. ASSUME p[1] = a PROVE p = <<a>>
  <2> DEFINE e == <<a>>
  <2>1. a \in T
    BY <1>2
  <2>2. e \in Seq(T) /\ Len(e) = 1 /\ e[1] = a
    BY <2>1, TupleOne
  <2> HIDE DEF e
  <2>3. \A i \in 1 .. 1 : p[i] = e[i]
    BY <1>2, <2>2
  <2>4. p = e
    BY <2>2, <2>3
  <2> QED
    BY <2>4 DEF e
<1> QED
  BY <1>1, <1>2

\* The URI starts with a target if that is the path.
LEMMA PathMatched ==
    ASSUME NEW r, Framed(r), Plain(r), NEW s, Beginning(s, r), Len(s) >= HeadEnd(r),
           NEW msg, msg.text = s, msg.first = 3, msg.last = 2 + Len(Target(r))
    PROVE  /\ \A a : MatchUri(msg, <<a>>) <=> r.path = <<a>>
           /\ Uri(msg) = <<"/">> <=> r.path = <<"/">>
<1> DEFINE t == Target(r)
           p == r.path
           w == Len(Query(r.args))
<1>1. SubSeq(s, 3, 2 + Len(t)) = t /\ t[1] = p[1] /\ Len(t) = 1 + w /\ w \in Nat
  BY QueryHere
<1>2. Uri(msg) = t
  BY <1>1 DEF Uri
<1>3. t \in Seq(Tokens) /\ p \in Seq(Tokens) /\ Len(p) = 1
  BY Layout, FramedTypes DEF Plain
<1>4. Len(t) \in Nat /\ Len(t) >= 1
  <2> HIDE DEF w, t
  <2> QED
    BY <1>1, <1>3
<1> HIDE DEF t, p, w
<1>5. ASSUME NEW a PROVE MatchUri(msg, <<a>>) <=> p = <<a>>
  <2> DEFINE one == 1
             d == <<a>>
  <2>1. Len(d) = 1 /\ one \in Nat /\ one <= Len(t)
    BY <1>4
  <2>2. At(t, one, d) <=> one <= Len(t) /\ t[one] = a
    <3> HIDE DEF one
    <3> QED
      BY <1>3, <2>1, AtOne
  <2>3. t[one] = p[1]
    BY <1>1
  <2>4. MatchUri(msg, d) <=> At(t, 1, d)
    <3> HIDE DEF d
    <3> QED
      BY <1>2, <1>4, <2>1 DEF MatchUri, StartsWith
  <2>5. p = <<a>> <=> p[1] = a
    BY ONLY <1>3, OneIs
  <2>6. MatchUri(msg, <<a>>) <=> t[one] = a
    BY <2>1, <2>2, <2>4
  <2> HIDE DEF one, d
  <2> QED
    BY <2>3, <2>5, <2>6
<1> DEFINE d == "/"
           e == <<d>>
<1>6. ASSUME t = e PROVE p = e
  <2>1. e[1] = d
    OBVIOUS
  <2> HIDE DEF d
  <2>2. p[1] = d
    BY <1>1, <1>6, <2>1
  <2> QED
    BY ONLY <1>3, <2>2, OneIs
<1>7. ASSUME p = e PROVE t = e
  <2>1. r.args = <<>>
    BY <1>7 DEF Plain, p
  <2>2. PICK Q : ArgPlaces(r, Q)
    BY ArgsPlaced
  <2>3. Q[0] = 0 /\ Q[Len(r.args)] = w /\ Len(r.args) = 0
    BY <2>1, <2>2 DEF ArgPlaces, w
  <2>4. Len(t) = 1
    BY <1>1, <2>3
  <2>5. e[1] = d
    OBVIOUS
  <2> HIDE DEF d
  <2>6. t[1] = d
    BY <1>1, <1>7, <2>5
  <2> QED
    BY ONLY <1>3, <2>4, <2>6, OneIs
<1> QED
  BY <1>2, <1>5, <1>6, <1>7 DEF p

\* What a handler reads of its arguments.
LEMMA ArgRead ==
    ASSUME NEW r, Framed(r), Plain(r), NEW s, Beginning(s, r), Len(s) >= HeadEnd(r),
           r.args # <<>>, NEW name \in DOMAIN MaxValue,
           NEW msg, msg.text = s, msg.first = 3, msg.last = 2 + Len(Target(r))
    PROVE  /\ GetVar(msg, name).code = "absent" <=> Args(r, name) = {}
           /\ Args(r, name) # {} => /\ GetVar(msg, name).value = Arg(r, name)
                                    /\ Name(GetVar(msg, name)) = Arg(r, name)
<1> DEFINE v == GetVar(msg, name)
           a == Arg(r, name)
           none == Args(r, name) = {}
<1>1. v = IF none THEN [code |-> "absent", value |-> <<>>] ELSE [code |-> "found", value |-> a]
  BY GetVarIs
<1>2. ~none => a # <<>>
  BY GetVarIs
<1> HIDE DEF v, a, none
<1>3. v.code = "absent" <=> none
  BY <1>1
<1>4. ~none => v.value = a
  BY <1>1
<1>5. ~none => Name(v) = a
  BY <1>2, <1>4 DEF Name
<1> QED
  BY <1>3, <1>4, <1>5 DEF v, a, none

\* handle_http_message picks the call the request asks for.
LEMMA HandlesAsAsked ==
    ASSUME NEW r, Framed(r), Plain(r), NEW s, Beginning(s, r), Len(s) >= HeadEnd(r)
    PROVE  Handle(Message(s, <<r.method>>, 3, 2 + Len(Target(r)), r.body)) = Asks(r)
<1> DEFINE msg == Message(s, <<r.method>>, 3, 2 + Len(Target(r)), r.body)
           p == r.path
           post == r.method = "POST"
<1>1. /\ msg.text = s /\ msg.first = 3 /\ msg.last = 2 + Len(Target(r))
      /\ msg.method = <<r.method>> /\ msg.body = r.body
  BY DEF Message
<1> HIDE DEF msg
<1>2. /\ \A a : MatchUri(msg, <<a>>) <=> p = <<a>>
      /\ Uri(msg) = <<"/">> <=> p = <<"/">>
  BY <1>1, PathMatched
<1>3. MatchVerb(msg.method, <<"POST">>) <=> post
  <2> DEFINE d == "POST"
             e == r.method
  <2>1. <<e>> = <<d>> <=> e = d
    <3> HIDE DEF d, e
    <3> QED
      OBVIOUS
  <2> QED
    BY <1>1, <2>1 DEF MatchVerb
<1>4. "res=" \in DOMAIN MaxValue /\ "img_id=" \in DOMAIN MaxValue /\ "name=" \in DOMAIN MaxValue
  BY Names
<1>5. TakesArgs(r) => r.args # <<>>
  BY DEF Plain
<1>6. ASSUME p = <<"/imgfs/insert">>, post
      PROVE  InsertCall(msg) = IF Args(r, "name=") = {} THEN Refused("INVALID_ARGUMENT")
                               ELSE Call("insert", Arg(r, "name="), "none", r.body)
  <2>1. r.args # <<>>
    BY <1>5, <1>6 DEF TakesArgs
  <2> DEFINE name == "name="
  <2>2. name \in DOMAIN MaxValue
    BY <1>4
  <2> HIDE DEF name
  <2>3. /\ GetVar(msg, name).code = "absent" <=> Args(r, name) = {}
        /\ Args(r, name) # {} => Name(GetVar(msg, name)) = Arg(r, name)
    BY <1>1, <2>1, <2>2, ArgRead
  <2> QED
    BY <1>1, <2>3 DEF InsertCall, name
<1>7. ASSUME p = <<"/imgfs/delete">>
      PROVE  DeleteCall(msg) = IF Args(r, "img_id=") = {} THEN Refused("INVALID_ARGUMENT")
                               ELSE Call("delete", Arg(r, "img_id="), "none", <<>>)
  <2>1. r.args # <<>>
    BY <1>5, <1>7 DEF TakesArgs
  <2> DEFINE name == "img_id="
  <2>2. name \in DOMAIN MaxValue
    BY <1>4
  <2> HIDE DEF name
  <2>3. /\ GetVar(msg, name).code = "absent" <=> Args(r, name) = {}
        /\ Args(r, name) # {} => Name(GetVar(msg, name)) = Arg(r, name)
    BY <1>1, <2>1, <2>2, ArgRead
  <2> QED
    BY <2>3 DEF DeleteCall, name
<1>8. ASSUME p = <<"/imgfs/read">>
      PROVE  ReadCall(msg) = IF {} \in {Args(r, "res="), Args(r, "img_id=")}
                             THEN Refused("INVALID_ARGUMENT")
                             ELSE Call("read", Arg(r, "img_id="), Resolution(Arg(r, "res=")), <<>>)
  <2>1. r.args # <<>>
    BY <1>5, <1>8 DEF TakesArgs
  <2> DEFINE res == "res="
             id == "img_id="
  <2>2. res \in DOMAIN MaxValue /\ id \in DOMAIN MaxValue
    BY <1>4
  <2> HIDE DEF res, id
  <2>3. /\ GetVar(msg, id).code = "absent" <=> Args(r, id) = {}
        /\ Args(r, id) # {} => Name(GetVar(msg, id)) = Arg(r, id)
    BY <1>1, <2>1, <2>2, ArgRead
  <2>4. /\ GetVar(msg, res).code = "absent" <=> Args(r, res) = {}
        /\ Args(r, res) # {} => GetVar(msg, res).value = Arg(r, res)
    BY <1>1, <2>1, <2>2, ArgRead
  <2>5. "absent" \in {GetVar(msg, res).code, GetVar(msg, id).code}
           <=> {} \in {Args(r, res), Args(r, id)}
    BY <2>3, <2>4
  <2>6. {} \notin {Args(r, res), Args(r, id)} =>
           /\ Name(GetVar(msg, id)) = Arg(r, id) /\ GetVar(msg, res).value = Arg(r, res)
    BY <2>3, <2>4
  <2> QED
    BY <2>5, <2>6 DEF ReadCall, res, id
<1> DEFINE file == MatchVerb(Uri(msg), <<"/">>) \/ MatchUri(msg, <<"/index.html">>)
           list == MatchUri(msg, <<"/imgfs/list">>)
           insert == MatchUri(msg, <<"/imgfs/insert">>) /\ MatchVerb(msg.method, <<"POST">>)
           read == MatchUri(msg, <<"/imgfs/read">>)
           delete == MatchUri(msg, <<"/imgfs/delete">>)
<1>9. file <=> p \in {<<"/">>, <<"/index.html">>}
  <2>1. MatchUri(msg, <<"/index.html">>) <=> p = <<"/index.html">>
    BY <1>2
  <2>2. MatchVerb(Uri(msg), <<"/">>) <=> p = <<"/">>
    BY <1>2 DEF MatchVerb
  <2> HIDE DEF p
  <2> QED
    BY <2>1, <2>2
<1>10. list <=> p = <<"/imgfs/list">>
  BY <1>2
<1>11. insert <=> p = <<"/imgfs/insert">> /\ post
  <2>1. MatchUri(msg, <<"/imgfs/insert">>) <=> p = <<"/imgfs/insert">>
    BY <1>2
  <2> QED
    BY <1>3, <2>1
<1>12. read <=> p = <<"/imgfs/read">>
  BY <1>2
<1>13. delete <=> p = <<"/imgfs/delete">>
  BY <1>2
<1>14. Handle(msg) =
          CASE file -> Call("file", Blank, "none", <<>>)
            [] list -> Call("list", Blank, "none", <<>>)
            [] insert -> InsertCall(msg)
            [] read -> ReadCall(msg)
            [] delete -> DeleteCall(msg)
            [] OTHER -> Refused("INVALID_COMMAND")
  BY DEF Handle
<1> HIDE DEF file, list, insert, read, delete, p, post
<1>15. Asks(r) =
          CASE p \in {<<"/">>, <<"/index.html">>} -> Call("file", Blank, "none", <<>>)
            [] p = <<"/imgfs/list">> -> Call("list", Blank, "none", <<>>)
            [] p = <<"/imgfs/insert">> /\ post -> InsertCall(msg)
            [] p = <<"/imgfs/read">> -> ReadCall(msg)
            [] p = <<"/imgfs/delete">> -> DeleteCall(msg)
            [] OTHER -> Refused("INVALID_COMMAND")
  BY <1>6, <1>7, <1>8 DEF Asks, p, post
<1>16. Handle(msg) = Asks(r)
  BY <1>9, <1>10, <1>11, <1>12, <1>13, <1>14, <1>15
<1> QED
  BY <1>16 DEF msg

\* A request that is sent leaves the calls made before as they are.
LEMMA AskUnderstood ==
    ASSUME ConnectionInv, Understood, NEW r \in Requests, Ask(r)
    PROVE  Understood'
<1>1. asked' = Append(asked, r) /\ calls' = calls
  BY DEF Ask
<1>2. PICK C : calls \in Seq(C)
  BY DEF ConnectionInv, Types
<1>3. asked \in Seq(Requests)
  BY DEF ConnectionInv, Types
<1>4. Len(calls) <= Len(asked) /\ \A k \in DOMAIN calls : calls[k] = Asks(asked[k])
  BY DEF Understood
<1>5. /\ Len(asked') = Len(asked) + 1 /\ Len(asked) \in Nat /\ Len(calls) \in Nat
      /\ \A k \in 1 .. Len(asked) : asked'[k] = asked[k]
  BY <1>1, <1>2, <1>3
<1>6. \A k \in DOMAIN calls : k \in 1 .. Len(asked)
  <2>1. DOMAIN calls = 1 .. Len(calls)
    BY <1>2
  <2> QED
    BY <1>4, <1>5, <2>1
<1>7. \A k \in DOMAIN calls : calls[k] = Asks(asked'[k])
  BY <1>4, <1>5, <1>6
<1>8. Len(calls') <= Len(asked')
  <2> DEFINE a == Len(asked)
             c == Len(calls)
  <2>1. a \in Nat /\ c \in Nat /\ c <= a /\ Len(asked') = a + 1
    BY <1>4, <1>5
  <2>2. Len(calls') = c
    BY <1>1
  <2> HIDE DEF a, c
  <2> QED
    BY <2>1, <2>2
<1>9. \A k \in DOMAIN calls' : calls'[k] = Asks(asked'[k])
  BY <1>1, <1>7
<1> QED
  BY <1>8, <1>9 DEF Understood, Asks, Args, Arg

\* A turn of the loop that handles a message makes the call that was asked for.
LEMMA ReadUnderstood ==
    ASSUME \A r \in Requests : Plain(r),
           ConnectionInv, Understood, NEW n \in 1 .. BufferSize, Read(n)
    PROVE  Understood'
<1> DEFINE r == Last
           buf == Terminated(SubSeq(wire, 1, n))
           m == bytes_received + n
           msg == Parse(buf, m)
           call == Handle(msg)
<1>1. Pending /\ r \in Requests /\ Framed(r) /\ Received(buf, m, r)
  BY ReadFinds
<1>2. Plain(r)
  BY <1>1
<1>3. asked' = asked
  BY DEF Read
<1>4. \/ msg.result = 1 /\ calls' = Append(calls, call)
      \/ msg.result # 1 /\ calls' = calls
  BY DEF Read
<1>5. CASE msg.result # 1
  <2>1. calls' = calls
    BY <1>4, <1>5
  <2> QED
    BY <1>3, <2>1 DEF Understood
<1>6. CASE msg.result = 1
  <2>1. calls' = Append(calls, call)
    BY <1>4, <1>6
  <2>2. m = Len(Encoded(r)) /\ msg = Message(Text(buf), <<r.method>>, 3, 2 + Len(Target(r)), r.body)
    <3> HIDE DEF r, buf, m
    <3>1. \/ msg = Incomplete \/ msg = Malformed
          \/ m = Len(Encoded(r)) /\ msg = Message(Text(buf), <<r.method>>, 3, 2 + Len(Target(r)), r.body)
      BY <1>1, ReadParses
    <3>2. msg # Incomplete /\ msg # Malformed
      BY <1>6, Results
    <3> QED
      BY <3>1, <3>2
  <2>3. m >= HeadEnd(r)
    <3> DEFINE h == HeadEnd(r)
               o == Len(r.body)
    <3>1. h \in Nat /\ o \in Nat /\ Len(Encoded(r)) = h + o
      BY <1>1, HeadNumbers
    <3> HIDE DEF h, o, m, r
    <3>2. m >= h
      BY <2>2, <3>1
    <3> QED
      BY <3>2 DEF h
  <2>4. Beginning(Text(buf), r) /\ Len(Text(buf)) >= HeadEnd(r)
    <3> HIDE DEF r, buf, m
    <3> QED
      BY <1>1, <2>3, TextReceived
  <2>5. call = Asks(r)
    <3> HIDE DEF r, buf, m
    <3>1. Handle(Message(Text(buf), <<r.method>>, 3, 2 + Len(Target(r)), r.body)) = Asks(r)
      BY <1>1, <1>2, <2>4, HandlesAsAsked
    <3> QED
      BY <2>2, <3>1
  <2> HIDE DEF call
  <2>6. PICK C : calls \in Seq(C)
    BY DEF ConnectionInv, Types
  <2>7. calls' \in Seq(C \cup {call}) /\ Len(calls') = Len(calls) + 1
    BY <2>1, <2>6, Counts
  <2>8. Len(calls) \in Nat /\ Len(calls) + 1 = Len(asked)
    BY <1>1, <2>6 DEF Pending
  <2>9. ASSUME NEW k \in DOMAIN calls' PROVE calls'[k] = Asks(asked[k])
    <3>1. DOMAIN calls' = 1 .. Len(calls) + 1 /\ DOMAIN calls = 1 .. Len(calls)
      BY <2>6, <2>7
    <3>2. CASE k \in 1 .. Len(calls)
      <4>1. calls'[k] = calls[k]
        BY <2>1, <2>6, <3>2
      <4>2. calls[k] = Asks(asked[k])
        BY <3>1, <3>2 DEF Understood
      <4> QED
        BY <4>1, <4>2
    <3>3. CASE k \notin 1 .. Len(calls)
      <4> DEFINE c == Len(calls)
      <4>1. k = c + 1
        <5>1. c \in Nat /\ k \in 1 .. c + 1 /\ k \notin 1 .. c
          BY <2>8, <2>9, <3>1, <3>3
        <5> HIDE DEF c
        <5> QED
          BY <5>1
      <4>2. calls'[c + 1] = call
        BY <2>1, <2>6
      <4>3. asked[k] = r
        BY <2>8, <4>1 DEF Last
      <4> QED
        BY <2>5, <4>1, <4>2, <4>3
    <3> QED
      BY <3>2, <3>3
  <2>10. Len(calls') <= Len(asked')
    BY <1>3, <2>7, <2>8
  <2> QED
    BY <1>3, <2>9, <2>10 DEF Understood
<1> QED
  BY <1>5, <1>6

\* When no request says a thing twice, what handle_http_message is called for is
\* what was asked, each request once and in order, however TCP cuts them and
\* whatever the earlier ones have left in the buffer.
THEOREM UnderstoodAsAsked ==
    ASSUME \A r \in Requests : Plain(r)
    PROVE  Spec => []Understood
<1>1. Init => Understood
  <2> SUFFICES ASSUME Init PROVE Understood
    OBVIOUS
  <2>1. calls = <<>> /\ asked = <<>>
    BY DEF Init
  <2>2. Len(calls) = 0 /\ Len(asked) = 0 /\ DOMAIN calls = {}
    BY <2>1
  <2> QED
    BY <2>2 DEF Understood
<1>2. ConnectionInv /\ Understood /\ [Next]_vars => Understood'
  <2> SUFFICES ASSUME ConnectionInv, Understood, [Next]_vars PROVE Understood'
    OBVIOUS
  <2>1. CASE \E r \in Requests : Ask(r)
    BY <2>1, AskUnderstood
  <2>2. CASE Leave \/ UNCHANGED vars
    <3>1. calls' = calls /\ asked' = asked
      BY <2>2 DEF Leave, vars
    <3> QED
      BY <3>1 DEF Understood
  <2>3. CASE \E n \in 1 .. BufferSize : Read(n)
    BY <2>3, ReadUnderstood
  <2> QED
    BY <2>1, <2>2, <2>3 DEF Next
<1> QED
  BY <1>1, <1>2, ConnectionHolds, PTL DEF Spec

=============================================================================
