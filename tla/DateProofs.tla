----------------------------- MODULE DateProofs -----------------------------
(***************************************************************************)
(* Proofs about DateFormat, for any patterns and any dates: the             *)
(* substitutions do not get into one another's way, and dates written from  *)
(* the year to the second sort as texts.  What a recursive function has to  *)
(* do with every number or every piece is shown by the least one for which  *)
(* it would fail (Least).                                                   *)
(***************************************************************************)
EXTENDS DateFormat, SequenceTheorems, WellFoundedInduction, TLAPS
-----------------------------------------------------------------------------
(* Numbers and the figures they are written with.                           *)

\* The order of the numbers is well-founded.
LEMMA LessIsWellFounded == IsWellFoundedOn({ss \in Nat \X Nat : ss[1] < ss[2]}, Nat)
BY NatLessThanWellFounded DEF OpToRel

(* The least of a set of numbers: induction, by the least counterexample.   *)
LEMMA Least == ASSUME NEW T \in SUBSET Nat, T # {} PROVE \E x \in T : \A y \in T : x <= y
<1>. DEFINE R == {ss \in Nat \X Nat : ss[1] < ss[2]}
<1>1. IsWellFoundedOn(R, Nat)  BY LessIsWellFounded
<1>. HIDE DEF R
<1>2. PICK x \in T : \A y \in T : ~(<<y, x>> \in R)  BY <1>1, WFMin
<1>3. \A y \in T : ~(y < x)  BY <1>2 DEF R
<1>. QED  BY <1>3

(* Min and Max of sets of numbers.                                          *)
LEMMA MinIs ==
  ASSUME NEW T \in SUBSET Nat, NEW x \in T, \A y \in T : x <= y
  PROVE  Min(T) = x
<1>. DEFINE z == Min(T)
<1>1. z \in T /\ \A y \in T : z <= y  BY DEF Min
<1>. HIDE DEF z
<1>2. z \in Nat /\ x \in Nat  BY <1>1
<1>3. z <= x /\ x <= z  BY <1>1
<1>4. z = x  BY <1>2, <1>3
<1>. QED  BY <1>4 DEF z

LEMMA MaxIs ==
  ASSUME NEW T \in SUBSET Nat, NEW x \in T, \A y \in T : y <= x
  PROVE  Max(T) = x
<1>. DEFINE z == Max(T)
<1>1. z \in T /\ \A y \in T : z >= y  BY DEF Max
<1>. HIDE DEF z
<1>2. z \in Nat /\ x \in Nat  BY <1>1
<1>3. z <= x /\ x <= z  BY <1>1, <1>2
<1>4. z = x  BY <1>2, <1>3
<1>. QED  BY <1>4 DEF z

LEMMA MinOf ==
  ASSUME NEW T \in SUBSET Nat, T # {}
  PROVE  Min(T) \in T /\ \A y \in T : Min(T) <= y
BY Least DEF Min

LEMMA MaxOf ==
  ASSUME NEW n \in Nat, NEW T \in SUBSET (0 .. n), T # {}
  PROVE  Max(T) \in T /\ \A y \in T : y <= Max(T)
<1>. DEFINE U == {u \in Nat : n - u \in T}
<1>1. PICK t \in T : TRUE  OBVIOUS
<1>2. n - t \in U  BY <1>1
<1>3. PICK u \in U : \A y \in U : u <= y  BY <1>2, Least
<1>4. \A y \in T : n - y \in U  OBVIOUS
<1>5. n - u \in T /\ \A y \in T : y <= n - u  BY <1>3, <1>4
<1>. QED  BY <1>5 DEF Max

\* The characters a number is written with.
Digits == ToSet(Figures)

\* The two cases of Decimal.
Ones(m) == <<Figures[m + 1]>>
More(s, m) == Append(s, Figures[(m % 10) + 1])

(* g is Decimal, as far as n. *)
DecimalUpTo(g, n) ==
  /\ g \in [0 .. n -> Seq(Digits)]
  /\ \A m \in 0 .. n : m < 10 => g[m] = Ones(m)
  /\ \A m \in 0 .. n : m >= 10 => g[m] = More(g[m \div 10], m)

LEMMA FiguresAre == ASSUME NEW n \in 0 .. 9 PROVE Figures[n + 1] \in Digits
<1>1. DOMAIN Figures = 1 .. 10  BY DEF Figures
<1>2. n + 1 \in DOMAIN Figures  BY <1>1
<1>. QED  BY <1>2 DEF Digits, ToSet

LEMMA OnesAre == ASSUME NEW n \in 0 .. 9 PROVE Ones(n) \in Seq(Digits)
BY FiguresAre DEF Ones

LEMMA MoreAre == ASSUME NEW n \in Nat, NEW s \in Seq(Digits) PROVE More(s, n) \in Seq(Digits)
<1>1. n % 10 \in 0 .. 9  OBVIOUS
<1>2. Figures[(n % 10) + 1] \in Digits  BY <1>1, FiguresAre
<1>. QED  BY <1>2 DEF More

LEMMA Tenth == ASSUME NEW n \in Nat, n >= 10
               PROVE n \div 10 \in Nat /\ n \div 10 < n
OBVIOUS

LEMMA DecimalsAgree ==
  ASSUME NEW n \in Nat, NEW k \in Nat, NEW g, NEW h, DecimalUpTo(g, n), DecimalUpTo(h, k),
         NEW x \in Nat, x <= n, x <= k
  PROVE  g[x] = h[x]
<1>. SUFFICES ASSUME g[x] # h[x] PROVE FALSE  OBVIOUS
<1>. DEFINE T == {y \in Nat : y <= n /\ y <= k /\ g[y] # h[y]}
<1>1. PICK y \in T : \A z \in T : y <= z  BY Least
<1>2. y \in 0 .. n /\ y \in 0 .. k  OBVIOUS
<1>3. CASE y < 10
  <2>1. g[y] = Ones(y)  BY <1>2, <1>3 DEF DecimalUpTo
  <2>2. h[y] = Ones(y)  BY <1>2, <1>3 DEF DecimalUpTo
  <2>. QED  BY <2>1, <2>2
<1>4. CASE y >= 10
  <2>1. y \div 10 \in Nat /\ y \div 10 < y  BY <1>4, Tenth
  <2>2. y \div 10 \notin T  BY <1>1, <2>1
  <2>3. g[y \div 10] = h[y \div 10]  BY <2>1, <2>2, <1>1
  <2>4. g[y] = More(g[y \div 10], y)  BY <1>2, <1>4 DEF DecimalUpTo
  <2>5. h[y] = More(h[y \div 10], y)  BY <1>2, <1>4 DEF DecimalUpTo
  <2>. QED  BY <2>3, <2>4, <2>5
<1>. QED  BY <1>3, <1>4

LEMMA DecimalsExist == ASSUME NEW n \in Nat PROVE \E g : DecimalUpTo(g, n)
<1>. SUFFICES ASSUME ~ \E g : DecimalUpTo(g, n) PROVE FALSE  OBVIOUS
<1>. DEFINE T == {y \in Nat : ~ \E g : DecimalUpTo(g, y)}
<1>1. PICK y \in T : \A z \in T : y <= z  BY Least
<1>2. CASE y = 0
  <2>. DEFINE g == [m \in 0 .. 0 |-> Ones(m)]
  <2>1. DecimalUpTo(g, 0)  BY OnesAre DEF DecimalUpTo
  <2>. QED  BY <1>1, <1>2, <2>1
<1>3. CASE y # 0
  <2>1. y - 1 \in Nat /\ y - 1 \notin T  BY <1>1, <1>3
  <2>2. PICK g : DecimalUpTo(g, y - 1)  BY <2>1
  <2>. DEFINE last == IF y < 10 THEN Ones(y) ELSE More(g[y \div 10], y)
              h == [m \in 0 .. y |-> IF m < y THEN g[m] ELSE last]
  <2>3. g \in [0 .. (y - 1) -> Seq(Digits)]  BY <2>2 DEF DecimalUpTo
  <2>4. last \in Seq(Digits)
    <3>1. CASE y < 10
      <4>1. y \in 0 .. 9  BY <3>1, <1>1
      <4>2. Ones(y) \in Seq(Digits)  BY <4>1, OnesAre
      <4>. QED  BY <3>1, <4>2
    <3>2. CASE y >= 10
      <4>1. y \div 10 \in 0 .. (y - 1)  BY <3>2, <1>1, Tenth
      <4>2. g[y \div 10] \in Seq(Digits)  BY <4>1, <2>3
      <4>3. More(g[y \div 10], y) \in Seq(Digits)  BY <4>2, <1>1, MoreAre
      <4>. QED  BY <3>2, <4>3
    <3>. QED  BY <3>1, <3>2
  <2>5. y < 10 => last = Ones(y)  OBVIOUS
  <2>6. y >= 10 => last = More(g[y \div 10], y)  OBVIOUS
  <2>. HIDE DEF last
  <2>7. h \in [0 .. y -> Seq(Digits)]  BY <2>3, <2>4
  <2>8. ASSUME NEW m \in 0 .. y, m < 10 PROVE h[m] = Ones(m)
    <3>1. CASE m = y  BY <2>5, <2>8, <3>1
    <3>2. CASE m # y
      <4>1. m \in 0 .. (y - 1)  BY <3>2
      <4>2. g[m] = Ones(m)  BY <2>2, <2>8, <4>1 DEF DecimalUpTo
      <4>. QED  BY <4>1, <4>2
    <3>. QED  BY <3>1, <3>2
  <2>9. ASSUME NEW m \in 0 .. y, m >= 10 PROVE h[m] = More(h[m \div 10], m)
    <3>1. m \in Nat /\ m <= y  OBVIOUS
    <3>2. m \div 10 \in 0 .. y /\ m \div 10 < y  BY <3>1, <2>9, Tenth
    <3>3. h[m \div 10] = g[m \div 10]  BY <3>2
    <3>4. CASE m = y
      <4>1. h[m] = last  BY <3>4
      <4>. QED  BY <4>1, <2>6, <2>9, <3>4, <3>3
    <3>5. CASE m # y
      <4>1. m \in 0 .. (y - 1)  BY <3>5
      <4>2. g[m] = More(g[m \div 10], m)  BY <2>2, <2>9, <4>1 DEF DecimalUpTo
      <4>3. h[m] = g[m]  BY <4>1
      <4>. QED  BY <4>2, <4>3, <3>3
    <3>. QED  BY <3>4, <3>5
  <2>10. DecimalUpTo(h, y)  BY <2>7, <2>8, <2>9 DEF DecimalUpTo
  <2>. QED  BY <1>1, <2>10
<1>. QED  BY <1>2, <1>3

(* The recursion of Decimal is sound: it has the values it is defined by.   *)
LEMMA DecimalIs ==
  /\ \A n \in 0 .. 9 : Decimal[n] = Ones(n)
  /\ \A n \in Nat : n >= 10 => Decimal[n] = More(Decimal[n \div 10], n)
<1>. DEFINE G(n) == CHOOSE g : DecimalUpTo(g, n)
            F == [n \in Nat |-> G(n)[n]]
            W(f) == [n \in Nat |-> IF n < 10 THEN Ones(n) ELSE More(f[n \div 10], n)]
<1>1. \A n \in Nat : DecimalUpTo(G(n), n)  BY DecimalsExist
<1>. HIDE DEF G
<1>2. ASSUME NEW n \in Nat, n < 10 PROVE F[n] = Ones(n)
  <2>1. n \in 0 .. n  OBVIOUS
  <2>2. G(n)[n] = Ones(n)  BY <1>1, <1>2, <2>1 DEF DecimalUpTo
  <2>. QED  BY <2>2
<1>3. ASSUME NEW n \in Nat, n >= 10 PROVE F[n] = More(F[n \div 10], n)
  <2>1. n \div 10 \in Nat /\ n \div 10 <= n  BY <1>3, Tenth
  <2>2. G(n)[n \div 10] = G(n \div 10)[n \div 10]  BY <1>1, <2>1, DecimalsAgree
  <2>3. n \in 0 .. n  OBVIOUS
  <2>4. G(n)[n] = More(G(n)[n \div 10], n)  BY <1>1, <1>3, <2>3 DEF DecimalUpTo
  <2>5. F[n] = G(n)[n] /\ F[n \div 10] = G(n \div 10)[n \div 10]  BY <2>1
  <2>. QED  BY <2>2, <2>4, <2>5
<1>4. F = W(F)
  <2>1. F = [n \in Nat |-> F[n]]  OBVIOUS
  <2>. HIDE DEF F
  <2>2. \A n \in Nat : W(F)[n] = F[n]  BY <1>2, <1>3
  <2>3. W(F) = [n \in Nat |-> W(F)[n]]  OBVIOUS
  <2>. HIDE DEF W
  <2>. QED  BY <2>1, <2>2, <2>3
<1>5. Decimal = CHOOSE f : f = W(f)  BY DEF Decimal, Ones, More
<1>. HIDE DEF W, F
<1>6. Decimal = W(Decimal)  BY <1>4, <1>5
<1>7. \A n \in Nat : Decimal[n] = IF n < 10 THEN Ones(n) ELSE More(Decimal[n \div 10], n)
  BY <1>6 DEF W
<1>. QED  BY <1>7
LEMMA Added ==
  ASSUME NEW S, NEW s \in Seq(S), NEW x \in S
  PROVE  /\ Append(s, x) \in Seq(S) /\ Len(Append(s, x)) = Len(s) + 1
         /\ \A i \in 1 .. Len(s) : Append(s, x)[i] = s[i]
         /\ Append(s, x)[Len(s) + 1] = x
BY AppendProperties

LEMMA DecimalMore ==
  ASSUME NEW m \in Nat \ {0}, NEW e \in 0 .. 9
  PROVE  Decimal[10 * m + e] = Append(Decimal[m], Figures[e + 1])
<1>. DEFINE n == 10 * m + e
<1>1. n \in Nat /\ n >= 10 /\ n \div 10 = m /\ n % 10 = e  BY SMT
<1>. HIDE DEF n
<1>2. Decimal[n] = More(Decimal[n \div 10], n)  BY <1>1, DecimalIs
<1>3. Decimal[n] = Append(Decimal[m], Figures[e + 1])  BY <1>1, <1>2 DEF More
<1>. QED  BY <1>3 DEF n

LEMMA LastFigure ==
  ASSUME NEW n \in Nat, n >= 10
  PROVE  \E m, e : m \in Nat \ {0} /\ e \in 0 .. 9 /\ n = 10 * m + e /\ m < n
<1>. DEFINE m == n \div 10
           e == n % 10
<1>1. m \in Nat \ {0} /\ e \in 0 .. 9 /\ n = 10 * m + e /\ m < n  BY SMT
<1>. HIDE DEF m, e
<1>. QED  BY <1>1

LEMMA DecimalOne ==
  ASSUME NEW e \in 0 .. 9
  PROVE  Decimal[e] \in Seq(Digits) /\ Len(Decimal[e]) = 1 /\ Decimal[e][1] = Figures[e + 1]
<1>1. Decimal[e] = <<Figures[e + 1]>>  BY DecimalIs DEF Ones
<1>. QED  BY <1>1, FiguresAre

LEMMA DecimalTypes ==
  ASSUME NEW n \in Nat PROVE Decimal[n] \in Seq(Digits) /\ Len(Decimal[n]) > 0
<1>. DEFINE T == {y \in Nat : ~ (Decimal[y] \in Seq(Digits) /\ Len(Decimal[y]) > 0)}
<1>1. SUFFICES ASSUME T # {} PROVE FALSE  OBVIOUS
<1>2. PICK y \in T : \A z \in T : y <= z  BY <1>1, Least
<1>3. CASE y < 10
  <2>1. y \in 0 .. 9  BY <1>3
  <2>2. Decimal[y] \in Seq(Digits) /\ Len(Decimal[y]) = 1  BY <2>1, DecimalOne
  <2>3. Len(Decimal[y]) > 0  BY <2>2
  <2>. QED  BY <2>2, <2>3, <1>2, Zenon
<1>4. CASE y >= 10
  <2>1. PICK m, e : m \in Nat \ {0} /\ e \in 0 .. 9 /\ y = 10 * m + e /\ m < y  BY <1>4, LastFigure
  <2>2. m \notin T /\ m \in Nat  BY <1>2, <2>1
  <2>3. Decimal[m] \in Seq(Digits)  BY <2>2
  <2>4. Figures[e + 1] \in Digits  BY <2>1, FiguresAre
  <2>5. Decimal[y] = Append(Decimal[m], Figures[e + 1])  BY <2>1, DecimalMore
  <2>6. Decimal[y] \in Seq(Digits) /\ Len(Decimal[y]) = Len(Decimal[m]) + 1
    BY <2>3, <2>4, <2>5, Added
  <2>7. Len(Decimal[m]) \in Nat  BY <2>3
  <2>. QED  BY <2>6, <2>7
<1>. QED  BY <1>3, <1>4

LEMMA DecimalTwo ==
  ASSUME NEW c \in 1 .. 9, NEW e \in 0 .. 9
  PROVE  /\ Decimal[10 * c + e] \in Seq(Digits) /\ Len(Decimal[10 * c + e]) = 2
         /\ Decimal[10 * c + e][1] = Figures[c + 1] /\ Decimal[10 * c + e][2] = Figures[e + 1]
<1>1. Decimal[10 * c + e] = Append(Decimal[c], Figures[e + 1])
  <2>1. c \in Nat \ {0}  OBVIOUS
  <2>. QED  BY <2>1, DecimalMore
<1>2. Decimal[c] \in Seq(Digits) /\ Len(Decimal[c]) = 1 /\ Decimal[c][1] = Figures[c + 1]
  <2>1. c \in 0 .. 9  OBVIOUS
  <2>. QED  BY <2>1, DecimalOne
<1>3. Figures[e + 1] \in Digits  BY FiguresAre
<1>. QED  BY <1>1, <1>2, <1>3, Added

\* n is written with the figures for a, b, c and e.
FourFigures(n, a, b, c, e) ==
  /\ a \in 1 .. 9 /\ b \in 0 .. 9 /\ c \in 0 .. 9 /\ e \in 0 .. 9
  /\ n = 1000 * a + 100 * b + 10 * c + e

LEMMA YearFigures == ASSUME NEW n \in Nat, 1000 <= n, n <= 9999
                     PROVE \E a, b, c, e : FourFigures(n, a, b, c, e)
<1>0. n >= 10  BY SMT
<1>1. PICK m, e : m \in Nat \ {0} /\ e \in 0 .. 9 /\ n = 10 * m + e /\ m < n  BY <1>0, LastFigure
<1>2. 100 <= m /\ m <= 999 /\ m >= 10 /\ m \in Nat  BY <1>1
<1>3. PICK k, c : k \in Nat \ {0} /\ c \in 0 .. 9 /\ m = 10 * k + c /\ k < m  BY <1>2, LastFigure
<1>4. 10 <= k /\ k <= 99 /\ k >= 10 /\ k \in Nat  BY <1>2, <1>3
<1>5. PICK a, b : a \in Nat \ {0} /\ b \in 0 .. 9 /\ k = 10 * a + b /\ a < k  BY <1>4, LastFigure
<1>6. a \in 1 .. 9  BY <1>4, <1>5
<1>7. n = 1000 * a + 100 * b + 10 * c + e  BY <1>1, <1>3, <1>5, <1>6
<1>8. FourFigures(n, a, b, c, e)  BY <1>1, <1>3, <1>5, <1>6, <1>7 DEF FourFigures
<1>. QED  BY <1>8

LEMMA DecimalFour ==
  ASSUME NEW n, NEW a, NEW b, NEW c, NEW e, FourFigures(n, a, b, c, e)
  PROVE  /\ Decimal[n] \in Seq(Digits) /\ Len(Decimal[n]) = 4
         /\ Decimal[n][1] = Figures[a + 1] /\ Decimal[n][2] = Figures[b + 1]
         /\ Decimal[n][3] = Figures[c + 1] /\ Decimal[n][4] = Figures[e + 1]
<1>1. a \in 1 .. 9 /\ b \in 0 .. 9 /\ c \in 0 .. 9 /\ e \in 0 .. 9  BY DEF FourFigures
<1>. DEFINE k == 10 * a + b
           m == 10 * k + c
<1>2. k \in Nat \ {0}  BY <1>1
<1>3. m \in Nat \ {0}  BY <1>1, <1>2
<1>4. n = 10 * m + e  BY <1>1 DEF FourFigures
<1>5. /\ Decimal[k] \in Seq(Digits) /\ Len(Decimal[k]) = 2
      /\ Decimal[k][1] = Figures[a + 1] /\ Decimal[k][2] = Figures[b + 1]
  BY <1>1, DecimalTwo
<1>. HIDE DEF k
<1>6. Decimal[m] = Append(Decimal[k], Figures[c + 1])  BY <1>1, <1>2, DecimalMore
<1>. HIDE DEF m
<1>7. Decimal[n] = Append(Decimal[m], Figures[e + 1])  BY <1>1, <1>3, <1>4, DecimalMore
<1>8. Figures[c + 1] \in Digits /\ Figures[e + 1] \in Digits  BY <1>1, FiguresAre
<1>9. /\ Decimal[m] \in Seq(Digits) /\ Len(Decimal[m]) = 3
      /\ Decimal[m][1] = Decimal[k][1] /\ Decimal[m][2] = Decimal[k][2]
      /\ Decimal[m][3] = Figures[c + 1]
  BY <1>5, <1>6, <1>8, Added
<1>10. /\ Decimal[n] \in Seq(Digits) /\ Len(Decimal[n]) = 4
       /\ Decimal[n][1] = Decimal[m][1] /\ Decimal[n][2] = Decimal[m][2]
       /\ Decimal[n][3] = Decimal[m][3] /\ Decimal[n][4] = Figures[e + 1]
  BY <1>7, <1>8, <1>9, Added
<1>. QED  BY <1>5, <1>9, <1>10
-----------------------------------------------------------------------------
(* The letters, and what is put in for them.                                *)
Letters == {"y", "M", "d", "H", "m", "s", "q", "S"}

LEMMA LettersAre == ToSet(Keys) = Letters
<1>1. DOMAIN Keys = 1 .. 8  BY DEF Keys
<1>2. Letters \subseteq ToSet(Keys)
  <2>1. \A i \in 1 .. 8 : Keys[i] \in ToSet(Keys)  BY <1>1 DEF ToSet
  <2>2. /\ Keys[1] = "y" /\ Keys[2] = "M" /\ Keys[3] = "d" /\ Keys[4] = "H"
        /\ Keys[5] = "m" /\ Keys[6] = "s" /\ Keys[7] = "q" /\ Keys[8] = "S"
    BY DEF Keys
  <2>. QED  BY <2>1, <2>2 DEF Letters
<1>3. \A i \in 1 .. 8 : Keys[i] \in Letters  BY DEF Keys, Letters
<1>. QED  BY <1>1, <1>2, <1>3 DEF ToSet

LEMMA DigitsAre == Digits = {"0", "1", "2", "3", "4", "5", "6", "7", "8", "9"}
<1>1. DOMAIN Figures = 1 .. 10  BY DEF Figures
<1>2. \A i \in 1 .. 10 : Figures[i] \in {"0", "1", "2", "3", "4", "5", "6", "7", "8", "9"}
  BY DEF Figures
<1>3. \A i \in 1 .. 10 : Figures[i] \in Digits  BY <1>1 DEF ToSet, Digits
<1>4. /\ Figures[1] = "0" /\ Figures[2] = "1" /\ Figures[3] = "2" /\ Figures[4] = "3"
      /\ Figures[5] = "4" /\ Figures[6] = "5" /\ Figures[7] = "6" /\ Figures[8] = "7"
      /\ Figures[9] = "8" /\ Figures[10] = "9"
  BY DEF Figures
<1>5. {"0", "1", "2", "3", "4", "5", "6", "7", "8", "9"} \subseteq Digits  BY <1>3, <1>4
<1>. QED  BY <1>1, <1>2, <1>5 DEF Digits, ToSet

LEMMA DigitsNoLetters == Digits \intersect Letters = {}
BY DigitsAre DEF Letters

LEMMA YearRange == ASSUME NEW n \in 1000 .. 9999 PROVE n \in Nat /\ 1000 <= n /\ n <= 9999
BY SMT

\* The fields of a date.
LEMMA DateFieldsAre ==
  ASSUME NEW d \in DateRec
  PROVE  /\ d.year \in Nat /\ 1000 <= d.year /\ d.year <= 9999
         /\ d.month \in Nat /\ d.month <= 11 /\ d.day \in Nat /\ d.day <= 31
         /\ d.hours \in Nat /\ d.hours <= 23 /\ d.minutes \in Nat /\ d.minutes <= 59
         /\ d.seconds \in Nat /\ d.seconds <= 59 /\ d.ms \in Nat
<1>1. d.year \in Nat /\ 1000 <= d.year /\ d.year <= 9999
  <2>. DEFINE Years == 1000 .. 9999
              IsYear(n) == n \in Nat /\ 1000 <= n /\ n <= 9999
  <2>1. d.year \in Years  BY SMTT(30) DEF DateRec
  <2>2. \A n \in Years : IsYear(n)  BY YearRange, SMT
  <2>. HIDE DEF Years, IsYear
  <2>3. IsYear(d.year)  BY <2>1, <2>2, Zenon
  <2>. QED  BY <2>3, SMT DEF IsYear
<1>2. d.month \in Nat /\ d.month <= 11
  <2>1. d.month \in 0 .. 11  BY SMT DEF DateRec
  <2>. QED  BY <2>1, SMT
<1>3. d.day \in Nat /\ d.day <= 31
  <2>1. d.day \in 1 .. 31  BY SMT DEF DateRec
  <2>. QED  BY <2>1, SMT
<1>4. d.hours \in Nat /\ d.hours <= 23
  <2>1. d.hours \in 0 .. 23  BY SMT DEF DateRec
  <2>. QED  BY <2>1, SMT
<1>5. d.minutes \in Nat /\ d.minutes <= 59
  <2>1. d.minutes \in 0 .. 59  BY SMT DEF DateRec
  <2>. QED  BY <2>1, SMT
<1>6. d.seconds \in Nat /\ d.seconds <= 59
  <2>1. d.seconds \in 0 .. 59  BY SMT DEF DateRec
  <2>. QED  BY <2>1, SMT
<1>7. d.ms \in Nat
  <2>1. d.ms \in 0 .. 999  BY SMT DEF DateRec
  <2>. QED  BY <2>1, SMT
<1>. QED  BY <1>1, <1>2, <1>3, <1>4, <1>5, <1>6, <1>7

LEMMA FieldIs ==
  ASSUME NEW d
  PROVE  /\ Field("y", d) = d.year /\ Field("M", d) = d.month + 1 /\ Field("d", d) = d.day
         /\ Field("H", d) = d.hours /\ Field("m", d) = d.minutes /\ Field("s", d) = d.seconds
         /\ Field("q", d) = (d.month + 3) \div 3 /\ Field("S", d) = d.ms
BY DEF Field

LEMMA FieldTypes ==
  ASSUME NEW d \in DateRec, NEW k \in Letters PROVE Field(k, d) \in Nat
<1>1. /\ d.year \in Nat /\ d.month \in Nat /\ d.day \in Nat /\ d.hours \in Nat
      /\ d.minutes \in Nat /\ d.seconds \in Nat /\ d.ms \in Nat
  BY DateFieldsAre
<1>2. (d.month + 3) \div 3 \in Nat /\ d.month + 1 \in Nat  BY <1>1
<1>3. k = "y" \/ k = "M" \/ k = "d" \/ k = "H" \/ k = "m" \/ k = "s" \/ k = "q" \/ k = "S"
  BY DEF Letters
<1>. QED  BY <1>1, <1>2, <1>3, FieldIs

LEMMA TailFrom ==
  ASSUME NEW S, NEW s \in Seq(S), NEW at \in 1 .. Len(s)
  PROVE  /\ SubSeq(s, at, Len(s)) \in Seq(S) /\ Len(SubSeq(s, at, Len(s))) = Len(s) - at + 1
         /\ \A i \in 1 .. (Len(s) - at + 1) : SubSeq(s, at, Len(s))[i] = s[at + i - 1]
<1>1. Len(s) \in Nat  OBVIOUS
<1>2. \A i \in at .. Len(s) : s[i] \in S  BY <1>1
<1>. QED  BY <1>1, <1>2, SubSeqProperties

(* What stands for a field is never empty, and made of figures.             *)
LEMMA RenderedTypes ==
  ASSUME NEW d \in DateRec, NEW k \in Letters, NEW n \in Nat \ {0}
  PROVE  Rendered(k, n, d) \in Seq(Digits) /\ Len(Rendered(k, n, d)) > 0
<1>. DEFINE v == Decimal[Field(k, d)]
<1>1. v \in Seq(Digits) /\ Len(v) \in Nat /\ Len(v) > 0  BY FieldTypes, DecimalTypes
<1>2. CASE k = "y"
  <2>1. Field(k, d) \in Nat /\ 1000 <= Field(k, d) /\ Field(k, d) <= 9999
    BY <1>2, FieldIs, DateFieldsAre
  <2>2. Len(v) = 4
    <3>1. PICK a, b, c, e : FourFigures(Field(k, d), a, b, c, e)  BY <2>1, YearFigures
    <3>. QED  BY <3>1, DecimalFour
  <2>. HIDE DEF v
  <2>. DEFINE from == 4 - n
             at == 1 + (IF from >= 0 THEN from ELSE IF Len(v) + from >= 0 THEN Len(v) + from ELSE 0)
  <2>3. at \in 1 .. Len(v)  BY <2>2
  <2>4. Substr(v, from) = SubSeq(v, at, Len(v))  BY DEF Substr
  <2>. HIDE DEF at
  <2>5. SubSeq(v, at, Len(v)) \in Seq(Digits) /\ Len(SubSeq(v, at, Len(v))) = Len(v) - at + 1
    BY <1>1, <2>3, TailFrom
  <2>6. Len(v) - at + 1 > 0  BY <1>1, <2>3
  <2>7. Rendered(k, n, d) = Substr(v, from)  BY <1>2 DEF Rendered, v
  <2>. QED  BY <2>4, <2>5, <2>6, <2>7
<1>3. CASE k # "y" /\ n = 1  BY <1>1, <1>3 DEF Rendered
<1>4. CASE k # "y" /\ n # 1
  <2>. HIDE DEF v
  <2>. DEFINE w == <<"0", "0">> \o v
             m == Len(v)
  <2>1. <<"0", "0">> \in Seq(Digits)  BY DigitsAre
  <2>2. w \in Seq(Digits) /\ Len(w) = 2 + m  BY <1>1, <2>1
  <2>3. Rendered(k, n, d) = Substr(w, m)  BY <1>4 DEF Rendered, v
  <2>. HIDE DEF w
  <2>4. m >= 0 /\ m \in Nat  BY <1>1
  <2>. HIDE DEF m
  <2>5. Substr(w, m) = SubSeq(w, 1 + m, Len(w))  BY <2>4 DEF Substr
  <2>6. 1 + m \in 1 .. Len(w)  BY <2>2, <2>4
  <2>7. Substr(w, m) \in Seq(Digits) /\ Len(Substr(w, m)) = Len(w) - (1 + m) + 1
    BY <2>2, <2>5, <2>6, TailFrom
  <2>8. Len(w) - (1 + m) + 1 > 0  BY <2>2, <2>4
  <2>. QED  BY <2>3, <2>7, <2>8
<1>. QED  BY <1>2, <1>3, <1>4
-----------------------------------------------------------------------------
\* The characters of a pattern and of what it becomes.
Chars == STRING \union Digits

\* The first run of k in s is from i to j.
FirstRun(s, k, i, j) ==
  /\ i \in 1 .. Len(s) /\ j \in i .. Len(s)
  /\ \A l \in i .. j : s[l] = k
  /\ \A l \in 1 .. (i - 1) : s[l] # k
  /\ k = "S" => j = i
  /\ k # "S" => j = Len(s) \/ s[j + 1] # k

LEMMA PlacesIn == ASSUME NEW s \in Seq(Chars), NEW k
                  PROVE Places(s, k) \subseteq 1 .. Len(s) /\ Places(s, k) \in SUBSET Nat
BY DEF Places

LEMMA RunOf ==
  ASSUME NEW s \in Seq(Chars), NEW k, Places(s, k) # {}
  PROVE  FirstRun(s, k, Min(Places(s, k)), RunEnd(s, k, Min(Places(s, k))))
<1>. DEFINE i == Min(Places(s, k))
            j == RunEnd(s, k, i)
            T == {y \in i .. Len(s) : \A l \in i .. y : s[l] = k}
<1>1. Len(s) \in Nat  OBVIOUS
<1>2. i \in Places(s, k) /\ \A y \in Places(s, k) : i <= y  BY PlacesIn, MinOf
<1>. HIDE DEF i
<1>3. i \in 1 .. Len(s) /\ s[i] = k  BY <1>2, PlacesIn DEF Places
<1>4. \A l \in 1 .. (i - 1) : s[l] # k  BY <1>2, <1>3 DEF Places
<1>5. CASE k = "S"
  <2>1. j = i  BY <1>5 DEF RunEnd
  <2>. HIDE DEF j
  <2>2. FirstRun(s, k, i, j)  BY <1>1, <1>3, <1>4, <1>5, <2>1 DEF FirstRun
  <2>. QED  BY <2>2 DEF i, j
<1>6. CASE k # "S"
  <2>1. j = Max(T)  BY <1>6 DEF RunEnd
  <2>2. T \in SUBSET (0 .. Len(s))  BY <1>1, <1>3
  <2>3. i \in T  BY <1>1, <1>3
  <2>4. j \in T /\ \A y \in T : y <= j  BY <1>1, <2>1, <2>2, <2>3, MaxOf
  <2>. HIDE DEF j
  <2>5. j \in i .. Len(s) /\ \A l \in i .. j : s[l] = k  BY <2>4
  <2>6. ASSUME j # Len(s), s[j + 1] = k PROVE FALSE
    <3>1. j + 1 \in i .. Len(s)  BY <1>1, <1>3, <2>5, <2>6
    <3>2. \A l \in i .. (j + 1) : s[l] = k  BY <1>3, <2>5, <2>6
    <3>3. j + 1 \in T  BY <3>1, <3>2
    <3>. QED  BY <3>3, <2>4, <2>5, <1>3
  <2>7. FirstRun(s, k, i, j)  BY <1>3, <1>4, <1>6, <2>5, <2>6 DEF FirstRun
  <2>. QED  BY <2>7 DEF i, j
<1>. QED  BY <1>5, <1>6

LEMMA RunIs ==
  ASSUME NEW s \in Seq(Chars), NEW k, NEW i, NEW j, FirstRun(s, k, i, j)
  PROVE  Places(s, k) # {} /\ Min(Places(s, k)) = i /\ RunEnd(s, k, i) = j
<1>1. Len(s) \in Nat  OBVIOUS
<1>2. i \in 1 .. Len(s) /\ j \in i .. Len(s)  BY DEF FirstRun
<1>3. \A l \in i .. j : s[l] = k  BY DEF FirstRun
<1>4. i \in Places(s, k)  BY <1>1, <1>2, <1>3 DEF Places
<1>5. \A y \in Places(s, k) : i <= y  BY <1>1, <1>2 DEF FirstRun, Places
<1>6. Min(Places(s, k)) = i  BY <1>4, <1>5, PlacesIn, MinIs
<1>7. CASE k = "S"  BY <1>4, <1>6, <1>7 DEF RunEnd, FirstRun
<1>8. CASE k # "S"
  <2>. DEFINE T == {y \in i .. Len(s) : \A l \in i .. y : s[l] = k}
  <2>1. j \in T  BY <1>2, <1>3
  <2>2. ASSUME NEW y \in T PROVE y <= j
    <3>1. y \in i .. Len(s)  OBVIOUS
    <3>2. CASE j = Len(s)  BY <1>1, <1>2, <3>1, <3>2
    <3>3. CASE s[j + 1] # k
      <4>1. ASSUME y > j PROVE FALSE
        <5>1. j + 1 \in i .. y  BY <1>1, <1>2, <3>1, <4>1
        <5>2. s[j + 1] = k  BY <5>1
        <5>. QED  BY <5>2, <3>3
      <4>. QED  BY <4>1, <1>1, <1>2, <3>1
    <3>. QED  BY <3>2, <3>3, <1>8 DEF FirstRun
  <2>3. T \in SUBSET Nat  BY <1>1, <1>2
  <2>4. RunEnd(s, k, i) = Max(T)  BY <1>8 DEF RunEnd
  <2>. HIDE DEF T
  <2>5. Max(T) = j  BY <2>1, <2>2, <2>3, MaxIs
  <2>. QED  BY <1>4, <1>6, <2>4, <2>5
<1>. QED  BY <1>7, <1>8
-----------------------------------------------------------------------------
\* The first run of p's letter at i, and what has become of it at i: done for
\* the letters K, as it was for others.
RunStart(p, i) == Min(Places(p, p[i]))
RunStop(p, i) == RunEnd(p, p[i], RunStart(p, i))

Pieces(p, d, K) ==
  [i \in DOMAIN p |->
    IF p[i] \in K /\ i = RunStart(p, i) THEN Rendered(p[i], RunStop(p, i) - i + 1, d)
    ELSE IF p[i] \in K /\ i \in RunStart(p, i) .. RunStop(p, i) THEN <<>>
    ELSE <<p[i]>>]

LEMMA OwnRun ==
  ASSUME NEW p \in Seq(Chars), NEW i \in 1 .. Len(p)
  PROVE  /\ FirstRun(p, p[i], RunStart(p, i), RunStop(p, i))
         /\ RunStart(p, i) \in 1 .. i /\ RunStop(p, i) \in 1 .. Len(p)
         /\ RunStart(p, i) <= RunStop(p, i)
<1>1. i \in Places(p, p[i])  BY DEF Places
<1>2. FirstRun(p, p[i], RunStart(p, i), RunStop(p, i))  BY <1>1, RunOf DEF RunStart, RunStop
<1>3. RunStart(p, i) <= i  BY <1>1, PlacesIn, MinOf DEF RunStart
<1>4. RunStart(p, i) \in 1 .. Len(p) /\ RunStop(p, i) \in RunStart(p, i) .. Len(p)
  BY <1>2 DEF FirstRun
<1>5. Len(p) \in Nat  OBVIOUS
<1>6. RunStart(p, i) \in 1 .. i /\ RunStop(p, i) \in 1 .. Len(p) /\ RunStart(p, i) <= RunStop(p, i)
  BY <1>3, <1>4, <1>5
<1>. QED  BY <1>2, <1>6

LEMMA PieceTypes ==
  ASSUME NEW p \in Seq(Chars), NEW d \in DateRec, NEW K \in SUBSET Letters, NEW i \in 1 .. Len(p)
  PROVE  /\ Pieces(p, d, K)[i] \in Seq(Chars)
         /\ \A m \in 1 .. Len(Pieces(p, d, K)[i]) :
              Pieces(p, d, K)[i][m] \in Digits \/ Pieces(p, d, K)[i][m] = p[i]
         /\ p[i] \notin K => Pieces(p, d, K)[i] = <<p[i]>>
         /\ p[i] \in K /\ i = RunStart(p, i) =>
              Pieces(p, d, K)[i] = Rendered(p[i], RunStop(p, i) - i + 1, d)
         /\ p[i] \in K /\ RunStart(p, i) < i /\ i <= RunStop(p, i) => Pieces(p, d, K)[i] = <<>>
         /\ i > RunStop(p, i) => Pieces(p, d, K)[i] = <<p[i]>>
         /\ Len(Pieces(p, d, K)[i]) = 0 => p[i] \in K /\ RunStart(p, i) < i /\ i <= RunStop(p, i)
<1>. DEFINE P == Pieces(p, d, K)[i]
<1>1. i \in DOMAIN p /\ p[i] \in Chars /\ i \in Nat  OBVIOUS
<1>2. RunStart(p, i) \in 1 .. i /\ RunStop(p, i) \in 1 .. Len(p) /\ RunStart(p, i) <= RunStop(p, i)
  BY OwnRun
<1>3. P = IF p[i] \in K /\ i = RunStart(p, i) THEN Rendered(p[i], RunStop(p, i) - i + 1, d)
          ELSE IF p[i] \in K /\ i \in RunStart(p, i) .. RunStop(p, i) THEN <<>>
          ELSE <<p[i]>>
  BY <1>1 DEF Pieces
<1>. HIDE DEF P
<1>4. CASE p[i] \in K /\ i = RunStart(p, i)
  <2>1. RunStop(p, i) - i + 1 \in Nat \ {0}  BY <1>1, <1>2, <1>4
  <2>2. p[i] \in Letters  BY <1>4
  <2>. DEFINE R == Rendered(p[i], RunStop(p, i) - i + 1, d)
  <2>3. R \in Seq(Digits) /\ Len(R) > 0  BY <2>1, <2>2, RenderedTypes
  <2>4. P = R  BY <1>3, <1>4
  <2>. HIDE DEF R
  <2>5. Digits \subseteq Chars  BY DEF Chars
  <2>6. R \in Seq(Chars)  BY <2>3, <2>5, SeqMonotonic
  <2>7. Len(R) # 0  BY <2>3
  <2>8. \A m \in 1 .. Len(R) : R[m] \in Digits  BY <2>3
  <2>9. ~ (i > RunStop(p, i))  BY <1>1, <1>2, <1>4
  <2>10. ~ (RunStart(p, i) < i)  BY <1>1, <1>4
  <2>. QED  BY <1>4, <2>4, <2>6, <2>7, <2>8, <2>9, <2>10 DEF P, R
<1>5. CASE p[i] \in K /\ i # RunStart(p, i) /\ i <= RunStop(p, i)
  <2>1. i \in RunStart(p, i) .. RunStop(p, i) /\ RunStart(p, i) < i  BY <1>1, <1>2, <1>5
  <2>2. P = <<>>  BY <1>3, <1>5, <2>1
  <2>3. P \in Seq(Chars) /\ Len(P) = 0  BY <2>2
  <2>4. ~ (i > RunStop(p, i))  BY <1>1, <1>2, <1>5
  <2>. QED  BY <1>5, <2>1, <2>2, <2>3, <2>4 DEF P
<1>6. CASE p[i] \notin K \/ i > RunStop(p, i)
  <2>1. P = <<p[i]>>
    <3>1. CASE p[i] \notin K  BY <1>3, <3>1
    <3>2. CASE i > RunStop(p, i)
      <4>1. i # RunStart(p, i) /\ i \notin RunStart(p, i) .. RunStop(p, i)  BY <1>1, <1>2, <3>2
      <4>. QED  BY <1>3, <4>1
    <3>. QED  BY <1>6, <3>1, <3>2
  <2>2. P \in Seq(Chars) /\ Len(P) = 1 /\ P[1] = p[i]  BY <1>1, <2>1
  <2>3. ~ (p[i] \in K /\ i = RunStart(p, i))  BY <1>1, <1>2, <1>6
  <2>4. ~ (p[i] \in K /\ RunStart(p, i) < i /\ i <= RunStop(p, i))  BY <1>1, <1>2, <1>6
  <2>. QED  BY <2>1, <2>2, <2>3, <2>4 DEF P
<1>7. i <= RunStop(p, i) \/ i > RunStop(p, i)  BY <1>1, <1>2
<1>. QED  BY <1>4, <1>5, <1>6, <1>7

LEMMA PiecesTypes ==
  ASSUME NEW p \in Seq(Chars), NEW d \in DateRec, NEW K \in SUBSET Letters
  PROVE  Pieces(p, d, K) \in Seq(Seq(Chars)) /\ Len(Pieces(p, d, K)) = Len(p)
<1>. DEFINE P == Pieces(p, d, K)
<1>1. Len(p) \in Nat /\ DOMAIN p = 1 .. Len(p)  OBVIOUS
<1>2. \A i \in 1 .. Len(p) : P[i] \in Seq(Chars)  BY PieceTypes
<1>3. P = [i \in DOMAIN p |-> P[i]]  BY DEF Pieces
<1>. HIDE DEF P
<1>4. P \in [1 .. Len(p) -> Seq(Chars)]  BY <1>1, <1>2, <1>3
<1>5. P \in Seq(Seq(Chars)) /\ Len(P) = Len(p)  BY <1>1, <1>4
<1>. QED  BY <1>5 DEF P
-----------------------------------------------------------------------------
(* t is the pieces P one after another; the first i of them end at c[i].    *)
Laid(t, P, c) ==
  /\ t \in Seq(Chars)
  /\ c \in [0 .. Len(P) -> Nat]
  /\ c[0] = 0 /\ c[Len(P)] = Len(t)
  /\ \A i \in 1 .. Len(P) : c[i] = c[i - 1] + Len(P[i])
  /\ \A i \in 1 .. Len(P) : \A m \in 1 .. Len(P[i]) : t[c[i - 1] + m] = P[i][m]

LEMMA LaidInOrder ==
  ASSUME NEW t, NEW P \in Seq(Seq(Chars)), NEW c, Laid(t, P, c),
         NEW a \in 0 .. Len(P), NEW b \in a .. Len(P)
  PROVE  c[a] <= c[b]
<1>. DEFINE T == {y \in Nat : y >= a /\ y <= Len(P) /\ ~ (c[a] <= c[y])}
<1>1. Len(P) \in Nat /\ a \in Nat /\ b \in Nat /\ b >= a /\ b <= Len(P)  OBVIOUS
<1>2. SUFFICES ASSUME T # {} PROVE FALSE  BY <1>1
<1>3. PICK y \in T : \A z \in T : y <= z  BY <1>2, Least
<1>4. c \in [0 .. Len(P) -> Nat]  BY DEF Laid
<1>5. y # a  BY <1>1, <1>4
<1>6. y - 1 \in Nat /\ y - 1 >= a /\ y - 1 <= Len(P) /\ y - 1 \notin T  BY <1>1, <1>3, <1>5
<1>7. c[a] <= c[y - 1]  BY <1>6
<1>8. y \in 1 .. Len(P)  BY <1>1, <1>5
<1>9. c[y] = c[y - 1] + Len(P[y])  BY <1>8 DEF Laid
<1>10. Len(P[y]) \in Nat  BY <1>8
<1>11. c[a] \in Nat /\ c[y - 1] \in Nat
  <2>1. y - 1 \in 0 .. Len(P)  BY <1>1, <1>8
  <2>. QED  BY <2>1, <1>4
<1>12. c[a] <= c[y]  BY <1>7, <1>9, <1>10, <1>11
<1>. QED  BY <1>12

LEMMA LaidCovers ==
  ASSUME NEW t, NEW P \in Seq(Seq(Chars)), NEW c, Laid(t, P, c), NEW q \in 1 .. Len(t)
  PROVE  \E i : i \in 1 .. Len(P) /\ c[i - 1] < q /\ q <= c[i]
<1>. DEFINE T == {y \in Nat : y <= Len(P) /\ q <= c[y]}
<1>1. Len(P) \in Nat /\ t \in Seq(Chars)  BY DEF Laid
<1>2. Len(t) \in Nat /\ q \in Nat /\ q > 0 /\ q <= Len(t)  BY <1>1
<1>3. c \in [0 .. Len(P) -> Nat] /\ c[0] = 0 /\ c[Len(P)] = Len(t)  BY DEF Laid
<1>4. Len(P) \in T  BY <1>1, <1>2, <1>3
<1>5. PICK i \in T : \A z \in T : i <= z  BY <1>4, Least
<1>6. i # 0  BY <1>2, <1>3
<1>7. i \in 1 .. Len(P) /\ i - 1 \in Nat /\ i - 1 \notin T /\ i - 1 <= Len(P)  BY <1>1, <1>5, <1>6
<1>8. c[i - 1] \in Nat
  <2>1. i - 1 \in 0 .. Len(P)  BY <1>1, <1>7
  <2>. QED  BY <2>1, <1>3
<1>9. c[i - 1] < q  BY <1>2, <1>7, <1>8
<1>. QED  BY <1>7, <1>9

\* What stands at q in t is the m-th of piece i.
StandsAt(t, P, c, q, i, m) ==
  /\ i \in 1 .. Len(P) /\ m \in 1 .. Len(P[i])
  /\ c[i - 1] < q /\ q <= c[i]
  /\ t[q] = P[i][m]

LEMMA LaidAt ==
  ASSUME NEW t, NEW P \in Seq(Seq(Chars)), NEW c, Laid(t, P, c), NEW q \in 1 .. Len(t)
  PROVE  \E i, m : StandsAt(t, P, c, q, i, m)
<1>1. PICK i : i \in 1 .. Len(P) /\ c[i - 1] < q /\ q <= c[i]  BY LaidCovers
<1>. DEFINE m == q - c[i - 1]
<1>2. c \in [0 .. Len(P) -> Nat] /\ Len(P) \in Nat  BY DEF Laid
<1>3. c[i - 1] \in Nat /\ c[i] \in Nat /\ q \in Nat
  <2>1. i - 1 \in 0 .. Len(P) /\ i \in 0 .. Len(P)  BY <1>1, <1>2
  <2>2. t \in Seq(Chars)  BY DEF Laid
  <2>3. Len(t) \in Nat  BY <2>2
  <2>4. q \in Nat  BY <2>3
  <2>5. c[i - 1] \in Nat  BY <2>1, <1>2
  <2>6. c[i] \in Nat  BY <2>1, <1>2
  <2>. QED  BY <2>4, <2>5, <2>6
<1>4. c[i] = c[i - 1] + Len(P[i])  BY <1>1 DEF Laid
<1>5. Len(P[i]) \in Nat  BY <1>1
<1>6. m \in 1 .. Len(P[i]) /\ q = c[i - 1] + m  BY <1>1, <1>3, <1>4, <1>5
<1>. HIDE DEF m
<1>7. t[q] = P[i][m]  BY <1>1, <1>6 DEF Laid
<1>8. StandsAt(t, P, c, q, i, m)  BY <1>1, <1>6, <1>7 DEF StandsAt
<1>. QED  BY <1>8

(* Of pieces of one character each the ends are as far apart as the pieces. *)
LEMMA OneByOne ==
  ASSUME NEW L \in Nat, NEW c \in [0 .. L -> Nat], NEW i \in 1 .. L, NEW j \in i .. L,
         \A l \in i .. j : c[l] = c[l - 1] + 1,
         NEW b \in (i - 1) .. j
  PROVE  c[b] = c[i - 1] + (b - (i - 1))
<1>. DEFINE T == {y \in Nat : y >= i - 1 /\ y <= j /\ ~ (c[y] = c[i - 1] + (y - (i - 1)))}
<1>1. i \in Nat /\ j \in Nat /\ i >= 1 /\ j <= L /\ b \in Nat /\ b >= i - 1 /\ b <= j  OBVIOUS
<1>2. SUFFICES ASSUME T # {} PROVE FALSE  BY <1>1
<1>3. PICK y \in T : \A z \in T : y <= z  BY <1>2, Least
<1>4. c[i - 1] \in Nat  BY <1>1
<1>5. y # i - 1  BY <1>1, <1>4
<1>6. y - 1 \in Nat /\ y - 1 >= i - 1 /\ y - 1 <= j /\ y - 1 \notin T  BY <1>1, <1>3, <1>5
<1>7. c[y - 1] = c[i - 1] + ((y - 1) - (i - 1))  BY <1>6
<1>8. c[y] = c[y - 1] + 1  BY <1>1, <1>5
<1>9. c[y] = c[i - 1] + (y - (i - 1))  BY <1>1, <1>4, <1>7, <1>8
<1>. QED  BY <1>9

LEMMA Joins ==
  ASSUME NEW S, NEW v \in Seq(S), NEW w \in Seq(S)
  PROVE  /\ v \o w \in Seq(S) /\ Len(v \o w) = Len(v) + Len(w)
         /\ \A x \in 1 .. Len(v) : (v \o w)[x] = v[x]
         /\ \A x \in 1 .. Len(w) : (v \o w)[Len(v) + x] = w[x]
OBVIOUS

(* r in the place of s's characters a to b.                                 *)
Splice(s, a, b, r) == SubSeq(s, 1, a - 1) \o r \o SubSeq(s, b + 1, Len(s))

\* u is s with r in the place of what is after its first C characters up to b.
SplicedIs(S, u, s, C, b, r) ==
  /\ u \in Seq(S) /\ Len(u) = C + Len(r) + (Len(s) - b)
  /\ \A x \in 1 .. C : u[x] = s[x]
  /\ \A m \in 1 .. Len(r) : u[C + m] = r[m]
  /\ \A y \in (b + 1) .. Len(s) : u[C + Len(r) + (y - b)] = s[y]

LEMMA Spliced ==
  ASSUME NEW S, NEW s \in Seq(S), NEW r \in Seq(S), NEW a \in 1 .. Len(s), NEW b \in a .. Len(s)
  PROVE  SplicedIs(S, Splice(s, a, b, r), s, a - 1, b, r)
<1>. DEFINE v == SubSeq(s, 1, a - 1)
           w == SubSeq(s, b + 1, Len(s))
           vr == v \o r
           u == vr \o w
<1>1. Len(s) \in Nat /\ Len(r) \in Nat /\ a \in Nat /\ b \in Nat /\ a >= 1 /\ b <= Len(s) /\ a <= b
  OBVIOUS
<1>2. \A x \in 1 .. Len(s) : s[x] \in S  OBVIOUS
<1>3. v \in Seq(S) /\ Len(v) = a - 1 /\ \A x \in 1 .. (a - 1) : v[x] = s[x]
  <2>1. \A x \in 1 .. (a - 1) : s[x] \in S  BY <1>1, <1>2
  <2>. QED  BY <2>1, <1>1, SubSeqProperties
<1>4. w \in Seq(S) /\ Len(w) = Len(s) - b /\ \A x \in 1 .. (Len(s) - b) : w[x] = s[b + x]
  <2>1. \A x \in (b + 1) .. Len(s) : s[x] \in S  BY <1>1, <1>2
  <2>. QED  BY <2>1, <1>1, SubSeqProperties
<1>5. Splice(s, a, b, r) = u  BY DEF Splice
<1>. HIDE DEF v, w
<1>12. v \in Seq(S) /\ w \in Seq(S)  BY <1>3, <1>4
<1>6. /\ vr \in Seq(S) /\ Len(vr) = Len(v) + Len(r)
      /\ \A x \in 1 .. Len(v) : vr[x] = v[x]
      /\ \A m \in 1 .. Len(r) : vr[Len(v) + m] = r[m]
  BY <1>12, Joins
<1>. HIDE DEF vr
<1>13. vr \in Seq(S)  BY <1>6
<1>7. /\ u \in Seq(S) /\ Len(u) = Len(vr) + Len(w)
      /\ \A x \in 1 .. Len(vr) : u[x] = vr[x]
      /\ \A x \in 1 .. Len(w) : u[Len(vr) + x] = w[x]
  BY <1>12, <1>13, Joins
<1>. HIDE DEF u
<1>8. Len(u) = (a - 1) + Len(r) + (Len(s) - b)  BY <1>3, <1>4, <1>6, <1>7
<1>9. ASSUME NEW x \in 1 .. (a - 1) PROVE u[x] = s[x]
  <2>1. x \in 1 .. Len(v) /\ x \in 1 .. Len(vr)  BY <1>1, <1>3, <1>6
  <2>. QED  BY <2>1, <1>3, <1>6, <1>7
<1>10. ASSUME NEW m \in 1 .. Len(r) PROVE u[(a - 1) + m] = r[m]
  <2>. DEFINE x == (a - 1) + m
  <2>1. x \in 1 .. Len(vr) /\ x = Len(v) + m  BY <1>1, <1>3, <1>6
  <2>. HIDE DEF x
  <2>2. u[x] = vr[x] /\ vr[x] = r[m]  BY <2>1, <1>6, <1>7
  <2>. QED  BY <2>2 DEF x
<1>11. ASSUME NEW y \in (b + 1) .. Len(s) PROVE u[(a - 1) + Len(r) + (y - b)] = s[y]
  <2>. DEFINE x == y - b
             z == (a - 1) + Len(r) + (y - b)
  <2>1. x \in 1 .. Len(w) /\ x \in 1 .. (Len(s) - b) /\ b + x = y /\ z = Len(vr) + x
    BY <1>1, <1>3, <1>4, <1>6
  <2>. HIDE DEF x, z
  <2>2. u[z] = w[x] /\ w[x] = s[b + x]  BY <2>1, <1>4, <1>7
  <2>. QED  BY <2>1, <2>2 DEF z
<1>14. SplicedIs(S, u, s, a - 1, b, r)
  BY <1>7, <1>8, <1>9, <1>10, <1>11 DEF SplicedIs
<1>. QED  BY <1>5, <1>14
-----------------------------------------------------------------------------
(* A turn for k changes the pieces of k's first run, and no others.         *)
Also(K, k) == K \union {k}

LEMMA AlsoIs ==
  ASSUME NEW K \in SUBSET Letters, NEW k \in Letters
  PROVE  /\ Also(K, k) \in SUBSET Letters /\ k \in Also(K, k)
         /\ \A x : x # k => (x \in Also(K, k) <=> x \in K)
BY DEF Also

LEMMA OtherPieces ==
  ASSUME NEW p \in Seq(Chars), NEW d \in DateRec, NEW K \in SUBSET Letters, NEW k \in Letters,
         NEW l \in 1 .. Len(p), p[l] # k
  PROVE  Pieces(p, d, Also(K, k))[l] = Pieces(p, d, K)[l]
<1>1. l \in DOMAIN p  OBVIOUS
<1>2. p[l] \in Also(K, k) <=> p[l] \in K  BY AlsoIs
<1>. QED  BY <1>1, <1>2 DEF Pieces

LEMMA RunPieces ==
  ASSUME NEW p \in Seq(Chars), NEW d \in DateRec, NEW K \in SUBSET Letters,
         NEW k \in Letters, k \notin K, NEW i, NEW j, FirstRun(p, k, i, j)
  PROVE  /\ Pieces(p, d, Also(K, k))[i] = Rendered(k, j - i + 1, d)
         /\ \A l \in (i + 1) .. j : Pieces(p, d, Also(K, k))[l] = <<>>
         /\ \A l \in 1 .. Len(p) :
              l < i \/ l > j => Pieces(p, d, Also(K, k))[l] = Pieces(p, d, K)[l]
         /\ \A l \in i .. j : Pieces(p, d, K)[l] = <<k>>
<1>. DEFINE M == Also(K, k)
<1>1. Len(p) \in Nat  OBVIOUS
<1>2. i \in 1 .. Len(p) /\ j \in i .. Len(p) /\ (\A l \in i .. j : p[l] = k)  BY DEF FirstRun
<1>3. Min(Places(p, k)) = i /\ RunEnd(p, k, i) = j  BY RunIs
<1>4. \A l \in 1 .. Len(p) : p[l] = k => RunStart(p, l) = i /\ RunStop(p, l) = j
  BY <1>3 DEF RunStart, RunStop
<1>5. M \in SUBSET Letters /\ k \in M  BY AlsoIs
<1>10. \A l \in 1 .. Len(p) : p[l] # k => Pieces(p, d, M)[l] = Pieces(p, d, K)[l]
  BY OtherPieces
<1>. HIDE DEF M
<1>6. Pieces(p, d, M)[i] = Rendered(k, j - i + 1, d)
  <2>1. i \in i .. j  BY <1>1, <1>2
  <2>2. p[i] = k /\ RunStart(p, i) = i /\ RunStop(p, i) = j  BY <2>1, <1>2, <1>4
  <2>3. p[i] \in M /\ i = RunStart(p, i)  BY <2>2, <1>5
  <2>4. Pieces(p, d, M)[i] = Rendered(p[i], RunStop(p, i) - i + 1, d)
    BY <1>2, <1>5, <2>3, PieceTypes
  <2>. QED  BY <2>2, <2>4
<1>7. ASSUME NEW l \in (i + 1) .. j PROVE Pieces(p, d, M)[l] = <<>>
  <2>1. l \in 1 .. Len(p) /\ l \in i .. j /\ i < l /\ l <= j  BY <1>1, <1>2
  <2>2. p[l] = k  BY <1>2, <2>1
  <2>3. RunStart(p, l) = i /\ RunStop(p, l) = j  BY <1>4, <2>1, <2>2
  <2>4. p[l] \in M /\ RunStart(p, l) < l /\ l <= RunStop(p, l)  BY <1>5, <2>1, <2>2, <2>3
  <2>. QED  BY <1>5, <2>1, <2>4, PieceTypes
<1>8. ASSUME NEW l \in 1 .. Len(p), l < i \/ l > j PROVE Pieces(p, d, M)[l] = Pieces(p, d, K)[l]
  <2>1. CASE p[l] # k  BY <2>1, <1>10
  <2>2. CASE p[l] = k
    <3>1. RunStart(p, l) = i /\ RunStop(p, l) = j  BY <1>4, <2>2
    <3>2. l > j
      <4>1. RunStart(p, l) \in 1 .. l  BY OwnRun
      <4>2. ~ (l < i)  BY <3>1, <4>1
      <4>. QED  BY <1>8, <4>2
    <3>3. l > RunStop(p, l)  BY <3>1, <3>2
    <3>4. Pieces(p, d, M)[l] = <<p[l]>>  BY <1>5, <3>3, PieceTypes
    <3>5. Pieces(p, d, K)[l] = <<p[l]>>  BY <3>3, PieceTypes
    <3>. QED  BY <3>4, <3>5
  <2>. QED  BY <2>1, <2>2
<1>9. ASSUME NEW l \in i .. j PROVE Pieces(p, d, K)[l] = <<k>>
  <2>1. l \in 1 .. Len(p) /\ p[l] = k /\ p[l] \notin K  BY <1>1, <1>2
  <2>2. Pieces(p, d, K)[l] = <<p[l]>>  BY <2>1, PieceTypes
  <2>. QED  BY <2>1, <2>2
<1>. QED  BY <1>6, <1>7, <1>8, <1>9 DEF M

(* k stands in the text only where it stands in the pattern: what has been  *)
(* put in for other letters are figures.                                    *)
FiguresOrOwn(P, p) ==
  \A i \in 1 .. Len(P) : \A m \in 1 .. Len(P[i]) : P[i][m] \in Digits \/ P[i][m] = p[i]

\* q is in the piece of one of p's letters k.
Stood(p, c, k, q) == \E i : i \in 1 .. Len(p) /\ p[i] = k /\ c[i - 1] < q /\ q <= c[i]

LEMMA LettersFrom ==
  ASSUME NEW p, NEW P \in Seq(Seq(Chars)), NEW t, NEW c, Laid(t, P, c),
         FiguresOrOwn(P, p), Len(P) = Len(p),
         NEW k, k \notin Digits, NEW q \in 1 .. Len(t)
  PROVE  t[q] = k => Stood(p, c, k, q)
<1>1. PICK i, m : StandsAt(t, P, c, q, i, m)  BY LaidAt
<1>2. t[q] = k => p[i] = k  BY <1>1 DEF StandsAt, FiguresOrOwn
<1>. QED  BY <1>1, <1>2 DEF StandsAt, Stood

LEMMA OnlyOwnLetters ==
  ASSUME NEW p \in Seq(Chars), NEW d \in DateRec, NEW K \in SUBSET Letters,
         NEW k \in Letters, NEW t, NEW c, Laid(t, Pieces(p, d, K), c),
         NEW q \in 1 .. Len(t)
  PROVE  t[q] = k => Stood(p, c, k, q)
<1>. DEFINE P == Pieces(p, d, K)
<1>1. P \in Seq(Seq(Chars)) /\ Len(P) = Len(p)  BY PiecesTypes
<1>2. FiguresOrOwn(P, p)  BY <1>1, PieceTypes DEF FiguresOrOwn
<1>3. Laid(t, P, c)  OBVIOUS
<1>. HIDE DEF P
<1>4. k \notin Digits  BY DigitsNoLetters
<1>5. t[q] = k => Stood(p, c, k, q)
  BY <1>1, <1>2, <1>3, <1>4, LettersFrom
<1>. QED  BY <1>5

LEMMA NoRunNoTurn ==
  ASSUME NEW p \in Seq(Chars), NEW d \in DateRec, NEW K \in SUBSET Letters,
         NEW k \in Letters, NEW t, NEW c, Laid(t, Pieces(p, d, K), c), Places(p, k) = {}
  PROVE  Replaced(t, k, d) = t /\ Pieces(p, d, Also(K, k)) = Pieces(p, d, K)
<1>1. t \in Seq(Chars)  BY DEF Laid
<1>2. \A i \in 1 .. Len(p) : p[i] # k  BY DEF Places
<1>3. \A q \in 1 .. Len(t) : t[q] # k  BY <1>2, OnlyOwnLetters DEF Stood
<1>4. Places(t, k) = {}  BY <1>1, <1>3 DEF Places
<1>5. Replaced(t, k, d) = t  BY <1>4 DEF Replaced
<1>6. \A i \in DOMAIN p : p[i] \in Also(K, k) <=> p[i] \in K  BY <1>2, AlsoIs
<1>7. Pieces(p, d, Also(K, k)) = Pieces(p, d, K)  BY <1>6 DEF Pieces
<1>. QED  BY <1>5, <1>7

\* Of the pieces i to j, laid after C, the one before q.
PlaceIn(C, i, j, q) == q - C + (i - 1) - 1

(* Where the run of k is in the text.                                       *)
LEMMA RunInText ==
  ASSUME NEW p \in Seq(Chars), NEW d \in DateRec, NEW K \in SUBSET Letters,
         NEW k \in Letters, k \notin K, NEW t, NEW c, Laid(t, Pieces(p, d, K), c),
         NEW i, NEW j, FirstRun(p, k, i, j)
  PROVE  /\ FirstRun(t, k, c[i - 1] + 1, c[j])
         /\ c[j] = c[i - 1] + (j - i + 1)
<1>. DEFINE P == Pieces(p, d, K)
           L == Len(p)
<1>1. P \in Seq(Seq(Chars)) /\ Len(P) = L  BY PiecesTypes
<1>2. Laid(t, P, c)  OBVIOUS
<1>3. /\ t \in Seq(Chars) /\ c \in [0 .. L -> Nat] /\ c[0] = 0 /\ c[L] = Len(t)
      /\ \A l \in 1 .. L : c[l] = c[l - 1] + Len(P[l])
      /\ \A l \in 1 .. L : \A m \in 1 .. Len(P[l]) : t[c[l - 1] + m] = P[l][m]
  BY <1>1, <1>2 DEF Laid
<1>4. L \in Nat /\ Len(t) \in Nat  BY <1>3
<1>5. i \in 1 .. L /\ j \in i .. L /\ (\A l \in i .. j : p[l] = k)  BY DEF FirstRun
<1>6. \A l \in i .. j : P[l] = <<k>>  BY RunPieces
<1>7. \A a \in 0 .. L : \A b \in a .. L : c[a] <= c[b]  BY <1>1, <1>2, LaidInOrder
<1>8. \A l \in 1 .. L : \A m \in 1 .. Len(P[l]) : P[l][m] \in Digits \/ P[l][m] = p[l]
  BY PieceTypes
<1>9. \A l \in 1 .. L : Len(P[l]) = 0 => p[l] \in K /\ RunStart(p, l) < l /\ l <= RunStop(p, l)
  BY PieceTypes
<1>. HIDE DEF P, L
<1>10. ASSUME NEW l \in i .. j PROVE l \in 1 .. L /\ c[l] = c[l - 1] + 1 /\ t[c[l - 1] + 1] = k
  <2>1. l \in 1 .. L  BY <1>4, <1>5
  <2>2. P[l] = <<k>>  BY <1>6
  <2>3. Len(P[l]) = 1 /\ P[l][1] = k /\ 1 \in 1 .. Len(P[l])  BY <2>2
  <2>. QED  BY <1>3, <2>1, <2>3
<1>11. ASSUME NEW b \in (i - 1) .. j PROVE c[b] = c[i - 1] + (b - (i - 1))
  BY <1>3, <1>4, <1>5, <1>10, OneByOne
<1>12. c[i - 1] \in Nat /\ c[j] \in Nat /\ i \in Nat /\ j \in Nat /\ i >= 1 /\ i <= j /\ j <= L
  <2>1. i - 1 \in 0 .. L /\ j \in 0 .. L /\ i \in Nat /\ j \in Nat  BY <1>4, <1>5
  <2>2. c[i - 1] \in Nat  BY <1>3, <2>1
  <2>3. c[j] \in Nat  BY <1>3, <2>1
  <2>. QED  BY <1>4, <1>5, <2>1, <2>2, <2>3
<1>13. c[j] = c[i - 1] + (j - i + 1)
  <2>1. j \in (i - 1) .. j  BY <1>12
  <2>2. c[j] = c[i - 1] + (j - (i - 1))  BY <1>11, <2>1
  <2>. QED  BY <1>12, <2>2
<1>14. c[j] <= Len(t)
  <2>1. j \in 0 .. L /\ L \in j .. L  BY <1>4, <1>12
  <2>. QED  BY <1>3, <1>7, <2>1
<1>15. c[i - 1] + 1 \in 1 .. Len(t) /\ c[j] \in (c[i - 1] + 1) .. Len(t)
  BY <1>4, <1>12, <1>13, <1>14
<1>16. ASSUME NEW q \in (c[i - 1] + 1) .. c[j] PROVE t[q] = k
  <2>. DEFINE C == c[i - 1]
  <2>1. q \in Nat /\ q >= C + 1 /\ q <= C + (j - i + 1) /\ C \in Nat  BY <1>12, <1>13
  <2>. HIDE DEF C
  <2>. DEFINE b == PlaceIn(C, i, j, q)
  <2>2. b \in (i - 1) .. j /\ b + 1 \in i .. j /\ b + 1 - 1 = b /\ C + (b - (i - 1)) + 1 = q
    BY <1>12, <2>1 DEF PlaceIn
  <2>. HIDE DEF b
  <2>. USE DEF C
  <2>3. c[b] = c[i - 1] + (b - (i - 1))  BY <1>11, <2>2
  <2>4. c[b] + 1 = q  BY <2>2, <2>3
  <2>5. t[c[b] + 1] = k  BY <1>10, <2>2
  <2>. QED  BY <2>4, <2>5
<1>17. ASSUME NEW q \in 1 .. c[i - 1] PROVE t[q] # k
  <2>. SUFFICES ASSUME t[q] = k PROVE FALSE  OBVIOUS
  <2>1. q \in Nat /\ q >= 1 /\ q <= c[i - 1]  BY <1>12
  <2>2. q \in 1 .. Len(t)  BY <1>4, <1>12, <1>15, <2>1
  <2>3. PICK l : l \in 1 .. L /\ p[l] = k /\ c[l - 1] < q /\ q <= c[l]
    BY <2>2, OnlyOwnLetters DEF L, Stood
  <2>4. ~ (l \in 1 .. (i - 1))  BY <2>3 DEF FirstRun
  <2>5. l >= i /\ l \in Nat /\ l <= L  BY <1>4, <1>12, <2>3, <2>4
  <2>6. i - 1 \in 0 .. L /\ l - 1 \in (i - 1) .. L /\ l - 1 \in 0 .. L  BY <1>4, <1>12, <2>5
  <2>7. c[i - 1] <= c[l - 1]  BY <1>7, <2>6
  <2>8. c[l - 1] \in Nat  BY <1>3, <2>6
  <2>. QED  BY <1>12, <2>1, <2>3, <2>7, <2>8
<1>18. ASSUME k # "S", c[j] # Len(t), t[c[j] + 1] = k PROVE FALSE
  <2>1. j # L  BY <1>3, <1>18
  <2>2. j + 1 \in 1 .. L /\ j + 1 \in Nat /\ j + 1 - 1 = j /\ j \in 1 .. L  BY <1>4, <1>12, <2>1
  <2>3. p[j + 1] # k  BY <1>18, <2>1 DEF FirstRun, L
  <2>4. CASE Len(P[j + 1]) = 0
    <3>. DEFINE n == j + 1
    <3>1. p[n] \in K /\ RunStart(p, n) < n /\ n <= RunStop(p, n)  BY <1>9, <2>2, <2>4
    <3>2. FirstRun(p, p[n], RunStart(p, n), RunStop(p, n)) /\ RunStart(p, n) \in 1 .. n
          /\ RunStop(p, n) \in 1 .. L
      BY <2>2, OwnRun DEF L
    <3>3. j \in RunStart(p, n) .. RunStop(p, n)  BY <1>4, <1>12, <2>2, <3>1, <3>2
    <3>4. p[j] = p[n]  BY <3>2, <3>3 DEF FirstRun
    <3>5. j \in i .. j  BY <1>12
    <3>6. p[j] = k  BY <1>5, <3>5
    <3>. QED  BY <3>1, <3>4, <3>6
  <2>5. CASE Len(P[j + 1]) # 0
    <3>1. Len(P[j + 1]) \in Nat  BY <1>1, <2>2
    <3>2. 1 \in 1 .. Len(P[j + 1])  BY <3>1, <2>5
    <3>3. t[c[j + 1 - 1] + 1] = P[j + 1][1]  BY <1>3, <2>2, <3>2
    <3>4. P[j + 1][1] \in Digits \/ P[j + 1][1] = p[j + 1]  BY <1>8, <2>2, <3>2
    <3>5. k \notin Digits  BY DigitsNoLetters
    <3>6. P[j + 1][1] = k  BY <1>18, <2>2, <3>3
    <3>. QED  BY <2>3, <3>4, <3>5, <3>6
  <2>. QED  BY <2>4, <2>5
<1>19. k = "S" => c[j] = c[i - 1] + 1
  <2>1. k = "S" => j = i  BY DEF FirstRun
  <2>. QED  BY <1>12, <1>13, <2>1
<1>20. FirstRun(t, k, c[i - 1] + 1, c[j])
  <2>. DEFINE a == c[i - 1] + 1
             b == c[j]
  <2>1. a \in 1 .. Len(t) /\ b \in a .. Len(t)  BY <1>15
  <2>2. \A q \in a .. b : t[q] = k  BY <1>16
  <2>7. a - 1 = c[i - 1]  BY <1>12
  <2>3. \A q \in 1 .. (a - 1) : t[q] # k  BY <1>17, <2>7, Zenon
  <2>4. k # "S" => b = Len(t) \/ t[b + 1] # k  BY <1>18
  <2>5. k = "S" => b = a  BY <1>19
  <2>. HIDE DEF a, b
  <2>6. FirstRun(t, k, a, b)  BY <2>1, <2>2, <2>3, <2>4, <2>5 DEF FirstRun
  <2>. QED  BY <2>6 DEF a, b
<1>. QED  BY <1>13, <1>20
\* The ends of the pieces after i .. j have become one of r characters.
MovedEnds(c, L, i, j, r) ==
  [m \in 0 .. L |-> IF m < i THEN c[m]
                    ELSE IF m <= j THEN c[i - 1] + r
                    ELSE c[m] + r - (j - i + 1)]

LEMMA TurnReplaces ==
  ASSUME NEW p \in Seq(Chars), NEW d \in DateRec, NEW K \in SUBSET Letters,
         NEW k \in Letters, k \notin K, NEW t, NEW c, Laid(t, Pieces(p, d, K), c),
         NEW i, NEW j, FirstRun(p, k, i, j)
  PROVE  Replaced(t, k, d) = Splice(t, c[i - 1] + 1, c[j], Rendered(k, j - i + 1, d))
<1>. DEFINE a == c[i - 1] + 1
           b == c[j]
<1>1. FirstRun(t, k, a, b) /\ b = c[i - 1] + (j - i + 1)  BY RunInText
<1>2. t \in Seq(Chars) /\ c \in [0 .. Len(p) -> Nat]  BY PiecesTypes DEF Laid
<1>3. c[i - 1] \in Nat /\ i \in Nat /\ j \in Nat
  <2>1. Len(p) \in Nat  OBVIOUS
  <2>2. i \in 1 .. Len(p) /\ j \in i .. Len(p)  BY DEF FirstRun
  <2>3. i - 1 \in 0 .. Len(p) /\ i \in Nat /\ j \in Nat  BY <2>1, <2>2
  <2>. QED  BY <2>3, <1>2
<1>4. b - a + 1 = j - i + 1  BY <1>1, <1>3
<1>. HIDE DEF a, b
<1>5. Places(t, k) # {} /\ Min(Places(t, k)) = a /\ RunEnd(t, k, a) = b  BY <1>1, <1>2, RunIs
<1>6. Replaced(t, k, d) =
        SubSeq(t, 1, a - 1) \o Rendered(k, b - a + 1, d) \o SubSeq(t, b + 1, Len(t))
  BY <1>5 DEF Replaced
<1>7. Replaced(t, k, d) = Splice(t, a, b, Rendered(k, j - i + 1, d))  BY <1>4, <1>6 DEF Splice
<1>. QED  BY <1>7 DEF a, b

(* A turn for k does to the text what Also(K, k) does to the pieces.        *)
LEMMA TurnLays ==
  ASSUME NEW p \in Seq(Chars), NEW d \in DateRec, NEW K \in SUBSET Letters,
         NEW k \in Letters, k \notin K, NEW t, NEW c, Laid(t, Pieces(p, d, K), c),
         NEW i, NEW j, FirstRun(p, k, i, j)
  PROVE  Laid(Replaced(t, k, d), Pieces(p, d, Also(K, k)),
              MovedEnds(c, Len(p), i, j, Len(Rendered(k, j - i + 1, d))))
<1>. DEFINE P == Pieces(p, d, K)
           Q == Pieces(p, d, Also(K, k))
           R == Rendered(k, j - i + 1, d)
           r == Len(R)
           L == Len(p)
           n == j - i + 1
           C == c[i - 1]
           u == Replaced(t, k, d)
           e == MovedEnds(c, L, i, j, r)
<1>1. P \in Seq(Seq(Chars)) /\ Len(P) = L /\ Q \in Seq(Seq(Chars)) /\ Len(Q) = L
  BY PiecesTypes, AlsoIs
<1>2. /\ t \in Seq(Chars) /\ c \in [0 .. L -> Nat] /\ c[0] = 0 /\ c[L] = Len(t)
      /\ \A l \in 1 .. L : c[l] = c[l - 1] + Len(P[l])
      /\ \A l \in 1 .. L : \A m \in 1 .. Len(P[l]) : t[c[l - 1] + m] = P[l][m]
  BY <1>1 DEF Laid
<1>3. L \in Nat /\ Len(t) \in Nat  BY <1>2
<1>4. i \in 1 .. L /\ j \in i .. L  BY DEF FirstRun
<1>5. i \in Nat /\ j \in Nat /\ i >= 1 /\ i <= j /\ j <= L /\ n \in Nat \ {0}  BY <1>3, <1>4
<1>6. /\ Q[i] = R /\ \A l \in (i + 1) .. j : Q[l] = <<>>
      /\ \A l \in 1 .. L : l < i \/ l > j => Q[l] = P[l]
  BY RunPieces
<1>7. R \in Seq(Chars) /\ r \in Nat
  <2>1. R \in Seq(Digits)  BY <1>5, RenderedTypes
  <2>2. Digits \subseteq Chars  BY DEF Chars
  <2>3. R \in Seq(Chars)  BY <2>1, <2>2, SeqMonotonic
  <2>. QED  BY <2>3
<1>8. C \in Nat /\ c[j] \in Nat
  <2>1. i - 1 \in 0 .. L /\ j \in 0 .. L  BY <1>3, <1>5
  <2>. QED  BY <2>1, <1>2
<1>9. c[j] = C + n  BY RunInText
<1>10. \A a \in 0 .. L : \A b \in a .. L : c[a] <= c[b]  BY <1>1, LaidInOrder
<1>11. c[j] <= Len(t)
  <2>1. j \in 0 .. L /\ L \in j .. L  BY <1>3, <1>5
  <2>. QED  BY <1>2, <1>10, <2>1
<1>12. u = Splice(t, C + 1, c[j], R)  BY TurnReplaces
<1>13. \A m \in 0 .. L : /\ m < i => e[m] = c[m]
                         /\ m >= i /\ m <= j => e[m] = C + r
                         /\ m > j => e[m] = c[m] + r - n
  BY <1>3, <1>5 DEF MovedEnds
<1>14. e = [m \in 0 .. L |-> e[m]]  BY DEF MovedEnds
<1>. HIDE DEF P, Q, R, r, L, n, C, u, e
<1>15. C + 1 \in 1 .. Len(t) /\ c[j] \in (C + 1) .. Len(t)  BY <1>3, <1>5, <1>8, <1>9, <1>11
<1>16. /\ u \in Seq(Chars) /\ Len(u) = C + r + (Len(t) - c[j])
       /\ \A x \in 1 .. C : u[x] = t[x]
       /\ \A m \in 1 .. r : u[C + m] = R[m]
       /\ \A y \in (c[j] + 1) .. Len(t) : u[C + r + (y - c[j])] = t[y]
  <2>. DEFINE a == C + 1
             b == c[j]
  <2>1. a \in 1 .. Len(t) /\ b \in a .. Len(t) /\ t \in Seq(Chars) /\ R \in Seq(Chars)
    BY <1>2, <1>7, <1>15
  <2>2. u = Splice(t, a, b, R)  BY <1>12
  <2>3. a - 1 = C  BY <1>8
  <2>. HIDE DEF a, b
  <2>4. SplicedIs(Chars, Splice(t, a, b, R), t, a - 1, b, R)  BY <2>1, Spliced
  <2>5. SplicedIs(Chars, u, t, C, b, R)  BY <2>2, <2>3, <2>4
  <2>. QED  BY <2>5 DEF SplicedIs, r, b
<1>17. ASSUME NEW m \in 0 .. L PROVE c[m] \in Nat  BY <1>2
<1>18. ASSUME NEW l \in 1 .. L, l > j
       PROVE  c[l - 1] \in Nat /\ c[l] \in Nat /\ c[l - 1] >= C + n /\ c[l] <= Len(t)
              /\ e[l - 1] = c[l - 1] + r - n /\ e[l] = c[l] + r - n
  <2>1. l \in 0 .. L /\ l - 1 \in 0 .. L /\ l - 1 \in j .. L /\ L \in l .. L /\ j \in 0 .. L
    BY <1>3, <1>5, <1>18
  <2>2. c[l - 1] \in Nat /\ c[l] \in Nat  BY <1>17, <2>1
  <2>3. c[j] <= c[l - 1] /\ c[l] <= c[L]  BY <1>10, <2>1
  <2>4. e[l] = c[l] + r - n  BY <1>13, <1>18, <2>1
  <2>5. CASE l - 1 = j
    <3>1. l - 1 >= i /\ l - 1 <= j  BY <1>5, <2>5
    <3>2. e[l - 1] = C + r  BY <1>13, <2>1, <3>1
    <3>3. c[l - 1] = C + n  BY <1>9, <2>5
    <3>4. C + r = c[l - 1] + r - n  BY <1>5, <1>7, <1>8, <3>3
    <3>. QED  BY <1>2, <1>9, <2>2, <2>3, <2>4, <3>2, <3>4
  <2>6. CASE l - 1 # j
    <3>1. l - 1 > j  BY <1>3, <1>5, <1>18, <2>6
    <3>2. e[l - 1] = c[l - 1] + r - n  BY <1>13, <2>1, <3>1
    <3>. QED  BY <1>2, <1>9, <2>2, <2>3, <2>4, <3>2
  <2>. QED  BY <2>5, <2>6
<1>19. e \in [0 .. L -> Nat]
  <2>1. ASSUME NEW m \in 0 .. L PROVE e[m] \in Nat
    <3>1. CASE m < i  BY <1>13, <1>17, <3>1
    <3>2. CASE m >= i /\ m <= j  BY <1>7, <1>8, <1>13, <3>2
    <3>3. CASE m > j
      <4>1. m \in 1 .. L  BY <1>3, <1>5, <3>3
      <4>2. e[m] = c[m] + r - n /\ c[m] \in Nat  BY <1>18, <3>3, <4>1
      <4>3. j \in 0 .. L /\ m \in j .. L  BY <1>3, <1>5, <3>3
      <4>4. c[j] <= c[m]  BY <1>10, <4>3
      <4>. QED  BY <1>5, <1>7, <1>8, <1>9, <4>2, <4>4
    <3>. QED  BY <1>3, <1>5, <3>1, <3>2, <3>3
  <2>. QED  BY <1>14, <2>1
<1>20. e[0] = 0
  <2>1. 0 \in 0 .. L /\ 0 < i  BY <1>3, <1>5
  <2>. QED  BY <1>2, <1>13, <2>1
<1>21. e[L] = Len(u)
  <2>1. CASE j = L
    <3>1. L \in 0 .. L /\ L >= i /\ L <= j  BY <1>3, <1>5, <2>1
    <3>2. e[L] = C + r  BY <1>13, <3>1
    <3>3. c[j] = Len(t)  BY <1>2, <2>1
    <3>. QED  BY <1>3, <1>7, <1>8, <1>16, <3>2, <3>3
  <2>2. CASE j # L
    <3>1. L \in 1 .. L /\ L > j  BY <1>3, <1>5, <2>2
    <3>2. e[L] = c[L] + r - n  BY <1>18, <3>1
    <3>. QED  BY <1>2, <1>3, <1>5, <1>7, <1>8, <1>9, <1>16, <3>2
  <2>. QED  BY <2>1, <2>2
<1>22. ASSUME NEW l \in 1 .. L PROVE e[l] = e[l - 1] + Len(Q[l])
  <2>1. l \in 0 .. L /\ l - 1 \in 0 .. L /\ l \in Nat  BY <1>3
  <2>2. CASE l < i
    <3>1. e[l] = c[l] /\ e[l - 1] = c[l - 1]  BY <1>5, <1>13, <2>1, <2>2
    <3>2. Q[l] = P[l]  BY <1>6, <2>2
    <3>. QED  BY <1>2, <3>1, <3>2
  <2>3. CASE l = i
    <3>1. e[l] = C + r  BY <1>5, <1>13, <2>1, <2>3
    <3>2. e[l - 1] = C  BY <1>5, <1>13, <2>1, <2>3 DEF C
    <3>. QED  BY <1>6, <2>3, <3>1, <3>2 DEF r
  <2>4. CASE l > i /\ l <= j
    <3>1. e[l] = C + r /\ e[l - 1] = C + r  BY <1>5, <1>13, <2>1, <2>4
    <3>2. l \in (i + 1) .. j  BY <1>5, <2>1, <2>4
    <3>3. Q[l] = <<>>  BY <1>6, <3>2
    <3>4. Len(Q[l]) = 0  BY <3>3
    <3>. QED  BY <1>7, <1>8, <3>1, <3>4
  <2>5. CASE l > j
    <3>1. c[l - 1] \in Nat /\ c[l] \in Nat /\ e[l - 1] = c[l - 1] + r - n /\ e[l] = c[l] + r - n
      BY <1>18, <2>5
    <3>2. Q[l] = P[l]  BY <1>6, <2>5
    <3>3. c[l] = c[l - 1] + Len(P[l])  BY <1>2
    <3>4. Len(P[l]) \in Nat  BY <1>1
    <3>. QED  BY <1>5, <1>7, <3>1, <3>2, <3>3, <3>4
  <2>. QED  BY <1>5, <2>1, <2>2, <2>3, <2>4, <2>5
<1>23. ASSUME NEW l \in 1 .. L, NEW m \in 1 .. Len(Q[l]) PROVE u[e[l - 1] + m] = Q[l][m]
  <2>1. l \in 0 .. L /\ l - 1 \in 0 .. L /\ l \in Nat  BY <1>3
  <2>2. Len(Q[l]) \in Nat /\ m \in Nat /\ m >= 1 /\ m <= Len(Q[l])  BY <1>1
  <2>3. CASE l < i
    <3>1. e[l - 1] = c[l - 1]  BY <1>5, <1>13, <2>1, <2>3
    <3>2. Q[l] = P[l]  BY <1>6, <2>3
    <3>3. t[c[l - 1] + m] = Q[l][m]  BY <1>2, <3>2
    <3>4. c[l] = c[l - 1] + Len(Q[l]) /\ c[l] \in Nat /\ c[l - 1] \in Nat
      BY <1>2, <1>17, <2>1, <3>2
    <3>5. c[l] <= C
      <4>1. l \in 0 .. L /\ i - 1 \in l .. L  BY <1>3, <1>5, <2>1, <2>3
      <4>. QED  BY <1>10, <4>1 DEF C
    <3>6. c[l - 1] + m \in 1 .. C  BY <1>8, <2>2, <3>4, <3>5
    <3>7. u[c[l - 1] + m] = t[c[l - 1] + m]  BY <1>16, <3>6
    <3>. QED  BY <3>1, <3>3, <3>7
  <2>4. CASE l = i
    <3>1. e[l - 1] = C  BY <1>5, <1>13, <2>1, <2>4 DEF C
    <3>2. Q[l] = R /\ m \in 1 .. r  BY <1>6, <2>4 DEF r
    <3>. QED  BY <1>16, <3>1, <3>2
  <2>5. CASE l > i /\ l <= j
    <3>1. l \in (i + 1) .. j  BY <1>5, <2>1, <2>5
    <3>2. Q[l] = <<>>  BY <1>6, <3>1
    <3>3. Len(Q[l]) = 0  BY <3>2
    <3>. QED  BY <2>2, <3>3
  <2>6. CASE l > j
    <3>1. /\ c[l - 1] \in Nat /\ c[l] \in Nat /\ c[l - 1] >= C + n /\ c[l] <= Len(t)
          /\ e[l - 1] = c[l - 1] + r - n
      BY <1>18, <2>6
    <3>2. Q[l] = P[l]  BY <1>6, <2>6
    <3>3. c[l] = c[l - 1] + Len(Q[l]) /\ t[c[l - 1] + m] = Q[l][m]  BY <1>2, <3>2
    <3>. DEFINE y == c[l - 1] + m
    <3>4. y \in (c[j] + 1) .. Len(t)
      <4>1. Len(Q[l]) \in Nat /\ m \in Nat /\ 1 <= m /\ m <= Len(Q[l])  BY <2>2, <3>1, <3>3
      <4>2. y \in Nat /\ y <= Len(t)  BY <1>3, <3>1, <3>3, <4>1
      <4>3. c[j] + 1 <= y  BY <1>5, <1>8, <1>9, <3>1, <4>1
      <4>. HIDE DEF y
      <4>. QED  BY <1>3, <1>8, <4>2, <4>3
    <3>5. C + r + (y - c[j]) = e[l - 1] + m  BY <1>5, <1>7, <1>8, <1>9, <2>2, <3>1
    <3>6. t[y] = Q[l][m]  BY <3>3
    <3>. HIDE DEF y
    <3>7. u[C + r + (y - c[j])] = t[y]  BY <1>16, <3>4
    <3>. QED  BY <3>5, <3>6, <3>7
  <2>. QED  BY <1>5, <2>1, <2>3, <2>4, <2>5, <2>6
<1>24. Laid(u, Q, e)  BY <1>1, <1>16, <1>19, <1>20, <1>21, <1>22, <1>23 DEF Laid
<1>. QED  BY <1>24 DEF u, Q, e, r, R, L
-----------------------------------------------------------------------------
\* f joins the pieces P from the first on.
Joining(f, P) == [i \in 1 .. Len(P) |-> IF i = 1 THEN P[i] ELSE f[i - 1] \o P[i]]

\* The first n characters.
Upto(t, n) == SubSeq(t, 1, n)

LEMMA UptoIs ==
  ASSUME NEW t \in Seq(Chars), NEW n \in 0 .. Len(t)
  PROVE  Upto(t, n) \in Seq(Chars) /\ Len(Upto(t, n)) = n /\ \A x \in 1 .. n : Upto(t, n)[x] = t[x]
<1>1. Len(t) \in Nat  OBVIOUS
<1>2. n \in Nat /\ n <= Len(t)  BY <1>1
<1>3. \A x \in 1 .. n : t[x] \in Chars  BY <1>1, <1>2
<1>. QED  BY <1>2, <1>3, SubSeqProperties DEF Upto

(* What is laid up to the end of a piece is what was laid before it and it. *)
LEMMA LaidOneMore ==
  ASSUME NEW t, NEW P \in Seq(Seq(Chars)), NEW c, Laid(t, P, c), NEW i \in 1 .. Len(P)
  PROVE  Upto(t, c[i]) = Upto(t, c[i - 1]) \o P[i]
<1>. DEFINE a == c[i - 1]
           b == c[i]
           v == Upto(t, a)
           w == Upto(t, b)
           r == P[i]
           u == v \o r
<1>1. Len(P) \in Nat /\ i \in Nat /\ i >= 1 /\ i <= Len(P)  OBVIOUS
<1>2. t \in Seq(Chars) /\ r \in Seq(Chars)  BY DEF Laid
<1>3. Len(t) \in Nat /\ Len(r) \in Nat  BY <1>2
<1>4. c \in [0 .. Len(P) -> Nat] /\ c[Len(P)] = Len(t)  BY DEF Laid
<1>5. i \in 0 .. Len(P) /\ i - 1 \in 0 .. Len(P) /\ Len(P) \in i .. Len(P)  BY <1>1
<1>6. a \in Nat /\ b \in Nat  BY <1>4, <1>5
<1>7. b = a + Len(r)  BY DEF Laid
<1>8. b <= Len(t)  BY <1>4, <1>5, LaidInOrder
<1>9. a \in 0 .. Len(t) /\ b \in 0 .. Len(t)  BY <1>3, <1>6, <1>7, <1>8
<1>10. \A m \in 1 .. Len(r) : t[a + m] = r[m]  BY DEF Laid
<1>. HIDE DEF a, b, r
<1>11. v \in Seq(Chars) /\ Len(v) = a /\ \A x \in 1 .. a : v[x] = t[x]  BY <1>2, <1>9, UptoIs
<1>12. w \in Seq(Chars) /\ Len(w) = b /\ \A x \in 1 .. b : w[x] = t[x]  BY <1>2, <1>9, UptoIs
<1>. HIDE DEF v, w
<1>13. v \in Seq(Chars) /\ r \in Seq(Chars)  BY <1>2, <1>11
<1>14. /\ u \in Seq(Chars) /\ Len(u) = Len(v) + Len(r)
       /\ \A x \in 1 .. Len(v) : u[x] = v[x]
       /\ \A x \in 1 .. Len(r) : u[Len(v) + x] = r[x]
  BY <1>13, Joins
<1>. HIDE DEF u
<1>15. Len(w) = Len(u)  BY <1>7, <1>11, <1>12, <1>14
<1>16. ASSUME NEW x \in 1 .. Len(w) PROVE w[x] = u[x]
  <2>1. x \in Nat /\ x >= 1 /\ x <= b /\ x \in 1 .. b  BY <1>6, <1>12
  <2>2. w[x] = t[x]  BY <1>12, <2>1
  <2>3. CASE x <= a
    <3>1. x \in 1 .. Len(v) /\ x \in 1 .. a  BY <1>6, <1>11, <2>1, <2>3
    <3>. QED  BY <1>11, <1>14, <2>2, <3>1
  <2>4. CASE x > a
    <3>. DEFINE m == x - a
    <3>1. m \in 1 .. Len(r) /\ a + m = x  BY <1>3, <1>6, <1>7, <2>1, <2>4
    <3>. HIDE DEF m
    <3>2. u[a + m] = r[m]  BY <1>11, <1>14, <3>1
    <3>3. t[a + m] = r[m]  BY <1>10, <3>1
    <3>. QED  BY <2>2, <3>1, <3>2, <3>3
  <2>. QED  BY <1>6, <2>1, <2>3, <2>4
<1>17. w \in Seq(Chars) /\ u \in Seq(Chars)  BY <1>12, <1>14
<1>18. w = u  BY <1>15, <1>16, <1>17, SeqEqual
<1>. QED  BY <1>18 DEF a, b, r, v, w, u

LEMMA JoiningAgree ==
  ASSUME NEW P \in Seq(Seq(Chars)), NEW f, NEW g, f = Joining(f, P), g = Joining(g, P),
         NEW i \in 1 .. Len(P)
  PROVE  f[i] = g[i]
<1>. DEFINE T == {y \in Nat : y \in 1 .. Len(P) /\ f[y] # g[y]}
<1>1. Len(P) \in Nat  OBVIOUS
<1>2. \A h : h = Joining(h, P) =>
        \A y \in 1 .. Len(P) : h[y] = IF y = 1 THEN P[y] ELSE h[y - 1] \o P[y]
  BY DEF Joining
<1>3. i \in Nat  BY <1>1
<1>4. SUFFICES ASSUME T # {} PROVE FALSE  BY <1>3, Zenon
<1>5. PICK y \in T : \A z \in T : y <= z  BY <1>4, Least
<1>6. y # 1  BY <1>2, <1>5
<1>7. y - 1 \in 1 .. Len(P) /\ y - 1 \in Nat /\ ~ (y <= y - 1)  BY <1>1, <1>6
<1>8. f[y - 1] = g[y - 1]  BY <1>5, <1>7
<1>. QED  BY <1>2, <1>6, <1>8

(* Pieces laid one after another make the sequence FlattenSeq makes of them. *)
LEMMA LaidFlat ==
  ASSUME NEW t, NEW P \in Seq(Seq(Chars)), NEW c, Laid(t, P, c)
  PROVE  t = FlattenSeq(P)
<1>. DEFINE g == [i \in 1 .. Len(P) |-> Upto(t, c[i])]
           F == CHOOSE f : f = Joining(f, P)
<1>1. Len(P) \in Nat /\ t \in Seq(Chars) /\ c[0] = 0 /\ c[Len(P)] = Len(t)  BY DEF Laid
<1>2. CASE Len(P) = 0
  <2>1. P = <<>>  BY <1>2
  <2>2. Len(t) = 0  BY <1>1, <1>2
  <2>3. t = <<>>  BY <1>1, <2>2
  <2>. QED  BY <1>2, <2>1, <2>3 DEF FlattenSeq
<1>3. CASE Len(P) # 0
  <2>1. ASSUME NEW i \in 1 .. Len(P), i = 1 PROVE g[i] = P[i]
    <3>1. Upto(t, c[i]) = Upto(t, c[i - 1]) \o P[i]  BY LaidOneMore
    <3>2. c[i - 1] = 0  BY <1>1, <2>1
    <3>3. Upto(t, 0) \in Seq(Chars) /\ Len(Upto(t, 0)) = 0
      <4>1. 0 \in 0 .. Len(t)  BY <1>1
      <4>. QED  BY <1>1, <4>1, UptoIs
    <3>4. Upto(t, 0) = <<>>  BY <3>3
    <3>5. P[i] \in Seq(Chars)  OBVIOUS
    <3>6. <<>> \o P[i] = P[i]  BY <3>5
    <3>7. Upto(t, c[i]) = P[i]  BY <3>1, <3>2, <3>4, <3>6, Zenon
    <3>. QED  BY <3>7
  <2>2. ASSUME NEW i \in 1 .. Len(P), i # 1 PROVE g[i] = g[i - 1] \o P[i]
    <3>1. Upto(t, c[i]) = Upto(t, c[i - 1]) \o P[i]  BY LaidOneMore
    <3>2. i - 1 \in 1 .. Len(P)  BY <1>1, <2>2
    <3>3. g[i - 1] = Upto(t, c[i - 1])  BY <3>2
    <3>4. g[i] = Upto(t, c[i])  OBVIOUS
    <3>. QED  BY <3>1, <3>3, <3>4, Zenon
  <2>. HIDE DEF F
  <2>3. g = Joining(g, P)
    <3>1. g = [i \in 1 .. Len(P) |-> g[i]]  OBVIOUS
    <3>. HIDE DEF g
    <3>2. \A i \in 1 .. Len(P) : g[i] = IF i = 1 THEN P[i] ELSE g[i - 1] \o P[i]
      BY <2>1, <2>2
    <3>. QED  BY <3>1, <3>2, Zenon DEF Joining
  <2>4. F = Joining(F, P)  BY <2>3, Zenon DEF F
  <2>5. Len(P) \in 1 .. Len(P)  BY <1>1, <1>3
  <2>6. F[Len(P)] = g[Len(P)]
    <3>. HIDE DEF g
    <3>. QED  BY <2>3, <2>4, <2>5, JoiningAgree
  <2>7. g[Len(P)] = Upto(t, Len(t))  BY <1>1, <2>5
  <2>8. Upto(t, Len(t)) = t
    <3>1. Len(t) \in 0 .. Len(t)  BY <1>1
    <3>. DEFINE w == Upto(t, Len(t))
    <3>2. w \in Seq(Chars) /\ Len(w) = Len(t) /\ \A x \in 1 .. Len(t) : w[x] = t[x]
      BY <1>1, <3>1, UptoIs
    <3>. HIDE DEF w
    <3>3. w = t  BY <1>1, <3>2, SeqEqual
    <3>. QED  BY <3>3 DEF w
  <2>9. FlattenSeq(P) = F[Len(P)]  BY <1>3, Zenon DEF FlattenSeq, F, Joining
  <2>. QED  BY <2>6, <2>7, <2>8, <2>9
<1>. QED  BY <1>2, <1>3
-----------------------------------------------------------------------------
(* Before the first turn every character is a piece.                        *)
LEMMA LaidAtFirst ==
  ASSUME NEW p \in Seq(Chars), NEW d \in DateRec
  PROVE  Laid(p, Pieces(p, d, {}), [m \in 0 .. Len(p) |-> m])
<1>. DEFINE P == Pieces(p, d, {})
           L == Len(p)
           c == [m \in 0 .. L |-> m]
<1>1. {} \in SUBSET Letters  OBVIOUS
<1>2. P \in Seq(Seq(Chars)) /\ Len(P) = L  BY <1>1, PiecesTypes
<1>3. \A i \in 1 .. L : P[i] = <<p[i]>>  BY <1>1, PieceTypes
<1>. HIDE DEF P
<1>4. L \in Nat  OBVIOUS
<1>. HIDE DEF L
<1>5. c \in [0 .. L -> Nat] /\ c[0] = 0 /\ c[L] = L  BY <1>4
<1>6. \A i \in 1 .. L : c[i] = i /\ c[i - 1] = i - 1  BY <1>4
<1>. HIDE DEF c
<1>7. ASSUME NEW i \in 1 .. L
      PROVE  c[i] = c[i - 1] + Len(P[i]) /\ \A m \in 1 .. Len(P[i]) : p[c[i - 1] + m] = P[i][m]
  <2>1. c[i] = i /\ c[i - 1] = i - 1 /\ i \in Nat  BY <1>4, <1>6
  <2>2. P[i] = <<p[i]>>  BY <1>3
  <2>3. Len(P[i]) = 1 /\ P[i][1] = p[i]  BY <2>2
  <2>4. (i - 1) + 1 = i  BY <2>1
  <2>5. \A m \in 1 .. Len(P[i]) : m = 1  BY <2>3
  <2>. QED  BY <2>1, <2>3, <2>4, <2>5
<1>8. Laid(p, P, c)  BY <1>2, <1>5, <1>7 DEF Laid, L
<1>. QED  BY <1>8 DEF P, c, L

\* The text is the pieces of p with the letters K done.
Done(p, d, K, t) == \E c : Laid(t, Pieces(p, d, K), c)

(* A turn does one more letter.                                             *)
LEMMA TurnDone ==
  ASSUME NEW p \in Seq(Chars), NEW d \in DateRec, NEW K \in SUBSET Letters,
         NEW k \in Letters, k \notin K, NEW t, Done(p, d, K, t)
  PROVE  Done(p, d, Also(K, k), Replaced(t, k, d))
<1>1. PICK c : Laid(t, Pieces(p, d, K), c)  BY DEF Done
<1>2. CASE Places(p, k) = {}
  <2>1. Replaced(t, k, d) = t /\ Pieces(p, d, Also(K, k)) = Pieces(p, d, K)
    BY <1>1, <1>2, NoRunNoTurn
  <2>. QED  BY <1>1, <2>1 DEF Done
<1>3. CASE Places(p, k) # {}
  <2>. DEFINE i == Min(Places(p, k))
             j == RunEnd(p, k, i)
  <2>1. FirstRun(p, k, i, j)  BY <1>3, RunOf
  <2>. HIDE DEF i, j
  <2>2. Laid(Replaced(t, k, d), Pieces(p, d, Also(K, k)),
             MovedEnds(c, Len(p), i, j, Len(Rendered(k, j - i + 1, d))))
    BY <1>1, <2>1, TurnLays
  <2>. QED  BY <2>2 DEF Done
<1>. QED  BY <1>2, <1>3

(* Begins and Within of the property are the first runs of the letters.     *)
LEMMA BeginsAre ==
  ASSUME NEW p \in Seq(Chars), NEW i \in 1 .. Len(p)
  PROVE  /\ Begins(p, i) <=> p[i] \in Letters /\ i = RunStart(p, i)
         /\ Begins(p, i) => RunEnd(p, p[i], i) = RunStop(p, i)
BY LettersAre DEF Begins, RunStart, RunStop

LEMMA WithinAre ==
  ASSUME NEW p \in Seq(Chars), NEW i \in 1 .. Len(p), ~ Begins(p, i)
  PROVE  Within(p, i) <=> p[i] \in Letters /\ i \in RunStart(p, i) .. RunStop(p, i)
<1>1. Len(p) \in Nat /\ i \in Nat /\ i <= Len(p)  OBVIOUS
<1>2. ASSUME Within(p, i) PROVE p[i] \in Letters /\ i \in RunStart(p, i) .. RunStop(p, i)
  <2>1. PICK h \in 1 .. (i - 1) : Begins(p, h) /\ i <= RunEnd(p, p[h], h)  BY <1>2 DEF Within
  <2>2. h \in 1 .. Len(p) /\ h \in Nat /\ h < i  BY <1>1
  <2>3. p[h] \in Letters /\ h = RunStart(p, h) /\ i <= RunStop(p, h)  BY <2>1, <2>2, BeginsAre
  <2>4. FirstRun(p, p[h], h, RunStop(p, h)) /\ RunStop(p, h) \in 1 .. Len(p)  BY <2>2, <2>3, OwnRun
  <2>5. i \in h .. RunStop(p, h)  BY <1>1, <2>2, <2>3, <2>4
  <2>6. p[i] = p[h]  BY <2>4, <2>5 DEF FirstRun
  <2>7. RunStart(p, i) = RunStart(p, h)  BY <2>6 DEF RunStart
  <2>8. RunStop(p, i) = RunStop(p, h)  BY <2>6, <2>7 DEF RunStop
  <2>. QED  BY <2>3, <2>5, <2>6, <2>7, <2>8
<1>3. ASSUME p[i] \in Letters, i \in RunStart(p, i) .. RunStop(p, i) PROVE Within(p, i)
  <2>. DEFINE h == RunStart(p, i)
  <2>1. FirstRun(p, p[i], h, RunStop(p, i)) /\ h \in 1 .. i /\ RunStop(p, i) \in 1 .. Len(p)
        /\ h <= RunStop(p, i)
    BY OwnRun
  <2>2. h # i  BY <1>3, BeginsAre
  <2>3. h \in 1 .. (i - 1) /\ h \in 1 .. Len(p) /\ h \in h .. RunStop(p, i) /\ i <= RunStop(p, i)
    BY <1>1, <1>3, <2>1, <2>2
  <2>4. p[h] = p[i]  BY <2>1, <2>3 DEF FirstRun
  <2>5. RunStart(p, h) = h  BY <2>4 DEF RunStart
  <2>6. RunStop(p, h) = RunStop(p, i)  BY <2>4, <2>5 DEF RunStop
  <2>7. Begins(p, h)  BY <1>3, <2>3, <2>4, <2>5, BeginsAre
  <2>8. RunEnd(p, p[h], h) = RunStop(p, i)  BY <2>3, <2>6, <2>7, BeginsAre
  <2>. QED  BY <2>3, <2>7, <2>8 DEF Within
<1>. QED  BY <1>2, <1>3

LEMMA AllDone ==
  ASSUME NEW p \in Seq(Chars), NEW d \in DateRec, NEW t, Done(p, d, Letters, t)
  PROVE  t = FlattenSeq([i \in DOMAIN p |->
               IF Begins(p, i) THEN Rendered(p[i], RunEnd(p, p[i], i) - i + 1, d)
               ELSE IF Within(p, i) THEN <<>> ELSE <<p[i]>>])
<1>. DEFINE G(i) == IF Begins(p, i) THEN Rendered(p[i], RunEnd(p, p[i], i) - i + 1, d)
                   ELSE IF Within(p, i) THEN <<>> ELSE <<p[i]>>
           H(i) == IF p[i] \in Letters /\ i = RunStart(p, i)
                     THEN Rendered(p[i], RunStop(p, i) - i + 1, d)
                   ELSE IF p[i] \in Letters /\ i \in RunStart(p, i) .. RunStop(p, i) THEN <<>>
                   ELSE <<p[i]>>
<1>1. PICK c : Laid(t, Pieces(p, d, Letters), c)  BY DEF Done
<1>2. Pieces(p, d, Letters) \in Seq(Seq(Chars))  BY PiecesTypes
<1>3. t = FlattenSeq(Pieces(p, d, Letters))  BY <1>1, <1>2, LaidFlat
<1>4. ASSUME NEW i \in DOMAIN p PROVE H(i) = G(i)
  <2>1. i \in 1 .. Len(p)  OBVIOUS
  <2>2. CASE Begins(p, i)
    <3>1. p[i] \in Letters /\ i = RunStart(p, i) /\ RunEnd(p, p[i], i) = RunStop(p, i)
      BY <2>1, <2>2, BeginsAre
    <3>. QED  BY <2>2, <3>1
  <2>3. CASE ~ Begins(p, i)
    <3>1. ~ (p[i] \in Letters /\ i = RunStart(p, i))  BY <2>1, <2>3, BeginsAre
    <3>2. Within(p, i) <=> p[i] \in Letters /\ i \in RunStart(p, i) .. RunStop(p, i)
      BY <2>1, <2>3, WithinAre
    <3>. QED  BY <2>3, <3>1, <3>2, Zenon
  <2>. QED  BY <2>2, <2>3
<1>5. Pieces(p, d, Letters) = [i \in DOMAIN p |-> H(i)]  BY DEF Pieces
<1>. HIDE DEF G, H
<1>6. [i \in DOMAIN p |-> H(i)] = [i \in DOMAIN p |-> G(i)]  BY <1>4
<1>. QED  BY <1>3, <1>5, <1>6 DEF G
-----------------------------------------------------------------------------
(* Of the letters that are no longer looked for the first run is done and   *)
(* nothing else is; no letter is looked for twice.                          *)
DateIInv ==
  /\ pattern \in Seq(Chars) /\ date \in DateRec
  /\ key \in Seq(Letters)
  /\ \A i, j \in 1 .. Len(key) : key[i] = key[j] => i = j
  /\ Done(pattern, date, Letters \ ToSet(key), text)

LEMMA NoPieces ==
  ASSUME NEW d \in DateRec, NEW K \in SUBSET Letters PROVE Done(<<>>, d, K, <<>>)
<1>. DEFINE e == [m \in 0 .. Len(<<>>) |-> m]
<1>1. <<>> \in Seq(Chars)  OBVIOUS
<1>2. Laid(<<>>, Pieces(<<>>, d, {}), e)  BY <1>1, LaidAtFirst
<1>. HIDE DEF e
<1>3. \A i \in DOMAIN <<>> : FALSE  OBVIOUS
<1>4. Pieces(<<>>, d, {}) = Pieces(<<>>, d, K)  BY <1>3 DEF Pieces
<1>. QED  BY <1>2, <1>4, Zenon DEF Done

LEMMA DateInitial == DateInit => DateIInv
<1> SUFFICES ASSUME DateInit PROVE DateIInv  OBVIOUS
<1>1. pattern = <<>> /\ text = <<>> /\ key = <<>>  BY DEF DateInit
<1>2. date \in DateRec
  <2>. DEFINE Y == 1000 .. 9999
             y == 2000
  <2>1. y \in Y  OBVIOUS
  <2>2. date = [year |-> y, month |-> 0, day |-> 1, hours |-> 0, minutes |-> 0, seconds |-> 0,
                ms |-> 0]
    BY DEF DateInit
  <2>3. DateRec = [year: Y, month: 0 .. 11, day: 1 .. 31, hours: 0 .. 23, minutes: 0 .. 59,
                   seconds: 0 .. 59, ms: 0 .. 999]
    BY DEF DateRec
  <2>. HIDE DEF Y, y
  <2>. QED  BY <2>1, <2>2, <2>3
<1>3. pattern \in Seq(Chars) /\ key \in Seq(Letters) /\ Len(key) = 0  BY <1>1
<1>4. Letters \ ToSet(key) \in SUBSET Letters  OBVIOUS
<1>5. Done(pattern, date, Letters \ ToSet(key), text)  BY <1>1, <1>2, <1>4, NoPieces
<1>6. \A i, j \in 1 .. Len(key) : key[i] = key[j] => i = j  BY <1>3
<1>. QED  BY <1>2, <1>3, <1>5, <1>6 DEF DateIInv

LEMMA CallKeeps ==
  ASSUME DateIInv, NEW p \in Patterns, NEW d \in Dates, Call(p, d) PROVE DateIInv'
<1>1. pattern' = p /\ date' = d /\ text' = p /\ key' = Keys  BY DEF Call
<1>2. p \in Seq(Chars)
  <2>1. p \in Seq(STRING)  BY DateAssumption
  <2>2. STRING \subseteq Chars  BY DEF Chars
  <2>. QED  BY <2>1, <2>2, SeqMonotonic
<1>3. d \in DateRec  BY DateAssumption
<1>4. Keys \in Seq(Letters)  BY DEF Keys, Letters
<1>5. \A i, j \in 1 .. Len(Keys) : Keys[i] = Keys[j] => i = j  BY DEF Keys
<1>6. Done(p, d, {}, p)  BY <1>2, <1>3, LaidAtFirst DEF Done
<1>7. Letters \ ToSet(Keys) = {}  BY LettersAre
<1>. QED  BY <1>1, <1>2, <1>3, <1>4, <1>5, <1>6, <1>7 DEF DateIInv

(* The turns for the year and for the others are one.                       *)
LEMMA TurnKeeps ==
  ASSUME DateIInv, key # <<>>, text' = Replaced(text, Head(key), date), key' = Tail(key),
         UNCHANGED <<pattern, date>>
  PROVE  DateIInv'
<1>. DEFINE k == Head(key)
           K == Letters \ ToSet(key)
           rest == Tail(key)
<1>1. /\ pattern \in Seq(Chars) /\ date \in DateRec /\ key \in Seq(Letters)
      /\ (\A i, j \in 1 .. Len(key) : key[i] = key[j] => i = j)
      /\ Done(pattern, date, K, text)
  BY DEF DateIInv
<1>2. Len(key) \in Nat /\ Len(key) > 0 /\ k = key[1] /\ k \in Letters /\ DOMAIN key = 1 .. Len(key)
  BY <1>1
<1>3. /\ rest \in Seq(Letters) /\ Len(rest) = Len(key) - 1 /\ DOMAIN rest = 1 .. Len(rest)
      /\ \A i \in 1 .. Len(rest) : rest[i] = key[i + 1]
  BY <1>1, <1>2
<1>4. k \in ToSet(key)  BY <1>2 DEF ToSet
<1>. HIDE DEF k, rest
<1>5. ASSUME NEW i \in 1 .. Len(rest), NEW j \in 1 .. Len(rest), rest[i] = rest[j] PROVE i = j
  <2>1. i + 1 \in 1 .. Len(key) /\ j + 1 \in 1 .. Len(key) /\ i \in Nat /\ j \in Nat
    BY <1>2, <1>3
  <2>2. key[i + 1] = key[j + 1]  BY <1>3, <1>5
  <2>3. i + 1 = j + 1  BY <1>1, <2>1, <2>2
  <2>. QED  BY <2>1, <2>3
<1>6. \A x : x \in ToSet(rest) <=> x \in ToSet(key) /\ x # k
  <2>1. ASSUME NEW i \in 1 .. Len(rest) PROVE rest[i] \in ToSet(key) /\ rest[i] # k
    <3>1. i + 1 \in 1 .. Len(key) /\ i + 1 # 1 /\ 1 \in 1 .. Len(key)  BY <1>2, <1>3
    <3>2. key[i + 1] # key[1]  BY <1>1, <3>1
    <3>. QED  BY <1>2, <1>3, <3>1, <3>2 DEF ToSet
  <2>2. ASSUME NEW i \in 1 .. Len(key), key[i] # k PROVE key[i] \in ToSet(rest)
    <3>1. i # 1  BY <1>2, <2>2
    <3>2. i - 1 \in 1 .. Len(rest) /\ (i - 1) + 1 = i  BY <1>2, <1>3, <3>1
    <3>3. rest[i - 1] = key[i]  BY <1>3, <3>2
    <3>. QED  BY <1>3, <3>2, <3>3 DEF ToSet
  <2>. QED  BY <1>2, <1>3, <2>1, <2>2 DEF ToSet
<1>7. Letters \ ToSet(rest) = Also(K, k)  BY <1>2, <1>4, <1>6 DEF Also
<1>8. K \in SUBSET Letters /\ k \notin K  BY <1>4
<1>. HIDE DEF K
<1>9. Done(pattern, date, Also(K, k), Replaced(text, k, date))  BY <1>1, <1>2, <1>8, TurnDone
<1>10. /\ pattern' = pattern /\ date' = date /\ key' = rest /\ text' = Replaced(text, k, date)
  BY DEF k, rest
<1>11. Done(pattern', date', Letters \ ToSet(key'), text')  BY <1>7, <1>9, <1>10
<1>12. key' \in Seq(Letters) /\ \A i, j \in 1 .. Len(key') : key'[i] = key'[j] => i = j
  BY <1>3, <1>5, <1>10
<1>. QED  BY <1>1, <1>10, <1>11, <1>12 DEF DateIInv

LEMMA DateStep == DateIInv /\ [DateNext]_dateVars => DateIInv'
<1> SUFFICES ASSUME DateIInv, [DateNext]_dateVars PROVE DateIInv'  OBVIOUS
<1>1. ASSUME NEW p \in Patterns, NEW d \in Dates, Call(p, d) PROVE DateIInv'
  BY <1>1, CallKeeps
<1>2. CASE YearStep
  <2>1. /\ key # <<>> /\ text' = Replaced(text, Head(key), date) /\ key' = Tail(key)
        /\ UNCHANGED <<pattern, date>>
    BY <1>2 DEF YearStep
  <2>. QED  BY <2>1, TurnKeeps
<1>3. CASE KeyStep
  <2>1. /\ key # <<>> /\ text' = Replaced(text, Head(key), date) /\ key' = Tail(key)
        /\ UNCHANGED <<pattern, date>>
    BY <1>3 DEF KeyStep
  <2>. QED  BY <2>1, TurnKeeps
<1>4. CASE UNCHANGED dateVars  BY <1>4 DEF dateVars, DateIInv
<1>. QED  BY <1>1, <1>2, <1>3, <1>4 DEF DateNext

(* Whatever the pattern and the date, Format's answer is the pattern with   *)
(* the first run of every letter rendered in its place: the order of the    *)
(* keys does not show.  (date.js: Date.prototype.Format.)                   *)
THEOREM DateInPlace == DateSpec => []FieldsInPlace
<1>1. ASSUME DateIInv PROVE FieldsInPlace
  <2> SUFFICES ASSUME key = <<>> PROVE FieldsInPlace  BY DEF FieldsInPlace
  <2>1. ToSet(key) = {}  BY DEF ToSet
  <2>2. Letters \ ToSet(key) = Letters  BY <2>1
  <2>3. pattern \in Seq(Chars) /\ date \in DateRec /\ Done(pattern, date, Letters, text)
    BY <1>1, <2>2 DEF DateIInv
  <2>. QED  BY <2>3, AllDone, Zenon DEF FieldsInPlace
<1>. QED  BY <1>1, DateInitial, DateStep, PTL DEF DateSpec
-----------------------------------------------------------------------------
\* f holds the texts before the first turn and after every turn of Format.
Turned(f, p, d) ==
  [i \in 0 .. Len(Keys) |-> IF i = 0 THEN p ELSE Replaced(f[i - 1], Keys[i], d)]

LEMMA KeysAre ==
  /\ Len(Keys) = 8
  /\ Keys[1] = "y" /\ Keys[2] = "M" /\ Keys[3] = "d" /\ Keys[4] = "H"
  /\ Keys[5] = "m" /\ Keys[6] = "s" /\ Keys[7] = "q" /\ Keys[8] = "S"
BY DEF Keys

LEMMA TurnedExists == ASSUME NEW p, NEW d PROVE \E f : f = Turned(f, p, d)
<1>. DEFINE a == Replaced(p, "y", d)
           b == Replaced(a, "M", d)
           c == Replaced(b, "d", d)
           e == Replaced(c, "H", d)
           g == Replaced(e, "m", d)
           h == Replaced(g, "s", d)
           j == Replaced(h, "q", d)
           k == Replaced(j, "S", d)
           R(i) == IF i = 0 THEN p ELSE IF i = 1 THEN a ELSE IF i = 2 THEN b
                   ELSE IF i = 3 THEN c ELSE IF i = 4 THEN e ELSE IF i = 5 THEN g
                   ELSE IF i = 6 THEN h ELSE IF i = 7 THEN j ELSE k
           f == [i \in 0 .. 8 |-> R(i)]
<1>1. /\ R(0) = p
      /\ R(1) = Replaced(R(0), "y", d) /\ R(2) = Replaced(R(1), "M", d)
      /\ R(3) = Replaced(R(2), "d", d) /\ R(4) = Replaced(R(3), "H", d)
      /\ R(5) = Replaced(R(4), "m", d) /\ R(6) = Replaced(R(5), "s", d)
      /\ R(7) = Replaced(R(6), "q", d) /\ R(8) = Replaced(R(7), "S", d)
  <2>1. R(0) = p /\ R(1) = a /\ R(2) = b  OBVIOUS
  <2>2. R(3) = c /\ R(4) = e  OBVIOUS
  <2>3. R(5) = g /\ R(6) = h  OBVIOUS
  <2>4. R(7) = j /\ R(8) = k  OBVIOUS
  <2>. HIDE DEF R
  <2>. QED  BY <2>1, <2>2, <2>3, <2>4, Zenon
<1>. HIDE DEF R
<1>2. \A i \in 0 .. 8 : f[i] = R(i)  OBVIOUS
<1>3. f = [i \in 0 .. 8 |-> f[i]]  OBVIOUS
<1>. HIDE DEF f
<1>4. ASSUME NEW i \in 0 .. 8 PROVE f[i] = IF i = 0 THEN p ELSE Replaced(f[i - 1], Keys[i], d)
  <2>1. CASE i = 0  BY <1>1, <1>2, <2>1
  <2>2. CASE i = 1  BY <1>1, <1>2, <2>2, KeysAre
  <2>3. CASE i = 2  BY <1>1, <1>2, <2>3, KeysAre
  <2>4. CASE i = 3  BY <1>1, <1>2, <2>4, KeysAre
  <2>5. CASE i = 4  BY <1>1, <1>2, <2>5, KeysAre
  <2>6. CASE i = 5  BY <1>1, <1>2, <2>6, KeysAre
  <2>7. CASE i = 6  BY <1>1, <1>2, <2>7, KeysAre
  <2>8. CASE i = 7  BY <1>1, <1>2, <2>8, KeysAre
  <2>9. CASE i = 8  BY <1>1, <1>2, <2>9, KeysAre
  <2>. QED  BY <2>1, <2>2, <2>3, <2>4, <2>5, <2>6, <2>7, <2>8, <2>9
<1>5. f = Turned(f, p, d)  BY <1>3, <1>4, KeysAre, Zenon DEF Turned
<1>. QED  BY <1>5

(* Format's answer is the pattern with every letter done.                   *)
LEMMA FormatDone ==
  ASSUME NEW p \in Seq(Chars), NEW d \in DateRec PROVE Done(p, d, Letters, Format(p, d))
<1>. DEFINE F == CHOOSE f : f = Turned(f, p, d)
<1>1. F = Turned(F, p, d)  BY TurnedExists, Zenon
<1>2. Format(p, d) = F[8]  BY KeysAre, Zenon DEF Format, Turned
<1>. HIDE DEF F
<1>3. \A i \in 0 .. 8 : F[i] = IF i = 0 THEN p ELSE Replaced(F[i - 1], Keys[i], d)
  BY <1>1, KeysAre DEF Turned
<1>4. Done(p, d, {}, F[0])
  <2>1. Laid(p, Pieces(p, d, {}), [m \in 0 .. Len(p) |-> m])  BY LaidAtFirst
  <2>2. F[0] = p  BY <1>3
  <2>. QED  BY <2>1, <2>2, Zenon DEF Done
<1>5. ASSUME NEW i \in 1 .. 8, NEW K \in SUBSET Letters, Keys[i] \notin K, Done(p, d, K, F[i - 1])
      PROVE  Done(p, d, Also(K, Keys[i]), F[i]) /\ Also(K, Keys[i]) \in SUBSET Letters
  <2>1. Keys[i] \in Letters  BY KeysAre DEF Letters
  <2>2. i - 1 \in 0 .. 8 /\ i \in 0 .. 8 /\ i # 0  OBVIOUS
  <2>3. F[i] = Replaced(F[i - 1], Keys[i], d)  BY <1>3, <2>2
  <2>4. Done(p, d, Also(K, Keys[i]), Replaced(F[i - 1], Keys[i], d))  BY <1>5, <2>1, TurnDone
  <2>. QED  BY <2>1, <2>3, <2>4, AlsoIs
<1>6. Done(p, d, {"y"}, F[1])
  <2>1. Done(p, d, Also({}, "y"), F[1])  BY <1>4, <1>5, KeysAre
  <2>. QED  BY <2>1 DEF Also
<1>7. Done(p, d, {"y", "M"}, F[2])
  <2>1. {"y"} \in SUBSET Letters /\ "M" \notin {"y"}  BY DEF Letters
  <2>2. Done(p, d, Also({"y"}, "M"), F[2])  BY <1>5, <1>6, <2>1, KeysAre
  <2>3. Also({"y"}, "M") = {"y", "M"}  BY DEF Also
  <2>. QED  BY <2>2, <2>3
<1>8. Done(p, d, {"y", "M", "d"}, F[3])
  <2>. DEFINE K == {"y", "M"}
  <2>1. K \in SUBSET Letters /\ "d" \notin K  BY DEF Letters
  <2>2. Done(p, d, Also(K, "d"), F[3])  BY <1>5, <1>7, <2>1, KeysAre
  <2>3. Also(K, "d") = {"y", "M", "d"}  BY DEF Also
  <2>. QED  BY <2>2, <2>3
<1>9. Done(p, d, {"y", "M", "d", "H"}, F[4])
  <2>. DEFINE K == {"y", "M", "d"}
  <2>1. K \in SUBSET Letters /\ "H" \notin K  BY DEF Letters
  <2>2. Done(p, d, Also(K, "H"), F[4])  BY <1>5, <1>8, <2>1, KeysAre
  <2>3. Also(K, "H") = {"y", "M", "d", "H"}  BY DEF Also
  <2>. QED  BY <2>2, <2>3
<1>10. Done(p, d, {"y", "M", "d", "H", "m"}, F[5])
  <2>. DEFINE K == {"y", "M", "d", "H"}
  <2>1. K \in SUBSET Letters /\ "m" \notin K  BY DEF Letters
  <2>2. Done(p, d, Also(K, "m"), F[5])  BY <1>5, <1>9, <2>1, KeysAre
  <2>3. Also(K, "m") = {"y", "M", "d", "H", "m"}  BY DEF Also
  <2>. QED  BY <2>2, <2>3
<1>11. Done(p, d, {"y", "M", "d", "H", "m", "s"}, F[6])
  <2>. DEFINE K == {"y", "M", "d", "H", "m"}
  <2>1. K \in SUBSET Letters /\ "s" \notin K  BY DEF Letters
  <2>2. Done(p, d, Also(K, "s"), F[6])  BY <1>5, <1>10, <2>1, KeysAre
  <2>3. Also(K, "s") = {"y", "M", "d", "H", "m", "s"}  BY DEF Also
  <2>. QED  BY <2>2, <2>3
<1>12. Done(p, d, {"y", "M", "d", "H", "m", "s", "q"}, F[7])
  <2>. DEFINE K == {"y", "M", "d", "H", "m", "s"}
  <2>1. K \in SUBSET Letters /\ "q" \notin K  BY DEF Letters
  <2>2. Done(p, d, Also(K, "q"), F[7])  BY <1>5, <1>11, <2>1, KeysAre
  <2>3. Also(K, "q") = {"y", "M", "d", "H", "m", "s", "q"}  BY DEF Also
  <2>. QED  BY <2>2, <2>3
<1>13. Done(p, d, Letters, F[8])
  <2>. DEFINE K == {"y", "M", "d", "H", "m", "s", "q"}
  <2>1. K \in SUBSET Letters /\ "S" \notin K  BY DEF Letters
  <2>2. Done(p, d, Also(K, "S"), F[8])  BY <1>5, <1>12, <2>1, KeysAre
  <2>3. Also(K, "S") = Letters  BY DEF Also, Letters
  <2>. QED  BY <2>2, <2>3
<1>. QED  BY <1>2, <1>13
-----------------------------------------------------------------------------
(* Figures are told from one another by their ranks.                        *)
LEMMA FiguresDiffer ==
  ASSUME NEW i \in 1 .. 10, NEW j \in 1 .. 10, Figures[i] = Figures[j] PROVE i = j
BY DEF Figures

LEMMA RankOf == ASSUME NEW n \in 0 .. 9 PROVE Rank(Figures[n + 1]) = n + 1
<1>. DEFINE c == Figures[n + 1]
           r == CHOOSE m \in DOMAIN Figures : Figures[m] = c
<1>1. DOMAIN Figures = 1 .. 10 /\ n + 1 \in 1 .. 10  BY DEF Figures
<1>2. c \in ToSet(Figures)  BY <1>1 DEF ToSet
<1>3. r \in 1 .. 10 /\ Figures[r] = Figures[n + 1]  BY <1>1
<1>4. Rank(c) = r  BY <1>2 DEF Rank
<1>. HIDE DEF r
<1>. QED  BY <1>1, <1>3, <1>4, FiguresDiffer

LEMMA RankTypes == ASSUME NEW c PROVE Rank(c) \in 0 .. 10
<1>1. DOMAIN Figures = 1 .. 10  BY DEF Figures
<1>2. CASE c \in ToSet(Figures)
  <2>1. \E m \in DOMAIN Figures : Figures[m] = c  BY <1>2 DEF ToSet
  <2>2. Rank(c) \in DOMAIN Figures  BY <1>2, <2>1 DEF Rank
  <2>. QED  BY <1>1, <2>2
<1>3. CASE c \notin ToSet(Figures)  BY <1>3 DEF Rank
<1>. QED  BY <1>2, <1>3

\* q of t is a figure, and which.
Shows(t, q, n) == n \in 0 .. 9 /\ t[q] = Figures[n + 1]

(* A field of two letters is two figures, if it is below 100.               *)
LEMMA RenderedTwo ==
  ASSUME NEW d \in DateRec, NEW k \in Letters, k # "y", NEW a \in 0 .. 9, NEW b \in 0 .. 9,
         Field(k, d) = 10 * a + b
  PROVE  /\ Len(Rendered(k, 2, d)) = 2
         /\ Shows(Rendered(k, 2, d), 1, a) /\ Shows(Rendered(k, 2, d), 2, b)
<1>. DEFINE v == Decimal[10 * a + b]
           z == <<"0", "0">>
           w == z \o v
           n == Len(v)
           R == Rendered(k, 2, d)
<1>1. R = Substr(w, n)  BY DEF Rendered
<1>2. z \in Seq(Digits) /\ Len(z) = 2 /\ z[2] = "0"  BY DigitsAre
<1>. HIDE DEF z
<1>5. ASSUME v \in Seq(Digits)
      PROVE  /\ w \in Seq(Digits) /\ Len(w) = 2 + Len(v) /\ w[2] = "0"
             /\ \A x \in 1 .. Len(v) : w[2 + x] = v[x]
  <2>. HIDE DEF v
  <2>1. z \in Seq(Digits) /\ v \in Seq(Digits)  BY <1>2, <1>5
  <2>2. /\ w \in Seq(Digits) /\ Len(w) = Len(z) + Len(v)
        /\ \A x \in 1 .. Len(z) : w[x] = z[x]
        /\ \A x \in 1 .. Len(v) : w[Len(z) + x] = v[x]
    BY <2>1, Joins
  <2>3. 2 \in 1 .. Len(z)  BY <1>2
  <2>. QED  BY <1>2, <2>2, <2>3
<1>3. CASE a = 0
  <2>1. 10 * a + b = b  BY <1>3
  <2>2. v \in Seq(Digits) /\ n = 1 /\ v[1] = Figures[b + 1]  BY <2>1, DecimalOne
  <2>3. w \in Seq(Digits) /\ Len(w) = 3 /\ w[2] = "0" /\ w[3] = v[1]
    <3>1. 1 \in 1 .. Len(v) /\ 2 + 1 = 3  BY <2>2
    <3>2. w[2 + 1] = v[1]  BY <1>5, <2>2, <3>1
    <3>. QED  BY <1>5, <2>2, <3>2
  <2>. HIDE DEF v
  <2>. HIDE DEF w, n
  <2>4. R = SubSeq(w, 2, Len(w))  BY <1>1, <2>2 DEF Substr
  <2>. HIDE DEF R
  <2>5. Len(R) = 2 /\ R[1] = w[2] /\ R[2] = w[3]
    <3>1. 2 \in 1 .. Len(w)  BY <2>3
    <3>2. Len(SubSeq(w, 2, Len(w))) = Len(w) - 2 + 1
          /\ \A i \in 1 .. (Len(w) - 2 + 1) : SubSeq(w, 2, Len(w))[i] = w[2 + i - 1]
      BY <2>3, <3>1, TailFrom
    <3>3. 1 \in 1 .. (Len(w) - 2 + 1) /\ 2 \in 1 .. (Len(w) - 2 + 1)  BY <2>3
    <3>4. R[1] = w[2 + 1 - 1] /\ R[2] = w[2 + 2 - 1]  BY <2>4, <3>2, <3>3
    <3>. QED  BY <2>3, <2>4, <3>2, <3>4
  <2>6. Figures[a + 1] = "0"  BY <1>3 DEF Figures
  <2>. QED  BY <2>2, <2>3, <2>5, <2>6 DEF R, Shows
<1>4. CASE a # 0
  <2>1. a \in 1 .. 9  BY <1>4
  <2>2. v \in Seq(Digits) /\ n = 2 /\ v[1] = Figures[a + 1] /\ v[2] = Figures[b + 1]
    BY <2>1, DecimalTwo
  <2>3. w \in Seq(Digits) /\ Len(w) = 4 /\ w[3] = v[1] /\ w[4] = v[2]
    <3>1. 1 \in 1 .. Len(v) /\ 2 \in 1 .. Len(v)  BY <2>2
    <3>2. w[2 + 1] = v[1] /\ w[2 + 2] = v[2]  BY <1>5, <2>2, <3>1
    <3>. QED  BY <1>5, <2>2, <3>2
  <2>. HIDE DEF v
  <2>. HIDE DEF w, n
  <2>4. R = SubSeq(w, 3, Len(w))  BY <1>1, <2>2 DEF Substr
  <2>. HIDE DEF R
  <2>5. Len(R) = 2 /\ R[1] = w[3] /\ R[2] = w[4]
    <3>1. 3 \in 1 .. Len(w)  BY <2>3
    <3>2. Len(SubSeq(w, 3, Len(w))) = Len(w) - 3 + 1
          /\ \A i \in 1 .. (Len(w) - 3 + 1) : SubSeq(w, 3, Len(w))[i] = w[3 + i - 1]
      BY <2>3, <3>1, TailFrom
    <3>3. 1 \in 1 .. (Len(w) - 3 + 1) /\ 2 \in 1 .. (Len(w) - 3 + 1)  BY <2>3
    <3>4. R[1] = w[3 + 1 - 1] /\ R[2] = w[3 + 2 - 1]  BY <2>4, <3>2, <3>3
    <3>. QED  BY <2>3, <2>4, <3>2, <3>4
  <2>. QED  BY <2>2, <2>3, <2>5 DEF R, Shows
<1>. QED  BY <1>3, <1>4

LEMMA RenderedYear ==
  ASSUME NEW d \in DateRec, NEW a, NEW b, NEW c, NEW e, FourFigures(d.year, a, b, c, e)
  PROVE  LET R == Rendered("y", 4, d)
         IN  Len(R) = 4 /\ Shows(R, 1, a) /\ Shows(R, 2, b) /\ Shows(R, 3, c) /\ Shows(R, 4, e)
<1>. DEFINE v == Decimal[d.year]
           R == Rendered("y", 4, d)
<1>1. /\ v \in Seq(Digits) /\ Len(v) = 4 /\ v[1] = Figures[a + 1] /\ v[2] = Figures[b + 1]
      /\ v[3] = Figures[c + 1] /\ v[4] = Figures[e + 1]
  BY DecimalFour
<1>2. Field("y", d) = d.year  BY FieldIs
<1>3. R = Substr(v, 4 - 4)  BY <1>2 DEF Rendered
<1>. HIDE DEF v
<1>4. R = SubSeq(v, 1, Len(v))  BY <1>3 DEF Substr
<1>. HIDE DEF R
<1>5. /\ Len(SubSeq(v, 1, Len(v))) = Len(v) - 1 + 1
      /\ \A i \in 1 .. (Len(v) - 1 + 1) : SubSeq(v, 1, Len(v))[i] = v[1 + i - 1]
  <2>1. 1 \in 1 .. Len(v)  BY <1>1
  <2>. QED  BY <1>1, <2>1, TailFrom
<1>6. Len(R) = 4 /\ \A i \in 1 .. 4 : R[i] = v[1 + i - 1]  BY <1>1, <1>4, <1>5
<1>7. R[1] = v[1] /\ R[2] = v[2] /\ R[3] = v[3] /\ R[4] = v[4]  BY <1>6
<1>8. a \in 0 .. 9 /\ b \in 0 .. 9 /\ c \in 0 .. 9 /\ e \in 0 .. 9  BY DEF FourFigures
<1>. QED  BY <1>1, <1>6, <1>7, <1>8 DEF R, Shows
-----------------------------------------------------------------------------
\* Of the places from A to B, the first where s and t differ is in t's favour;
\* s and t are the same there.
BlockLess(s, t, A, B) ==
  \E q \in A .. B : Rank(s[q]) < Rank(t[q]) /\ \A r \in A .. (q - 1) : s[r] = t[r]
BlockSame(s, t, A, B) == \A q \in A .. B : s[q] = t[q]

LEMMA ShownCompare ==
  ASSUME NEW s, NEW t, NEW q, NEW a, NEW x, Shows(s, q, a), Shows(t, q, x)
  PROVE  /\ Rank(s[q]) < Rank(t[q]) <=> a < x
         /\ s[q] = t[q] <=> a = x
<1>1. a \in 0 .. 9 /\ x \in 0 .. 9 /\ s[q] = Figures[a + 1] /\ t[q] = Figures[x + 1]
  BY DEF Shows
<1>2. Rank(s[q]) = a + 1 /\ Rank(t[q]) = x + 1  BY <1>1, RankOf
<1>. QED  BY <1>1, <1>2

\* The two figures of v are at q.
TwoShown(t, q, v, a, b) == v = 10 * a + b /\ Shows(t, q, a) /\ Shows(t, q + 1, b)

LEMMA TwoCompare ==
  ASSUME NEW s, NEW t, NEW q \in Nat, NEW v, NEW w, NEW a, NEW b, NEW x, NEW y,
         TwoShown(s, q, v, a, b), TwoShown(t, q, w, x, y)
  PROVE  /\ BlockLess(s, t, q, q + 1) <=> v < w
         /\ BlockSame(s, t, q, q + 1) <=> v = w
<1>1. /\ Rank(s[q]) < Rank(t[q]) <=> a < x
      /\ s[q] = t[q] <=> a = x
      /\ Rank(s[q + 1]) < Rank(t[q + 1]) <=> b < y
      /\ s[q + 1] = t[q + 1] <=> b = y
  BY ShownCompare DEF TwoShown
<1>2. /\ v = 10 * a + b /\ w = 10 * x + y
      /\ a \in 0 .. 9 /\ b \in 0 .. 9 /\ x \in 0 .. 9 /\ y \in 0 .. 9
  BY DEF TwoShown, Shows
<1>3. BlockLess(s, t, q, q + 1) <=> a < x \/ (a = x /\ b < y)
  <2>1. ASSUME NEW r \in q .. (q + 1) PROVE r = q \/ r = q + 1  OBVIOUS
  <2>2. q \in q .. (q + 1) /\ q + 1 \in q .. (q + 1)  OBVIOUS
  <2>3. \A r \in q .. (q - 1) : FALSE  OBVIOUS
  <2>4. \A r \in q .. ((q + 1) - 1) : r = q  OBVIOUS
  <2>5. q \in q .. ((q + 1) - 1)  OBVIOUS
  <2>6. ASSUME BlockLess(s, t, q, q + 1) PROVE a < x \/ (a = x /\ b < y)
    <3>1. PICK z \in q .. (q + 1) :
            Rank(s[z]) < Rank(t[z]) /\ \A r \in q .. (z - 1) : s[r] = t[r]
      BY <2>6 DEF BlockLess
    <3>. QED  BY <1>1, <2>1, <2>5, <3>1
  <2>7. ASSUME a < x PROVE BlockLess(s, t, q, q + 1)
    <3>1. Rank(s[q]) < Rank(t[q])  BY <1>1, <2>7
    <3>. QED  BY <2>2, <2>3, <3>1 DEF BlockLess
  <2>8. ASSUME a = x, b < y PROVE BlockLess(s, t, q, q + 1)
    <3>1. Rank(s[q + 1]) < Rank(t[q + 1]) /\ s[q] = t[q]  BY <1>1, <2>8
    <3>. QED  BY <2>2, <2>4, <3>1 DEF BlockLess
  <2>. QED  BY <2>6, <2>7, <2>8
<1>4. BlockSame(s, t, q, q + 1) <=> a = x /\ b = y
  <2>1. \A r : r \in q .. (q + 1) <=> r = q \/ r = q + 1  OBVIOUS
  <2>. QED  BY <1>1, <2>1 DEF BlockSame
<1>5. v < w <=> a < x \/ (a = x /\ b < y)  BY <1>2
<1>6. v = w <=> a = x /\ b = y  BY <1>2
<1>. QED  BY <1>3, <1>4, <1>5, <1>6

\* The four figures of v are at the beginning.
YearShown(t, v, a, b, c, e) ==
  FourFigures(v, a, b, c, e) /\ Shows(t, 1, a) /\ Shows(t, 2, b) /\ Shows(t, 3, c) /\ Shows(t, 4, e)

(* Figures of one width are in the order of the numbers they show.          *)
LEMMA YearCompare ==
  ASSUME NEW s, NEW t, NEW v, NEW w, NEW a, NEW b, NEW c, NEW e, NEW x, NEW y, NEW z, NEW u,
         YearShown(s, v, a, b, c, e), YearShown(t, w, x, y, z, u)
  PROVE  /\ BlockLess(s, t, 1, 4) <=> v < w
         /\ BlockSame(s, t, 1, 4) <=> v = w
<1>1. /\ Rank(s[1]) < Rank(t[1]) <=> a < x
      /\ s[1] = t[1] <=> a = x
      /\ Rank(s[2]) < Rank(t[2]) <=> b < y
      /\ s[2] = t[2] <=> b = y
      /\ Rank(s[3]) < Rank(t[3]) <=> c < z
      /\ s[3] = t[3] <=> c = z
      /\ Rank(s[4]) < Rank(t[4]) <=> e < u
      /\ s[4] = t[4] <=> e = u
  BY ShownCompare DEF YearShown
<1>2. /\ v = 1000 * a + 100 * b + 10 * c + e /\ w = 1000 * x + 100 * y + 10 * z + u
      /\ a \in 0 .. 9 /\ b \in 0 .. 9 /\ c \in 0 .. 9 /\ e \in 0 .. 9
      /\ x \in 0 .. 9 /\ y \in 0 .. 9 /\ z \in 0 .. 9 /\ u \in 0 .. 9
  BY DEF YearShown, FourFigures
<1>. DEFINE Lex == \/ a < x
                   \/ a = x /\ b < y
                   \/ a = x /\ b = y /\ c < z
                   \/ a = x /\ b = y /\ c = z /\ e < u
<1>3. BlockLess(s, t, 1, 4) <=> Lex
  <2>1. ASSUME BlockLess(s, t, 1, 4) PROVE Lex
    <3>1. PICK q \in 1 .. 4 : Rank(s[q]) < Rank(t[q]) /\ \A r \in 1 .. (q - 1) : s[r] = t[r]
      BY <2>1 DEF BlockLess
    <3>2. CASE q = 1  BY <1>1, <3>1, <3>2
    <3>3. CASE q = 2
      <4>1. s[1] = t[1]  BY <3>1, <3>3
      <4>. QED  BY <1>1, <3>1, <3>3, <4>1
    <3>4. CASE q = 3
      <4>1. s[1] = t[1] /\ s[2] = t[2]  BY <3>1, <3>4
      <4>. QED  BY <1>1, <3>1, <3>4, <4>1
    <3>5. CASE q = 4
      <4>1. s[1] = t[1] /\ s[2] = t[2] /\ s[3] = t[3]  BY <3>1, <3>5
      <4>. QED  BY <1>1, <3>1, <3>5, <4>1
    <3>. QED  BY <3>2, <3>3, <3>4, <3>5
  <2>2. ASSUME a < x PROVE BlockLess(s, t, 1, 4)
    <3>1. 1 \in 1 .. 4 /\ \A r \in 1 .. (1 - 1) : s[r] = t[r]  OBVIOUS
    <3>. QED  BY <1>1, <2>2, <3>1 DEF BlockLess
  <2>3. ASSUME a = x, b < y PROVE BlockLess(s, t, 1, 4)
    <3>1. 2 \in 1 .. 4 /\ \A r \in 1 .. (2 - 1) : r = 1  OBVIOUS
    <3>. QED  BY <1>1, <2>3, <3>1 DEF BlockLess
  <2>4. ASSUME a = x, b = y, c < z PROVE BlockLess(s, t, 1, 4)
    <3>1. 3 \in 1 .. 4 /\ \A r \in 1 .. (3 - 1) : r = 1 \/ r = 2  OBVIOUS
    <3>. QED  BY <1>1, <2>4, <3>1 DEF BlockLess
  <2>5. ASSUME a = x, b = y, c = z, e < u PROVE BlockLess(s, t, 1, 4)
    <3>1. 4 \in 1 .. 4 /\ \A r \in 1 .. (4 - 1) : r = 1 \/ r = 2 \/ r = 3  OBVIOUS
    <3>. QED  BY <1>1, <2>5, <3>1 DEF BlockLess
  <2>. QED  BY <2>1, <2>2, <2>3, <2>4, <2>5
<1>4. BlockSame(s, t, 1, 4) <=> a = x /\ b = y /\ c = z /\ e = u
  <2>1. \A r : r \in 1 .. 4 <=> r = 1 \/ r = 2 \/ r = 3 \/ r = 4  OBVIOUS
  <2>. QED  BY <1>1, <2>1 DEF BlockSame
<1>5. v < w <=> Lex  BY <1>2
<1>6. v = w <=> a = x /\ b = y /\ c = z /\ e = u  BY <1>2
<1>. QED  BY <1>3, <1>4, <1>5, <1>6

\* t is the text of d from the year to the second.
SortableText(t, d) ==
  /\ DOMAIN t = 1 .. 19
  /\ t[5] = "-" /\ t[8] = "-" /\ t[11] = " " /\ t[14] = ":" /\ t[17] = ":"
  /\ \E a, b, c, e : YearShown(t, d.year, a, b, c, e)
  /\ \E a, b : TwoShown(t, 6, d.month + 1, a, b)
  /\ \E a, b : TwoShown(t, 9, d.day, a, b)
  /\ \E a, b : TwoShown(t, 12, d.hours, a, b)
  /\ \E a, b : TwoShown(t, 15, d.minutes, a, b)
  /\ \E a, b : TwoShown(t, 18, d.seconds, a, b)

LEMMA BlocksCompare ==
  ASSUME NEW s, NEW t, NEW d, NEW f, SortableText(s, d), SortableText(t, f)
  PROVE  /\ (BlockLess(s, t, 1, 4) <=> d.year < f.year)
            /\ (BlockSame(s, t, 1, 4) <=> d.year = f.year)
         /\ (BlockLess(s, t, 6, 7) <=> d.month + 1 < f.month + 1)
            /\ (BlockSame(s, t, 6, 7) <=> d.month + 1 = f.month + 1)
         /\ (BlockLess(s, t, 9, 10) <=> d.day < f.day) /\ (BlockSame(s, t, 9, 10) <=> d.day = f.day)
         /\ (BlockLess(s, t, 12, 13) <=> d.hours < f.hours)
            /\ (BlockSame(s, t, 12, 13) <=> d.hours = f.hours)
         /\ (BlockLess(s, t, 15, 16) <=> d.minutes < f.minutes)
            /\ (BlockSame(s, t, 15, 16) <=> d.minutes = f.minutes)
         /\ (BlockLess(s, t, 18, 19) <=> d.seconds < f.seconds)
            /\ (BlockSame(s, t, 18, 19) <=> d.seconds = f.seconds)
<1>1. (BlockLess(s, t, 1, 4) <=> d.year < f.year) /\ (BlockSame(s, t, 1, 4) <=> d.year = f.year)
  <2>1. PICK a, b, c, e : YearShown(s, d.year, a, b, c, e)  BY DEF SortableText
  <2>2. PICK x, y, z, u : YearShown(t, f.year, x, y, z, u)  BY DEF SortableText
  <2>. QED  BY <2>1, <2>2, YearCompare
<1>2. ASSUME NEW q \in Nat, NEW v, NEW w, \E a, b : TwoShown(s, q, v, a, b),
             \E a, b : TwoShown(t, q, w, a, b)
      PROVE  (BlockLess(s, t, q, q + 1) <=> v < w) /\ (BlockSame(s, t, q, q + 1) <=> v = w)
  <2>1. PICK a, b : TwoShown(s, q, v, a, b)  BY <1>2
  <2>2. PICK x, y : TwoShown(t, q, w, x, y)  BY <1>2
  <2>. QED  BY <2>1, <2>2, TwoCompare
<1>3. /\ BlockLess(s, t, 6, 6 + 1) <=> d.month + 1 < f.month + 1
      /\ BlockSame(s, t, 6, 6 + 1) <=> d.month + 1 = f.month + 1
  <2>1. \E a, b : TwoShown(s, 6, d.month + 1, a, b)  BY DEF SortableText
  <2>2. \E a, b : TwoShown(t, 6, f.month + 1, a, b)  BY DEF SortableText
  <2>. QED  BY <1>2, <2>1, <2>2
<1>4. /\ BlockLess(s, t, 9, 9 + 1) <=> d.day < f.day
      /\ BlockSame(s, t, 9, 9 + 1) <=> d.day = f.day
  <2>1. \E a, b : TwoShown(s, 9, d.day, a, b)  BY DEF SortableText
  <2>2. \E a, b : TwoShown(t, 9, f.day, a, b)  BY DEF SortableText
  <2>. QED  BY <1>2, <2>1, <2>2
<1>5. /\ BlockLess(s, t, 12, 12 + 1) <=> d.hours < f.hours
      /\ BlockSame(s, t, 12, 12 + 1) <=> d.hours = f.hours
  <2>1. \E a, b : TwoShown(s, 12, d.hours, a, b)  BY DEF SortableText
  <2>2. \E a, b : TwoShown(t, 12, f.hours, a, b)  BY DEF SortableText
  <2>. QED  BY <1>2, <2>1, <2>2
<1>6. /\ BlockLess(s, t, 15, 15 + 1) <=> d.minutes < f.minutes
      /\ BlockSame(s, t, 15, 15 + 1) <=> d.minutes = f.minutes
  <2>1. \E a, b : TwoShown(s, 15, d.minutes, a, b)  BY DEF SortableText
  <2>2. \E a, b : TwoShown(t, 15, f.minutes, a, b)  BY DEF SortableText
  <2>. QED  BY <1>2, <2>1, <2>2
<1>7. /\ BlockLess(s, t, 18, 18 + 1) <=> d.seconds < f.seconds
      /\ BlockSame(s, t, 18, 18 + 1) <=> d.seconds = f.seconds
  <2>1. \E a, b : TwoShown(s, 18, d.seconds, a, b)  BY DEF SortableText
  <2>2. \E a, b : TwoShown(t, 18, f.seconds, a, b)  BY DEF SortableText
  <2>. QED  BY <1>2, <2>1, <2>2
<1>8. 6 + 1 = 7 /\ 9 + 1 = 10 /\ 12 + 1 = 13 /\ 15 + 1 = 16 /\ 18 + 1 = 19  OBVIOUS
<1>. QED  BY <1>1, <1>3, <1>4, <1>5, <1>6, <1>7, <1>8
-----------------------------------------------------------------------------
\* One block decides and those before it are the same.
LessByBlocks(s, t) ==
  \/ BlockLess(s, t, 1, 4)
  \/ BlockSame(s, t, 1, 4) /\ BlockLess(s, t, 6, 7)
  \/ BlockSame(s, t, 1, 4) /\ BlockSame(s, t, 6, 7) /\ BlockLess(s, t, 9, 10)
  \/ BlockSame(s, t, 1, 4) /\ BlockSame(s, t, 6, 7) /\ BlockSame(s, t, 9, 10)
     /\ BlockLess(s, t, 12, 13)
  \/ BlockSame(s, t, 1, 4) /\ BlockSame(s, t, 6, 7) /\ BlockSame(s, t, 9, 10)
     /\ BlockSame(s, t, 12, 13) /\ BlockLess(s, t, 15, 16)
  \/ BlockSame(s, t, 1, 4) /\ BlockSame(s, t, 6, 7) /\ BlockSame(s, t, 9, 10)
     /\ BlockSame(s, t, 12, 13) /\ BlockSame(s, t, 15, 16) /\ BlockLess(s, t, 18, 19)

SameTo(s, t, n) == \A j \in 1 .. n : s[j] = t[j]

(* The order of such texts is that of their blocks.                         *)
LEMMA TextByBlocks ==
  ASSUME NEW s, NEW t, DOMAIN s = 1 .. 19, DOMAIN t = 1 .. 19,
         s[5] = t[5], s[8] = t[8], s[11] = t[11], s[14] = t[14], s[17] = t[17]
  PROVE  TextLess(s, t) <=> LessByBlocks(s, t)
<1>1. ASSUME TextLess(s, t) PROVE LessByBlocks(s, t)
  <2>1. PICK q \in 1 .. 19 : Rank(s[q]) < Rank(t[q]) /\ \A j \in 1 .. (q - 1) : s[j] = t[j]
    BY <1>1 DEF TextLess
  <2>2. s[q] # t[q]
    <3>. SUFFICES ASSUME s[q] = t[q] PROVE FALSE  OBVIOUS
    <3>1. Rank(s[q]) < Rank(s[q]) /\ Rank(s[q]) \in 0 .. 10  BY <2>1, RankTypes
    <3>. QED  BY <3>1
  <2>3. q # 5 /\ q # 8 /\ q # 11 /\ q # 14 /\ q # 17  BY <2>2
  <2>4. ASSUME NEW A \in 1 .. 19, NEW B \in A .. 19, q \in A .. B PROVE BlockLess(s, t, A, B)
    <3>1. \A r \in A .. (q - 1) : s[r] = t[r]  BY <2>1
    <3>. QED  BY <2>1, <2>4, <3>1 DEF BlockLess
  <2>5. ASSUME NEW A \in 1 .. 19, NEW B \in A .. 19, B < q PROVE BlockSame(s, t, A, B)
    <3>1. \A r \in A .. B : r \in 1 .. (q - 1)  BY <2>5
    <3>. QED  BY <2>1, <3>1 DEF BlockSame
  <2>6. CASE q \in 1 .. 4
    <3>1. BlockLess(s, t, 1, 4)  BY <2>4, <2>6
    <3>. QED  BY <3>1 DEF LessByBlocks
  <2>7. CASE q \in 6 .. 7
    <3>1. BlockLess(s, t, 6, 7)  BY <2>4, <2>7
    <3>2. 4 < q  BY <2>7
    <3>3. BlockSame(s, t, 1, 4)  BY <2>5, <3>2
    <3>. QED  BY <3>1, <3>3 DEF LessByBlocks
  <2>8. CASE q \in 9 .. 10
    <3>1. BlockLess(s, t, 9, 10)  BY <2>4, <2>8
    <3>2. 4 < q /\ 7 < q  BY <2>8
    <3>3. BlockSame(s, t, 1, 4) /\ BlockSame(s, t, 6, 7)  BY <2>5, <3>2
    <3>. QED  BY <3>1, <3>3 DEF LessByBlocks
  <2>9. CASE q \in 12 .. 13
    <3>1. BlockLess(s, t, 12, 13)  BY <2>4, <2>9
    <3>2. 4 < q /\ 7 < q /\ 10 < q  BY <2>9
    <3>3. BlockSame(s, t, 1, 4) /\ BlockSame(s, t, 6, 7) /\ BlockSame(s, t, 9, 10)  BY <2>5, <3>2
    <3>. QED  BY <3>1, <3>3 DEF LessByBlocks
  <2>10. CASE q \in 15 .. 16
    <3>1. BlockLess(s, t, 15, 16)  BY <2>4, <2>10
    <3>2. 4 < q /\ 7 < q /\ 10 < q /\ 13 < q  BY <2>10
    <3>3. BlockSame(s, t, 1, 4) /\ BlockSame(s, t, 6, 7) /\ BlockSame(s, t, 9, 10)
          /\ BlockSame(s, t, 12, 13)
      BY <2>5, <3>2
    <3>. QED  BY <3>1, <3>3 DEF LessByBlocks
  <2>11. CASE q \in 18 .. 19
    <3>1. BlockLess(s, t, 18, 19)  BY <2>4, <2>11
    <3>2. 4 < q /\ 7 < q /\ 10 < q /\ 13 < q /\ 16 < q  BY <2>11
    <3>3. BlockSame(s, t, 1, 4) /\ BlockSame(s, t, 6, 7) /\ BlockSame(s, t, 9, 10)
          /\ BlockSame(s, t, 12, 13) /\ BlockSame(s, t, 15, 16)
      BY <2>5, <3>2
    <3>. QED  BY <3>1, <3>3 DEF LessByBlocks
  <2>. QED  BY <2>3, <2>6, <2>7, <2>8, <2>9, <2>10, <2>11
<1>2. ASSUME LessByBlocks(s, t) PROVE TextLess(s, t)
  <2>1. ASSUME NEW A \in 1 .. 19, NEW B \in A .. 19, BlockLess(s, t, A, B), SameTo(s, t, A - 1)
        PROVE  TextLess(s, t)
    <3>1. PICK q \in A .. B : Rank(s[q]) < Rank(t[q]) /\ \A r \in A .. (q - 1) : s[r] = t[r]
      BY <2>1 DEF BlockLess
    <3>2. q \in 1 .. 19  OBVIOUS
    <3>3. ASSUME NEW j \in 1 .. (q - 1) PROVE s[j] = t[j]
      <4>1. j \in 1 .. (A - 1) \/ j \in A .. (q - 1)  BY <3>2
      <4>. QED  BY <2>1, <3>1, <4>1 DEF SameTo
    <3>. QED  BY <3>1, <3>2, <3>3 DEF TextLess
  <2>2. SameTo(s, t, 1 - 1)  BY DEF SameTo
  <2>3. ASSUME NEW A \in 1 .. 18, NEW B \in A .. 18, SameTo(s, t, A - 1), BlockSame(s, t, A, B),
               s[B + 1] = t[B + 1]
        PROVE  SameTo(s, t, B + 2 - 1)
    <3>1. ASSUME NEW j \in 1 .. (B + 2 - 1) PROVE s[j] = t[j]
      <4>1. j \in 1 .. (A - 1) \/ j \in A .. B \/ j = B + 1  OBVIOUS
      <4>. QED  BY <2>3, <4>1 DEF SameTo, BlockSame
    <3>. QED  BY <3>1 DEF SameTo
  <2>4. BlockSame(s, t, 1, 4) => SameTo(s, t, 6 - 1)
    <3>1. 1 \in 1 .. 18 /\ 4 \in 1 .. 18 /\ 4 + 1 = 5 /\ 4 + 2 = 6  OBVIOUS
    <3>. QED  BY <2>2, <2>3, <3>1
  <2>5. SameTo(s, t, 6 - 1) /\ BlockSame(s, t, 6, 7) => SameTo(s, t, 9 - 1)
    <3>1. 6 \in 1 .. 18 /\ 7 \in 6 .. 18 /\ 7 + 1 = 8 /\ 7 + 2 = 9  OBVIOUS
    <3>. QED  BY <2>3, <3>1
  <2>6. SameTo(s, t, 9 - 1) /\ BlockSame(s, t, 9, 10) => SameTo(s, t, 12 - 1)
    <3>1. 9 \in 1 .. 18 /\ 10 \in 9 .. 18 /\ 10 + 1 = 11 /\ 10 + 2 = 12  OBVIOUS
    <3>. QED  BY <2>3, <3>1
  <2>7. SameTo(s, t, 12 - 1) /\ BlockSame(s, t, 12, 13) => SameTo(s, t, 15 - 1)
    <3>1. 12 \in 1 .. 18 /\ 13 \in 12 .. 18 /\ 13 + 1 = 14 /\ 13 + 2 = 15  OBVIOUS
    <3>. QED  BY <2>3, <3>1
  <2>8. SameTo(s, t, 15 - 1) /\ BlockSame(s, t, 15, 16) => SameTo(s, t, 18 - 1)
    <3>1. 15 \in 1 .. 18 /\ 16 \in 15 .. 18 /\ 16 + 1 = 17 /\ 16 + 2 = 18  OBVIOUS
    <3>. QED  BY <2>3, <3>1
  <2>9. /\ 1 \in 1 .. 19 /\ 4 \in 1 .. 19 /\ 6 \in 1 .. 19 /\ 7 \in 6 .. 19
        /\ 9 \in 1 .. 19 /\ 10 \in 9 .. 19 /\ 12 \in 1 .. 19 /\ 13 \in 12 .. 19
        /\ 15 \in 1 .. 19 /\ 16 \in 15 .. 19 /\ 18 \in 1 .. 19 /\ 19 \in 18 .. 19
    OBVIOUS
  <2>10. CASE BlockLess(s, t, 1, 4)  BY <2>1, <2>2, <2>9, <2>10, Zenon
  <2>11. CASE SameTo(s, t, 6 - 1) /\ BlockLess(s, t, 6, 7)  BY <2>1, <2>9, <2>11, Zenon
  <2>12. CASE SameTo(s, t, 9 - 1) /\ BlockLess(s, t, 9, 10)  BY <2>1, <2>9, <2>12, Zenon
  <2>13. CASE SameTo(s, t, 12 - 1) /\ BlockLess(s, t, 12, 13)  BY <2>1, <2>9, <2>13, Zenon
  <2>14. CASE SameTo(s, t, 15 - 1) /\ BlockLess(s, t, 15, 16)  BY <2>1, <2>9, <2>14, Zenon
  <2>15. CASE SameTo(s, t, 18 - 1) /\ BlockLess(s, t, 18, 19)  BY <2>1, <2>9, <2>15, Zenon
  <2>. QED
    BY <1>2, <2>4, <2>5, <2>6, <2>7, <2>8, <2>10, <2>11, <2>12, <2>13, <2>14, <2>15, Zenon
    DEF LessByBlocks
<1>. QED  BY <1>1, <1>2

\* One field decides and those before it are the same.
EarlierByFields(d, f) ==
  \/ d.year < f.year
  \/ d.year = f.year /\ d.month + 1 < f.month + 1
  \/ d.year = f.year /\ d.month + 1 = f.month + 1 /\ d.day < f.day
  \/ d.year = f.year /\ d.month + 1 = f.month + 1 /\ d.day = f.day /\ d.hours < f.hours
  \/ d.year = f.year /\ d.month + 1 = f.month + 1 /\ d.day = f.day /\ d.hours = f.hours
     /\ d.minutes < f.minutes
  \/ d.year = f.year /\ d.month + 1 = f.month + 1 /\ d.day = f.day /\ d.hours = f.hours
     /\ d.minutes = f.minutes /\ d.seconds < f.seconds

LEMMA EarlierIs == ASSUME NEW d, NEW f PROVE Earlier(d, f) <=> EarlierByFields(d, f)
<1>. DEFINE D(i) == Field(DateFields[i], d)
           E(i) == Field(DateFields[i], f)
<1>1. DOMAIN DateFields = 1 .. 6  BY DEF DateFields
<1>2. /\ DateFields[1] = "y" /\ DateFields[2] = "M" /\ DateFields[3] = "d"
      /\ DateFields[4] = "H" /\ DateFields[5] = "m" /\ DateFields[6] = "s"
  BY DEF DateFields
<1>3. /\ D(1) = d.year /\ D(2) = d.month + 1 /\ D(3) = d.day
      /\ D(4) = d.hours /\ D(5) = d.minutes /\ D(6) = d.seconds
  BY <1>2, FieldIs
<1>4. /\ E(1) = f.year /\ E(2) = f.month + 1 /\ E(3) = f.day
      /\ E(4) = f.hours /\ E(5) = f.minutes /\ E(6) = f.seconds
  BY <1>2, FieldIs
<1>5. Earlier(d, f) <=> \E i \in 1 .. 6 : D(i) < E(i) /\ \A j \in 1 .. (i - 1) : D(j) = E(j)
  BY <1>1 DEF Earlier
<1>. HIDE DEF D, E
<1>6. ASSUME NEW i \in 1 .. 6, D(i) < E(i), \A j \in 1 .. (i - 1) : D(j) = E(j)
      PROVE  EarlierByFields(d, f)
  <2>1. CASE i = 1  BY <1>3, <1>4, <1>6, <2>1 DEF EarlierByFields
  <2>2. CASE i = 2
    <3>1. D(1) = E(1)  BY <1>6, <2>2
    <3>. QED  BY <1>3, <1>4, <1>6, <2>2, <3>1 DEF EarlierByFields
  <2>3. CASE i = 3
    <3>1. D(1) = E(1) /\ D(2) = E(2)  BY <1>6, <2>3
    <3>. QED  BY <1>3, <1>4, <1>6, <2>3, <3>1 DEF EarlierByFields
  <2>4. CASE i = 4
    <3>1. D(1) = E(1) /\ D(2) = E(2) /\ D(3) = E(3)  BY <1>6, <2>4
    <3>. QED  BY <1>3, <1>4, <1>6, <2>4, <3>1 DEF EarlierByFields
  <2>5. CASE i = 5
    <3>1. D(1) = E(1) /\ D(2) = E(2) /\ D(3) = E(3) /\ D(4) = E(4)  BY <1>6, <2>5
    <3>. QED  BY <1>3, <1>4, <1>6, <2>5, <3>1 DEF EarlierByFields
  <2>6. CASE i = 6
    <3>1. D(1) = E(1) /\ D(2) = E(2) /\ D(3) = E(3) /\ D(4) = E(4) /\ D(5) = E(5)  BY <1>6, <2>6
    <3>. QED  BY <1>3, <1>4, <1>6, <2>6, <3>1 DEF EarlierByFields
  <2>. QED  BY <2>1, <2>2, <2>3, <2>4, <2>5, <2>6
<1>7. ASSUME EarlierByFields(d, f)
      PROVE  \E i \in 1 .. 6 : D(i) < E(i) /\ \A j \in 1 .. (i - 1) : D(j) = E(j)
  <2>1. \A j \in 1 .. (1 - 1) : FALSE  OBVIOUS
  <2>2. \A j \in 1 .. (2 - 1) : j = 1  OBVIOUS
  <2>3. \A j \in 1 .. (3 - 1) : j = 1 \/ j = 2  OBVIOUS
  <2>4. \A j \in 1 .. (4 - 1) : j = 1 \/ j = 2 \/ j = 3  OBVIOUS
  <2>5. \A j \in 1 .. (5 - 1) : j = 1 \/ j = 2 \/ j = 3 \/ j = 4  OBVIOUS
  <2>6. \A j \in 1 .. (6 - 1) : j = 1 \/ j = 2 \/ j = 3 \/ j = 4 \/ j = 5  OBVIOUS
  <2>7. CASE D(1) < E(1)  BY <2>1, <2>7
  <2>8. CASE D(1) = E(1) /\ D(2) < E(2)  BY <2>2, <2>8
  <2>9. CASE D(1) = E(1) /\ D(2) = E(2) /\ D(3) < E(3)  BY <2>3, <2>9
  <2>10. CASE D(1) = E(1) /\ D(2) = E(2) /\ D(3) = E(3) /\ D(4) < E(4)  BY <2>4, <2>10
  <2>11. CASE D(1) = E(1) /\ D(2) = E(2) /\ D(3) = E(3) /\ D(4) = E(4) /\ D(5) < E(5)
    BY <2>5, <2>11
  <2>12. CASE D(1) = E(1) /\ D(2) = E(2) /\ D(3) = E(3) /\ D(4) = E(4) /\ D(5) = E(5)
              /\ D(6) < E(6)
    BY <2>6, <2>12
  <2>. QED  BY <1>3, <1>4, <1>7, <2>7, <2>8, <2>9, <2>10, <2>11, <2>12 DEF EarlierByFields
<1>. QED  BY <1>5, <1>6, <1>7

(* Texts from the year to the second are in the order of their dates.       *)
LEMMA SortableOrder ==
  ASSUME NEW s, NEW t, NEW d, NEW f, SortableText(s, d), SortableText(t, f)
  PROVE  Earlier(d, f) <=> TextLess(s, t)
<1>1. TextLess(s, t) <=> LessByBlocks(s, t)  BY TextByBlocks DEF SortableText
<1>2. LessByBlocks(s, t) <=> EarlierByFields(d, f)
  BY BlocksCompare DEF LessByBlocks, EarlierByFields
<1>. QED  BY <1>1, <1>2, EarlierIs
-----------------------------------------------------------------------------
\* The run of k from i to j is in the pieces P its field of d.
RunIsDone(P, k, d, i, j) ==
  P[i] = Rendered(k, j - i + 1, d) /\ \A l \in (i + 1) .. j : P[l] = <<>>

(* Every letter done, a first run is its field and nothing more.            *)
LEMMA RunDone ==
  ASSUME NEW p \in Seq(Chars), NEW d \in DateRec, NEW k \in Letters, NEW i, NEW j,
         FirstRun(p, k, i, j)
  PROVE  RunIsDone(Pieces(p, d, Letters), k, d, i, j)
<1>. DEFINE K == Letters \ {k}
<1>1. K \in SUBSET Letters /\ k \notin K /\ Also(K, k) = Letters  BY DEF Also
<1>. HIDE DEF K
<1>2. K \in SUBSET Letters /\ k \notin K  BY <1>1
<1>3. /\ Pieces(p, d, Also(K, k))[i] = Rendered(k, j - i + 1, d)
      /\ \A l \in (i + 1) .. j : Pieces(p, d, Also(K, k))[l] = <<>>
  BY <1>2, RunPieces
<1>4. RunIsDone(Pieces(p, d, Also(K, k)), k, d, i, j)  BY <1>3, Zenon DEF RunIsDone
<1>. QED  BY <1>1, <1>4, Zenon

LEMMA SortableIs ==
  /\ Len(Sortable) = 19 /\ DOMAIN Sortable = 1 .. 19
  /\ Sortable[1] = "y" /\ Sortable[2] = "y" /\ Sortable[3] = "y" /\ Sortable[4] = "y"
  /\ Sortable[5] = "-" /\ Sortable[6] = "M" /\ Sortable[7] = "M" /\ Sortable[8] = "-"
  /\ Sortable[9] = "d" /\ Sortable[10] = "d" /\ Sortable[11] = " " /\ Sortable[12] = "H"
  /\ Sortable[13] = "H" /\ Sortable[14] = ":" /\ Sortable[15] = "m" /\ Sortable[16] = "m"
  /\ Sortable[17] = ":" /\ Sortable[18] = "s" /\ Sortable[19] = "s"
BY DEF Sortable

(* The runs of the pattern from the year to the second.                     *)
LEMMA SortableRuns ==
  /\ FirstRun(Sortable, "y", 1, 4) /\ FirstRun(Sortable, "M", 6, 7)
  /\ FirstRun(Sortable, "d", 9, 10) /\ FirstRun(Sortable, "H", 12, 13)
  /\ FirstRun(Sortable, "m", 15, 16) /\ FirstRun(Sortable, "s", 18, 19)
<1>1. FirstRun(Sortable, "y", 1, 4)
  <2>1. \A l \in 1 .. 4 : l = 1 \/ l = 2 \/ l = 3 \/ l = 4  OBVIOUS
  <2>2. \A l \in 1 .. (1 - 1) : FALSE  OBVIOUS
  <2>3. Sortable[4 + 1] # "y"
    <3>1. 4 + 1 = 5  OBVIOUS
    <3>. QED  BY <3>1, SortableIs
  <2>4. 1 \in 1 .. 19 /\ 4 \in 1 .. 19 /\ "y" # "S"  OBVIOUS
  <2>5. \A l \in 1 .. 4 : Sortable[l] = "y"  BY <2>1, SortableIs
  <2>. QED  BY <2>2, <2>3, <2>4, <2>5, SortableIs, Zenon DEF FirstRun
<1>2. ASSUME NEW k, NEW i \in 1 .. 18, k # "S", Sortable[i] = k, Sortable[i + 1] = k,
             \A l \in 1 .. (i - 1) : Sortable[l] # k, i + 1 # 19 => Sortable[i + 2] # k
      PROVE  FirstRun(Sortable, k, i, i + 1)
  <2>1. \A l \in i .. (i + 1) : l = i \/ l = i + 1  OBVIOUS
  <2>2. i \in 1 .. 19 /\ i + 1 \in i .. 19 /\ (i + 1) + 1 = i + 2  OBVIOUS
  <2>. QED  BY <1>2, <2>1, <2>2, SortableIs DEF FirstRun
<1>3. FirstRun(Sortable, "M", 6, 6 + 1)
  <2>1. ASSUME NEW l \in 1 .. (6 - 1) PROVE Sortable[l] # "M"
    <3>1. l \in {1, 2, 3, 4, 5}  OBVIOUS
    <3>. QED  BY <3>1, SortableIs
  <2>2. 6 + 1 = 7 /\ 6 + 2 = 8 /\ 6 \in 1 .. 18  OBVIOUS
  <2>. QED  BY <1>2, <2>1, <2>2, SortableIs
<1>4. FirstRun(Sortable, "d", 9, 9 + 1)
  <2>1. ASSUME NEW l \in 1 .. (9 - 1) PROVE Sortable[l] # "d"
    <3>1. l \in {1, 2, 3, 4, 5, 6, 7, 8}  OBVIOUS
    <3>. QED  BY <3>1, SortableIs
  <2>2. 9 + 1 = 10 /\ 9 + 2 = 11 /\ 9 \in 1 .. 18  OBVIOUS
  <2>. QED  BY <1>2, <2>1, <2>2, SortableIs
<1>5. FirstRun(Sortable, "H", 12, 12 + 1)
  <2>1. ASSUME NEW l \in 1 .. (12 - 1) PROVE Sortable[l] # "H"
    <3>1. l \in {1, 2, 3, 4, 5, 6, 7, 8, 9, 10, 11}  OBVIOUS
    <3>. QED  BY <3>1, SortableIs
  <2>2. 12 + 1 = 13 /\ 12 + 2 = 14 /\ 12 \in 1 .. 18  OBVIOUS
  <2>. QED  BY <1>2, <2>1, <2>2, SortableIs
<1>6. FirstRun(Sortable, "m", 15, 15 + 1)
  <2>1. ASSUME NEW l \in 1 .. (15 - 1) PROVE Sortable[l] # "m"
    <3>1. l \in {1, 2, 3, 4, 5, 6, 7, 8, 9, 10, 11, 12, 13, 14}  OBVIOUS
    <3>. QED  BY <3>1, SortableIs
  <2>2. 15 + 1 = 16 /\ 15 + 2 = 17 /\ 15 \in 1 .. 18  OBVIOUS
  <2>. QED  BY <1>2, <2>1, <2>2, SortableIs
<1>7. FirstRun(Sortable, "s", 18, 18 + 1)
  <2>1. ASSUME NEW l \in 1 .. (18 - 1) PROVE Sortable[l] # "s"
    <3>1. l \in {1, 2, 3, 4, 5, 6, 7, 8, 9, 10, 11, 12, 13, 14, 15, 16, 17}  OBVIOUS
    <3>. QED  BY <3>1, SortableIs
  <2>2. 18 + 1 = 19 /\ 18 \in 1 .. 18  OBVIOUS
  <2>. QED  BY <1>2, <2>1, <2>2, SortableIs
<1>8. 6 + 1 = 7 /\ 9 + 1 = 10 /\ 12 + 1 = 13 /\ 15 + 1 = 16 /\ 18 + 1 = 19  OBVIOUS
<1>. QED  BY <1>1, <1>3, <1>4, <1>5, <1>6, <1>7, <1>8

(* The pieces of the answer for the pattern from the year to the second.    *)
LEMMA SortablePieces ==
  ASSUME NEW d \in DateRec, Sortable \in Seq(Chars)
  PROVE  LET P == Pieces(Sortable, d, Letters)
         IN  /\ P[1] = Rendered("y", 4, d) /\ P[2] = <<>> /\ P[3] = <<>> /\ P[4] = <<>>
             /\ P[5] = <<"-">> /\ P[6] = Rendered("M", 2, d) /\ P[7] = <<>>
             /\ P[8] = <<"-">> /\ P[9] = Rendered("d", 2, d) /\ P[10] = <<>>
             /\ P[11] = <<" ">> /\ P[12] = Rendered("H", 2, d) /\ P[13] = <<>>
             /\ P[14] = <<":">> /\ P[15] = Rendered("m", 2, d) /\ P[16] = <<>>
             /\ P[17] = <<":">> /\ P[18] = Rendered("s", 2, d) /\ P[19] = <<>>
<1>. DEFINE P == Pieces(Sortable, d, Letters)
<1>1. ASSUME NEW k \in Letters, NEW i, NEW j, FirstRun(Sortable, k, i, j)
      PROVE  RunIsDone(P, k, d, i, j)
  BY <1>1, RunDone
<1>2. ASSUME NEW l \in 1 .. 19, Sortable[l] \notin Letters PROVE P[l] = <<Sortable[l]>>
  <2>1. Letters \in SUBSET Letters /\ l \in 1 .. Len(Sortable)  BY SortableIs
  <2>. QED  BY <1>2, <2>1, PieceTypes
<1>. HIDE DEF P
<1>3. "y" \in Letters /\ "M" \in Letters /\ "d" \in Letters /\ "H" \in Letters /\ "m" \in Letters
      /\ "s" \in Letters /\ "-" \notin Letters /\ " " \notin Letters /\ ":" \notin Letters
  BY DEF Letters
<1>5. P[1] = Rendered("y", 4, d) /\ P[2] = <<>> /\ P[3] = <<>> /\ P[4] = <<>>
  <2>1. FirstRun(Sortable, "y", 1, 4)  BY SortableRuns
  <2>2. RunIsDone(P, "y", d, 1, 4)  BY <1>1, <1>3, <2>1
  <2>3. 2 \in (1 + 1) .. 4 /\ 3 \in (1 + 1) .. 4 /\ 4 \in (1 + 1) .. 4  OBVIOUS
  <2>. QED  BY <2>2, <2>3 DEF RunIsDone
<1>6. P[6] = Rendered("M", 2, d) /\ P[7] = <<>>
  <2>1. FirstRun(Sortable, "M", 6, 7)  BY SortableRuns
  <2>2. RunIsDone(P, "M", d, 6, 7)  BY <1>1, <1>3, <2>1
  <2>3. 7 \in (6 + 1) .. 7  OBVIOUS
  <2>. QED  BY <2>2, <2>3 DEF RunIsDone
<1>7. P[9] = Rendered("d", 2, d) /\ P[10] = <<>>
  <2>1. FirstRun(Sortable, "d", 9, 10)  BY SortableRuns
  <2>2. RunIsDone(P, "d", d, 9, 10)  BY <1>1, <1>3, <2>1
  <2>3. 10 \in (9 + 1) .. 10  OBVIOUS
  <2>. QED  BY <2>2, <2>3 DEF RunIsDone
<1>8. P[12] = Rendered("H", 2, d) /\ P[13] = <<>>
  <2>1. FirstRun(Sortable, "H", 12, 13)  BY SortableRuns
  <2>2. RunIsDone(P, "H", d, 12, 13)  BY <1>1, <1>3, <2>1
  <2>3. 13 \in (12 + 1) .. 13  OBVIOUS
  <2>. QED  BY <2>2, <2>3 DEF RunIsDone
<1>9. P[15] = Rendered("m", 2, d) /\ P[16] = <<>>
  <2>1. FirstRun(Sortable, "m", 15, 16)  BY SortableRuns
  <2>2. RunIsDone(P, "m", d, 15, 16)  BY <1>1, <1>3, <2>1
  <2>3. 16 \in (15 + 1) .. 16  OBVIOUS
  <2>. QED  BY <2>2, <2>3 DEF RunIsDone
<1>10. P[18] = Rendered("s", 2, d) /\ P[19] = <<>>
  <2>1. FirstRun(Sortable, "s", 18, 19)  BY SortableRuns
  <2>2. RunIsDone(P, "s", d, 18, 19)  BY <1>1, <1>3, <2>1
  <2>3. 19 \in (18 + 1) .. 19  OBVIOUS
  <2>. QED  BY <2>2, <2>3 DEF RunIsDone
<1>11. P[5] = <<"-">> /\ P[8] = <<"-">> /\ P[11] = <<" ">> /\ P[14] = <<":">> /\ P[17] = <<":">>
  <2>1. 5 \in 1 .. 19 /\ 8 \in 1 .. 19 /\ 11 \in 1 .. 19 /\ 14 \in 1 .. 19 /\ 17 \in 1 .. 19
    OBVIOUS
  <2>. QED  BY <1>2, <1>3, <2>1, SortableIs
<1>. QED  BY <1>5, <1>6, <1>7, <1>8, <1>9, <1>10, <1>11 DEF P
-----------------------------------------------------------------------------
(* A field below 100 is shown by what stands for two of its letters.        *)
LEMMA FieldShown ==
  ASSUME NEW d \in DateRec, NEW k \in Letters, k # "y", NEW v \in Nat, v = Field(k, d), v < 100,
         NEW t, NEW q \in Nat, NEW u,
         u = Rendered(k, 2, d), t[q] = u[1], t[q + 1] = u[2]
  PROVE  \E a, b : TwoShown(t, q, v, a, b)
<1>. DEFINE a == v \div 10
           b == v % 10
<1>1. a \in 0 .. 9 /\ b \in 0 .. 9 /\ v = 10 * a + b  BY SMT
<1>. HIDE DEF a, b
<1>2. Field(k, d) = 10 * a + b  BY <1>1
<1>3. Shows(Rendered(k, 2, d), 1, a) /\ Shows(Rendered(k, 2, d), 2, b)  BY <1>1, <1>2, RenderedTwo
<1>4. Shows(t, q, a) /\ Shows(t, q + 1, b)  BY <1>3 DEF Shows
<1>5. TwoShown(t, q, v, a, b)  BY <1>1, <1>4 DEF TwoShown
<1>. QED  BY <1>5

LEMMA FieldLength ==
  ASSUME NEW d \in DateRec, NEW k \in Letters, k # "y", Field(k, d) \in Nat, Field(k, d) < 100
  PROVE  Len(Rendered(k, 2, d)) = 2
<1>. DEFINE v == Field(k, d)
           a == v \div 10
           b == v % 10
<1>1. v \in Nat /\ v < 100  OBVIOUS
<1>. HIDE DEF v
<1>2. a \in 0 .. 9 /\ b \in 0 .. 9 /\ v = 10 * a + b  BY <1>1, SMT
<1>. HIDE DEF a, b
<1>3. Field(k, d) = 10 * a + b  BY <1>2 DEF v
<1>. QED  BY <1>2, <1>3, RenderedTwo

LEMMA FieldsBelow ==
  ASSUME NEW d \in DateRec
  PROVE  /\ Field("M", d) = d.month + 1 /\ d.month + 1 \in Nat /\ d.month + 1 < 100
         /\ Field("d", d) = d.day /\ d.day \in Nat /\ d.day < 100
         /\ Field("H", d) = d.hours /\ d.hours \in Nat /\ d.hours < 100
         /\ Field("m", d) = d.minutes /\ d.minutes \in Nat /\ d.minutes < 100
         /\ Field("s", d) = d.seconds /\ d.seconds \in Nat /\ d.seconds < 100
BY FieldIs, DateFieldsAre

LEMMA Single == ASSUME NEW x PROVE <<x>>[1] = x
OBVIOUS

(* With every letter done, the pattern from the year to the second shows    *)
(* the date.                                                                *)
LEMMA SortableShows ==
  ASSUME NEW d \in DateRec, Sortable \in Seq(Chars), NEW t, Done(Sortable, d, Letters, t)
  PROVE  SortableText(t, d)
<1>. DEFINE P == Pieces(Sortable, d, Letters)
           R(k) == Rendered(k, 2, d)
           Y == Rendered("y", 4, d)
<1>1. PICK c : Laid(t, P, c)  BY DEF Done
<1>2. Len(P) = 19
  <2>1. Letters \in SUBSET Letters  OBVIOUS
  <2>. QED  BY <2>1, PiecesTypes, SortableIs
<1>3. /\ P[1] = Y /\ P[2] = <<>> /\ P[3] = <<>> /\ P[4] = <<>>
      /\ P[5] = <<"-">> /\ P[6] = R("M") /\ P[7] = <<>>
      /\ P[8] = <<"-">> /\ P[9] = R("d") /\ P[10] = <<>>
      /\ P[11] = <<" ">> /\ P[12] = R("H") /\ P[13] = <<>>
      /\ P[14] = <<":">> /\ P[15] = R("m") /\ P[16] = <<>>
      /\ P[17] = <<":">> /\ P[18] = R("s") /\ P[19] = <<>>
  BY SortablePieces
<1>. HIDE DEF P
<1>4. "M" \in Letters /\ "d" \in Letters /\ "H" \in Letters /\ "m" \in Letters /\ "s" \in Letters
      /\ "M" # "y" /\ "d" # "y" /\ "H" # "y" /\ "m" # "y" /\ "s" # "y"
  BY DEF Letters
<1>5. Len(R("M")) = 2 /\ Len(R("d")) = 2 /\ Len(R("H")) = 2 /\ Len(R("m")) = 2 /\ Len(R("s")) = 2
  BY <1>4, FieldLength, FieldsBelow
<1>6. PICK a, b, e, f : FourFigures(d.year, a, b, e, f)  BY YearFigures, DateFieldsAre
<1>7. Len(Y) = 4 /\ Shows(Y, 1, a) /\ Shows(Y, 2, b) /\ Shows(Y, 3, e) /\ Shows(Y, 4, f)
  BY <1>6, RenderedYear
<1>. HIDE DEF R, Y
<1>8. Len(<<>>) = 0 /\ Len(<<"-">>) = 1 /\ Len(<<" ">>) = 1 /\ Len(<<":">>) = 1  OBVIOUS
<1>9. /\ Len(P[1]) = 4 /\ Len(P[2]) = 0 /\ Len(P[3]) = 0 /\ Len(P[4]) = 0
      /\ Len(P[5]) = 1 /\ Len(P[6]) = 2 /\ Len(P[7]) = 0
      /\ Len(P[8]) = 1 /\ Len(P[9]) = 2 /\ Len(P[10]) = 0
      /\ Len(P[11]) = 1 /\ Len(P[12]) = 2 /\ Len(P[13]) = 0
      /\ Len(P[14]) = 1 /\ Len(P[15]) = 2 /\ Len(P[16]) = 0
      /\ Len(P[17]) = 1 /\ Len(P[18]) = 2 /\ Len(P[19]) = 0
  BY <1>3, <1>5, <1>7, <1>8, Zenon
<1>10. /\ t \in Seq(Chars) /\ c[0] = 0 /\ c[19] = Len(t)
       /\ \A i \in 1 .. 19 : c[i] = c[i - 1] + Len(P[i])
       /\ \A i \in 1 .. 19 : \A m \in 1 .. Len(P[i]) : t[c[i - 1] + m] = P[i][m]
  BY <1>1, <1>2 DEF Laid
<1>11. /\ c[1] = c[0] + 4 /\ c[2] = c[1] + 0 /\ c[3] = c[2] + 0 /\ c[4] = c[3] + 0
       /\ c[5] = c[4] + 1 /\ c[6] = c[5] + 2 /\ c[7] = c[6] + 0 /\ c[8] = c[7] + 1
       /\ c[9] = c[8] + 2 /\ c[10] = c[9] + 0 /\ c[11] = c[10] + 1 /\ c[12] = c[11] + 2
       /\ c[13] = c[12] + 0 /\ c[14] = c[13] + 1 /\ c[15] = c[14] + 2 /\ c[16] = c[15] + 0
       /\ c[17] = c[16] + 1 /\ c[18] = c[17] + 2 /\ c[19] = c[18] + 0
  <2>1. ASSUME NEW i \in 1 .. 19, NEW h, h = i - 1 PROVE c[i] = c[h] + Len(P[i])  BY <1>10, <2>1
  <2>2. /\ c[1] = c[0] + Len(P[1]) /\ c[2] = c[1] + Len(P[2]) /\ c[3] = c[2] + Len(P[3])
        /\ c[4] = c[3] + Len(P[4]) /\ c[5] = c[4] + Len(P[5]) /\ c[6] = c[5] + Len(P[6])
        /\ c[7] = c[6] + Len(P[7]) /\ c[8] = c[7] + Len(P[8]) /\ c[9] = c[8] + Len(P[9])
        /\ c[10] = c[9] + Len(P[10]) /\ c[11] = c[10] + Len(P[11]) /\ c[12] = c[11] + Len(P[12])
        /\ c[13] = c[12] + Len(P[13]) /\ c[14] = c[13] + Len(P[14]) /\ c[15] = c[14] + Len(P[15])
        /\ c[16] = c[15] + Len(P[16]) /\ c[17] = c[16] + Len(P[17]) /\ c[18] = c[17] + Len(P[18])
        /\ c[19] = c[18] + Len(P[19])
    BY <2>1
  <2>. QED  BY <1>9, <2>2, Zenon
<1>12. /\ c[1] = 4 /\ c[2] = 4 /\ c[3] = 4 /\ c[4] = 4 /\ c[5] = 5 /\ c[6] = 7 /\ c[7] = 7
       /\ c[8] = 8 /\ c[9] = 10 /\ c[10] = 10 /\ c[11] = 11 /\ c[12] = 13 /\ c[13] = 13
       /\ c[14] = 14 /\ c[15] = 16 /\ c[16] = 16 /\ c[17] = 17 /\ c[18] = 19 /\ c[19] = 19
  BY <1>10, <1>11
<1>13. DOMAIN t = 1 .. 19
  <2>1. t \in Seq(Chars)  BY <1>10
  <2>2. Len(t) = 19  BY <1>10, <1>12
  <2>3. DOMAIN t = 1 .. Len(t)  BY <2>1
  <2>. QED  BY <2>2, <2>3
<1>14. ASSUME NEW i \in 1 .. 19, NEW m \in 1 .. Len(P[i]) PROVE t[c[i - 1] + m] = P[i][m]
  BY <1>10
<1>15. t[5] = "-"
  <2>1. 5 \in 1 .. 19 /\ 1 \in 1 .. Len(P[5]) /\ 5 - 1 = 4 /\ c[4] + 1 = 5  BY <1>9, <1>12
  <2>2. t[c[5 - 1] + 1] = P[5][1]  BY <1>14, <2>1
  <2>3. P[5] = <<"-">>  BY <1>3
  <2>4. P[5][1] = "-"  BY <2>3, Single, Zenon
  <2>. QED  BY <2>1, <2>2, <2>4
<1>16. t[8] = "-"
  <2>1. 8 \in 1 .. 19 /\ 1 \in 1 .. Len(P[8]) /\ 8 - 1 = 7 /\ c[7] + 1 = 8  BY <1>9, <1>12
  <2>2. t[c[8 - 1] + 1] = P[8][1]  BY <1>14, <2>1
  <2>3. P[8] = <<"-">>  BY <1>3
  <2>4. P[8][1] = "-"  BY <2>3, Single, Zenon
  <2>. QED  BY <2>1, <2>2, <2>4
<1>17. t[11] = " "
  <2>1. 11 \in 1 .. 19 /\ 1 \in 1 .. Len(P[11]) /\ 11 - 1 = 10 /\ c[10] + 1 = 11  BY <1>9, <1>12
  <2>2. t[c[11 - 1] + 1] = P[11][1]  BY <1>14, <2>1
  <2>3. P[11] = <<" ">>  BY <1>3
  <2>4. P[11][1] = " "  BY <2>3, Single, Zenon
  <2>. QED  BY <2>1, <2>2, <2>4
<1>18. t[14] = ":"
  <2>1. 14 \in 1 .. 19 /\ 1 \in 1 .. Len(P[14]) /\ 14 - 1 = 13 /\ c[13] + 1 = 14  BY <1>9, <1>12
  <2>2. t[c[14 - 1] + 1] = P[14][1]  BY <1>14, <2>1
  <2>3. P[14] = <<":">>  BY <1>3
  <2>4. P[14][1] = ":"  BY <2>3, Single, Zenon
  <2>. QED  BY <2>1, <2>2, <2>4
<1>19. t[17] = ":"
  <2>1. 17 \in 1 .. 19 /\ 1 \in 1 .. Len(P[17]) /\ 17 - 1 = 16 /\ c[16] + 1 = 17  BY <1>9, <1>12
  <2>2. t[c[17 - 1] + 1] = P[17][1]  BY <1>14, <2>1
  <2>3. P[17] = <<":">>  BY <1>3
  <2>4. P[17][1] = ":"  BY <2>3, Single, Zenon
  <2>. QED  BY <2>1, <2>2, <2>4
<1>20. \E x, y, z, u : YearShown(t, d.year, x, y, z, u)
  <2>1. 1 \in 1 .. 19 /\ 1 - 1 = 0 /\ c[0] = 0  BY <1>10
  <2>2. ASSUME NEW m \in 1 .. 4 PROVE t[m] = Y[m]
    <3>1. m \in 1 .. Len(P[1]) /\ 0 + m = m  BY <1>9
    <3>2. t[c[1 - 1] + m] = P[1][m]  BY <1>14, <2>1, <3>1
    <3>3. c[1 - 1] + m = m  BY <2>1, <3>1
    <3>. QED  BY <1>3, <3>2, <3>3
  <2>3. t[1] = Y[1] /\ t[2] = Y[2] /\ t[3] = Y[3] /\ t[4] = Y[4]  BY <2>2
  <2>4. Shows(t, 1, a) /\ Shows(t, 2, b) /\ Shows(t, 3, e) /\ Shows(t, 4, f)
    BY <1>7, <2>3 DEF Shows
  <2>5. YearShown(t, d.year, a, b, e, f)  BY <1>6, <2>4 DEF YearShown
  <2>. QED  BY <2>5
<1>21. ASSUME NEW k \in Letters, k # "y", NEW i \in 1 .. 19, NEW h, h = i - 1, P[i] = R(k),
             Len(P[i]) = 2, NEW q \in Nat, c[h] + 1 = q, c[h] + 2 = q + 1,
             NEW v \in Nat, v = Field(k, d), v < 100
      PROVE  \E x, y : TwoShown(t, q, v, x, y)
  <2>1. 1 \in 1 .. Len(P[i]) /\ 2 \in 1 .. Len(P[i])  BY <1>21
  <2>2. t[c[i - 1] + 1] = P[i][1] /\ t[c[i - 1] + 2] = P[i][2]  BY <1>14, <2>1
  <2>. DEFINE u == Rendered(k, 2, d)
  <2>3. P[i] = u  BY <1>21 DEF R
  <2>. HIDE DEF u
  <2>4. t[q] = u[1] /\ t[q + 1] = u[2]  BY <1>21, <2>2, <2>3
  <2>5. u = Rendered(k, 2, d)  BY DEF u
  <2>. QED  BY <1>21, <2>4, <2>5, FieldShown
<1>22. \E x, y : TwoShown(t, 6, d.month + 1, x, y)
  <2>1. 6 \in 1 .. 19 /\ 5 = 6 - 1 /\ c[5] + 1 = 6 /\ c[5] + 2 = 6 + 1 /\ 6 \in Nat  BY <1>12
  <2>2. P[6] = R("M") /\ Len(P[6]) = 2  BY <1>3, <1>9
  <2>3. d.month + 1 \in Nat /\ d.month + 1 = Field("M", d) /\ d.month + 1 < 100  BY FieldsBelow
  <2>. QED  BY <1>4, <1>21, <2>1, <2>2, <2>3
<1>23. \E x, y : TwoShown(t, 9, d.day, x, y)
  <2>1. 9 \in 1 .. 19 /\ 8 = 9 - 1 /\ c[8] + 1 = 9 /\ c[8] + 2 = 9 + 1 /\ 9 \in Nat  BY <1>12
  <2>2. P[9] = R("d") /\ Len(P[9]) = 2  BY <1>3, <1>9
  <2>3. d.day \in Nat /\ d.day = Field("d", d) /\ d.day < 100  BY FieldsBelow
  <2>. QED  BY <1>4, <1>21, <2>1, <2>2, <2>3
<1>24. \E x, y : TwoShown(t, 12, d.hours, x, y)
  <2>1. 12 \in 1 .. 19 /\ 11 = 12 - 1 /\ c[11] + 1 = 12 /\ c[11] + 2 = 12 + 1 /\ 12 \in Nat
    BY <1>12
  <2>2. P[12] = R("H") /\ Len(P[12]) = 2  BY <1>3, <1>9
  <2>3. d.hours \in Nat /\ d.hours = Field("H", d) /\ d.hours < 100  BY FieldsBelow
  <2>. QED  BY <1>4, <1>21, <2>1, <2>2, <2>3
<1>25. \E x, y : TwoShown(t, 15, d.minutes, x, y)
  <2>1. 15 \in 1 .. 19 /\ 14 = 15 - 1 /\ c[14] + 1 = 15 /\ c[14] + 2 = 15 + 1 /\ 15 \in Nat
    BY <1>12
  <2>2. P[15] = R("m") /\ Len(P[15]) = 2  BY <1>3, <1>9
  <2>3. d.minutes \in Nat /\ d.minutes = Field("m", d) /\ d.minutes < 100  BY FieldsBelow
  <2>. QED  BY <1>4, <1>21, <2>1, <2>2, <2>3
<1>26. \E x, y : TwoShown(t, 18, d.seconds, x, y)
  <2>1. 18 \in 1 .. 19 /\ 17 = 18 - 1 /\ c[17] + 1 = 18 /\ c[17] + 2 = 18 + 1 /\ 18 \in Nat
    BY <1>12
  <2>2. P[18] = R("s") /\ Len(P[18]) = 2  BY <1>3, <1>9
  <2>3. d.seconds \in Nat /\ d.seconds = Field("s", d) /\ d.seconds < 100  BY FieldsBelow
  <2>. QED  BY <1>4, <1>21, <2>1, <2>2, <2>3
<1>. QED
  BY <1>13, <1>15, <1>16, <1>17, <1>18, <1>19, <1>20, <1>22, <1>23, <1>24, <1>25, <1>26
  DEF SortableText

(* Whatever the dates, their texts from the year to the second sort as they *)
(* do: padding keeps every field at its width.                              *)
(* (date.js: Date.prototype.Format.)                                        *)
THEOREM DateSorts == DateSpec => []SortsAsDates
<1>1. ASSUME DateIInv PROVE SortsAsDates
  <2> SUFFICES ASSUME key = <<>>, pattern = Sortable, NEW d \in Dates
               PROVE  Earlier(date, d) <=> TextLess(text, Format(Sortable, d))
    BY DEF SortsAsDates
  <2>1. ToSet(key) = {}  BY DEF ToSet
  <2>2. Letters \ ToSet(key) = Letters  BY <2>1
  <2>3. Sortable \in Seq(Chars) /\ date \in DateRec /\ Done(Sortable, date, Letters, text)
    BY <1>1, <2>2 DEF DateIInv
  <2>4. d \in DateRec  BY DateAssumption
  <2>5. SortableText(text, date)  BY <2>3, SortableShows
  <2>6. Done(Sortable, d, Letters, Format(Sortable, d))  BY <2>3, <2>4, FormatDone
  <2>7. SortableText(Format(Sortable, d), d)  BY <2>3, <2>4, <2>6, SortableShows
  <2>. QED  BY <2>5, <2>7, SortableOrder
<1>. QED  BY <1>1, DateInitial, DateStep, PTL DEF DateSpec
=============================================================================
