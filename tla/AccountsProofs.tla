---------------------------- MODULE AccountsProofs ----------------------------
(***************************************************************************)
(* The invariants of Accounts, for any number of requests, accounts,       *)
(* departments and failures, any lives of the tokens and any length of     *)
(* time.  Those that rest on the text of the paths need what the           *)
(* operators of DeptPath compute; most of them are recursive functions,    *)
(* about which the first lemmas are.                                       *)
(***************************************************************************)
EXTENDS Accounts, FiniteSetTheorems, WellFoundedInduction, TLAPS

-------------------------------------------------------------------------------
(***************************************************************************)
(* The inductive invariant                                                 *)
(***************************************************************************)
DeptsShape ==
    /\ IsFiniteSet(DOMAIN depts) /\ DOMAIN depts \subseteq Nat
    /\ \A d \in DOMAIN depts : depts[d].parent \in Nat

UsersShape ==
    /\ IsFiniteSet(DOMAIN users) /\ DOMAIN users \subseteq Nat
    /\ users \in [DOMAIN users -> Account]
    /\ \A u, v \in DOMAIN users : users[u].name = users[v].name => u = v

(* The accounts with a date of being disabled are those that are disabled. *)
SinceShape == DOMAIN since = {u \in DOMAIN users : users[u].status = 0}

(* What is said of somebody was read of their account, and not after it    *)
(* was disabled: true of a token and of a request about to issue one.      *)
ReadFrom(t) ==
    /\ t.uid \in DOMAIN users
    /\ t.role = users[t.uid].role
    /\ t.dept = users[t.uid].dept
    /\ t.uid \in DOMAIN since => t.seen <= since[t.uid]

TokensShape ==
    /\ tokens \subseteq Pair
    /\ \A t \in tokens :
          ReadFrom(t) /\ t.seen <= t.at /\ t.at <= clock /\ t.jti[1] = t.at

(* What a request carries from one of its steps to the next. *)
Carries(r) ==
    /\ r.pc = "mint" => ReadFrom(r) /\ r.seen \in 0 .. clock /\ r.spent \subseteq Jti
    /\ r.pc \in Operation => r.token \in tokens
    /\ r.pc = "dept id" => r.parent \in Nat
    /\ r.pc = "dept insert" =>
          /\ r.id \in Nat /\ r.row.parent \in Nat
          /\ r.row = [parent |-> r.row.parent, path |-> r.row.path]
    /\ r.pc = "user id" => r.row \in Account /\ r.row.status = 1
    /\ r.pc = "user insert" => r.id \in Nat /\ r.row \in Account /\ r.row.status = 1
    /\ r.pc = "set status" => r.uid \in DOMAIN users /\ r.status \in {0, 1}

RequestsShape == DOMAIN handler = Handler /\ \A h \in Handler : Carries(handler[h])

(* A listed access token stays listed for its whole life, and a token that *)
(* was signed out is listed unless Redis failed to record it.              *)
ListShape ==
    /\ \A k \in DOMAIN blacklist :
          /\ k \in Jti \X {"access", "refresh"}
          /\ k[2] = "access" => blacklist[k] \in Nat /\ k[1][1] + AccessTTL <= blacklist[k]
    /\ logouts \subseteq tokens
    /\ \A t \in logouts \ unwritten : <<t.jti, "access">> \in DOMAIN blacklist

AcIInv ==
    /\ clock \in 0 .. MaxTime /\ faults \in Nat
    /\ DeptsShape /\ UsersShape /\ SinceShape /\ TokensShape /\ RequestsShape /\ ListShape
    /\ SignedOutStaysOut

-------------------------------------------------------------------------------
(***************************************************************************)
(* Numbers                                                                 *)
(***************************************************************************)
Less == {pair \in Nat \X Nat : pair[1] < pair[2]}

LEMMA LeastNatural ==
  ASSUME NEW T, T \subseteq Nat, T # {}
  PROVE  \E m \in T : \A n \in T : m <= n
<1>1. OpToRel(<, Nat) = Less
  BY DEF OpToRel, Less
<1>2. \E m \in T : \A n \in T : <<n, m>> \notin Less
  BY <1>1, NatLessThanWellFounded, WFMin
<1>3. PICK m \in T : \A n \in T : <<n, m>> \notin Less
  BY <1>2
<1>4. \A n \in T : ~(n < m)
  BY <1>3 DEF Less
<1>. QED
  BY <1>4

Greatest(S, x) == x \in S /\ \A y \in S : y <= x

(* A finite set of numbers that is not empty has a greatest one: of the    *)
(* subsets that have none, take one with the least number of elements, and *)
(* take an element from it.                                                *)
LEMMA FiniteHasGreatest ==
  ASSUME NEW S, S \subseteq Nat, IsFiniteSet(S), S # {}
  PROVE  \E x \in S : Greatest(S, x)
<1>. DEFINE Lack(R) == R # {} /\ ~\E x \in R : Greatest(R, x)
            T == {Cardinality(R) : R \in {Q \in SUBSET S : Lack(Q)}}
<1>. SUFFICES ASSUME Lack(S) PROVE FALSE
  OBVIOUS
<1>1. \A R \in SUBSET S : IsFiniteSet(R) /\ Cardinality(R) \in Nat
  BY FS_Subset, FS_CardinalityType
<1>2. T \subseteq Nat /\ T # {}
  BY <1>1
<1>3. PICK m \in T : \A n \in T : m <= n
  BY <1>2, LeastNatural
<1>4. PICK R \in SUBSET S : Lack(R) /\ Cardinality(R) = m
  BY <1>3
<1>5. PICK x \in R : TRUE
  BY <1>4
<1>6. PICK Q : Q = R \ {x}
  OBVIOUS
<1>7. Q \in SUBSET S /\ Cardinality(Q) = m - 1
  BY <1>1, <1>4, <1>5, <1>6, FS_RemoveElement
<1>8. ~Lack(Q)
  <2>1. SUFFICES ASSUME Lack(Q) PROVE FALSE
    OBVIOUS
  <2>2. m - 1 \in T
    BY <1>7, <2>1
  <2>3. m \in Nat /\ m <= m - 1
    BY <1>2, <1>3, <2>2
  <2>. QED
    BY <2>3
<1>9. CASE Q = {}
  <2>1. R = {x} /\ x \in Nat
    BY <1>5, <1>6, <1>9
  <2>. QED
    BY <1>4, <2>1 DEF Greatest
<1>10. CASE Q # {}
  <2>1. PICK y \in Q : Greatest(Q, y)
    BY <1>8, <1>10
  <2>2. x \in Nat /\ y \in Nat /\ R = Q \cup {x} /\ R \subseteq Nat
    BY <1>5, <1>6, <2>1
  <2>3. CASE x <= y
    <3>1. Greatest(R, y)
      BY <2>1, <2>2, <2>3 DEF Greatest
    <3>. QED
      BY <1>4, <2>2, <3>1
  <2>4. CASE y <= x
    <3>1. Greatest(R, x)
      BY <2>1, <2>2, <2>4 DEF Greatest
    <3>. QED
      BY <1>4, <2>2, <3>1
  <2>. QED
    BY <2>2, <2>3, <2>4
<1>. QED
  BY <1>9, <1>10

(* NextID never runs out of numbers. *)
LEMMA NextIDType ==
  ASSUME NEW ids, ids \subseteq Nat, IsFiniteSet(ids), NEW base \in Nat
  PROVE  NextID(ids, base) \in Nat
<1>1. CASE ids = {}
  BY <1>1 DEF NextID
<1>2. CASE ids # {}
  <2>1. PICK x \in ids : \A y \in ids : x >= y
    BY <1>2, FiniteHasGreatest DEF Greatest
  <2>2. Max(ids) \in ids
    BY <2>1 DEF Max
  <2>3. PICK m \in Nat : m = Max(ids)
    BY <2>2
  <2>4. NextID(ids, base) = m + 1
    BY <1>2, <2>3 DEF NextID
  <2>. QED
    BY <2>4
<1>. QED
  BY <1>1, <1>2

-------------------------------------------------------------------------------
(***************************************************************************)
(* Recursive functions.  A definition f[x \in S] == ... chooses a function *)
(* that satisfies its equation, and says nothing when there is none.       *)
(***************************************************************************)
(* A function whose value at x is computed from its values at arguments of *)
(* a smaller measure exists.                                               *)
Recursion(S, T, m, step) ==
    /\ T # {} /\ m \in [S -> Nat] /\ step \in [S \X [S -> T] -> T]
    /\ \A x \in S : \A g, h \in [S -> T] :
          (\A y \in S : m[y] < m[x] => g[y] = h[y]) => step[<<x, g>>] = step[<<x, h>>]

Solves(S, T, step, f) == f \in [S -> T] /\ \A x \in S : f[x] = step[<<x, f>>]

LEMMA RecursionIsDefined ==
  ASSUME NEW S, NEW T, NEW m, NEW step, Recursion(S, T, m, step)
  PROVE  \E f : Solves(S, T, step, f)
<1>. USE DEF Recursion
<1>. DEFINE Upto(n) == {g \in [S -> T] : \A x \in S : m[x] < n => g[x] = step[<<x, g>>]}
<1>1. \A n \in Nat : Upto(n) # {}
  <2>. SUFFICES ASSUME \E n \in Nat : Upto(n) = {} PROVE FALSE
    OBVIOUS
  <2>. DEFINE Bad == {n \in Nat : Upto(n) = {}}
  <2>1. PICK n \in Bad : \A k \in Bad : n <= k
    <3>1. Bad \subseteq Nat /\ Bad # {}
      OBVIOUS
    <3>. HIDE DEF Bad
    <3>. QED
      BY <3>1, LeastNatural
  <2>2. n # 0
    <3>1. PICK t \in T : TRUE
      OBVIOUS
    <3>2. \A x \in S : ~(m[x] < 0)
      OBVIOUS
    <3>3. [x \in S |-> t] \in Upto(0)
      BY <3>1, <3>2
    <3>. QED
      BY <3>3
  <2>3. PICK k \in Nat : n = k + 1
    <3>1. n \in Nat
      OBVIOUS
    <3>2. n - 1 \in Nat /\ n = (n - 1) + 1
      BY <2>2, <3>1
    <3>. QED
      BY <3>2
  <2>4. PICK g : g \in Upto(k)
    <3>1. ~(n <= k)
      BY <2>3
    <3>2. k \notin Bad
      BY <2>1, <3>1
    <3>. HIDE DEF Upto
    <3>. QED
      BY <3>2
  <2>. DEFINE h == [x \in S |-> IF m[x] = k THEN step[<<x, g>>] ELSE g[x]]
  <2>5. h \in [S -> T]
    BY <2>4
  <2>6. ASSUME NEW x \in S, m[x] < n PROVE h[x] = step[<<x, h>>]
    <3>1. \A y \in S : m[y] < m[x] => g[y] = h[y]
      <4>1. m[x] \in Nat
        OBVIOUS
      <4>2. ASSUME NEW y \in S, m[y] < m[x] PROVE m[y] # k
        <5>1. m[y] \in Nat
          OBVIOUS
        <5>. QED
          BY <2>3, <2>6, <4>1, <4>2, <5>1
      <4>. QED
        BY <4>2
    <3>2. step[<<x, g>>] = step[<<x, h>>]
      <4>1. g \in [S -> T]
        BY <2>4
      <4>. HIDE DEF h, Upto
      <4>. QED
        BY <2>5, <3>1, <4>1
    <3>3. m[x] # k => m[x] < k
      <4>1. PICK i \in Nat : i = m[x]
        OBVIOUS
      <4>2. i < k + 1
        BY <2>3, <2>6, <4>1
      <4>3. i # k => i < k
        BY <4>2
      <4>. QED
        BY <4>1, <4>3
    <3>4. m[x] # k => g[x] = step[<<x, g>>]
      BY <2>4, <3>3
    <3>. QED
      BY <3>2, <3>4
  <2>7. h \in Upto(n)
    BY <2>5, <2>6
  <2>. QED
    BY <2>7
<1>2. ASSUME NEW n \in Nat, NEW k \in Nat, NEW g \in Upto(n), NEW h \in Upto(k)
      PROVE  \A x \in S : (m[x] < n /\ m[x] < k) => g[x] = h[x]
  <2>. SUFFICES ASSUME \E x \in S : m[x] < n /\ m[x] < k /\ g[x] # h[x] PROVE FALSE
    OBVIOUS
  <2>. DEFINE Bad == {i \in Nat : \E x \in S : m[x] = i /\ i < n /\ i < k /\ g[x] # h[x]}
  <2>1. PICK i \in Bad : \A j \in Bad : i <= j
    <3>1. Bad \subseteq Nat /\ Bad # {}
      OBVIOUS
    <3>. HIDE DEF Bad
    <3>. QED
      BY <3>1, LeastNatural
  <2>2. PICK x \in S : m[x] = i /\ m[x] < n /\ m[x] < k /\ g[x] # h[x]
    BY <2>1
  <2>3. ASSUME NEW y \in S, m[y] < m[x] PROVE g[y] = h[y]
    <3>1. m[y] \in Nat /\ m[x] \in Nat
      OBVIOUS
    <3>2. m[y] < n /\ m[y] < k /\ ~(i <= m[y])
      BY <2>2, <2>3, <3>1
    <3>3. m[y] \notin Bad
      BY <2>1, <3>2
    <3>. QED
      BY <3>2, <3>3
  <2>4. step[<<x, g>>] = step[<<x, h>>]
    BY <2>3
  <2>. QED
    BY <2>2, <2>4
<1>. DEFINE G(n) == CHOOSE g : g \in Upto(n)
            f == [x \in S |-> G(m[x] + 1)[x]]
<1>3. \A n \in Nat : G(n) \in Upto(n)
  <2>. HIDE DEF Upto
  <2>. QED
    BY <1>1
<1>4. \A x \in S : m[x] \in Nat /\ m[x] + 1 \in Nat /\ m[x] < m[x] + 1
  OBVIOUS
<1>5. \A x \in S : G(m[x] + 1) \in Upto(m[x] + 1)
  BY <1>3, <1>4
<1>. HIDE DEF G
<1>6. f \in [S -> T]
  BY <1>5
<1>7. ASSUME NEW x \in S PROVE f[x] = step[<<x, f>>]
  <2>. DEFINE g == G(m[x] + 1)
  <2>1. g \in Upto(m[x] + 1)
    BY <1>5
  <2>2. g[x] = step[<<x, g>>]
    BY <1>4, <2>1
  <2>3. ASSUME NEW y \in S, m[y] < m[x] PROVE g[y] = f[y]
    <3>1. m[y] < m[y] + 1 /\ m[y] < m[x] + 1
      <4>1. m[y] \in Nat /\ m[x] \in Nat
        OBVIOUS
      <4>. QED
        BY <2>3, <4>1
    <3>2. G(m[y] + 1) \in Upto(m[y] + 1)
      BY <1>5
    <3>3. g[y] = G(m[y] + 1)[y]
      <4>. HIDE DEF g, f, Upto
      <4>. QED
        BY <1>2, <1>4, <2>1, <3>1, <3>2
    <3>. QED
      BY <3>3
  <2>4. step[<<x, g>>] = step[<<x, f>>]
    <3>. g \in [S -> T]
      BY <2>1
    <3>. HIDE DEF g, f
    <3>. QED
      BY <1>6, <2>3
  <2>. QED
    BY <2>2, <2>4
<1>. QED
  BY <1>6, <1>7 DEF Solves

(* Induction along a measure: a set that holds x as soon as it holds       *)
(* everything of a smaller measure is all there is.                        *)
LEMMA ByMeasure ==
  ASSUME NEW S, NEW m \in [S -> Nat], NEW R,
         \A x \in S : (\A y \in S : m[y] < m[x] => y \in R) => x \in R
  PROVE  S \subseteq R
<1>. SUFFICES ASSUME \E x \in S : x \notin R PROVE FALSE
  OBVIOUS
<1>. DEFINE Bad == {n \in Nat : \E x \in S : m[x] = n /\ x \notin R}
<1>1. PICK n \in Bad : \A k \in Bad : n <= k
  <2>1. Bad \subseteq Nat /\ Bad # {}
    OBVIOUS
  <2>. HIDE DEF Bad
  <2>. QED
    BY <2>1, LeastNatural
<1>2. PICK x \in S : m[x] = n /\ x \notin R
  BY <1>1
<1>3. ASSUME NEW y \in S, m[y] < m[x] PROVE y \in R
  <2>1. m[y] \in Nat /\ ~(n <= m[y])
    BY <1>2, <1>3
  <2>2. m[y] \notin Bad
    BY <1>1, <2>1
  <2>. QED
    BY <2>1, <2>2
<1>. QED
  BY <1>2, <1>3

(* The same along the numbers themselves. *)
LEMMA ByNumber ==
  ASSUME NEW R, \A n \in Nat : (\A k \in Nat : k < n => k \in R) => n \in R
  PROVE  Nat \subseteq R
<1>. DEFINE m == [n \in Nat |-> n]
<1>1. m \in [Nat -> Nat] /\ \A n \in Nat : m[n] = n
  OBVIOUS
<1>. HIDE DEF m
<1>. QED
  BY <1>1, ByMeasure

-------------------------------------------------------------------------------
(***************************************************************************)
(* The digits of a number                                                  *)
(***************************************************************************)
Digit == 0 .. 9
Text == Seq(0 .. 10)

LEMMA Tenth ==
  ASSUME NEW n \in Nat, n >= 10
  PROVE  /\ n \div 10 \in Nat \ {0} /\ n \div 10 < n /\ n % 10 \in Digit
         /\ n = 10 * (n \div 10) + (n % 10)
BY DEF Digit

LEMMA OneDigit ==
  ASSUME NEW n \in Nat, n < 10
  PROVE  <<n>> \in Seq(Digit) /\ Len(<<n>>) = 1 /\ <<n>>[1] = n
BY DEF Digit

LEMMA DigitsDef ==
  \A n \in Nat : digits[n] = IF n < 10 THEN <<n>> ELSE Append(digits[n \div 10], n % 10)
<1>. DEFINE T == Seq(Digit)
            m == [n \in Nat |-> n]
            step == [p \in Nat \X [Nat -> T] |->
                       IF p[1] < 10 THEN <<p[1]>> ELSE Append(p[2][p[1] \div 10], p[1] % 10)]
            Eqn(f) == f = [n \in Nat |->
                             IF n < 10 THEN <<n>> ELSE Append(f[n \div 10], n % 10)]
<1>1. \A n \in Nat : \A f \in [Nat -> T] :
         step[<<n, f>>] = IF n < 10 THEN <<n>> ELSE Append(f[n \div 10], n % 10)
  OBVIOUS
<1>2. step \in [Nat \X [Nat -> T] -> T]
  <2>1. ASSUME NEW n \in Nat, NEW f \in [Nat -> T]
        PROVE  (IF n < 10 THEN <<n>> ELSE Append(f[n \div 10], n % 10)) \in T
    <3>1. n < 10 => <<n>> \in T
      BY OneDigit
    <3>2. ~(n < 10) => Append(f[n \div 10], n % 10) \in T
      BY Tenth
    <3>. QED
      BY <3>1, <3>2
  <2>. HIDE DEF T
  <2>. QED
    BY <2>1
<1>3. m \in [Nat -> Nat] /\ \A n \in Nat : m[n] = n
  OBVIOUS
<1>4. ASSUME NEW n \in Nat, NEW f \in [Nat -> T], NEW g \in [Nat -> T],
             \A k \in Nat : m[k] < m[n] => f[k] = g[k]
      PROVE  step[<<n, f>>] = step[<<n, g>>]
  <2>1. ~(n < 10) => f[n \div 10] = g[n \div 10]
    BY <1>3, <1>4, Tenth
  <2>. HIDE DEF step, T, m
  <2>. QED
    BY <1>1, <2>1
<1>5. Recursion(Nat, T, m, step)
  <2>1. <<0>> \in T
    BY OneDigit
  <2>. HIDE DEF step, T, m
  <2>2. T # {}
    BY <2>1
  <2>. QED
    BY <1>2, <1>3, <1>4, <2>2 DEF Recursion
<1>. PICK f : Solves(Nat, T, step, f)
  <2>. HIDE DEF step, T, m
  <2>. QED
    BY <1>5, RecursionIsDefined, Zenon
<1>6. Eqn(f)
  <2>. HIDE DEF step, T
  <2>. QED
    BY <1>1 DEF Solves
<1>7. digits = CHOOSE g : Eqn(g)
  BY Zenon DEF digits
<1>8. Eqn(digits)
  <2>. HIDE DEF Eqn
  <2>. QED
    BY <1>6, <1>7, Zenon
<1>. QED
  BY <1>8

LEMMA DigitsType ==
  ASSUME NEW n \in Nat
  PROVE  digits[n] \in Seq(Digit) /\ Len(digits[n]) \in Nat \ {0}
<1>. DEFINE R == {k \in Nat : digits[k] \in Seq(Digit) /\ Len(digits[k]) \in Nat \ {0}}
<1>1. ASSUME NEW k \in Nat, \A i \in Nat : i < k => i \in R
      PROVE  k \in R
  <2>1. CASE k < 10
    <3>1. digits[k] = <<k>>
      BY <2>1, DigitsDef
    <3>2. PICK s : s = <<k>>
      OBVIOUS
    <3>3. s \in Seq(Digit) /\ Len(s) = 1
      BY <2>1, <3>2, OneDigit
    <3>4. digits[k] \in Seq(Digit) /\ Len(digits[k]) = 1
      BY <3>1, <3>2, <3>3, Zenon
    <3>5. 1 \in Nat \ {0}
      OBVIOUS
    <3>. QED
      BY <3>4, <3>5, Zenon
  <2>2. CASE ~(k < 10)
    <3>1. digits[k] = Append(digits[k \div 10], k % 10)
      BY <2>2, DigitsDef
    <3>2. k \div 10 \in R /\ k % 10 \in Digit
      BY <1>1, <2>2, Tenth
    <3>3. PICK s \in Seq(Digit) : s = digits[k \div 10]
      BY <3>2
    <3>4. PICK j \in Digit : j = k % 10
      BY <3>2
    <3>5. Append(s, j) \in Seq(Digit) /\ Len(Append(s, j)) \in Nat \ {0}
      OBVIOUS
    <3>. QED
      BY <3>1, <3>3, <3>4, <3>5
  <2>. QED
    BY <2>1, <2>2
<1>2. n \in R
  <2>. HIDE DEF R
  <2>. QED
    BY <1>1, ByNumber
<1>. QED
  BY <1>2

(* The digits of a number name it. *)
LEMMA DigitsDiffer ==
  ASSUME NEW a \in Nat, NEW b \in Nat, digits[a] = digits[b]
  PROVE  a = b
<1>. DEFINE R == {x \in Nat : \A y \in Nat : digits[x] = digits[y] => x = y}
<1>1. ASSUME NEW x \in Nat, \A i \in Nat : i < x => i \in R, NEW y \in Nat, digits[x] = digits[y]
      PROVE  x = y
  <2>1. CASE x < 10 /\ y < 10
    <3>1. digits[x] = <<x>> /\ digits[y] = <<y>>
      BY <2>1, DigitsDef
    <3>2. <<x>>[1] = x /\ <<y>>[1] = y
      OBVIOUS
    <3>. QED
      BY <1>1, <3>1, <3>2
  <2>2. CASE x < 10 /\ ~(y < 10)
    <3>1. digits[x] = <<x>> /\ digits[y] = Append(digits[y \div 10], y % 10)
      BY <2>2, DigitsDef
    <3>2. PICK s \in Seq(Digit) : s = digits[y \div 10] /\ Len(s) # 0
      BY <2>2, Tenth, DigitsType
    <3>3. PICK n \in Nat : n = Len(s) /\ n # 0
      BY <3>2
    <3>4. Len(Append(s, y % 10)) = n + 1
      BY <3>3
    <3>5. Len(<<x>>) = 1 /\ n + 1 # 1
      BY <3>3
    <3>6. Append(s, y % 10) = <<x>>
      BY <1>1, <3>1, <3>2
    <3>. QED
      BY <3>4, <3>5, <3>6
  <2>3. CASE ~(x < 10) /\ y < 10
    <3>1. digits[y] = <<y>> /\ digits[x] = Append(digits[x \div 10], x % 10)
      BY <2>3, DigitsDef
    <3>2. PICK s \in Seq(Digit) : s = digits[x \div 10] /\ Len(s) # 0
      BY <2>3, Tenth, DigitsType
    <3>3. PICK n \in Nat : n = Len(s) /\ n # 0
      BY <3>2
    <3>4. Len(Append(s, x % 10)) = n + 1
      BY <3>3
    <3>5. Len(<<y>>) = 1 /\ n + 1 # 1
      BY <3>3
    <3>6. Append(s, x % 10) = <<y>>
      BY <1>1, <3>1, <3>2
    <3>. QED
      BY <3>4, <3>5, <3>6
  <2>4. CASE ~(x < 10) /\ ~(y < 10)
    <3>1. /\ digits[x] = Append(digits[x \div 10], x % 10)
          /\ digits[y] = Append(digits[y \div 10], y % 10)
      BY <2>4, DigitsDef
    <3>2. PICK s \in Seq(Digit) : s = digits[x \div 10]
      BY <2>4, Tenth, DigitsType
    <3>3. PICK t \in Seq(Digit) : t = digits[y \div 10]
      BY <2>4, Tenth, DigitsType
    <3>4. PICK i \in Digit : i = x % 10
      BY <2>4, Tenth
    <3>5. PICK j \in Digit : j = y % 10
      BY <2>4, Tenth
    <3>6. Append(s, i) = Append(t, j)
      BY <1>1, <3>1, <3>2, <3>3, <3>4, <3>5
    <3>7. s = t /\ i = j
      BY <3>6
    <3>8. x \div 10 \in R /\ y \div 10 \in Nat
      BY <1>1, <2>4, Tenth
    <3>9. x \div 10 = y \div 10
      BY <3>2, <3>3, <3>7, <3>8
    <3>. QED
      BY <2>4, <3>4, <3>5, <3>7, <3>9, Tenth
  <2>. QED
    BY <2>1, <2>2, <2>3, <2>4
<1>2. a \in R
  <2>1. \A x \in Nat : (\A i \in Nat : i < x => i \in R) => x \in R
    BY <1>1
  <2>. HIDE DEF R
  <2>. QED
    BY <2>1, ByNumber
<1>. QED
  BY <1>2

-------------------------------------------------------------------------------
(***************************************************************************)
(* Paths as texts                                                          *)
(***************************************************************************)
Closed(x) == x \in Text /\ Len(x) \in Nat \ {0} /\ x[Len(x)] = Slash

(* A text made longer by the digits of an id. *)
Longer(x, id) == x \o digits[id] \o <<Slash>>

LEMMA PrefixByPlace ==
  ASSUME NEW s \in Text, NEW t \in Text
  PROVE  IsPrefix(s, t) <=> (Len(s) <= Len(t) /\ \A i \in 1 .. Len(s) : s[i] = t[i])
<1>. PICK n \in Nat : n = Len(s)
  BY DEF Text
<1>1. CASE Len(s) <= Len(t)
  <2>. DEFINE a == SubSeq(s, 1, n)
              b == SubSeq(t, 1, n)
  <2>1. a \in Text /\ Len(a) = n /\ \A i \in 1 .. n : a[i] = s[i]
    BY DEF Text
  <2>2. b \in Text /\ Len(b) = n /\ \A i \in 1 .. n : b[i] = t[i]
    BY <1>1 DEF Text
  <2>3. IsPrefix(s, t) <=> a = b
    BY <1>1 DEF IsPrefix
  <2>. HIDE DEF a, b
  <2>4. a = b <=> \A i \in 1 .. n : a[i] = b[i]
    BY <2>1, <2>2 DEF Text
  <2>. QED
    BY <1>1, <2>1, <2>2, <2>3, <2>4
<1>2. CASE ~(Len(s) <= Len(t))
  BY <1>2 DEF IsPrefix
<1>. QED
  BY <1>1, <1>2

(* The places of a longer text. *)
LEMMA LongerPlaces ==
  ASSUME NEW x \in Text, NEW id \in Nat
  PROVE  /\ Longer(x, id) \in Text
         /\ Len(Longer(x, id)) = Len(x) + Len(digits[id]) + 1
         /\ \A i \in 1 .. Len(x) : Longer(x, id)[i] = x[i]
         /\ \A i \in 1 .. Len(digits[id]) : Longer(x, id)[Len(x) + i] = digits[id][i]
         /\ Longer(x, id)[Len(Longer(x, id))] = Slash
<1>. PICK a \in Seq(Digit) : a = digits[id]
  BY DigitsType
<1>1. a \in Text /\ <<Slash>> \in Text /\ Len(<<Slash>>) = 1 /\ <<Slash>>[1] = Slash
  BY DEF Text, Digit, Slash
<1>. PICK n \in Nat : n = Len(x)
  BY DEF Text
<1>. PICK k \in Nat : k = Len(a)
  OBVIOUS
<1>. PICK y : y = x \o a
  OBVIOUS
<1>2. /\ y \in Text /\ Len(y) = n + k
      /\ \A i \in 1 .. n : y[i] = x[i]
      /\ \A i \in 1 .. k : y[n + i] = a[i]
  BY <1>1 DEF Text
<1>. PICK e \in Text : e = <<Slash>> /\ Len(e) = 1 /\ e[1] = Slash
  BY <1>1
<1>. PICK z : z = y \o e
  OBVIOUS
<1>3. /\ z \in Text /\ Len(z) = n + k + 1
      /\ \A i \in 1 .. n + k : z[i] = y[i]
      /\ z[n + k + 1] = Slash
  BY <1>2 DEF Text
<1>4. \A i \in 1 .. n : z[i] = x[i]
  BY <1>2, <1>3
<1>5. ASSUME NEW i \in 1 .. k PROVE z[n + i] = a[i]
  <2>1. n + i \in 1 .. n + k
    OBVIOUS
  <2>. QED
    BY <1>2, <1>3, <2>1
<1>6. z = Longer(x, id)
  BY DEF Longer
<1>. QED
  BY <1>3, <1>4, <1>5, <1>6

LEMMA DigitIsNoSlash ==
  ASSUME NEW id \in Nat, NEW i \in 1 .. Len(digits[id])
  PROVE  digits[id][i] # Slash
<1>. PICK a \in Seq(Digit) : a = digits[id]
  BY DigitsType
<1>1. a[i] \in Digit
  OBVIOUS
<1>. QED
  BY <1>1 DEF Digit, Slash

LEMMA LongerIsClosed ==
  ASSUME NEW x \in Text, NEW id \in Nat
  PROVE  /\ Closed(Longer(x, id)) /\ IsPrefix(x, Longer(x, id))
         /\ Len(x) \in Nat /\ Len(Longer(x, id)) \in Nat
         /\ Len(x) + 1 < Len(Longer(x, id))
<1>. PICK n \in Nat : n = Len(x)
  BY DEF Text
<1>. PICK k \in Nat : k = Len(digits[id]) /\ k # 0
  BY DigitsType
<1>. PICK z : z = Longer(x, id)
  OBVIOUS
<1>1. /\ z \in Text /\ Len(z) = n + k + 1
      /\ \A i \in 1 .. n : z[i] = x[i]
      /\ z[Len(z)] = Slash
  BY LongerPlaces
<1>2. Len(x) <= Len(z) /\ n + 1 < n + k + 1
  BY <1>1
<1>3. IsPrefix(x, z)
  BY <1>1, <1>2, PrefixByPlace
<1>. QED
  BY <1>1, <1>2, <1>3 DEF Closed

LEMMA Difference ==
  ASSUME NEW m \in Nat, NEW n \in Nat, n < m
  PROVE  \E j \in Nat \ {0} : m = n + j
<1>1. m - n \in Nat \ {0} /\ m = n + (m - n)
  OBVIOUS
<1>. QED
  BY <1>1

(* A closed text that reaches into the last segment is all of the text. *)
LEMMA SlashEndsSegment ==
  ASSUME NEW x \in Text, NEW id \in Nat, NEW r, Closed(r), IsPrefix(r, Longer(x, id)),
         ~(Len(r) <= Len(x))
  PROVE  Len(r) = Len(Longer(x, id))
<1>. PICK n \in Nat : n = Len(x)
  BY DEF Text
<1>. PICK k \in Nat : k = Len(digits[id])
  BY DigitsType
<1>. PICK z : z = Longer(x, id)
  OBVIOUS
<1>. PICK m \in Nat : m = Len(r)
  BY DEF Closed
<1>1. /\ z \in Text /\ Len(z) = n + k + 1
      /\ \A i \in 1 .. k : z[n + i] = digits[id][i]
  BY LongerPlaces
<1>2. r \in Text /\ r[m] = Slash /\ m # 0
  BY DEF Closed
<1>3. m <= n + k + 1 /\ \A i \in 1 .. m : r[i] = z[i]
  BY <1>1, <1>2, PrefixByPlace
<1>4. z[m] = Slash /\ n < m
  BY <1>2, <1>3
<1>5. ASSUME m # n + k + 1 PROVE FALSE
  <2>. PICK i \in 1 .. k : m = n + i
    <3>1. m <= n + k
      BY <1>3, <1>5
    <3>2. PICK j \in Nat \ {0} : m = n + j
      BY <1>4, Difference
    <3>3. j \in 1 .. k
      BY <3>1, <3>2
    <3>. QED
      BY <3>2, <3>3
  <2>1. z[m] = digits[id][i]
    BY <1>1
  <2>. QED
    BY <1>4, <2>1, DigitIsNoSlash
<1>. QED
  BY <1>1, <1>5

LEMMA SamePlaces ==
  ASSUME NEW s \in Text, NEW t \in Text, Len(s) = Len(t),
         \A i \in 1 .. Len(s) : s[i] = t[i]
  PROVE  s = t
BY DEF Text

LEMMA PrefixOfEqualLength ==
  ASSUME NEW s \in Text, NEW t \in Text, IsPrefix(s, t), Len(s) = Len(t)
  PROVE  s = t
BY PrefixByPlace, SamePlaces

LEMMA PrefixOfShorter ==
  ASSUME NEW r \in Text, NEW s \in Text, NEW t \in Text, IsPrefix(r, t), IsPrefix(s, t),
         Len(r) <= Len(s)
  PROVE  IsPrefix(r, s)
<1>. PICK m \in Nat : m = Len(r)
  BY DEF Text
<1>. PICK n \in Nat : n = Len(s)
  BY DEF Text
<1>1. \A i \in 1 .. m : r[i] = t[i]
  BY PrefixByPlace
<1>2. \A i \in 1 .. n : s[i] = t[i]
  BY PrefixByPlace
<1>3. \A i \in 1 .. m : i \in 1 .. n
  OBVIOUS
<1>. QED
  BY <1>1, <1>2, <1>3, PrefixByPlace

LEMMA PrefixTransitive ==
  ASSUME NEW r \in Text, NEW s \in Text, NEW t \in Text, IsPrefix(r, s), IsPrefix(s, t)
  PROVE  IsPrefix(r, t)
<1>. PICK m \in Nat : m = Len(r)
  BY DEF Text
<1>. PICK n \in Nat : n = Len(s)
  BY DEF Text
<1>. PICK k \in Nat : k = Len(t)
  BY DEF Text
<1>1. m <= n /\ \A i \in 1 .. m : r[i] = s[i]
  BY PrefixByPlace
<1>2. n <= k /\ \A i \in 1 .. n : s[i] = t[i]
  BY PrefixByPlace
<1>3. \A i \in 1 .. m : r[i] = t[i]
  BY <1>1, <1>2
<1>4. m <= k
  BY <1>1, <1>2
<1>. QED
  BY <1>3, <1>4, PrefixByPlace

(* A path is taken apart in one way only. *)
LEMMA LastSegmentIsUnique ==
  ASSUME NEW x, Closed(x), NEW y, Closed(y), NEW a \in Nat, NEW b \in Nat,
         Longer(x, a) = Longer(y, b)
  PROVE  x = y /\ a = b
<1>. PICK z : z = Longer(x, a)
  OBVIOUS
<1>1. x \in Text /\ y \in Text
  BY DEF Closed
<1>2. /\ IsPrefix(x, z) /\ IsPrefix(y, z) /\ z \in Text
      /\ Len(x) \in Nat /\ Len(y) \in Nat /\ Len(z) \in Nat
      /\ Len(x) < Len(z) /\ Len(y) < Len(z)
  <2>1. /\ IsPrefix(x, z) /\ Len(x) \in Nat /\ Len(z) \in Nat /\ Len(x) + 1 < Len(z) /\ Closed(z)
    BY <1>1, LongerIsClosed
  <2>2. /\ IsPrefix(y, z) /\ Len(y) \in Nat /\ Len(y) + 1 < Len(z)
    BY <1>1, LongerIsClosed
  <2>. QED
    BY <2>1, <2>2 DEF Closed
<1>3. Len(y) <= Len(x)
  <2>1. Len(y) # Len(z)
    BY <1>2
  <2>. QED
    BY <1>1, <1>2, <2>1, SlashEndsSegment
<1>4. Len(x) <= Len(y)
  <2>1. Len(x) # Len(z)
    BY <1>2
  <2>. QED
    BY <1>1, <1>2, <2>1, SlashEndsSegment
<1>5. Len(x) = Len(y)
  BY <1>2, <1>3, <1>4
<1>6. x = y
  BY <1>1, <1>2, <1>5, PrefixOfShorter, PrefixOfEqualLength
<1>7. digits[a] = digits[b]
  <2>. PICK n \in Nat : n = Len(x)
    BY <1>2
  <2>. PICK s \in Seq(Digit) : s = digits[a]
    BY DigitsType
  <2>. PICK t \in Seq(Digit) : t = digits[b]
    BY DigitsType
  <2>. PICK k \in Nat : k = Len(s)
    OBVIOUS
  <2>. PICK j \in Nat : j = Len(t)
    OBVIOUS
  <2>1. Len(z) = n + k + 1 /\ \A i \in 1 .. k : z[n + i] = s[i]
    BY <1>1, LongerPlaces
  <2>2. Len(z) = n + j + 1 /\ \A i \in 1 .. j : z[n + i] = t[i]
    <3>1. z = Longer(x, b)
      BY <1>6
    <3>2. /\ Len(Longer(x, b)) = Len(x) + Len(digits[b]) + 1
          /\ \A i \in 1 .. Len(digits[b]) : Longer(x, b)[Len(x) + i] = digits[b][i]
      BY <1>1, LongerPlaces
    <3>. QED
      BY <3>1, <3>2, Zenon
  <2>3. k = j
    BY <2>1, <2>2
  <2>4. \A i \in 1 .. k : s[i] = t[i]
    BY <2>1, <2>2, <2>3
  <2>5. s \in Text /\ t \in Text
    BY DEF Text, Digit
  <2>6. s = t
    BY <2>3, <2>4, <2>5, SamePlaces
  <2>. QED
    BY <2>6
<1>. QED
  BY <1>6, <1>7, DigitsDiffer

-------------------------------------------------------------------------------
(***************************************************************************)
(* The tree of departments.  Every row is the root or one of the roots, or *)
(* its path is that of its parent and one segment more.                    *)
(***************************************************************************)
Top(rows, d) == rows[d].parent = 0 /\ rows[d].path = Longer(<<Slash>>, d)

Hangs(rows, d) ==
    /\ rows[d].parent \in DOMAIN rows
    /\ rows[d].path = Longer(rows[rows[d].parent].path, d)

PathsFollow(rows) ==
    /\ DOMAIN rows \subseteq Nat
    /\ \A d \in DOMAIN rows : rows[d].path \in Text /\ (Top(rows, d) \/ Hangs(rows, d))

LEMMA SlashIsClosed == Closed(<<Slash>>)
<1>. PICK s : s = <<Slash>>
  OBVIOUS
<1>1. s \in Text /\ Len(s) = 1 /\ s[1] = Slash
  BY DEF Text, Slash
<1>. QED
  BY <1>1 DEF Closed

(* What stands above a department, as a text. *)
LEMMA PathShape ==
  ASSUME NEW rows, PathsFollow(rows), NEW d \in DOMAIN rows
  PROVE  /\ Closed(rows[d].path) /\ Len(rows[d].path) \in Nat /\ Len(rows[d].path) > 2
         /\ Hangs(rows, d) => /\ rows[rows[d].parent].path \in Text
                              /\ Len(rows[rows[d].parent].path) < Len(rows[d].path)
<1>1. d \in Nat
  BY DEF PathsFollow
<1>2. CASE Top(rows, d)
  <2>1. Closed(Longer(<<Slash>>, d)) /\ 1 + 1 < Len(Longer(<<Slash>>, d))
    <3>1. <<Slash>> \in Text /\ Len(<<Slash>>) = 1
      BY SlashIsClosed DEF Closed
    <3>. QED
      BY <1>1, <3>1, LongerIsClosed
  <2>2. ASSUME Hangs(rows, d) PROVE rows[rows[d].parent].path \in Text
    BY <2>2 DEF Hangs, PathsFollow
  <2>3. ASSUME Hangs(rows, d)
        PROVE  Len(rows[rows[d].parent].path) < Len(rows[d].path)
    <3>. PICK x \in Text : x = rows[rows[d].parent].path
      BY <2>2, <2>3
    <3>1. /\ Len(x) \in Nat /\ Len(Longer(x, d)) \in Nat /\ Len(x) + 1 < Len(Longer(x, d))
      BY <1>1, LongerIsClosed
    <3>. QED
      BY <2>3, <3>1 DEF Hangs
  <2>. QED
    BY <1>2, <2>1, <2>2, <2>3 DEF Top, Closed
<1>3. CASE Hangs(rows, d)
  <2>. PICK p \in DOMAIN rows : p = rows[d].parent
    BY <1>3 DEF Hangs
  <2>. PICK x \in Text : x = rows[p].path
    BY DEF PathsFollow
  <2>1. p \in Nat
    BY DEF PathsFollow
  <2>2. \E y \in Text : \E b \in Nat : x = Longer(y, b)
    <3>1. CASE Top(rows, p)
      BY <2>1, <3>1, SlashIsClosed DEF Top, Closed
    <3>2. CASE Hangs(rows, p)
      BY <2>1, <3>2 DEF Hangs, PathsFollow
    <3>. QED
      BY <3>1, <3>2 DEF PathsFollow
  <2>3. /\ Closed(Longer(x, d)) /\ Len(x) \in Nat /\ Len(Longer(x, d)) \in Nat
        /\ Len(x) + 1 < Len(Longer(x, d))
    BY <1>1, LongerIsClosed
  <2>4. Len(x) >= 1
    <3>. PICK y \in Text, b \in Nat : x = Longer(y, b)
      BY <2>2
    <3>1. Len(y) \in Nat /\ Len(y) + 1 < Len(Longer(y, b))
      BY LongerIsClosed
    <3>. QED
      BY <2>3, <3>1
  <2>5. rows[d].path = Longer(x, d)
    BY <1>3 DEF Hangs
  <2>. QED
    BY <2>3, <2>4, <2>5
<1>. QED
  BY <1>2, <1>3 DEF PathsFollow

LEMMA TopDoesNotHang ==
  ASSUME NEW rows, PathsFollow(rows), NEW d \in DOMAIN rows, Top(rows, d)
  PROVE  ~Hangs(rows, d)
<1>. SUFFICES ASSUME Hangs(rows, d) PROVE FALSE
  OBVIOUS
<1>1. d \in Nat /\ rows[d].parent \in DOMAIN rows
  BY DEF PathsFollow, Hangs
<1>. PICK x : x = rows[rows[d].parent].path
  OBVIOUS
<1>2. Closed(x) /\ Len(x) > 2
  BY <1>1, PathShape
<1>3. Longer(x, d) = Longer(<<Slash>>, d)
  BY DEF Top, Hangs
<1>4. x = <<Slash>>
  BY <1>1, <1>2, <1>3, SlashIsClosed, LastSegmentIsUnique
<1>. QED
  BY <1>2, <1>4

(* No two departments have the same path. *)
LEMMA PathsDiffer ==
  ASSUME NEW rows, PathsFollow(rows), NEW d \in DOMAIN rows, NEW e \in DOMAIN rows,
         rows[d].path = rows[e].path
  PROVE  d = e
<1>1. ASSUME NEW c \in DOMAIN rows
      PROVE  c \in Nat /\ \E x : Closed(x) /\ rows[c].path = Longer(x, c)
  <2>1. CASE Top(rows, c)
    BY <2>1, SlashIsClosed DEF Top, PathsFollow
  <2>2. CASE Hangs(rows, c)
    BY <2>2, PathShape DEF Hangs, PathsFollow
  <2>. QED
    BY <2>1, <2>2 DEF PathsFollow
<1>. PICK x : Closed(x) /\ rows[d].path = Longer(x, d)
  BY <1>1
<1>. PICK y : Closed(y) /\ rows[e].path = Longer(y, e)
  BY <1>1
<1>2. Longer(x, d) = Longer(y, e) /\ d \in Nat /\ e \in Nat
  BY <1>1
<1>. QED
  BY <1>2, LastSegmentIsUnique

(* The subtree of a department, found by text, is the department and what  *)
(* hangs below a department of the subtree.                                *)
LEMMA SubtreeStep ==
  ASSUME NEW rows, PathsFollow(rows), NEW r \in DOMAIN rows, NEW d \in DOMAIN rows
  PROVE  d \in SubtreeIDs(rows, r) <=>
           \/ d = r
           \/ Hangs(rows, d) /\ rows[d].parent \in SubtreeIDs(rows, r)
<1>. PICK t : t = rows[r].path
  OBVIOUS
<1>. PICK z : z = rows[d].path
  OBVIOUS
<1>1. Closed(t) /\ Closed(z) /\ t \in Text /\ z \in Text /\ Len(t) \in Nat /\ Len(t) > 2 /\ d \in Nat
  BY PathShape DEF Closed, PathsFollow
<1>2. d \in SubtreeIDs(rows, r) <=> IsPrefix(t, z)
  BY DEF SubtreeIDs
<1>3. d = r => IsPrefix(t, z)
  <2>1. IsPrefix(t, t)
    BY <1>1, PrefixByPlace
  <2>. QED
    BY <2>1
<1>4. ASSUME Hangs(rows, d), rows[d].parent \in SubtreeIDs(rows, r)
      PROVE  IsPrefix(t, z)
  <2>. PICK x : x = rows[rows[d].parent].path
    OBVIOUS
  <2>1. IsPrefix(t, x) /\ x \in Text /\ z = Longer(x, d)
    BY <1>4 DEF SubtreeIDs, Hangs, PathsFollow
  <2>2. IsPrefix(x, z)
    BY <1>1, <2>1, LongerIsClosed
  <2>. QED
    BY <1>1, <2>1, <2>2, PrefixTransitive
<1>5. ASSUME IsPrefix(t, z), d # r
      PROVE  Hangs(rows, d) /\ rows[d].parent \in SubtreeIDs(rows, r)
  <2>1. Len(t) # Len(z)
    BY <1>1, <1>5, PrefixOfEqualLength, PathsDiffer
  <2>2. ASSUME NEW x \in Text, z = Longer(x, d) PROVE Len(t) <= Len(x)
    BY <1>1, <1>5, <2>1, <2>2, SlashEndsSegment
  <2>3. ~Top(rows, d)
    <3>1. <<Slash>> \in Text /\ Len(<<Slash>>) = 1
      BY SlashIsClosed DEF Closed
    <3>2. ~(Len(t) <= 1)
      BY <1>1
    <3>. QED
      BY <2>2, <3>1, <3>2 DEF Top
  <2>4. Hangs(rows, d)
    BY <2>3 DEF PathsFollow
  <2>. PICK x : x = rows[rows[d].parent].path
    OBVIOUS
  <2>5. x \in Text /\ z = Longer(x, d)
    BY <2>4 DEF Hangs, PathsFollow
  <2>6. IsPrefix(x, z) /\ Len(t) <= Len(x)
    BY <1>1, <2>2, <2>5, LongerIsClosed
  <2>7. IsPrefix(t, x)
    BY <1>1, <1>5, <2>5, <2>6, PrefixOfShorter
  <2>. QED
    BY <2>4, <2>7 DEF SubtreeIDs, Hangs
<1>. QED
  BY <1>2, <1>3, <1>4, <1>5

(* Induction down the tree. *)
LEMMA DownTheTree ==
  ASSUME NEW rows, PathsFollow(rows), NEW R,
         \A d \in DOMAIN rows : (Hangs(rows, d) => rows[d].parent \in R) => d \in R
  PROVE  DOMAIN rows \subseteq R
<1>. DEFINE m == [d \in DOMAIN rows |-> Len(rows[d].path)]
<1>1. m \in [DOMAIN rows -> Nat] /\ \A d \in DOMAIN rows : m[d] = Len(rows[d].path)
  BY PathShape
<1>2. ASSUME NEW d \in DOMAIN rows, \A e \in DOMAIN rows : m[e] < m[d] => e \in R
      PROVE  d \in R
  <2>1. Hangs(rows, d) => rows[d].parent \in R
    BY <1>1, <1>2, PathShape DEF Hangs
  <2>. QED
    BY <2>1
<1>. HIDE DEF m
<1>. QED
  BY <1>1, <1>2, ByMeasure

(* Descendants is what its recursive definition says. *)
LEMMA DescendantsStep ==
  ASSUME NEW rows, PathsFollow(rows), 0 \notin DOMAIN rows, NEW r
  PROVE  \A d \in DOMAIN rows :
           d \in Descendants(rows, r) <=>
             \/ d = r
             \/ rows[d].parent \in DOMAIN rows /\ rows[d].parent \in Descendants(rows, r)
<1>. DEFINE S == DOMAIN rows
            m == [d \in S |-> Len(rows[d].path)]
            Value(d, f) == d = r \/ (rows[d].parent \in S /\ f[rows[d].parent])
            step == [p \in S \X [S -> BOOLEAN] |-> Value(p[1], p[2])]
            Eqn(f) == f = [d \in DOMAIN rows |->
                             d = r \/ (rows[d].parent \in DOMAIN rows /\ f[rows[d].parent])]
<1>1. m \in [S -> Nat] /\ \A d \in S : m[d] = Len(rows[d].path)
  BY PathShape
<1>2. \A d \in S : \A f \in [S -> BOOLEAN] : step[<<d, f>>] = Value(d, f)
  OBVIOUS
<1>3. step \in [S \X [S -> BOOLEAN] -> BOOLEAN]
  OBVIOUS
<1>4. ASSUME NEW d \in S, NEW f \in [S -> BOOLEAN], NEW g \in [S -> BOOLEAN],
             \A e \in S : m[e] < m[d] => f[e] = g[e]
      PROVE  step[<<d, f>>] = step[<<d, g>>]
  <2>1. rows[d].parent \in S => Hangs(rows, d)
    BY DEF PathsFollow, Top
  <2>2. rows[d].parent \in S => f[rows[d].parent] = g[rows[d].parent]
    BY <1>1, <1>4, <2>1, PathShape
  <2>. HIDE DEF step
  <2>. QED
    BY <1>2, <2>2
<1>5. Recursion(S, BOOLEAN, m, step)
  <2>. HIDE DEF m, step
  <2>. QED
    BY <1>1, <1>3, <1>4 DEF Recursion
<1>. PICK f : Solves(S, BOOLEAN, step, f)
  <2>. HIDE DEF step, m
  <2>. QED
    BY <1>5, RecursionIsDefined, Zenon
<1>6. Eqn(f)
  <2>. HIDE DEF step
  <2>. QED
    BY <1>2 DEF Solves
<1>. DEFINE below == CHOOSE g : Eqn(g)
<1>7. Eqn(below)
  <2>. HIDE DEF Eqn
  <2>. QED
    BY <1>6, Zenon
<1>8. Descendants(rows, r) = {d \in DOMAIN rows : below[d]}
  BY Zenon DEF Descendants
<1>. HIDE DEF below
<1>. QED
  BY <1>7, <1>8

LEMMA SubtreesAreDescendants ==
  ASSUME NEW rows, PathsFollow(rows), 0 \notin DOMAIN rows, NEW r \in DOMAIN rows
  PROVE  SubtreeIDs(rows, r) = Descendants(rows, r)
<1>. DEFINE R == {d \in DOMAIN rows : d \in SubtreeIDs(rows, r) <=> d \in Descendants(rows, r)}
<1>1. ASSUME NEW d \in DOMAIN rows, Hangs(rows, d) => rows[d].parent \in R
      PROVE  d \in R
  <2>1. Hangs(rows, d) <=> rows[d].parent \in DOMAIN rows
    BY DEF PathsFollow, Top, Hangs
  <2>. QED
    BY <1>1, <2>1, SubtreeStep, DescendantsStep
<1>2. DOMAIN rows \subseteq R
  <2>. HIDE DEF R
  <2>. QED
    BY <1>1, DownTheTree
<1>3. SubtreeIDs(rows, r) \subseteq DOMAIN rows /\ Descendants(rows, r) \subseteq DOMAIN rows
  BY DEF SubtreeIDs, Descendants
<1>. QED
  BY <1>2, <1>3

-------------------------------------------------------------------------------
(***************************************************************************)
(* Reading a path                                                          *)
(***************************************************************************)
(* One character more: a slash opens a segment, a digit extends the last.  *)
Reading(ids, c) ==
    IF c = Slash THEN Append(ids, 0) ELSE [ids EXCEPT ![Len(ids)] = 10 * @ + c]

Reads(path, read) ==
    /\ read \in [0 .. Len(path) -> Seq(Nat)]
    /\ read[0] = <<>>
    /\ \A i \in 1 .. Len(path) : read[i] = Reading(read[i - 1], path[i])

LEMMA ReadingType ==
  ASSUME NEW ids \in Seq(Nat), NEW c \in 0 .. 10
  PROVE  Reading(ids, c) \in Seq(Nat)
<1>1. CASE c = Slash
  BY <1>1 DEF Reading
<1>2. CASE c # Slash
  <2>. PICK n \in Nat : n = Len(ids)
    OBVIOUS
  <2>1. Reading(ids, c) = [ids EXCEPT ![n] = 10 * ids[n] + c]
    BY <1>2 DEF Reading
  <2>2. CASE n = 0
    <3>1. DOMAIN ids = 1 .. n /\ 1 .. 0 = {}
      OBVIOUS
    <3>2. [ids EXCEPT ![n] = 10 * ids[n] + c] = ids
      BY <2>2, <3>1
    <3>. QED
      BY <2>1, <3>2
  <2>3. CASE n # 0
    <3>1. n \in DOMAIN ids /\ ids[n] \in Nat
      BY <2>3
    <3>. PICK v \in Nat : v = 10 * ids[n] + c
      BY <3>1
    <3>2. [ids EXCEPT ![n] = v] \in Seq(Nat)
      BY <3>1
    <3>. QED
      BY <2>1, <3>2
  <2>. QED
    BY <2>2, <2>3
<1>. QED
  BY <1>1, <1>2

LEMMA SegmentsDef ==
  ASSUME NEW path \in Text
  PROVE  \E read : Reads(path, read) /\ Segments(path) = Front(read[Len(path)])
<1>. PICK n \in Nat : n = Len(path)
  BY DEF Text
<1>. DEFINE S == 0 .. n
            T == Seq(Nat)
            m == [i \in S |-> i]
            Value(i, f) == IF i = 0 THEN <<>>
                           ELSE IF path[i] = Slash THEN Append(f[i - 1], 0)
                           ELSE [f[i - 1] EXCEPT ![Len(f[i - 1])] = 10 * @ + path[i]]
            step == [p \in S \X [S -> T] |-> Value(p[1], p[2])]
            Eqn(f) == f = [i \in 0 .. Len(path) |-> Value(i, f)]
<1>1. m \in [S -> Nat] /\ \A i \in S : m[i] = i
  OBVIOUS
<1>2. \A i \in S : \A f \in [S -> T] : step[<<i, f>>] = Value(i, f)
  OBVIOUS
<1>3. ASSUME NEW i \in S, NEW f \in [S -> T] PROVE Value(i, f) \in T
  <2>1. CASE i = 0
    <3>1. <<>> \in T
      OBVIOUS
    <3>. QED
      BY <2>1, <3>1
  <2>2. CASE i # 0
    <3>1. i - 1 \in S /\ path[i] \in 0 .. 10
      BY <2>2 DEF Text
    <3>2. f[i - 1] \in Seq(Nat)
      BY <3>1
    <3>3. Reading(f[i - 1], path[i]) \in Seq(Nat)
      BY <3>1, <3>2, ReadingType
    <3>4. Value(i, f) = Reading(f[i - 1], path[i])
      BY <2>2 DEF Reading
    <3>. HIDE DEF Value
    <3>. QED
      BY <3>3, <3>4
  <2>. QED
    BY <2>1, <2>2
<1>4. step \in [S \X [S -> T] -> T]
  <2>. HIDE DEF S, T, Value
  <2>. QED
    BY <1>3
<1>5. ASSUME NEW i \in S, NEW f \in [S -> T], NEW g \in [S -> T],
             \A k \in S : m[k] < m[i] => f[k] = g[k]
      PROVE  step[<<i, f>>] = step[<<i, g>>]
  <2>1. i # 0 => f[i - 1] = g[i - 1]
    <3>1. i # 0 => (i - 1 \in S /\ i - 1 < i)
      OBVIOUS
    <3>. HIDE DEF S, m
    <3>. QED
      BY <1>1, <1>5, <3>1
  <2>2. Value(i, f) = Value(i, g)
    <3>1. CASE i = 0
      BY <3>1
    <3>2. CASE i # 0
      <4>. PICK v : v = f[i - 1] /\ v = g[i - 1]
        BY <2>1, <3>2
      <4>1. /\ Value(i, f) = IF path[i] = Slash THEN Append(v, 0)
                             ELSE [v EXCEPT ![Len(v)] = 10 * @ + path[i]]
            /\ Value(i, g) = IF path[i] = Slash THEN Append(v, 0)
                             ELSE [v EXCEPT ![Len(v)] = 10 * @ + path[i]]
        BY <3>2
      <4>. HIDE DEF Value
      <4>. QED
        BY <4>1
    <3>. QED
      BY <3>1, <3>2
  <2>. HIDE DEF step, S, m, T, Value
  <2>. QED
    BY <1>2, <2>2
<1>6. Recursion(S, T, m, step)
  <2>1. <<>> \in T
    OBVIOUS
  <2>. HIDE DEF S, T, m, step
  <2>. QED
    BY <1>1, <1>4, <1>5, <2>1 DEF Recursion
<1>. PICK f : Solves(S, T, step, f)
  <2>. HIDE DEF S, T, step, m
  <2>. QED
    BY <1>6, RecursionIsDefined, Zenon
<1>7. f \in [S -> T] /\ \A i \in S : f[i] = Value(i, f)
  <2>. HIDE DEF step, S, T, Value
  <2>. QED
    BY <1>2 DEF Solves
<1>9. Eqn(f)
  <2>. HIDE DEF Value, T
  <2>. QED
    BY <1>7
<1>. DEFINE read == CHOOSE g : Eqn(g)
<1>10. Eqn(read)
  <2>. HIDE DEF Eqn
  <2>. QED
    BY <1>9, Zenon
<1>11. Segments(path) = Front(read[Len(path)])
  BY Zenon DEF Segments
<1>. HIDE DEF read
<1>. PICK r : r = read
  OBVIOUS
<1>12. r = [i \in S |-> r[i]] /\ \A i \in S : r[i] = Value(i, r)
  <2>1. r = [i \in S |-> Value(i, r)]
    BY <1>10
  <2>. HIDE DEF Value, S
  <2>. QED
    BY <2>1
<1>13. \A i \in S : r[i] \in T
  <2>. DEFINE R == {i \in S : r[i] \in T}
  <2>1. ASSUME NEW i \in S, \A k \in S : m[k] < m[i] => k \in R
        PROVE  i \in R
    <3>1. r[i] = Value(i, r)
      <4>. HIDE DEF Value
      <4>. QED
        BY <1>12
    <3>2. CASE i = 0
      <4>1. <<>> \in T
        OBVIOUS
      <4>. QED
        BY <3>1, <3>2, <4>1
    <3>3. CASE i # 0
      <4>1. i - 1 \in S /\ m[i - 1] < m[i] /\ path[i] \in 0 .. 10
        BY <3>3 DEF Text
      <4>2. r[i - 1] \in Seq(Nat)
        BY <2>1, <4>1
      <4>3. Reading(r[i - 1], path[i]) \in Seq(Nat)
        BY <4>1, <4>2, ReadingType
      <4>4. Value(i, r) = Reading(r[i - 1], path[i])
        BY <3>3 DEF Reading
      <4>. HIDE DEF Value
      <4>. QED
        BY <3>1, <4>3, <4>4
    <3>. QED
      BY <3>2, <3>3
  <2>2. S \subseteq R
    <3>. HIDE DEF S, R, m
    <3>. QED
      BY <1>1, <2>1, ByMeasure
  <2>. QED
    BY <2>2
<1>14. Reads(path, r)
  <2>1. r \in [S -> T]
    <3>. HIDE DEF Value, S, T
    <3>. QED
      BY <1>12, <1>13
  <2>2. r[0] = <<>>
    <3>1. 0 \in S /\ Value(0, r) = <<>>
      OBVIOUS
    <3>. HIDE DEF Value, S
    <3>. QED
      BY <1>12, <3>1
  <2>3. ASSUME NEW i \in 1 .. n PROVE r[i] = Reading(r[i - 1], path[i])
    <3>1. i \in S /\ i # 0
      OBVIOUS
    <3>2. r[i] = Value(i, r)
      <4>. HIDE DEF Value, S
      <4>. QED
        BY <1>12, <3>1
    <3>3. Value(i, r) = Reading(r[i - 1], path[i])
      BY <3>1 DEF Reading
    <3>. HIDE DEF Value
    <3>. QED
      BY <3>2, <3>3
  <2>. QED
    BY <2>1, <2>2, <2>3 DEF Reads
<1>. QED
  BY <1>11, <1>14
LEMMA AppendFront ==
  ASSUME NEW ids \in Seq(Nat), NEW a \in Nat
  PROVE  /\ Append(ids, a) \in Seq(Nat) /\ Front(Append(ids, a)) = ids
         /\ Len(Append(ids, a)) = Len(ids) + 1 /\ Append(ids, a)[Len(ids) + 1] = a
         /\ \A i \in 1 .. Len(ids) : Append(ids, a)[i] = ids[i]
BY DEF Front

LEMMA AppendApart ==
  ASSUME NEW s \in Seq(Nat), NEW t \in Seq(Nat), NEW a \in Nat, NEW b \in Nat,
         Append(s, a) = Append(t, b)
  PROVE  s = t /\ a = b
<1>1. Front(Append(s, a)) = s /\ Front(Append(t, b)) = t
  BY AppendFront
<1>2. s = t
  BY <1>1
<1>3. Append(s, a)[Len(s) + 1] = a /\ Append(t, b)[Len(t) + 1] = b
  BY AppendFront
<1>. QED
  BY <1>2, <1>3

LEMMA ReadStep ==
  ASSUME NEW path \in Text, NEW read, Reads(path, read), NEW i \in Nat, i < Len(path)
  PROVE  read[i] \in Seq(Nat) /\ read[i + 1] = Reading(read[i], path[i + 1])
<1>. PICK n \in Nat : n = Len(path)
  BY DEF Text
<1>1. i \in 0 .. n /\ i + 1 \in 1 .. n /\ (i + 1) - 1 = i
  OBVIOUS
<1>. QED
  BY <1>1 DEF Reads

LEMMA DigitExtendsLast ==
  ASSUME NEW ids \in Seq(Nat), NEW a \in Nat, NEW c \in Digit
  PROVE  Reading(Append(ids, a), c) = Append(ids, 10 * a + c)
<1>. PICK s \in Seq(Nat) : s = Append(ids, a)
  BY AppendFront
<1>. PICK n \in Nat : n = Len(ids)
  OBVIOUS
<1>1. Len(s) = n + 1 /\ s[n + 1] = a /\ \A i \in 1 .. n : s[i] = ids[i]
  BY AppendFront
<1>. PICK v \in Nat : v = 10 * a + c
  BY DEF Digit
<1>. PICK t : t = [s EXCEPT ![n + 1] = v]
  OBVIOUS
<1>2. Reading(s, c) = t
  BY <1>1 DEF Reading, Slash, Digit
<1>3. t \in Seq(Nat) /\ Len(t) = n + 1 /\ t[n + 1] = v /\ \A i \in 1 .. n : t[i] = ids[i]
  <2>1. DOMAIN s = 1 .. n + 1
    BY <1>1
  <2>2. t \in Seq(Nat) /\ Len(t) = n + 1
    BY <1>1, <2>1
  <2>3. t[n + 1] = v
    BY <2>1
  <2>4. ASSUME NEW i \in 1 .. n PROVE t[i] = ids[i]
    <3>1. i \in 1 .. n + 1 /\ i # n + 1
      OBVIOUS
    <3>. QED
      BY <1>1, <2>1, <3>1
  <2>. QED
    BY <2>2, <2>3, <2>4
<1>. PICK z \in Seq(Nat) : z = Append(ids, v)
  BY AppendFront
<1>4. Len(z) = n + 1 /\ z[n + 1] = v /\ \A i \in 1 .. n : z[i] = ids[i]
  BY AppendFront
<1>5. \A i \in 1 .. n + 1 : t[i] = z[i]
  BY <1>3, <1>4
<1>6. t = z
  BY <1>3, <1>4, <1>5
<1>. QED
  BY <1>2, <1>6

(* Reading the digits of an id where a segment has just been opened.       *)
AtDigits(id, path, read, n, ids) ==
    /\ Reads(path, read) /\ n + Len(digits[id]) <= Len(path)
    /\ \A i \in 1 .. Len(digits[id]) : path[n + i] = digits[id][i]
    /\ read[n] = Append(ids, 0)

ReadsDigits(id) ==
    \A path \in Text : \A read : \A n \in Nat : \A ids \in Seq(Nat) :
       AtDigits(id, path, read, n, ids) => read[n + Len(digits[id])] = Append(ids, id)

LEMMA ReadDigits ==
  ASSUME NEW id \in Nat, ReadsDigits(id), NEW path \in Text, NEW read, NEW n \in Nat,
         NEW ids \in Seq(Nat), AtDigits(id, path, read, n, ids)
  PROVE  read[n + Len(digits[id])] = Append(ids, id)
BY DEF ReadsDigits

LEMMA ReadsMoreDigits ==
  ASSUME NEW id \in Nat, \A k \in Nat : k < id => ReadsDigits(k),
         NEW path \in Text, NEW read, NEW n \in Nat, NEW ids \in Seq(Nat),
         AtDigits(id, path, read, n, ids)
  PROVE  read[n + Len(digits[id])] = Append(ids, id)
<1>. PICK len \in Nat : len = Len(path)
  BY DEF Text
<1>1. Reads(path, read) /\ read[n] = Append(ids, 0)
  BY DEF AtDigits
<1>2. CASE id < 10
  <2>. PICK s \in Seq(Digit) : s = digits[id]
    BY DigitsType
  <2>1. s = <<id>>
    BY <1>2, DigitsDef
  <2>2. Len(s) = 1 /\ s[1] = id
    <3>1. Len(<<id>>) = 1 /\ <<id>>[1] = id
      BY <1>2, OneDigit
    <3>. QED
      BY <2>1, <3>1, Zenon
  <2>3. n + 1 <= len /\ path[n + 1] = id /\ n < Len(path)
    <3>1. 1 \in 1 .. 1
      OBVIOUS
    <3>. QED
      BY <2>2, <3>1 DEF AtDigits
  <2>4. read[n + 1] = Reading(Append(ids, 0), id)
    <3>1. read[n + 1] = Reading(read[n], path[n + 1])
      BY <1>1, <2>3, ReadStep
    <3>. QED
      BY <1>1, <2>3, <3>1
  <2>5. id \in Digit /\ 10 * 0 + id = id
    BY <1>2 DEF Digit
  <2>6. Reading(Append(ids, 0), id) = Append(ids, 10 * 0 + id)
    BY <2>5, DigitExtendsLast
  <2>. QED
    BY <2>2, <2>4, <2>5, <2>6
<1>3. CASE ~(id < 10)
  <2>1. /\ id \div 10 \in Nat /\ id % 10 \in Digit /\ id \div 10 < id
        /\ id = 10 * (id \div 10) + (id % 10)
    BY <1>3, Tenth
  <2>. PICK q \in Nat : q = id \div 10
    BY <2>1
  <2>. PICK c \in Digit : c = id % 10
    BY <2>1
  <2>2. id = 10 * q + c /\ q < id
    BY <2>1
  <2>. PICK s \in Seq(Digit) : s = digits[q]
    BY DigitsType
  <2>. PICK k \in Nat : k = Len(s)
    OBVIOUS
  <2>. PICK t \in Seq(Digit) : t = digits[id]
    BY DigitsType
  <2>3. t = Append(s, c)
    BY <1>3, DigitsDef
  <2>4. Len(t) = k + 1 /\ t[k + 1] = c /\ \A i \in 1 .. k : t[i] = s[i]
    BY <2>3
  <2>5. n + (k + 1) <= len /\ \A i \in 1 .. k + 1 : path[n + i] = t[i]
    BY <2>4 DEF AtDigits
  <2>6. \A i \in 1 .. k : i \in 1 .. k + 1
    OBVIOUS
  <2>7. AtDigits(q, path, read, n, ids)
    <3>1. n + k <= len
      BY <2>5
    <3>2. \A i \in 1 .. k : path[n + i] = s[i]
      BY <2>4, <2>5, <2>6
    <3>. QED
      BY <1>1, <3>1, <3>2 DEF AtDigits
  <2>8. read[n + k] = Append(ids, q)
    BY <2>2, <2>7, ReadDigits
  <2>9. path[n + (k + 1)] = c
    <3>1. k + 1 \in 1 .. k + 1
      OBVIOUS
    <3>. QED
      BY <2>4, <2>5, <3>1
  <2>10. n + k \in Nat /\ n + k < len /\ (n + k) + 1 = n + (k + 1)
    BY <2>5
  <2>11. read[n + (k + 1)] = Reading(Append(ids, q), c)
    <3>. PICK i \in Nat : i = n + k /\ i < len /\ i + 1 = n + (k + 1)
      BY <2>10
    <3>0. i < Len(path) /\ Reads(path, read)
      BY <1>1
    <3>1. read[i + 1] = Reading(read[i], path[i + 1])
      BY <3>0, ReadStep
    <3>. QED
      BY <2>8, <2>9, <3>1
  <2>12. Reading(Append(ids, q), c) = Append(ids, id)
    <3>1. Reading(Append(ids, q), c) = Append(ids, 10 * q + c)
      BY DigitExtendsLast
    <3>. QED
      BY <2>2, <3>1
  <2>. QED
    BY <2>4, <2>11, <2>12
<1>. QED
  BY <1>2, <1>3

LEMMA ReadsAnyDigits ==
  ASSUME NEW id \in Nat
  PROVE  ReadsDigits(id)
<1>. DEFINE R == {k \in Nat : ReadsDigits(k)}
<1>1. ASSUME NEW k \in Nat, \A i \in Nat : i < k => i \in R
      PROVE  k \in R
  <2>1. \A i \in Nat : i < k => ReadsDigits(i)
    BY <1>1
  <2>2. ReadsDigits(k)
    BY <2>1, ReadsMoreDigits DEF ReadsDigits
  <2>. QED
    BY <2>2
<1>2. Nat \subseteq R
  <2>. HIDE DEF R
  <2>. QED
    BY <1>1, ByNumber
<1>. QED
  BY <1>2

(* A prefix is read in the same way. *)
LEMMA ReadsPrefix ==
  ASSUME NEW x \in Text, NEW z \in Text, IsPrefix(x, z), NEW f, Reads(x, f), NEW g, Reads(z, g)
  PROVE  \A i \in 0 .. Len(x) : f[i] = g[i]
<1>. PICK n \in Nat : n = Len(x)
  BY DEF Text
<1>. PICK k \in Nat : k = Len(z)
  BY DEF Text
<1>1. n <= k /\ \A i \in 1 .. n : x[i] = z[i]
  BY PrefixByPlace
<1>. DEFINE S == 0 .. n
            m == [i \in S |-> i]
            R == {i \in S : f[i] = g[i]}
<1>2. ASSUME NEW i \in S, \A j \in S : m[j] < m[i] => j \in R
      PROVE  i \in R
  <2>1. CASE i = 0
    BY <2>1 DEF Reads
  <2>2. CASE i # 0
    <3>1. i \in 1 .. n /\ i \in 1 .. k /\ i - 1 \in S /\ i - 1 < i
      BY <1>1, <2>2
    <3>2. f[i - 1] = g[i - 1]
      BY <1>2, <3>1
    <3>3. f[i] = Reading(f[i - 1], x[i]) /\ g[i] = Reading(g[i - 1], z[i])
      BY <3>1 DEF Reads
    <3>. QED
      BY <1>1, <3>1, <3>2, <3>3
  <2>. QED
    BY <2>1, <2>2
<1>3. m \in [S -> Nat]
  OBVIOUS
<1>4. S \subseteq R
  <2>. HIDE DEF S, m, R
  <2>. QED
    BY <1>2, <1>3, ByMeasure
<1>. QED
  BY <1>4

(* The segments of a closed text, and of one with an id more.              *)
LEMMA SegmentsOfClosed ==
  ASSUME NEW x, Closed(x), NEW read, Reads(x, read)
  PROVE  Segments(x) \in Seq(Nat) /\ read[Len(x)] = Append(Segments(x), 0)
<1>. PICK n \in Nat : n = Len(x) /\ n # 0 /\ x \in Text /\ x[n] = Slash
  BY DEF Closed
<1>. PICK f : Reads(x, f) /\ Segments(x) = Front(f[n])
  BY SegmentsDef
<1>1. IsPrefix(x, x)
  BY PrefixByPlace
<1>2. f[n] = read[n]
  <2>1. n \in 0 .. n
    OBVIOUS
  <2>. QED
    BY <1>1, <2>1, ReadsPrefix
<1>3. n \in 1 .. n /\ n - 1 \in 0 .. n
  OBVIOUS
<1>. PICK ids \in Seq(Nat) : ids = read[n - 1]
  BY <1>3 DEF Reads
<1>4. read[n] = Append(ids, 0)
  BY <1>3 DEF Reads, Reading
<1>. QED
  BY <1>2, <1>4, AppendFront

LEMMA SegmentsOfSlash == Segments(<<Slash>>) = <<>>
<1>. PICK x : x = <<Slash>>
  OBVIOUS
<1>1. Closed(x) /\ Len(x) = 1 /\ x[1] = Slash /\ x \in Text
  BY SlashIsClosed DEF Closed
<1>. PICK read : Reads(x, read)
  BY <1>1, SegmentsDef
<1>2. read[1] = Append(<<>>, 0)
  <2>1. 1 \in 1 .. 1 /\ 1 - 1 = 0
    OBVIOUS
  <2>. QED
    BY <1>1, <2>1 DEF Reads, Reading
<1>3. Append(Segments(x), 0) = Append(<<>>, 0) /\ Segments(x) \in Seq(Nat)
  BY <1>1, <1>2, SegmentsOfClosed
<1>4. <<>> \in Seq(Nat)
  OBVIOUS
<1>5. Segments(x) = <<>>
  BY <1>3, <1>4, AppendApart
<1>. QED
  BY <1>5

LEMMA SegmentsOfLonger ==
  ASSUME NEW x, Closed(x), NEW id \in Nat
  PROVE  /\ Segments(x) \in Seq(Nat)
         /\ Segments(Longer(x, id)) = Append(Segments(x), id)
<1>. PICK n \in Nat : n = Len(x) /\ n # 0 /\ x \in Text
  BY DEF Closed
<1>. PICK z : z = Longer(x, id)
  OBVIOUS
<1>. PICK k \in Nat : k = Len(digits[id])
  BY DigitsType
<1>1. Closed(z) /\ IsPrefix(x, z) /\ z \in Text
  BY LongerIsClosed DEF Closed
<1>2. Len(z) = n + k + 1 /\ z[n + k + 1] = Slash /\ \A i \in 1 .. k : z[n + i] = digits[id][i]
  <2>1. x \in Text
    OBVIOUS
  <2>2. /\ Len(z) = Len(x) + Len(digits[id]) + 1 /\ z[Len(z)] = Slash
        /\ \A i \in 1 .. Len(digits[id]) : z[Len(x) + i] = digits[id][i]
    BY <2>1, LongerPlaces
  <2>. QED
    BY <2>2
<1>. PICK f : Reads(x, f)
  BY SegmentsDef
<1>. PICK g : Reads(z, g)
  BY <1>1, SegmentsDef
<1>. PICK ids \in Seq(Nat) : ids = Segments(x)
  BY SegmentsOfClosed
<1>3. f[n] = Append(ids, 0)
  BY SegmentsOfClosed
<1>4. g[n] = Append(ids, 0)
  <2>1. n \in 0 .. n
    OBVIOUS
  <2>. QED
    BY <1>1, <1>3, <2>1, ReadsPrefix
<1>5. n + k <= Len(z)
  BY <1>2
<1>6. g[n + k] = Append(ids, id)
  <2>1. AtDigits(id, z, g, n, ids)
    BY <1>2, <1>4, <1>5 DEF AtDigits
  <2>2. ReadsDigits(id)
    BY ReadsAnyDigits
  <2>3. g[n + Len(digits[id])] = Append(ids, id)
    BY <1>1, <2>1, <2>2, ReadDigits
  <2>. QED
    BY <2>3
<1>7. Segments(z) \in Seq(Nat) /\ g[n + k + 1] = Append(Segments(z), 0)
  BY <1>1, <1>2, SegmentsOfClosed
<1>8. g[n + k + 1] = Append(Append(ids, id), 0)
  <2>1. n + k \in Nat /\ n + k < Len(z)
    BY <1>2
  <2>2. g[n + k + 1] = Reading(g[n + k], z[n + k + 1])
    BY <1>1, <2>1, ReadStep
  <2>. QED
    BY <1>2, <1>6, <2>2 DEF Reading
<1>. PICK ys \in Seq(Nat) : ys = Append(ids, id)
  BY AppendFront
<1>. PICK zs \in Seq(Nat) : zs = Segments(z)
  BY <1>7
<1>9. Append(zs, 0) = Append(ys, 0)
  BY <1>7, <1>8
<1>10. Front(Append(zs, 0)) = zs /\ Front(Append(ys, 0)) = ys
  BY AppendFront
<1>11. zs = ys
  BY <1>9, <1>10, Zenon
<1>. QED
  BY <1>11

-------------------------------------------------------------------------------
(***************************************************************************)
(* Colleges                                                                *)
(***************************************************************************)
(* The segments of a path are the ids from the root down.                  *)
LEMMA SegmentsOfPath ==
  ASSUME NEW rows, PathsFollow(rows), NEW d \in DOMAIN rows
  PROVE  /\ d \in Nat /\ Segments(rows[d].path) \in Seq(Nat)
         /\ Top(rows, d) => Segments(rows[d].path) = Append(<<>>, d)
         /\ Hangs(rows, d) =>
              /\ Segments(rows[rows[d].parent].path) \in Seq(Nat)
              /\ Segments(rows[d].path) = Append(Segments(rows[rows[d].parent].path), d)
<1>1. d \in Nat
  BY DEF PathsFollow
<1>2. Segments(rows[d].path) \in Seq(Nat)
  BY PathShape, SegmentsOfClosed, SegmentsDef DEF Closed
<1>3. Top(rows, d) => Segments(rows[d].path) = Append(<<>>, d)
  BY <1>1, SlashIsClosed, SegmentsOfSlash, SegmentsOfLonger DEF Top
<1>4. ASSUME Hangs(rows, d)
      PROVE  /\ Segments(rows[rows[d].parent].path) \in Seq(Nat)
             /\ Segments(rows[d].path) = Append(Segments(rows[rows[d].parent].path), d)
  <2>. PICK x : x = rows[rows[d].parent].path
    OBVIOUS
  <2>1. Closed(x) /\ rows[d].path = Longer(x, d)
    BY <1>4, PathShape DEF Hangs
  <2>. QED
    BY <1>1, <2>1, SegmentsOfLonger
<1>. QED
  BY <1>1, <1>2, <1>3, <1>4

(* A department below the root knows its college, and depth 2 means that   *)
(* there is a parent.                                                      *)
LEMMA DepthOfPath ==
  ASSUME NEW rows, PathsFollow(rows), NEW d \in DOMAIN rows
  PROVE  /\ PathDepth(rows[d].path) \in Nat
         /\ Top(rows, d) => PathDepth(rows[d].path) = 1
         /\ Hangs(rows, d) <=> PathDepth(rows[d].path) >= 2
         /\ Hangs(rows, d) =>
              LET up == rows[rows[d].parent].path IN
              /\ Top(rows, rows[d].parent) => AncestorID(rows[d].path, 2) = d
              /\ Hangs(rows, rows[d].parent) =>
                    AncestorID(rows[d].path, 2) = AncestorID(up, 2)
<1>. DEFINE segs(c) == Segments(rows[c].path)
<1>1. ASSUME NEW c \in DOMAIN rows
      PROVE  /\ segs(c) \in Seq(Nat)
             /\ Top(rows, c) => Len(segs(c)) = 1 /\ segs(c)[1] = c
  <2>. <<>> \in Seq(Nat) /\ Len(<<>>) = 0
    OBVIOUS
  <2>1. segs(c) \in Seq(Nat) /\ c \in Nat
    BY SegmentsOfPath
  <2>2. ASSUME Top(rows, c) PROVE segs(c) = Append(<<>>, c)
    BY <2>2, SegmentsOfPath
  <2>3. Len(Append(<<>>, c)) = 1 /\ Append(<<>>, c)[1] = c
    OBVIOUS
  <2>. HIDE DEF segs
  <2>. QED
    BY <2>1, <2>2, <2>3
<1>2. ASSUME NEW c \in DOMAIN rows, Hangs(rows, c)
      PROVE  /\ rows[c].parent \in DOMAIN rows
             /\ Len(segs(c)) = Len(segs(rows[c].parent)) + 1
             /\ segs(c)[Len(segs(c))] = c
             /\ \A i \in 1 .. Len(segs(rows[c].parent)) : segs(c)[i] = segs(rows[c].parent)[i]
  <2>1. rows[c].parent \in DOMAIN rows
    BY <1>2 DEF Hangs
  <2>2. c \in Nat /\ segs(rows[c].parent) \in Seq(Nat) /\ segs(c) = Append(segs(rows[c].parent), c)
    BY <1>2, SegmentsOfPath
  <2>. HIDE DEF segs
  <2>. PICK s \in Seq(Nat) : s = segs(rows[c].parent)
    BY <2>2
  <2>. QED
    BY <2>1, <2>2, AppendFront
<1>. HIDE DEF segs
<1>3. ASSUME NEW c \in DOMAIN rows PROVE Len(segs(c)) \in Nat /\ Len(segs(c)) # 0
  <2>1. Len(segs(c)) \in Nat
    BY <1>1
  <2>2. CASE Top(rows, c)
    BY <1>1, <2>2
  <2>3. CASE Hangs(rows, c)
    <3>1. rows[c].parent \in DOMAIN rows /\ Len(segs(c)) = Len(segs(rows[c].parent)) + 1
      BY <1>2, <2>3
    <3>2. Len(segs(rows[c].parent)) \in Nat
      BY <1>1, <3>1
    <3>. QED
      BY <2>1, <3>1, <3>2
  <2>. QED
    BY <2>2, <2>3 DEF PathsFollow
<1>4. PathDepth(rows[d].path) = Len(segs(d))
  BY DEF PathDepth, segs
<1>5. Top(rows, d) => Len(segs(d)) = 1
  BY <1>1
<1>6. Hangs(rows, d) <=> Len(segs(d)) >= 2
  <2>1. ASSUME Hangs(rows, d) PROVE Len(segs(d)) >= 2
    BY <1>2, <1>3, <2>1
  <2>2. Top(rows, d) \/ Hangs(rows, d)
    BY DEF PathsFollow
  <2>3. ASSUME Top(rows, d) PROVE ~(Len(segs(d)) >= 2)
    <3>. PICK n : n = Len(segs(d))
      OBVIOUS
    <3>1. n = 1
      BY <1>5, <2>3
    <3>2. ~(n >= 2)
      BY <3>1
    <3>. QED
      BY <3>2
  <2>. QED
    BY <2>1, <2>2, <2>3
<1>7. ASSUME Hangs(rows, d), Top(rows, rows[d].parent)
      PROVE  AncestorID(rows[d].path, 2) = d
  <2>1. Len(segs(rows[d].parent)) = 1
    BY <1>1, <1>2, <1>7
  <2>2. Len(segs(d)) = 2 /\ segs(d)[Len(segs(d))] = d
    <3>1. Len(segs(d)) = Len(segs(rows[d].parent)) + 1 /\ segs(d)[Len(segs(d))] = d
      BY <1>2, <1>7
    <3>. QED
      BY <2>1, <3>1
  <2>. QED
    BY <2>2 DEF AncestorID, segs
<1>8. ASSUME Hangs(rows, d), Hangs(rows, rows[d].parent)
      PROVE  AncestorID(rows[d].path, 2) = AncestorID(rows[rows[d].parent].path, 2)
  <2>. PICK p \in DOMAIN rows : p = rows[d].parent
    BY <1>8 DEF Hangs
  <2>1. Len(segs(p)) \in Nat /\ Len(segs(p)) >= 2
    <3>1. Len(segs(p)) = Len(segs(rows[p].parent)) + 1 /\ rows[p].parent \in DOMAIN rows
      BY <1>2, <1>8
    <3>2. Len(segs(rows[p].parent)) \in Nat /\ Len(segs(rows[p].parent)) # 0
      BY <1>3, <3>1
    <3>. QED
      BY <3>1, <3>2
  <2>2. segs(d)[2] = segs(p)[2]
    BY <1>2, <1>8, <2>1
  <2>. QED
    BY <2>2 DEF AncestorID, segs
<1>. QED
  BY <1>3, <1>4, <1>5, <1>6, <1>7, <1>8

College(rows, d) == AncestorID(rows[d].path, 2)

(* The college of a department is a department of depth 2 it stands below. *)
LEMMA CollegeIsAbove ==
  ASSUME NEW rows, PathsFollow(rows)
  PROVE  \A d \in DOMAIN rows : Hangs(rows, d) =>
            /\ College(rows, d) \in DOMAIN rows
            /\ Hangs(rows, College(rows, d)) /\ Top(rows, rows[College(rows, d)].parent)
            /\ d \in SubtreeIDs(rows, College(rows, d))
<1>. DEFINE Above(d) == /\ College(rows, d) \in DOMAIN rows
                        /\ Hangs(rows, College(rows, d)) /\ Top(rows, rows[College(rows, d)].parent)
                        /\ d \in SubtreeIDs(rows, College(rows, d))
            R == {d \in DOMAIN rows : Hangs(rows, d) => Above(d)}
<1>1. ASSUME NEW d \in DOMAIN rows, Hangs(rows, d) => rows[d].parent \in R, Hangs(rows, d)
      PROVE  Above(d)
  <2>. PICK p \in DOMAIN rows : p = rows[d].parent
    BY <1>1 DEF Hangs
  <2>1. CASE Top(rows, p)
    <3>1. College(rows, d) = d
      BY <1>1, <2>1, DepthOfPath DEF College
    <3>2. d \in SubtreeIDs(rows, d)
      BY SubtreeStep
    <3>. QED
      BY <1>1, <2>1, <3>1, <3>2
  <2>2. CASE Hangs(rows, p)
    <3>1. College(rows, d) = College(rows, p)
      BY <1>1, <2>2, DepthOfPath DEF College
    <3>2. Above(p)
      BY <1>1, <2>2
    <3>3. d \in SubtreeIDs(rows, College(rows, p))
      BY <1>1, <3>2, SubtreeStep
    <3>. QED
      BY <3>1, <3>2, <3>3
  <2>. QED
    BY <2>1, <2>2 DEF PathsFollow
<1>2. \A d \in DOMAIN rows : (Hangs(rows, d) => rows[d].parent \in R) => d \in R
  BY <1>1
<1>3. DOMAIN rows \subseteq R
  <2>. HIDE DEF R
  <2>. QED
    BY <1>2, DownTheTree
<1>. QED
  BY <1>3

(* What stands below a department of depth 2 has it for its college.       *)
LEMMA CollegeIsShared ==
  ASSUME NEW rows, PathsFollow(rows), NEW c \in DOMAIN rows, Hangs(rows, c),
         Top(rows, rows[c].parent)
  PROVE  \A e \in SubtreeIDs(rows, c) : e \in DOMAIN rows /\ Hangs(rows, e) /\ College(rows, e) = c
<1>. DEFINE R == {e \in DOMAIN rows :
                    e \in SubtreeIDs(rows, c) => Hangs(rows, e) /\ College(rows, e) = c}
<1>1. ASSUME NEW e \in DOMAIN rows, Hangs(rows, e) => rows[e].parent \in R,
             e \in SubtreeIDs(rows, c)
      PROVE  Hangs(rows, e) /\ College(rows, e) = c
  <2>1. CASE e = c
    BY <2>1, DepthOfPath DEF College
  <2>2. CASE e # c
    <3>1. Hangs(rows, e) /\ rows[e].parent \in SubtreeIDs(rows, c)
      BY <1>1, <2>2, SubtreeStep
    <3>2. Hangs(rows, rows[e].parent) /\ College(rows, rows[e].parent) = c
      BY <1>1, <3>1
    <3>3. College(rows, e) = College(rows, rows[e].parent)
      BY <3>1, <3>2, DepthOfPath DEF College
    <3>. QED
      BY <3>1, <3>2, <3>3
  <2>. QED
    BY <2>1, <2>2
<1>2. \A e \in DOMAIN rows : (Hangs(rows, e) => rows[e].parent \in R) => e \in R
  BY <1>1
<1>3. DOMAIN rows \subseteq R
  <2>. HIDE DEF R
  <2>. QED
    BY <1>2, DownTheTree
<1>. QED
  BY <1>3 DEF SubtreeIDs

LEMMA CollegeSubtree ==
  ASSUME NEW rows, PathsFollow(rows), NEW d \in DOMAIN rows
  PROVE  CollegeSubtreeIDs(rows, d) =
           {e \in DOMAIN rows : /\ Hangs(rows, d) /\ Hangs(rows, e)
                                /\ College(rows, e) = College(rows, d)}
<1>1. CASE ~Hangs(rows, d)
  BY <1>1, DepthOfPath DEF CollegeSubtreeIDs
<1>2. CASE Hangs(rows, d)
  <2>. PICK c \in DOMAIN rows : c = College(rows, d)
    BY <1>2, CollegeIsAbove
  <2>1. CollegeSubtreeIDs(rows, d) = SubtreeIDs(rows, c)
    BY <1>2, DepthOfPath DEF CollegeSubtreeIDs, College
  <2>2. Hangs(rows, c) /\ Top(rows, rows[c].parent)
    BY <1>2, CollegeIsAbove
  <2>3. \A e \in SubtreeIDs(rows, c) : e \in DOMAIN rows /\ Hangs(rows, e) /\ College(rows, e) = c
    BY <2>2, CollegeIsShared
  <2>4. \A e \in DOMAIN rows : Hangs(rows, e) /\ College(rows, e) = c => e \in SubtreeIDs(rows, c)
    BY CollegeIsAbove
  <2>. QED
    BY <1>2, <2>1, <2>3, <2>4
<1>. QED
  BY <1>1, <1>2

-------------------------------------------------------------------------------
(***************************************************************************)
(* The tree the API answers with                                           *)
(***************************************************************************)
(* The rounds in which Shown walks down a tree.                            *)
Rounds(tree, below) ==
    /\ below[0] = tree.roots
    /\ \A k \in Nat : below[k + 1] = below[k] \cup {e[2] : e \in {x \in tree.edges : x[1] \in below[k]}}

LEMMA ShownDef ==
  ASSUME NEW tree, NEW V, tree.roots \subseteq V, \A e \in tree.edges : e[2] \in V
  PROVE  \E below : Rounds(tree, below) /\ Shown(tree) = below[Cardinality(tree.edges)]
<1>. DEFINE T == SUBSET V
            m == [k \in Nat |-> k]
            More(above) == above \cup {e[2] : e \in {x \in tree.edges : x[1] \in above}}
            Value(k, f) == IF k = 0 THEN tree.roots ELSE More(f[k - 1])
            step == [p \in Nat \X [Nat -> T] |-> Value(p[1], p[2])]
            Eqn(f) == f = [k \in Nat |-> Value(k, f)]
<1>1. m \in [Nat -> Nat] /\ \A k \in Nat : m[k] = k
  OBVIOUS
<1>2. \A k \in Nat : \A f \in [Nat -> T] : step[<<k, f>>] = Value(k, f)
  OBVIOUS
<1>3. \A S \in T : More(S) \in T
  OBVIOUS
<1>4. ASSUME NEW k \in Nat, NEW f \in [Nat -> T] PROVE Value(k, f) \in T
  <2>1. k # 0 => f[k - 1] \in T
    <3>1. k # 0 => k - 1 \in Nat
      OBVIOUS
    <3>. HIDE DEF T
    <3>. QED
      BY <3>1
  <2>. HIDE DEF More
  <2>. QED
    BY <1>3, <2>1
<1>5. step \in [Nat \X [Nat -> T] -> T]
  <2>. HIDE DEF T, Value
  <2>. QED
    BY <1>4
<1>6. ASSUME NEW k \in Nat, NEW f \in [Nat -> T], NEW g \in [Nat -> T],
             \A i \in Nat : m[i] < m[k] => f[i] = g[i]
      PROVE  step[<<k, f>>] = step[<<k, g>>]
  <2>1. k # 0 => f[k - 1] = g[k - 1]
    <3>1. k # 0 => (k - 1 \in Nat /\ k - 1 < k)
      OBVIOUS
    <3>. HIDE DEF m
    <3>. QED
      BY <1>1, <1>6, <3>1
  <2>2. Value(k, f) = Value(k, g)
    <3>. HIDE DEF More
    <3>. QED
      BY <2>1
  <2>. HIDE DEF step, Value, T
  <2>. QED
    BY <1>2, <2>2
<1>7. Recursion(Nat, T, m, step)
  <2>1. {} \in T
    OBVIOUS
  <2>. HIDE DEF T, m, step
  <2>. QED
    BY <1>1, <1>5, <1>6, <2>1 DEF Recursion
<1>. PICK f : Solves(Nat, T, step, f)
  <2>. HIDE DEF T, step, m
  <2>. QED
    BY <1>7, RecursionIsDefined, Zenon
<1>8. Eqn(f)
  <2>1. f \in [Nat -> T] /\ \A k \in Nat : f[k] = Value(k, f)
    <3>. HIDE DEF step, T, Value
    <3>. QED
      BY <1>2 DEF Solves
  <2>. HIDE DEF Value, T
  <2>. QED
    BY <2>1
<1>. DEFINE below == CHOOSE g : Eqn(g)
<1>9. Eqn(below)
  <2>. HIDE DEF Eqn
  <2>. QED
    BY <1>8, Zenon
<1>10. Shown(tree) = below[Cardinality(tree.edges)]
  BY Zenon DEF Shown
<1>. HIDE DEF below
<1>11. \A k \in Nat : below[k] = Value(k, below)
  <2>. HIDE DEF Value
  <2>. QED
    BY <1>9
<1>12. below[0] = tree.roots
  BY <1>11
<1>13. ASSUME NEW k \in Nat PROVE below[k + 1] = More(below[k])
  <2>1. k + 1 \in Nat /\ k + 1 # 0 /\ (k + 1) - 1 = k
    OBVIOUS
  <2>2. below[k + 1] = Value(k + 1, below)
    <3>. HIDE DEF Value
    <3>. QED
      BY <1>11, <2>1
  <2>. HIDE DEF More
  <2>. QED
    BY <2>1, <2>2
<1>. QED
  BY <1>10, <1>12, <1>13 DEF Rounds

LEMMA RoundsGrow ==
  ASSUME NEW tree, NEW below, Rounds(tree, below), NEW k \in Nat
  PROVE  /\ below[k] \subseteq below[k + 1]
         /\ \A e \in tree.edges : e[1] \in below[k] => e[2] \in below[k + 1]
         /\ \A v \in below[k + 1] \ below[k] :
               \E e \in tree.edges : e[1] \in below[k] /\ e[2] = v
BY DEF Rounds

(* Once a round finds nothing, no later one does.                          *)
LEMMA RoundsStop ==
  ASSUME NEW tree, NEW below, Rounds(tree, below), NEW k \in Nat, below[k + 1] = below[k]
  PROVE  \A i \in Nat : below[k + i] = below[k]
<1>. DEFINE R == {i \in Nat : below[k + i] = below[k]}
<1>1. ASSUME NEW i \in Nat, \A j \in Nat : j < i => j \in R
      PROVE  i \in R
  <2>1. CASE i = 0
    BY <2>1
  <2>2. CASE i # 0
    <3>. PICK j \in Nat : i = j + 1
      <4>1. i - 1 \in Nat /\ i = (i - 1) + 1
        BY <2>2
      <4>. QED
        BY <4>1
    <3>1. below[k + j] = below[k]
      BY <1>1
    <3>. PICK n \in Nat : n = k + j /\ k + i = n + 1
      OBVIOUS
    <3>2. below[n + 1] = below[k + 1]
      BY <3>1 DEF Rounds
    <3>. QED
      BY <3>2
  <2>. QED
    BY <2>1, <2>2
<1>2. Nat \subseteq R
  <2>. HIDE DEF R
  <2>. QED
    BY <1>1, ByNumber
<1>. QED
  BY <1>2

(* A round that finds something uses an edge that was not used before, so  *)
(* that there are at most as many such rounds as edges.                    *)
LEMMA RoundsUseEdges ==
  ASSUME NEW tree, IsFiniteSet(tree.edges), NEW below, Rounds(tree, below), NEW n \in Nat,
         \A i \in Nat : i < n => below[i + 1] # below[i]
  PROVE  n <= Cardinality(tree.edges)
<1>. DEFINE Used(k) == {e \in tree.edges : e[2] \in below[k]}
            R == {k \in Nat : k <= n => k <= Cardinality(Used(k))}
<1>1. \A k \in Nat : IsFiniteSet(Used(k)) /\ Cardinality(Used(k)) \in Nat
                     /\ Cardinality(Used(k)) <= Cardinality(tree.edges)
                     /\ Cardinality(tree.edges) \in Nat
  <2>1. \A k \in Nat : Used(k) \subseteq tree.edges
    OBVIOUS
  <2>. HIDE DEF Used
  <2>. QED
    BY <2>1, FS_Subset, FS_CardinalityType
<1>2. ASSUME NEW k \in Nat, \A j \in Nat : j < k => j \in R
      PROVE  k \in R
  <2>1. CASE k = 0
    <3>1. 0 <= Cardinality(Used(0))
      BY <1>1
    <3>. QED
      BY <2>1, <3>1
  <2>2. CASE k # 0
    <3>. SUFFICES ASSUME k <= n PROVE k <= Cardinality(Used(k))
      OBVIOUS
    <3>. PICK j \in Nat : k = j + 1
      <4>1. k - 1 \in Nat /\ k = (k - 1) + 1
        BY <2>2
      <4>. QED
        BY <4>1
    <3>1. j < k /\ j < n /\ j <= n
      OBVIOUS
    <3>2. j <= Cardinality(Used(j))
      <4>. HIDE DEF Used
      <4>. QED
        BY <1>2, <3>1
    <3>. PICK v : v \in below[k] /\ v \notin below[j]
      <4>1. below[j + 1] # below[j]
        BY <3>1
      <4>2. below[j] \subseteq below[j + 1]
        BY RoundsGrow
      <4>. QED
        BY <4>1, <4>2
    <3>3. PICK e \in tree.edges : e[2] = v
      <4>1. \A w \in below[j + 1] \ below[j] : \E e \in tree.edges : e[1] \in below[j] /\ e[2] = w
        BY RoundsGrow
      <4>. QED
        BY <4>1
    <3>4. Used(j) \subseteq Used(k) /\ e \in Used(k) /\ e \notin Used(j)
      BY <3>3, RoundsGrow
    <3>5. Cardinality(Used(j)) < Cardinality(Used(k))
      <4>1. Used(j) # Used(k)
        BY <3>4
      <4>. HIDE DEF Used
      <4>2. IsFiniteSet(Used(k))
        BY <1>1
      <4>3. Cardinality(Used(j)) <= Cardinality(Used(k))
            /\ (Cardinality(Used(j)) = Cardinality(Used(k)) => Used(j) = Used(k))
        BY <3>4, <4>2, FS_Subset
      <4>. QED
        BY <1>1, <4>1, <4>3
    <3>. PICK a \in Nat : a = Cardinality(Used(j))
      BY <1>1
    <3>. PICK b \in Nat : b = Cardinality(Used(k))
      BY <1>1
    <3>6. j <= a /\ a < b
      BY <3>2, <3>5
    <3>7. k <= b
      BY <3>6
    <3>. QED
      BY <3>7
  <2>. QED
    BY <2>1, <2>2
<1>3. n \in R
  <2>. HIDE DEF R
  <2>. QED
    BY <1>2, ByNumber
<1>4. n <= Cardinality(Used(n))
  BY <1>3
<1>. HIDE DEF Used
<1>. QED
  BY <1>1, <1>4

(* What is shown: the roots, with every node below a node that is shown,   *)
(* and nothing outside the tree.                                           *)
LEMMA ShownIsClosed ==
  ASSUME NEW tree, NEW V, tree.roots \subseteq V, \A e \in tree.edges : e[2] \in V,
         IsFiniteSet(tree.edges)
  PROVE  /\ tree.roots \subseteq Shown(tree)
         /\ \A e \in tree.edges : e[1] \in Shown(tree) => e[2] \in Shown(tree)
         /\ Shown(tree) \subseteq V
<1>. PICK below : Rounds(tree, below) /\ Shown(tree) = below[Cardinality(tree.edges)]
  BY ShownDef
<1>. PICK n \in Nat : n = Cardinality(tree.edges)
  BY FS_CardinalityType
<1>. DEFINE R == {k \in Nat : tree.roots \subseteq below[k] /\ below[k] \subseteq V}
<1>1. ASSUME NEW k \in Nat, \A j \in Nat : j < k => j \in R
      PROVE  k \in R
  <2>1. CASE k = 0
    BY <2>1 DEF Rounds
  <2>2. CASE k # 0
    <3>. PICK j \in Nat : k = j + 1
      <4>1. k - 1 \in Nat /\ k = (k - 1) + 1
        BY <2>2
      <4>. QED
        BY <4>1
    <3>1. j \in R
      BY <1>1
    <3>2. /\ below[j] \subseteq below[j + 1]
          /\ \A v \in below[j + 1] \ below[j] : \E e \in tree.edges : e[1] \in below[j] /\ e[2] = v
      BY RoundsGrow
    <3>3. below[j + 1] \subseteq V
      BY <3>1, <3>2
    <3>. QED
      BY <3>1, <3>2, <3>3
  <2>. QED
    BY <2>1, <2>2
<1>2. n \in R
  <2>. HIDE DEF R
  <2>. QED
    BY <1>1, ByNumber
<1>3. below[n + 1] = below[n]
  <2>1. PICK i \in Nat : i <= n /\ below[i + 1] = below[i]
    <3>1. SUFFICES ASSUME \A i \in Nat : i < n + 1 => below[i + 1] # below[i] PROVE FALSE
      OBVIOUS
    <3>2. n + 1 \in Nat /\ ~(n + 1 <= n)
      OBVIOUS
    <3>. QED
      BY <3>1, <3>2, RoundsUseEdges
  <2>2. n - i \in Nat /\ n = i + (n - i) /\ (n - i) + 1 \in Nat /\ n + 1 = i + ((n - i) + 1)
    BY <2>1
  <2>3. \A j \in Nat : below[i + j] = below[i]
    BY <2>1, RoundsStop
  <2>4. below[n] = below[i] /\ below[n + 1] = below[i]
    BY <2>2, <2>3
  <2>. QED
    BY <2>4
<1>. QED
  BY <1>2, <1>3, RoundsGrow


(* The whole tree, drawn from the root, loses nobody. *)
LEMMA TreeShowsAll ==
  ASSUME NEW rows, PathsFollow(rows), IsFiniteSet(DOMAIN rows), NEW dept
  PROVE  DeptTree(rows, 1, dept) = DOMAIN rows
<1>. PICK V : V = DOMAIN rows
  OBVIOUS
<1>. DEFINE tree == ToTree(rows, V, 0)
<1>1. /\ tree.roots = {d \in V : rows[d].parent = 0}
      /\ tree.edges = {e \in V \X V : rows[e[2]].parent = e[1] /\ e[1] # 0}
  BY DEF ToTree
<1>2. DeptTree(rows, 1, dept) = Shown(tree)
  BY DEF DeptTree
<1>. HIDE DEF tree
<1>3. IsFiniteSet(tree.edges)
  <2>1. IsFiniteSet(V \X V)
    BY FS_Product
  <2>2. tree.edges \subseteq V \X V
    BY <1>1
  <2>. QED
    BY <2>1, <2>2, FS_Subset
<1>4. /\ tree.roots \subseteq Shown(tree)
      /\ \A e \in tree.edges : e[1] \in Shown(tree) => e[2] \in Shown(tree)
      /\ Shown(tree) \subseteq DOMAIN rows
  <2>1. tree.roots \subseteq DOMAIN rows /\ \A e \in tree.edges : e[2] \in DOMAIN rows
    BY <1>1
  <2>. QED
    BY <1>3, <2>1, ShownIsClosed
<1>5. ASSUME NEW d \in DOMAIN rows, Hangs(rows, d) => rows[d].parent \in Shown(tree)
      PROVE  d \in Shown(tree)
  <2>1. CASE rows[d].parent = 0
    BY <1>1, <1>4, <2>1
  <2>2. CASE rows[d].parent # 0
    <3>1. Hangs(rows, d) /\ rows[d].parent \in DOMAIN rows
      BY <2>2 DEF PathsFollow, Top, Hangs
    <3>2. <<rows[d].parent, d>> \in tree.edges
      BY <1>1, <2>2, <3>1
    <3>. QED
      BY <1>4, <1>5, <3>1, <3>2
  <2>. QED
    BY <2>1, <2>2
<1>6. DOMAIN rows \subseteq Shown(tree)
  BY <1>5, DownTheTree
<1>. QED
  BY <1>2, <1>4, <1>6

(* Nor does the tree of a department, drawn from the subtree found by text. *)
LEMMA TreeShowsSubtree ==
  ASSUME NEW rows, PathsFollow(rows), IsFiniteSet(DOMAIN rows), NEW r \in DOMAIN rows
  PROVE  DeptTree(rows, 2, r) = SubtreeIDs(rows, r)
<1>. DEFINE ids == SubtreeIDs(rows, r)
            tree == ToTree(rows, ids, r)
            R == {d \in DOMAIN rows : d \in ids => d \in {r} \cup Shown(tree)}
<1>1. /\ tree.roots = {d \in ids : rows[d].parent = r}
      /\ tree.edges = {e \in ids \X ids : rows[e[2]].parent = e[1] /\ e[1] # r}
  BY DEF ToTree
<1>2. ids \subseteq DOMAIN rows /\ r \in ids
  BY SubtreeStep DEF SubtreeIDs
<1>3. \A d \in DOMAIN rows : d \in ids <=> (d = r \/ (Hangs(rows, d) /\ rows[d].parent \in ids))
  BY SubtreeStep
<1>4. DeptTree(rows, 2, r) = {r} \cup Shown(tree)
  <2>. HIDE DEF tree, ids
  <2>1. 2 # 1
    OBVIOUS
  <2>. QED
    BY <1>2, <2>1 DEF DeptTree, tree, ids
<1>. HIDE DEF tree, ids
<1>5. IsFiniteSet(tree.edges)
  <2>1. IsFiniteSet(ids)
    BY <1>2, FS_Subset
  <2>2. IsFiniteSet(ids \X ids)
    BY <2>1, FS_Product
  <2>3. tree.edges \subseteq ids \X ids
    BY <1>1
  <2>. QED
    BY <2>2, <2>3, FS_Subset
<1>6. /\ tree.roots \subseteq Shown(tree)
      /\ \A e \in tree.edges : e[1] \in Shown(tree) => e[2] \in Shown(tree)
      /\ Shown(tree) \subseteq ids
  <2>1. tree.roots \subseteq ids /\ \A e \in tree.edges : e[2] \in ids
    BY <1>1
  <2>. QED
    BY <1>5, <2>1, ShownIsClosed
<1>7. ASSUME NEW d \in DOMAIN rows, Hangs(rows, d) => rows[d].parent \in R, d \in ids, d # r
      PROVE  d \in Shown(tree)
  <2>1. Hangs(rows, d) /\ rows[d].parent \in ids
    BY <1>3, <1>7
  <2>2. CASE rows[d].parent = r
    BY <1>1, <1>6, <1>7, <2>2
  <2>3. CASE rows[d].parent # r
    <3>1. <<rows[d].parent, d>> \in tree.edges
      BY <1>1, <1>7, <2>1, <2>3
    <3>2. rows[d].parent \in Shown(tree)
      BY <1>7, <2>1, <2>3
    <3>. QED
      BY <1>6, <3>1, <3>2
  <2>. QED
    BY <2>2, <2>3
<1>8. \A d \in DOMAIN rows : (Hangs(rows, d) => rows[d].parent \in R) => d \in R
  BY <1>7
<1>9. DOMAIN rows \subseteq R
  <2>. HIDE DEF R
  <2>. QED
    BY <1>8, DownTheTree
<1>. QED
  BY <1>2, <1>4, <1>6, <1>9 DEF ids

(* The colleges divide what lies below the roots. *)
LEMMA CollegesDivide ==
  ASSUME NEW rows, PathsFollow(rows)
  PROVE  LET views == {CollegeSubtreeIDs(rows, d) : d \in DOMAIN rows}
         IN  /\ \A v, w \in views : v = w \/ v \cap w = {}
             /\ UNION views = {d \in DOMAIN rows : PathDepth(rows[d].path) >= 2}
<1>. DEFINE View(d) == CollegeSubtreeIDs(rows, d)
<1>1. \A d \in DOMAIN rows :
        View(d) = {e \in DOMAIN rows : /\ Hangs(rows, d) /\ Hangs(rows, e)
                                       /\ College(rows, e) = College(rows, d)}
  BY CollegeSubtree
<1>2. \A d \in DOMAIN rows : Hangs(rows, d) <=> PathDepth(rows[d].path) >= 2
  BY DepthOfPath
<1>. HIDE DEF View
<1>3. \A d, e \in DOMAIN rows : View(d) = View(e) \/ View(d) \cap View(e) = {}
  BY <1>1
<1>4. UNION {View(d) : d \in DOMAIN rows} = {d \in DOMAIN rows : Hangs(rows, d)}
  BY <1>1
<1>5. {d \in DOMAIN rows : Hangs(rows, d)} = {d \in DOMAIN rows : PathDepth(rows[d].path) >= 2}
  BY <1>2
<1>. QED
  BY <1>3, <1>4, <1>5 DEF View

-------------------------------------------------------------------------------
(***************************************************************************)
(* Paths as BuildPath makes them                                           *)
(***************************************************************************)
LEMMA MaxIsGreatest ==
  ASSUME NEW S, S \subseteq Nat, NEW x, Greatest(S, x)
  PROVE  Max(S) = x
<1>1. x \in S /\ \A y \in S : x >= y
  BY DEF Greatest
<1>2. ASSUME NEW z \in S, \A y \in S : z >= y PROVE z = x
  <2>1. z \in Nat /\ x \in Nat /\ z >= x /\ x >= z
    BY <1>1, <1>2
  <2>. QED
    BY <2>1
<1>. PICK z : z = Max(S)
  OBVIOUS
<1>3. z \in S /\ \A y \in S : z >= y
  BY <1>1 DEF Max
<1>. QED
  BY <1>2, <1>3

(* What TrimRight takes from a path ends in a digit. *)
LEMMA TrimRightType ==
  ASSUME NEW x \in Text
  PROVE  TrimRight(x) \in Text
<1>. PICK n \in Nat : n = Len(x)
  BY DEF Text
<1>. DEFINE kept == {i \in 1 .. Len(x) : x[i] # Slash}
<1>1. CASE kept = {}
  <2>1. TrimRight(x) = <<>>
    BY <1>1 DEF TrimRight
  <2>. QED
    BY <2>1 DEF Text
<1>2. CASE kept # {}
  <2>1. TrimRight(x) = SubSeq(x, 1, Max(kept))
    BY <1>2 DEF TrimRight
  <2>2. kept \subseteq 1 .. n /\ kept \subseteq Nat
    OBVIOUS
  <2>. HIDE DEF kept
  <2>3. IsFiniteSet(kept)
    <3>1. IsFiniteSet(1 .. n)
      BY FS_Interval
    <3>. QED
      BY <2>2, <3>1, FS_Subset
  <2>. PICK k \in kept : Greatest(kept, k)
    BY <1>2, <2>2, <2>3, FiniteHasGreatest
  <2>4. Max(kept) = k /\ k \in 1 .. n
    BY <2>2, MaxIsGreatest
  <2>5. SubSeq(x, 1, k) \in Text
    BY <2>4 DEF Text
  <2>. QED
    BY <2>1, <2>4, <2>5
<1>. QED
  BY <1>1, <1>2

LEMMA SlashPutBack ==
  ASSUME NEW z \in Text, NEW l \in Nat, Len(z) = l + 1, z[l + 1] = Slash
  PROVE  SubSeq(z, 1, l) \o <<Slash>> = z
<1>. PICK a : a = SubSeq(z, 1, l)
  OBVIOUS
<1>1. a \in Text /\ Len(a) = l /\ \A i \in 1 .. l : a[i] = z[i]
  BY DEF Text
<1>2. <<Slash>> \in Text /\ Len(<<Slash>>) = 1 /\ <<Slash>>[1] = Slash
  BY DEF Text, Slash
<1>. PICK e \in Text : e = <<Slash>> /\ Len(e) = 1 /\ e[1] = Slash
  BY <1>2
<1>. PICK b : b = a \o e
  OBVIOUS
<1>3. /\ b \in Text /\ Len(b) = l + 1 /\ b[l + 1] = Slash
      /\ \A i \in 1 .. l : b[i] = z[i]
  <2>1. b \in Text /\ Len(b) = Len(a) + Len(e)
    BY <1>1 DEF Text
  <2>2. \A i \in 1 .. Len(a) : b[i] = a[i]
    BY <1>1 DEF Text
  <2>3. b[Len(a) + 1] = e[1]
    BY <1>1 DEF Text
  <2>. QED
    BY <1>1, <2>1, <2>2, <2>3
<1>4. \A i \in 1 .. Len(b) : b[i] = z[i]
  <2>. SUFFICES ASSUME NEW i \in 1 .. l + 1 PROVE b[i] = z[i]
    BY <1>3
  <2>1. i \in 1 .. l \/ i = l + 1
    OBVIOUS
  <2>. QED
    BY <1>3, <2>1
<1>. QED
  BY <1>3, <1>4, SamePlaces

LEMMA TrimRightOfLonger ==
  ASSUME NEW x \in Text, NEW id \in Nat
  PROVE  TrimRight(Longer(x, id)) \o <<Slash>> = Longer(x, id)
<1>. PICK z : z = Longer(x, id)
  OBVIOUS
<1>0. z \in Text
  BY LongerPlaces
<1>. PICK n \in Nat : n = Len(x)
  BY DEF Text
<1>. PICK k \in Nat : k = Len(digits[id]) /\ k # 0
  BY DigitsType
<1>. PICK l \in Nat : l = n + k /\ l # 0
  OBVIOUS
<1>1. Len(z) = l + 1 /\ z[l + 1] = Slash
  <2>1. Len(z) = Len(x) + Len(digits[id]) + 1 /\ z[Len(z)] = Slash
    BY LongerPlaces
  <2>. QED
    BY <2>1
<1>2. z[l] # Slash
  <2>1. k \in 1 .. Len(digits[id])
    OBVIOUS
  <2>2. z[n + k] = digits[id][k]
    BY <2>1, LongerPlaces
  <2>3. digits[id][k] # Slash
    BY <2>1, DigitIsNoSlash
  <2>. QED
    BY <2>2, <2>3
<1>. DEFINE kept == {i \in 1 .. Len(z) : z[i] # Slash}
<1>3. kept \subseteq 1 .. l /\ l \in kept /\ kept \subseteq Nat
  BY <1>1, <1>2
<1>4. TrimRight(z) = SubSeq(z, 1, Max(kept))
  BY <1>3 DEF TrimRight
<1>. HIDE DEF kept
<1>5. Max(kept) = l
  <2>1. Greatest(kept, l)
    BY <1>3 DEF Greatest
  <2>. QED
    BY <1>3, <2>1, MaxIsGreatest
<1>6. SubSeq(z, 1, l) \o <<Slash>> = z
  BY <1>0, <1>1, SlashPutBack
<1>. QED
  BY <1>4, <1>5, <1>6

(* The path of a root, and the path of a department below another. *)
LEMMA BuildPathOfRoot ==
  ASSUME NEW id \in Nat
  PROVE  BuildPath(<<>>, id) = Longer(<<Slash>>, id)
<1>1. TrimRight(<<>>) = <<>>
  <2>1. {i \in 1 .. Len(<<>>) : <<>>[i] # Slash} = {}
    OBVIOUS
  <2>. QED
    BY <2>1 DEF TrimRight
<1>2. <<>> \o <<Slash>> = <<Slash>>
  BY DEF Slash
<1>. QED
  BY <1>1, <1>2 DEF BuildPath, Longer

LEMMA BuildPathBelow ==
  ASSUME NEW x \in Text, NEW a \in Nat, NEW id \in Nat
  PROVE  BuildPath(Longer(x, a), id) = Longer(Longer(x, a), id)
<1>. PICK z : z = Longer(x, a)
  OBVIOUS
<1>1. TrimRight(z) \o <<Slash>> = z
  BY TrimRightOfLonger
<1>2. BuildPath(z, id) = TrimRight(z) \o <<Slash>> \o digits[id] \o <<Slash>>
  BY DEF BuildPath
<1>3. Longer(z, id) = z \o digits[id] \o <<Slash>>
  BY DEF Longer
<1>. QED
  BY <1>1, <1>2, <1>3

LEMMA BuildPathShape ==
  ASSUME NEW x \in Text, NEW id \in Nat
  PROVE  \E y \in Text : BuildPath(x, id) = Longer(y, id)
<1>. PICK t \in Text : t = TrimRight(x)
  BY TrimRightType
<1>1. <<Slash>> \in Text
  BY DEF Text, Slash
<1>2. t \o <<Slash>> \in Text
  BY <1>1 DEF Text
<1>3. BuildPath(x, id) = Longer(t \o <<Slash>>, id)
  BY DEF BuildPath, Longer
<1>. QED
  BY <1>2, <1>3

(* The path from the root down to a department, as the start of the        *)
(* specification folds it.                                                 *)
Folds(s, p) ==
    /\ p[0] = <<>>
    /\ \A i \in 1 .. Len(s) : p[i] = BuildPath(p[i - 1], s[i])
    /\ FoldLeft(BuildPath, <<>>, s) = p[Len(s)]

LEMMA FoldedPath ==
  ASSUME NEW s \in Seq(Nat)
  PROVE  \E p : Folds(s, p) /\ \A i \in 0 .. Len(s) : p[i] \in Text
<1>. PICK n \in Nat : n = Len(s)
  OBVIOUS
<1>. DEFINE S == SUBSET DOMAIN s
            m == [t \in S |-> Cardinality(t)]
            Value(t, f) == IF t = {} THEN <<>> ELSE BuildPath(f[t \ {Max(t)}], s[Max(t)])
            step == [p \in S \X [S -> Text] |-> Value(p[1], p[2])]
            Eqn(f) == f = [t \in SUBSET DOMAIN s |->
                             IF t = {} THEN <<>> ELSE BuildPath(f[t \ {Max(t)}], s[Max(t)])]
<1>1. \A t \in S : t \subseteq 1 .. n /\ t \subseteq Nat /\ IsFiniteSet(t) /\ Cardinality(t) \in Nat
  <2>1. IsFiniteSet(1 .. n) /\ DOMAIN s = 1 .. n
    BY FS_Interval
  <2>. QED
    BY <2>1, FS_Subset, FS_CardinalityType
<1>2. m \in [S -> Nat] /\ \A t \in S : m[t] = Cardinality(t)
  BY <1>1
<1>3. ASSUME NEW t \in S, t # {}
      PROVE  /\ Max(t) \in t /\ s[Max(t)] \in Nat /\ t \ {Max(t)} \in S
             /\ m[t \ {Max(t)}] < m[t]
  <2>. PICK x \in t : Greatest(t, x)
    BY <1>1, <1>3, FiniteHasGreatest
  <2>1. Max(t) = x /\ x \in 1 .. n
    BY <1>1, MaxIsGreatest
  <2>2. Cardinality(t \ {x}) = Cardinality(t) - 1 /\ Cardinality(t) \in Nat
    BY <1>1, FS_RemoveElement
  <2>3. t \ {x} \in S
    OBVIOUS
  <2>. HIDE DEF m, S
  <2>4. m[t \ {x}] < m[t]
    BY <1>2, <2>2, <2>3
  <2>. QED
    BY <2>1, <2>3, <2>4
<1>4. ASSUME NEW x \in Text, NEW id \in Nat PROVE BuildPath(x, id) \in Text
  BY BuildPathShape, LongerPlaces
<1>5. ASSUME NEW t \in S, NEW f \in [S -> Text] PROVE Value(t, f) \in Text
  <2>1. t # {} => f[t \ {Max(t)}] \in Text
    <3>. HIDE DEF S
    <3>. QED
      BY <1>3
  <2>2. <<>> \in Text
    BY DEF Text
  <2>. HIDE DEF S
  <2>. QED
    BY <1>3, <1>4, <2>1, <2>2
<1>6. \A t \in S : \A f \in [S -> Text] : step[<<t, f>>] = Value(t, f)
  <2>. HIDE DEF S, Value
  <2>. QED
    OBVIOUS
<1>7. step \in [S \X [S -> Text] -> Text]
  <2>. HIDE DEF S, Value
  <2>. QED
    BY <1>5
<1>8. ASSUME NEW t \in S, NEW f \in [S -> Text], NEW g \in [S -> Text],
             \A u \in S : m[u] < m[t] => f[u] = g[u]
      PROVE  step[<<t, f>>] = step[<<t, g>>]
  <2>1. t # {} => f[t \ {Max(t)}] = g[t \ {Max(t)}]
    <3>. HIDE DEF m, S
    <3>. QED
      BY <1>3, <1>8
  <2>2. Value(t, f) = Value(t, g)
    BY <2>1
  <2>. HIDE DEF step, Value, S
  <2>. QED
    BY <1>6, <2>2
<1>9. Recursion(S, Text, m, step)
  <2>1. Text # {}
    <3>1. <<>> \in Text
      BY DEF Text
    <3>. QED
      BY <3>1
  <2>. HIDE DEF S, m, step
  <2>. QED
    BY <1>2, <1>7, <1>8, <2>1 DEF Recursion
<1>. PICK f : Solves(S, Text, step, f)
  <2>. HIDE DEF S, step, m
  <2>. QED
    BY <1>9, RecursionIsDefined, Zenon
<1>10. f \in [S -> Text] /\ \A t \in S : f[t] = Value(t, f)
  <2>. HIDE DEF step, S, Value
  <2>. QED
    BY <1>6 DEF Solves
<1>11. Eqn(f)
  <2>1. f = [t \in S |-> Value(t, f)]
    <3>. HIDE DEF Value, S
    <3>. QED
      BY <1>10
  <2>. QED
    BY <2>1, Zenon
<1>. DEFINE h == CHOOSE g : Eqn(g)
<1>12. Eqn(h)
  <2>. HIDE DEF Eqn
  <2>. QED
    BY <1>11, Zenon
<1>13. FoldLeft(BuildPath, <<>>, s) = h[DOMAIN s]
  BY Zenon DEF FoldLeft, MapThenFoldSet
<1>. HIDE DEF h
<1>14. h = [t \in S |-> Value(t, h)]
  BY <1>12, Zenon
<1>15. \A t \in S : h[t] = Value(t, h)
  <2>. HIDE DEF Value, S
  <2>. QED
    BY <1>14
<1>. DEFINE p == [i \in 0 .. n |-> h[1 .. i]]
<1>16. p[0] = <<>>
  <2>1. 1 .. 0 = {} /\ {} \in S
    OBVIOUS
  <2>2. h[{}] = <<>>
    <3>. HIDE DEF S
    <3>. QED
      BY <1>15, <2>1
  <2>. QED
    BY <2>1, <2>2
<1>17. ASSUME NEW i \in 1 .. n PROVE p[i] = BuildPath(p[i - 1], s[i])
  <2>1. 1 .. i \in S /\ 1 .. i # {} /\ (1 .. i) \ {i} = 1 .. (i - 1) /\ i - 1 \in 0 .. n
    <3>1. DOMAIN s = 1 .. n /\ 1 .. i \subseteq 1 .. n /\ i \in 1 .. i /\ i - 1 \in 0 .. n
      OBVIOUS
    <3>2. (1 .. i) \ {i} = 1 .. (i - 1)
      OBVIOUS
    <3>. QED
      BY <3>1, <3>2
  <2>2. Max(1 .. i) = i
    <3>1. Greatest(1 .. i, i) /\ 1 .. i \subseteq Nat
      BY DEF Greatest
    <3>. QED
      BY <3>1, MaxIsGreatest
  <2>3. h[1 .. i] = BuildPath(h[1 .. (i - 1)], s[i])
    <3>. HIDE DEF S
    <3>1. h[1 .. i] = Value(1 .. i, h)
      BY <1>15, <2>1
    <3>. QED
      BY <2>1, <2>2, <3>1
  <2>. QED
    BY <2>1, <2>3
<1>18. FoldLeft(BuildPath, <<>>, s) = p[n]
  <2>1. DOMAIN s = 1 .. n
    OBVIOUS
  <2>. QED
    BY <1>13, <2>1
<1>. HIDE DEF p
<1>. DEFINE R == {i \in Nat : i <= n => p[i] \in Text}
<1>19. ASSUME NEW i \in Nat, \A j \in Nat : j < i => j \in R PROVE i \in R
  <2>1. CASE i = 0
    <3>1. <<>> \in Text
      BY DEF Text
    <3>. QED
      BY <1>16, <2>1, <3>1
  <2>2. CASE i # 0
    <3>. SUFFICES ASSUME i <= n PROVE p[i] \in Text
      OBVIOUS
    <3>1. i \in 1 .. n /\ i - 1 \in Nat /\ i - 1 < i /\ i - 1 <= n
      BY <2>2
    <3>2. p[i - 1] \in Text /\ s[i] \in Nat
      BY <1>19, <3>1
    <3>. QED
      BY <1>4, <1>17, <3>1, <3>2
  <2>. QED
    BY <2>1, <2>2
<1>20. Nat \subseteq R
  <2>. HIDE DEF R
  <2>. QED
    BY <1>19, ByNumber
<1>21. \A i \in 0 .. Len(s) : p[i] \in Text
  BY <1>20
<1>. QED
  BY <1>16, <1>17, <1>18, <1>21 DEF Folds

LEMMA FrontPlaces ==
  ASSUME NEW s \in Seq(Nat), NEW k \in Nat, Len(s) = k + 1
  PROVE  /\ Front(s) \in Seq(Nat) /\ Len(Front(s)) = k
         /\ \A i \in 1 .. k : Front(s)[i] = s[i]
BY DEF Front

(* The last department of the sequence puts its segment below the path of  *)
(* those before it.                                                        *)
LEMMA FoldIsBuilt ==
  ASSUME NEW s \in Seq(Nat), s # <<>>
  PROVE  /\ FoldLeft(BuildPath, <<>>, Front(s)) \in Text
         /\ FoldLeft(BuildPath, <<>>, s) = BuildPath(FoldLeft(BuildPath, <<>>, Front(s)), Last(s))
         /\ FoldLeft(BuildPath, <<>>, <<>>) = <<>>
<1>. PICK k \in Nat : Len(s) = k + 1
  <2>1. Len(s) \in Nat /\ Len(s) # 0
    OBVIOUS
  <2>2. Len(s) - 1 \in Nat /\ Len(s) = (Len(s) - 1) + 1
    BY <2>1
  <2>. QED
    BY <2>2
<1>. PICK t : t = Front(s)
  OBVIOUS
<1>1. t \in Seq(Nat) /\ Len(t) = k /\ \A i \in 1 .. k : t[i] = s[i]
  BY FrontPlaces
<1>2. Last(s) = s[k + 1] /\ k + 1 \in 1 .. Len(s) /\ (k + 1) - 1 = k
  BY DEF Last
<1>. PICK p : Folds(s, p) /\ \A i \in 0 .. Len(s) : p[i] \in Text
  BY FoldedPath
<1>. PICK q : Folds(t, q) /\ \A i \in 0 .. Len(t) : q[i] \in Text
  BY <1>1, FoldedPath
<1>. DEFINE R == {i \in Nat : i <= k => p[i] = q[i]}
<1>3. ASSUME NEW i \in Nat, \A j \in Nat : j < i => j \in R PROVE i \in R
  <2>1. CASE i = 0
    BY <2>1 DEF Folds
  <2>2. CASE i # 0
    <3>. SUFFICES ASSUME i <= k PROVE p[i] = q[i]
      OBVIOUS
    <3>1. i \in 1 .. k /\ i \in 1 .. Len(s) /\ i - 1 \in Nat /\ i - 1 < i /\ i - 1 <= k
      BY <2>2
    <3>2. p[i - 1] = q[i - 1]
      BY <1>3, <3>1
    <3>. QED
      BY <1>1, <3>1, <3>2 DEF Folds
  <2>. QED
    BY <2>1, <2>2
<1>4. k \in R
  <2>. HIDE DEF R
  <2>. QED
    BY <1>3, ByNumber
<1>5. p[k] = FoldLeft(BuildPath, <<>>, t) /\ p[k] \in Text
  <2>1. k \in 0 .. Len(s)
    OBVIOUS
  <2>. QED
    BY <1>1, <1>4, <2>1 DEF Folds
<1>6. FoldLeft(BuildPath, <<>>, s) = BuildPath(p[k], s[k + 1])
  BY <1>2 DEF Folds
<1>7. FoldLeft(BuildPath, <<>>, <<>>) = <<>>
  <2>. PICK e : e = <<>>
    OBVIOUS
  <2>1. e \in Seq(Nat) /\ Len(e) = 0
    OBVIOUS
  <2>. PICK r : Folds(e, r)
    BY <2>1, FoldedPath
  <2>. QED
    BY <2>1 DEF Folds
<1>. QED
  BY <1>2, <1>5, <1>6, <1>7

-------------------------------------------------------------------------------
(***************************************************************************)
(* Initial states                                                          *)
(***************************************************************************)
LEMMA FoundedFacts ==
  ASSUME NEW d \in DOMAIN Founded
  PROVE  /\ Len(Founded[d]) \in Nat \ {0}
         /\ Len(Founded[d]) # 1 => Founded[d][Len(Founded[d]) - 1] \in Nat
<1>. PICK s \in Seq(DOMAIN Founded) : s = Founded[d] /\ s # <<>>
  BY FoundedAssumption
<1>1. Len(s) \in Nat \ {0}
  OBVIOUS
<1>2. ASSUME Len(s) # 1
      PROVE  s[Len(s) - 1] \in DOMAIN Founded
  <2>. PICK n \in Nat : n = Len(s) /\ n # 0 /\ n # 1
    BY <1>1, <1>2
  <2>1. DOMAIN s = 1 .. n
    OBVIOUS
  <2>2. n - 1 \in DOMAIN s
    BY <2>1
  <2>. QED
    BY <2>2
<1>. QED
  BY <1>1, <1>2, FoundedAssumption

LEMMA AcIInvInit == AcInit => AcIInv
<1>. SUFFICES ASSUME AcInit
              PROVE  AcIInv
  OBVIOUS
<1>1. DeptsShape
  <2>1. DOMAIN depts = DOMAIN Founded
    BY DEF AcInit
  <2>2. ASSUME NEW d \in DOMAIN depts
        PROVE  depts[d].parent \in Nat
    <3>1. depts[d].parent = IF Len(Founded[d]) = 1 THEN 0 ELSE Founded[d][Len(Founded[d]) - 1]
      BY <2>1 DEF AcInit
    <3>. QED
      BY <2>1, <3>1, FoundedFacts
  <2>. QED
    BY <2>1, <2>2, FoundedAssumption DEF DeptsShape
<1>2. DOMAIN users = DOMAIN Staff
  BY DEF AcInit
<1>3. ASSUME NEW u \in DOMAIN Staff
      PROVE  /\ u \in Nat /\ Staff[u].role \in 1 .. 3 /\ Staff[u].dept \in Nat
             /\ users[u] = [name |-> u, role |-> Staff[u].role, dept |-> Staff[u].dept,
                            status |-> 1, maker |-> [role |-> 0, dept |-> 0]]
  <2>1. Staff[u].dept \in Nat
    BY StaffAssumption, FoundedAssumption
  <2>. QED
    BY <2>1, StaffAssumption DEF AcInit
<1>4. ASSUME NEW u \in DOMAIN Staff
      PROVE  users[u] \in Account
  <2>. PICK m : m = [role |-> 0, dept |-> 0]
    OBVIOUS
  <2>1. m \in [role : 0 .. 3, dept : Nat] /\ 1 \in {0, 1}
    OBVIOUS
  <2>2. users[u] = [name |-> u, role |-> Staff[u].role, dept |-> Staff[u].dept,
                    status |-> 1, maker |-> m]
    BY <1>3
  <2>. QED
    BY <1>3, <2>1, <2>2 DEF Account
<1>5. UsersShape
  <2>1. users = [u \in DOMAIN Staff |-> users[u]]
    BY <1>2 DEF AcInit
  <2>. QED
    BY <1>2, <1>3, <1>4, <2>1, StaffAssumption DEF UsersShape
<1>6. SinceShape
  BY <1>2, <1>3 DEF AcInit, SinceShape
<1>7. TokensShape
  <2>1. SUFFICES ASSUME NEW t \in tokens
                 PROVE  t \in Pair /\ ReadFrom(t) /\ t.seen <= t.at /\ t.at <= clock /\ t.jti[1] = t.at
    BY DEF TokensShape
  <2>2. PICK u \in DOMAIN Staff :
          t = [jti |-> <<0, u>>, uid |-> u, role |-> Staff[u].role,
               dept |-> Staff[u].dept, at |-> 0, seen |-> 0]
    BY DEF AcInit
  <2>3. <<0, u>> \in Jti /\ 0 \in 0 .. MaxTime
    BY BoundAssumption DEF Jti
  <2>4. t \in Pair
    BY <1>3, <2>2, <2>3 DEF Pair
  <2>5. ReadFrom(t)
    BY <1>2, <1>3, <2>2 DEF ReadFrom, AcInit
  <2>. QED
    BY <2>2, <2>4, <2>5 DEF AcInit
<1>8. RequestsShape
  BY DEF AcInit, RequestsShape, Carries, Idle, Operation
<1>9. ListShape /\ SignedOutStaysOut
  BY DEF AcInit, ListShape, SignedOutStaysOut
<1>10. clock \in 0 .. MaxTime /\ faults \in Nat
  BY BoundAssumption DEF AcInit
<1>. QED
  BY <1>1, <1>5, <1>6, <1>7, <1>8, <1>9, <1>10 DEF AcIInv
-------------------------------------------------------------------------------
(***************************************************************************)
(* What every step keeps                                                   *)
(***************************************************************************)
(* No step takes an account or a token away, changes a role or a           *)
(* department, or dates the disabling of an account before now.            *)
Grows ==
    /\ clock \in Nat /\ clock' \in Nat /\ clock <= clock'
    /\ tokens \subseteq tokens'
    /\ \A u \in DOMAIN users :
          /\ u \in DOMAIN users'
          /\ users'[u].role = users[u].role /\ users'[u].dept = users[u].dept
          /\ u \in DOMAIN since' =>
                \/ u \in DOMAIN since /\ since'[u] = since[u]
                \/ since'[u] = clock

LEMMA ReadIsKept ==
  ASSUME Grows, NEW r, ReadFrom(r), r.seen \in 0 .. clock
  PROVE  ReadFrom(r)' /\ r.seen \in 0 .. clock'
<1>. PICK u : u = r.uid
  OBVIOUS
<1>. PICK n : n = r.seen
  OBVIOUS
<1>1. n \in 0 .. clock' /\ n <= clock
  BY DEF Grows
<1>2. u \in DOMAIN since' => n <= since'[u]
  BY <1>1 DEF Grows, ReadFrom
<1>. QED
  BY <1>1, <1>2 DEF Grows, ReadFrom

LEMMA CarriesIsKept ==
  ASSUME Grows, NEW r, Carries(r)
  PROVE  Carries(r)'
<1>1. r.pc = "mint" => (ReadFrom(r)' /\ r.seen \in 0 .. clock' /\ r.spent \subseteq Jti)
  BY ReadIsKept DEF Carries
<1>2. r.pc \in Operation => r.token \in tokens'
  BY DEF Carries, Grows
<1>3. r.pc = "set status" => (r.uid \in DOMAIN users' /\ r.status \in {0, 1})
  BY DEF Carries, Grows
<1>. QED
  BY <1>1, <1>2, <1>3 DEF Carries

LEMMA RequestsStep ==
  ASSUME RequestsShape, Grows, NEW h \in Handler, NEW r, Carries(r)',
         handler' = [handler EXCEPT ![h] = r]
  PROVE  RequestsShape'
<1>1. DOMAIN handler' = Handler
  BY DEF RequestsShape
<1>2. ASSUME NEW g \in Handler
      PROVE  Carries(handler[g])'
  <2>1. CASE g = h
    <3>1. handler'[g] = r
      BY <2>1 DEF RequestsShape
    <3>. QED
      BY <3>1
  <2>2. CASE g # h
    <3>1. PICK o : o = handler[g]
      OBVIOUS
    <3>2. handler'[g] = o
      BY <2>2, <3>1 DEF RequestsShape
    <3>3. Carries(o)
      BY <3>1 DEF RequestsShape
    <3>4. Carries(o)'
      BY <3>3, CarriesIsKept
    <3>. QED
      BY <3>2, <3>4
  <2>. QED
    BY <2>1, <2>2
<1>. QED
  BY <1>1, <1>2 DEF RequestsShape

LEMMA TokensAreKept ==
  ASSUME TokensShape, Grows, NEW t \in tokens
  PROVE  t \in Pair /\ ReadFrom(t)' /\ t.seen <= t.at /\ t.at <= clock' /\ t.jti[1] = t.at
<1>. PICK n, m : n = t.at /\ m = t.seen
  OBVIOUS
<1>1. n \in Nat /\ m \in Nat /\ m <= n /\ n <= clock
  BY DEF TokensShape, Pair
<1>2. m \in 0 .. clock /\ n <= clock'
  BY <1>1 DEF Grows
<1>3. ReadFrom(t)'
  BY <1>2, ReadIsKept DEF TokensShape
<1>. QED
  BY <1>2, <1>3 DEF TokensShape

(* A step that touches the requests and no table. *)
LEMMA RequestOnly ==
  ASSUME AcIInv, NEW h \in Handler, NEW r, Carries(r),
         handler' = [handler EXCEPT ![h] = r],
         UNCHANGED <<depts, users, tokens, blacklist, clock, since, logouts, unwritten>>,
         faults' \in Nat, SignedOutStaysOut'
  PROVE  AcIInv'
<1>1. Grows
  BY DEF AcIInv, Grows, TokensShape
<1>2. RequestsShape'
  BY <1>1, CarriesIsKept, RequestsStep DEF AcIInv
<1>3. DeptsShape' /\ UsersShape' /\ SinceShape'
  BY DEF AcIInv, DeptsShape, UsersShape, SinceShape
<1>4. TokensShape' /\ ListShape'
  BY DEF AcIInv, TokensShape, ListShape, ReadFrom
<1>. QED
  BY <1>2, <1>3, <1>4 DEF AcIInv
LEMMA FaultType ==
  ASSUME AcIInv, faults' = faults \/ Fault
  PROVE  faults' \in Nat
<1>1. faults \in Nat
  BY DEF AcIInv
<1>. QED
  BY <1>1 DEF Fault

LEMMA IdleCarries == Carries(Idle)
BY DEF Carries, Idle, Operation

LEMMA RequestCarries ==
  ASSUME AcIInv, NEW h \in Handler, NEW pc, At(h, pc)
  PROVE  Carries(handler[h]) /\ handler[h].pc = pc
BY DEF AcIInv, RequestsShape, At

LEMMA ClaimIsAToken ==
  ASSUME AcIInv, NEW h \in Handler, NEW pc \in Operation, At(h, pc)
  PROVE  Claim(h) \in tokens
<1>1. Carries(handler[h]) /\ handler[h].pc \in Operation
  BY RequestCarries
<1>. QED
  BY <1>1 DEF Carries, Claim

-------------------------------------------------------------------------------
(***************************************************************************)
(* Steps of requests that touch no table                                   *)
(***************************************************************************)
LEMMA LoginStep ==
  ASSUME AcIInv, NEW h \in Handler, Login(h)
  PROVE  AcIInv'
<1>1. PICK u \in DOMAIN users :
        /\ users[u].status = 1
        /\ handler' = [handler EXCEPT ![h] =
             [pc |-> "mint", uid |-> u, role |-> users[u].role,
              dept |-> users[u].dept, seen |-> clock, spent |-> {}]]
  BY DEF Login, Begin
<1>. PICK r : r = [pc |-> "mint", uid |-> u, role |-> users[u].role,
                   dept |-> users[u].dept, seen |-> clock, spent |-> {}]
  OBVIOUS
<1>2. u \notin DOMAIN since
  BY <1>1 DEF AcIInv, SinceShape
<1>3. clock \in 0 .. clock
  BY BoundAssumption DEF AcIInv
<1>4. Carries(r)
  BY <1>2, <1>3 DEF Carries, ReadFrom, Operation
<1>. QED
  BY <1>1, <1>4, RequestOnly DEF Login, history, AcIInv, SignedOutStaysOut

LEMMA RefreshStep ==
  ASSUME AcIInv, NEW h \in Handler, Refresh(h)
  PROVE  AcIInv'
<1>1. PICK t \in tokens :
        /\ users[t.uid].status = 1
        /\ handler' = [handler EXCEPT ![h] =
             [pc |-> "mint", uid |-> t.uid, role |-> t.role,
              dept |-> t.dept, seen |-> clock, spent |-> {t.jti}]]
  BY DEF Refresh, Begin
<1>. PICK r : r = [pc |-> "mint", uid |-> t.uid, role |-> t.role,
                   dept |-> t.dept, seen |-> clock, spent |-> {t.jti}]
  OBVIOUS
<1>2. t.uid \notin DOMAIN since
  BY <1>1 DEF AcIInv, SinceShape
<1>3. clock \in 0 .. clock
  BY BoundAssumption DEF AcIInv
<1>4. ReadFrom(t) /\ t.jti \in Jti
  BY DEF AcIInv, TokensShape, Pair
<1>5. ReadFrom(r)
  BY <1>2, <1>4 DEF ReadFrom
<1>6. Carries(r)
  BY <1>3, <1>4, <1>5 DEF Carries, Operation
<1>. QED
  BY <1>1, <1>6, RequestOnly DEF Refresh, history, AcIInv, SignedOutStaysOut

LEMMA FindParentStep ==
  ASSUME AcIInv, NEW h \in Handler, FindParent(h)
  PROVE  AcIInv'
<1>1. CASE Finish(h)
  BY <1>1, IdleCarries, RequestOnly
     DEF FindParent, Finish, Continue, history, AcIInv, SignedOutStaysOut
<1>2. CASE \E p \in DOMAIN depts :
             Continue(h, [pc |-> "dept id", parent |-> p, path |-> depts[p].path])
  <2>1. PICK p \in DOMAIN depts :
          Continue(h, [pc |-> "dept id", parent |-> p, path |-> depts[p].path])
    BY <1>2
  <2>. PICK r : r = [pc |-> "dept id", parent |-> p, path |-> depts[p].path]
    OBVIOUS
  <2>2. Carries(r)
    BY DEF Carries, Operation, AcIInv, DeptsShape
  <2>. QED
    BY <2>1, <2>2, RequestOnly DEF FindParent, Continue, history, AcIInv, SignedOutStaysOut
<1>. QED
  BY <1>1, <1>2 DEF FindParent

LEMMA DeptIDStep ==
  ASSUME AcIInv, NEW h \in Handler, DeptID(h)
  PROVE  AcIInv'
<1>1. handler[h].parent \in Nat
  BY RequestCarries DEF DeptID, Carries
<1>. PICK row : row = [parent |-> handler[h].parent, path |-> handler[h].path]
  OBVIOUS
<1>2. row.parent \in Nat /\ row = [parent |-> row.parent, path |-> row.path]
  BY <1>1
<1>3. NextID(DOMAIN depts, 10) \in Nat
  BY NextIDType DEF AcIInv, DeptsShape
<1>4. PICK id \in Nat : handler' = [handler EXCEPT ![h] =
                          [pc |-> "dept insert", id |-> id, row |-> row]]
  BY <1>3 DEF DeptID, Continue
<1>. PICK r : r = [pc |-> "dept insert", id |-> id, row |-> row]
  OBVIOUS
<1>5. Carries(r)
  BY <1>2 DEF Carries, Operation
<1>6. faults' = faults \/ Fault
  BY DEF DeptID
<1>7. faults' \in Nat
  BY <1>6, FaultType
<1>. QED
  BY <1>4, <1>5, <1>7, RequestOnly DEF DeptID, history, AcIInv, SignedOutStaysOut

LEMMA CheckUserStep ==
  ASSUME AcIInv, NEW h \in Handler, CheckUser(h)
  PROVE  AcIInv'
<1>1. CASE Finish(h)
  BY <1>1, IdleCarries, RequestOnly
     DEF CheckUser, Finish, Continue, history, AcIInv, SignedOutStaysOut
<1>2. CASE \E name \in NewName, role \in 1 .. 3, d \in AskedDept :
             Continue(h, [pc |-> "user id",
                          row |-> [name |-> name, role |-> role, dept |-> d, status |-> 1,
                                   maker |-> [role |-> Claim(h).role, dept |-> Claim(h).dept]]])
  <2>1. PICK name \in NewName, role \in 1 .. 3, d \in AskedDept :
          Continue(h, [pc |-> "user id",
                       row |-> [name |-> name, role |-> role, dept |-> d, status |-> 1,
                                maker |-> [role |-> Claim(h).role, dept |-> Claim(h).dept]]])
    BY <1>2
  <2>. PICK c : c = Claim(h)
    OBVIOUS
  <2>2. c \in Pair
    BY ClaimIsAToken DEF CheckUser, Operation, AcIInv, TokensShape
  <2>3. c.role \in 0 .. 3 /\ c.dept \in Nat
    BY <2>2 DEF Pair
  <2>. PICK m : m = [role |-> c.role, dept |-> c.dept]
    OBVIOUS
  <2>. PICK row : row = [name |-> name, role |-> role, dept |-> d, status |-> 1, maker |-> m]
    OBVIOUS
  <2>4. d \in Nat /\ m \in [role : 0 .. 3, dept : Nat] /\ 1 \in {0, 1} /\ role \in 1 .. 3
    BY <2>3, AskedAssumption
  <2>5. row \in Account /\ row.status = 1
    BY <2>4 DEF Account
  <2>. PICK r : r = [pc |-> "user id", row |-> row]
    OBVIOUS
  <2>6. Carries(r)
    BY <2>5 DEF Carries, Operation
  <2>. QED
    BY <2>1, <2>6, RequestOnly DEF CheckUser, Continue, history, AcIInv, SignedOutStaysOut
<1>. QED
  BY <1>1, <1>2 DEF CheckUser

LEMMA UserIDStep ==
  ASSUME AcIInv, NEW h \in Handler, UserID(h)
  PROVE  AcIInv'
<1>1. handler[h].row \in Account /\ handler[h].row.status = 1
  BY RequestCarries DEF UserID, Carries
<1>2. NextUserID \in Nat
  <2>1. \A base \in Nat : NextID(DOMAIN users, base) \in Nat
    BY NextIDType DEF AcIInv, UsersShape
  <2>. QED
    BY <2>1 DEF NextUserID
<1>3. PICK id \in Nat : handler' = [handler EXCEPT ![h] =
                          [pc |-> "user insert", id |-> id, row |-> handler[h].row]]
  BY <1>2 DEF UserID, Continue
<1>. PICK r : r = [pc |-> "user insert", id |-> id, row |-> handler[h].row]
  OBVIOUS
<1>4. Carries(r)
  BY <1>1 DEF Carries, Operation
<1>5. faults' = faults \/ Fault
  BY DEF UserID
<1>6. faults' \in Nat
  BY <1>5, FaultType
<1>. QED
  BY <1>3, <1>4, <1>6, RequestOnly DEF UserID, history, AcIInv, SignedOutStaysOut

LEMMA CheckStatusStep ==
  ASSUME AcIInv, NEW h \in Handler, CheckStatus(h)
  PROVE  AcIInv'
<1>1. PICK u \in DOMAIN users, status \in {0, 1} :
        \/ handler' = [handler EXCEPT ![h] = [pc |-> "set status", uid |-> u, status |-> status]]
        \/ handler' = [handler EXCEPT ![h] = Idle]
  BY DEF CheckStatus, Continue, Finish
<1>. PICK r : r = [pc |-> "set status", uid |-> u, status |-> status]
  OBVIOUS
<1>2. Carries(r)
  BY DEF Carries, Operation
<1>. QED
  BY <1>1, <1>2, IdleCarries, RequestOnly DEF CheckStatus, history, AcIInv, SignedOutStaysOut

(* The middleware lets a signed out token through only when it could not   *)
(* see the black list: a token that is on it stays there for its life.     *)
LEMMA AuthenticateStep ==
  ASSUME AcIInv, NEW h \in Handler, NEW t \in tokens, NEW op \in Operation, Authenticate(h, t, op)
  PROVE  AcIInv'
<1>. PICK r : r = [pc |-> op, token |-> t]
  OBVIOUS
<1>1. Carries(r)
  BY DEF Carries, Operation
<1>2. handler' = [handler EXCEPT ![h] = r]
  BY DEF Authenticate, Begin
<1>3. faults \in Nat /\ faults' \in Nat
  BY FaultType DEF Authenticate, AcIInv
<1>4. ASSUME t \in logouts, faults' = faults
      PROVE  t \in unwritten
  <2>1. SUFFICES ASSUME t \notin unwritten
                 PROVE  FALSE
    OBVIOUS
  <2>2. ~OnBlacklist(t.jti)
    BY <1>3, <1>4 DEF Authenticate, Fault
  <2>3. PICK k : k = <<t.jti, "access">>
    OBVIOUS
  <2>4. k \in DOMAIN blacklist
    BY <1>4, <2>1, <2>3 DEF AcIInv, ListShape
  <2>5. blacklist[k] \in Nat /\ k[1][1] + AccessTTL <= blacklist[k]
    BY <2>3, <2>4 DEF AcIInv, ListShape
  <2>6. k[1][1] = t.at
    BY <2>3 DEF AcIInv, TokensShape
  <2>7. ~(clock < blacklist[k])
    BY <2>2, <2>3, <2>4 DEF OnBlacklist
  <2>8. t.at \in Nat /\ clock \in Nat /\ clock < t.at + AccessTTL
    BY DEF Authenticate, AcIInv, TokensShape, Pair
  <2>. QED
    BY <2>5, <2>6, <2>7, <2>8, TTLAssumption
<1>5. SignedOutStaysOut'
  <2>1. SUFFICES ASSUME NEW s \in stale'
                 PROVE  s.blind \/ s.token \in unwritten
    BY DEF SignedOutStaysOut, Authenticate
  <2>2. CASE s \in stale
    BY <2>2 DEF SignedOutStaysOut, AcIInv
  <2>3. CASE s \notin stale
    <3>1. t \in logouts /\ s = [token |-> t, blind |-> faults' # faults]
      BY <2>1, <2>3 DEF Authenticate
    <3>2. CASE faults' = faults
      <4>1. s.token = t
        BY <3>1
      <4>. QED
        BY <1>4, <3>1, <3>2, <4>1
    <3>3. CASE faults' # faults
      <4>1. s.blind = (faults' # faults)
        BY <3>1, Zenon
      <4>. QED
        BY <3>3, <4>1, Zenon
    <3>. QED
      BY <3>2, <3>3
  <2>. QED
    BY <2>2, <2>3
<1>. QED
  BY <1>1, <1>2, <1>3, <1>5, RequestOnly DEF Authenticate
-------------------------------------------------------------------------------
(***************************************************************************)
(* Steps that write a table, the black list or the clock                   *)
(***************************************************************************)
(* Listing a key never shortens the time an access token is listed for.    *)
LEMMA ListedKeeps ==
  ASSUME AcIInv, NEW ttl \in Nat, NEW keys \in SUBSET (Jti \X {"access", "refresh"}),
         \A k \in keys : k[2] = "access" => k[1][1] + AccessTTL <= clock + ttl,
         blacklist' = Listed(keys, ttl)
  PROVE  /\ DOMAIN blacklist' = DOMAIN blacklist \cup keys
         /\ \A k \in DOMAIN blacklist' :
               /\ k \in Jti \X {"access", "refresh"}
               /\ k[2] = "access" => blacklist'[k] \in Nat /\ k[1][1] + AccessTTL <= blacklist'[k]
<1>1. PICK lapse \in Nat : lapse = clock + ttl
  BY BoundAssumption DEF AcIInv
<1>2. blacklist' = [k \in DOMAIN blacklist \cup keys |-> IF k \in keys THEN lapse ELSE blacklist[k]]
  BY <1>1 DEF Listed, Put
<1>3. ASSUME NEW k \in DOMAIN blacklist'
      PROVE  /\ k \in Jti \X {"access", "refresh"}
             /\ k[2] = "access" => blacklist'[k] \in Nat /\ k[1][1] + AccessTTL <= blacklist'[k]
  <2>1. CASE k \in keys
    <3>1. blacklist'[k] = lapse
      BY <1>2, <2>1
    <3>. QED
      BY <1>1, <2>1, <3>1
  <2>2. CASE k \notin keys
    <3>1. k \in DOMAIN blacklist /\ blacklist'[k] = blacklist[k]
      BY <1>2, <2>2
    <3>. QED
      BY <3>1 DEF AcIInv, ListShape
  <2>. QED
    BY <2>1, <2>2
<1>. QED
  BY <1>2, <1>3

LEMMA MintStep ==
  ASSUME AcIInv, NEW h \in Handler, Mint(h)
  PROVE  AcIInv'
<1>. PICK r : r = handler[h]
  OBVIOUS
<1>1. ReadFrom(r) /\ r.seen \in 0 .. clock /\ r.spent \subseteq Jti
  BY RequestCarries DEF Mint, Carries
<1>2. PICK us \in Micro :
        tokens' = tokens \cup {[jti |-> <<clock, us>>, uid |-> r.uid, role |-> r.role,
                                dept |-> r.dept, at |-> clock, seen |-> r.seen]}
  BY DEF Mint
<1>. PICK new : new = [jti |-> <<clock, us>>, uid |-> r.uid, role |-> r.role,
                       dept |-> r.dept, at |-> clock, seen |-> r.seen]
  OBVIOUS
<1>3. clock \in Nat /\ clock \in 0 .. MaxTime /\ r.seen \in Nat /\ r.seen <= clock
  BY <1>1, BoundAssumption DEF AcIInv
<1>4. new \in Pair
  <2>1. r.uid \in Nat /\ users[r.uid] \in Account
    BY <1>1 DEF ReadFrom, AcIInv, UsersShape
  <2>2. r.role \in 1 .. 3 /\ r.dept \in Nat
    BY <1>1, <2>1 DEF ReadFrom, Account
  <2>3. <<clock, us>> \in Jti /\ r.seen \in 0 .. MaxTime
    BY <1>3, BoundAssumption DEF Jti
  <2>. QED
    BY <1>3, <2>1, <2>2, <2>3 DEF Pair
<1>5. UNCHANGED <<depts, users, clock, since, logouts, unwritten, stale>>
  BY DEF Mint, history
<1>6. Grows
  BY <1>2, <1>3, <1>5 DEF Grows
<1>7. TokensShape'
  <2>1. ASSUME NEW t \in tokens'
        PROVE  t \in Pair /\ ReadFrom(t)' /\ t.seen <= t.at /\ t.at <= clock' /\ t.jti[1] = t.at
    <3>1. CASE t \in tokens
      BY <1>6, <3>1, TokensAreKept DEF AcIInv
    <3>2. CASE t \notin tokens
      <4>1. t = new
        BY <1>2, <2>1, <3>2
      <4>2. ReadFrom(new)'
        BY <1>1, <1>5 DEF ReadFrom
      <4>. QED
        BY <1>3, <1>4, <1>5, <4>1, <4>2
    <3>. QED
      BY <3>1, <3>2
  <2>. QED
    BY <2>1 DEF TokensShape
<1>8. RequestsShape'
  BY <1>6, IdleCarries, CarriesIsKept, RequestsStep DEF AcIInv, Mint, Finish, Continue
<1>9. ListShape'
  <2>1. CASE blacklist' = blacklist
    BY <1>5, <1>6, <2>1 DEF AcIInv, ListShape, Grows
  <2>2. CASE blacklist' = Listed(r.spent \X {"refresh"}, RefreshTTL)
    <3>. PICK keys : keys = r.spent \X {"refresh"}
      OBVIOUS
    <3>. keys \in SUBSET (Jti \X {"access", "refresh"})
      BY <1>1
    <3>. ASSUME NEW k \in keys
         PROVE  k[2] # "access"
      <4>1. k[2] = "refresh"
        OBVIOUS
      <4>. QED
        BY <4>1
    <3>1. /\ DOMAIN blacklist' = DOMAIN blacklist \cup keys
          /\ \A k \in DOMAIN blacklist' :
                /\ k \in Jti \X {"access", "refresh"}
                /\ k[2] = "access" => blacklist'[k] \in Nat /\ k[1][1] + AccessTTL <= blacklist'[k]
      BY <2>2, ListedKeeps, TTLAssumption
    <3>. QED
      BY <1>5, <1>6, <3>1 DEF AcIInv, ListShape, Grows
  <2>. QED
    BY <2>1, <2>2 DEF Mint
<1>10. faults' \in Nat
  <2>1. faults' = faults \/ Fault
    BY DEF Mint
  <2>. QED
    BY <2>1, FaultType
<1>11. DeptsShape' /\ UsersShape' /\ SinceShape' /\ SignedOutStaysOut'
  BY <1>5 DEF AcIInv, DeptsShape, UsersShape, SinceShape, SignedOutStaysOut
<1>. QED
  BY <1>3, <1>5, <1>7, <1>8, <1>9, <1>10, <1>11 DEF AcIInv

LEMMA LogoutStep ==
  ASSUME AcIInv, NEW h \in Handler, Logout(h)
  PROVE  AcIInv'
<1>. PICK t : t = Claim(h)
  OBVIOUS
<1>1. t \in tokens
  BY ClaimIsAToken DEF Logout, Operation
<1>2. UNCHANGED <<depts, users, tokens, clock, since, stale>> /\ logouts' = logouts \cup {t}
  BY DEF Logout
<1>3. Grows
  BY <1>2 DEF AcIInv, TokensShape, Grows
<1>4. RequestsShape'
  BY <1>3, IdleCarries, CarriesIsKept, RequestsStep DEF AcIInv, Logout, Finish, Continue
<1>5. TokensShape'
  BY <1>2 DEF AcIInv, TokensShape, ReadFrom
<1>6. faults' \in Nat
  <2>1. faults' = faults \/ Fault
    BY DEF Logout
  <2>. QED
    BY <2>1, FaultType
<1>7. unwritten \subseteq unwritten'
  BY DEF Logout
<1>8. ListShape'
  <2>1. CASE blacklist' = blacklist /\ unwritten' = unwritten \cup {t}
    BY <1>1, <1>2, <2>1 DEF AcIInv, ListShape
  <2>2. CASE blacklist' = Listed({<<t.jti, "access">>}, AccessTTL) /\ unwritten' = unwritten
    <3>1. t.jti \in Jti /\ t.jti[1] <= clock /\ t.jti[1] \in Nat
      BY <1>1 DEF AcIInv, TokensShape, Pair
    <3>2. PICK k : k = <<t.jti, "access">>
      OBVIOUS
    <3>3. k \in Jti \X {"access", "refresh"} /\ k[1] = t.jti
      BY <3>1, <3>2
    <3>4. k[1][1] + AccessTTL <= clock + AccessTTL
      BY <3>1, <3>3, TTLAssumption, BoundAssumption DEF AcIInv
    <3>5. /\ DOMAIN blacklist' = DOMAIN blacklist \cup {k}
          /\ \A l \in DOMAIN blacklist' :
                /\ l \in Jti \X {"access", "refresh"}
                /\ l[2] = "access" => blacklist'[l] \in Nat /\ l[1][1] + AccessTTL <= blacklist'[l]
      <4>1. PICK keys : keys = {k}
        OBVIOUS
      <4>2. /\ keys \in SUBSET (Jti \X {"access", "refresh"})
            /\ \A l \in keys : l[1][1] + AccessTTL <= clock + AccessTTL
            /\ blacklist' = Listed(keys, AccessTTL)
        BY <2>2, <3>2, <3>3, <3>4, <4>1
      <4>3. AccessTTL \in Nat
        BY TTLAssumption
      <4>. QED
        BY <4>1, <4>2, <4>3, ListedKeeps
    <3>6. \A s \in logouts' \ unwritten' : <<s.jti, "access">> \in DOMAIN blacklist'
      BY <1>2, <2>2, <3>2, <3>5 DEF AcIInv, ListShape
    <3>. QED
      BY <1>1, <1>2, <3>5, <3>6 DEF AcIInv, ListShape
  <2>. QED
    BY <2>1, <2>2 DEF Logout
<1>9. DeptsShape' /\ UsersShape' /\ SinceShape' /\ SignedOutStaysOut'
  BY <1>2, <1>7 DEF AcIInv, DeptsShape, UsersShape, SinceShape, SignedOutStaysOut
<1>. QED
  BY <1>2, <1>4, <1>5, <1>6, <1>8, <1>9 DEF AcIInv

LEMMA InsertDeptStep ==
  ASSUME AcIInv, NEW h \in Handler, InsertDept(h)
  PROVE  AcIInv'
<1>. PICK r : r = handler[h]
  OBVIOUS
<1>1. r.id \in Nat /\ r.row.parent \in Nat /\ r.row = [parent |-> r.row.parent, path |-> r.row.path]
  BY RequestCarries DEF InsertDept, Carries
<1>2. UNCHANGED <<users, tokens, blacklist, clock, faults, since, logouts, unwritten, stale>>
  BY DEF InsertDept, history
<1>3. DeptsShape'
  <2>1. CASE depts' = depts
    BY <2>1 DEF AcIInv, DeptsShape
  <2>2. CASE depts' = Put(depts, {r.id},
                          [r.row EXCEPT !.path = BuildPath(r.row.path, r.id)])
    <3>. PICK p : p = BuildPath(r.row.path, r.id)
      OBVIOUS
    <3>. PICK o \in Nat : o = r.row.parent
      BY <1>1
    <3>1. [r.row EXCEPT !.path = p] = [parent |-> o, path |-> p]
      BY <1>1
    <3>2. depts' = [d \in DOMAIN depts \cup {r.id} |->
                      IF d \in {r.id} THEN [parent |-> o, path |-> p] ELSE depts[d]]
      BY <2>2, <3>1 DEF Put
    <3>3. DOMAIN depts' = DOMAIN depts \cup {r.id}
      BY <3>2
    <3>4. IsFiniteSet(DOMAIN depts')
      BY <3>3, FS_AddElement DEF AcIInv, DeptsShape
    <3>5. \A d \in DOMAIN depts' : depts'[d].parent \in Nat
      BY <3>2 DEF AcIInv, DeptsShape
    <3>. QED
      BY <1>1, <3>3, <3>4, <3>5 DEF AcIInv, DeptsShape
  <2>. QED
    BY <2>1, <2>2 DEF InsertDept
<1>4. Grows
  BY <1>2 DEF AcIInv, TokensShape, Grows
<1>5. RequestsShape'
  BY <1>4, IdleCarries, CarriesIsKept, RequestsStep DEF AcIInv, InsertDept, Finish, Continue
<1>6. UsersShape' /\ SinceShape' /\ SignedOutStaysOut'
  BY <1>2 DEF AcIInv, UsersShape, SinceShape, SignedOutStaysOut
<1>7. TokensShape' /\ ListShape'
  BY <1>2 DEF AcIInv, TokensShape, ListShape, ReadFrom
<1>. QED
  BY <1>2, <1>3, <1>5, <1>6, <1>7 DEF AcIInv

LEMMA InsertUserStep ==
  ASSUME AcIInv, NEW h \in Handler, InsertUser(h)
  PROVE  AcIInv'
<1>. PICK r : r = handler[h]
  OBVIOUS
<1>. PICK id, row : id = r.id /\ row = r.row
  OBVIOUS
<1>1. id \in Nat /\ row \in Account /\ row.status = 1
  BY RequestCarries DEF InsertUser, Carries
<1>2. UNCHANGED <<depts, tokens, blacklist, clock, faults, since, logouts, unwritten, stale>>
  BY DEF InsertUser, history
<1>3. CASE users' = users
  <2>1. Grows
    BY <1>2, <1>3 DEF AcIInv, TokensShape, Grows
  <2>2. RequestsShape'
    BY <2>1, IdleCarries, CarriesIsKept, RequestsStep DEF AcIInv, InsertUser, Finish, Continue
  <2>3. DeptsShape' /\ UsersShape' /\ SinceShape' /\ SignedOutStaysOut'
    BY <1>2, <1>3 DEF AcIInv, DeptsShape, UsersShape, SinceShape, SignedOutStaysOut
  <2>4. TokensShape' /\ ListShape'
    BY <1>2, <1>3 DEF AcIInv, TokensShape, ListShape, ReadFrom
  <2>. QED
    BY <1>2, <2>2, <2>3, <2>4 DEF AcIInv
<1>4. CASE id \notin DOMAIN users /\ ~NameTaken(row.name) /\ users' = Put(users, {id}, row)
  <2>1. users' = [u \in DOMAIN users \cup {id} |-> IF u \in {id} THEN row ELSE users[u]]
    BY <1>4 DEF Put
  <2>2. DOMAIN users' = DOMAIN users \cup {id} /\ users'[id] = row
    BY <2>1
  <2>3. \A u \in DOMAIN users : users'[u] = users[u]
    BY <1>4, <2>1
  <2>4. \A u \in DOMAIN users : users[u] \in Account /\ users[u].name # row.name
    BY <1>4 DEF NameTaken, AcIInv, UsersShape
  <2>5. UsersShape'
    <3>1. IsFiniteSet(DOMAIN users')
      BY <2>2, FS_AddElement DEF AcIInv, UsersShape
    <3>2. \A u \in DOMAIN users' : users'[u] \in Account
      BY <1>1, <2>2, <2>3, <2>4
    <3>3. users' \in [DOMAIN users' -> Account]
      BY <2>1, <2>2, <3>2
    <3>4. ASSUME NEW u \in DOMAIN users', NEW v \in DOMAIN users', users'[u].name = users'[v].name
          PROVE  u = v
      BY <2>2, <2>3, <2>4, <3>4 DEF AcIInv, UsersShape
    <3>. QED
      BY <1>1, <2>2, <3>1, <3>3, <3>4 DEF AcIInv, UsersShape
  <2>6. SinceShape'
    <3>1. DOMAIN since = {v \in DOMAIN users : users[v].status = 0}
      BY DEF AcIInv, SinceShape
    <3>2. ASSUME NEW v
          PROVE  v \in DOMAIN since <=> (v \in DOMAIN users' /\ users'[v].status = 0)
      <4>1. CASE v = id
        <5>1. users'[v].status = 1 /\ v \notin DOMAIN since
          BY <1>1, <1>4, <2>2, <3>1, <4>1
        <5>. QED
          BY <5>1
      <4>2. CASE v # id
        <5>1. v \in DOMAIN users' <=> v \in DOMAIN users
          BY <2>2, <4>2
        <5>. QED
          BY <2>3, <3>1, <5>1
      <4>. QED
        BY <4>1, <4>2
    <3>. QED
      BY <1>2, <3>2 DEF SinceShape
  <2>7. Grows
    BY <1>2, <2>2, <2>3 DEF AcIInv, TokensShape, Grows, SinceShape
  <2>8. RequestsShape'
    BY <2>7, IdleCarries, CarriesIsKept, RequestsStep DEF AcIInv, InsertUser, Finish, Continue
  <2>9. TokensShape'
    BY <1>2, <2>7, TokensAreKept DEF AcIInv, TokensShape
  <2>10. DeptsShape' /\ ListShape' /\ SignedOutStaysOut'
    BY <1>2 DEF AcIInv, DeptsShape, ListShape, SignedOutStaysOut
  <2>. QED
    BY <1>2, <2>5, <2>6, <2>8, <2>9, <2>10 DEF AcIInv
<1>. QED
  BY <1>3, <1>4 DEF InsertUser

(* What was read of an account before it is disabled was not read after. *)
LEMMA UpdateStatusStep ==
  ASSUME AcIInv, NEW h \in Handler, UpdateStatus(h)
  PROVE  AcIInv'
<1>. PICK r : r = handler[h]
  OBVIOUS
<1>. PICK u, status : u = r.uid /\ status = r.status
  OBVIOUS
<1>1. u \in DOMAIN users /\ status \in {0, 1}
  BY RequestCarries DEF UpdateStatus, Carries
<1>2. UNCHANGED <<depts, tokens, blacklist, clock, faults, logouts, unwritten, stale>>
  BY DEF UpdateStatus
<1>3. users' = [users EXCEPT ![u].status = status]
  BY DEF UpdateStatus
<1>4. \A v \in DOMAIN users : users[v] \in Account
  BY DEF AcIInv, UsersShape
<1>. PICK row : row = users[u]
  OBVIOUS
<1>. PICK new : new = [row EXCEPT !.status = status]
  OBVIOUS
<1>5. /\ new \in Account /\ new.status = status
      /\ new.name = row.name /\ new.role = row.role /\ new.dept = row.dept
  <2>1. row \in Account
    BY <1>1, <1>4
  <2>. QED
    BY <1>1, <2>1 DEF Account
<1>6. DOMAIN users' = DOMAIN users /\ users'[u] = new /\ \A v \in DOMAIN users \ {u} : users'[v] = users[v]
  BY <1>1, <1>3 DEF AcIInv, UsersShape
<1>7. UsersShape'
  <2>1. \A v \in DOMAIN users : users'[v] \in Account /\ users'[v].name = users[v].name
    BY <1>4, <1>5, <1>6
  <2>2. users' \in [DOMAIN users' -> Account]
    BY <1>3, <1>6, <2>1 DEF AcIInv, UsersShape
  <2>. QED
    BY <1>6, <2>1, <2>2 DEF AcIInv, UsersShape
<1>8. /\ status = 1 => since' = [v \in DOMAIN since \ {u} |-> since[v]]
      /\ (status = 0 /\ row.status = 0) => since' = since
      /\ (status = 0 /\ row.status # 0) => since' = Put(since, {u}, clock)
  <2>1. since' = IF status = 1
                 THEN [v \in DOMAIN since \ {u} |-> since[v]]
                 ELSE IF row.status = 0 THEN since ELSE Put(since, {u}, clock)
    BY DEF UpdateStatus
  <2>. QED
    BY <2>1
<1>9. /\ DOMAIN since' = IF status = 1 THEN DOMAIN since \ {u} ELSE DOMAIN since \cup {u}
      /\ \A v \in DOMAIN since' : (v \in DOMAIN since /\ since'[v] = since[v]) \/ since'[v] = clock
  <2>1. CASE status = 1
    BY <1>8, <2>1
  <2>2. CASE status = 0 /\ row.status = 0
    <3>1. u \in DOMAIN since
      BY <1>1, <2>2 DEF AcIInv, SinceShape
    <3>. QED
      BY <1>8, <2>2, <3>1
  <2>3. CASE status = 0 /\ row.status # 0
    BY <1>8, <2>3 DEF Put
  <2>. QED
    BY <1>1, <2>1, <2>2, <2>3
<1>10. SinceShape'
  <2>1. DOMAIN since = {v \in DOMAIN users : users[v].status = 0}
    BY DEF AcIInv, SinceShape
  <2>2. ASSUME NEW v
        PROVE  v \in DOMAIN since' <=> (v \in DOMAIN users' /\ users'[v].status = 0)
    <3>1. CASE v = u
      <4>1. users'[v].status = status /\ v \in DOMAIN users'
        BY <1>1, <1>5, <1>6, <3>1
      <4>2. CASE status = 0
        BY <1>9, <3>1, <4>1, <4>2
      <4>3. CASE status = 1
        BY <1>9, <3>1, <4>1, <4>3
      <4>. QED
        BY <1>1, <4>2, <4>3
    <3>2. CASE v # u
      <4>1. v \in DOMAIN since' <=> v \in DOMAIN since
        BY <1>9, <3>2
      <4>. QED
        BY <1>6, <2>1, <3>2, <4>1
    <3>. QED
      BY <3>1, <3>2
  <2>. QED
    BY <2>2 DEF SinceShape
<1>11. Grows
  <2>1. \A v \in DOMAIN users : users'[v].role = users[v].role /\ users'[v].dept = users[v].dept
    BY <1>5, <1>6
  <2>2. clock \in Nat /\ clock' = clock
    BY <1>2, BoundAssumption DEF AcIInv
  <2>. QED
    BY <1>2, <1>6, <1>9, <2>1, <2>2 DEF Grows
<1>12. RequestsShape'
  BY <1>11, IdleCarries, CarriesIsKept, RequestsStep DEF AcIInv, UpdateStatus, Finish, Continue
<1>13. TokensShape'
  BY <1>2, <1>11, TokensAreKept DEF AcIInv, TokensShape
<1>14. DeptsShape' /\ ListShape' /\ SignedOutStaysOut'
  BY <1>2 DEF AcIInv, DeptsShape, ListShape, SignedOutStaysOut
<1>. QED
  BY <1>2, <1>7, <1>10, <1>12, <1>13, <1>14 DEF AcIInv

LEMMA TickStep ==
  ASSUME AcIInv, Tick
  PROVE  AcIInv'
<1>1. UNCHANGED <<depts, users, tokens, blacklist, handler, faults, since, logouts, unwritten, stale>>
  BY DEF Tick, history
<1>2. clock \in Nat /\ clock' = clock + 1 /\ clock' \in 0 .. MaxTime
  BY BoundAssumption DEF Tick, AcIInv
<1>3. Grows
  BY <1>1, <1>2 DEF AcIInv, SinceShape, Grows
<1>4. RequestsShape'
  <2>1. ASSUME NEW g \in Handler
        PROVE  Carries(handler[g])'
    <3>1. PICK r : r = handler[g]
      OBVIOUS
    <3>2. Carries(r)'
      BY <1>3, <3>1, CarriesIsKept DEF AcIInv, RequestsShape
    <3>3. handler'[g] = r
      BY <1>1, <3>1
    <3>. QED
      BY <3>2, <3>3
  <2>. QED
    BY <1>1, <2>1 DEF AcIInv, RequestsShape
<1>5. TokensShape'
  BY <1>1, <1>3, TokensAreKept DEF AcIInv, TokensShape
<1>6. DeptsShape' /\ UsersShape' /\ SinceShape' /\ SignedOutStaysOut'
  BY <1>1 DEF AcIInv, DeptsShape, UsersShape, SinceShape, SignedOutStaysOut
<1>7. ListShape'
  BY <1>1 DEF AcIInv, ListShape
<1>. QED
  BY <1>1, <1>2, <1>4, <1>5, <1>6, <1>7 DEF AcIInv
LEMMA AcIInvStutter ==
  ASSUME AcIInv, UNCHANGED vars
  PROVE  AcIInv'
<1>1. UNCHANGED <<depts, users, tokens, blacklist, handler, clock, faults,
                  since, logouts, unwritten, stale>>
  BY DEF vars, history
<1>2. RequestsShape'
  BY <1>1 DEF AcIInv, RequestsShape, Carries, ReadFrom
<1>3. DeptsShape' /\ UsersShape' /\ SinceShape' /\ SignedOutStaysOut'
  BY <1>1 DEF AcIInv, DeptsShape, UsersShape, SinceShape, SignedOutStaysOut
<1>4. TokensShape' /\ ListShape'
  BY <1>1 DEF AcIInv, TokensShape, ListShape, ReadFrom
<1>. QED
  BY <1>1, <1>2, <1>3, <1>4 DEF AcIInv

-------------------------------------------------------------------------------
(***************************************************************************)
(* The tree of the tables: an invariant beside AcIInv                      *)
(***************************************************************************)
(* An account of a college administrator's making. *)
MadeBelow(row) ==
    row.maker.role = 2 => row.role = 3 /\ row.dept \in SubtreeIDs(depts, row.maker.dept)

(* What a request has read of the tree is still true. *)
CarriesTree(r) ==
    /\ r.pc = "dept id" => r.parent \in DOMAIN depts /\ r.path = depts[r.parent].path
    /\ r.pc = "dept insert" =>
          r.row.parent \in DOMAIN depts /\ r.row.path = depts[r.row.parent].path
    /\ r.pc \in {"user id", "user insert"} => MadeBelow(r.row)

TreeIInv ==
    /\ PathsFollow(depts)
    /\ \A u \in DOMAIN users : MadeBelow(users[u])
    /\ \A h \in Handler : CarriesTree(handler[h])

(* The path of a department of the seed is that of the one above it and    *)
(* one segment more.                                                       *)
LEMMA FoundedPath ==
  ASSUME NEW d \in DOMAIN Founded
  PROVE  LET path == FoldLeft(BuildPath, <<>>, Founded[d])
             up == Last(Front(Founded[d]))
         IN  /\ d \in Nat /\ path \in Text
             /\ Len(Founded[d]) = 1 => path = Longer(<<Slash>>, d)
             /\ Len(Founded[d]) # 1 =>
                  /\ up \in DOMAIN Founded /\ up = Founded[d][Len(Founded[d]) - 1]
                  /\ path = Longer(FoldLeft(BuildPath, <<>>, Founded[up]), d)
<1>1. DOMAIN Founded \subseteq Nat
  BY FoundedAssumption
<1>2. ASSUME NEW e \in DOMAIN Founded
      PROVE  /\ Founded[e] \in Seq(Nat) /\ Founded[e] # <<>> /\ Last(Founded[e]) = e
             /\ FoldLeft(BuildPath, <<>>, Front(Founded[e])) \in Text
             /\ FoldLeft(BuildPath, <<>>, Founded[e])
                  = BuildPath(FoldLeft(BuildPath, <<>>, Front(Founded[e])), e)
             /\ FoldLeft(BuildPath, <<>>, <<>>) = <<>>
  <2>1. Founded[e] \in Seq(DOMAIN Founded) /\ Founded[e] # <<>> /\ Last(Founded[e]) = e
    BY FoundedAssumption
  <2>2. Founded[e] \in Seq(Nat)
    BY <1>1, <2>1
  <2>. QED
    BY <2>1, <2>2, FoldIsBuilt
<1>. PICK s \in Seq(DOMAIN Founded) : s = Founded[d] /\ s # <<>>
  BY FoundedAssumption
<1>. PICK n \in Nat : n = Len(s) /\ n # 0
  OBVIOUS
<1>3. CASE n = 1
  <2>1. Front(s) = <<>>
    BY <1>3 DEF Front
  <2>2. FoldLeft(BuildPath, <<>>, s) = BuildPath(<<>>, d)
    BY <1>2, <2>1
  <2>3. FoldLeft(BuildPath, <<>>, s) = Longer(<<Slash>>, d)
    BY <1>1, <2>2, BuildPathOfRoot
  <2>4. <<Slash>> \in Text
    BY SlashIsClosed DEF Closed
  <2>5. Longer(<<Slash>>, d) \in Text
    BY <1>1, <2>4, LongerPlaces
  <2>. QED
    BY <1>1, <1>3, <2>3, <2>5
<1>4. CASE n # 1
  <2>. PICK k \in Nat : n = k + 1 /\ k # 0
    <3>1. n - 1 \in Nat /\ n = (n - 1) + 1 /\ n - 1 # 0
      BY <1>4
    <3>. QED
      BY <3>1
  <2>. PICK t : t = Front(s)
    OBVIOUS
  <2>1. t \in Seq(Nat) /\ Len(t) = k /\ \A i \in 1 .. k : t[i] = s[i]
    <3>1. s \in Seq(Nat) /\ Len(s) = k + 1
      BY <1>2
    <3>. QED
      BY <3>1, FrontPlaces
  <2>. PICK up : up = Last(t)
    OBVIOUS
  <2>2. up = s[k] /\ up \in DOMAIN Founded /\ k = Len(s) - 1
    <3>1. up = t[k]
      BY <2>1 DEF Last
    <3>2. k \in 1 .. k /\ k \in 1 .. Len(s) /\ k = Len(s) - 1
      OBVIOUS
    <3>3. s[k] \in DOMAIN Founded
      BY <3>2
    <3>4. t[k] = s[k]
      BY <2>1, <3>2
    <3>. QED
      BY <3>1, <3>2, <3>3, <3>4
  <2>3. Founded[up] = t
    <3>1. Len(Founded[d]) > 1
      OBVIOUS
    <3>. QED
      BY <3>1, FoundedAssumption
  <2>. PICK x \in Text : x = FoldLeft(BuildPath, <<>>, t)
    BY <1>2
  <2>. PICK y \in Text : x = Longer(y, up)
    <3>. PICK w \in Text : w = FoldLeft(BuildPath, <<>>, Front(t))
      BY <1>2, <2>2, <2>3
    <3>1. x = BuildPath(w, up) /\ up \in Nat
      BY <1>1, <1>2, <2>2, <2>3
    <3>2. \E y \in Text : BuildPath(w, up) = Longer(y, up)
      BY <3>1, BuildPathShape
    <3>. QED
      BY <3>1, <3>2
  <2>4. FoldLeft(BuildPath, <<>>, s) = BuildPath(x, d)
    BY <1>2
  <2>5. BuildPath(x, d) = Longer(x, d)
    <3>1. up \in Nat /\ d \in Nat
      BY <1>1, <2>2
    <3>2. BuildPath(Longer(y, up), d) = Longer(Longer(y, up), d)
      BY <3>1, BuildPathBelow
    <3>. QED
      BY <3>2
  <2>6. Longer(x, d) \in Text
    BY <1>1, LongerPlaces
  <2>. QED
    BY <1>1, <1>4, <2>2, <2>3, <2>4, <2>5, <2>6
<1>. QED
  BY <1>3, <1>4

LEMMA TreeIInvInit == AcInit => TreeIInv
<1>. SUFFICES ASSUME AcInit
              PROVE  TreeIInv
  OBVIOUS
<1>1. DOMAIN depts = DOMAIN Founded
  BY DEF AcInit
<1>2. ASSUME NEW d \in DOMAIN Founded
      PROVE  /\ depts[d].parent = IF Len(Founded[d]) = 1 THEN 0
                                  ELSE Founded[d][Len(Founded[d]) - 1]
             /\ depts[d].path = FoldLeft(BuildPath, <<>>, Founded[d])
  BY DEF AcInit
<1>3. ASSUME NEW d \in DOMAIN depts
      PROVE  d \in Nat /\ depts[d].path \in Text /\ (Top(depts, d) \/ Hangs(depts, d))
  <2>1. CASE Len(Founded[d]) = 1
    BY <1>1, <1>2, <2>1, FoundedPath DEF Top
  <2>2. CASE Len(Founded[d]) # 1
    <3>. PICK up : up = Last(Front(Founded[d]))
      OBVIOUS
    <3>1. /\ d \in Nat /\ up \in DOMAIN depts /\ depts[d].parent = up
          /\ depts[d].path \in Text /\ depts[d].path = Longer(FoldLeft(BuildPath, <<>>, Founded[up]), d)
      BY <1>1, <1>2, <2>2, FoundedPath
    <3>2. depts[up].path = FoldLeft(BuildPath, <<>>, Founded[up])
      BY <1>1, <1>2, <3>1
    <3>. QED
      BY <3>1, <3>2 DEF Hangs
  <2>. QED
    BY <2>1, <2>2
<1>4. ASSUME NEW u \in DOMAIN users PROVE MadeBelow(users[u])
  <2>1. users[u].maker.role = 0
    BY DEF AcInit
  <2>. QED
    BY <2>1 DEF MadeBelow
<1>5. \A h \in Handler : CarriesTree(handler[h])
  BY DEF AcInit, CarriesTree, Idle
<1>. QED
  BY <1>3, <1>4, <1>5 DEF TreeIInv, PathsFollow

(* No step changes the row of a department. *)
RowsKept == \A d \in DOMAIN depts : d \in DOMAIN depts' /\ depts'[d] = depts[d]

LEMMA SubtreeGrows ==
  ASSUME RowsKept, NEW r
  PROVE  SubtreeIDs(depts, r) \subseteq SubtreeIDs(depts, r)'
<1>. SUFFICES ASSUME NEW d \in SubtreeIDs(depts, r)
              PROVE  d \in SubtreeIDs(depts', r)
  OBVIOUS
<1>1. d \in DOMAIN depts /\ r \in DOMAIN depts /\ IsPrefix(depts[r].path, depts[d].path)
  BY DEF SubtreeIDs
<1>2. /\ d \in DOMAIN depts' /\ r \in DOMAIN depts'
      /\ depts'[r] = depts[r] /\ depts'[d] = depts[d]
  BY <1>1 DEF RowsKept
<1>. QED
  BY <1>1, <1>2 DEF SubtreeIDs

LEMMA MadeIsKept ==
  ASSUME RowsKept, NEW row, MadeBelow(row)
  PROVE  MadeBelow(row)'
<1>1. SubtreeIDs(depts, row.maker.dept) \subseteq SubtreeIDs(depts, row.maker.dept)'
  BY SubtreeGrows
<1>. QED
  BY <1>1 DEF MadeBelow

LEMMA TreeIsKept ==
  ASSUME RowsKept, NEW r, CarriesTree(r)
  PROVE  CarriesTree(r)'
<1>1. ASSUME NEW p, p \in DOMAIN depts
      PROVE  p \in DOMAIN depts' /\ depts'[p].path = depts[p].path
  BY <1>1 DEF RowsKept
<1>2. r.pc = "dept id" => (r.parent \in DOMAIN depts' /\ r.path = depts'[r.parent].path)
  BY <1>1 DEF CarriesTree
<1>3. r.pc = "dept insert" =>
        (r.row.parent \in DOMAIN depts' /\ r.row.path = depts'[r.row.parent].path)
  BY <1>1 DEF CarriesTree
<1>4. r.pc \in {"user id", "user insert"} => MadeBelow(r.row)'
  BY MadeIsKept DEF CarriesTree
<1>. QED
  BY <1>2, <1>3, <1>4 DEF CarriesTree

(* Every step: the request it moves, and what it writes. *)
LEMMA TreeStep ==
  ASSUME AcIInv, TreeIInv, NEW h \in Handler, NEW r, CarriesTree(r),
         handler' = [handler EXCEPT ![h] = r], RowsKept, PathsFollow(depts)',
         \A u \in DOMAIN users' : MadeBelow(users'[u])
  PROVE  TreeIInv'
<1>1. ASSUME NEW g \in Handler PROVE CarriesTree(handler[g])'
  <2>. PICK o : o = IF g = h THEN r ELSE handler[g]
    OBVIOUS
  <2>1. CarriesTree(o)
    <3>1. CarriesTree(handler[g])
      BY DEF TreeIInv
    <3>. QED
      BY <3>1
  <2>2. CarriesTree(o)'
    BY <2>1, TreeIsKept
  <2>3. handler'[g] = o
    BY DEF AcIInv, RequestsShape
  <2>. QED
    BY <2>2, <2>3
<1>2. ASSUME NEW u \in DOMAIN users' PROVE MadeBelow(users[u])'
  <2>. PICK row : row = users'[u]
    OBVIOUS
  <2>1. MadeBelow(row)
    OBVIOUS
  <2>2. MadeBelow(row)'
    BY <2>1, MadeIsKept
  <2>. QED
    BY <2>2
<1>. QED
  BY <1>1, <1>2 DEF TreeIInv

(* A step that leaves both tables as they are. *)
LEMMA TreeStands ==
  ASSUME AcIInv, TreeIInv, UNCHANGED <<depts, users>>, NEW h \in Handler, NEW r, CarriesTree(r),
         handler' = [handler EXCEPT ![h] = r]
  PROVE  TreeIInv'
<1>1. RowsKept /\ PathsFollow(depts)' /\ \A u \in DOMAIN users' : MadeBelow(users'[u])
  BY DEF RowsKept, TreeIInv
<1>. QED
  BY <1>1, TreeStep

LEMMA NothingOfTheTree ==
  ASSUME NEW r, r.pc \notin {"dept id", "dept insert", "user id", "user insert"}
  PROVE  CarriesTree(r)
BY DEF CarriesTree

LEMMA OtherRequests ==
  ASSUME AcIInv, TreeIInv, NEW h \in Handler,
         \/ Login(h) \/ Refresh(h) \/ Mint(h) \/ Logout(h)
         \/ \E t \in tokens, op \in Operation : Authenticate(h, t, op)
         \/ CheckStatus(h)
  PROVE  TreeIInv'
<1>1. UNCHANGED <<depts, users>>
  BY DEF Login, Refresh, Mint, Logout, Authenticate, CheckStatus
<1>. DEFINE Quiet(pc) == pc \notin {"dept id", "dept insert", "user id", "user insert"}
<1>2. \E r : Quiet(r.pc) /\ handler' = [handler EXCEPT ![h] = r]
  <2>. USE DEF Begin, Continue, Finish, Idle
  <2>1. CASE Login(h)
    <3>. PICK u : handler' = [handler EXCEPT ![h] =
                    [pc |-> "mint", uid |-> u, role |-> users[u].role,
                     dept |-> users[u].dept, seen |-> clock, spent |-> {}]]
      BY <2>1 DEF Login
    <3>. PICK r : r = [pc |-> "mint", uid |-> u, role |-> users[u].role,
                       dept |-> users[u].dept, seen |-> clock, spent |-> {}]
      OBVIOUS
    <3>1. r.pc = "mint"
      OBVIOUS
    <3>. QED
      BY <3>1
  <2>2. CASE Refresh(h)
    <3>. PICK t : handler' = [handler EXCEPT ![h] =
                    [pc |-> "mint", uid |-> t.uid, role |-> t.role,
                     dept |-> t.dept, seen |-> clock, spent |-> {t.jti}]]
      BY <2>2 DEF Refresh
    <3>. PICK r : r = [pc |-> "mint", uid |-> t.uid, role |-> t.role,
                       dept |-> t.dept, seen |-> clock, spent |-> {t.jti}]
      OBVIOUS
    <3>1. r.pc = "mint"
      OBVIOUS
    <3>. QED
      BY <3>1
  <2>3. CASE Mint(h) \/ Logout(h)
    <3>1. handler' = [handler EXCEPT ![h] = Idle] /\ Idle.pc = "idle"
      BY <2>3 DEF Mint, Logout
    <3>. QED
      BY <3>1
  <2>4. CASE \E t \in tokens, op \in Operation : Authenticate(h, t, op)
    <3>. PICK t \in tokens, op \in Operation : Authenticate(h, t, op)
      BY <2>4
    <3>. PICK r : r = [pc |-> op, token |-> t]
      OBVIOUS
    <3>1. r.pc = op /\ Quiet(op) /\ handler' = [handler EXCEPT ![h] = r]
      BY DEF Authenticate, Operation
    <3>. QED
      BY <3>1
  <2>5. CASE CheckStatus(h)
    <3>. PICK u, status : \/ handler' = [handler EXCEPT ![h] =
                                [pc |-> "set status", uid |-> u, status |-> status]]
                          \/ handler' = [handler EXCEPT ![h] = Idle]
      BY <2>5 DEF CheckStatus
    <3>. PICK r : r = [pc |-> "set status", uid |-> u, status |-> status]
      OBVIOUS
    <3>1. Quiet(r.pc) /\ Quiet(Idle.pc)
      OBVIOUS
    <3>. QED
      BY <3>1
  <2>. QED
    BY <2>1, <2>2, <2>3, <2>4, <2>5
<1>. PICK r : Quiet(r.pc) /\ handler' = [handler EXCEPT ![h] = r]
  BY <1>2
<1>3. CarriesTree(r)
  BY NothingOfTheTree
<1>. QED
  BY <1>1, <1>3, TreeStands

LEMMA IdleCarriesNoTree == CarriesTree(Idle)
BY NothingOfTheTree DEF Idle

LEMMA FindParentTree ==
  ASSUME AcIInv, TreeIInv, NEW h \in Handler, FindParent(h)
  PROVE  TreeIInv'
<1>1. UNCHANGED <<depts, users>>
  BY DEF FindParent
<1>2. CASE Finish(h)
  BY <1>1, <1>2, IdleCarriesNoTree, TreeStands DEF Finish, Continue
<1>3. CASE \E p \in DOMAIN depts :
             Continue(h, [pc |-> "dept id", parent |-> p, path |-> depts[p].path])
  <2>. PICK p \in DOMAIN depts :
         Continue(h, [pc |-> "dept id", parent |-> p, path |-> depts[p].path])
    BY <1>3
  <2>. PICK r : r = [pc |-> "dept id", parent |-> p, path |-> depts[p].path]
    OBVIOUS
  <2>1. CarriesTree(r)
    BY DEF CarriesTree
  <2>. QED
    BY <1>1, <2>1, TreeStands DEF Continue
<1>. QED
  BY <1>2, <1>3 DEF FindParent

LEMMA DeptIDTree ==
  ASSUME AcIInv, TreeIInv, NEW h \in Handler, DeptID(h)
  PROVE  TreeIInv'
<1>1. UNCHANGED <<depts, users>>
  BY DEF DeptID
<1>. PICK o : o = handler[h]
  OBVIOUS
<1>2. o.parent \in DOMAIN depts /\ o.path = depts[o.parent].path
  BY DEF TreeIInv, CarriesTree, DeptID, At
<1>. PICK row : row = [parent |-> o.parent, path |-> o.path]
  OBVIOUS
<1>. PICK id : handler' = [handler EXCEPT ![h] = [pc |-> "dept insert", id |-> id, row |-> row]]
  BY DEF DeptID, Continue
<1>. PICK r : r = [pc |-> "dept insert", id |-> id, row |-> row]
  OBVIOUS
<1>3. CarriesTree(r)
  BY <1>2 DEF CarriesTree
<1>. QED
  BY <1>1, <1>3, TreeStands

(* The row that is inserted hangs from its parent, whatever was inserted   *)
(* since the parent was read.                                              *)
LEMMA InsertDeptTree ==
  ASSUME AcIInv, TreeIInv, NEW h \in Handler, InsertDept(h)
  PROVE  TreeIInv'
<1>. PICK o : o = handler[h]
  OBVIOUS
<1>1. o.id \in Nat /\ o.row = [parent |-> o.row.parent, path |-> o.row.path]
  BY RequestCarries DEF InsertDept, Carries
<1>2. o.row.parent \in DOMAIN depts /\ o.row.path = depts[o.row.parent].path
  BY DEF TreeIInv, CarriesTree, InsertDept, At
<1>3. users' = users /\ handler' = [handler EXCEPT ![h] = Idle]
  BY DEF InsertDept, Finish, Continue
<1>4. CASE depts' = depts
  BY <1>3, <1>4, IdleCarriesNoTree, TreeStands
<1>5. CASE /\ o.id \notin DOMAIN depts
           /\ depts' = Put(depts, {o.id}, [o.row EXCEPT !.path = BuildPath(o.row.path, o.id)])
  <2>. PICK id \in Nat : id = o.id
    BY <1>1
  <2>. PICK p \in DOMAIN depts : p = o.row.parent
    BY <1>2
  <2>. PICK path : path = BuildPath(depts[p].path, id)
    OBVIOUS
  <2>1. [o.row EXCEPT !.path = path] = [parent |-> p, path |-> path]
    BY <1>1
  <2>2. depts' = [d \in DOMAIN depts \cup {id} |->
                    IF d \in {id} THEN [parent |-> p, path |-> path] ELSE depts[d]]
    BY <1>2, <1>5, <2>1 DEF Put
  <2>3. DOMAIN depts' = DOMAIN depts \cup {id} /\ depts'[id] = [parent |-> p, path |-> path]
    BY <2>2
  <2>4. \A d \in DOMAIN depts : d \in DOMAIN depts' /\ depts'[d] = depts[d]
    BY <1>5, <2>2
  <2>5. path \in Text /\ path = Longer(depts[p].path, id)
    <3>. PICK y \in Text, a \in Nat : depts[p].path = Longer(y, a)
      <4>1. p \in Nat /\ (Top(depts, p) \/ Hangs(depts, p)) /\ <<Slash>> \in Text
        BY SlashIsClosed DEF TreeIInv, PathsFollow, Closed
      <4>2. Hangs(depts, p) => depts[depts[p].parent].path \in Text
        BY DEF TreeIInv, PathsFollow, Hangs
      <4>. QED
        BY <4>1, <4>2 DEF Top, Hangs
    <3>1. path = Longer(Longer(y, a), id)
      BY BuildPathBelow
    <3>2. Longer(Longer(y, a), id) \in Text
      BY LongerPlaces
    <3>. QED
      BY <3>1, <3>2
  <2>6. Hangs(depts, id)'
    BY <2>3, <2>4, <2>5 DEF Hangs
  <2>7. ASSUME NEW d \in DOMAIN depts
        PROVE  d \in Nat /\ depts'[d].path \in Text /\ (Top(depts, d)' \/ Hangs(depts, d)')
    <3>1. d \in Nat /\ depts[d].path \in Text /\ (Top(depts, d) \/ Hangs(depts, d))
      BY DEF TreeIInv, PathsFollow
    <3>2. depts'[d] = depts[d]
      BY <2>4
    <3>3. Top(depts, d) => Top(depts, d)'
      BY <3>2 DEF Top
    <3>4. ASSUME Hangs(depts, d) PROVE Hangs(depts, d)'
      <4>1. depts[d].parent \in DOMAIN depts
        BY <3>4 DEF Hangs
      <4>2. depts'[depts[d].parent] = depts[depts[d].parent] /\ depts[d].parent \in DOMAIN depts'
        BY <2>4, <4>1
      <4>. QED
        BY <3>2, <3>4, <4>2 DEF Hangs
    <3>. QED
      BY <3>1, <3>2, <3>3, <3>4
  <2>8. PathsFollow(depts)'
    <3>1. depts'[id].path \in Text
      BY <2>3, <2>5
    <3>. QED
      BY <2>3, <2>6, <2>7, <3>1 DEF PathsFollow
  <2>9. RowsKept
    BY <2>4 DEF RowsKept
  <2>10. \A u \in DOMAIN users' : MadeBelow(users'[u])
    BY <1>3 DEF TreeIInv
  <2>. QED
    BY <1>3, <2>8, <2>9, <2>10, IdleCarriesNoTree, TreeStep
<1>. QED
  BY <1>4, <1>5 DEF InsertDept

(* CreateUser checks the role and the department before it takes an id.    *)
LEMMA CheckUserTree ==
  ASSUME AcIInv, TreeIInv, NEW h \in Handler, CheckUser(h)
  PROVE  TreeIInv'
<1>0. \A role \in 1 .. 3 : ~(role <= 2) => role = 3
  OBVIOUS
<1>1. UNCHANGED <<depts, users>>
  BY DEF CheckUser
<1>2. CASE Finish(h)
  BY <1>1, <1>2, IdleCarriesNoTree, TreeStands DEF Finish, Continue
<1>3. CASE ~Finish(h)
  <2>. PICK c : c = Claim(h)
    OBVIOUS
  <2>. PICK name \in NewName, role \in 1 .. 3, d \in AskedDept :
         /\ ~(c.role = 2 /\ role <= 2) /\ InOwnSubtree(c, d)
         /\ Continue(h, [pc |-> "user id",
                         row |-> [name |-> name, role |-> role, dept |-> d, status |-> 1,
                                  maker |-> [role |-> c.role, dept |-> c.dept]]])
    BY <1>3 DEF CheckUser
  <2>. PICK m : m = [role |-> c.role, dept |-> c.dept]
    OBVIOUS
  <2>. PICK row : row = [name |-> name, role |-> role, dept |-> d, status |-> 1, maker |-> m]
    OBVIOUS
  <2>1. MadeBelow(row)
    <3>1. row.maker = m /\ m.role = c.role /\ m.dept = c.dept /\ row.role = role /\ row.dept = d
      OBVIOUS
    <3>2. c.role = 2 => role = 3
      BY <1>0, Zenon
    <3>3. c.role = 2 => d \in SubtreeIDs(depts, c.dept)
      BY DEF InOwnSubtree
    <3>. QED
      BY <3>1, <3>2, <3>3 DEF MadeBelow
  <2>. PICK r : r = [pc |-> "user id", row |-> row]
    OBVIOUS
  <2>2. CarriesTree(r)
    BY <2>1 DEF CarriesTree
  <2>. QED
    BY <1>1, <2>2, TreeStands DEF Continue
<1>. QED
  BY <1>2, <1>3

LEMMA UserIDTree ==
  ASSUME AcIInv, TreeIInv, NEW h \in Handler, UserID(h)
  PROVE  TreeIInv'
<1>1. UNCHANGED <<depts, users>>
  BY DEF UserID
<1>. PICK row : row = handler[h].row
  OBVIOUS
<1>2. MadeBelow(row)
  BY DEF TreeIInv, CarriesTree, UserID, At
<1>. PICK id : handler' = [handler EXCEPT ![h] = [pc |-> "user insert", id |-> id, row |-> row]]
  BY DEF UserID, Continue
<1>. PICK r : r = [pc |-> "user insert", id |-> id, row |-> row]
  OBVIOUS
<1>3. CarriesTree(r)
  BY <1>2 DEF CarriesTree
<1>. QED
  BY <1>1, <1>3, TreeStands

LEMMA InsertUserTree ==
  ASSUME AcIInv, TreeIInv, NEW h \in Handler, InsertUser(h)
  PROVE  TreeIInv'
<1>. PICK row, id : row = handler[h].row /\ id = handler[h].id
  OBVIOUS
<1>1. MadeBelow(row)
  BY DEF TreeIInv, CarriesTree, InsertUser, At
<1>2. depts' = depts /\ handler' = [handler EXCEPT ![h] = Idle]
  BY DEF InsertUser, Finish, Continue
<1>3. users' = users \/ users' = [u \in DOMAIN users \cup {id} |->
                                    IF u \in {id} THEN row ELSE users[u]]
  BY DEF InsertUser, Put
<1>4. ASSUME NEW u \in DOMAIN users' PROVE MadeBelow(users'[u])
  <2>1. users'[u] = row \/ (u \in DOMAIN users /\ users'[u] = users[u])
    BY <1>3
  <2>2. u \in DOMAIN users => MadeBelow(users[u])
    BY DEF TreeIInv
  <2>. QED
    BY <1>1, <2>1, <2>2
<1>5. RowsKept /\ PathsFollow(depts)'
  BY <1>2 DEF RowsKept, TreeIInv
<1>. QED
  BY <1>2, <1>4, <1>5, IdleCarriesNoTree, TreeStep

LEMMA UpdateStatusTree ==
  ASSUME AcIInv, TreeIInv, NEW h \in Handler, UpdateStatus(h)
  PROVE  TreeIInv'
<1>. PICK w, status : users' = [users EXCEPT ![w].status = status]
  BY DEF UpdateStatus
<1>1. depts' = depts /\ handler' = [handler EXCEPT ![h] = Idle]
  BY DEF UpdateStatus, Finish, Continue
<1>2. ASSUME NEW u \in DOMAIN users' PROVE MadeBelow(users'[u])
  <2>. PICK old : old = users[u]
    OBVIOUS
  <2>1. old \in Account /\ MadeBelow(old) /\ u \in DOMAIN users
    BY DEF AcIInv, UsersShape, TreeIInv
  <2>2. users'[u] = old \/ users'[u] = [old EXCEPT !.status = status]
    BY <2>1
  <2>. PICK new : new = [old EXCEPT !.status = status]
    OBVIOUS
  <2>3. new.maker = old.maker /\ new.role = old.role /\ new.dept = old.dept
    BY <2>1 DEF Account
  <2>4. MadeBelow(new)
    BY <2>1, <2>3 DEF MadeBelow
  <2>. QED
    BY <2>1, <2>2, <2>4
<1>3. RowsKept /\ PathsFollow(depts)'
  BY <1>1 DEF RowsKept, TreeIInv
<1>. QED
  BY <1>1, <1>2, <1>3, IdleCarriesNoTree, TreeStep

LEMMA TreeStutter ==
  ASSUME TreeIInv, UNCHANGED <<depts, users, handler>>
  PROVE  TreeIInv'
<1>1. ASSUME NEW r PROVE MadeBelow(r)' <=> MadeBelow(r)
  BY DEF MadeBelow
<1>2. ASSUME NEW r PROVE CarriesTree(r)' <=> CarriesTree(r)
  BY <1>1 DEF CarriesTree
<1>. QED
  BY <1>1, <1>2 DEF TreeIInv

-------------------------------------------------------------------------------
(***************************************************************************)
(* Theorems                                                                *)
(***************************************************************************)
LEMMA AcIInvHolds == AcSpec => []AcIInv
<1>1. ASSUME AcIInv, [AcNext]_vars
      PROVE  AcIInv'
  <2>1. CASE UNCHANGED vars
    BY <1>1, <2>1, AcIInvStutter
  <2>2. CASE Tick
    BY <1>1, <2>2, TickStep
  <2>3. ASSUME NEW h \in Handler,
               \/ Login(h) \/ Refresh(h) \/ Mint(h) \/ Logout(h)
               \/ \E t \in tokens, op \in Operation : Authenticate(h, t, op)
        PROVE  AcIInv'
    BY <1>1, <2>3, LoginStep, RefreshStep, MintStep, LogoutStep, AuthenticateStep
  <2>4. ASSUME NEW h \in Handler,
               \/ FindParent(h) \/ DeptID(h) \/ InsertDept(h)
               \/ CheckUser(h) \/ UserID(h) \/ InsertUser(h)
               \/ CheckStatus(h) \/ UpdateStatus(h)
        PROVE  AcIInv'
    BY <1>1, <2>4, FindParentStep, DeptIDStep, InsertDeptStep, CheckUserStep, UserIDStep,
       InsertUserStep, CheckStatusStep, UpdateStatusStep
  <2>. QED
    BY <1>1, <2>1, <2>2, <2>3, <2>4 DEF AcNext
<1>. QED
  BY AcIInvInit, <1>1, PTL DEF AcSpec

(* The tables keep their types and keys, usernames are not shared, and the *)
(* claims of every token (GenerateTokens) are those of its account, across *)
(* refreshes: an id read by two requests (NextID) never gives one of them  *)
(* the other's row.                                                        *)
THEOREM AcInvHolds == AcSpec => []AcInv
<1>1. ASSUME AcIInv
      PROVE  AcInv
  <2>1. AcTypeOK
    <3>1. \A u \in DOMAIN users : u \in Nat /\ users[u] \in Account
      BY <1>1 DEF AcIInv, UsersShape
    <3>. QED
      BY <1>1, <3>1 DEF AcIInv, DeptsShape, UsersShape, TokensShape, ListShape, AcTypeOK
  <2>2. ClaimsAreTrue
    BY <1>1 DEF AcIInv, TokensShape, ReadFrom, ClaimsAreTrue
  <2>. QED
    BY <2>1, <2>2 DEF AcInv
<1>. QED
  BY AcIInvHolds, <1>1, PTL

(* What was accepted for a disabled account, and the dates compared there. *)
RunsOutIInv == DisabledRunsOut /\ \A u \in DOMAIN since : since[u] \in Nat

(* A token that was issued before its account was disabled is refused when *)
(* its life is over, which is less than that after the account was         *)
(* disabled; one issued later was read before.                             *)
LEMMA AcceptedRunsOut ==
  ASSUME AcIInv, RunsOutIInv, NEW h \in Handler, NEW t \in tokens, NEW op \in Operation,
         Authenticate(h, t, op)
  PROVE  RunsOutIInv'
<1>1. UNCHANGED since
  BY DEF Authenticate
<1>2. ASSUME NEW s \in late'
      PROVE  s.at < s.off + AccessTTL \/ (s.token.seen <= s.off /\ s.off < s.token.at)
  <2>1. CASE s \in late
    BY <2>1 DEF RunsOutIInv, DisabledRunsOut
  <2>2. CASE s \notin late
    <3>1. t.uid \in DOMAIN since /\ s = [token |-> t, at |-> clock, off |-> since[t.uid]]
      BY <1>2, <2>2 DEF Authenticate
    <3>2. s.token = t /\ s.at = clock /\ s.off = since[t.uid]
      BY <3>1
    <3>3. t.at \in Nat /\ clock \in Nat /\ clock < t.at + AccessTTL
      BY DEF Authenticate, AcIInv, TokensShape, Pair
    <3>4. t.seen <= since[t.uid] /\ since[t.uid] \in Nat
      BY <3>1 DEF AcIInv, TokensShape, ReadFrom, RunsOutIInv
    <3>5. PICK off \in Nat : off = since[t.uid]
      BY <3>4
    <3>6. clock < off + AccessTTL \/ off < t.at
      BY <3>3, TTLAssumption
    <3>. QED
      BY <3>2, <3>4, <3>5, <3>6
  <2>. QED
    BY <2>1, <2>2
<1>. QED
  BY <1>1, <1>2 DEF RunsOutIInv, DisabledRunsOut

(* The time an account is disabled at is that of the clock. *)
LEMMA StatusRunsOut ==
  ASSUME AcIInv, RunsOutIInv, NEW h \in Handler, UpdateStatus(h)
  PROVE  RunsOutIInv'
<1>. PICK u, status : u = handler[h].uid /\ status = handler[h].status
  OBVIOUS
<1>1. late' = late /\ clock \in Nat
  <2>1. late' = late
    BY DEF UpdateStatus
  <2>2. clock \in 0 .. MaxTime /\ MaxTime \in Nat
    BY BoundAssumption DEF AcIInv
  <2>. QED
    BY <2>1, <2>2
<1>2. \/ since' = [v \in DOMAIN since \ {u} |-> since[v]]
      \/ since' = since
      \/ since' = Put(since, {u}, clock)
  <2>1. since' = IF status = 1
                 THEN [v \in DOMAIN since \ {u} |-> since[v]]
                 ELSE IF users[u].status = 0 THEN since ELSE Put(since, {u}, clock)
    BY DEF UpdateStatus
  <2>. QED
    BY <2>1
<1>3. \A v \in DOMAIN since' : since'[v] \in Nat
  BY <1>1, <1>2 DEF RunsOutIInv, Put
<1>. QED
  BY <1>1, <1>3 DEF RunsOutIInv, DisabledRunsOut

(* UpdateUserStatus lists no token and JWTAuth does not ask for the        *)
(* account, so a disabled account is still served; but no refresh keeps it *)
(* so: from AccessTTL after it was disabled only a token is accepted that  *)
(* was in the making at that time, however long and often that happens.    *)
THEOREM DisabledRunsOutHolds == AcSpec => []DisabledRunsOut
<1>1. AcInit => RunsOutIInv
  BY DEF AcInit, RunsOutIInv, DisabledRunsOut
<1>2. ASSUME AcIInv, RunsOutIInv, [AcNext]_vars
      PROVE  RunsOutIInv'
  <2>1. CASE UNCHANGED <<since, late>>
    BY <1>2, <2>1 DEF RunsOutIInv, DisabledRunsOut
  <2>2. ASSUME NEW h \in Handler, NEW t \in tokens, NEW op \in Operation, Authenticate(h, t, op)
        PROVE  RunsOutIInv'
    BY <1>2, <2>2, AcceptedRunsOut
  <2>3. ASSUME NEW h \in Handler, UpdateStatus(h)
        PROVE  RunsOutIInv'
    BY <1>2, <2>3, StatusRunsOut
  <2>4. ASSUME NEW h \in Handler, Login(h) \/ Refresh(h) \/ Mint(h) \/ Logout(h)
        PROVE  UNCHANGED <<since, late>>
    BY <2>4 DEF Login, Refresh, Mint, Logout, history
  <2>5. ASSUME NEW h \in Handler,
               \/ FindParent(h) \/ DeptID(h) \/ InsertDept(h)
               \/ CheckUser(h) \/ UserID(h) \/ InsertUser(h) \/ CheckStatus(h)
        PROVE  UNCHANGED <<since, late>>
    BY <2>5 DEF FindParent, DeptID, InsertDept, CheckUser, UserID, InsertUser, CheckStatus, history
  <2>6. Tick \/ UNCHANGED vars => UNCHANGED <<since, late>>
    BY DEF Tick, vars, history
  <2>. QED
    BY <1>2, <2>1, <2>2, <2>3, <2>4, <2>5, <2>6 DEF AcNext
<1>3. RunsOutIInv => DisabledRunsOut
  BY DEF RunsOutIInv
<1>. QED
  BY AcIInvHolds, <1>1, <1>2, <1>3, PTL DEF AcSpec

(* JWTAuth accepts no access token that Logout answered for, however the   *)
(* requests interleave and however long the tokens live, except when Redis *)
(* failed one of the two.                                                  *)
THEOREM SignedOutStaysOutHolds == AcSpec => []SignedOutStaysOut
<1>1. ASSUME AcIInv
      PROVE  SignedOutStaysOut
  BY <1>1 DEF AcIInv
<1>. QED
  BY AcIInvHolds, <1>1, PTL
LEMMA TreeIInvHolds == AcSpec => []TreeIInv
<1>1. ASSUME AcIInv, TreeIInv, [AcNext]_vars
      PROVE  TreeIInv'
  <2>1. CASE UNCHANGED vars
    BY <1>1, <2>1, TreeStutter DEF vars
  <2>2. CASE Tick
    BY <1>1, <2>2, TreeStutter DEF Tick
  <2>3. ASSUME NEW h \in Handler,
               \/ Login(h) \/ Refresh(h) \/ Mint(h) \/ Logout(h)
               \/ \E t \in tokens, op \in Operation : Authenticate(h, t, op)
               \/ CheckStatus(h)
        PROVE  TreeIInv'
    BY <1>1, <2>3, OtherRequests
  <2>4. ASSUME NEW h \in Handler,
               \/ FindParent(h) \/ DeptID(h) \/ InsertDept(h)
               \/ CheckUser(h) \/ UserID(h) \/ InsertUser(h) \/ UpdateStatus(h)
        PROVE  TreeIInv'
    BY <1>1, <2>4, FindParentTree, DeptIDTree, InsertDeptTree, CheckUserTree, UserIDTree,
       InsertUserTree, UpdateStatusTree
  <2>. QED
    BY <1>1, <2>1, <2>2, <2>3, <2>4 DEF AcNext
<1>. QED
  BY TreeIInvInit, AcIInvHolds, <1>1, PTL DEF AcSpec

(* However many departments are created at the same time, whatever their   *)
(* ids and however deep the tree, the services that compare paths as text  *)
(* (SubtreeIDs, CollegeSubtreeIDs) find the departments that parent_id     *)
(* puts below another, colleges share nobody, and the tree DeptTree draws  *)
(* loses nobody.                                                           *)
THEOREM ScopesFollowTreeHolds == AcSpec => []ScopesFollowTree
<1>1. ASSUME AcIInv, TreeIInv
      PROVE  ScopesFollowTree
  <2>1. PathsFollow(depts) /\ IsFiniteSet(DOMAIN depts)
    BY <1>1 DEF AcIInv, DeptsShape, TreeIInv
  <2>2. SubtreeIsDescendants
    BY <2>1, SubtreesAreDescendants DEF SubtreeIsDescendants
  <2>3. CollegesAreDisjoint
    BY <2>1, CollegesDivide DEF CollegesAreDisjoint
  <2>4. TreeShowsScope
    BY <2>1, TreeShowsAll, TreeShowsSubtree DEF TreeShowsScope, DeptScope
  <2>. QED
    BY <2>2, <2>3, <2>4 DEF ScopesFollowTree
<1>. QED
  BY AcIInvHolds, TreeIInvHolds, <1>1, PTL

(* CreateUser reads the subtree of the administrator before it takes an id *)
(* and inserts the row, while departments are created: the account is      *)
(* still an ordinary one below the administrator's department by           *)
(* parent_id, and ListUsers shows it to the administrator.                 *)
THEOREM MadeInOwnCollegeHolds == AcSpec => []MadeInOwnCollege
<1>1. ASSUME AcIInv, TreeIInv, NEW u \in DOMAIN users,
             users[u].maker.role = 2, 0 \notin DOMAIN depts
      PROVE  /\ users[u].role = 3
             /\ users[u].dept \in Descendants(depts, users[u].maker.dept)
             /\ u \in Listing(users[u].maker, 0) \cap Listing(users[u].maker, users[u].dept)
  <2>. PICK m, d : m = users[u].maker /\ d = users[u].dept
    OBVIOUS
  <2>. PICK own : own = SubtreeIDs(depts, m.dept)
    OBVIOUS
  <2>1. users[u].role = 3 /\ d \in own /\ m.role = 2
    BY <1>1 DEF TreeIInv, MadeBelow
  <2>2. m.dept \in DOMAIN depts /\ d \in DOMAIN depts /\ PathsFollow(depts)
    BY <1>1, <2>1 DEF SubtreeIDs, TreeIInv
  <2>3. d \in Descendants(depts, m.dept)
    BY <1>1, <2>1, <2>2, SubtreesAreDescendants
  <2>4. d # 0 /\ d \in SubtreeIDs(depts, d)
    BY <1>1, <2>2, SubtreeStep
  <2>5. u \in Listing(m, 0)
    BY <2>1 DEF Listing
  <2>6. u \in Listing(m, d)
    BY <2>1, <2>4 DEF Listing
  <2>. QED
    BY <2>1, <2>3, <2>5, <2>6
<1>2. ASSUME AcIInv, TreeIInv
      PROVE  MadeInOwnCollege
  BY <1>1, <1>2 DEF MadeInOwnCollege
<1>. QED
  BY AcIInvHolds, TreeIInvHolds, <1>2, PTL
===============================================================================
