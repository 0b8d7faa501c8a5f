-------------------------- MODULE SigmaRulesProofs --------------------------
(***************************************************************************)
(* What the reading of a rule file and the parsing of its condition keep,  *)
(* and with them the rules.  The parser and the reference meaning are      *)
(* recursive functions; both are shown to give what the grammar derives,   *)
(* where the grammar is the least set of derivations closed under its      *)
(* rules: the parser by induction over derivations and over the size of a  *)
(* call, the meaning by induction over the number of words.                *)
(***************************************************************************)
EXTENDS SigmaEngineProofs

-----------------------------------------------------------------------------
(* The rule files.                                                           *)

\* The letters of a text, and those of the escapes among them.
Letters == STRING \cup {"bs", "quote", "n", "u", "0", "2", "3", "6", "c", "e"}

Escapes(s) ==
    LET out[i \in 0 .. Len(s)] == IF i = 0 THEN <<>> ELSE out[i - 1] \o R!Escape(s[i])
    IN  out
Escape1(s, g, i) == IF i = 0 THEN <<>> ELSE g[i - 1] \o R!Escape(s[i])

\* Escaping goes from letter to letter.
LEMMA EscapesDefined ==
    ASSUME NEW s \in Seq(Letters)
    PROVE  Escapes(s) = [i \in 0 .. Len(s) |-> Escape1(s, Escapes(s), i)]
<1> DEFINE Good(n, g) == g = [i \in 0 .. n |-> g[i]] /\ \A i \in 0 .. n : g[i] = Escape1(s, g, i)
           There(n) == \E g : Good(n, g)
           T == {n \in Nat : There(n)}
<1>0. Len(s) \in Nat
  OBVIOUS
<1>1. There(0)
  <2> DEFINE g == [i \in 0 .. 0 |-> <<>>]
  <2>1. Good(0, g)
    BY DEF Escape1
  <2> QED
    BY <2>1
<1>2. ASSUME NEW n \in Nat, There(n) PROVE There(n + 1)
  <2>1. PICK g : Good(n, g)
    BY <1>2
  <2> DEFINE h == [i \in 0 .. n + 1 |-> IF i = n + 1 THEN Escape1(s, g, n + 1) ELSE g[i]]
  <2>2. \A i \in 0 .. n : h[i] = g[i] /\ i \in 0 .. n + 1
    OBVIOUS
  <2>3. h[n + 1] = Escape1(s, g, n + 1) /\ h = [i \in 0 .. n + 1 |-> h[i]]
    OBVIOUS
  <2> HIDE DEF h
  <2>4. ASSUME NEW i \in 0 .. n + 1 PROVE h[i] = Escape1(s, h, i)
    <3>1. CASE i = 0
      <4>1. h[0] = g[0] /\ g[0] = Escape1(s, g, 0)
        BY <2>1, <2>2
      <4> QED
        BY <3>1, <4>1 DEF Escape1
    <3>2. CASE i # 0
      <4>1. i - 1 \in 0 .. n /\ h[i - 1] = g[i - 1]
        BY <2>2, <2>4, <3>2
      <4>2. h[i] = Escape1(s, g, i)
        <5>1. CASE i = n + 1
          BY <2>3, <5>1
        <5>2. CASE i # n + 1
          <6>1. i \in 0 .. n
            BY <2>4, <5>2
          <6> QED
            BY <2>1, <2>2, <6>1
        <5> QED
          BY <5>1, <5>2
      <4> QED
        BY <3>2, <4>1, <4>2 DEF Escape1
    <3> QED
      BY <3>1, <3>2
  <2> QED
    BY <2>3, <2>4
<1> HIDE DEF There
<1>3. There(Len(s))
  <2>1. 0 \in T /\ \A n \in Nat : n \in T => n + 1 \in T
    BY <1>1, <1>2
  <2> HIDE DEF T
  <2>2. Nat \subseteq T
    BY <2>1, Climb
  <2> QED
    BY <1>0, <2>2 DEF T
<1>4. PICK g : Good(Len(s), g)
  BY <1>3 DEF There
<1>5. g = [i \in 0 .. Len(s) |-> IF i = 0 THEN <<>> ELSE g[i - 1] \o R!Escape(s[i])]
  <2>1. g = [i \in 0 .. Len(s) |-> g[i]] /\ \A i \in 0 .. Len(s) : g[i] = Escape1(s, g, i)
    BY <1>4
  <2> QED
    BY <2>1 DEF Escape1
<1> QED
  BY <1>5 DEF Escapes, Escape1

\* What is written for a letter is a text, and a letter that is not special is written as it is.
LEMMA EscapeLetters ==
    /\ <<>> \in Seq(Letters)
    /\ \A x \in Letters : R!Escape(x) \in Seq(Letters)
    /\ \A x : x \notin R!Special => R!Escape(x) = <<x>>
<1>1. ASSUME NEW S, NEW x \in S, NEW y \in S, NEW z \in S, NEW v \in S, NEW w \in S
      PROVE  <<>> \in Seq(S) /\ <<x>> \in Seq(S) /\ <<x, y>> \in Seq(S) /\ <<x, y, z, z, v, w>> \in Seq(S)
  OBVIOUS
<1>2. {"bs", "quote", "n", "u", "0", "2", "3", "6", "c", "e"} \subseteq Letters
  BY DEF Letters
<1>3. <<>> \in Seq(Letters)
  BY <1>1, <1>2
<1>4. ASSUME NEW x \in Letters PROVE R!Escape(x) \in Seq(Letters)
  <2>1. <<x>> \in Seq(Letters)
    BY <1>1, <1>2
  <2>2. <<"bs", "bs">> \in Seq(Letters) /\ <<"bs", "quote">> \in Seq(Letters) /\ <<"bs", "n">> \in Seq(Letters)
    BY <1>1, <1>2
  <2>3. /\ <<"bs", "u", "0", "0", "3", "c">> \in Seq(Letters) /\ <<"bs", "u", "0", "0", "3", "e">> \in Seq(Letters)
        /\ <<"bs", "u", "0", "0", "2", "6">> \in Seq(Letters)
    BY <1>1, <1>2
  <2>4. \/ R!Escape(x) \in {<<x>>, <<"bs", "bs">>, <<"bs", "quote">>, <<"bs", "n">>}
        \/ R!Escape(x) \in {<<"bs", "u", "0", "0", "3", "c">>, <<"bs", "u", "0", "0", "3", "e">>,
                            <<"bs", "u", "0", "0", "2", "6">>}
    BY DEF R!Escape
  <2> QED
    BY <2>1, <2>2, <2>3, <2>4, Zenon
<1>5. ASSUME NEW x, x \notin R!Special PROVE R!Escape(x) = <<x>>
  BY <1>5 DEF R!Escape, R!Special
<1> QED
  BY <1>3, <1>4, <1>5

\* Escaping stage by stage.
LEMMA EscapesStep ==
    ASSUME NEW s \in Seq(Letters)
    PROVE  /\ Escapes(s)[0] = <<>>
           /\ \A n \in 0 .. Len(s) - 1 : Escapes(s)[n + 1] = Escapes(s)[n] \o R!Escape(s[n + 1])
           /\ \A n \in 0 .. Len(s) : Escapes(s)[n] \in Seq(Letters)
<1> DEFINE f == Escapes(s)
           T == {n \in Nat : n <= Len(s) => f[n] \in Seq(Letters)}
<1>0. Len(s) \in Nat /\ \A n \in 1 .. Len(s) : s[n] \in Letters
  OBVIOUS
<1>1. f = [i \in 0 .. Len(s) |-> Escape1(s, f, i)]
  BY EscapesDefined
<1> HIDE DEF f
<1>2. \A i \in 0 .. Len(s) : f[i] = Escape1(s, f, i)
  BY <1>1
<1>3. f[0] = <<>>
  BY <1>0, <1>2 DEF Escape1
<1>4. ASSUME NEW n \in 0 .. Len(s) - 1 PROVE f[n + 1] = f[n] \o R!Escape(s[n + 1])
  <2>1. n + 1 \in 0 .. Len(s) /\ n + 1 # 0 /\ (n + 1) - 1 = n
    BY <1>0
  <2> QED
    BY <1>2, <2>1 DEF Escape1
<1>5. 0 \in T
  BY <1>3, EscapeLetters
<1>6. ASSUME NEW n \in Nat, n \in T PROVE n + 1 \in T
  <2>1. CASE n + 1 <= Len(s)
    <3>1. n \in 0 .. Len(s) - 1 /\ n <= Len(s) /\ n + 1 \in 1 .. Len(s)
      BY <1>0, <2>1
    <3>2. f[n] \in Seq(Letters) /\ f[n + 1] = f[n] \o R!Escape(s[n + 1]) /\ s[n + 1] \in Letters
      BY <1>0, <1>4, <1>6, <3>1
    <3>3. R!Escape(s[n + 1]) \in Seq(Letters)
      BY <3>2, EscapeLetters
    <3>4. f[n + 1] \in Seq(Letters)
      BY <3>2, <3>3
    <3> QED
      BY <3>4
  <2>2. CASE ~(n + 1 <= Len(s))
    BY <2>2
  <2> QED
    BY <2>1, <2>2
<1> HIDE DEF T
<1>7. Nat \subseteq T
  BY <1>5, <1>6, Climb
<1>8. ASSUME NEW n \in 0 .. Len(s) PROVE f[n] \in Seq(Letters)
  BY <1>0, <1>7, <1>8 DEF T
<1> QED
  BY <1>3, <1>4, <1>8 DEF f

\* v begins with u.
Begins(v, u) == Len(u) <= Len(v) /\ \A i \in 1 .. Len(u) : v[i] = u[i]

\* The escaped text of more letters begins with that of fewer.
LEMMA EscapesGrow ==
    ASSUME NEW s \in Seq(Letters), NEW m \in 0 .. Len(s)
    PROVE  Begins(Escapes(s)[Len(s)], Escapes(s)[m])
<1> DEFINE f == Escapes(s)
           T == {n \in Nat : m + n <= Len(s) => Begins(f[m + n], f[m])}
<1>0. Len(s) \in Nat /\ m \in Nat /\ m <= Len(s) /\ \A n \in 1 .. Len(s) : s[n] \in Letters
  OBVIOUS
<1>1. /\ \A n \in 0 .. Len(s) - 1 : f[n + 1] = f[n] \o R!Escape(s[n + 1])
      /\ \A n \in 0 .. Len(s) : f[n] \in Seq(Letters)
  BY EscapesStep
<1> HIDE DEF f
<1>2. 0 \in T
  <2>1. f[m] \in Seq(Letters) /\ m + 0 = m
    BY <1>0, <1>1
  <2>2. Begins(f[m], f[m])
    BY <2>1 DEF Begins
  <2> QED
    BY <2>1, <2>2
<1>3. ASSUME NEW n \in Nat, n \in T PROVE n + 1 \in T
  <2> SUFFICES ASSUME m + (n + 1) <= Len(s) PROVE Begins(f[m + (n + 1)], f[m])
    <3>1. n + 1 \in Nat
      OBVIOUS
    <3> QED
      BY <3>1
  <2>1. m + n \in 0 .. Len(s) - 1 /\ m + n <= Len(s) /\ m + n \in 0 .. Len(s) /\ m \in 0 .. Len(s) /\ (m + n) + 1 = m + (n + 1)
        /\ (m + n) + 1 \in 1 .. Len(s)
    BY <1>0
  <2> DEFINE u == f[m]
             v == f[m + n]
             x == s[(m + n) + 1]
  <2>2. u \in Seq(Letters) /\ v \in Seq(Letters) /\ Begins(v, u) /\ x \in Letters
    BY <1>0, <1>1, <1>3, <2>1
  <2>3. f[m + (n + 1)] = v \o R!Escape(x)
    BY <1>1, <2>1
  <2> HIDE DEF u, v, x
  <2>4. R!Escape(x) \in Seq(Letters)
    BY <2>2, EscapeLetters
  <2>5. Begins(v \o R!Escape(x), u)
    <3> DEFINE w == R!Escape(x)
    <3> HIDE DEF w
    <3>1. w \in Seq(Letters)
      BY <2>4 DEF w
    <3>2. Begins(v \o w, u)
      BY <2>2, <3>1 DEF Begins
    <3> QED
      BY <3>2 DEF w
  <2> QED
    BY <2>3, <2>5 DEF u
<1> HIDE DEF T
<1>4. Nat \subseteq T
  BY <1>2, <1>3, Climb
<1>5. Len(s) - m \in Nat /\ m + (Len(s) - m) = Len(s)
  BY <1>0
<1>6. Begins(f[Len(s)], f[m])
  BY <1>0, <1>4, <1>5 DEF T
<1> QED
  BY <1>6 DEF f

\* Small letters are as many.
LEMMA LowerLength == ASSUME NEW s, Len(s) \in Nat PROVE Len(R!ToLower(s)) = Len(s)
BY DEF R!ToLower

\* A word without special letters stands in the escaped text where it stood, in capitals or not.
LEMMA FoundEscaped ==
    ASSUME NEW s \in Seq(Letters), NEW k \in Seq(Letters), R!Range(k) \cap R!Special = {},
           R!HasSubstring(R!ToLower(s), R!ToLower(k))
    PROVE  R!HasSubstring(R!ToLower(R!Escaped(s)), R!ToLower(k))
<1> DEFINE f == Escapes(s)
<1>0. Len(s) \in Nat /\ Len(k) \in Nat /\ \A n \in 1 .. Len(s) : s[n] \in Letters
  OBVIOUS
<1>1. /\ \A n \in 0 .. Len(s) - 1 : f[n + 1] = f[n] \o R!Escape(s[n + 1])
      /\ \A n \in 0 .. Len(s) : f[n] \in Seq(Letters)
  BY EscapesStep
<1>2. R!Escaped(s) = f[Len(s)]
  BY DEF R!Escaped, Escapes
<1>3. \A n \in 0 .. Len(s) : Begins(f[Len(s)], f[n])
  BY EscapesGrow
<1> HIDE DEF f
<1>4. PICK i \in 0 .. Len(s) : i + Len(k) <= Len(s) /\ \A j \in 1 .. Len(k) : R!Fold(s[i + j]) = R!Fold(k[j])
  <2>1. PICK i \in 0 .. Len(R!ToLower(s)) :
            /\ i + Len(R!ToLower(k)) <= Len(R!ToLower(s))
            /\ \A j \in 1 .. Len(R!ToLower(k)) : R!ToLower(s)[i + j] = R!ToLower(k)[j]
    BY DEF R!HasSubstring
  <2>2. Len(R!ToLower(s)) = Len(s) /\ Len(R!ToLower(k)) = Len(k)
    BY <1>0, LowerLength
  <2>3. ASSUME NEW j \in 1 .. Len(k) PROVE R!Fold(s[i + j]) = R!Fold(k[j])
    <3>1. i + j \in 1 .. Len(s)
      BY <1>0, <2>1, <2>2
    <3> QED
      BY <2>1, <2>2, <3>1 DEF R!ToLower
  <2> QED
    BY <2>1, <2>2, <2>3
<1>5. ASSUME NEW j \in 1 .. Len(k) PROVE s[i + j] \notin R!Special
  <2>1. k[j] \notin R!Special
    BY DEF R!Range
  <2>2. \A x, y : R!Fold(x) = R!Fold(y) /\ x \in R!Special => y \in R!Special
    BY DEF R!Fold, R!Special
  <2> QED
    BY <1>4, <2>1, <2>2
<1> DEFINE u == f[i]
           Reads(n) == Len(f[i + n]) = Len(u) + n /\ \A j \in 1 .. n : f[i + n][Len(u) + j] = s[i + j]
           T == {n \in Nat : n <= Len(k) => Reads(n)}
<1>6. u \in Seq(Letters) /\ Len(u) \in Nat
  BY <1>0, <1>1, <1>4
<1> HIDE DEF u
<1>7. 0 \in T
  BY <1>4, <1>6 DEF u
<1>8. ASSUME NEW n \in Nat, n \in T, n + 1 <= Len(k) PROVE Reads(n + 1)
  <2> DEFINE v == f[i + n]
             x == s[(i + n) + 1]
  <2>1. i + n \in 0 .. Len(s) - 1 /\ i + n \in 0 .. Len(s) /\ (i + n) + 1 = i + (n + 1) /\ n <= Len(k) /\ n + 1 \in 1 .. Len(k)
        /\ (i + n) + 1 \in 1 .. Len(s)
    BY <1>0, <1>4, <1>8
  <2>2. v \in Seq(Letters) /\ Reads(n) /\ x \notin R!Special /\ x \in Letters
    BY <1>0, <1>1, <1>5, <1>8, <2>1
  <2>3. f[i + (n + 1)] = v \o <<x>>
    BY <1>1, <2>1, <2>2, EscapeLetters
  <2>4. Len(v) = Len(u) + n /\ \A j \in 1 .. n : v[Len(u) + j] = s[i + j]
    BY <2>2
  <2> HIDE DEF v, x
  <2>5. Len(v \o <<x>>) = Len(v) + 1 /\ (v \o <<x>>)[Len(v) + 1] = x /\ \A j \in 1 .. Len(v) : (v \o <<x>>)[j] = v[j]
    BY <2>2
  <2>6. Len(v \o <<x>>) = Len(u) + (n + 1)
    BY <1>6, <2>4, <2>5
  <2>7. ASSUME NEW j \in 1 .. n + 1 PROVE (v \o <<x>>)[Len(u) + j] = s[i + j]
    <3>1. CASE j = n + 1
      <4>1. Len(u) + j = Len(v) + 1
        BY <1>6, <2>4, <3>1
      <4>2. x = s[i + j]
        BY <2>1, <3>1 DEF x
      <4> QED
        BY <2>5, <4>1, <4>2
    <3>2. CASE j # n + 1
      <4>1. j \in 1 .. n /\ Len(u) + j \in 1 .. Len(v)
        BY <1>6, <2>4, <2>7, <3>2
      <4> QED
        BY <2>4, <2>5, <4>1
    <3> QED
      BY <3>1, <3>2
  <2> QED
    BY <2>3, <2>6, <2>7
<1> HIDE DEF Reads
<1>9. Reads(Len(k))
  <2>1. \A n \in Nat : n \in T => n + 1 \in T
    BY <1>8
  <2> HIDE DEF T
  <2>2. Nat \subseteq T
    BY <1>7, <2>1, Climb
  <2> QED
    BY <1>0, <2>2 DEF T
<1> DEFINE w == f[Len(s)]
           v == f[i + Len(k)]
<1>10. w \in Seq(Letters) /\ v \in Seq(Letters) /\ Begins(w, v)
  <2>1. i + Len(k) \in 0 .. Len(s) /\ Len(s) \in 0 .. Len(s)
    BY <1>0, <1>4
  <2> QED
    BY <1>1, <1>3, <2>1
<1>11. Len(v) = Len(u) + Len(k) /\ \A j \in 1 .. Len(k) : v[Len(u) + j] = s[i + j]
  BY <1>9 DEF Reads
<1> HIDE DEF w, v
<1>12. Len(u) \in 0 .. Len(w) /\ Len(u) + Len(k) <= Len(w)
  BY <1>0, <1>6, <1>10, <1>11 DEF Begins
<1>13. ASSUME NEW j \in 1 .. Len(k) PROVE R!Fold(w[Len(u) + j]) = R!Fold(k[j])
  <2>1. Len(u) + j \in 1 .. Len(v)
    BY <1>0, <1>6, <1>11
  <2>2. w[Len(u) + j] = s[i + j]
    BY <1>10, <1>11, <2>1 DEF Begins
  <2> QED
    BY <1>4, <2>2
<1>14. Len(w) \in Nat /\ Len(R!ToLower(w)) = Len(w) /\ Len(R!ToLower(k)) = Len(k)
  BY <1>0, <1>10, LowerLength
<1>15. ASSUME NEW j \in 1 .. Len(k) PROVE R!ToLower(w)[Len(u) + j] = R!ToLower(k)[j]
  <2>1. Len(u) + j \in 1 .. Len(w)
    BY <1>0, <1>6, <1>12, <1>14
  <2> QED
    BY <1>13, <2>1 DEF R!ToLower
<1> QED
  BY <1>2, <1>12, <1>14, <1>15 DEF R!HasSubstring, w

\* What a modifier means, ApplyModifier finds.
LEMMA ModifierFinds ==
    ASSUME NEW f, R!WellFormed(f), NEW p \in f.values, NEW m \in f.mods, NEW v,
           v.t # "arr" => R!Scalar(v), R!Means(m, v, p, FALSE), m # "base64offset"
    PROVE  R!Outcome(m, v, p) = "yes"
<1>0. R!Scalar(p) /\ \A c \in Covers : c[1] \notin Bad
  BY FileAssumption DEF R!WellFormed
<1>1. CASE m \in {"lt", "lte", "gt", "gte"}
  <2>1. v.t = "num" /\ p.t = "num" /\ R!Ordered(m, v.v, p.v)
    BY <1>1 DEF R!Means
  <2>2. v.v \in Nat /\ p.v \in Nat
    BY <1>0, <2>1 DEF R!Scalar
  <2>3. R!toFloat64(v) = v.v /\ R!toFloat64(p) = p.v
    BY <2>1 DEF R!toFloat64
  <2>4. R!toFloat64(v) # -1 /\ R!toFloat64(p) # -1
    BY <2>2, <2>3
  <2>5. R!modifierNumber(m, v, p) = "yes"
    BY <2>1, <2>3, <2>4 DEF R!modifierNumber
  <2> QED
    BY <1>1, <2>5 DEF R!Outcome
<1>2. CASE m \in {"re", "Re", "regex", "cidr"}
  <2>1. v.t = "str" /\ <<p.v, v.v>> \in Covers
    BY <1>2 DEF R!Means
  <2>2. p.t = "str"
    BY <1>2 DEF R!WellFormed
  <2>3. R!toString(p) = p.v /\ R!toString(v) = v.v
    BY <2>1, <2>2 DEF R!toString
  <2>4. p.v \notin Bad
    BY <1>0, <2>1
  <2>5. R!modifierRegex(v, p) = "yes"
    BY <2>1, <2>3, <2>4 DEF R!modifierRegex
  <2>6. m = "cidr" => v.v \in Addresses
    BY <2>1 DEF R!WellFormed
  <2>7. m = "cidr" => R!modifierCIDR(v, p) = "yes"
    BY <2>3, <2>5, <2>6 DEF R!modifierCIDR
  <2> QED
    BY <1>2, <2>5, <2>7 DEF R!Outcome
<1>3. CASE m = "windash"
  <2>1. v.t = "str" /\ \E s \in R!Dashes(p.v) : R!HasSubstring(v.v, s)
    BY <1>3 DEF R!Means
  <2>2. p.t = "str"
    BY <1>3 DEF R!WellFormed
  <2>3. R!toString(p) = p.v /\ R!toString(v) = v.v
    BY <2>1, <2>2 DEF R!toString
  <2>4. R!modifierWinDash(v, p) = "yes"
    BY <2>1, <2>3 DEF R!modifierWinDash, R!Answer
  <2> QED
    BY <1>3, <2>4 DEF R!Outcome
<1>4. CASE m \in {"startswith", "endswith", "base64"}
  <2>1. v.t = "str"
    BY <1>4 DEF R!Means
  <2>2. R!toString(v) = v.v
    BY <2>1 DEF R!toString
  <2>3. CASE m = "startswith"
    BY <2>2, <2>3 DEF R!Means, R!Outcome, R!modifierStartsWith, R!Answer
  <2>4. CASE m = "endswith"
    BY <2>2, <2>4 DEF R!Means, R!Outcome, R!modifierEndsWith, R!Answer
  <2>5. CASE m = "base64"
    BY <2>2, <2>5 DEF R!Means, R!Outcome, R!modifierBase64, R!Answer
  <2> QED
    BY <1>4, <2>3, <2>4, <2>5
<1>5. CASE m \notin {"lt", "lte", "gt", "gte", "re", "Re", "regex", "cidr", "windash", "startswith", "endswith", "base64"}
  <2>1. v.t = "str" /\ R!HasSubstring(v.v, R!toString(p))
    BY <1>5 DEF R!Means
  <2>2. R!toString(v) = v.v
    BY <2>1 DEF R!toString
  <2>3. R!modifierContains(v, p) = "yes"
    BY <2>1, <2>2 DEF R!modifierContains, R!Answer
  <2> QED
    BY <1>5, <2>3 DEF R!Outcome
<1> QED
  BY <1>1, <1>2, <1>3, <1>4, <1>5

\* An event's value that is the field's own, in capitals or not, is found equal to it.
LEMMA EqualFound == ASSUME NEW p, R!Scalar(p), ~R!Wildcard(p), NEW v, R!ValueIs(v, p) PROVE R!directCompare(v, p)
<1>1. CASE p.t = "str"
  <2>1. v.t = "str" /\ R!ToLower(v.v) = R!ToLower(p.v)
    BY <1>1 DEF R!ValueIs
  <2> QED
    BY <1>1, <2>1 DEF R!directCompare, R!DirectScalar, R!toString
<1>2. CASE p.t # "str"
  <2>1. v = p
    BY <1>2 DEF R!ValueIs
  <2>2. CASE p.t = "num"
    BY <2>1, <2>2 DEF R!directCompare, R!DirectScalar, R!convertToFloat64
  <2>3. CASE p.t = "bool"
    BY <2>1, <2>3 DEF R!directCompare, R!DirectScalar, R!convertToBool
  <2> QED
    BY <1>2, <2>2, <2>3 DEF R!Scalar
<1> QED
  BY <1>1, <1>2

\* What a field means, EvaluateField finds in the field that was read.
LEMMA FieldFinds ==
    ASSUME NEW f, R!WellFormed(f), f.mods # {"all"}, "base64offset" \notin f.mods,
           f.mods = {} => \A p \in f.values : ~R!Wildcard(p),
           NEW e, e[f.name].t # "arr" => e[f.name] = None \/ R!Scalar(e[f.name]),
           R!FieldMeans(e, f, FALSE)
    PROVE  R!EvaluateField(e, R!parseSelectionField(f))
<1> DEFINE v == e[f.name]
           g == R!parseSelectionField(f)
           comp == IF f.mods \cap {"re", "Re", "regex"} = {} THEN {}
                   ELSE {w.v : w \in {x \in f.values : x.t = "str" /\ x.v \notin Bad}}
           Meant(p) == IF f.mods = {} THEN R!ValueIs(v, p) ELSE \A m \in f.mods \ {"all"} : R!Means(m, v, p, FALSE)
<1>1. g.name = f.name /\ g.mods = f.mods /\ g.values = f.values /\ g.compiled = comp
  BY DEF R!parseSelectionField
<1> HIDE DEF g
<1>2. v # None
  BY DEF R!FieldMeans
<1>3. v.t # "arr" => R!Scalar(v)
  BY <1>2
<1>4. IF "all" \in f.mods THEN \A p \in f.values : Meant(p) ELSE \E p \in f.values : Meant(p)
  BY DEF R!FieldMeans
<1> HIDE DEF Meant
<1>5. PICK p \in f.values : Meant(p)
  <2>1. f.values # {}
    BY DEF R!WellFormed
  <2> QED
    BY <1>4, <2>1
<1>6. R!Scalar(p)
  BY DEF R!WellFormed
<1>7. CASE f.mods = {}
  <2>1. R!ValueIs(v, p) /\ ~R!Wildcard(p)
    BY <1>5, <1>7 DEF Meant
  <2>2. R!directCompare(v, p)
    BY <1>6, <2>1, EqualFound
  <2> HIDE DEF comp, v
  <2>3. g.mods \cap {"re", "regex"} = {}
    BY <1>1, <1>7
  <2>4. \E x \in g.values : IF g.mods = {} THEN R!directCompare(v, x) ELSE R!ApplyModifier(v, x, g.mods)
    BY <1>1, <1>7, <2>2
  <2>9. R!EvaluateField(e, g)
    BY <1>1, <1>2, <2>3, <2>4 DEF R!EvaluateField, v
  <2> QED
    BY <2>9 DEF g
<1>8. CASE f.mods # {}
  <2>1. \A m \in f.mods \ {"all"} : R!Means(m, v, p, FALSE)
    BY <1>5, <1>8 DEF Meant
  <2>2. CASE f.mods \cap {"re", "regex"} # {} /\ comp # {}
    <3>1. PICK m : m \in f.mods /\ m \in {"re", "regex"}
      BY <2>2
    <3>2. m # "all" /\ R!Means(m, v, p, FALSE)
      BY <2>1, <3>1
    <3>3. v.t = "str" /\ <<p.v, v.v>> \in Covers
      BY <3>1, <3>2 DEF R!Means
    <3>4. p.t = "str" /\ R!toString(v) = v.v
      BY <3>1, <3>3 DEF R!WellFormed, R!toString
    <3>5. p.v \notin Bad
      BY <3>3, FileAssumption
    <3>6. p.v \in comp
      BY <3>1, <3>4, <3>5
    <3> HIDE DEF comp, v
    <3>7. \E x \in g.compiled : <<x, R!toString(v)>> \in Covers
      BY <1>1, <3>3, <3>4, <3>6
    <3>8. g.mods \cap {"re", "regex"} # {} /\ g.compiled # {}
      BY <1>1, <2>2
    <3>9. R!EvaluateField(e, g)
      BY <1>1, <1>2, <3>7, <3>8 DEF R!EvaluateField, v
    <3> QED
      BY <3>9 DEF g
  <2>3. CASE ~(f.mods \cap {"re", "regex"} # {} /\ comp # {})
    <3> DEFINE outcomes == {R!Outcome(m, v, p) : m \in f.mods \ {"all"}}
    <3>1. \A m \in f.mods \ {"all"} : R!Outcome(m, v, p) = "yes"
      BY <1>3, <2>1, ModifierFinds
    <3>2. f.mods \ {"all"} # {}
      BY <1>8
    <3> HIDE DEF comp, v
    <3>3. outcomes = {"yes"}
      BY <3>1, <3>2
    <3>4. R!ApplyModifier(v, p, f.mods)
      BY <3>3 DEF R!ApplyModifier
    <3>5. \E x \in g.values : IF g.mods = {} THEN R!directCompare(v, x) ELSE R!ApplyModifier(v, x, g.mods)
      BY <1>1, <1>8, <3>4
    <3>9. R!EvaluateField(e, g)
      BY <1>1, <1>2, <2>3, <3>5 DEF R!EvaluateField, v
    <3> QED
      BY <3>9 DEF g
  <2> QED
    BY <2>2, <2>3
<1> QED
  BY <1>7, <1>8

\* A rule that was parsed is the file's, and a verdict is the one of the rule on the event.
FileInv ==
    /\ file \in RuleFiles /\ event \in FileEvents \cup {None}
    /\ stage \in {"read", "refused", "skipped", "parsed", "left", "loaded"}
    /\ stage # "loaded" => event = None
    /\ stage \in {"read", "refused", "skipped"} => rule = None
    /\ stage \in {"parsed", "left", "loaded"} => /\ rule = R!toSigmaRule(file) /\ R!validate(file)
                                                 /\ R!Convertible(file.detection)
    /\ stage = "loaded" /\ event # None =>
           verdict = R!Verdict(rule, event)

\* A file that has only been read.
LEMMA FileInit == R!Init => FileInv
BY DEF R!Init, FileInv

\* Reading a file on, and evaluating an event, keep the invariant.
LEMMA FileStep == ASSUME FileInv, [R!Next]_(R!vars) PROVE FileInv'
<1>0. /\ file \in RuleFiles /\ event \in FileEvents \cup {None}
      /\ stage \in {"read", "refused", "skipped", "parsed", "left", "loaded"}
      /\ stage # "loaded" => event = None
      /\ stage \in {"read", "refused", "skipped"} => rule = None
      /\ stage \in {"parsed", "left", "loaded"} => /\ rule = R!toSigmaRule(file) /\ R!validate(file)
                                                   /\ R!Convertible(file.detection)
  BY DEF FileInv
<1>1. CASE UNCHANGED R!vars
  <2>1. file' = file /\ rule' = rule /\ stage' = stage /\ event' = event /\ verdict' = verdict
    BY <1>1 DEF R!vars
  <2> QED
    BY <2>1 DEF FileInv
<1>2. CASE R!ParseFile
  <2>1. /\ stage' = "parsed" => rule' = R!toSigmaRule(file) /\ R!validate(file) /\ R!Convertible(file.detection)
        /\ stage' \in {"refused", "skipped", "parsed"}
        /\ stage' # "parsed" => rule' = rule
        /\ stage = "read" /\ file' = file /\ event' = event
    BY <1>2 DEF R!ParseFile
  <2> QED
    BY <1>0, <2>1 DEF FileInv
<1>3. CASE R!LoadRule
  <2>1. stage = "parsed" /\ stage' \in {"loaded", "left"} /\ file' = file /\ rule' = rule /\ event' = event
    BY <1>3 DEF R!LoadRule
  <2> QED
    BY <1>0, <2>1 DEF FileInv
<1>4. ASSUME NEW e \in FileEvents, R!Evaluate(e) PROVE FileInv'
  <2>1. /\ stage = "loaded" /\ event' = e /\ file' = file /\ rule' = rule /\ stage' = stage
        /\ verdict' = R!Verdict(rule, e)
    BY <1>4 DEF R!Evaluate
  <2> QED
    BY <1>0, <2>1 DEF FileInv
<1> QED
  BY <1>1, <1>2, <1>3, <1>4 DEF R!Next

\* A selection in none of the forms that are read otherwise, as the format asks for it.
PlainSelection(s) ==
    IF s.data.kind = "list" THEN \A i \in s.data.items : i.t = "str" /\ R!Range(i.v) \cap R!Special = {}
    ELSE \A d \in s.data.fields :
             /\ d.mods # {"all"} /\ "base64offset" \notin d.mods
             /\ d.mods = {} => \A p \in d.values : ~R!Wildcard(p)
Formed(s, e) ==
    /\ s.data.kind = "map" => \A d \in s.data.fields : R!WellFormed(d) /\ d.name \in DOMAIN e
    /\ s.data.kind = "list" => \A i \in s.data.items : i.t = "str" => R!Scalar(i)

\* What the format says a selection means, in the letters of the file.
Tells(e, s) == R!SelectionMeans(e, s, FALSE)

\* What a selection means, EvaluateSelection finds in the selection that was read.
LEMMA SelectionFinds ==
    ASSUME NEW s, s.data.kind \in {"list", "map"}, NEW e \in FileEvents, PlainSelection(s), Formed(s, e),
           Tells(e, s)
    PROVE  R!EvaluateSelection(e, R!parseSelection(s))
<1> DEFINE g == R!parseSelection(s)
           keys == {i.v : i \in {j \in s.data.items : j.t = "str"}}
           fields == {R!parseSelectionField(d) : d \in s.data.fields}
<1>0. \A n \in DOMAIN e : e[n] # None /\ e[n].t # "arr" => R!Scalar(e[n])
  BY FileAssumption
<1>1. /\ g.keyword = (s.data.kind = "list")
      /\ s.data.kind = "list" => g.keywords = keys
      /\ s.data.kind = "map" => g.fields = fields
  BY DEF R!parseSelection
<1> HIDE DEF g
<1>2. CASE s.data.kind = "list"
  <2>1. PICK i \in s.data.items : R!ItemMeans(e, i, FALSE)
    BY <1>2 DEF Tells, R!SelectionMeans
  <2>2. i.t = "str" /\ R!Range(i.v) \cap R!Special = {} /\ i.v \in Seq(STRING)
    BY <1>2, <2>1 DEF PlainSelection, Formed, R!Scalar
  <2>3. PICK n \in DOMAIN e : e[n] # None /\ e[n].t = "str" /\ R!HasSubstring(R!ToLower(e[n].v), R!ToLower(i.v))
    BY <2>1, <2>2 DEF R!ItemMeans
  <2>4. e[n].v \in Seq(STRING) /\ R!toString(e[n]) = e[n].v
    <3>1. R!Scalar(e[n])
      BY <1>0, <2>3
    <3> QED
      BY <2>3, <3>1 DEF R!Scalar, R!toString
  <2>5. e[n].v \in Seq(Letters) /\ i.v \in Seq(Letters)
    <3>1. STRING \subseteq Letters
      BY DEF Letters
    <3> QED
      BY <2>2, <2>4, <3>1, SeqMonotonic
  <2>6. R!HasSubstring(R!ToLower(R!Escaped(e[n].v)), R!ToLower(i.v))
    BY <2>2, <2>3, <2>5, FoundEscaped
  <2>7. i.v \in keys
    BY <2>1, <2>2
  <2> HIDE DEF keys
  <2>8. R!evaluateKeywords(e, keys)
    BY <2>3, <2>4, <2>6, <2>7 DEF R!evaluateKeywords
  <2>9. R!EvaluateSelection(e, g)
    BY <1>1, <1>2, <2>8 DEF R!EvaluateSelection
  <2> QED
    BY <2>9 DEF g
<1>3. CASE s.data.kind = "map"
  <2>1. ASSUME NEW d \in s.data.fields PROVE R!EvaluateField(e, R!parseSelectionField(d))
    <3>1. R!FieldMeans(e, d, FALSE)
      BY <1>3 DEF Tells, R!SelectionMeans, R!MapMeans
    <3>2. /\ R!WellFormed(d) /\ d.name \in DOMAIN e /\ d.mods # {"all"} /\ "base64offset" \notin d.mods
          /\ d.mods = {} => \A p \in d.values : ~R!Wildcard(p)
      BY <1>3 DEF PlainSelection, Formed
    <3>3. e[d.name].t # "arr" => e[d.name] = None \/ R!Scalar(e[d.name])
      BY <1>0, <3>2
    <3> QED
      BY <3>1, <3>2, <3>3, FieldFinds
  <2>2. \A x \in fields : R!EvaluateField(e, x)
    BY <2>1
  <2> HIDE DEF fields
  <2>3. R!EvaluateSelection(e, g)
    BY <1>1, <1>3, <2>2 DEF R!EvaluateSelection
  <2> QED
    BY <2>3 DEF g
<1> QED
  BY <1>2, <1>3

\* The part counts with the one Cardinality.
LEMMA FileCounts == \A T : R!Cardinality(T) = Cardinality(T)
BY DEF R!Cardinality, Cardinality

\* What is enough of less is enough of more.
LEMMA Enough ==
    ASSUME NEW l \in Nat, NEW c \in Nat, NEW d \in Nat, c <= d, NEW x \in Nat, l * c >= x
    PROVE  l * d >= x
<1>1. l * c <= l * d /\ l * c \in Nat /\ l * d \in Nat
  OBVIOUS
<1> QED
  BY <1>1

\* A level and its context count for a number.
LEMMA ContextCounts ==
    ASSUME NEW r, NEW e
    PROVE  R!LevelConfidence(r.level) * R!validateContext(r, e) \in Nat
<1>1. R!LevelConfidence(r.level) \in Nat
  <2>1. CASE r.level \in R!Range(R!Levels)
    <3>1. PICK i \in 1 .. Len(R!Levels) : R!Levels[i] = r.level
      BY <2>1 DEF R!Range, R!Levels
    <3>2. R!Known(r.level) = r.level
      BY <2>1 DEF R!Known, R!Range, R!Levels
    <3>3. Len(R!Levels) = 5
      BY DEF R!Levels
    <3>4. R!Rank(r.level) \in 1 .. 5
      BY <3>1, <3>2, <3>3 DEF R!Rank
    <3> QED
      BY <2>1, <3>4 DEF R!LevelConfidence
  <2>2. CASE r.level \notin R!Range(R!Levels)
    BY <2>2 DEF R!LevelConfidence
  <2> QED
    BY <2>1, <2>2
<1>2. \A a \in {80, 100}, b \in {85, 100}, c \in {90, 100} : (a * b * c) \div 1000 \in Nat
  OBVIOUS
<1> DEFINE names == UNION {{f.name : f \in s.fields} : s \in r.detection.selections}
           lacks(f) == f \notin DOMAIN e \/ e[f] \in {None, R!Str(<<>>)}
           factor(uses, f, less) == IF uses \cap names # {} /\ lacks(f) THEN less ELSE 100
           x == factor({"ParentImage", "ParentCommandLine"}, "ParentImage", 80)
           y == factor({"CommandLine"}, "CommandLine", 85)
           z == factor({"User"}, "User", 90)
<1>3. R!validateContext(r, e) = (x * y * z) \div 1000
  BY Zenon DEF R!validateContext
<1> HIDE DEF names, lacks
<1>4. x \in {80, 100} /\ y \in {85, 100} /\ z \in {90, 100}
  OBVIOUS
<1> HIDE DEF x, y, z
<1>5. R!validateContext(r, e) \in Nat
  BY <1>2, <1>3, <1>4
<1> QED
  BY <1>1, <1>5

\* Finitely many finite sets, one for each member of a set.
LEMMA UnionFinite ==
    ASSUME NEW S, IsFiniteSet(S), NEW g, DOMAIN g = S, \A x \in S : IsFiniteSet(g[x])
    PROVE  IsFiniteSet(UNION {g[x] : x \in S})
<1> DEFINE Q == {g[x] : x \in S}
<1>1. IsFiniteSet(Q)
  BY ImageFinite
<1>2. \A U \in Q : IsFiniteSet(U)
  OBVIOUS
<1> HIDE DEF Q
<1>3. IsFiniteSet(UNION Q)
  BY <1>1, <1>2, FS_UNION
<1> QED
  BY <1>3 DEF Q

\* The confidence does not fall when more selections match.
LEMMA ConfidenceGrows ==
    ASSUME NEW r, NEW e, IsFiniteSet(r.detection.selections),
           \A s \in r.detection.selections : IsFiniteSet(s.fields),
           NEW few, NEW many, few \subseteq many, many \subseteq r.detection.selections, R!Confident(r, e, few)
    PROVE  R!Confident(r, e, many)
<1> DEFINE S == r.detection.selections
           pairs == [s \in S |-> {s} \X s.fields]
           P == UNION {{s} \X s.fields : s \in S}
           told == {t \in many : ~t.filter}
           named == [s \in told |-> {f.name : f \in s.fields}]
           A == R!MatchedFields(few)
           B == R!MatchedFields(many)
           l == R!LevelConfidence(r.level) * R!validateContext(r, e)
           t == R!TotalFields(r)
<1>1. l \in Nat /\ MinConfidence \in Nat
  BY ContextCounts, MatchingAssumption
<1>2. IsFiniteSet(P)
  <2>1. P = UNION {pairs[s] : s \in S}
    OBVIOUS
  <2>2. ASSUME NEW s \in S PROVE IsFiniteSet(pairs[s])
    <3>1. IsFiniteSet({s}) /\ IsFiniteSet(s.fields)
      BY FS_Singleton
    <3>2. IsFiniteSet({s} \X s.fields)
      BY <3>1, FS_Product
    <3> QED
      BY <3>2
  <2>3. DOMAIN pairs = S
    OBVIOUS
  <2> HIDE DEF pairs, P, S
  <2> QED
    BY <2>1, <2>2, <2>3, UnionFinite DEF S
<1>3. t \in Nat
  <2>1. t = Cardinality(P)
    BY FileCounts DEF R!TotalFields
  <2> QED
    BY <1>2, <2>1, FS_CardinalityType
<1>4. IsFiniteSet(B)
  <2>1. B = UNION {named[s] : s \in told}
    BY DEF R!MatchedFields
  <2>2. IsFiniteSet(told)
    BY FS_Subset
  <2>3. ASSUME NEW s \in told PROVE IsFiniteSet(named[s])
    <3> DEFINE names == [f \in s.fields |-> f.name]
    <3>1. IsFiniteSet(s.fields) /\ DOMAIN names = s.fields
      OBVIOUS
    <3>2. named[s] = {names[f] : f \in s.fields}
      OBVIOUS
    <3> HIDE DEF names, named, told
    <3>3. IsFiniteSet({names[f] : f \in s.fields})
      BY <3>1, ImageFinite, Zenon
    <3> QED
      BY <3>2, <3>3
  <2>4. DOMAIN named = told
    OBVIOUS
  <2> HIDE DEF named, told, B
  <2> QED
    BY <2>1, <2>2, <2>3, <2>4, UnionFinite
<1>5. A \subseteq B
  BY DEF R!MatchedFields
<1> HIDE DEF A, B, l, t
<1>6. Cardinality(A) \in Nat /\ Cardinality(B) \in Nat /\ Cardinality(A) <= Cardinality(B)
  BY <1>4, <1>5, FS_Subset, FS_CardinalityType
<1>7. IF t = 0 THEN l >= MinConfidence ELSE l * Cardinality(A) >= MinConfidence * t
  BY FileCounts DEF R!Confident, A, l, t
<1>8. MinConfidence * t \in Nat
  BY <1>1, <1>3
<1>9. IF t = 0 THEN l >= MinConfidence ELSE l * Cardinality(B) >= MinConfidence * t
  BY <1>1, <1>6, <1>7, <1>8, Enough
<1> QED
  BY <1>9, FileCounts DEF R!Confident, B, l, t

\* The selections that were read of a file are finite.
LEMMA ReadFinite ==
    ASSUME NEW f \in RuleFiles, f.detection # None
    PROVE  LET Read == {R!parseSelection(s) : s \in f.detection.selections}
           IN  IsFiniteSet(Read) /\ \A t \in Read : IsFiniteSet(t.fields)
<1> DEFINE S == f.detection.selections
           read == [s \in S |-> R!parseSelection(s)]
<1>1. IsFiniteSet(S) /\ \A s \in S : s.data.kind = "map" => IsFiniteSet(s.data.fields)
  BY FileAssumption
<1>2. IsFiniteSet({R!parseSelection(s) : s \in S})
  <2>1. DOMAIN read = S
    OBVIOUS
  <2>2. {read[s] : s \in S} = {R!parseSelection(s) : s \in S}
    OBVIOUS
  <2> HIDE DEF read, S
  <2>3. IsFiniteSet({read[s] : s \in S})
    BY <1>1, <2>1, ImageFinite
  <2> QED
    BY <2>2, <2>3, Zenon
<1>3. ASSUME NEW s \in S PROVE IsFiniteSet(R!parseSelection(s).fields)
  <2> DEFINE field == [d \in s.data.fields |-> R!parseSelectionField(d)]
  <2>1. R!parseSelection(s).fields =
            IF s.data.kind = "map" THEN {R!parseSelectionField(d) : d \in s.data.fields} ELSE {}
    BY DEF R!parseSelection
  <2>2. CASE s.data.kind = "map"
    <3>1. DOMAIN field = s.data.fields /\ {field[d] : d \in s.data.fields} = {R!parseSelectionField(d) : d \in s.data.fields}
      OBVIOUS
    <3>2. IsFiniteSet(s.data.fields)
      BY <1>1, <2>2
    <3> HIDE DEF field
    <3>3. IsFiniteSet({R!parseSelectionField(d) : d \in s.data.fields})
      BY <3>1, <3>2, ImageFinite
    <3> QED
      BY <2>1, <2>2, <3>3
  <2>3. CASE s.data.kind # "map"
    BY <2>1, <2>3, FS_EmptySet
  <2> QED
    BY <2>2, <2>3
<1> QED
  BY <1>2, <1>3

\* The invariant gives the types and what reading a rule file promises.
LEMMA FilePromise == FileInv => R!TypeOK /\ R!NothingMissed
<1> SUFFICES ASSUME FileInv PROVE R!TypeOK /\ R!NothingMissed
  OBVIOUS
<1>0. /\ file \in RuleFiles /\ event \in FileEvents \cup {None}
      /\ stage \in {"read", "refused", "skipped", "parsed", "left", "loaded"}
      /\ stage \in {"read", "refused", "skipped"} => rule = None
      /\ stage \in {"parsed", "left", "loaded"} => /\ rule = R!toSigmaRule(file) /\ R!validate(file)
                                                   /\ R!Convertible(file.detection)
      /\ stage = "loaded" /\ event # None =>
             verdict = R!Verdict(rule, event)
  BY DEF FileInv
<1>1. R!validate(file) => file.detection # None
  BY DEF R!validate
<1>2. file.detection # None => R!toSigmaRule(file) # None
  BY <1>0, FileAssumption
<1>3. R!TypeOK
  BY <1>0, <1>1, <1>2 DEF R!TypeOK
<1>4. ASSUME stage = "loaded", event # None, R!Plain(file), R!Unnegated(file), R!Reported(file, rule, event, FALSE),
             R!MeaningOf(file, event, FALSE)
      PROVE  verdict
  <2> DEFINE d == file.detection
             Read == {R!parseSelection(s) : s \in d.selections}
             Told == R!Meant(file, event, FALSE)
             Meant == {s.name : s \in Told}
             Hits == R!Matching(rule, event)
             Found == {s.name : s \in Hits}
             Every == {s.name : s \in d.selections}
             Few == {R!parseSelection(s) : s \in Told}
  <2>1. event \in FileEvents /\ d # None /\ R!Convertible(d)
    BY <1>0, <1>1, <1>4
  <2>2. rule.detection.selections = Read /\ rule.detection.condition = d.condition
    <3>1. rule.detection = R!parseDetection(d)
      BY <1>0, <1>4 DEF R!toSigmaRule
    <3> QED
      BY <3>1 DEF R!parseDetection
  <2>3. Hits = {t \in Read : R!EvaluateSelection(event, t)} /\ Hits \subseteq Read
    BY <2>2 DEF R!Matching
  <2>4. Meant \in d.condition.holds
    BY <1>4 DEF R!MeaningOf
  <2>5. \A s : R!parseSelection(s).name = s.name
    BY DEF R!parseSelection
  <2>6. Found \subseteq Every
    BY <2>3, <2>5
  <2>7. ASSUME NEW s \in Told PROVE R!parseSelection(s) \in Hits
    <3>0. s \in d.selections /\ Tells(event, s)
      BY DEF R!Meant, Tells
    <3>1. s.data.kind \in {"list", "map"}
      BY <2>1, <3>0 DEF R!Convertible
    <3>2. PlainSelection(s)
      BY <1>4, <3>0 DEF R!Plain, PlainSelection
    <3>3. Formed(s, event)
      BY <1>0, <2>1, <3>0, FileAssumption DEF Formed
    <3>4. R!EvaluateSelection(event, R!parseSelection(s))
      <4>1. event \in FileEvents
        BY <2>1
      <4> QED
        BY <3>0, <3>1, <3>2, <3>3, <4>1, SelectionFinds
    <3>5. R!parseSelection(s) \in Read
      BY <3>0
    <3> HIDE DEF Read, Hits
    <3> QED
      BY <2>3, <3>4, <3>5
  <2> HIDE DEF Told, Hits
  <2>8. Few \subseteq Hits /\ Meant \subseteq Found
    BY <2>5, <2>7
  <2> HIDE DEF Found, Meant
  <2>9. Found \in d.condition.holds
    <3>1. \A some \in d.condition.holds, more \in SUBSET Every : some \subseteq more => more \in d.condition.holds
      BY <1>4 DEF R!Unnegated
    <3> HIDE DEF Every, d
    <3> QED
      BY <2>4, <2>6, <2>8, <3>1
  <2>10. ~R!Suppressed(rule, event) /\ R!Confident(rule, event, Few)
    BY <1>4 DEF R!Reported, Told
  <2>11. R!Confident(rule, event, Hits)
    <3>1. IsFiniteSet(Read) /\ \A t \in Read : IsFiniteSet(t.fields)
      BY <1>0, <2>1, ReadFinite
    <3> HIDE DEF Read, Few
    <3> QED
      BY <2>2, <2>3, <2>8, <2>10, <3>1, ConfidenceGrows
  <2>12. R!Verdict(rule, event)
    BY <2>2, <2>9, <2>10, <2>11 DEF R!Verdict, Found, Hits
  <2> QED
    BY <1>0, <1>4, <2>12
<1> QED
  BY <1>3, <1>4 DEF R!NothingMissed

-----------------------------------------------------------------------------
(* The conditions.                                                           *)

\* A call of the parser, how far it goes at least, and what it may answer.
Domain(c) == C!Calls \X (1 .. Len(c) + 1) \X C!Nodes
Lo(fn, i) == IF fn \in {"or", "and"} THEN i ELSE i + 1
Results(c, lo) == {C!Failed} \cup {C!Parsed(x, k) : x \in C!Nodes, k \in lo .. Len(c) + 1}
Answers(c, g) == \A p \in Domain(c) : g[p] \in Results(c, Lo(p[1], p[2]))

Body(c, p, g) ==
    CASE p[1] = "expression" -> C!ParseExpression(c, p[2], g)
      [] p[1] = "or" -> C!MoreTerms(c, p[2], p[3], g)
      [] p[1] = "term" -> C!ParseTerm(c, p[2], g)
      [] p[1] = "and" -> C!MoreFactors(c, p[2], p[3], g)
      [] p[1] = "factor" -> C!ParseFactor(c, p[2], g)

\* A call calls only calls that are smaller.
Rank(fn) == IF fn = "expression" THEN 2 ELSE IF fn = "term" THEN 1 ELSE 0
Size(c, fn, i) == 3 * (Len(c) + 1 - i) + Rank(fn)

\* An answer, taken apart.
LEMMA AnswerIs ==
    ASSUME NEW c, NEW lo, NEW r \in Results(c, lo)
    PROVE  \/ r = C!Failed /\ r.ok = FALSE
           \/ r.ok = TRUE /\ r.node \in C!Nodes /\ r.next \in lo .. Len(c) + 1 /\ r = C!Parsed(r.node, r.next)
BY DEF Results, C!Failed, C!Parsed

\* The answers there are.
LEMMA AnswersAre ==
    ASSUME NEW c, NEW lo
    PROVE  /\ C!Failed \in Results(c, lo)
           /\ \A x \in C!Nodes, k \in lo .. Len(c) + 1 : C!Parsed(x, k) \in Results(c, lo)
BY DEF Results

\* Going further is allowed.
LEMMA AnswersGrow ==
    ASSUME NEW c \in Seq(C!Words), NEW lo \in Nat, NEW hi \in Nat, lo <= hi, NEW r \in Results(c, hi)
    PROVE  r \in Results(c, lo)
<1>0. Len(c) \in Nat
  OBVIOUS
<1>1. hi .. Len(c) + 1 \subseteq lo .. Len(c) + 1
  BY <1>0
<1> QED
  BY <1>1 DEF Results

\* What is called of a parser.
LEMMA Called ==
    ASSUME NEW c \in Seq(C!Words), NEW g, Answers(c, g), NEW fn \in C!Calls, NEW i \in 1 .. Len(c) + 1, NEW x \in C!Nodes
    PROVE  g[<<fn, i, x>>] \in Results(c, Lo(fn, i))
<1> DEFINE p == <<fn, i, x>>
<1>1. p \in Domain(c) /\ p[1] = fn /\ p[2] = i
  BY DEF Domain
<1> QED
  BY <1>1 DEF Answers

\* A word, or the end.
LEMMA TokenIs ==
    ASSUME NEW c \in Seq(C!Words), NEW i \in Nat, C!Token(c, i) # "end"
    PROVE  i <= Len(c)
<1>0. Len(c) \in Nat
  OBVIOUS
<1> QED
  BY <1>0 DEF C!Token

\* What a call answers stays in the condition.
LEMMA BodyFits ==
    ASSUME NEW c \in Seq(C!Words), NEW g, Answers(c, g), NEW fn \in C!Calls, NEW i \in 1 .. Len(c) + 1, NEW x \in C!Nodes
    PROVE  Body(c, <<fn, i, x>>, g) \in Results(c, Lo(fn, i))
<1>0. Len(c) \in Nat /\ i \in Nat /\ i + 1 \in Nat
  OBVIOUS
<1>1. {} \in C!Nodes /\ {"expression", "or", "term", "and", "factor"} = C!Calls
  BY DEF C!Nodes, C!Calls
<1>2. \A f \in C!Calls, k \in 1 .. Len(c) + 1, y \in C!Nodes : g[<<f, k, y>>] \in Results(c, Lo(f, k))
  BY Called
<1>3. ASSUME NEW f \in {"or", "and"}, NEW a \in {"term", "factor"} PROVE C!Then(g[<<a, i, {}>>], g, f) \in Results(c, i + 1)
  <2> DEFINE r == g[<<a, i, {}>>]
  <2>1. r \in Results(c, i + 1)
    BY <1>1, <1>2, <1>3 DEF Lo
  <2> HIDE DEF r
  <2>2. CASE ~r.ok
    BY <2>2, AnswersAre DEF C!Then, r
  <2>3. CASE r.ok
    <3>1. r.node \in C!Nodes /\ r.next \in i + 1 .. Len(c) + 1
      BY <2>1, <2>3, AnswerIs
    <3>2. r.next \in 1 .. Len(c) + 1 /\ r.next \in Nat /\ i + 1 <= r.next
      BY <1>0, <3>1
    <3>3. g[<<f, r.next, r.node>>] \in Results(c, r.next)
      BY <1>1, <1>2, <1>3, <3>1, <3>2 DEF Lo
    <3>4. g[<<f, r.next, r.node>>] \in Results(c, i + 1)
      BY <1>0, <3>2, <3>3, AnswersGrow
    <3> QED
      BY <2>3, <3>4 DEF C!Then, r
  <2> QED
    BY <2>2, <2>3
<1>4. CASE fn = "expression"
  BY <1>3, <1>4 DEF Body, Lo, C!ParseExpression
<1>5. CASE fn = "term"
  BY <1>3, <1>5 DEF Body, Lo, C!ParseTerm
<1>6. ASSUME NEW f \in {"or", "and"}, NEW a \in {"term", "factor"}, NEW r, r = g[<<a, i + 1, {}>>], NEW y, r.ok /\ r.node \in C!Nodes => y \in C!Nodes,
             i + 1 \in 1 .. Len(c) + 1
      PROVE  (IF r.ok THEN g[<<f, r.next, y>>] ELSE C!Failed) \in Results(c, i)
  <2>1. r \in Results(c, (i + 1) + 1)
    BY <1>1, <1>2, <1>6 DEF Lo
  <2>2. CASE ~r.ok
    BY <2>2, AnswersAre
  <2>3. CASE r.ok
    <3>1. r.node \in C!Nodes /\ r.next \in (i + 1) + 1 .. Len(c) + 1
      BY <2>1, <2>3, AnswerIs
    <3>2. r.next \in 1 .. Len(c) + 1 /\ r.next \in Nat /\ i <= r.next /\ y \in C!Nodes
      BY <1>0, <1>6, <2>3, <3>1
    <3>3. g[<<f, r.next, y>>] \in Results(c, r.next)
      BY <1>1, <1>2, <1>6, <3>1, <3>2 DEF Lo
    <3>4. g[<<f, r.next, y>>] \in Results(c, i)
      BY <1>0, <3>2, <3>3, AnswersGrow
    <3> QED
      BY <2>3, <3>4
  <2> QED
    BY <2>2, <2>3
<1>7. C!Token(c, i) # "end" => i + 1 \in 1 .. Len(c) + 1
  BY <1>0, TokenIs
<1>8. C!Parsed(x, i) \in Results(c, i)
  BY <1>0, AnswersAre
<1>9. CASE fn = "or"
  <2>1. CASE C!Token(c, i) # "or"
    BY <1>8, <1>9, <2>1 DEF Body, Lo, C!MoreTerms
  <2>2. CASE C!Token(c, i) = "or"
    <3> DEFINE r == g[<<"term", i + 1, {}>>]
               y == x \cup r.node
    <3>1. r.node \in C!Nodes => y \in C!Nodes
      BY DEF C!Nodes
    <3>2. (IF r.ok THEN g[<<"or", r.next, y>>] ELSE C!Failed) \in Results(c, i)
      BY <1>6, <1>7, <2>2, <3>1
    <3> QED
      BY <1>9, <2>2, <3>2 DEF Body, Lo, C!MoreTerms
  <2> QED
    BY <2>1, <2>2
<1>10. CASE fn = "and"
  <2>1. CASE C!Token(c, i) # "and"
    BY <1>8, <1>10, <2>1 DEF Body, Lo, C!MoreFactors
  <2>2. CASE C!Token(c, i) = "and"
    <3> DEFINE r == g[<<"factor", i + 1, {}>>]
               y == x \cap r.node
    <3>1. r.node \in C!Nodes => y \in C!Nodes
      BY DEF C!Nodes
    <3>2. (IF r.ok THEN g[<<"and", r.next, y>>] ELSE C!Failed) \in Results(c, i)
      BY <1>6, <1>7, <2>2, <3>1
    <3> QED
      BY <1>10, <2>2, <3>2 DEF Body, Lo, C!MoreFactors
  <2> QED
    BY <2>1, <2>2
<1>11. CASE fn = "factor"
  <2> DEFINE t == C!Token(c, i)
  <2>0. Body(c, <<fn, i, x>>, g) = C!ParseFactor(c, i, g) /\ Lo(fn, i) = i + 1
    BY <1>11 DEF Body, Lo
  <2>1. C!ParseNot(i, g) \in Results(c, i + 1) \/ t = "end"
    <3> SUFFICES ASSUME t # "end" PROVE C!ParseNot(i, g) \in Results(c, i + 1)
      OBVIOUS
    <3> DEFINE r == g[<<"factor", i + 1, {}>>]
    <3>1. r \in Results(c, (i + 1) + 1)
      BY <1>1, <1>2, <1>7 DEF Lo
    <3> HIDE DEF r
    <3>2. CASE ~r.ok
      BY <3>2, AnswersAre DEF C!ParseNot, C!Negated, r
    <3>3. CASE r.ok
      <4>1. r.node \in C!Nodes /\ r.next \in (i + 1) + 1 .. Len(c) + 1
        BY <3>1, <3>3, AnswerIs
      <4>2. r.next \in i + 1 .. Len(c) + 1 /\ (SUBSET Names) \ r.node \in C!Nodes
        BY <1>0, <4>1 DEF C!Nodes
      <4> QED
        BY <3>3, <4>2, AnswersAre DEF C!ParseNot, C!Negated, r
    <3> QED
      BY <3>2, <3>3
  <2>2. C!Closed(c, g[<<"expression", i + 1, {}>>]) \in Results(c, i + 1) \/ t = "end"
    <3> SUFFICES ASSUME t # "end" PROVE C!Closed(c, g[<<"expression", i + 1, {}>>]) \in Results(c, i + 1)
      OBVIOUS
    <3> DEFINE r == g[<<"expression", i + 1, {}>>]
    <3>1. r \in Results(c, (i + 1) + 1)
      BY <1>1, <1>2, <1>7 DEF Lo
    <3> HIDE DEF r
    <3>2. CASE ~(r.ok /\ C!Token(c, r.next) = ")")
      BY <3>2, AnswersAre DEF C!Closed, r
    <3>3. CASE r.ok /\ C!Token(c, r.next) = ")"
      <4>1. r.node \in C!Nodes /\ r.next \in (i + 1) + 1 .. Len(c) + 1
        BY <3>1, <3>3, AnswerIs
      <4>2. r.next \in Nat /\ r.next <= Len(c)
        BY <1>0, <3>3, <4>1, TokenIs
      <4>3. r.next + 1 \in i + 1 .. Len(c) + 1
        BY <1>0, <4>1, <4>2
      <4> QED
        BY <3>3, <4>1, <4>3, AnswersAre DEF C!Closed, r
    <3> QED
      BY <3>2, <3>3
  <2>3. C!ParseOf(c, i + 1, t) \in Results(c, i + 1)
    <3>1. CASE ~(C!Token(c, i + 1) = "of" /\ C!Token(c, (i + 1) + 1) \in C!Ident \cup {"them"})
      BY <3>1, AnswersAre DEF C!ParseOf
    <3>2. CASE C!Token(c, i + 1) = "of" /\ C!Token(c, (i + 1) + 1) \in C!Ident \cup {"them"}
      <4>1. C!Token(c, (i + 1) + 1) # "end"
        BY <3>2, ConditionAssumption DEF C!Ident
      <4>2. (i + 1) + 1 <= Len(c)
        BY <1>0, <4>1, TokenIs
      <4>3. (i + 1) + 2 \in i + 1 .. Len(c) + 1
        BY <1>0, <4>2
      <4>4. \A k : C!Pattern(t, k) \in C!Nodes
        BY DEF C!Pattern, C!Nodes
      <4> QED
        BY <3>2, <4>3, <4>4, AnswersAre DEF C!ParseOf
    <3> QED
      BY <3>1, <3>2
  <2>4. t # "end" => C!Parsed(C!Selection(t), i + 1) \in Results(c, i + 1)
    <3>1. C!Selection(t) \in C!Nodes
      BY DEF C!Selection, C!Nodes
    <3>2. t # "end" => i + 1 \in i + 1 .. Len(c) + 1
      BY <1>0, <1>7
    <3> QED
      BY <3>1, <3>2, AnswersAre
  <2>5. C!Failed \in Results(c, i + 1)
    BY AnswersAre
  <2>6. "end" \notin C!Ident
    BY ConditionAssumption DEF C!Ident
  <2> HIDE DEF t
  <2>7. C!ParseFactor(c, i, g) \in Results(c, i + 1)
    <3>1. C!ParseFactor(c, i, g) \in {C!ParseNot(i, g), C!Closed(c, g[<<"expression", i + 1, {}>>]), C!ParseOf(c, i + 1, t), C!Parsed(C!Selection(t), i + 1), C!Failed}
      BY DEF C!ParseFactor, t
    <3>2. t = "end" => C!ParseFactor(c, i, g) = C!Failed
      BY <2>6 DEF C!ParseFactor, t
    <3> QED
      BY <2>1, <2>2, <2>3, <2>4, <2>5, <3>1, <3>2
  <2> QED
    BY <2>0, <2>7
<1> QED
  BY <1>1, <1>4, <1>5, <1>9, <1>10, <1>11

\* g and h answer the same to the calls smaller than n.
Agree(c, g, h, n) ==
    \A f \in C!Calls, k \in 1 .. Len(c) + 1, y \in C!Nodes : Size(c, f, k) < n => g[<<f, k, y>>] = h[<<f, k, y>>]

\* A call depends on smaller calls.
LEMMA BodySame ==
    ASSUME NEW c \in Seq(C!Words), NEW g, Answers(c, g), NEW h,
           NEW fn \in C!Calls, NEW i \in 1 .. Len(c) + 1, NEW x \in C!Nodes, Agree(c, g, h, Size(c, fn, i))
    PROVE  Body(c, <<fn, i, x>>, g) = Body(c, <<fn, i, x>>, h)
<1>0. Len(c) \in Nat /\ i \in Nat /\ i + 1 \in Nat /\ i <= Len(c) + 1
  OBVIOUS
<1>1. {} \in C!Nodes /\ {"expression", "or", "term", "and", "factor"} = C!Calls
  BY DEF C!Nodes, C!Calls
<1>2. \A f \in C!Calls, k \in 1 .. Len(c) + 1, y \in C!Nodes : g[<<f, k, y>>] \in Results(c, Lo(f, k))
  BY Called
<1>3. \A f \in C!Calls, k \in 1 .. Len(c) + 1, y \in C!Nodes : k > i => g[<<f, k, y>>] = h[<<f, k, y>>]
  <2> SUFFICES ASSUME NEW f \in C!Calls, NEW k \in 1 .. Len(c) + 1, NEW y \in C!Nodes, k > i
               PROVE  g[<<f, k, y>>] = h[<<f, k, y>>]
    OBVIOUS
  <2>1. Rank(f) \in 0 .. 2 /\ Rank(fn) \in 0 .. 2
    BY DEF Rank
  <2>2. Size(c, f, k) < Size(c, fn, i)
    BY <1>0, <2>1 DEF Size
  <2> QED
    BY <2>2 DEF Agree
<1>4. C!Token(c, i) # "end" => i + 1 \in 1 .. Len(c) + 1 /\ i + 1 > i
  BY <1>0, TokenIs
<1>5. ASSUME NEW f \in {"or", "and"}, NEW a \in {"term", "factor"}, Size(c, a, i) < Size(c, fn, i)
      PROVE  C!Then(g[<<a, i, {}>>], g, f) = C!Then(h[<<a, i, {}>>], h, f)
  <2> DEFINE r == g[<<a, i, {}>>]
  <2>1. r \in Results(c, i + 1)
    BY <1>1, <1>2, <1>5 DEF Lo
  <2>2. r = h[<<a, i, {}>>]
    BY <1>1, <1>5 DEF Agree
  <2> HIDE DEF r
  <2>3. r.ok => g[<<f, r.next, r.node>>] = h[<<f, r.next, r.node>>]
    <3> SUFFICES ASSUME r.ok PROVE g[<<f, r.next, r.node>>] = h[<<f, r.next, r.node>>]
      OBVIOUS
    <3>1. r.node \in C!Nodes /\ r.next \in i + 1 .. Len(c) + 1
      BY <2>1, AnswerIs
    <3>2. r.next \in 1 .. Len(c) + 1 /\ r.next > i
      BY <1>0, <3>1
    <3> QED
      BY <1>1, <1>3, <1>5, <3>1, <3>2
  <2> QED
    BY <2>2, <2>3 DEF C!Then, r
<1>6. CASE fn = "expression"
  <2>1. Size(c, "term", i) < Size(c, fn, i)
    BY <1>0, <1>6 DEF Size, Rank
  <2> QED
    BY <1>5, <1>6, <2>1 DEF Body, C!ParseExpression
<1>7. CASE fn = "term"
  <2>1. Size(c, "factor", i) < Size(c, fn, i)
    BY <1>0, <1>7 DEF Size, Rank
  <2> QED
    BY <1>5, <1>7, <2>1 DEF Body, C!ParseTerm
<1>8. ASSUME NEW a \in {"term", "factor"}, C!Token(c, i) # "end"
      PROVE  /\ g[<<a, i + 1, {}>>] = h[<<a, i + 1, {}>>]
             /\ g[<<a, i + 1, {}>>].ok => /\ g[<<a, i + 1, {}>>].node \in C!Nodes
                                          /\ g[<<a, i + 1, {}>>].next \in 1 .. Len(c) + 1 /\ g[<<a, i + 1, {}>>].next > i
  <2>1. PICK r : r = g[<<a, i + 1, {}>>]
    OBVIOUS
  <2>2. r \in Results(c, (i + 1) + 1) /\ r = h[<<a, i + 1, {}>>]
    BY <1>1, <1>2, <1>3, <1>4, <1>8, <2>1 DEF Lo
  <2>3. r.ok => r.node \in C!Nodes /\ r.next \in (i + 1) + 1 .. Len(c) + 1
    BY <2>2, AnswerIs
  <2>4. r.ok => r.next \in 1 .. Len(c) + 1 /\ r.next > i
    BY <1>0, <2>3
  <2> QED
    BY <2>1, <2>2, <2>3, <2>4
<1>9. CASE fn = "or"
  <2>1. CASE C!Token(c, i) # "or"
    BY <1>9, <2>1 DEF Body, C!MoreTerms
  <2>2. CASE C!Token(c, i) = "or"
    <3>1. PICK r : r = g[<<"term", i + 1, {}>>]
      OBVIOUS
    <3>2. r = h[<<"term", i + 1, {}>>] /\ (r.ok => r.node \in C!Nodes /\ r.next \in 1 .. Len(c) + 1 /\ r.next > i)
      BY <1>8, <2>2, <3>1
    <3>3. r.ok => x \cup r.node \in C!Nodes
      BY <3>2 DEF C!Nodes
    <3>4. r.ok => g[<<"or", r.next, x \cup r.node>>] = h[<<"or", r.next, x \cup r.node>>]
      BY <1>1, <1>3, <3>2, <3>3
    <3> QED
      BY <1>9, <2>2, <3>1, <3>2, <3>4 DEF Body, C!MoreTerms
  <2> QED
    BY <2>1, <2>2
<1>10. CASE fn = "and"
  <2>1. CASE C!Token(c, i) # "and"
    BY <1>10, <2>1 DEF Body, C!MoreFactors
  <2>2. CASE C!Token(c, i) = "and"
    <3>1. PICK r : r = g[<<"factor", i + 1, {}>>]
      OBVIOUS
    <3>2. r = h[<<"factor", i + 1, {}>>] /\ (r.ok => r.node \in C!Nodes /\ r.next \in 1 .. Len(c) + 1 /\ r.next > i)
      BY <1>8, <2>2, <3>1
    <3>3. r.ok => x \cap r.node \in C!Nodes
      BY <3>2 DEF C!Nodes
    <3>4. r.ok => g[<<"and", r.next, x \cap r.node>>] = h[<<"and", r.next, x \cap r.node>>]
      BY <1>1, <1>3, <3>2, <3>3
    <3> QED
      BY <1>10, <2>2, <3>1, <3>2, <3>4 DEF Body, C!MoreFactors
  <2> QED
    BY <2>1, <2>2
<1>11. CASE fn = "factor"
  <2> DEFINE t == C!Token(c, i)
  <2>1. t # "end" => /\ g[<<"factor", i + 1, {}>>] = h[<<"factor", i + 1, {}>>]
                     /\ g[<<"expression", i + 1, {}>>] = h[<<"expression", i + 1, {}>>]
    BY <1>1, <1>3, <1>4
  <2>2. "end" \notin C!Ident
    BY ConditionAssumption DEF C!Ident
  <2> HIDE DEF t
  <2>3. C!ParseFactor(c, i, g) = C!ParseFactor(c, i, h)
    <3>1. CASE t = "end"
      BY <2>2, <3>1 DEF C!ParseFactor, t
    <3>2. CASE t # "end"
      BY <2>1, <3>2 DEF C!ParseFactor, C!ParseNot, t
    <3> QED
      BY <3>1, <3>2
  <2> QED
    BY <1>11, <2>3 DEF Body
<1> QED
  BY <1>1, <1>6, <1>7, <1>9, <1>10, <1>11

\* The parser is the function that its definition describes.
LEMMA ParserDefined ==
    ASSUME NEW c \in Seq(C!Words)
    PROVE  /\ Answers(c, C!Parser(c))
           /\ \A fn \in C!Calls, i \in 1 .. Len(c) + 1, x \in C!Nodes :
                  C!Parser(c)[<<fn, i, x>>] = Body(c, <<fn, i, x>>, C!Parser(c))
<1> DEFINE S(p) == Size(c, p[1], p[2])
           Good(n, g) == /\ g = [p \in Domain(c) |-> g[p]] /\ Answers(c, g)
                         /\ \A p \in Domain(c) : S(p) < n => g[p] = Body(c, p, g)
           There(n) == \E g : Good(n, g)
           T == {n \in Nat : There(n)}
<1>0. Len(c) \in Nat
  OBVIOUS
<1>1. \A p \in Domain(c) : p = <<p[1], p[2], p[3]>> /\ p[1] \in C!Calls /\ p[2] \in 1 .. Len(c) + 1 /\ p[3] \in C!Nodes
  BY DEF Domain
<1>2. \A fn \in C!Calls, i \in 1 .. Len(c) + 1, x \in C!Nodes :
          /\ <<fn, i, x>> \in Domain(c) /\ <<fn, i, x>>[1] = fn /\ <<fn, i, x>>[2] = i
  BY DEF Domain
<1>3. \A p \in Domain(c) : S(p) \in Nat /\ S(p) < 3 * (Len(c) + 2)
  <2> SUFFICES ASSUME NEW p \in Domain(c) PROVE S(p) \in Nat /\ S(p) < 3 * (Len(c) + 2)
    OBVIOUS
  <2>1. Rank(p[1]) \in 0 .. 2 /\ p[2] \in 1 .. Len(c) + 1
    BY <1>1 DEF Rank
  <2> QED
    BY <1>0, <2>1 DEF Size
<1>4. There(0)
  <2> DEFINE g == [p \in Domain(c) |-> C!Failed]
  <2>1. \A p \in Domain(c) : g[p] = C!Failed
    OBVIOUS
  <2>2. g = [p \in Domain(c) |-> g[p]]
    OBVIOUS
  <2> HIDE DEF g
  <2>3. Answers(c, g)
    BY <2>1, AnswersAre DEF Answers
  <2>4. \A p \in Domain(c) : ~(S(p) < 0)
    BY <1>3
  <2> HIDE DEF S
  <2> QED
    BY <2>2, <2>3, <2>4
<1>5. ASSUME NEW n \in Nat, There(n) PROVE There(n + 1)
  <2>1. PICK g : Good(n, g)
    BY <1>5
  <2> DEFINE h == [p \in Domain(c) |-> IF S(p) = n THEN Body(c, p, g) ELSE g[p]]
  <2>2. \A p \in Domain(c) : h[p] = IF S(p) = n THEN Body(c, p, g) ELSE g[p]
    OBVIOUS
  <2>3. h = [p \in Domain(c) |-> h[p]]
    OBVIOUS
  <2> HIDE DEF h
  <2>4. \A p \in Domain(c) : Body(c, p, g) \in Results(c, Lo(p[1], p[2]))
    <3> SUFFICES ASSUME NEW p \in Domain(c) PROVE Body(c, p, g) \in Results(c, Lo(p[1], p[2]))
      OBVIOUS
    <3>1. p = <<p[1], p[2], p[3]>> /\ p[1] \in C!Calls /\ p[2] \in 1 .. Len(c) + 1 /\ p[3] \in C!Nodes
      BY <1>1
    <3>2. Body(c, <<p[1], p[2], p[3]>>, g) \in Results(c, Lo(p[1], p[2]))
      BY <2>1, <3>1, BodyFits
    <3> QED
      BY <3>1, <3>2
  <2>5. Answers(c, h)
    <3>1. \A p \in Domain(c) : g[p] \in Results(c, Lo(p[1], p[2]))
      BY <2>1 DEF Answers
    <3> QED
      BY <2>2, <2>4, <3>1 DEF Answers
  <2>6. ASSUME NEW p \in Domain(c), S(p) < n + 1 PROVE h[p] = Body(c, p, h)
    <3>0. p = <<p[1], p[2], p[3]>> /\ p[1] \in C!Calls /\ p[2] \in 1 .. Len(c) + 1 /\ p[3] \in C!Nodes /\ S(p) \in Nat
      BY <1>1, <1>3
    <3>1. Agree(c, g, h, S(p))
      <4> SUFFICES ASSUME NEW f \in C!Calls, NEW k \in 1 .. Len(c) + 1, NEW y \in C!Nodes, Size(c, f, k) < S(p)
                   PROVE  g[<<f, k, y>>] = h[<<f, k, y>>]
        BY DEF Agree
      <4> DEFINE q == <<f, k, y>>
      <4>1. q \in Domain(c) /\ S(q) = Size(c, f, k)
        BY <1>2
      <4>2. S(q) \in Nat
        BY <1>3, <4>1
      <4>3. S(q) # n
        BY <2>6, <3>0, <4>1, <4>2
      <4> HIDE DEF q
      <4>4. g[q] = h[q]
        BY <2>2, <4>1, <4>3
      <4> QED
        BY <4>4 DEF q
    <3>2. Body(c, <<p[1], p[2], p[3]>>, g) = Body(c, <<p[1], p[2], p[3]>>, h)
      BY <2>1, <3>0, <3>1, BodySame
    <3>3. Body(c, p, g) = Body(c, p, h)
      BY <3>0, <3>2
    <3>4. h[p] = Body(c, p, g)
      <4>1. CASE S(p) = n
        BY <2>2, <4>1
      <4>2. CASE S(p) # n
        <5>1. S(p) < n
          BY <2>6, <3>0, <4>2
        <5>2. g[p] = Body(c, p, g)
          BY <2>1, <5>1
        <5> QED
          BY <2>2, <4>2, <5>2
      <4> QED
        BY <4>1, <4>2
    <3> QED
      BY <3>3, <3>4
  <2> HIDE DEF S
  <2> QED
    BY <2>3, <2>5, <2>6
<1> HIDE DEF There
<1>6. There(3 * (Len(c) + 2))
  <2>1. 0 \in T /\ \A n \in Nat : n \in T => n + 1 \in T
    BY <1>4, <1>5
  <2>2. 3 * (Len(c) + 2) \in Nat
    BY <1>0
  <2> HIDE DEF T
  <2>3. Nat \subseteq T
    BY <2>1, Climb
  <2> QED
    BY <2>2, <2>3 DEF T
<1>7. PICK g : Good(3 * (Len(c) + 2), g)
  BY <1>6 DEF There
<1>8. g = [p \in Domain(c) |-> Body(c, p, g)]
  <2>1. g = [p \in Domain(c) |-> g[p]] /\ \A p \in Domain(c) : g[p] = Body(c, p, g)
    BY <1>3, <1>7
  <2> QED
    BY <2>1
<1> DEFINE P == C!Parser(c)
<1>9. P = [p \in Domain(c) |-> Body(c, p, P)]
  BY <1>8 DEF C!Parser, Domain, Body
<1>10. ASSUME NEW f, f = [p \in Domain(c) |-> Body(c, p, f)]
       PROVE  \A p \in Domain(c) : f[p] = g[p]
  <2> DEFINE U == {n \in Nat : \A p \in Domain(c) : S(p) < n => f[p] = g[p]}
  <2>0. \A p \in Domain(c) : f[p] = Body(c, p, f) /\ g[p] = Body(c, p, g)
    BY <1>3, <1>7, <1>10
  <2>1. 0 \in U
    BY <1>3
  <2>2. ASSUME NEW n \in Nat, n \in U PROVE n + 1 \in U
    <3> SUFFICES ASSUME NEW p \in Domain(c), S(p) < n + 1 PROVE f[p] = g[p]
      <4>1. n + 1 \in Nat
        OBVIOUS
      <4> HIDE DEF S
      <4> QED
        BY <4>1
    <3>0. p = <<p[1], p[2], p[3]>> /\ p[1] \in C!Calls /\ p[2] \in 1 .. Len(c) + 1 /\ p[3] \in C!Nodes /\ S(p) \in Nat
      BY <1>1, <1>3
    <3>1. Agree(c, g, f, S(p))
      <4> SUFFICES ASSUME NEW h \in C!Calls, NEW k \in 1 .. Len(c) + 1, NEW y \in C!Nodes, Size(c, h, k) < S(p)
                   PROVE  g[<<h, k, y>>] = f[<<h, k, y>>]
        BY DEF Agree
      <4> DEFINE q == <<h, k, y>>
      <4>1. q \in Domain(c) /\ S(q) = Size(c, h, k)
        BY <1>2
      <4>2. S(q) \in Nat
        BY <1>3, <4>1
      <4>3. S(q) < n
        BY <3>0, <4>1, <4>2
      <4> HIDE DEF q
      <4>4. g[q] = f[q]
        BY <2>2, <4>1, <4>3
      <4> QED
        BY <4>4 DEF q
    <3>2. Body(c, <<p[1], p[2], p[3]>>, g) = Body(c, <<p[1], p[2], p[3]>>, f)
      <4>1. Answers(c, g)
        BY <1>7
      <4> QED
        BY <3>0, <3>1, <4>1, BodySame
    <3> QED
      BY <2>0, <3>0, <3>2
  <2> HIDE DEF U
  <2>3. Nat \subseteq U
    BY <2>1, <2>2, Climb
  <2>4. 3 * (Len(c) + 2) \in U
    BY <1>0, <2>3
  <2> QED
    BY <1>3, <2>4 DEF U
<1> HIDE DEF P
<1>11. \A p \in Domain(c) : P[p] = g[p]
  BY <1>9, <1>10
<1>12. Answers(c, P)
  <2>1. Answers(c, g)
    BY <1>7
  <2> QED
    BY <1>11, <2>1 DEF Answers
<1>13. \A p \in Domain(c) : P[p] = Body(c, p, P)
  BY <1>9
<1> QED
  BY <1>2, <1>12, <1>13 DEF P

\* The words of a condition that passed validation.
Valid(c) == c \in Seq(C!Words) /\ C!Validate(c)

\* Validation leaves no number, no "any" and no unknown character.
LEMMA ValidWords ==
    ASSUME NEW c, Valid(c)
    PROVE  /\ c \in Seq(C!Words) /\ Len(c) \in Nat \ {0}
           /\ \A i \in 1 .. Len(c) :
                  /\ c[i] \in {"and", "or", "not", "of", "all", "them", "(", ")", "sel*"} \cup Names
                  /\ C!Token(c, i) = c[i] /\ c[i] # "end" /\ c[i] \notin {"1", "2", "any", "other"}
                  /\ c[i] \in C!Ident => c[i] \notin {"and", "or", "not", "of", "all", "them", "(", ")"}
           /\ C!Token(c, Len(c) + 1) = "end"
<1>1. c \in Seq(C!Words) /\ c # <<>> /\ Len(c) \in Nat
  BY DEF Valid, C!Validate
<1>2. ASSUME NEW i \in 1 .. Len(c)
      PROVE  /\ c[i] \in {"and", "or", "not", "of", "all", "them", "(", ")", "sel*"} \cup Names
             /\ C!Token(c, i) = c[i] /\ c[i] # "end" /\ c[i] \notin {"1", "2", "any", "other"}
             /\ c[i] \in C!Ident => c[i] \notin {"and", "or", "not", "of", "all", "them", "(", ")"}
  <2>1. c[i] \in {"and", "or", "not", "of", "all", "them", "(", ")", "sel*"} \cup Names
    <3>1. C!ExtractSelectionNames(c) \subseteq Names
      BY DEF Valid, C!Validate
    <3> QED
      BY <1>2, <3>1 DEF C!ExtractSelectionNames
  <2>2. c[i] # "end" /\ c[i] \notin {"1", "2", "any", "other"}
    BY <2>1, ConditionAssumption DEF C!Keyword
  <2>3. C!Token(c, i) = c[i]
    BY <1>1, <1>2, <2>2 DEF C!Token
  <2>4. c[i] \in C!Ident => c[i] \notin {"and", "or", "not", "of", "all", "them", "(", ")"}
    BY ConditionAssumption DEF C!Keyword, C!Ident
  <2> QED
    BY <2>1, <2>2, <2>3, <2>4
<1>3. Len(c) # 0
  BY <1>1
<1>4. C!Token(c, Len(c) + 1) = "end"
  BY <1>1 DEF C!Token
<1> QED
  BY <1>1, <1>2, <1>3, <1>4

-----------------------------------------------------------------------------
\* How many parentheses are open after the words from i to k.
Places(c, i, k, word) == {n \in i .. k : c[n] = word}
Depth(c, i, k) == Cardinality(Places(c, i, k, "(")) - Cardinality(Places(c, i, k, ")"))

\* Words are counted.
LEMMA PlacesFinite ==
    ASSUME NEW c, NEW i \in Int, NEW k \in Int, NEW w
    PROVE  IsFiniteSet(Places(c, i, k, w)) /\ Cardinality(Places(c, i, k, w)) \in Nat
<1>1. IsFiniteSet(i .. k)
  BY FS_Interval
<1>2. Places(c, i, k, w) \subseteq i .. k
  BY DEF Places
<1>3. IsFiniteSet(Places(c, i, k, w))
  BY <1>1, <1>2, FS_Subset
<1> QED
  BY <1>3, FS_CardinalityType

\* Words are counted part by part.
LEMMA PlacesSplit ==
    ASSUME NEW c, NEW i \in Int, NEW k \in Int, NEW m \in Int, i <= m + 1, m <= k, NEW w
    PROVE  Cardinality(Places(c, i, k, w)) = Cardinality(Places(c, i, m, w)) + Cardinality(Places(c, m + 1, k, w))
<1> DEFINE A == Places(c, i, m, w)
           B == Places(c, m + 1, k, w)
<1>1. Places(c, i, k, w) = A \cup B
  <2>1. i .. k = (i .. m) \cup (m + 1 .. k)
    OBVIOUS
  <2> QED
    BY <2>1 DEF Places
<1>2. A \cap B = {}
  BY DEF Places
<1>3. IsFiniteSet(A) /\ IsFiniteSet(B) /\ Cardinality(A) \in Nat /\ Cardinality(B) \in Nat
  BY PlacesFinite
<1>4. Cardinality(A \cup B) = Cardinality(A) + Cardinality(B) - Cardinality(A \cap B)
  BY <1>3, FS_Union
<1>5. Cardinality(A \cap B) = 0
  BY <1>2, FS_EmptySet
<1> HIDE DEF A, B
<1>6. Cardinality(A \cup B) = Cardinality(A) + Cardinality(B)
  BY <1>3, <1>4, <1>5
<1> QED
  BY <1>1, <1>6 DEF A, B

\* So is the depth.
LEMMA DepthSplit ==
    ASSUME NEW c, NEW i \in Int, NEW k \in Int
    PROVE  /\ Depth(c, i, k) \in Int
           /\ \A m \in Int : i <= m + 1 /\ m <= k => Depth(c, i, k) = Depth(c, i, m) + Depth(c, m + 1, k)
<1>1. \A w : \A a, b \in Int : Cardinality(Places(c, a, b, w)) \in Nat
  BY PlacesFinite
<1>2. Depth(c, i, k) \in Int
  BY <1>1 DEF Depth
<1>3. ASSUME NEW m \in Int, i <= m + 1, m <= k PROVE Depth(c, i, k) = Depth(c, i, m) + Depth(c, m + 1, k)
  <2>1. Cardinality(Places(c, i, k, "(")) = Cardinality(Places(c, i, m, "(")) + Cardinality(Places(c, m + 1, k, "("))
    BY <1>3, PlacesSplit
  <2>2. Cardinality(Places(c, i, k, ")")) = Cardinality(Places(c, i, m, ")")) + Cardinality(Places(c, m + 1, k, ")"))
    BY <1>3, PlacesSplit
  <2>3. m + 1 \in Int
    OBVIOUS
  <2> QED
    BY <1>1, <2>1, <2>2, <2>3 DEF Depth
<1> QED
  BY <1>2, <1>3

\* The depth after one word.
LEMMA DepthOne ==
    ASSUME NEW c, NEW i \in Int
    PROVE  Depth(c, i, i) = IF c[i] = "(" THEN 1 ELSE IF c[i] = ")" THEN -1 ELSE 0
<1>1. \A w : Places(c, i, i, w) = IF c[i] = w THEN {i} ELSE {}
  BY DEF Places
<1>2. Cardinality({i}) = 1 /\ Cardinality({}) = 0
  BY FS_Singleton, FS_EmptySet
<1>3. \A w : Cardinality(Places(c, i, i, w)) = IF c[i] = w THEN 1 ELSE 0
  BY <1>1, <1>2
<1>4. "(" # ")"
  OBVIOUS
<1> QED
  BY <1>3, <1>4 DEF Depth

\* Where a word stands outside parentheses.
LEMMA OutsideIs ==
    ASSUME NEW c, NEW i \in Int, NEW j \in Int, NEW w
    PROVE  C!Outside(c, i, j, w) = {k \in i .. j : c[k] = w /\ Depth(c, i, k) = 0}
<1>1. \A T : C!Cardinality(T) = Cardinality(T)
  BY DEF C!Cardinality, Cardinality, C!IsFiniteSet, IsFiniteSet
<1>2. \A v : \A a, b \in Int : Cardinality(Places(c, a, b, v)) \in Nat
  BY PlacesFinite
<1>3. ASSUME NEW k \in i .. j
      PROVE  Depth(c, i, k) = 0 <=> C!Cardinality({n \in i .. k : c[n] = "("}) = C!Cardinality({n \in i .. k : c[n] = ")"})
  <2>1. Depth(c, i, k) = C!Cardinality(Places(c, i, k, "(")) - C!Cardinality(Places(c, i, k, ")"))
    BY <1>1 DEF Depth
  <2>2. C!Cardinality(Places(c, i, k, "(")) \in Nat /\ C!Cardinality(Places(c, i, k, ")")) \in Nat
    BY <1>1, <1>2
  <2>3. Depth(c, i, k) = 0 <=> C!Cardinality(Places(c, i, k, "(")) = C!Cardinality(Places(c, i, k, ")"))
    BY <2>1, <2>2
  <2> QED
    BY <2>3 DEF Places
<1> QED
  BY <1>3 DEF C!Outside

-----------------------------------------------------------------------------
\* The grammar as the least set of derivations: of an expression (e), a term (t) or a factor (f) from word i to word j,
\* with the node it stands for.
All(c) == {"e", "t", "f"} \X (1 .. Len(c)) \X (1 .. Len(c)) \X C!Nodes

NameRule(c, S) == \A i \in 1 .. Len(c) : c[i] \in C!Ident => <<"f", i, i, C!Selection(c[i])>> \in S
NotRule(c, S) ==
    \A i, j \in 1 .. Len(c), x \in C!Nodes :
        i < j /\ c[i] = "not" /\ <<"f", i + 1, j, x>> \in S => <<"f", i, j, (SUBSET Names) \ x>> \in S
ParenRule(c, S) ==
    \A i, j \in 1 .. Len(c), x \in C!Nodes :
        i + 1 < j /\ c[i] = "(" /\ c[j] = ")" /\ <<"e", i + 1, j - 1, x>> \in S => <<"f", i, j, x>> \in S
OfRule(c, S) ==
    \A i, j \in 1 .. Len(c) :
        i + 2 = j /\ c[i] = "all" /\ c[i + 1] = "of" /\ c[j] \in C!Ident \cup {"them"}
        => <<"f", i, j, C!Pattern("all", C!ExpandPattern(c[j]))>> \in S
TermRule(c, S) == \A i, j \in 1 .. Len(c), x \in C!Nodes : <<"f", i, j, x>> \in S => <<"t", i, j, x>> \in S
AndRule(c, S) ==
    \A i, k, j \in 1 .. Len(c), x, y \in C!Nodes :
        i < k /\ k < j /\ c[k] = "and" /\ <<"t", i, k - 1, x>> \in S /\ <<"f", k + 1, j, y>> \in S
        => <<"t", i, j, x \cap y>> \in S
ExprRule(c, S) == \A i, j \in 1 .. Len(c), x \in C!Nodes : <<"t", i, j, x>> \in S => <<"e", i, j, x>> \in S
OrRule(c, S) ==
    \A i, k, j \in 1 .. Len(c), x, y \in C!Nodes :
        i < k /\ k < j /\ c[k] = "or" /\ <<"e", i, k - 1, x>> \in S /\ <<"t", k + 1, j, y>> \in S
        => <<"e", i, j, x \cup y>> \in S
ClosedUnder(c, S) ==
    /\ NameRule(c, S) /\ NotRule(c, S) /\ ParenRule(c, S) /\ OfRule(c, S)
    /\ TermRule(c, S) /\ AndRule(c, S) /\ ExprRule(c, S) /\ OrRule(c, S)

Grammar(c) == {d \in All(c) : \A S \in SUBSET All(c) : ClosedUnder(c, S) => d \in S}

\* A derivation's parts.
LEMMA AllIs ==
    ASSUME NEW c
    PROVE  /\ \A d \in All(c) : /\ d = <<d[1], d[2], d[3], d[4]>> /\ d[1] \in {"e", "t", "f"}
                                /\ d[2] \in 1 .. Len(c) /\ d[3] \in 1 .. Len(c) /\ d[4] \in C!Nodes
           /\ \A s \in {"e", "t", "f"}, i, j \in 1 .. Len(c), x \in C!Nodes : <<s, i, j, x>> \in All(c)
           /\ \A s, i, j, x : <<s, i, j, x>>[1] = s /\ <<s, i, j, x>>[2] = i /\ <<s, i, j, x>>[3] = j /\ <<s, i, j, x>>[4] = x
BY DEF All

\* The nodes that rules make are nodes.
LEMMA NodesMade ==
    /\ \A x, y \in C!Nodes : x \cap y \in C!Nodes /\ x \cup y \in C!Nodes /\ (SUBSET Names) \ x \in C!Nodes
    /\ \A w : C!Selection(w) \in C!Nodes
    /\ \A k, w : C!Pattern(w, k) \in C!Nodes
BY DEF C!Nodes, C!Selection, C!Pattern

\* Induction over derivations.
LEMMA GrammarLeast ==
    ASSUME NEW c, NEW S, S \subseteq All(c), ClosedUnder(c, S)
    PROVE  Grammar(c) \subseteq S
BY DEF Grammar

\* The grammar obeys its rules.
LEMMA GrammarRules ==
    ASSUME NEW c \in Seq(C!Words)
    PROVE  ClosedUnder(c, Grammar(c)) /\ Grammar(c) \subseteq All(c)
<1> DEFINE G == Grammar(c)
<1>0. Len(c) \in Nat
  OBVIOUS
<1>1. G \subseteq All(c) /\ \A d \in G : \A S \in SUBSET All(c) : ClosedUnder(c, S) => d \in S
  BY DEF Grammar
<1>2. \A d \in All(c) : (\A S \in SUBSET All(c) : ClosedUnder(c, S) => d \in S) => d \in G
  BY DEF Grammar
<1> HIDE DEF G
<1>3. \A s \in {"e", "t", "f"}, i, j \in 1 .. Len(c), x \in C!Nodes : <<s, i, j, x>> \in All(c)
  BY AllIs
<1>4. NameRule(c, G)
  <2> SUFFICES ASSUME NEW i \in 1 .. Len(c), c[i] \in C!Ident PROVE <<"f", i, i, C!Selection(c[i])>> \in G
    BY DEF NameRule
  <2>1. <<"f", i, i, C!Selection(c[i])>> \in All(c)
    BY <1>3, NodesMade
  <2>2. ASSUME NEW S \in SUBSET All(c), ClosedUnder(c, S) PROVE <<"f", i, i, C!Selection(c[i])>> \in S
    BY <2>2 DEF ClosedUnder, NameRule
  <2> QED
    BY <1>2, <2>1, <2>2
<1>5. NotRule(c, G)
  <2> SUFFICES ASSUME NEW i \in 1 .. Len(c), NEW j \in 1 .. Len(c), NEW x \in C!Nodes,
                      i < j, c[i] = "not", <<"f", i + 1, j, x>> \in G
               PROVE  <<"f", i, j, (SUBSET Names) \ x>> \in G
    BY DEF NotRule
  <2>1. <<"f", i, j, (SUBSET Names) \ x>> \in All(c)
    BY <1>3, NodesMade
  <2>2. ASSUME NEW S \in SUBSET All(c), ClosedUnder(c, S) PROVE <<"f", i, j, (SUBSET Names) \ x>> \in S
    <3>1. <<"f", i + 1, j, x>> \in S
      BY <1>1, <2>2
    <3> QED
      BY <2>2, <3>1 DEF ClosedUnder, NotRule
  <2> QED
    BY <1>2, <2>1, <2>2
<1>6. ParenRule(c, G)
  <2> SUFFICES ASSUME NEW i \in 1 .. Len(c), NEW j \in 1 .. Len(c), NEW x \in C!Nodes,
                      i + 1 < j, c[i] = "(", c[j] = ")", <<"e", i + 1, j - 1, x>> \in G
               PROVE  <<"f", i, j, x>> \in G
    BY DEF ParenRule
  <2>1. <<"f", i, j, x>> \in All(c)
    BY <1>3
  <2>2. ASSUME NEW S \in SUBSET All(c), ClosedUnder(c, S) PROVE <<"f", i, j, x>> \in S
    <3>1. <<"e", i + 1, j - 1, x>> \in S
      BY <1>1, <2>2
    <3> QED
      BY <2>2, <3>1 DEF ClosedUnder, ParenRule
  <2> QED
    BY <1>2, <2>1, <2>2
<1>7. OfRule(c, G)
  <2> SUFFICES ASSUME NEW i \in 1 .. Len(c), NEW j \in 1 .. Len(c),
                      i + 2 = j, c[i] = "all", c[i + 1] = "of", c[j] \in C!Ident \cup {"them"}
               PROVE  <<"f", i, j, C!Pattern("all", C!ExpandPattern(c[j]))>> \in G
    BY DEF OfRule
  <2> DEFINE x == C!Pattern("all", C!ExpandPattern(c[j]))
  <2>1. <<"f", i, j, x>> \in All(c)
    BY <1>3, NodesMade
  <2>2. ASSUME NEW S \in SUBSET All(c), ClosedUnder(c, S) PROVE <<"f", i, j, x>> \in S
    BY <2>2 DEF ClosedUnder, OfRule
  <2> HIDE DEF x
  <2>3. <<"f", i, j, x>> \in G
    BY <1>2, <2>1, <2>2
  <2> QED
    BY <2>3 DEF x
<1>8. TermRule(c, G)
  <2> SUFFICES ASSUME NEW i \in 1 .. Len(c), NEW j \in 1 .. Len(c), NEW x \in C!Nodes, <<"f", i, j, x>> \in G
               PROVE  <<"t", i, j, x>> \in G
    BY DEF TermRule
  <2>1. ASSUME NEW S \in SUBSET All(c), ClosedUnder(c, S) PROVE <<"t", i, j, x>> \in S
    <3>1. <<"f", i, j, x>> \in S
      BY <1>1, <2>1
    <3> QED
      BY <2>1, <3>1 DEF ClosedUnder, TermRule
  <2> QED
    BY <1>2, <1>3, <2>1
<1>9. AndRule(c, G)
  <2> SUFFICES ASSUME NEW i \in 1 .. Len(c), NEW k \in 1 .. Len(c), NEW j \in 1 .. Len(c), NEW x \in C!Nodes, NEW y \in C!Nodes,
                      i < k, k < j, c[k] = "and", <<"t", i, k - 1, x>> \in G, <<"f", k + 1, j, y>> \in G
               PROVE  <<"t", i, j, x \cap y>> \in G
    BY DEF AndRule
  <2>1. <<"t", i, j, x \cap y>> \in All(c)
    BY <1>3, NodesMade
  <2>2. ASSUME NEW S \in SUBSET All(c), ClosedUnder(c, S) PROVE <<"t", i, j, x \cap y>> \in S
    <3>1. <<"t", i, k - 1, x>> \in S /\ <<"f", k + 1, j, y>> \in S
      BY <1>1, <2>2
    <3> QED
      BY <2>2, <3>1 DEF ClosedUnder, AndRule
  <2> QED
    BY <1>2, <2>1, <2>2
<1>10. ExprRule(c, G)
  <2> SUFFICES ASSUME NEW i \in 1 .. Len(c), NEW j \in 1 .. Len(c), NEW x \in C!Nodes, <<"t", i, j, x>> \in G
               PROVE  <<"e", i, j, x>> \in G
    BY DEF ExprRule
  <2>1. ASSUME NEW S \in SUBSET All(c), ClosedUnder(c, S) PROVE <<"e", i, j, x>> \in S
    <3>1. <<"t", i, j, x>> \in S
      BY <1>1, <2>1
    <3> QED
      BY <2>1, <3>1 DEF ClosedUnder, ExprRule
  <2> QED
    BY <1>2, <1>3, <2>1
<1>11. OrRule(c, G)
  <2> SUFFICES ASSUME NEW i \in 1 .. Len(c), NEW k \in 1 .. Len(c), NEW j \in 1 .. Len(c), NEW x \in C!Nodes, NEW y \in C!Nodes,
                      i < k, k < j, c[k] = "or", <<"e", i, k - 1, x>> \in G, <<"t", k + 1, j, y>> \in G
               PROVE  <<"e", i, j, x \cup y>> \in G
    BY DEF OrRule
  <2>1. <<"e", i, j, x \cup y>> \in All(c)
    BY <1>3, NodesMade
  <2>2. ASSUME NEW S \in SUBSET All(c), ClosedUnder(c, S) PROVE <<"e", i, j, x \cup y>> \in S
    <3>1. <<"e", i, k - 1, x>> \in S /\ <<"t", k + 1, j, y>> \in S
      BY <1>1, <2>2
    <3> QED
      BY <2>2, <3>1 DEF ClosedUnder, OrRule
  <2> QED
    BY <1>2, <2>1, <2>2
<1> QED
  BY <1>1, <1>4, <1>5, <1>6, <1>7, <1>8, <1>9, <1>10, <1>11 DEF ClosedUnder, G

\* The parser's functions.
LEMMA ParserCalls ==
    ASSUME NEW c \in Seq(C!Words), NEW P, P = C!Parser(c), NEW i \in 1 .. Len(c) + 1
    PROVE  /\ P[<<"factor", i, {}>>] = C!ParseFactor(c, i, P)
           /\ P[<<"term", i, {}>>] = C!Then(P[<<"factor", i, {}>>], P, "and")
           /\ P[<<"expression", i, {}>>] = C!Then(P[<<"term", i, {}>>], P, "or")
           /\ \A x \in C!Nodes : P[<<"and", i, x>>] = C!MoreFactors(c, i, x, P)
           /\ \A x \in C!Nodes : P[<<"or", i, x>>] = C!MoreTerms(c, i, x, P)
<1>1. \A fn \in C!Calls, x \in C!Nodes : P[<<fn, i, x>>] = Body(c, <<fn, i, x>>, P)
  BY ParserDefined
<1>2. {} \in C!Nodes /\ {"expression", "or", "term", "and", "factor"} = C!Calls
  BY DEF C!Nodes, C!Calls
<1>3. \A x : /\ Body(c, <<"factor", i, x>>, P) = C!ParseFactor(c, i, P)
             /\ Body(c, <<"term", i, x>>, P) = C!ParseTerm(c, i, P)
             /\ Body(c, <<"expression", i, x>>, P) = C!ParseExpression(c, i, P)
             /\ Body(c, <<"and", i, x>>, P) = C!MoreFactors(c, i, x, P)
             /\ Body(c, <<"or", i, x>>, P) = C!MoreTerms(c, i, x, P)
  BY DEF Body
<1> QED
  BY <1>1, <1>2, <1>3 DEF C!ParseTerm, C!ParseExpression

\* Reading an answer that is there.
LEMMA ParsedIs == \A x, k : C!Parsed(x, k).ok = TRUE /\ C!Parsed(x, k).node = x /\ C!Parsed(x, k).next = k
BY DEF C!Parsed

\* What the parser does with what the grammar derives.
ParsedAs(c, P, d) ==
    /\ d[2] <= d[3]
    /\ d[1] = "f" => P[<<"factor", d[2], {}>>] = C!Parsed(d[4], d[3] + 1)
    /\ d[1] = "t" => P[<<"term", d[2], {}>>] = P[<<"and", d[3] + 1, d[4]>>]
    /\ d[1] = "e" /\ C!Token(c, d[3] + 1) # "and" => P[<<"expression", d[2], {}>>] = P[<<"or", d[3] + 1, d[4]>>]

\* Completeness of the parser: what the grammar derives, it reads, by induction over derivations.
LEMMA GrammarIsParsed ==
    ASSUME NEW c, Valid(c), NEW P, P = C!Parser(c)
    PROVE  \A d \in Grammar(c) : ParsedAs(c, P, d)
<1> DEFINE S == {d \in All(c) : ParsedAs(c, P, d)}
<1>0. /\ c \in Seq(C!Words) /\ Len(c) \in Nat
      /\ \A i \in 1 .. Len(c) : /\ C!Token(c, i) = c[i] /\ c[i] # "end"
                                /\ c[i] \in C!Ident => c[i] \notin {"and", "or", "not", "of", "all", "them", "(", ")"}
                                /\ c[i] \notin {"1", "2", "any", "other"}
      /\ C!Token(c, Len(c) + 1) = "end"
  BY ValidWords
<1>1. \A s \in {"e", "t", "f"}, i, j \in 1 .. Len(c), x \in C!Nodes : <<s, i, j, x>> \in S <=> ParsedAs(c, P, <<s, i, j, x>>)
  BY AllIs
<1>2. S \subseteq All(c)
  OBVIOUS
<1> HIDE DEF S
<1>3f. \A i, j \in 1 .. Len(c), x \in C!Nodes :
          <<"f", i, j, x>> \in S <=> i <= j /\ P[<<"factor", i, {}>>] = C!Parsed(x, j + 1)
  <2> SUFFICES ASSUME NEW i \in 1 .. Len(c), NEW j \in 1 .. Len(c), NEW x \in C!Nodes
               PROVE  <<"f", i, j, x>> \in S <=> i <= j /\ P[<<"factor", i, {}>>] = C!Parsed(x, j + 1)
    OBVIOUS
  <2>1. <<"f", i, j, x>> \in S <=> ParsedAs(c, P, <<"f", i, j, x>>)
    BY <1>1
  <2>2. ParsedAs(c, P, <<"f", i, j, x>>) <=> i <= j /\ P[<<"factor", i, {}>>] = C!Parsed(x, j + 1)
    BY DEF ParsedAs
  <2> QED
    BY <2>1, <2>2
<1>3t. \A i, j \in 1 .. Len(c), x \in C!Nodes :
          <<"t", i, j, x>> \in S <=> i <= j /\ P[<<"term", i, {}>>] = P[<<"and", j + 1, x>>]
  <2> SUFFICES ASSUME NEW i \in 1 .. Len(c), NEW j \in 1 .. Len(c), NEW x \in C!Nodes
               PROVE  <<"t", i, j, x>> \in S <=> i <= j /\ P[<<"term", i, {}>>] = P[<<"and", j + 1, x>>]
    OBVIOUS
  <2>1. <<"t", i, j, x>> \in S <=> ParsedAs(c, P, <<"t", i, j, x>>)
    BY <1>1
  <2>2. ParsedAs(c, P, <<"t", i, j, x>>) <=> i <= j /\ P[<<"term", i, {}>>] = P[<<"and", j + 1, x>>]
    BY DEF ParsedAs
  <2> QED
    BY <2>1, <2>2
<1>3e. \A i, j \in 1 .. Len(c), x \in C!Nodes :
          <<"e", i, j, x>> \in S <=> i <= j /\ (C!Token(c, j + 1) # "and" => P[<<"expression", i, {}>>] = P[<<"or", j + 1, x>>])
  <2> SUFFICES ASSUME NEW i \in 1 .. Len(c), NEW j \in 1 .. Len(c), NEW x \in C!Nodes
               PROVE  <<"e", i, j, x>> \in S <=> i <= j /\ (C!Token(c, j + 1) # "and" => P[<<"expression", i, {}>>] = P[<<"or", j + 1, x>>])
    OBVIOUS
  <2>1. <<"e", i, j, x>> \in S <=> ParsedAs(c, P, <<"e", i, j, x>>)
    BY <1>1
  <2>2. ParsedAs(c, P, <<"e", i, j, x>>) <=> i <= j /\ (C!Token(c, j + 1) # "and" => P[<<"expression", i, {}>>] = P[<<"or", j + 1, x>>])
    BY DEF ParsedAs
  <2> QED
    BY <2>1, <2>2
<1>4. \A i \in 1 .. Len(c) : i \in 1 .. Len(c) + 1 /\ i + 1 \in 1 .. Len(c) + 1
  BY <1>0
<1>5. NameRule(c, S)
  <2> SUFFICES ASSUME NEW i \in 1 .. Len(c), c[i] \in C!Ident PROVE <<"f", i, i, C!Selection(c[i])>> \in S
    BY DEF NameRule
  <2>1. P[<<"factor", i, {}>>] = C!ParseFactor(c, i, P)
    BY <1>0, <1>4, ParserCalls
  <2>2. C!ParseFactor(c, i, P) = C!Parsed(C!Selection(c[i]), i + 1)
    <3>1. C!Token(c, i) = c[i] /\ c[i] \notin {"not", "(", "1", "2", "all", "any"}
      BY <1>0
    <3> QED
      BY <3>1 DEF C!ParseFactor
  <2> QED
    BY <1>3f, <2>1, <2>2, NodesMade
<1>6. NotRule(c, S)
  <2> SUFFICES ASSUME NEW i \in 1 .. Len(c), NEW j \in 1 .. Len(c), NEW x \in C!Nodes,
                      i < j, c[i] = "not", <<"f", i + 1, j, x>> \in S
               PROVE  <<"f", i, j, (SUBSET Names) \ x>> \in S
    BY DEF NotRule
  <2>0. i + 1 \in 1 .. Len(c) /\ i <= j
    BY <1>0
  <2>1. P[<<"factor", i, {}>>] = C!ParseFactor(c, i, P)
    BY <1>0, <1>4, ParserCalls
  <2>2. P[<<"factor", i + 1, {}>>] = C!Parsed(x, j + 1)
    BY <1>3f, <2>0
  <2>3. C!ParseNot(i, P) = C!Parsed((SUBSET Names) \ x, j + 1)
    <3>1. PICK r : r = P[<<"factor", i + 1, {}>>]
      OBVIOUS
    <3>2. r.ok = TRUE /\ r.node = x /\ r.next = j + 1
      BY <2>2, <3>1, ParsedIs
    <3> QED
      BY <3>1, <3>2 DEF C!ParseNot, C!Negated
  <2>4. C!ParseFactor(c, i, P) = C!ParseNot(i, P)
    <3>1. C!Token(c, i) = "not" /\ "not" \notin C!Ident
      BY <1>0
    <3> QED
      BY <3>1 DEF C!ParseFactor
  <2> QED
    BY <1>3f, <2>0, <2>1, <2>3, <2>4, NodesMade
<1>7. ParenRule(c, S)
  <2> SUFFICES ASSUME NEW i \in 1 .. Len(c), NEW j \in 1 .. Len(c), NEW x \in C!Nodes,
                      i + 1 < j, c[i] = "(", c[j] = ")", <<"e", i + 1, j - 1, x>> \in S
               PROVE  <<"f", i, j, x>> \in S
    BY DEF ParenRule
  <2>0. i + 1 \in 1 .. Len(c) /\ j - 1 \in 1 .. Len(c) /\ (j - 1) + 1 = j /\ i <= j
    BY <1>0
  <2>1. P[<<"factor", i, {}>>] = C!ParseFactor(c, i, P)
    BY <1>0, <1>4, ParserCalls
  <2>2. C!Token(c, j) = ")"
    BY <1>0
  <2>3. P[<<"expression", i + 1, {}>>] = P[<<"or", j, x>>]
    BY <1>3e, <2>0, <2>2
  <2>4. P[<<"or", j, x>>] = C!Parsed(x, j)
    <3>1. P[<<"or", j, x>>] = C!MoreTerms(c, j, x, P)
      BY <1>0, <1>4, ParserCalls
    <3> QED
      BY <2>2, <3>1 DEF C!MoreTerms
  <2>5. C!Closed(c, P[<<"expression", i + 1, {}>>]) = C!Parsed(x, j + 1)
    BY <2>2, <2>3, <2>4, ParsedIs DEF C!Closed
  <2>6. C!ParseFactor(c, i, P) = C!Closed(c, P[<<"expression", i + 1, {}>>])
    <3>1. C!Token(c, i) = "(" /\ "(" \notin C!Ident
      BY <1>0
    <3> QED
      BY <3>1 DEF C!ParseFactor
  <2> QED
    BY <1>3f, <2>0, <2>1, <2>5, <2>6
<1>8. OfRule(c, S)
  <2> SUFFICES ASSUME NEW i \in 1 .. Len(c), NEW j \in 1 .. Len(c),
                      i + 2 = j, c[i] = "all", c[i + 1] = "of", c[j] \in C!Ident \cup {"them"}
               PROVE  <<"f", i, j, C!Pattern("all", C!ExpandPattern(c[j]))>> \in S
    BY DEF OfRule
  <2> DEFINE x == C!Pattern("all", C!ExpandPattern(c[j]))
  <2>0. i + 1 \in 1 .. Len(c) /\ (i + 1) + 1 = j /\ i <= j /\ (i + 1) + 2 = j + 1
    BY <1>0
  <2>1. P[<<"factor", i, {}>>] = C!ParseFactor(c, i, P)
    BY <1>0, <1>4, ParserCalls
  <2>2. C!Token(c, i) = "all" /\ C!Token(c, i + 1) = "of" /\ C!Token(c, j) = c[j] /\ "all" \notin C!Ident
    BY <1>0, <2>0
  <2>3. C!ParseFactor(c, i, P) = C!ParseOf(c, i + 1, "all")
    BY <2>2 DEF C!ParseFactor
  <2>4. C!ParseOf(c, i + 1, "all") = C!Parsed(x, j + 1)
    BY <2>0, <2>2 DEF C!ParseOf
  <2>5. x \in C!Nodes
    BY NodesMade
  <2> HIDE DEF x
  <2>6. <<"f", i, j, x>> \in S
    BY <1>3f, <2>0, <2>1, <2>3, <2>4, <2>5
  <2> QED
    BY <2>6 DEF x
<1>9. TermRule(c, S)
  <2> SUFFICES ASSUME NEW i \in 1 .. Len(c), NEW j \in 1 .. Len(c), NEW x \in C!Nodes, <<"f", i, j, x>> \in S
               PROVE  <<"t", i, j, x>> \in S
    BY DEF TermRule
  <2>1. P[<<"factor", i, {}>>] = C!Parsed(x, j + 1) /\ i <= j
    BY <1>3f
  <2>2. P[<<"term", i, {}>>] = C!Then(P[<<"factor", i, {}>>], P, "and")
    BY <1>0, <1>4, ParserCalls
  <2>3. P[<<"term", i, {}>>] = P[<<"and", j + 1, x>>]
    BY <2>1, <2>2, ParsedIs DEF C!Then
  <2> QED
    BY <1>3t, <2>1, <2>3
<1>10. AndRule(c, S)
  <2> SUFFICES ASSUME NEW i \in 1 .. Len(c), NEW k \in 1 .. Len(c), NEW j \in 1 .. Len(c), NEW x \in C!Nodes, NEW y \in C!Nodes,
                      i < k, k < j, c[k] = "and", <<"t", i, k - 1, x>> \in S, <<"f", k + 1, j, y>> \in S
               PROVE  <<"t", i, j, x \cap y>> \in S
    BY DEF AndRule
  <2>0. k - 1 \in 1 .. Len(c) /\ (k - 1) + 1 = k /\ k + 1 \in 1 .. Len(c) /\ i <= j
    BY <1>0
  <2>1. P[<<"term", i, {}>>] = P[<<"and", k, x>>]
    <3>1. P[<<"term", i, {}>>] = P[<<"and", (k - 1) + 1, x>>]
      BY <1>3t, <2>0
    <3> QED
      BY <2>0, <3>1
  <2>2. P[<<"factor", k + 1, {}>>] = C!Parsed(y, j + 1)
    BY <1>3f, <2>0
  <2>3. P[<<"and", k, x>>] = C!MoreFactors(c, k, x, P) /\ C!Token(c, k) = "and"
    BY <1>0, <1>4, ParserCalls
  <2>4. P[<<"and", k, x>>] = P[<<"and", j + 1, x \cap y>>]
    <3>1. PICK r : r = P[<<"factor", k + 1, {}>>]
      OBVIOUS
    <3>2. r.ok = TRUE /\ r.node = y /\ r.next = j + 1
      BY <2>2, <3>1, ParsedIs
    <3> QED
      BY <2>3, <3>1, <3>2 DEF C!MoreFactors
  <2> QED
    BY <1>3t, <2>0, <2>1, <2>4, NodesMade
<1>11. ExprRule(c, S)
  <2> SUFFICES ASSUME NEW i \in 1 .. Len(c), NEW j \in 1 .. Len(c), NEW x \in C!Nodes, <<"t", i, j, x>> \in S
               PROVE  <<"e", i, j, x>> \in S
    BY DEF ExprRule
  <2>1. P[<<"term", i, {}>>] = P[<<"and", j + 1, x>>] /\ i <= j
    BY <1>3t
  <2>2. P[<<"expression", i, {}>>] = C!Then(P[<<"term", i, {}>>], P, "or")
    BY <1>0, <1>4, ParserCalls
  <2>3. ASSUME C!Token(c, j + 1) # "and" PROVE P[<<"expression", i, {}>>] = P[<<"or", j + 1, x>>]
    <3>1. P[<<"and", j + 1, x>>] = C!MoreFactors(c, j + 1, x, P)
      BY <1>0, <1>4, ParserCalls
    <3>2. P[<<"and", j + 1, x>>] = C!Parsed(x, j + 1)
      BY <2>3, <3>1 DEF C!MoreFactors
    <3> QED
      BY <2>1, <2>2, <3>2, ParsedIs DEF C!Then
  <2> QED
    BY <1>3e, <2>1, <2>3
<1>12. OrRule(c, S)
  <2> SUFFICES ASSUME NEW i \in 1 .. Len(c), NEW k \in 1 .. Len(c), NEW j \in 1 .. Len(c), NEW x \in C!Nodes, NEW y \in C!Nodes,
                      i < k, k < j, c[k] = "or", <<"e", i, k - 1, x>> \in S, <<"t", k + 1, j, y>> \in S
               PROVE  <<"e", i, j, x \cup y>> \in S
    BY DEF OrRule
  <2>0. k - 1 \in 1 .. Len(c) /\ (k - 1) + 1 = k /\ k + 1 \in 1 .. Len(c) /\ i <= j
    BY <1>0
  <2>1. C!Token(c, k) = "or"
    BY <1>0
  <2>2. P[<<"expression", i, {}>>] = P[<<"or", k, x>>]
    BY <1>3e, <2>0, <2>1
  <2>3. P[<<"term", k + 1, {}>>] = P[<<"and", j + 1, y>>]
    BY <1>3t, <2>0
  <2>4. P[<<"or", k, x>>] = C!MoreTerms(c, k, x, P)
    BY <1>0, <1>4, ParserCalls
  <2>5. ASSUME C!Token(c, j + 1) # "and" PROVE P[<<"expression", i, {}>>] = P[<<"or", j + 1, x \cup y>>]
    <3>1. P[<<"and", j + 1, y>>] = C!MoreFactors(c, j + 1, y, P)
      BY <1>0, <1>4, ParserCalls
    <3>2. P[<<"term", k + 1, {}>>] = C!Parsed(y, j + 1)
      BY <2>3, <2>5, <3>1 DEF C!MoreFactors
    <3>3. P[<<"or", k, x>>] = P[<<"or", j + 1, x \cup y>>]
      <4>1. PICK r : r = P[<<"term", k + 1, {}>>]
        OBVIOUS
      <4>2. r.ok = TRUE /\ r.node = y /\ r.next = j + 1
        BY <3>2, <4>1, ParsedIs
      <4> QED
        BY <2>1, <2>4, <4>1, <4>2 DEF C!MoreTerms
    <3> QED
      BY <2>2, <3>3
  <2> QED
    BY <1>3e, <2>0, <2>5, NodesMade
<1>13. ClosedUnder(c, S)
  BY <1>5, <1>6, <1>7, <1>8, <1>9, <1>10, <1>11, <1>12 DEF ClosedUnder
<1>14. Grammar(c) \subseteq S
  BY <1>2, <1>13, GrammarLeast
<1> QED
  BY <1>14 DEF S

\* What a call that succeeds has found.
LEMMA CallFinds ==
    ASSUME NEW c \in Seq(C!Words), NEW P, P = C!Parser(c), NEW fn \in C!Calls, NEW i \in 1 .. Len(c) + 1, NEW x \in C!Nodes,
           NEW r, r = P[<<fn, i, x>>], r.ok
    PROVE  r.node \in C!Nodes /\ r.next \in Lo(fn, i) .. Len(c) + 1 /\ r.ok = TRUE
<1>1. P[<<fn, i, x>>] \in Results(c, Lo(fn, i))
  BY ParserDefined, Called
<1> QED
  BY <1>1, AnswerIs

\* What the parser reads, the grammar derives; the loops of parseTerm and parseExpression go on from what is derived.
Extends(c, s, i, x, r) ==
    \A a \in 1 .. Len(c) : <<s, a, i - 1, x>> \in Grammar(c) => <<s, a, r.next - 1, r.node>> \in Grammar(c)
Derives(c, fn, i, x, r) ==
    r.ok => /\ fn = "factor" /\ x = {} => <<"f", i, r.next - 1, r.node>> \in Grammar(c)
            /\ fn = "term" /\ x = {} => <<"t", i, r.next - 1, r.node>> \in Grammar(c)
            /\ fn = "expression" /\ x = {} => <<"e", i, r.next - 1, r.node>> \in Grammar(c)
            /\ fn = "and" => Extends(c, "t", i, x, r)
            /\ fn = "or" => Extends(c, "e", i, x, r)
Below(c, P, s) ==
    \A fn \in C!Calls, i \in 1 .. Len(c) + 1, x \in C!Nodes : Size(c, fn, i) < s => Derives(c, fn, i, x, P[<<fn, i, x>>])

\* A derivation's words are in order.
LEMMA GrammarOrder ==
    ASSUME NEW c, Valid(c), NEW s, NEW i, NEW j, NEW x, <<s, i, j, x>> \in Grammar(c)
    PROVE  i <= j /\ i \in 1 .. Len(c) /\ j \in 1 .. Len(c) /\ x \in C!Nodes
<1> DEFINE d == <<s, i, j, x>>
<1>1. PICK P : P = C!Parser(c)
  OBVIOUS
<1>2. d[1] = s /\ d[2] = i /\ d[3] = j /\ d[4] = x
  BY AllIs
<1>3. d \in Grammar(c)
  OBVIOUS
<1> HIDE DEF d
<1>4. ParsedAs(c, P, d)
  BY <1>1, <1>3, GrammarIsParsed
<1>5. d[2] <= d[3]
  BY <1>4 DEF ParsedAs
<1>6. d \in All(c)
  BY <1>3 DEF Grammar
<1>7. d[2] \in 1 .. Len(c) /\ d[3] \in 1 .. Len(c) /\ d[4] \in C!Nodes
  BY <1>6, AllIs
<1> QED
  BY <1>2, <1>5, <1>7

\* parseFactor and the functions it calls.
LEMMA FactorDerives ==
    ASSUME NEW c, Valid(c), NEW P, P = C!Parser(c), NEW i \in 1 .. Len(c) + 1, Below(c, P, Size(c, "factor", i)),
           NEW r, r = P[<<"factor", i, {}>>], r.ok
    PROVE  <<"f", i, r.next - 1, r.node>> \in Grammar(c)
<1>0. /\ c \in Seq(C!Words) /\ Len(c) \in Nat /\ i \in Nat
      /\ \A k \in 1 .. Len(c) : /\ C!Token(c, k) = c[k] /\ c[k] # "end"
                                /\ c[k] \in C!Ident => c[k] \notin {"and", "or", "not", "of", "all", "them", "(", ")"}
                                /\ c[k] \notin {"1", "2", "any", "other"}
  BY ValidWords
<1>1. r = C!ParseFactor(c, i, P)
  BY <1>0, ParserCalls
<1>2. "end" \notin C!Ident \cup {"them"}
  BY ConditionAssumption DEF C!Ident
<1>3. C!Failed.ok = FALSE
  BY DEF C!Failed
<1>4. C!Token(c, i) # "end"
  BY <1>1, <1>2, <1>3 DEF C!ParseFactor
<1>5. i \in 1 .. Len(c) /\ i + 1 \in 1 .. Len(c) + 1 /\ i + 1 \in Nat
  BY <1>0, <1>4, TokenIs
<1>6. c[i] = C!Token(c, i) /\ c[i] \notin {"1", "2", "any"} /\ (c[i] \in C!Ident => c[i] \notin {"not", "all", "("})
  BY <1>0, <1>5
<1>7. {} \in C!Nodes /\ {"expression", "or", "term", "and", "factor"} = C!Calls
  BY DEF C!Nodes, C!Calls
<1>8. Size(c, "factor", i + 1) < Size(c, "factor", i) /\ Size(c, "expression", i + 1) < Size(c, "factor", i)
  BY <1>0 DEF Size, Rank
<1>9. ClosedUnder(c, Grammar(c))
  BY <1>0, GrammarRules
<1>10. CASE c[i] = "not"
  <2>1. PICK q : q = P[<<"factor", i + 1, {}>>]
    OBVIOUS
  <2>2. r = C!Negated(q)
    BY <1>1, <1>6, <1>10, <2>1 DEF C!ParseFactor, C!ParseNot
  <2>3. q.ok /\ r = C!Parsed((SUBSET Names) \ q.node, q.next)
    BY <1>3, <2>2 DEF C!Negated
  <2>4. Derives(c, "factor", i + 1, {}, q)
    BY <1>5, <1>7, <1>8, <2>1 DEF Below
  <2>5. <<"f", i + 1, q.next - 1, q.node>> \in Grammar(c)
    BY <2>3, <2>4 DEF Derives
  <2>6. i + 1 <= q.next - 1 /\ q.next - 1 \in 1 .. Len(c) /\ q.node \in C!Nodes
    BY <2>5, GrammarOrder
  <2>7. <<"f", i, q.next - 1, (SUBSET Names) \ q.node>> \in Grammar(c)
    <3>1. i < q.next - 1
      BY <1>0, <2>6
    <3> QED
      BY <1>5, <1>9, <1>10, <2>5, <2>6, <3>1 DEF ClosedUnder, NotRule
  <2>8. r.node = (SUBSET Names) \ q.node /\ r.next - 1 = q.next - 1
    BY <2>3, ParsedIs
  <2> QED
    BY <2>7, <2>8
<1>11. CASE c[i] = "("
  <2>1. PICK q : q = P[<<"expression", i + 1, {}>>]
    OBVIOUS
  <2>2. r = C!Closed(c, q)
    BY <1>1, <1>6, <1>11, <2>1 DEF C!ParseFactor
  <2>3. q.ok /\ C!Token(c, q.next) = ")" /\ r = C!Parsed(q.node, q.next + 1)
    BY <1>3, <2>2 DEF C!Closed
  <2>4. Derives(c, "expression", i + 1, {}, q)
    BY <1>5, <1>7, <1>8, <2>1 DEF Below
  <2>5. <<"e", i + 1, q.next - 1, q.node>> \in Grammar(c)
    BY <2>3, <2>4 DEF Derives
  <2>6. i + 1 <= q.next - 1 /\ q.next - 1 \in 1 .. Len(c) /\ q.node \in C!Nodes
    BY <2>5, GrammarOrder
  <2>7. q.next \in 1 .. Len(c) + 1 /\ q.next \in Nat
    <3>1. q.next \in Lo("expression", i + 1) .. Len(c) + 1
      BY <1>0, <1>5, <1>7, <2>1, <2>3, CallFinds
    <3> QED
      BY <1>0, <3>1 DEF Lo
  <2>8. q.next \in 1 .. Len(c) /\ c[q.next] = ")"
    <3>1. q.next <= Len(c)
      BY <1>0, <2>3, <2>7, TokenIs
    <3>2. q.next \in 1 .. Len(c)
      BY <1>0, <2>7, <3>1
    <3> QED
      BY <1>0, <2>3, <3>2
  <2>9. <<"f", i, q.next, q.node>> \in Grammar(c)
    <3>1. i + 1 < q.next
      BY <1>0, <2>6, <2>7
    <3> QED
      BY <1>5, <1>9, <1>11, <2>5, <2>6, <2>8, <3>1 DEF ClosedUnder, ParenRule
  <2>10. r.node = q.node /\ r.next - 1 = q.next
    BY <2>3, <2>7, ParsedIs
  <2> QED
    BY <2>9, <2>10
<1>12. CASE c[i] = "all"
  <2>1. r = C!ParseOf(c, i + 1, "all")
    BY <1>1, <1>6, <1>12 DEF C!ParseFactor
  <2>2. /\ C!Token(c, i + 1) = "of" /\ C!Token(c, (i + 1) + 1) \in C!Ident \cup {"them"}
        /\ r = C!Parsed(C!Pattern("all", C!ExpandPattern(C!Token(c, (i + 1) + 1))), (i + 1) + 2)
    BY <1>3, <2>1 DEF C!ParseOf
  <2>3. i + 2 \in Nat /\ (i + 1) + 1 = i + 2 /\ ((i + 1) + 2) - 1 = i + 2
    BY <1>0
  <2>4. i + 2 <= Len(c)
    BY <1>0, <1>2, <2>2, <2>3, TokenIs
  <2>5. i + 1 \in 1 .. Len(c) /\ i + 2 \in 1 .. Len(c)
    BY <1>0, <2>4
  <2>6. c[i + 1] = "of" /\ C!Token(c, i + 2) = c[i + 2] /\ c[i + 2] \in C!Ident \cup {"them"}
    BY <1>0, <2>2, <2>3, <2>5
  <2>7. <<"f", i, i + 2, C!Pattern("all", C!ExpandPattern(c[i + 2]))>> \in Grammar(c)
    BY <1>5, <1>9, <1>12, <2>5, <2>6 DEF ClosedUnder, OfRule
  <2>8. r.node = C!Pattern("all", C!ExpandPattern(c[i + 2])) /\ r.next - 1 = i + 2
    BY <2>2, <2>3, <2>6, ParsedIs
  <2> QED
    BY <2>7, <2>8
<1>13. CASE c[i] \in C!Ident
  <2>1. r = C!Parsed(C!Selection(c[i]), i + 1)
    BY <1>1, <1>6, <1>13 DEF C!ParseFactor
  <2>2. <<"f", i, i, C!Selection(c[i])>> \in Grammar(c)
    BY <1>5, <1>9, <1>13 DEF ClosedUnder, NameRule
  <2>3. (i + 1) - 1 = i
    BY <1>0
  <2>4. r.node = C!Selection(c[i]) /\ r.next - 1 = i
    BY <2>1, <2>3, ParsedIs
  <2> QED
    BY <2>2, <2>4
<1> QED
  <2>1. CASE c[i] \notin {"not", "(", "all"} \cup C!Ident
    BY <1>1, <1>3, <1>6, <2>1 DEF C!ParseFactor
  <2> QED
    BY <1>10, <1>11, <1>12, <1>13, <2>1

\* parseTerm: a factor, then its loop.
LEMMA TermDerives ==
    ASSUME NEW c, Valid(c), NEW P, P = C!Parser(c), NEW i \in 1 .. Len(c) + 1, Below(c, P, Size(c, "term", i)),
           NEW r, r = P[<<"term", i, {}>>], r.ok
    PROVE  <<"t", i, r.next - 1, r.node>> \in Grammar(c)
<1>0. c \in Seq(C!Words) /\ Len(c) \in Nat /\ i \in Nat /\ ClosedUnder(c, Grammar(c)) /\ C!Failed.ok = FALSE
  BY ValidWords, GrammarRules DEF C!Failed
<1>1. {} \in C!Nodes /\ {"expression", "or", "term", "and", "factor"} = C!Calls
  BY DEF C!Nodes, C!Calls
<1>2. PICK q : q = P[<<"factor", i, {}>>]
  OBVIOUS
<1>3. r = C!Then(q, P, "and")
  BY <1>0, <1>2, ParserCalls
<1>4. q.ok /\ r = P[<<"and", q.next, q.node>>]
  BY <1>0, <1>3 DEF C!Then
<1>5. Size(c, "factor", i) < Size(c, "term", i)
  BY <1>0 DEF Size, Rank
<1>6. Derives(c, "factor", i, {}, q)
  BY <1>1, <1>2, <1>5 DEF Below
<1>7. <<"f", i, q.next - 1, q.node>> \in Grammar(c)
  BY <1>4, <1>6 DEF Derives
<1>8. i <= q.next - 1 /\ q.next - 1 \in 1 .. Len(c) /\ q.node \in C!Nodes /\ i \in 1 .. Len(c)
  BY <1>7, GrammarOrder
<1>9. <<"t", i, q.next - 1, q.node>> \in Grammar(c)
  BY <1>0, <1>7, <1>8 DEF ClosedUnder, TermRule
<1>10. q.next \in Lo("factor", i) .. Len(c) + 1
  BY <1>0, <1>1, <1>2, <1>4, CallFinds
<1>11. q.next \in 1 .. Len(c) + 1 /\ i < q.next
  BY <1>0, <1>10 DEF Lo
<1>12. Size(c, "and", q.next) < Size(c, "term", i)
  BY <1>0, <1>11 DEF Size, Rank
<1>13. Derives(c, "and", q.next, q.node, r)
  BY <1>1, <1>4, <1>8, <1>11, <1>12 DEF Below
<1>14. Extends(c, "t", q.next, q.node, r)
  BY <1>13 DEF Derives
<1> QED
  BY <1>8, <1>9, <1>14 DEF Extends

\* parseExpression: a term, then its loop.
LEMMA ExpressionDerives ==
    ASSUME NEW c, Valid(c), NEW P, P = C!Parser(c), NEW i \in 1 .. Len(c) + 1, Below(c, P, Size(c, "expression", i)),
           NEW r, r = P[<<"expression", i, {}>>], r.ok
    PROVE  <<"e", i, r.next - 1, r.node>> \in Grammar(c)
<1>0. c \in Seq(C!Words) /\ Len(c) \in Nat /\ i \in Nat /\ ClosedUnder(c, Grammar(c)) /\ C!Failed.ok = FALSE
  BY ValidWords, GrammarRules DEF C!Failed
<1>1. {} \in C!Nodes /\ {"expression", "or", "term", "and", "factor"} = C!Calls
  BY DEF C!Nodes, C!Calls
<1>2. PICK q : q = P[<<"term", i, {}>>]
  OBVIOUS
<1>3. r = C!Then(q, P, "or")
  BY <1>0, <1>2, ParserCalls
<1>4. q.ok /\ r = P[<<"or", q.next, q.node>>]
  BY <1>0, <1>3 DEF C!Then
<1>5. Size(c, "term", i) < Size(c, "expression", i)
  BY <1>0 DEF Size, Rank
<1>6. Derives(c, "term", i, {}, q)
  BY <1>1, <1>2, <1>5 DEF Below
<1>7. <<"t", i, q.next - 1, q.node>> \in Grammar(c)
  BY <1>4, <1>6 DEF Derives
<1>8. i <= q.next - 1 /\ q.next - 1 \in 1 .. Len(c) /\ q.node \in C!Nodes /\ i \in 1 .. Len(c)
  BY <1>7, GrammarOrder
<1>9. <<"e", i, q.next - 1, q.node>> \in Grammar(c)
  BY <1>0, <1>7, <1>8 DEF ClosedUnder, ExprRule
<1>10. q.next \in Lo("term", i) .. Len(c) + 1
  BY <1>0, <1>1, <1>2, <1>4, CallFinds
<1>11. q.next \in 1 .. Len(c) + 1 /\ i < q.next
  BY <1>0, <1>10 DEF Lo
<1>12. Size(c, "or", q.next) < Size(c, "expression", i)
  BY <1>0, <1>11 DEF Size, Rank
<1>13. Derives(c, "or", q.next, q.node, r)
  BY <1>1, <1>4, <1>8, <1>11, <1>12 DEF Below
<1>14. Extends(c, "e", q.next, q.node, r)
  BY <1>13 DEF Derives
<1> QED
  BY <1>8, <1>9, <1>14 DEF Extends

\* The loop of parseTerm goes on from a term.
LEMMA MoreFactorsDerive ==
    ASSUME NEW c, Valid(c), NEW P, P = C!Parser(c), NEW i \in 1 .. Len(c) + 1, NEW x \in C!Nodes,
           Below(c, P, Size(c, "and", i)), NEW r, r = P[<<"and", i, x>>], r.ok
    PROVE  Extends(c, "t", i, x, r)
<1>0. c \in Seq(C!Words) /\ Len(c) \in Nat /\ i \in Nat /\ ClosedUnder(c, Grammar(c)) /\ C!Failed.ok = FALSE
  BY ValidWords, GrammarRules DEF C!Failed
<1>1. {} \in C!Nodes /\ {"expression", "or", "term", "and", "factor"} = C!Calls
  BY DEF C!Nodes, C!Calls
<1>2. r = C!MoreFactors(c, i, x, P)
  BY <1>0, ParserCalls
<1>3. CASE C!Token(c, i) # "and"
  <2>1. r.node = x /\ r.next = i
    BY <1>2, <1>3, ParsedIs DEF C!MoreFactors
  <2> QED
    BY <2>1 DEF Extends
<1>4. CASE C!Token(c, i) = "and"
  <2> SUFFICES ASSUME NEW a \in 1 .. Len(c), <<"t", a, i - 1, x>> \in Grammar(c)
               PROVE  <<"t", a, r.next - 1, r.node>> \in Grammar(c)
    BY DEF Extends
  <2>1. i \in 1 .. Len(c) /\ c[i] = "and" /\ i + 1 \in 1 .. Len(c) + 1
    <3>1. i <= Len(c)
      BY <1>0, <1>4, TokenIs
    <3>2. i \in 1 .. Len(c)
      BY <1>0, <3>1
    <3>3. C!Token(c, i) = c[i]
      BY <3>2, ValidWords
    <3> QED
      BY <1>0, <1>4, <3>2, <3>3
  <2>2. PICK q : q = P[<<"factor", i + 1, {}>>]
    OBVIOUS
  <2>3. q.ok /\ r = P[<<"and", q.next, x \cap q.node>>]
    BY <1>0, <1>2, <1>4, <2>2 DEF C!MoreFactors
  <2>4. Size(c, "factor", i + 1) < Size(c, "and", i)
    BY <1>0 DEF Size, Rank
  <2>5. Derives(c, "factor", i + 1, {}, q)
    BY <1>1, <2>1, <2>2, <2>4 DEF Below
  <2>6. <<"f", i + 1, q.next - 1, q.node>> \in Grammar(c)
    BY <2>3, <2>5 DEF Derives
  <2>7. i + 1 <= q.next - 1 /\ q.next - 1 \in 1 .. Len(c) /\ q.node \in C!Nodes
    BY <2>6, GrammarOrder
  <2>8. a <= i - 1
    BY GrammarOrder
  <2>9. <<"t", a, q.next - 1, x \cap q.node>> \in Grammar(c)
    <3>1. a < i /\ i < q.next - 1
      BY <1>0, <2>7, <2>8
    <3> QED
      BY <1>0, <2>1, <2>6, <2>7, <3>1 DEF ClosedUnder, AndRule
  <2>10. q.next \in Lo("factor", i + 1) .. Len(c) + 1
    BY <1>0, <1>1, <2>1, <2>2, <2>3, CallFinds
  <2>11. q.next \in 1 .. Len(c) + 1 /\ i < q.next
    BY <1>0, <2>10 DEF Lo
  <2>12. Size(c, "and", q.next) < Size(c, "and", i)
    BY <1>0, <2>11 DEF Size, Rank
  <2>13. x \cap q.node \in C!Nodes
    BY <2>7, NodesMade
  <2>14. Derives(c, "and", q.next, x \cap q.node, r)
    BY <1>1, <2>3, <2>11, <2>12, <2>13 DEF Below
  <2>15. Extends(c, "t", q.next, x \cap q.node, r)
    BY <2>14 DEF Derives
  <2> QED
    BY <2>9, <2>15 DEF Extends
<1> QED
  BY <1>3, <1>4

\* The loop of parseExpression goes on from an expression.
LEMMA MoreTermsDerive ==
    ASSUME NEW c, Valid(c), NEW P, P = C!Parser(c), NEW i \in 1 .. Len(c) + 1, NEW x \in C!Nodes,
           Below(c, P, Size(c, "or", i)), NEW r, r = P[<<"or", i, x>>], r.ok
    PROVE  Extends(c, "e", i, x, r)
<1>0. c \in Seq(C!Words) /\ Len(c) \in Nat /\ i \in Nat /\ ClosedUnder(c, Grammar(c)) /\ C!Failed.ok = FALSE
  BY ValidWords, GrammarRules DEF C!Failed
<1>1. {} \in C!Nodes /\ {"expression", "or", "term", "and", "factor"} = C!Calls
  BY DEF C!Nodes, C!Calls
<1>2. r = C!MoreTerms(c, i, x, P)
  BY <1>0, ParserCalls
<1>3. CASE C!Token(c, i) # "or"
  <2>1. r.node = x /\ r.next = i
    BY <1>2, <1>3, ParsedIs DEF C!MoreTerms
  <2> QED
    BY <2>1 DEF Extends
<1>4. CASE C!Token(c, i) = "or"
  <2> SUFFICES ASSUME NEW a \in 1 .. Len(c), <<"e", a, i - 1, x>> \in Grammar(c)
               PROVE  <<"e", a, r.next - 1, r.node>> \in Grammar(c)
    BY DEF Extends
  <2>1. i \in 1 .. Len(c) /\ c[i] = "or" /\ i + 1 \in 1 .. Len(c) + 1
    <3>1. i <= Len(c)
      BY <1>0, <1>4, TokenIs
    <3>2. i \in 1 .. Len(c)
      BY <1>0, <3>1
    <3>3. C!Token(c, i) = c[i]
      BY <3>2, ValidWords
    <3> QED
      BY <1>0, <1>4, <3>2, <3>3
  <2>2. PICK q : q = P[<<"term", i + 1, {}>>]
    OBVIOUS
  <2>3. q.ok /\ r = P[<<"or", q.next, x \cup q.node>>]
    BY <1>0, <1>2, <1>4, <2>2 DEF C!MoreTerms
  <2>4. Size(c, "term", i + 1) < Size(c, "or", i)
    BY <1>0 DEF Size, Rank
  <2>5. Derives(c, "term", i + 1, {}, q)
    BY <1>1, <2>1, <2>2, <2>4 DEF Below
  <2>6. <<"t", i + 1, q.next - 1, q.node>> \in Grammar(c)
    BY <2>3, <2>5 DEF Derives
  <2>7. i + 1 <= q.next - 1 /\ q.next - 1 \in 1 .. Len(c) /\ q.node \in C!Nodes
    BY <2>6, GrammarOrder
  <2>8. a <= i - 1
    BY GrammarOrder
  <2>9. <<"e", a, q.next - 1, x \cup q.node>> \in Grammar(c)
    <3>1. a < i /\ i < q.next - 1
      BY <1>0, <2>7, <2>8
    <3> QED
      BY <1>0, <2>1, <2>6, <2>7, <3>1 DEF ClosedUnder, OrRule
  <2>10. q.next \in Lo("term", i + 1) .. Len(c) + 1
    BY <1>0, <1>1, <2>1, <2>2, <2>3, CallFinds
  <2>11. q.next \in 1 .. Len(c) + 1 /\ i < q.next
    BY <1>0, <2>10 DEF Lo
  <2>12. Size(c, "or", q.next) < Size(c, "or", i)
    BY <1>0, <2>11 DEF Size, Rank
  <2>13. x \cup q.node \in C!Nodes
    BY <2>7, NodesMade
  <2>14. Derives(c, "or", q.next, x \cup q.node, r)
    BY <1>1, <2>3, <2>11, <2>12, <2>13 DEF Below
  <2>15. Extends(c, "e", q.next, x \cup q.node, r)
    BY <2>14 DEF Derives
  <2> QED
    BY <2>9, <2>15 DEF Extends
<1> QED
  BY <1>3, <1>4

\* Soundness of the parser: by induction on the size of a call.
LEMMA ParsedIsGrammar ==
    ASSUME NEW c, Valid(c), NEW P, P = C!Parser(c), NEW r, r = P[<<"expression", 1, {}>>], r.ok
    PROVE  <<"e", 1, r.next - 1, r.node>> \in Grammar(c)
<1> DEFINE T == {n \in Nat : Below(c, P, n)}
<1>0. c \in Seq(C!Words) /\ Len(c) \in Nat
  BY ValidWords
<1>1. \A fn \in C!Calls, i \in 1 .. Len(c) + 1 : Size(c, fn, i) \in Nat /\ Size(c, fn, i) < 3 * (Len(c) + 2)
  <2> SUFFICES ASSUME NEW fn \in C!Calls, NEW i \in 1 .. Len(c) + 1
               PROVE  Size(c, fn, i) \in Nat /\ Size(c, fn, i) < 3 * (Len(c) + 2)
    OBVIOUS
  <2>1. Rank(fn) \in 0 .. 2
    BY DEF Rank
  <2> QED
    BY <1>0, <2>1 DEF Size
<1>2. 0 \in T
  <2>1. \A fn \in C!Calls, i \in 1 .. Len(c) + 1 : ~(Size(c, fn, i) < 0)
    BY <1>1
  <2> QED
    BY <2>1 DEF Below
<1>3. ASSUME NEW n \in Nat, n \in T PROVE n + 1 \in T
  <2>1. Below(c, P, n)
    BY <1>3
  <2>2. ASSUME NEW fn \in C!Calls, NEW i \in 1 .. Len(c) + 1, NEW x \in C!Nodes, Size(c, fn, i) < n + 1
        PROVE  Derives(c, fn, i, x, P[<<fn, i, x>>])
    <3>0. Size(c, fn, i) \in Nat
      BY <1>1
    <3>1. Below(c, P, Size(c, fn, i))
      <4> SUFFICES ASSUME NEW f \in C!Calls, NEW k \in 1 .. Len(c) + 1, NEW y \in C!Nodes, Size(c, f, k) < Size(c, fn, i)
                   PROVE  Derives(c, f, k, y, P[<<f, k, y>>])
        BY DEF Below
      <4>1. Size(c, f, k) \in Nat
        BY <1>1
      <4>2. Size(c, f, k) < n
        BY <2>2, <3>0, <4>1
      <4> QED
        BY <2>1, <4>2 DEF Below
    <3>2. PICK q : q = P[<<fn, i, x>>]
      OBVIOUS
    <3> SUFFICES ASSUME q.ok PROVE Derives(c, fn, i, x, q)
      BY <3>2 DEF Derives
    <3>3. fn = "factor" /\ x = {} => <<"f", i, q.next - 1, q.node>> \in Grammar(c)
      BY <3>1, <3>2, FactorDerives
    <3>4. fn = "term" /\ x = {} => <<"t", i, q.next - 1, q.node>> \in Grammar(c)
      BY <3>1, <3>2, TermDerives
    <3>5. fn = "expression" /\ x = {} => <<"e", i, q.next - 1, q.node>> \in Grammar(c)
      BY <3>1, <3>2, ExpressionDerives
    <3>6. fn = "and" => Extends(c, "t", i, x, q)
      BY <3>1, <3>2, MoreFactorsDerive
    <3>7. fn = "or" => Extends(c, "e", i, x, q)
      BY <3>1, <3>2, MoreTermsDerive
    <3> QED
      BY <3>3, <3>4, <3>5, <3>6, <3>7 DEF Derives
  <2> QED
    BY <2>2 DEF Below
<1> HIDE DEF T
<1>4. Nat \subseteq T
  BY <1>2, <1>3, Climb
<1>5. 3 * (Len(c) + 2) \in T
  BY <1>0, <1>4
<1>6. {} \in C!Nodes /\ "expression" \in C!Calls /\ 1 \in 1 .. Len(c) + 1
  BY <1>0 DEF C!Nodes, C!Calls
<1>7. Derives(c, "expression", 1, {}, r)
  BY <1>1, <1>5, <1>6 DEF T, Below
<1> QED
  BY <1>7 DEF Derives

\* A condition parses exactly when the grammar derives it, to what it derives.
LEMMA ParseIsGrammar ==
    ASSUME NEW c, Valid(c)
    PROVE  /\ C!Parse(c).ok => <<"e", 1, Len(c), C!Parse(c).node>> \in Grammar(c)
           /\ \A x : <<"e", 1, Len(c), x>> \in Grammar(c) => C!Parse(c).ok /\ C!Parse(c).node = x
<1>0. c \in Seq(C!Words) /\ Len(c) \in Nat \ {0} /\ C!Failed.ok = FALSE
  BY ValidWords DEF C!Failed
<1>1. PICK P : P = C!Parser(c)
  OBVIOUS
<1>2. PICK r : r = P[<<"expression", 1, {}>>]
  OBVIOUS
<1>3. PICK p : p = C!Parse(c)
  OBVIOUS
<1>4. p = IF r.ok /\ C!Token(c, r.next) = "end" THEN r ELSE C!Failed
  <2>1. c # <<>>
    BY <1>0
  <2> QED
    BY <1>1, <1>2, <1>3, <2>1 DEF C!Parse
<1>5. {} \in C!Nodes /\ "expression" \in C!Calls /\ 1 \in 1 .. Len(c) + 1
  BY <1>0 DEF C!Nodes, C!Calls
<1>6. ASSUME p.ok PROVE <<"e", 1, Len(c), p.node>> \in Grammar(c)
  <2>1. r.ok /\ C!Token(c, r.next) = "end" /\ p = r
    BY <1>0, <1>4, <1>6
  <2>2. <<"e", 1, r.next - 1, r.node>> \in Grammar(c)
    BY <1>1, <1>2, <2>1, ParsedIsGrammar
  <2>3. r.next \in Lo("expression", 1) .. Len(c) + 1
    BY <1>0, <1>1, <1>2, <1>5, <2>1, CallFinds
  <2>4. r.next \in 1 .. Len(c) + 1
    BY <1>0, <2>3 DEF Lo
  <2>5. r.next \notin 1 .. Len(c)
    BY <2>1, ValidWords
  <2>6. r.next - 1 = Len(c)
    BY <1>0, <2>4, <2>5
  <2> QED
    BY <2>1, <2>2, <2>6
<1>7. ASSUME NEW x, <<"e", 1, Len(c), x>> \in Grammar(c) PROVE p.ok /\ p.node = x
  <2> DEFINE d == <<"e", 1, Len(c), x>>
  <2>1. d[1] = "e" /\ d[2] = 1 /\ d[3] = Len(c) /\ d[4] = x
    BY AllIs
  <2>2. d \in Grammar(c)
    BY <1>7
  <2> HIDE DEF d
  <2>3. ParsedAs(c, P, d)
    BY <1>1, <2>2, GrammarIsParsed
  <2>4. C!Token(c, Len(c) + 1) = "end"
    BY ValidWords
  <2>5. r = P[<<"or", Len(c) + 1, x>>]
    BY <1>2, <2>1, <2>3, <2>4 DEF ParsedAs
  <2>6. x \in C!Nodes
    BY <1>7, GrammarOrder
  <2>7. r = C!MoreTerms(c, Len(c) + 1, x, P)
    <3>1. Len(c) + 1 \in 1 .. Len(c) + 1
      BY <1>0
    <3>2. P[<<"or", Len(c) + 1, x>>] = C!MoreTerms(c, Len(c) + 1, x, P)
      BY <1>0, <1>1, <2>6, <3>1, ParserCalls
    <3> QED
      BY <2>5, <3>2
  <2>8. r = C!Parsed(x, Len(c) + 1)
    BY <2>4, <2>7 DEF C!MoreTerms
  <2>9. r.ok = TRUE /\ r.node = x /\ r.next = Len(c) + 1
    BY <2>8, ParsedIs
  <2> QED
    BY <1>4, <2>4, <2>9
<1> QED
  BY <1>3, <1>6, <1>7

\* How a derivation's words are nested: its parentheses match, no "and" or "or" of a factor and no "or" of a term stands
\* outside them.
Nested(c, s, i, j) ==
    /\ i <= j /\ Depth(c, i, j) = 0
    /\ \A k \in i .. j : /\ Depth(c, i, k) >= 0
                         /\ s = "f" /\ c[k] \in {"and", "or"} => Depth(c, i, k) > 0
                         /\ s = "t" /\ c[k] = "or" => Depth(c, i, k) > 0

\* A word, then others.
LEMMA NestedFirst ==
    ASSUME NEW c, NEW i \in Int, NEW k \in Int, i < k
    PROVE  Depth(c, i, k) = Depth(c, i, i) + Depth(c, i + 1, k)
<1>1. i + 1 \in Int /\ i <= i + 1 /\ i <= k
  OBVIOUS
<1> QED
  BY <1>1, DepthSplit

\* Two parts with a word between them that is no parenthesis.
LEMMA NestedJoin ==
    ASSUME NEW c, NEW i \in Int, NEW k \in Int, NEW j \in Int, i < k, k < j, c[k] \notin {"(", ")"}, Depth(c, i, k - 1) = 0
    PROVE  Depth(c, i, k) = 0 /\ \A n \in k + 1 .. j : Depth(c, i, n) = Depth(c, k + 1, n)
<1>1. k - 1 \in Int /\ (k - 1) + 1 = k /\ i <= k
  OBVIOUS
<1>2. Depth(c, i, k) = Depth(c, i, k - 1) + Depth(c, k, k)
  <2>1. Depth(c, i, k) = Depth(c, i, k - 1) + Depth(c, (k - 1) + 1, k)
    BY <1>1, DepthSplit
  <2> QED
    BY <1>1, <2>1
<1>3. Depth(c, k, k) = 0
  BY DepthOne
<1>4. Depth(c, i, k) = 0
  BY <1>2, <1>3
<1>5. ASSUME NEW n \in k + 1 .. j PROVE Depth(c, i, n) = Depth(c, k + 1, n)
  <2>1. n \in Int /\ k <= n /\ i <= k + 1
    BY <1>5
  <2>2. Depth(c, i, n) = Depth(c, i, k) + Depth(c, k + 1, n) /\ Depth(c, k + 1, n) \in Int
    BY <2>1, DepthSplit
  <2> QED
    BY <1>4, <2>2
<1> QED
  BY <1>4, <1>5

\* Every derivation is nested so, by induction over derivations.
LEMMA GrammarNested ==
    ASSUME NEW c, Valid(c), NEW s, NEW i, NEW j, NEW x, <<s, i, j, x>> \in Grammar(c)
    PROVE  Nested(c, s, i, j)
<1> DEFINE S == {d \in All(c) : Nested(c, d[1], d[2], d[3])}
<1>0. /\ c \in Seq(C!Words) /\ Len(c) \in Nat
      /\ \A a \in 1 .. Len(c) : c[a] \in C!Ident => c[a] \notin {"and", "or", "not", "of", "all", "them", "(", ")"}
  BY ValidWords
<1>1. \A t \in {"e", "t", "f"}, a, b \in 1 .. Len(c), y \in C!Nodes : <<t, a, b, y>> \in S <=> Nested(c, t, a, b)
  BY AllIs
<1>2. S \subseteq All(c)
  OBVIOUS
<1> HIDE DEF S
<1>3. NameRule(c, S)
  <2> SUFFICES ASSUME NEW a \in 1 .. Len(c), c[a] \in C!Ident PROVE <<"f", a, a, C!Selection(c[a])>> \in S
    BY DEF NameRule
  <2>1. a \in Int /\ c[a] \notin {"and", "or", "(", ")"}
    BY <1>0
  <2>2. Depth(c, a, a) = 0
    BY <2>1, DepthOne
  <2>3. a .. a = {a}
    BY <2>1
  <2>4. Nested(c, "f", a, a)
    BY <2>1, <2>2, <2>3 DEF Nested
  <2> QED
    BY <1>1, <2>4, NodesMade
<1>4. NotRule(c, S)
  <2> SUFFICES ASSUME NEW a \in 1 .. Len(c), NEW b \in 1 .. Len(c), NEW y \in C!Nodes,
                      a < b, c[a] = "not", <<"f", a + 1, b, y>> \in S
               PROVE  <<"f", a, b, (SUBSET Names) \ y>> \in S
    BY DEF NotRule
  <2>1. a + 1 \in 1 .. Len(c) /\ a \in Int /\ b \in Int /\ a <= b
    BY <1>0
  <2>2. Nested(c, "f", a + 1, b)
    BY <1>1, <2>1
  <2>3. Depth(c, a, a) = 0
    BY <2>1, DepthOne
  <2>4. \A k \in a + 1 .. b : Depth(c, a, k) = Depth(c, a + 1, k) /\ Depth(c, a + 1, k) \in Int
    <3> SUFFICES ASSUME NEW k \in a + 1 .. b PROVE Depth(c, a, k) = Depth(c, a + 1, k) /\ Depth(c, a + 1, k) \in Int
      OBVIOUS
    <3>1. k \in Int /\ a < k /\ a + 1 \in Int
      BY <2>1
    <3>2. Depth(c, a + 1, k) \in Int
      BY <3>1, DepthSplit
    <3>3. Depth(c, a, k) = Depth(c, a, a) + Depth(c, a + 1, k)
      BY <2>1, <3>1, NestedFirst
    <3> QED
      BY <2>3, <3>2, <3>3
  <2>5. Depth(c, a, b) = 0
    <3>1. b \in a + 1 .. b
      BY <2>1
    <3> QED
      BY <2>2, <2>4, <3>1 DEF Nested
  <2>6. a .. b = {a} \cup (a + 1 .. b)
    BY <2>1
  <2>7. Nested(c, "f", a, b)
    BY <2>1, <2>2, <2>3, <2>4, <2>5, <2>6 DEF Nested
  <2> QED
    BY <1>1, <2>7, NodesMade
<1>5. ParenRule(c, S)
  <2> SUFFICES ASSUME NEW a \in 1 .. Len(c), NEW b \in 1 .. Len(c), NEW y \in C!Nodes,
                      a + 1 < b, c[a] = "(", c[b] = ")", <<"e", a + 1, b - 1, y>> \in S
               PROVE  <<"f", a, b, y>> \in S
    BY DEF ParenRule
  <2>1. a + 1 \in 1 .. Len(c) /\ b - 1 \in 1 .. Len(c) /\ a \in Int /\ b \in Int /\ a <= b
    BY <1>0
  <2>2. Nested(c, "e", a + 1, b - 1)
    BY <1>1, <2>1
  <2>3. Depth(c, a, a) = 1 /\ Depth(c, b, b) = -1
    BY <2>1, DepthOne
  <2>4. \A k \in a + 1 .. b - 1 : Depth(c, a, k) = 1 + Depth(c, a + 1, k) /\ Depth(c, a + 1, k) \in Int
    <3> SUFFICES ASSUME NEW k \in a + 1 .. b - 1 PROVE Depth(c, a, k) = 1 + Depth(c, a + 1, k) /\ Depth(c, a + 1, k) \in Int
      OBVIOUS
    <3>1. k \in Int /\ a < k /\ a + 1 \in Int
      BY <2>1
    <3>2. Depth(c, a + 1, k) \in Int
      BY <3>1, DepthSplit
    <3>3. Depth(c, a, k) = Depth(c, a, a) + Depth(c, a + 1, k)
      BY <2>1, <3>1, NestedFirst
    <3> QED
      BY <2>3, <3>2, <3>3
  <2>5. Depth(c, a, b) = 0
    <3>1. b - 1 \in a + 1 .. b - 1 /\ b - 1 \in Int /\ (b - 1) + 1 = b /\ b - 1 <= b /\ a <= (b - 1) + 1
      BY <2>1
    <3>2. Depth(c, a, b - 1) = 1
      BY <2>2, <2>4, <3>1 DEF Nested
    <3>3. Depth(c, a, b) = Depth(c, a, b - 1) + Depth(c, (b - 1) + 1, b)
      BY <2>1, <3>1, DepthSplit
    <3> QED
      BY <2>3, <3>1, <3>2, <3>3
  <2>6. a .. b = {a, b} \cup (a + 1 .. b - 1)
    BY <2>1
  <2>7. \A k \in a + 1 .. b - 1 : Depth(c, a, k) > 0 /\ Depth(c, a, k) >= 0
    BY <2>2, <2>4 DEF Nested
  <2>8. \A k \in a .. b : Depth(c, a, k) >= 0 /\ (c[k] \in {"and", "or"} => Depth(c, a, k) > 0)
    <3>1. c[b] \notin {"and", "or"}
      OBVIOUS
    <3> QED
      BY <2>3, <2>5, <2>6, <2>7, <3>1
  <2>9. Nested(c, "f", a, b)
    BY <2>1, <2>5, <2>8 DEF Nested
  <2> QED
    BY <1>1, <2>9
<1>6. OfRule(c, S)
  <2> SUFFICES ASSUME NEW a \in 1 .. Len(c), NEW b \in 1 .. Len(c),
                      a + 2 = b, c[a] = "all", c[a + 1] = "of", c[b] \in C!Ident \cup {"them"}
               PROVE  <<"f", a, b, C!Pattern("all", C!ExpandPattern(c[b]))>> \in S
    BY DEF OfRule
  <2>1. a \in Int /\ a + 1 \in Int /\ b \in Int /\ (a + 1) + 1 = b /\ a < a + 1 /\ a < b /\ a + 1 < b
    BY <1>0
  <2>2. c[b] \notin {"and", "or", "(", ")"}
    BY <1>0
  <2>3. Depth(c, a, a) = 0 /\ Depth(c, a + 1, a + 1) = 0 /\ Depth(c, b, b) = 0
    BY <2>1, <2>2, DepthOne
  <2>4. Depth(c, a, a + 1) = 0
    BY <2>1, <2>3, NestedFirst
  <2>5. Depth(c, a + 1, b) = 0
    <3>1. Depth(c, a + 1, b) = Depth(c, a + 1, a + 1) + Depth(c, (a + 1) + 1, b)
      BY <2>1, NestedFirst
    <3> QED
      BY <2>1, <2>3, <3>1
  <2>6. Depth(c, a, b) = 0
    <3>1. Depth(c, a, b) = Depth(c, a, a) + Depth(c, a + 1, b)
      BY <2>1, NestedFirst
    <3> QED
      BY <2>3, <2>5, <3>1
  <2>7. a .. b = {a, a + 1, b}
    BY <2>1
  <2>8. Nested(c, "f", a, b)
    BY <2>1, <2>2, <2>3, <2>4, <2>6, <2>7 DEF Nested
  <2> QED
    BY <1>1, <2>8, NodesMade
<1>7. TermRule(c, S)
  <2> SUFFICES ASSUME NEW a \in 1 .. Len(c), NEW b \in 1 .. Len(c), NEW y \in C!Nodes, <<"f", a, b, y>> \in S
               PROVE  <<"t", a, b, y>> \in S
    BY DEF TermRule
  <2>1. Nested(c, "f", a, b)
    BY <1>1
  <2>2. Nested(c, "t", a, b)
    BY <2>1 DEF Nested
  <2> QED
    BY <1>1, <2>2
<1>8. ExprRule(c, S)
  <2> SUFFICES ASSUME NEW a \in 1 .. Len(c), NEW b \in 1 .. Len(c), NEW y \in C!Nodes, <<"t", a, b, y>> \in S
               PROVE  <<"e", a, b, y>> \in S
    BY DEF ExprRule
  <2>1. Nested(c, "t", a, b)
    BY <1>1
  <2>2. Nested(c, "e", a, b)
    BY <2>1 DEF Nested
  <2> QED
    BY <1>1, <2>2
<1>9. ASSUME NEW a \in 1 .. Len(c), NEW k \in 1 .. Len(c), NEW b \in 1 .. Len(c), a < k, k < b,
             \/ Nested(c, "t", a, k - 1) /\ Nested(c, "f", k + 1, b) /\ c[k] = "and"
             \/ Nested(c, "e", a, k - 1) /\ Nested(c, "t", k + 1, b) /\ c[k] = "or"
      PROVE  Nested(c, IF c[k] = "and" THEN "t" ELSE "e", a, b)
  <2>1. a \in Int /\ k \in Int /\ b \in Int /\ a <= b /\ c[k] \notin {"(", ")"}
    BY <1>9
  <2>2. Depth(c, a, k - 1) = 0 /\ Depth(c, k + 1, b) = 0
    BY <1>9 DEF Nested
  <2>3. Depth(c, a, k) = 0 /\ \A n \in k + 1 .. b : Depth(c, a, n) = Depth(c, k + 1, n)
    BY <1>9, <2>1, <2>2, NestedJoin
  <2>4. b \in k + 1 .. b
    BY <1>9, <2>1
  <2>5. a .. b = (a .. k - 1) \cup {k} \cup (k + 1 .. b)
    BY <1>9, <2>1
  <2>6. Depth(c, a, b) = 0
    BY <2>2, <2>3, <2>4
  <2>7. CASE c[k] = "and"
    <3>1. Nested(c, "t", a, k - 1) /\ Nested(c, "f", k + 1, b)
      BY <1>9, <2>7
    <3>2. \A n \in a .. k - 1 : Depth(c, a, n) >= 0 /\ (c[n] = "or" => Depth(c, a, n) > 0)
      BY <3>1 DEF Nested
    <3>3. \A n \in k + 1 .. b : Depth(c, a, n) >= 0 /\ (c[n] = "or" => Depth(c, a, n) > 0)
      BY <2>3, <3>1 DEF Nested
    <3>4. Nested(c, "t", a, b)
      BY <2>1, <2>3, <2>5, <2>6, <2>7, <3>2, <3>3 DEF Nested
    <3> QED
      BY <2>7, <3>4
  <2>8. CASE c[k] = "or"
    <3>1. Nested(c, "e", a, k - 1) /\ Nested(c, "t", k + 1, b)
      BY <1>9, <2>8
    <3>2. \A n \in a .. k - 1 : Depth(c, a, n) >= 0
      BY <3>1 DEF Nested
    <3>3. \A n \in k + 1 .. b : Depth(c, a, n) >= 0
      BY <2>3, <3>1 DEF Nested
    <3>4. Nested(c, "e", a, b)
      BY <2>1, <2>3, <2>5, <2>6, <3>2, <3>3 DEF Nested
    <3> QED
      BY <2>8, <3>4
  <2> QED
    BY <1>9, <2>7, <2>8
<1>10. AndRule(c, S)
  <2> SUFFICES ASSUME NEW a \in 1 .. Len(c), NEW k \in 1 .. Len(c), NEW b \in 1 .. Len(c), NEW y \in C!Nodes, NEW z \in C!Nodes,
                      a < k, k < b, c[k] = "and", <<"t", a, k - 1, y>> \in S, <<"f", k + 1, b, z>> \in S
               PROVE  <<"t", a, b, y \cap z>> \in S
    BY DEF AndRule
  <2>1. k - 1 \in 1 .. Len(c) /\ k + 1 \in 1 .. Len(c)
    BY <1>0
  <2>2. Nested(c, "t", a, k - 1) /\ Nested(c, "f", k + 1, b)
    BY <1>1, <2>1
  <2>3. Nested(c, "t", a, b)
    BY <1>9, <2>2
  <2> QED
    BY <1>1, <2>3, NodesMade
<1>11. OrRule(c, S)
  <2> SUFFICES ASSUME NEW a \in 1 .. Len(c), NEW k \in 1 .. Len(c), NEW b \in 1 .. Len(c), NEW y \in C!Nodes, NEW z \in C!Nodes,
                      a < k, k < b, c[k] = "or", <<"e", a, k - 1, y>> \in S, <<"t", k + 1, b, z>> \in S
               PROVE  <<"e", a, b, y \cup z>> \in S
    BY DEF OrRule
  <2>1. k - 1 \in 1 .. Len(c) /\ k + 1 \in 1 .. Len(c)
    BY <1>0
  <2>2. Nested(c, "e", a, k - 1) /\ Nested(c, "t", k + 1, b)
    BY <1>1, <2>1
  <2>3. Nested(c, "e", a, b)
    BY <1>9, <2>2
  <2> QED
    BY <1>1, <2>3, NodesMade
<1>12. ClosedUnder(c, S)
  BY <1>3, <1>4, <1>5, <1>6, <1>7, <1>8, <1>10, <1>11 DEF ClosedUnder
<1>13. Grammar(c) \subseteq S
  BY <1>2, <1>12, GrammarLeast
<1>14. <<s, i, j, x>> \in S
  BY <1>13
<1> QED
  BY <1>14, AllIs DEF S

\* The rule a derivation was made by.
FactorBy(c, i, j, x) ==
    \/ i = j /\ c[i] \in C!Ident /\ x = C!Selection(c[i])
    \/ i < j /\ c[i] = "not" /\ \E y \in C!Nodes : <<"f", i + 1, j, y>> \in Grammar(c) /\ x = (SUBSET Names) \ y
    \/ i + 1 < j /\ c[i] = "(" /\ c[j] = ")" /\ <<"e", i + 1, j - 1, x>> \in Grammar(c)
    \/ /\ i + 2 = j /\ c[i] = "all" /\ c[i + 1] = "of" /\ c[j] \in C!Ident \cup {"them"}
       /\ x = C!Pattern("all", C!ExpandPattern(c[j]))
AndAt(c, i, k, j, x) ==
    \E y, z \in C!Nodes : x = y \cap z /\ <<"t", i, k - 1, y>> \in Grammar(c) /\ <<"f", k + 1, j, z>> \in Grammar(c)
OrAt(c, i, k, j, x) ==
    \E y, z \in C!Nodes : x = y \cup z /\ <<"e", i, k - 1, y>> \in Grammar(c) /\ <<"t", k + 1, j, z>> \in Grammar(c)
TermBy(c, i, j, x) ==
    \/ <<"f", i, j, x>> \in Grammar(c)
    \/ \E k \in 1 .. Len(c) : i < k /\ k < j /\ c[k] = "and" /\ AndAt(c, i, k, j, x)
ExprBy(c, i, j, x) ==
    \/ <<"t", i, j, x>> \in Grammar(c)
    \/ \E k \in 1 .. Len(c) : i < k /\ k < j /\ c[k] = "or" /\ OrAt(c, i, k, j, x)
Made(c, d) ==
    /\ d[1] = "f" => FactorBy(c, d[2], d[3], d[4])
    /\ d[1] = "t" => TermBy(c, d[2], d[3], d[4])
    /\ d[1] = "e" => ExprBy(c, d[2], d[3], d[4])

\* Every derivation was made by a rule.
LEMMA GrammarMade ==
    ASSUME NEW c, Valid(c)
    PROVE  /\ \A i, j, x : <<"f", i, j, x>> \in Grammar(c) => FactorBy(c, i, j, x)
           /\ \A i, j, x : <<"t", i, j, x>> \in Grammar(c) => TermBy(c, i, j, x)
           /\ \A i, j, x : <<"e", i, j, x>> \in Grammar(c) => ExprBy(c, i, j, x)
<1> DEFINE S == {d \in Grammar(c) : Made(c, d)}
<1>0. c \in Seq(C!Words) /\ Len(c) \in Nat /\ ClosedUnder(c, Grammar(c)) /\ Grammar(c) \subseteq All(c)
  BY ValidWords, GrammarRules
<1>1. \A d : d \in S <=> d \in Grammar(c) /\ Made(c, d)
  OBVIOUS
<1>2. S \subseteq All(c) /\ S \subseteq Grammar(c)
  BY <1>0
<1> HIDE DEF S
<1>3. /\ \A i, j, x : Made(c, <<"f", i, j, x>>) <=> FactorBy(c, i, j, x)
      /\ \A i, j, x : Made(c, <<"t", i, j, x>>) <=> TermBy(c, i, j, x)
      /\ \A i, j, x : Made(c, <<"e", i, j, x>>) <=> ExprBy(c, i, j, x)
  BY DEF Made
<1>4. NameRule(c, S)
  <2> SUFFICES ASSUME NEW i \in 1 .. Len(c), c[i] \in C!Ident PROVE <<"f", i, i, C!Selection(c[i])>> \in S
    BY DEF NameRule
  <2>1. <<"f", i, i, C!Selection(c[i])>> \in Grammar(c)
    BY <1>0 DEF ClosedUnder, NameRule
  <2>2. FactorBy(c, i, i, C!Selection(c[i]))
    BY DEF FactorBy
  <2> QED
    BY <1>1, <1>3, <2>1, <2>2
<1>5. NotRule(c, S)
  <2> SUFFICES ASSUME NEW i \in 1 .. Len(c), NEW j \in 1 .. Len(c), NEW x \in C!Nodes,
                      i < j, c[i] = "not", <<"f", i + 1, j, x>> \in S
               PROVE  <<"f", i, j, (SUBSET Names) \ x>> \in S
    BY DEF NotRule
  <2>0. <<"f", i + 1, j, x>> \in Grammar(c)
    BY <1>2
  <2>1. <<"f", i, j, (SUBSET Names) \ x>> \in Grammar(c)
    BY <1>0, <2>0 DEF ClosedUnder, NotRule
  <2>2. FactorBy(c, i, j, (SUBSET Names) \ x)
    BY <2>0 DEF FactorBy
  <2> QED
    BY <1>1, <1>3, <2>1, <2>2
<1>6. ParenRule(c, S)
  <2> SUFFICES ASSUME NEW i \in 1 .. Len(c), NEW j \in 1 .. Len(c), NEW x \in C!Nodes,
                      i + 1 < j, c[i] = "(", c[j] = ")", <<"e", i + 1, j - 1, x>> \in S
               PROVE  <<"f", i, j, x>> \in S
    BY DEF ParenRule
  <2>0. <<"e", i + 1, j - 1, x>> \in Grammar(c)
    BY <1>2
  <2>1. <<"f", i, j, x>> \in Grammar(c)
    BY <1>0, <2>0 DEF ClosedUnder, ParenRule
  <2>2. FactorBy(c, i, j, x)
    BY <2>0 DEF FactorBy
  <2> QED
    BY <1>1, <1>3, <2>1, <2>2
<1>7. OfRule(c, S)
  <2> SUFFICES ASSUME NEW i \in 1 .. Len(c), NEW j \in 1 .. Len(c),
                      i + 2 = j, c[i] = "all", c[i + 1] = "of", c[j] \in C!Ident \cup {"them"}
               PROVE  <<"f", i, j, C!Pattern("all", C!ExpandPattern(c[j]))>> \in S
    BY DEF OfRule
  <2>1. <<"f", i, j, C!Pattern("all", C!ExpandPattern(c[j]))>> \in Grammar(c)
    BY <1>0 DEF ClosedUnder, OfRule
  <2>2. FactorBy(c, i, j, C!Pattern("all", C!ExpandPattern(c[j])))
    BY DEF FactorBy
  <2> QED
    BY <1>1, <1>3, <2>1, <2>2
<1>8. TermRule(c, S)
  <2> SUFFICES ASSUME NEW i \in 1 .. Len(c), NEW j \in 1 .. Len(c), NEW x \in C!Nodes, <<"f", i, j, x>> \in S
               PROVE  <<"t", i, j, x>> \in S
    BY DEF TermRule
  <2>0. <<"f", i, j, x>> \in Grammar(c)
    BY <1>2
  <2>1. <<"t", i, j, x>> \in Grammar(c)
    BY <1>0, <2>0 DEF ClosedUnder, TermRule
  <2>2. TermBy(c, i, j, x)
    BY <2>0 DEF TermBy
  <2> QED
    BY <1>1, <1>3, <2>1, <2>2
<1>9. AndRule(c, S)
  <2> SUFFICES ASSUME NEW i \in 1 .. Len(c), NEW k \in 1 .. Len(c), NEW j \in 1 .. Len(c), NEW x \in C!Nodes, NEW y \in C!Nodes,
                      i < k, k < j, c[k] = "and", <<"t", i, k - 1, x>> \in S, <<"f", k + 1, j, y>> \in S
               PROVE  <<"t", i, j, x \cap y>> \in S
    BY DEF AndRule
  <2>0. <<"t", i, k - 1, x>> \in Grammar(c) /\ <<"f", k + 1, j, y>> \in Grammar(c)
    BY <1>2
  <2>1. <<"t", i, j, x \cap y>> \in Grammar(c)
    BY <1>0, <2>0 DEF ClosedUnder, AndRule
  <2>2. AndAt(c, i, k, j, x \cap y)
    BY <2>0 DEF AndAt
  <2>3. TermBy(c, i, j, x \cap y)
    BY <2>2 DEF TermBy
  <2> QED
    BY <1>1, <1>3, <2>1, <2>3
<1>10. ExprRule(c, S)
  <2> SUFFICES ASSUME NEW i \in 1 .. Len(c), NEW j \in 1 .. Len(c), NEW x \in C!Nodes, <<"t", i, j, x>> \in S
               PROVE  <<"e", i, j, x>> \in S
    BY DEF ExprRule
  <2>0. <<"t", i, j, x>> \in Grammar(c)
    BY <1>2
  <2>1. <<"e", i, j, x>> \in Grammar(c)
    BY <1>0, <2>0 DEF ClosedUnder, ExprRule
  <2>2. ExprBy(c, i, j, x)
    BY <2>0 DEF ExprBy
  <2> QED
    BY <1>1, <1>3, <2>1, <2>2
<1>11. OrRule(c, S)
  <2> SUFFICES ASSUME NEW i \in 1 .. Len(c), NEW k \in 1 .. Len(c), NEW j \in 1 .. Len(c), NEW x \in C!Nodes, NEW y \in C!Nodes,
                      i < k, k < j, c[k] = "or", <<"e", i, k - 1, x>> \in S, <<"t", k + 1, j, y>> \in S
               PROVE  <<"e", i, j, x \cup y>> \in S
    BY DEF OrRule
  <2>0. <<"e", i, k - 1, x>> \in Grammar(c) /\ <<"t", k + 1, j, y>> \in Grammar(c)
    BY <1>2
  <2>1. <<"e", i, j, x \cup y>> \in Grammar(c)
    BY <1>0, <2>0 DEF ClosedUnder, OrRule
  <2>2. OrAt(c, i, k, j, x \cup y)
    BY <2>0 DEF OrAt
  <2>3. ExprBy(c, i, j, x \cup y)
    BY <2>2 DEF ExprBy
  <2> QED
    BY <1>1, <1>3, <2>1, <2>3
<1>12. ClosedUnder(c, S)
  BY <1>4, <1>5, <1>6, <1>7, <1>8, <1>9, <1>10, <1>11 DEF ClosedUnder
<1>13. Grammar(c) \subseteq S
  BY <1>2, <1>12, GrammarLeast
<1> QED
  BY <1>1, <1>3, <1>13

\* An "or" or "and" outside parentheses.
Free(c, w, i, k) == c[k] = w /\ Depth(c, i, k) = 0

\* Without an "or" outside parentheses an expression is a term.
LEMMA ExprIsTerm ==
    ASSUME NEW c, Valid(c), NEW i, NEW j, NEW x, <<"e", i, j, x>> \in Grammar(c), \A k \in i .. j : ~Free(c, "or", i, k)
    PROVE  <<"t", i, j, x>> \in Grammar(c)
<1>0. i \in 1 .. Len(c) /\ j \in 1 .. Len(c) /\ Len(c) \in Nat
  BY GrammarOrder, ValidWords
<1>1. ExprBy(c, i, j, x)
  BY GrammarMade
<1> SUFFICES ASSUME NEW k \in 1 .. Len(c), i < k, k < j, c[k] = "or", OrAt(c, i, k, j, x) PROVE FALSE
  BY <1>1 DEF ExprBy
<1>2. PICK y, z : <<"e", i, k - 1, y>> \in Grammar(c) /\ <<"t", k + 1, j, z>> \in Grammar(c)
  BY DEF OrAt
<1>3. Nested(c, "e", i, k - 1)
  BY <1>2, GrammarNested
<1>4. Depth(c, i, k - 1) = 0
  BY <1>3 DEF Nested
<1>5. Depth(c, i, k) = 0
  <2>1. c[k] \notin {"(", ")"} /\ i \in Int /\ k \in Int /\ j \in Int
    BY <1>0
  <2> QED
    BY <1>4, <2>1, NestedJoin
<1>6. k \in i .. j
  BY <1>0
<1> QED
  BY <1>5, <1>6 DEF Free

\* Without an "and" outside parentheses a term is a factor.
LEMMA TermIsFactor ==
    ASSUME NEW c, Valid(c), NEW i, NEW j, NEW x, <<"t", i, j, x>> \in Grammar(c), \A k \in i .. j : ~Free(c, "and", i, k)
    PROVE  <<"f", i, j, x>> \in Grammar(c)
<1>0. i \in 1 .. Len(c) /\ j \in 1 .. Len(c) /\ Len(c) \in Nat
  BY GrammarOrder, ValidWords
<1>1. TermBy(c, i, j, x)
  BY GrammarMade
<1> SUFFICES ASSUME NEW k \in 1 .. Len(c), i < k, k < j, c[k] = "and", AndAt(c, i, k, j, x) PROVE FALSE
  BY <1>1 DEF TermBy
<1>2. PICK y, z : <<"t", i, k - 1, y>> \in Grammar(c) /\ <<"f", k + 1, j, z>> \in Grammar(c)
  BY DEF AndAt
<1>3. Nested(c, "t", i, k - 1)
  BY <1>2, GrammarNested
<1>4. Depth(c, i, k - 1) = 0
  BY <1>3 DEF Nested
<1>5. Depth(c, i, k) = 0
  <2>1. c[k] \notin {"(", ")"} /\ i \in Int /\ k \in Int /\ j \in Int
    BY <1>0
  <2> QED
    BY <1>4, <2>1, NestedJoin
<1>6. k \in i .. j
  BY <1>0
<1> QED
  BY <1>5, <1>6 DEF Free

\* The nodes that the grammar derives as an expression.
Exprs(c, i, j) == {x \in C!Nodes : <<"e", i, j, x>> \in Grammar(c)}

\* Past a place outside parentheses it is the same to be outside them.
LEMMA FreeOn ==
    ASSUME NEW c, NEW i \in Int, NEW m \in Int, i <= m, Depth(c, i, m) = 0, NEW k \in Int, m < k, NEW w
    PROVE  Free(c, w, i, k) <=> Free(c, w, m + 1, k)
<1>1. m + 1 \in Int /\ i <= m + 1 /\ m <= k
  OBVIOUS
<1>2. Depth(c, i, k) = Depth(c, i, m) + Depth(c, m + 1, k)
  BY <1>1, DepthSplit
<1>3. Depth(c, m + 1, k) \in Int
  BY <1>1, DepthSplit
<1>4. Depth(c, i, k) = Depth(c, m + 1, k)
  BY <1>2, <1>3
<1> QED
  BY <1>4 DEF Free

\* Where the last "or" outside parentheses stands, an expression splits.
LEMMA OrSplit ==
    ASSUME NEW c, Valid(c), NEW i \in 1 .. Len(c), NEW j \in 1 .. Len(c), NEW m \in i .. j,
           Free(c, "or", i, m), \A k \in m + 1 .. j : ~Free(c, "or", i, k)
    PROVE  Exprs(c, i, j) = {y \cup z : y \in Exprs(c, i, m - 1), z \in Exprs(c, m + 1, j)}
<1>0. Len(c) \in Nat /\ c \in Seq(C!Words) /\ ClosedUnder(c, Grammar(c)) /\ i \in Int /\ j \in Int /\ m \in Int /\ m \in 1 .. Len(c)
  BY ValidWords, GrammarRules
<1>1. ASSUME NEW x \in Exprs(c, i, j) PROVE \E y \in Exprs(c, i, m - 1), z \in Exprs(c, m + 1, j) : x = y \cup z
  <2>1. <<"e", i, j, x>> \in Grammar(c)
    BY <1>1 DEF Exprs
  <2>2. ExprBy(c, i, j, x)
    BY <2>1, GrammarMade
  <2>3. <<"t", i, j, x>> \notin Grammar(c)
    <3> SUFFICES ASSUME <<"t", i, j, x>> \in Grammar(c) PROVE FALSE
      OBVIOUS
    <3>1. Nested(c, "t", i, j)
      BY GrammarNested
    <3>2. c[m] = "or" /\ Depth(c, i, m) = 0
      BY DEF Free
    <3>3. Depth(c, i, m) > 0
      BY <3>1, <3>2 DEF Nested
    <3> QED
      BY <3>2, <3>3
  <2>4. PICK k \in 1 .. Len(c) : i < k /\ k < j /\ c[k] = "or" /\ OrAt(c, i, k, j, x)
    BY <2>2, <2>3 DEF ExprBy
  <2>5. PICK y \in C!Nodes, z \in C!Nodes : x = y \cup z /\ <<"e", i, k - 1, y>> \in Grammar(c) /\ <<"t", k + 1, j, z>> \in Grammar(c)
    BY <2>4 DEF OrAt
  <2>6. Nested(c, "e", i, k - 1) /\ Nested(c, "t", k + 1, j)
    BY <2>5, GrammarNested
  <2>7. Depth(c, i, k) = 0
    <3>1. Depth(c, i, k - 1) = 0
      BY <2>6 DEF Nested
    <3>2. c[k] \notin {"(", ")"} /\ k \in Int
      BY <2>4
    <3> QED
      BY <1>0, <2>4, <3>1, <3>2, NestedJoin
  <2>8. k <= m
    <3>1. Free(c, "or", i, k)
      BY <2>4, <2>7 DEF Free
    <3> QED
      BY <1>0, <2>4, <3>1
  <2>9. ~(k < m)
    <3> SUFFICES ASSUME k < m PROVE FALSE
      OBVIOUS
    <3>1. Free(c, "or", k + 1, m)
      BY <1>0, <2>4, <2>7, FreeOn
    <3>2. m \in k + 1 .. j
      BY <1>0, <2>4
    <3>3. c[m] = "or" /\ Depth(c, k + 1, m) = 0
      BY <3>1 DEF Free
    <3>4. Depth(c, k + 1, m) > 0
      BY <2>6, <3>2, <3>3 DEF Nested
    <3> QED
      BY <3>3, <3>4
  <2>10. k = m
    BY <1>0, <2>4, <2>8, <2>9
  <2>11. <<"e", k + 1, j, z>> \in Grammar(c)
    <3>1. k + 1 \in 1 .. Len(c)
      BY <1>0, <2>4
    <3> QED
      BY <1>0, <2>5, <3>1 DEF ClosedUnder, ExprRule
  <2> QED
    BY <2>5, <2>10, <2>11 DEF Exprs
<1>2. ASSUME NEW y \in Exprs(c, i, m - 1), NEW z \in Exprs(c, m + 1, j) PROVE y \cup z \in Exprs(c, i, j)
  <2>1. <<"e", i, m - 1, y>> \in Grammar(c) /\ <<"e", m + 1, j, z>> \in Grammar(c) /\ y \in C!Nodes /\ z \in C!Nodes
    BY <1>2 DEF Exprs
  <2>2. i <= m - 1 /\ m + 1 <= j
    BY <2>1, GrammarOrder
  <2>3. \A k \in m + 1 .. j : ~Free(c, "or", m + 1, k)
    <3> SUFFICES ASSUME NEW k \in m + 1 .. j PROVE ~Free(c, "or", m + 1, k)
      OBVIOUS
    <3>1. k \in Int /\ m < k /\ i <= m /\ Depth(c, i, m) = 0
      BY <1>0 DEF Free
    <3> QED
      BY <1>0, <3>1, FreeOn
  <2>4. <<"t", m + 1, j, z>> \in Grammar(c)
    BY <2>1, <2>3, ExprIsTerm
  <2>5. i < m /\ m < j /\ c[m] = "or"
    BY <1>0, <2>2 DEF Free
  <2>6. <<"e", i, j, y \cup z>> \in Grammar(c)
    BY <1>0, <2>1, <2>4, <2>5 DEF ClosedUnder, OrRule
  <2> QED
    BY <2>1, <2>6, NodesMade DEF Exprs
<1> QED
  BY <1>1, <1>2

\* Where there is none, and the last "and" outside parentheses stands, it splits there.
LEMMA AndSplit ==
    ASSUME NEW c, Valid(c), NEW i \in 1 .. Len(c), NEW j \in 1 .. Len(c), NEW m \in i .. j,
           \A k \in i .. j : ~Free(c, "or", i, k), Free(c, "and", i, m), \A k \in m + 1 .. j : ~Free(c, "and", i, k)
    PROVE  Exprs(c, i, j) = {y \cap z : y \in Exprs(c, i, m - 1), z \in Exprs(c, m + 1, j)}
<1>0. Len(c) \in Nat /\ c \in Seq(C!Words) /\ ClosedUnder(c, Grammar(c)) /\ i \in Int /\ j \in Int /\ m \in Int /\ m \in 1 .. Len(c)
  BY ValidWords, GrammarRules
<1>1. ASSUME NEW x \in Exprs(c, i, j) PROVE \E y \in Exprs(c, i, m - 1), z \in Exprs(c, m + 1, j) : x = y \cap z
  <2>1. <<"t", i, j, x>> \in Grammar(c)
    <3>1. <<"e", i, j, x>> \in Grammar(c)
      BY <1>1 DEF Exprs
    <3> QED
      BY <3>1, ExprIsTerm
  <2>2. TermBy(c, i, j, x)
    BY <2>1, GrammarMade
  <2>3. <<"f", i, j, x>> \notin Grammar(c)
    <3> SUFFICES ASSUME <<"f", i, j, x>> \in Grammar(c) PROVE FALSE
      OBVIOUS
    <3>1. Nested(c, "f", i, j)
      BY GrammarNested
    <3>2. c[m] = "and" /\ Depth(c, i, m) = 0
      BY DEF Free
    <3>3. Depth(c, i, m) > 0
      BY <3>1, <3>2 DEF Nested
    <3> QED
      BY <3>2, <3>3
  <2>4. PICK k \in 1 .. Len(c) : i < k /\ k < j /\ c[k] = "and" /\ AndAt(c, i, k, j, x)
    BY <2>2, <2>3 DEF TermBy
  <2>5. PICK y \in C!Nodes, z \in C!Nodes : x = y \cap z /\ <<"t", i, k - 1, y>> \in Grammar(c) /\ <<"f", k + 1, j, z>> \in Grammar(c)
    BY <2>4 DEF AndAt
  <2>6. Nested(c, "t", i, k - 1) /\ Nested(c, "f", k + 1, j)
    BY <2>5, GrammarNested
  <2>7. Depth(c, i, k) = 0
    <3>1. Depth(c, i, k - 1) = 0
      BY <2>6 DEF Nested
    <3>2. c[k] \notin {"(", ")"} /\ k \in Int
      BY <2>4
    <3> QED
      BY <1>0, <2>4, <3>1, <3>2, NestedJoin
  <2>8. k <= m
    <3>1. Free(c, "and", i, k)
      BY <2>4, <2>7 DEF Free
    <3> QED
      BY <1>0, <2>4, <3>1
  <2>9. ~(k < m)
    <3> SUFFICES ASSUME k < m PROVE FALSE
      OBVIOUS
    <3>1. Free(c, "and", k + 1, m)
      BY <1>0, <2>4, <2>7, FreeOn
    <3>2. m \in k + 1 .. j
      BY <1>0, <2>4
    <3>3. c[m] = "and" /\ Depth(c, k + 1, m) = 0
      BY <3>1 DEF Free
    <3>4. Depth(c, k + 1, m) > 0
      BY <2>6, <3>2, <3>3 DEF Nested
    <3> QED
      BY <3>3, <3>4
  <2>10. k = m
    BY <1>0, <2>4, <2>8, <2>9
  <2>11. <<"e", k + 1, j, z>> \in Grammar(c) /\ <<"e", i, k - 1, y>> \in Grammar(c)
    <3>1. k + 1 \in 1 .. Len(c) /\ k - 1 \in 1 .. Len(c)
      BY <1>0, <2>4
    <3>2. <<"t", k + 1, j, z>> \in Grammar(c)
      BY <1>0, <2>5, <3>1 DEF ClosedUnder, TermRule
    <3> QED
      BY <1>0, <2>5, <3>1, <3>2 DEF ClosedUnder, ExprRule
  <2> QED
    BY <2>5, <2>10, <2>11 DEF Exprs
<1>2. ASSUME NEW y \in Exprs(c, i, m - 1), NEW z \in Exprs(c, m + 1, j) PROVE y \cap z \in Exprs(c, i, j)
  <2>1. <<"e", i, m - 1, y>> \in Grammar(c) /\ <<"e", m + 1, j, z>> \in Grammar(c) /\ y \in C!Nodes /\ z \in C!Nodes
    BY <1>2 DEF Exprs
  <2>2. i <= m - 1 /\ m + 1 <= j
    BY <2>1, GrammarOrder
  <2>3. \A k \in m + 1 .. j : ~Free(c, "or", m + 1, k) /\ ~Free(c, "and", m + 1, k)
    <3> SUFFICES ASSUME NEW k \in m + 1 .. j PROVE ~Free(c, "or", m + 1, k) /\ ~Free(c, "and", m + 1, k)
      OBVIOUS
    <3>1. k \in Int /\ m < k /\ i <= m /\ Depth(c, i, m) = 0 /\ k \in i .. j
      BY <1>0 DEF Free
    <3>2. ~Free(c, "or", i, k) /\ ~Free(c, "and", i, k)
      BY <3>1
    <3> QED
      BY <1>0, <3>1, <3>2, FreeOn
  <2>4. <<"f", m + 1, j, z>> \in Grammar(c)
    <3>1. <<"t", m + 1, j, z>> \in Grammar(c)
      BY <2>1, <2>3, ExprIsTerm
    <3> QED
      BY <2>3, <3>1, TermIsFactor
  <2>5. <<"t", i, m - 1, y>> \in Grammar(c)
    <3>1. \A k \in i .. m - 1 : ~Free(c, "or", i, k)
      BY <1>0
    <3> QED
      BY <2>1, <3>1, ExprIsTerm
  <2>6. i < m /\ m < j /\ c[m] = "and"
    BY <1>0, <2>2 DEF Free
  <2>7. <<"t", i, j, y \cap z>> \in Grammar(c)
    BY <1>0, <2>1, <2>4, <2>5, <2>6 DEF ClosedUnder, AndRule
  <2>8. y \cap z \in C!Nodes
    BY <2>1, NodesMade
  <2>9. <<"e", i, j, y \cap z>> \in Grammar(c)
    BY <1>0, <2>7, <2>8 DEF ClosedUnder, ExprRule
  <2> QED
    BY <2>8, <2>9 DEF Exprs
<1> QED
  BY <1>1, <1>2

\* Without either, an expression is a factor.
LEMMA ExprIsFactor ==
    ASSUME NEW c, Valid(c), NEW i \in 1 .. Len(c), NEW j \in 1 .. Len(c),
           \A k \in i .. j : ~Free(c, "or", i, k) /\ ~Free(c, "and", i, k)
    PROVE  \A x : <<"e", i, j, x>> \in Grammar(c) <=> <<"f", i, j, x>> \in Grammar(c)
<1>0. ClosedUnder(c, Grammar(c))
  BY ValidWords, GrammarRules
<1>1. ASSUME NEW x, <<"e", i, j, x>> \in Grammar(c) PROVE <<"f", i, j, x>> \in Grammar(c)
  <2>1. <<"t", i, j, x>> \in Grammar(c)
    BY <1>1, ExprIsTerm
  <2> QED
    BY <2>1, TermIsFactor
<1>2. ASSUME NEW x, <<"f", i, j, x>> \in Grammar(c) PROVE <<"e", i, j, x>> \in Grammar(c)
  <2>1. x \in C!Nodes
    BY <1>2, GrammarOrder
  <2>2. <<"t", i, j, x>> \in Grammar(c)
    BY <1>0, <1>2, <2>1 DEF ClosedUnder, TermRule
  <2> QED
    BY <1>0, <2>1, <2>2 DEF ClosedUnder, ExprRule
<1> QED
  BY <1>1, <1>2

\* What is known of shorter spans.
Knows(c, g, n) == \A a \in 1 .. Len(c) + 1, b \in 0 .. Len(c) : b - a < n => g[<<a, b>>] = Exprs(c, a, b)

\* The words of a factor mean what the grammar derives.
LEMMA SimpleIs ==
    ASSUME NEW c, Valid(c), NEW i \in 1 .. Len(c), NEW j \in 1 .. Len(c), i <= j, NEW g, Knows(c, g, j - i),
           \A k \in i .. j : ~Free(c, "or", i, k) /\ ~Free(c, "and", i, k)
    PROVE  C!SimpleMeans(c, i, j, g) = Exprs(c, i, j)
<1>0. /\ Len(c) \in Nat /\ c \in Seq(C!Words) /\ ClosedUnder(c, Grammar(c)) /\ i \in Int /\ j \in Int
      /\ c[i] \notin {"1", "2", "any"} /\ (c[i] \in C!Ident => c[i] \notin {"not", "(", "all"})
  BY ValidWords, GrammarRules
<1>1. \A x : x \in Exprs(c, i, j) <=> <<"f", i, j, x>> \in Grammar(c)
  <2>1. \A x : <<"e", i, j, x>> \in Grammar(c) <=> <<"f", i, j, x>> \in Grammar(c)
    BY ExprIsFactor
  <2>2. \A x : <<"e", i, j, x>> \in Grammar(c) => x \in C!Nodes
    BY GrammarOrder
  <2> QED
    BY <2>1, <2>2 DEF Exprs
<1>2. \A x : <<"f", i, j, x>> \in Grammar(c) => FactorBy(c, i, j, x)
  BY GrammarMade
<1>3. CASE i = j /\ c[i] \in C!Ident
  <2>1. C!SimpleMeans(c, i, j, g) = {C!Selection(c[i])}
    BY <1>3 DEF C!SimpleMeans, C!Selection
  <2>2. <<"f", i, j, C!Selection(c[i])>> \in Grammar(c)
    BY <1>0, <1>3 DEF ClosedUnder, NameRule
  <2>3. \A x : FactorBy(c, i, j, x) => x = C!Selection(c[i])
    BY <1>0, <1>3 DEF FactorBy
  <2> QED
    BY <1>1, <1>2, <2>1, <2>2, <2>3
<1>4. CASE i < j /\ c[i] = "not"
  <2>0. i + 1 \in 1 .. Len(c) /\ i + 1 \in 1 .. Len(c) + 1 /\ j \in 0 .. Len(c) /\ j - (i + 1) < j - i
    BY <1>0, <1>4
  <2>1. g[<<i + 1, j>>] = Exprs(c, i + 1, j)
    BY <2>0 DEF Knows
  <2>2. C!SimpleMeans(c, i, j, g) = {(SUBSET Names) \ x : x \in Exprs(c, i + 1, j)}
    <3>1. C!SimpleMeans(c, i, j, g) = {(SUBSET Names) \ x : x \in g[<<i + 1, j>>]}
      BY <1>0, <1>4 DEF C!SimpleMeans
    <3> QED
      BY <2>1, <3>1
  <2>3. \A k \in i + 1 .. j : ~Free(c, "or", i + 1, k) /\ ~Free(c, "and", i + 1, k)
    <3> SUFFICES ASSUME NEW k \in i + 1 .. j PROVE ~Free(c, "or", i + 1, k) /\ ~Free(c, "and", i + 1, k)
      OBVIOUS
    <3>1. k \in i .. j /\ k \in Int /\ i < k
      BY <1>0
    <3>2. Depth(c, i, i) = 0
      BY <1>0, <1>4, DepthOne
    <3>3. ~Free(c, "or", i, k) /\ ~Free(c, "and", i, k)
      BY <3>1
    <3> QED
      BY <1>0, <3>1, <3>2, <3>3, FreeOn
  <2>4. \A x : x \in Exprs(c, i + 1, j) <=> x \in C!Nodes /\ <<"f", i + 1, j, x>> \in Grammar(c)
    <3>1. \A x : <<"e", i + 1, j, x>> \in Grammar(c) <=> <<"f", i + 1, j, x>> \in Grammar(c)
      BY <2>0, <2>3, ExprIsFactor
    <3> QED
      BY <3>1 DEF Exprs
  <2>5. ASSUME NEW x \in Exprs(c, i + 1, j) PROVE <<"f", i, j, (SUBSET Names) \ x>> \in Grammar(c)
    BY <1>0, <1>4, <2>4, <2>5 DEF ClosedUnder, NotRule
  <2>6. ASSUME NEW x, FactorBy(c, i, j, x) PROVE \E y \in Exprs(c, i + 1, j) : x = (SUBSET Names) \ y
    <3>1. PICK y \in C!Nodes : <<"f", i + 1, j, y>> \in Grammar(c) /\ x = (SUBSET Names) \ y
      BY <1>0, <1>4, <2>6 DEF FactorBy
    <3> QED
      BY <2>4, <3>1
  <2>7. Exprs(c, i, j) \subseteq {(SUBSET Names) \ x : x \in Exprs(c, i + 1, j)}
    BY <1>1, <1>2, <2>6
  <2>8. {(SUBSET Names) \ x : x \in Exprs(c, i + 1, j)} \subseteq Exprs(c, i, j)
    BY <1>1, <2>5
  <2> QED
    BY <2>2, <2>7, <2>8
<1>5. CASE i + 1 < j /\ c[i] = "(" /\ c[j] = ")"
  <2>0. i + 1 \in 1 .. Len(c) + 1 /\ j - 1 \in 0 .. Len(c) /\ (j - 1) - (i + 1) < j - i
    BY <1>0, <1>5
  <2>1. g[<<i + 1, j - 1>>] = Exprs(c, i + 1, j - 1)
    BY <2>0 DEF Knows
  <2>2. C!SimpleMeans(c, i, j, g) = Exprs(c, i + 1, j - 1)
    <3>1. C!SimpleMeans(c, i, j, g) = g[<<i + 1, j - 1>>]
      BY <1>0, <1>5 DEF C!SimpleMeans
    <3> QED
      BY <2>1, <3>1
  <2>3. ASSUME NEW x \in Exprs(c, i + 1, j - 1) PROVE <<"f", i, j, x>> \in Grammar(c)
    <3>1. x \in C!Nodes /\ <<"e", i + 1, j - 1, x>> \in Grammar(c)
      BY <2>3 DEF Exprs
    <3> QED
      BY <1>0, <1>5, <3>1 DEF ClosedUnder, ParenRule
  <2>4. ASSUME NEW x, <<"f", i, j, x>> \in Grammar(c) PROVE x \in Exprs(c, i + 1, j - 1)
    <3>1. x \in C!Nodes
      BY <2>4, GrammarOrder
    <3>2. FactorBy(c, i, j, x)
      BY <1>2, <2>4
    <3>3. <<"e", i + 1, j - 1, x>> \in Grammar(c)
      BY <1>0, <1>5, <3>2 DEF FactorBy
    <3> QED
      BY <3>1, <3>3 DEF Exprs
  <2> QED
    BY <1>1, <2>2, <2>3, <2>4
<1>6. CASE i + 2 = j /\ c[i] = "all" /\ c[i + 1] = "of" /\ c[j] \in C!Ident \cup {"them"}
  <2> DEFINE x0 == C!Pattern("all", C!ExpandPattern(c[j]))
  <2>1. C!SimpleMeans(c, i, j, g) = C!OfMeans("all", C!Target(c[j]))
    BY <1>0, <1>6 DEF C!SimpleMeans
  <2>2. C!Target(c[j]) = C!ExpandPattern(c[j])
    BY DEF C!Target, C!ExpandPattern
  <2>3. \A keys : C!OfMeans("all", keys) = {C!Pattern("all", keys)}
    BY DEF C!OfMeans, C!Pattern
  <2>4. <<"f", i, j, x0>> \in Grammar(c)
    BY <1>0, <1>6 DEF ClosedUnder, OfRule
  <2>5. \A x : FactorBy(c, i, j, x) => x = x0
    BY <1>0, <1>6 DEF FactorBy
  <2> HIDE DEF x0
  <2>6. C!SimpleMeans(c, i, j, g) = {x0}
    BY <2>1, <2>2, <2>3 DEF x0
  <2> QED
    BY <1>1, <1>2, <2>4, <2>5, <2>6
<1>7. CASE /\ ~(i = j /\ c[i] \in C!Ident) /\ ~(i < j /\ c[i] = "not") /\ ~(i + 1 < j /\ c[i] = "(" /\ c[j] = ")")
           /\ ~(i + 2 = j /\ c[i] = "all" /\ c[i + 1] = "of" /\ c[j] \in C!Ident \cup {"them"})
  <2>1. C!SimpleMeans(c, i, j, g) = {}
    BY <1>0, <1>7 DEF C!SimpleMeans
  <2>2. \A x : ~FactorBy(c, i, j, x)
    BY <1>7 DEF FactorBy
  <2> QED
    BY <1>1, <1>2, <2>1, <2>2
<1> QED
  BY <1>3, <1>4, <1>5, <1>6, <1>7

\* The last place of some.
LEMMA LastIs ==
    ASSUME NEW i \in Nat, NEW j \in Nat, NEW T, T \subseteq i .. j, T # {}
    PROVE  C!Last(T) \in T /\ \A k \in T : k <= C!Last(T)
<1> DEFINE B == {j - k : k \in T}
<1>1. B \subseteq Nat /\ B # {}
  OBVIOUS
<1> HIDE DEF B
<1>2. PICK b \in B : \A d \in B : b <= d
  BY <1>1, Least
<1>3. PICK k \in T : b = j - k
  BY <1>2 DEF B
<1>4. \A n \in T : n <= k
  <2> SUFFICES ASSUME NEW n \in T PROVE n <= k
    OBVIOUS
  <2>1. j - n \in B
    BY DEF B
  <2>2. b <= j - n
    BY <1>2, <2>1
  <2>3. n \in Int /\ k \in Int
    OBVIOUS
  <2> QED
    BY <1>3, <2>2, <2>3
<1> QED
  BY <1>3, <1>4 DEF C!Last

\* The words of a span mean what the grammar derives.
LEMMA SplitIs ==
    ASSUME NEW c, Valid(c), NEW i \in 1 .. Len(c) + 1, NEW j \in 0 .. Len(c), NEW g, Knows(c, g, j - i)
    PROVE  C!Split(c, i, j, g) = Exprs(c, i, j)
<1>0. Len(c) \in Nat /\ i \in Int /\ j \in Int /\ i \in Nat /\ j \in Nat
  BY ValidWords
<1>1. CASE i > j
  <2>1. \A x : <<"e", i, j, x>> \notin Grammar(c)
    BY <1>0, <1>1, GrammarOrder
  <2>2. Exprs(c, i, j) = {}
    BY <2>1 DEF Exprs
  <2> QED
    BY <1>1, <2>2 DEF C!Split
<1>2. CASE ~(i > j)
  <2> DEFINE ors == C!Outside(c, i, j, "or")
             ands == C!Outside(c, i, j, "and")
  <2>0. i \in 1 .. Len(c) /\ j \in 1 .. Len(c) /\ i <= j
    BY <1>0, <1>2
  <2>1. \A k : k \in ors <=> k \in i .. j /\ Free(c, "or", i, k)
    BY <1>0, OutsideIs DEF Free
  <2>2. \A k : k \in ands <=> k \in i .. j /\ Free(c, "and", i, k)
    BY <1>0, OutsideIs DEF Free
  <2>3. C!Split(c, i, j, g) =
            IF ors # {} THEN {x \cup y : x \in g[<<i, C!Last(ors) - 1>>], y \in g[<<C!Last(ors) + 1, j>>]}
            ELSE IF ands # {} THEN {x \cap y : x \in g[<<i, C!Last(ands) - 1>>], y \in g[<<C!Last(ands) + 1, j>>]}
            ELSE C!SimpleMeans(c, i, j, g)
    BY <1>2 DEF C!Split
  <2> HIDE DEF ors, ands
  <2>4. ASSUME NEW m \in i .. j
        PROVE  g[<<i, m - 1>>] = Exprs(c, i, m - 1) /\ g[<<m + 1, j>>] = Exprs(c, m + 1, j)
    <3>1. m - 1 \in 0 .. Len(c) /\ m + 1 \in 1 .. Len(c) + 1 /\ (m - 1) - i < j - i /\ j - (m + 1) < j - i
      BY <1>0, <2>0
    <3> QED
      BY <3>1 DEF Knows
  <2>5. CASE ors # {}
    <3>1. ors \subseteq i .. j
      BY <2>1
    <3>2. PICK m : m = C!Last(ors)
      OBVIOUS
    <3>3. m \in ors /\ \A k \in ors : k <= m
      BY <1>0, <2>5, <3>1, <3>2, LastIs
    <3>4. m \in i .. j /\ Free(c, "or", i, m)
      BY <2>1, <3>3
    <3>5. \A k \in m + 1 .. j : ~Free(c, "or", i, k)
      <4> SUFFICES ASSUME NEW k \in m + 1 .. j, Free(c, "or", i, k) PROVE FALSE
        OBVIOUS
      <4>1. k \in i .. j /\ ~(k <= m)
        BY <1>0, <3>4
      <4> QED
        BY <2>1, <3>3, <4>1
    <3>6. Exprs(c, i, j) = {x \cup y : x \in Exprs(c, i, m - 1), y \in Exprs(c, m + 1, j)}
      BY <2>0, <3>4, <3>5, OrSplit
    <3> QED
      BY <2>3, <2>4, <2>5, <3>2, <3>4, <3>6
  <2>6. CASE ors = {} /\ ands # {}
    <3>1. ands \subseteq i .. j
      BY <2>2
    <3>2. PICK m : m = C!Last(ands)
      OBVIOUS
    <3>3. m \in ands /\ \A k \in ands : k <= m
      BY <1>0, <2>6, <3>1, <3>2, LastIs
    <3>4. m \in i .. j /\ Free(c, "and", i, m)
      BY <2>2, <3>3
    <3>5. \A k \in m + 1 .. j : ~Free(c, "and", i, k)
      <4> SUFFICES ASSUME NEW k \in m + 1 .. j, Free(c, "and", i, k) PROVE FALSE
        OBVIOUS
      <4>1. k \in i .. j /\ ~(k <= m)
        BY <1>0, <3>4
      <4> QED
        BY <2>2, <3>3, <4>1
    <3>6. \A k \in i .. j : ~Free(c, "or", i, k)
      BY <2>1, <2>6
    <3>7. Exprs(c, i, j) = {x \cap y : x \in Exprs(c, i, m - 1), y \in Exprs(c, m + 1, j)}
      BY <2>0, <3>4, <3>5, <3>6, AndSplit
    <3> QED
      BY <2>3, <2>4, <2>6, <3>2, <3>4, <3>7
  <2>7. CASE ors = {} /\ ands = {}
    <3>1. \A k \in i .. j : ~Free(c, "or", i, k) /\ ~Free(c, "and", i, k)
      BY <2>1, <2>2, <2>7
    <3>2. C!SimpleMeans(c, i, j, g) = Exprs(c, i, j)
      BY <2>0, <3>1, SimpleIs
    <3> QED
      BY <2>3, <2>7, <3>2
  <2> QED
    BY <2>5, <2>6, <2>7
<1> QED
  BY <1>1, <1>2

\* What a condition means is what the grammar derives.
LEMMA MeansIsGrammar ==
    ASSUME NEW c, Valid(c)
    PROVE  C!Means(c) = Exprs(c, 1, Len(c))
<1> DEFINE D == (1 .. Len(c) + 1) \X (0 .. Len(c))
           g == [s \in D |-> Exprs(c, s[1], s[2])]
           F == C!Senses(c)
           T == {n \in Nat : Knows(c, F, n - Len(c) - 1)}
<1>0. Len(c) \in Nat \ {0}
  BY ValidWords
<1>1. \A s \in D : s = <<s[1], s[2]>> /\ s[1] \in 1 .. Len(c) + 1 /\ s[2] \in 0 .. Len(c)
  OBVIOUS
<1>2. \A a \in 1 .. Len(c) + 1, b \in 0 .. Len(c) : <<a, b>> \in D /\ <<a, b>>[1] = a /\ <<a, b>>[2] = b
  OBVIOUS
<1>3. \A s \in D : g[s] = Exprs(c, s[1], s[2])
  OBVIOUS
<1>4. \A n : Knows(c, g, n)
  BY <1>2, <1>3 DEF Knows
<1>5. \A s \in D : C!Split(c, s[1], s[2], g) = Exprs(c, s[1], s[2])
  <2> SUFFICES ASSUME NEW s \in D PROVE C!Split(c, s[1], s[2], g) = Exprs(c, s[1], s[2])
    OBVIOUS
  <2>1. s[1] \in 1 .. Len(c) + 1 /\ s[2] \in 0 .. Len(c) /\ Knows(c, g, s[2] - s[1])
    BY <1>1, <1>4
  <2> HIDE DEF g, D
  <2> QED
    BY <2>1, SplitIs
<1>6. g = [s \in D |-> C!Split(c, s[1], s[2], g)]
  BY <1>5
<1> HIDE DEF g
<1>7. F = [s \in D |-> C!Split(c, s[1], s[2], F)]
  BY <1>6 DEF C!Senses
<1> HIDE DEF F
<1>8. \A a \in 1 .. Len(c) + 1, b \in 0 .. Len(c) : F[<<a, b>>] = C!Split(c, a, b, F)
  <2>1. \A s \in D : F[s] = C!Split(c, s[1], s[2], F)
    BY <1>7
  <2> HIDE DEF D
  <2> QED
    BY <1>2, <2>1
<1>9. 0 \in T
  <2>1. \A a \in 1 .. Len(c) + 1, b \in 0 .. Len(c) : ~(b - a < 0 - Len(c) - 1)
    BY <1>0
  <2> QED
    BY <2>1 DEF Knows
<1>10. ASSUME NEW n \in Nat, n \in T PROVE n + 1 \in T
  <2>1. Knows(c, F, n - Len(c) - 1)
    BY <1>10
  <2>2. ASSUME NEW a \in 1 .. Len(c) + 1, NEW b \in 0 .. Len(c), b - a < (n + 1) - Len(c) - 1
        PROVE  F[<<a, b>>] = Exprs(c, a, b)
    <3>1. b - a <= n - Len(c) - 1
      BY <1>0, <2>2
    <3>2. Knows(c, F, b - a)
      <4> SUFFICES ASSUME NEW p \in 1 .. Len(c) + 1, NEW q \in 0 .. Len(c), q - p < b - a
                   PROVE  F[<<p, q>>] = Exprs(c, p, q)
        BY DEF Knows
      <4>1. q - p < n - Len(c) - 1
        BY <1>0, <3>1
      <4> QED
        BY <2>1, <4>1 DEF Knows
    <3>3. C!Split(c, a, b, F) = Exprs(c, a, b)
      BY <3>2, SplitIs
    <3> QED
      BY <1>8, <3>3
  <2>3. Knows(c, F, (n + 1) - Len(c) - 1)
    BY <2>2 DEF Knows
  <2> QED
    BY <2>3
<1> HIDE DEF T
<1>11. Nat \subseteq T
  BY <1>9, <1>10, Climb
<1>12. 2 * Len(c) + 1 \in T
  BY <1>0, <1>11
<1>13. Knows(c, F, (2 * Len(c) + 1) - Len(c) - 1)
  BY <1>12 DEF T
<1>14. 1 \in 1 .. Len(c) + 1 /\ Len(c) \in 0 .. Len(c) /\ Len(c) - 1 < (2 * Len(c) + 1) - Len(c) - 1
  BY <1>0
<1>15. F[<<1, Len(c)>>] = Exprs(c, 1, Len(c))
  BY <1>13, <1>14 DEF Knows
<1> QED
  BY <1>15 DEF C!Means, F

\* The conditions enumerated are sequences of words within their bound.
LEMMA ConditionInit == C!Init => C!TypeOK
BY ConditionAssumption DEF C!Init, C!TypeOK

\* Adding a word, and building on a condition, keep to the words and the bound.
LEMMA ConditionStep == ASSUME C!TypeOK, [C!Next]_(C!vars) PROVE C!TypeOK'
<1>0. condition \in Seq(C!Words) /\ Len(condition) \in Nat /\ Len(condition) <= MaxLong /\ MaxLong \in Nat /\ MaxWords \in Nat /\ MaxWords <= MaxLong
  BY ConditionAssumption DEF C!TypeOK
<1>1. CASE UNCHANGED C!vars
  BY <1>1 DEF C!vars, C!TypeOK
<1>2. ASSUME NEW w \in C!Words, C!AddWord(w) PROVE C!TypeOK'
  <2>1. condition' = Append(condition, w) /\ Len(condition) < MaxWords
    BY <1>2 DEF C!AddWord
  <2>2. condition' \in Seq(C!Words) /\ Len(condition') = Len(condition) + 1
    BY <1>0, <2>1
  <2> QED
    BY <1>0, <2>1, <2>2 DEF C!TypeOK
<1>3. CASE C!Build
  <2>0. Len(condition) + 2 <= MaxLong
    BY <1>0, <1>3 DEF C!Build
  <2>1. {"not", "(", ")", "and", "or"} \subseteq C!Words /\ Names \subseteq C!Words
    BY DEF C!Words, C!Keyword, C!Ident
  <2>2. \A s, t \in Seq(C!Words) : s \o t \in Seq(C!Words) /\ Len(s \o t) = Len(s) + Len(t)
    OBVIOUS
  <2>3. \A v, w \in C!Words : /\ <<v>> \in Seq(C!Words) /\ Len(<<v>>) = 1
                              /\ <<v, w>> \in Seq(C!Words) /\ Len(<<v, w>>) = 2
    OBVIOUS
  <2>4. CASE condition' = <<"not">> \o condition
    <3>1. <<"not">> \in Seq(C!Words) /\ Len(<<"not">>) = 1
      BY <2>1, <2>3
    <3>2. condition' \in Seq(C!Words) /\ Len(condition') = 1 + Len(condition)
      BY <1>0, <2>2, <2>4, <3>1
    <3> QED
      BY <1>0, <2>0, <3>2 DEF C!TypeOK
  <2>5. CASE condition' = <<"(">> \o condition \o <<")">>
    <3>1. <<"(">> \in Seq(C!Words) /\ Len(<<"(">>) = 1 /\ <<")">> \in Seq(C!Words) /\ Len(<<")">>) = 1
      BY <2>1, <2>3
    <3>2. <<"(">> \o condition \in Seq(C!Words) /\ Len(<<"(">> \o condition) = 1 + Len(condition)
      BY <1>0, <2>2, <3>1
    <3>3. condition' \in Seq(C!Words) /\ Len(condition') = (1 + Len(condition)) + 1
      BY <2>2, <2>5, <3>1, <3>2
    <3> QED
      BY <1>0, <2>0, <3>3 DEF C!TypeOK
  <2>6. ASSUME NEW op \in {"and", "or"}, NEW n \in Names, condition' \in {condition \o <<op, n>>, <<n, op>> \o condition}
        PROVE  C!TypeOK'
    <3>1. <<op, n>> \in Seq(C!Words) /\ Len(<<op, n>>) = 2 /\ <<n, op>> \in Seq(C!Words) /\ Len(<<n, op>>) = 2
      BY <2>1, <2>3
    <3>2. condition' \in Seq(C!Words) /\ Len(condition') = Len(condition) + 2
      <4>1. CASE condition' = condition \o <<op, n>>
        BY <1>0, <2>2, <3>1, <4>1
      <4>2. CASE condition' = <<n, op>> \o condition
        <5>1. condition' \in Seq(C!Words) /\ Len(condition') = 2 + Len(condition)
          BY <1>0, <2>2, <3>1, <4>2
        <5> QED
          BY <1>0, <5>1
      <4> QED
        BY <2>6, <4>1, <4>2
    <3> QED
      BY <1>0, <2>0, <3>2 DEF C!TypeOK
  <2> QED
    BY <1>3, <2>4, <2>5, <2>6 DEF C!Build
<1> QED
  BY <1>1, <1>2, <1>3 DEF C!Next

\* The parser agrees with the grammar about every condition.
LEMMA ConditionPromise == C!TypeOK => C!ParseAgrees
<1> SUFFICES ASSUME C!TypeOK, C!Validate(condition), NEW matched \in SUBSET Names
             PROVE  C!ConditionHolds(condition, matched) <=> \E node \in C!Means(condition) : matched \in node
  BY DEF C!ParseAgrees
<1>1. PICK c : c = condition
  OBVIOUS
<1>2. Valid(c)
  BY <1>1 DEF Valid, C!TypeOK
<1>3. C!Means(c) = Exprs(c, 1, Len(c))
  BY <1>2, MeansIsGrammar
<1>4. PICK p : p = C!Parse(c)
  OBVIOUS
<1>5. C!ConditionHolds(c, matched) <=> p.ok /\ matched \in p.node
  BY <1>1, <1>4 DEF C!ConditionHolds
<1>6. p.ok => p.node \in Exprs(c, 1, Len(c))
  <2> SUFFICES ASSUME p.ok PROVE p.node \in Exprs(c, 1, Len(c))
    OBVIOUS
  <2>1. <<"e", 1, Len(c), p.node>> \in Grammar(c)
    BY <1>2, <1>4, ParseIsGrammar
  <2>2. p.node \in C!Nodes
    BY <1>2, <2>1, GrammarOrder
  <2> QED
    BY <2>1, <2>2 DEF Exprs
<1>7. \A x \in Exprs(c, 1, Len(c)) : p.ok /\ p.node = x
  BY <1>2, <1>4, ParseIsGrammar DEF Exprs
<1>8. C!ConditionHolds(c, matched) <=> \E node \in C!Means(c) : matched \in node
  BY <1>3, <1>5, <1>6, <1>7
<1> QED
  BY <1>1, <1>8

\* Whatever part moves, a validated condition holds exactly when its grammar says so
\* (ConditionParser.Parse, Node.Evaluate), an event that a loaded file describes is a match
\* (RuleParser, SelectionEvaluator, ModifierRegistry), the tables of the index hold the rules
\* that the list holds (RuleIndexer), and every part's state has its type, for conditions of any
\* length and any files, events, rules and capacities.
THEOREM RulesKept == EngineSpec => []RulesAreKept
<1> DEFINE Inv == LoopInv /\ LoaderInv /\ C!TypeOK /\ MatchInv /\ FileInv /\ IndexInv /\ CounterInv /\ FieldsInv
<1>1. EngineInit => Inv
  BY LoopInit, LoaderInit, ConditionInit, MatchInit, FileInit, IndexInit, CounterInit, FieldsInit DEF EngineInit
<1>2. Inv /\ [EngineNext]_engineVars => Inv'
  <2> SUFFICES ASSUME Inv, [EngineNext]_engineVars PROVE Inv'
    OBVIOUS
  <2>1. /\ [Next]_vars /\ [L!Next]_(L!vars) /\ [C!Next]_(C!vars) /\ [M!Next]_(M!vars)
        /\ [R!Next]_(R!vars) /\ [X!Next]_(X!vars) /\ [N!Next]_(N!vars) /\ [E!Next]_(E!vars)
    BY PartsMove
  <2> QED
    BY <2>1, LoopStep, LoaderStep, ConditionStep, MatchStep, FileStep, IndexStep, CounterStep, FieldsStep
<1>3. Inv => RulesAreKept
  <2> SUFFICES ASSUME Inv PROVE RulesAreKept
    OBVIOUS
  <2>1. TypeOK /\ L!TypeOK /\ M!TypeOK /\ N!TypeOK /\ E!TypeOK
    BY LoopTypes, CounterTypes, FieldsPromise DEF LoaderInv, MatchInv
  <2>2. C!ParseAgrees /\ R!TypeOK /\ R!NothingMissed /\ X!TypeOK /\ X!IndexAgrees
    BY ConditionPromise, FilePromise, IndexPromise
  <2> QED
    BY <2>1, <2>2 DEF RulesAreKept, TypesHold
<1> HIDE DEF Inv
<1> QED
  BY <1>1, <1>2, <1>3, PTL DEF EngineSpec
=============================================================================
