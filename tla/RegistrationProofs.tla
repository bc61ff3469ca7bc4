-------------------------- MODULE RegistrationProofs --------------------------
(***************************************************************************)
(* What add_server() of the server makes of a registration that is all     *)
(* there when it begins, for every directory, buffer and size_t.           *)
(***************************************************************************)
EXTENDS SessionProofs

(***************************************************************************)
(* The lines of a directory one after the other, and the bytes of the      *)
(* first i of them.                                                        *)
(***************************************************************************)
LineOf(d, i) == [k \in 1..d[i] |-> <<i, k>>] \o <<Newline>>
LinesOf(d) == [i \in 1..Len(d) |-> LineOf(d, i)]

Joined(seqs) ==
  LET flatten[i \in 1..Len(seqs)] ==
        IF i = 1 THEN seqs[i] ELSE flatten[i-1] \o seqs[i]
  IN flatten

Upto(d, i) == IF i = 0 THEN 0 ELSE Len(Joined(LinesOf(d))[i])

-----------------------------------------------------------------------------
(***************************************************************************)
(* The invariant: where ReadName is in the names, and what is in its       *)
(* buffer behind the place of the last one.                                *)
(***************************************************************************)
NoLonger == \A i \in 1..Len(names) : names[i] <= names[Len(names)]

(* The first i lines were read and stored as they are; behind the place of *)
(* the longest name the buffer has nothing but the NUL of such a name.     *)
AtLine(i) ==
  /\ reg.eaten = Width + Upto(names, i)
  /\ reg.bytes_read = Upto(names, i) - i
  /\ reg.names = {Name(j) : j \in 1..i}
  /\ NoLonger =>
       \A k \in 1..Len(reg.buffer) : k > names[Len(names)] => reg.buffer[k] = Nul

(* Nothing is left; what ReadName stores from now on is the last name.     *)
AllRead ==
  /\ reg.eaten = Len(Sent[names])
  /\ \A i \in 1..(Len(names) - 1) : Name(i) \in reg.names
  /\ NoLonger =>
       /\ reg.names = {Name(i) : i \in 1..Len(names)}
       /\ UpToNul(reg.buffer) = Name(Len(names))

Cells == (Int \X Int) \cup {Nul, Newline}

Prompt ==
  /\ job.step = "names"
  /\ arrived = StreamLen(req)
  /\ names # <<>> =>
       /\ reg.size = Len(Text[names])
       /\ reg.buffer \in Seq(Cells)
       /\ AllRead \/ \E i \in 0..(Len(names) - 1) : AtLine(i)

Untouched ==
  /\ reg.names = {} /\ reg.bytes_read = 0 /\ reg.buffer = <<>> /\ reg.pushed = 0
  /\ prompt = FALSE

RegistrationInv ==
  /\ names \in Dirs
  /\ req.verb = "ADD_SERVER" => req.more = Len(Sent[names])
  /\ job.step # "names" => Untouched
  /\ prompt => Prompt
  /\ reg.pushed = 1 /\ prompt /\ names # <<>> => AllRead

-----------------------------------------------------------------------------
(***************************************************************************)
(* The text.  FlattenSeq is what it is meant to be: a recursive function   *)
(* over 1..n exists for each n, since one for a least n without it could   *)
(* be made of the one before.                                              *)
(***************************************************************************)
LEMMA JoinedExists ==
  ASSUME NEW seqs, NEW n \in Nat
  PROVE  \E f : f = [i \in 1..n |-> IF i = 1 THEN seqs[i] ELSE f[i-1] \o seqs[i]]
<1> DEFINE Has(m) == \E f : f = [i \in 1..m |-> IF i = 1 THEN seqs[i] ELSE f[i-1] \o seqs[i]]
           T == {m \in Nat : ~Has(m)}
<1>1. SUFFICES ASSUME T # {} PROVE FALSE  OBVIOUS
<1>2. PICK m \in T : \A y \in T : m <= y
  <2>1. T \in SUBSET Nat  OBVIOUS
  <2> HIDE DEF T
  <2> QED  BY <1>1, <2>1, LeastNatural
<1>3. m \in Nat /\ ~Has(m)  OBVIOUS
<1>4. CASE m = 0
  <2>1. 1..0 = {}  OBVIOUS
  <2> DEFINE f == [i \in {} |-> 0]
  <2>2. f = [i \in 1..0 |-> IF i = 1 THEN seqs[i] ELSE f[i-1] \o seqs[i]]  BY <2>1
  <2> HIDE DEF f
  <2>3. Has(0)  BY <2>2
  <2> QED  BY <1>3, <1>4, <2>3
<1>5. CASE m > 0
  <2>1. m - 1 \in Nat /\ ~(m <= m - 1)  BY <1>3, <1>5
  <2>2. Has(m - 1)  BY <1>2, <2>1
  <2>3. PICK f : f = [i \in 1..(m-1) |-> IF i = 1 THEN seqs[i] ELSE f[i-1] \o seqs[i]]
    BY <2>2
  <2> DEFINE g == [i \in 1..m |-> IF i = m THEN (IF i = 1 THEN seqs[i] ELSE f[i-1] \o seqs[i])
                                  ELSE f[i]]
  <2>4. \A i \in 1..m : g[i] = IF i = 1 THEN seqs[i] ELSE g[i-1] \o seqs[i]
    <3> SUFFICES ASSUME NEW i \in 1..m
                 PROVE  g[i] = IF i = 1 THEN seqs[i] ELSE g[i-1] \o seqs[i]
      OBVIOUS
    <3>1. i # 1 => i - 1 \in 1..m /\ i - 1 # m  BY <1>3
    <3>2. i # 1 => g[i-1] = f[i-1]  BY <3>1
    <3>3. i # m => i \in 1..(m-1)  BY <1>3
    <3>4. i # m => f[i] = IF i = 1 THEN seqs[i] ELSE f[i-1] \o seqs[i]
      BY <2>3, <3>3
    <3>5. g[i] = IF i = 1 THEN seqs[i] ELSE f[i-1] \o seqs[i]  BY <3>4
    <3> HIDE DEF g
    <3> QED  BY <3>2, <3>5
  <2>5. g = [i \in 1..m |-> IF i = 1 THEN seqs[i] ELSE g[i-1] \o seqs[i]]
    <3> DEFINE h == [i \in 1..m |-> IF i = 1 THEN seqs[i] ELSE g[i-1] \o seqs[i]]
    <3>1. \A i \in 1..m : h[i] = IF i = 1 THEN seqs[i] ELSE g[i-1] \o seqs[i]
      OBVIOUS
    <3>2. DOMAIN g = 1..m /\ DOMAIN h = 1..m  OBVIOUS
    <3>3. g = [i \in 1..m |-> g[i]] /\ h = [i \in 1..m |-> h[i]]  OBVIOUS
    <3> HIDE DEF g, h
    <3>4. \A i \in 1..m : g[i] = h[i]  BY <2>4, <3>1
    <3>5. g = h  BY <3>3, <3>4
    <3> QED  BY <3>5 DEF h
  <2> HIDE DEF g
  <2>6. Has(m)  BY <2>5
  <2> QED  BY <1>3, <2>6
<1> QED  BY <1>3, <1>4, <1>5

(* FlattenSeq adds one line after the other. *)
LEMMA JoinedFacts ==
  ASSUME NEW S, NEW seqs \in Seq(S)
  PROVE  /\ \A i \in 1..Len(seqs) :
              Joined(seqs)[i] = IF i = 1 THEN seqs[i] ELSE Joined(seqs)[i-1] \o seqs[i]
         /\ seqs # <<>> => FlattenSeq(seqs) = Joined(seqs)[Len(seqs)]
<1> DEFINE n == Len(seqs)
<1>1. n \in Nat /\ (seqs # <<>> => n # 0)  BY EmptySeq, LenProperties
<1>2. Joined(seqs) = CHOOSE f : f = [i \in 1..n |-> IF i = 1 THEN seqs[i] ELSE f[i-1] \o seqs[i]]
  BY DEF Joined
<1>3. FlattenSeq(seqs) =
        IF n = 0 THEN seqs
        ELSE (CHOOSE f : f = [i \in 1..n |-> IF i = 1 THEN seqs[i] ELSE f[i-1] \o seqs[i]])[n]
  BY DEF FlattenSeq
<1> HIDE DEF n
<1>4. \E f : f = [i \in 1..n |-> IF i = 1 THEN seqs[i] ELSE f[i-1] \o seqs[i]]
  BY <1>1, JoinedExists
<1> DEFINE j == Joined(seqs)
<1>5. j = [i \in 1..n |-> IF i = 1 THEN seqs[i] ELSE j[i-1] \o seqs[i]]
  BY <1>2, <1>4
<1>6. seqs # <<>> => FlattenSeq(seqs) = j[n]  BY <1>1, <1>2, <1>3
<1> HIDE DEF j
<1>7. \A i \in 1..n : j[i] = IF i = 1 THEN seqs[i] ELSE j[i-1] \o seqs[i]
  BY <1>5
<1> QED  BY <1>6, <1>7 DEF j, n

LEMMA CellsApart ==
  /\ Nul # Newline
  /\ \A i, k \in Int : <<i, k>> # Nul /\ <<i, k>> # Newline /\ <<i, k>> \in Cells
  /\ Nul \in Cells /\ Newline \in Cells
<1>1. Nul # Newline  BY DEF Nul, Newline
<1>2. \A i, k \in Int : Len(<<i, k>>) = 2 /\ Len(Nul) = 1 /\ Len(Newline) = 1
  BY DEF Nul, Newline
<1>3. \A i, k \in Int : <<i, k>> # Nul /\ <<i, k>> # Newline
  <2> SUFFICES ASSUME NEW i \in Int, NEW k \in Int
               PROVE  <<i, k>> # Nul /\ <<i, k>> # Newline
    OBVIOUS
  <2>1. Len(<<i, k>>) # Len(Nul) /\ Len(<<i, k>>) # Len(Newline)  BY <1>2
  <2> QED  BY <2>1
<1>4. \A i, k \in Int : <<i, k>> \in Cells  BY DEF Cells
<1> QED  BY <1>1, <1>3, <1>4 DEF Cells

LEMMA DirFacts ==
  ASSUME NEW d \in Dirs
  PROVE  /\ Len(d) \in Nat /\ (d # <<>> => Len(d) # 0)
         /\ \A i \in 1..Len(d) : d[i] \in Nat \ {0}
<1>1. d \in Seq(Nat \ {0})  BY DirsAssumption
<1>2. \A i \in 1..Len(d) : d[i] \in Nat \ {0}  BY <1>1, ElementOfSeq
<1> QED  BY <1>1, <1>2, EmptySeq, LenProperties

LEMMA LineFacts ==
  ASSUME NEW d \in Dirs, NEW i \in 1..Len(d)
  PROVE  /\ LineOf(d, i) \in Seq(Cells) /\ Len(LineOf(d, i)) = d[i] + 1
         /\ \A k \in 1..d[i] : LineOf(d, i)[k] = <<i, k>>
         /\ LineOf(d, i)[d[i] + 1] = Newline
<1> DEFINE n == d[i]
           s == [k \in 1..n |-> <<i, k>>]
           t == <<Newline>>
<1>1. n \in Nat /\ i \in Int  BY DirFacts
<1> HIDE DEF n
<1>2. s \in Seq(Cells) /\ Len(s) = n /\ \A k \in 1..n : s[k] = <<i, k>>
  <2>1. \A k \in 1..n : <<i, k>> \in Cells  BY <1>1, CellsApart
  <2> QED  BY <1>1, <2>1
<1>3. t \in Seq(Cells) /\ Len(t) = 1 /\ t[1] = Newline
  <2> HIDE DEF Newline, Cells
  <2> QED  BY CellsApart
<1>4. LineOf(d, i) = s \o t  BY DEF LineOf, n
<1> HIDE DEF s, t
<1>5. /\ s \o t \in Seq(Cells) /\ Len(s \o t) = n + 1
      /\ \A k \in 1..n : (s \o t)[k] = s[k]
      /\ (s \o t)[n + 1] = t[1]
  <2>1. /\ s \o t \in Seq(Cells) /\ Len(s \o t) = Len(s) + Len(t)
        /\ \A k \in 1..Len(s) : (s \o t)[k] = s[k]
        /\ \A k \in 1..Len(t) : (s \o t)[Len(s) + k] = t[k]
    <3>1. s \in Seq(Cells) /\ t \in Seq(Cells)  BY <1>2, <1>3
    <3> QED  BY ONLY <3>1, ConcatFacts
  <2>2. 1 \in 1..Len(t)  BY <1>3
  <2>3. (s \o t)[Len(s) + 1] = t[1]  BY <2>1, <2>2
  <2> QED  BY <1>2, <1>3, <2>1, <2>3
<1>6. \A k \in 1..n : (s \o t)[k] = <<i, k>>  BY <1>2, <1>5
<1>7. (s \o t)[n + 1] = Newline  BY <1>3, <1>5
<1> QED  BY <1>4, <1>5, <1>6, <1>7 DEF n

(* The lines up to one, made of those up to the one before. *)
LEMMA JoinedLines ==
  ASSUME NEW d \in Dirs, NEW i \in 1..Len(d)
  PROVE  Joined(LinesOf(d))[i] = IF i = 1 THEN LineOf(d, 1)
                                 ELSE Joined(LinesOf(d))[i - 1] \o LineOf(d, i)
<1>1. LinesOf(d) \in Seq(Seq(Cells)) /\ Len(LinesOf(d)) = Len(d)
      /\ \A k \in 1..Len(d) : LinesOf(d)[k] = LineOf(d, k)
  <2>1. \A k \in 1..Len(d) : LineOf(d, k) \in Seq(Cells)  BY LineFacts
  <2>2. Len(d) \in Nat  BY DirFacts
  <2> QED  BY <2>1, <2>2 DEF LinesOf
<1>2. \A k \in 1..Len(LinesOf(d)) :
        Joined(LinesOf(d))[k] = IF k = 1 THEN LinesOf(d)[k]
                                ELSE Joined(LinesOf(d))[k-1] \o LinesOf(d)[k]
  BY <1>1, JoinedFacts
<1> QED  BY <1>1, <1>2

LEMMA JoinedTyped ==
  ASSUME NEW d \in Dirs, NEW i \in 1..Len(d)
  PROVE  Joined(LinesOf(d))[i] \in Seq(Cells)
<1> DEFINE J == Joined(LinesOf(d))
           T == {m \in 1..Len(d) : J[m] \notin Seq(Cells)}
<1>1. Len(d) \in Nat  BY DirFacts
<1>2. SUFFICES ASSUME T # {} PROVE FALSE  OBVIOUS
<1>3. PICK m \in T : \A y \in T : m <= y
  <2>1. T \in SUBSET Nat  BY <1>1
  <2> HIDE DEF T
  <2> QED  BY <1>2, <2>1, LeastNatural
<1>4. m \in 1..Len(d) /\ J[m] \notin Seq(Cells)  OBVIOUS
<1>5. J[m] = IF m = 1 THEN LineOf(d, 1) ELSE J[m - 1] \o LineOf(d, m)
  BY <1>4, JoinedLines
<1>6. LineOf(d, m) \in Seq(Cells)  BY <1>4, LineFacts
<1>7. CASE m = 1  BY <1>4, <1>5, <1>6, <1>7
<1>8. CASE m # 1
  <2>1. m - 1 \in 1..Len(d) /\ ~(m <= m - 1)  BY <1>1, <1>4, <1>8
  <2>2. J[m - 1] \in Seq(Cells)  BY <1>3, <2>1
  <2> HIDE DEF J
  <2> QED  BY <1>4, <1>5, <1>6, <1>8, <2>2, ConcatProperties
<1> QED  BY <1>7, <1>8

(* Line i begins behind the bytes of those before it. *)
LEMMA UptoFacts ==
  ASSUME NEW d \in Dirs, NEW i \in 1..Len(d)
  PROVE  /\ Upto(d, i - 1) \in Nat /\ Upto(d, i) = Upto(d, i - 1) + d[i] + 1
         /\ Upto(d, i) = Len(Joined(LinesOf(d))[i])
         /\ \A k \in 1..Upto(d, i - 1) :
              Joined(LinesOf(d))[i][k] = Joined(LinesOf(d))[i - 1][k]
         /\ \A k \in 1..d[i] :
              Joined(LinesOf(d))[i][Upto(d, i - 1) + k] = <<i, k>>
         /\ Joined(LinesOf(d))[i][Upto(d, i)] = Newline
<1> DEFINE J == Joined(LinesOf(d))
           u == Upto(d, i - 1)
           w == LineOf(d, i)
           n == d[i]
<1>1. Len(d) \in Nat /\ n \in Nat  BY DirFacts
<1>2. /\ w \in Seq(Cells) /\ Len(w) = n + 1
      /\ \A k \in 1..n : w[k] = <<i, k>>
      /\ w[n + 1] = Newline
  BY LineFacts
<1>3. J[i] = IF i = 1 THEN LineOf(d, 1) ELSE J[i - 1] \o w  BY JoinedLines
<1>4. Upto(d, i) = Len(J[i])  BY <1>1 DEF Upto
<1>5. CASE i = 1
  <2>1. u = 0 /\ J[i] = w  BY <1>3, <1>5 DEF Upto
  <2> HIDE DEF J, u, w, n
  <2> QED  BY <1>1, <1>2, <1>4, <2>1 DEF J, u, n
<1>6. CASE i # 1
  <2>1. i - 1 \in 1..Len(d) /\ i - 1 # 0  BY <1>1, <1>6
  <2>2. J[i - 1] \in Seq(Cells) /\ u = Len(J[i - 1])  BY <2>1, JoinedTyped DEF Upto
  <2> DEFINE v == J[i - 1]
  <2>3. v \in Seq(Cells) /\ u = Len(v) /\ u \in Nat /\ J[i] = v \o w
    BY <1>3, <1>6, <2>2, LenProperties
  <2> HIDE DEF J, u, w, n, v
  <2>4. /\ Len(v \o w) = u + (n + 1)
        /\ \A k \in 1..u : (v \o w)[k] = v[k]
        /\ \A k \in 1..(n + 1) : (v \o w)[u + k] = w[k]
    <3>1. /\ Len(v \o w) = Len(v) + Len(w)
          /\ \A k \in 1..Len(v) : (v \o w)[k] = v[k]
          /\ \A k \in 1..Len(w) : (v \o w)[Len(v) + k] = w[k]
      <4>1. v \in Seq(Cells) /\ w \in Seq(Cells)  BY <1>2, <2>3
      <4> QED  BY ONLY <4>1, ConcatFacts
    <3> QED  BY <1>2, <2>3, <3>1
  <2>5. Len(J[i]) = u + (n + 1) /\ \A k \in 1..u : J[i][k] = v[k]  BY <2>3, <2>4
  <2>6. \A k \in 1..n : J[i][u + k] = <<i, k>>
    <3>1. \A k \in 1..n : k \in 1..(n + 1)  BY <1>1
    <3> QED  BY <1>2, <2>3, <2>4, <3>1
  <2>7. J[i][u + (n + 1)] = Newline
    <3>1. n + 1 \in 1..(n + 1)  BY <1>1
    <3> QED  BY <1>2, <2>3, <2>4, <3>1
  <2>8. u + (n + 1) = u + n + 1  BY <1>1, <2>3
  <2>9. Upto(d, i) = u + n + 1  BY <1>4, <2>5, <2>8
  <2> QED  BY <1>4, <2>3, <2>5, <2>6, <2>7, <2>8, <2>9 DEF J, u, n, v
<1> QED  BY <1>5, <1>6

(* Later lines follow those that are there. *)
LEMMA LinesStay ==
  ASSUME NEW d \in Dirs, NEW i \in 1..Len(d), NEW m \in 1..Len(d), i <= m
  PROVE  /\ Upto(d, i) <= Upto(d, m)
         /\ \A k \in 1..Upto(d, i) :
              Joined(LinesOf(d))[m][k] = Joined(LinesOf(d))[i][k]
<1> DEFINE J == Joined(LinesOf(d))
           Stay(n) == /\ Upto(d, i) <= Upto(d, n)
                      /\ \A k \in 1..Upto(d, i) : J[n][k] = J[i][k]
           T == {n \in i..Len(d) : ~Stay(n)}
<1>1. Len(d) \in Nat  BY DirFacts
<1>2. SUFFICES ASSUME T # {} PROVE FALSE
  <2>1. m \in i..Len(d)  BY <1>1
  <2> QED  BY <2>1
<1>3. PICK n \in T : \A y \in T : n <= y
  <2>1. T \in SUBSET Nat  BY <1>1
  <2> HIDE DEF T
  <2> QED  BY <1>2, <2>1, LeastNatural
<1>4. n \in 1..Len(d) /\ i <= n /\ ~Stay(n)  BY <1>1
<1>5. Upto(d, i) \in Nat
  <2>1. d[i] \in Nat  BY DirFacts
  <2>2. Upto(d, i - 1) \in Nat /\ Upto(d, i) = Upto(d, i - 1) + d[i] + 1
    BY UptoFacts
  <2> QED  BY <2>1, <2>2
<1>6. CASE n = i  BY <1>4, <1>5, <1>6
<1>7. CASE n # i
  <2> DEFINE u == Upto(d, n - 1)
  <2>1. n - 1 \in i..Len(d) /\ n - 1 \in 1..Len(d) /\ ~(n <= n - 1)
    BY <1>1, <1>4, <1>7
  <2>2. Stay(n - 1)  BY <1>3, <2>1
  <2>3. /\ u \in Nat /\ Upto(d, n) = u + d[n] + 1 /\ d[n] \in Nat
        /\ \A k \in 1..u : J[n][k] = J[n - 1][k]
    BY <1>4, UptoFacts, DirFacts
  <2>4. Upto(d, i) <= u /\ \A k \in 1..Upto(d, i) : J[n - 1][k] = J[i][k]
    BY <2>2
  <2> HIDE DEF u, J
  <2>5. Upto(d, i) <= Upto(d, n)  BY <1>5, <2>3, <2>4
  <2>6. \A k \in 1..Upto(d, i) : J[n][k] = J[i][k]
    <3>1. \A k \in 1..Upto(d, i) : k \in 1..u  BY <1>5, <2>3, <2>4
    <3> QED  BY <2>3, <2>4, <3>1
  <2> QED  BY <1>4, <2>5, <2>6 DEF J
<1> QED  BY <1>6, <1>7

(* The text: letters, and a newline behind each name but the last. *)
LEMMA TextFacts ==
  ASSUME NEW d \in Dirs, d # <<>>
  PROVE  /\ Text[d] \in Seq(Cells) /\ Len(Text[d]) = Upto(d, Len(d)) - 1
         /\ \A i \in 1..Len(d) :
              /\ Upto(d, i - 1) \in Nat /\ Upto(d, i) = Upto(d, i - 1) + d[i] + 1
              /\ Upto(d, i) <= Upto(d, Len(d))
              /\ \A k \in 1..d[i] : Text[d][Upto(d, i - 1) + k] = <<i, k>>
              /\ i < Len(d) => Text[d][Upto(d, i)] = Newline
<1> DEFINE n == Len(d)
           J == Joined(LinesOf(d))
           F == J[n]
           m == Upto(d, n)
<1>1. n \in Nat /\ n # 0 /\ n \in 1..n  BY DirFacts
<1>2. FlattenSeq(LinesOf(d)) = F
  <2>1. LinesOf(d) \in Seq(Seq(Cells)) /\ Len(LinesOf(d)) = n
    <3>1. \A k \in 1..n : LineOf(d, k) \in Seq(Cells)  BY LineFacts
    <3> QED  BY <1>1, <3>1 DEF LinesOf
  <2>2. LinesOf(d) # <<>>  BY <1>1, <2>1, EmptySeq
  <2>3. FlattenSeq(LinesOf(d)) = Joined(LinesOf(d))[Len(LinesOf(d))]
    BY ONLY <2>1, <2>2, JoinedFacts
  <2> QED  BY <2>1, <2>3
<1>3. F \in Seq(Cells) /\ Len(F) = m
  <2> HIDE DEF n
  <2>1. n \in 1..Len(d)  BY <1>1 DEF n
  <2> QED  BY <2>1, JoinedTyped, UptoFacts
<1>4. m \in Nat /\ m > 0
  <2>1. Upto(d, n - 1) \in Nat /\ m = Upto(d, n - 1) + d[n] + 1 /\ d[n] \in Nat
    BY <1>1, UptoFacts, DirFacts
  <2> QED  BY <2>1
<1>5. Text[d] = SubSeq(F, 1, m - 1)
  <2>1. Text[d] = LET lines == FlattenSeq(LinesOf(d))
                  IN IF lines = <<>> THEN lines ELSE Front(lines)
    BY DEF Text, LinesOf, LineOf
  <2>2. F # <<>>  BY <1>3, <1>4, EmptySeq
  <2> HIDE DEF F, m
  <2> QED  BY <1>2, <1>3, <2>1, <2>2 DEF Front
<1> HIDE DEF F, m
<1>6. /\ Text[d] \in Seq(Cells) /\ Len(Text[d]) = m - 1
      /\ \A k \in 1..(m - 1) : Text[d][k] = F[k]
  <2>1. m - 1 \in Nat /\ m - 1 <= Len(F) /\ (m - 1 = 0 \/ 1 <= m - 1)
    BY <1>3, <1>4
  <2>2. \A k \in 1..(m - 1) : F[k] \in Cells  BY <1>3, <2>1
  <2> QED  BY <1>3, <1>5, <2>1, <2>2, SubSeqProperties
<1>7. ASSUME NEW i \in 1..n
      PROVE  /\ Upto(d, i - 1) \in Nat /\ Upto(d, i) = Upto(d, i - 1) + d[i] + 1
             /\ Upto(d, i) <= m
             /\ \A k \in 1..d[i] : Text[d][Upto(d, i - 1) + k] = <<i, k>>
             /\ i < n => Text[d][Upto(d, i)] = Newline
  <2> DEFINE u == Upto(d, i - 1)
             v == Upto(d, i)
  <2>1. /\ u \in Nat /\ v = u + d[i] + 1
        /\ \A k \in 1..d[i] : J[i][u + k] = <<i, k>>
        /\ J[i][v] = Newline
    BY UptoFacts
  <2>2. d[i] \in Nat  BY DirFacts
  <2>3. v <= m /\ \A k \in 1..v : F[k] = J[i][k]
    BY <1>1, LinesStay DEF F, m
  <2>4. i < n => v < m
    <3> SUFFICES ASSUME i < n PROVE v < m  OBVIOUS
    <3>1. i + 1 \in 1..n /\ (i + 1) - 1 = i /\ i + 1 <= n  BY <1>1
    <3>2. Upto(d, i + 1) = v + d[i + 1] + 1 /\ d[i + 1] \in Nat
      BY <3>1, UptoFacts, DirFacts
    <3>3. Upto(d, i + 1) <= m  BY <1>1, <3>1, LinesStay DEF m
    <3> QED  BY <1>4, <2>1, <2>2, <3>2, <3>3
  <2> HIDE DEF u, v, J
  <2>5. \A k \in 1..d[i] : Text[d][u + k] = <<i, k>>
    <3> SUFFICES ASSUME NEW k \in 1..d[i] PROVE Text[d][u + k] = <<i, k>>  OBVIOUS
    <3>1. u + k \in 1..(m - 1) /\ u + k \in 1..v  BY <1>4, <2>1, <2>2, <2>3
    <3> QED  BY <1>6, <2>1, <2>3, <3>1
  <2>6. i < n => Text[d][v] = Newline
    <3> SUFFICES ASSUME i < n PROVE Text[d][v] = Newline  OBVIOUS
    <3>1. v \in 1..(m - 1) /\ v \in 1..v  BY <1>4, <2>1, <2>2, <2>4
    <3> QED  BY <1>6, <2>1, <2>3, <3>1
  <2> QED  BY <2>1, <2>3, <2>5, <2>6 DEF u, v
<1> QED  BY <1>6, <1>7 DEF m, n

-----------------------------------------------------------------------------
(* Division. *)
LEMMA DivFacts ==
  ASSUME NEW n \in Nat, NEW a \in Nat \ {0}
  PROVE  /\ n \div a \in Nat /\ n % a \in 0..(a - 1)
         /\ n = (a * (n \div a)) + (n % a)
  OBVIOUS

LEMMA DivUnique ==
  ASSUME NEW n \in Nat, NEW a \in Nat \ {0}, NEW q \in Nat, NEW r \in 0..(a - 1), n = a * q + r
  PROVE  n \div a = q /\ n % a = r
  OBVIOUS

LEMMA DivSmall ==
  ASSUME NEW a \in Nat \ {0}, NEW n \in 0..(a-1)
  PROVE  n \div a = 0 /\ n % a = n
  OBVIOUS

LEMMA DivDiv ==
  ASSUME NEW n \in Nat, NEW a \in Nat \ {0}, NEW b \in Nat \ {0}
  PROVE  (n \div a) \div b = n \div (b * a)
<1> DEFINE q == n \div a
           r == n % a
           s == q \div b
           t == q % b
<1>1. q \in Nat /\ r \in 0..(a - 1) /\ n = (a * q) + r  BY DivFacts
<1>2. s \in Nat /\ t \in 0..(b - 1) /\ q = (b * s) + t  BY <1>1, DivFacts
<1> HIDE DEF q, r, s, t
<1>3. a * t \in Nat /\ a * t <= a * (b - 1)
  <2>1. t \in Nat /\ b - 1 \in Nat /\ t <= b - 1  BY <1>2
  <2> QED  BY <2>1
<1>4. b * a \in Nat \ {0} /\ a * (b - 1) = (b * a) - a  OBVIOUS
<1>5. (a * t) + r \in 0..((b * a) - 1)  BY <1>1, <1>3, <1>4
<1>6. a * q = ((b * a) * s) + (a * t)
  <2>1. a * ((b * s) + t) = (a * (b * s)) + (a * t)  BY <1>2
  <2>2. a * (b * s) = (b * a) * s  BY <1>2
  <2> QED  BY <1>2, <2>1, <2>2
<1>7. n = ((b * a) * s) + ((a * t) + r)
  <2> DEFINE x == (b * a) * s
             y == a * t
  <2>1. x \in Nat /\ y \in Nat /\ r \in Nat /\ n = (x + y) + r
    BY <1>1, <1>2, <1>3, <1>4, <1>6
  <2> HIDE DEF x, y
  <2>2. n = x + (y + r)  BY <2>1
  <2> QED  BY <2>2 DEF x, y
<1>8. n \div (b * a) = s
  <2> DEFINE c == b * a
             e == (a * t) + r
  <2>1. c \in Nat \ {0} /\ e \in 0..(c - 1) /\ n = (c * s) + e  BY <1>4, <1>5, <1>7
  <2> HIDE DEF c, e
  <2>2. n \div c = s  BY <1>2, <2>1, DivUnique
  <2> QED  BY <2>2 DEF c
<1> QED  BY <1>8 DEF s, q

(* The digits of a size_t determine it. *)
LEMMA DigitsApart ==
  ASSUME NEW n \in DOMAIN Digits, NEW m \in DOMAIN Digits,
         \A i \in 1..Width : Digits[n][i] = Digits[m][i]
  PROVE  n = m
<1> DEFINE Top(k) == Base^(Width - k)
           T == {k \in 0..Width : n \div Top(k) # m \div Top(k)}
<1>1. Width \in Nat /\ Base \in Nat \ {0} /\ Base^Width \in Nat \ {0}
  BY SizeAssumption, PowerAssumption
<1>2. n \in 0..(Base^Width - 1) /\ m \in 0..(Base^Width - 1) /\ n \in Nat /\ m \in Nat
  BY <1>1 DEF Digits
<1>3. \A i \in 1..Width : (n \div Base^(i - 1)) % Base = (m \div Base^(i - 1)) % Base
  BY <1>2 DEF Digits
<1>4. T = {}
  <2> SUFFICES ASSUME T # {} PROVE FALSE  OBVIOUS
  <2>1. PICK k \in T : \A y \in T : k <= y
    <3>1. T \in SUBSET Nat  BY <1>1
    <3> HIDE DEF T
    <3> QED  BY <3>1, LeastNatural
  <2>2. k \in 0..Width /\ n \div Top(k) # m \div Top(k)  OBVIOUS
  <2>3. CASE k = 0
    <3>1. Top(k) = Base^Width  BY <1>1, <2>3
    <3>2. n \div Base^Width = 0 /\ m \div Base^Width = 0  BY <1>1, <1>2, DivSmall
    <3> QED  BY <2>2, <3>1, <3>2
  <2>4. CASE k # 0
    <3> DEFINE i == Width - k + 1
               a == Base^(i - 1)
               p == n \div a
               q == m \div a
    <3>1. i \in 1..Width /\ i - 1 = Width - k /\ i = Width - (k - 1)
      BY <1>1, <2>2, <2>4
    <3>2. a \in Nat \ {0} /\ Base^i = Base * a
      <4>1. Base^i = Base * Base^(i - 1) /\ Base^i \in Nat \ {0}
        BY <3>1, PowerAssumption
      <4>2. i = 1 \/ i - 1 \in 1..Width  BY <1>1, <3>1
      <4>3. a \in Nat \ {0}
        <5>1. CASE i = 1
          <6>1. i - 1 = 0  BY <5>1
          <6>2. a = Base^0  BY <6>1
          <6> QED  BY <6>2, PowerAssumption
        <5>2. CASE i - 1 \in 1..Width  BY <5>2, PowerAssumption
        <5> QED  BY <4>2, <5>1, <5>2
      <4> QED  BY <4>1, <4>3
    <3>3. k - 1 \notin T /\ k - 1 \in 0..Width
      <4>1. ~(k <= k - 1) /\ k - 1 \in 0..Width  BY <1>1, <2>2, <2>4
      <4> QED  BY <2>1, <4>1
    <3>4. n \div Base^i = m \div Base^i  BY <3>1, <3>3
    <3>5. p \div Base = q \div Base
      <4> HIDE DEF a
      <4>1. (n \div a) \div Base = n \div (Base * a)  BY <1>1, <1>2, <3>2, DivDiv
      <4>2. (m \div a) \div Base = m \div (Base * a)  BY <1>1, <1>2, <3>2, DivDiv
      <4> QED  BY <3>2, <3>4, <4>1, <4>2
    <3>6. p % Base = q % Base  BY <1>3, <3>1
    <3>7. p \in Nat /\ q \in Nat  BY <1>2, <3>2, DivFacts
    <3>8. p # q  BY <2>2, <3>1
    <3> HIDE DEF p, q
    <3>9. p = (Base * (p \div Base)) + (p % Base) /\ q = (Base * (q \div Base)) + (q % Base)
      BY <1>1, <3>7, DivFacts
    <3> QED  BY <3>5, <3>6, <3>8, <3>9
  <2> QED  BY <2>3, <2>4
<1>5. Width \notin T /\ Width - Width = 0  BY <1>1, <1>4
<1>6. n \div Base^0 = m \div Base^0  BY <1>1, <1>5
<1>7. n \div 1 = m \div 1  BY <1>6, PowerAssumption
<1> QED  BY <1>2, <1>7

(* What is sent: the digits of the length, and the text. *)
LEMMA SentFacts ==
  ASSUME NEW d \in Dirs, d # <<>>
  PROVE  /\ Sent[d] \in Seq(Cells) /\ Len(Sent[d]) = Width + Len(Text[d])
         /\ \A k \in 1..Len(Text[d]) : Sent[d][Width + k] = Text[d][k]
         /\ Len(Text[d]) \in DOMAIN Digits
<1> DEFINE t == Text[d]
           s == [i \in 1..Width |-> DigitCell(Digits[Len(t)][i])]
<1>1. t \in Seq(Cells) /\ Len(t) \in Nat  BY TextFacts, LenProperties
<1>2. Width \in Nat /\ Base \in Nat \ {0} /\ Base^Width \in Nat \ {0}
  BY SizeAssumption, PowerAssumption
<1>3. Len(t) \in 0..(Base^Width - 1)  BY <1>1, <1>2, TextAssumption
<1>4. s \in Seq(Cells) /\ Len(s) = Width
  <2>1. ASSUME NEW i \in 1..Width PROVE DigitCell(Digits[Len(t)][i]) \in Cells
    <3> DEFINE a == Base^(i - 1)
    <3>1. Digits[Len(t)][i] = (Len(t) \div a) % Base  BY <1>3 DEF Digits
    <3>2. a \in Nat \ {0}
      <4>1. i = 1 \/ i - 1 \in 1..Width  BY <1>2
      <4>2. CASE i = 1
        <5>1. i - 1 = 0  BY <4>2
        <5>2. a = Base^0  BY <5>1
        <5> QED  BY <5>2, PowerAssumption
      <4>3. CASE i - 1 \in 1..Width  BY <4>3, PowerAssumption
      <4> QED  BY <4>1, <4>2, <4>3
    <3>3. Len(t) \div a \in Nat  BY <1>1, <3>2, DivFacts
    <3>4. (Len(t) \div a) % Base \in Int
      <4> DEFINE x == Len(t) \div a
      <4>1. x \in Nat  BY <3>3
      <4> HIDE DEF x
      <4>2. x % Base \in 0..(Base - 1)  BY <1>2, <4>1, DivFacts
      <4>3. x % Base \in Int  BY <1>2, <4>2
      <4> QED  BY <4>3 DEF x
    <3> HIDE DEF a
    <3> QED  BY <3>1, <3>4, CellsApart DEF DigitCell
  <2> QED  BY <1>2, <2>1
<1>5. Sent[d] = s \o t  BY DEF Sent
<1> HIDE DEF s, t
<1>6. /\ s \o t \in Seq(Cells) /\ Len(s \o t) = Len(s) + Len(t)
      /\ \A k \in 1..Len(t) : (s \o t)[Len(s) + k] = t[k]
  <2>1. s \in Seq(Cells) /\ t \in Seq(Cells)  BY <1>1, <1>4
  <2> QED  BY ONLY <2>1, ConcatFacts
<1>7. Len(t) \in DOMAIN Digits  BY <1>3 DEF Digits
<1> QED  BY <1>4, <1>5, <1>6, <1>7 DEF t

-----------------------------------------------------------------------------
(***************************************************************************)
(* What read_line_from_client() and dictionary_set() do to the buffer.     *)
(***************************************************************************)
(* A sequence without its first m elements. *)
LEMMA RestFacts ==
  ASSUME NEW S, NEW t \in Seq(S), NEW m \in Nat
  PROVE  /\ SubSeq(t, m + 1, Len(t)) \in Seq(S)
         /\ Len(SubSeq(t, m + 1, Len(t))) = IF m < Len(t) THEN Len(t) - m ELSE 0
         /\ \A k \in 1..Len(SubSeq(t, m + 1, Len(t))) :
              m + k \in 1..Len(t) /\ SubSeq(t, m + 1, Len(t))[k] = t[m + k]
<1> DEFINE n == Len(t)
           r == SubSeq(t, m + 1, n)
<1>1. n \in Nat  BY LenProperties
<1>2. CASE m < n
  <2>1. m + 1 \in 1..n /\ n \in (m + 1)..n /\ n - (m + 1) + 1 = n - m
    BY <1>1, <1>2
  <2>2. \A k \in (m + 1)..n : t[k] \in S  BY <1>1
  <2>3. r = [k \in 1..(n - m) |-> t[k + (m + 1) - 1]]
    BY <1>1, <2>1
  <2>4. \A k \in 1..(n - m) : k + (m + 1) - 1 = m + k /\ m + k \in (m + 1)..n /\ m + k \in 1..n
    BY <1>1
  <2>5. \A k \in 1..(n - m) : t[k + (m + 1) - 1] \in S  BY <2>2, <2>4
  <2>6. n - m \in Nat  BY <1>1, <1>2
  <2> HIDE DEF r, n
  <2>7. r \in Seq(S) /\ Len(r) = n - m  BY <2>3, <2>5, <2>6
  <2>8. \A k \in 1..Len(r) : m + k \in 1..n /\ r[k] = t[m + k]
    BY <2>3, <2>4, <2>7
  <2> QED  BY <1>2, <2>7, <2>8 DEF r, n
<1>3. CASE ~(m < n)
  <2>1. r = <<>>  BY <1>1, <1>3
  <2>2. <<>> \in Seq(S) /\ Len(<<>>) = 0 /\ 1..0 = {}  OBVIOUS
  <2> HIDE DEF r
  <2>3. r \in Seq(S) /\ Len(r) = 0 /\ 1..Len(r) = {}  BY <2>1, <2>2
  <2> QED  BY <1>3, <2>3 DEF r, n
<1> QED  BY <1>2, <1>3

(* A new line covers the beginning of what is in the buffer. *)
LEMMA OverlayFacts ==
  ASSUME NEW s \in Seq(Cells), NEW t \in Seq(Cells)
  PROVE  /\ Overlay(s, t) \in Seq(Cells) /\ Len(Overlay(s, t)) >= Len(s)
         /\ \A k \in 1..Len(s) : Overlay(s, t)[k] = s[k]
         /\ \A k \in 1..Len(Overlay(s, t)) :
              k > Len(s) => k \in 1..Len(t) /\ Overlay(s, t)[k] = t[k]
<1> DEFINE m == Len(s)
           n == Len(t)
           r == SubSeq(t, m + 1, n)
           o == Overlay(s, t)
<1>1. m \in Nat /\ n \in Nat  BY LenProperties
<1>2. o = s \o r  BY DEF Overlay
<1>3. /\ r \in Seq(Cells)
      /\ \A k \in 1..Len(r) : m + k \in 1..n /\ r[k] = t[m + k]
  BY <1>1, RestFacts
<1> HIDE DEF r, o
<1>4. /\ s \o r \in Seq(Cells) /\ Len(s \o r) = Len(s) + Len(r)
      /\ \A k \in 1..Len(s) : (s \o r)[k] = s[k]
      /\ \A k \in 1..Len(r) : (s \o r)[Len(s) + k] = r[k]
  <2>1. r \in Seq(Cells) /\ s \in Seq(Cells)  BY <1>3
  <2> QED  BY ONLY <2>1, ConcatFacts
<1>5. Len(r) \in Nat  BY <1>3, LenProperties
<1>6. o \in Seq(Cells) /\ Len(o) >= m /\ \A k \in 1..m : o[k] = s[k]
  BY <1>1, <1>2, <1>4, <1>5
<1>7. ASSUME NEW k \in 1..Len(o), k > m
      PROVE  k \in 1..n /\ o[k] = t[k]
  <2> DEFINE l == k - m
  <2>1. l \in 1..Len(r) /\ m + l = k  BY <1>1, <1>2, <1>4, <1>5, <1>7
  <2> HIDE DEF l
  <2>2. o[k] = r[l]  BY <1>2, <1>4, <2>1
  <2>3. k \in 1..n /\ r[l] = t[k]  BY <1>3, <2>1
  <2> QED  BY <2>2, <2>3
<1> QED  BY <1>6, <1>7 DEF o, m, n

(* The cells before the first NUL. *)
LEMMA UpToNulFacts ==
  ASSUME NEW s \in Seq(Cells), NEW n \in Nat, n <= Len(s),
         \A k \in 1..n : s[k] # Nul,
         n < Len(s) => s[n + 1] = Nul
  PROVE  UpToNul(s) = SubSeq(s, 1, n)
<1>1. Len(s) \in Nat  BY LenProperties
<1>2. ToSet(s) = {s[i] : i \in 1..Len(s)}  BY DEF ToSet
<1>3. CASE n < Len(s)
  <2> DEFINE I == {i \in 1..Len(s) : s[i] = Nul}
  <2>1. SelectInSeq(s, LAMBDA x : x = Nul) = IF I # {} THEN Min(I) ELSE 0
    BY DEF SelectInSeq
  <2>2. n + 1 \in I /\ I \in SUBSET Nat /\ \A i \in I : i \in Nat /\ ~(i \in 1..n)
    BY <1>1, <1>3
  <2>3. Nul \in ToSet(s)
    <3>1. n + 1 \in 1..Len(s) /\ s[n + 1] = Nul  BY <1>1, <1>3
    <3> QED  BY <1>2, <3>1
  <2> HIDE DEF I
  <2>4. Min(I) \in I /\ \A i \in I : Min(I) <= i  BY <2>2, MinFacts
  <2>5. Min(I) = n + 1
    <3> DEFINE j == Min(I)
    <3>1. j \in Nat /\ ~(j \in 1..n) /\ j <= n + 1  BY <2>2, <2>4
    <3>2. j # 0
      <4>1. \A i \in I : i # 0  BY DEF I
      <4> QED  BY <2>4, <4>1
    <3> HIDE DEF j
    <3>3. j = n + 1  BY <3>1, <3>2
    <3> QED  BY <3>3 DEF j
  <2>6. SelectInSeq(s, LAMBDA x : x = Nul) - 1 = n  BY <2>1, <2>2, <2>5
  <2> QED  BY <2>3, <2>6 DEF UpToNul
<1>4. CASE n = Len(s)
  <2>1. Nul \notin ToSet(s)  BY <1>2, <1>4
  <2>2. SubSeq(s, 1, n) = s
    <3>1. SubSeq(s, 1, n) = [k \in 1..n |-> s[k]]
      <4>1. \A k \in 1..n : k + 1 - 1 = k  OBVIOUS
      <4>2. SubSeq(s, 1, n) = [k \in 1..n |-> s[k + 1 - 1]]  BY <1>4
      <4> QED  BY <4>1, <4>2
    <3>2. s = [k \in 1..n |-> s[k]]  BY <1>4
    <3> QED  BY <3>1, <3>2
  <2> QED  BY <2>1, <2>2 DEF UpToNul
<1> QED  BY <1>1, <1>3, <1>4

(* The first newline of some cells, and none. *)
LEMMA NewlineAt ==
  ASSUME NEW s, NEW p \in 1..Len(s), s[p] = Newline,
         Len(s) \in Nat, \A k \in 1..(p - 1) : s[k] # Newline
  PROVE  SelectInSeq(s, LAMBDA x : x = Newline) = p
<1> DEFINE I == {i \in 1..Len(s) : s[i] = Newline}
<1>1. SelectInSeq(s, LAMBDA x : x = Newline) = IF I # {} THEN Min(I) ELSE 0
  BY DEF SelectInSeq
<1>2. p \in I /\ I \in SUBSET Nat /\ p \in Nat
      /\ \A i \in I : i \in Nat /\ i # 0 /\ ~(i \in 1..(p - 1))
  OBVIOUS
<1> HIDE DEF I
<1>3. Min(I) \in I /\ Min(I) <= p  BY <1>2, MinFacts
<1> DEFINE j == Min(I)
<1>4. j \in Nat /\ j # 0 /\ ~(j \in 1..(p - 1)) /\ j <= p  BY <1>2, <1>3
<1> HIDE DEF j
<1>5. j = p  BY <1>2, <1>4
<1> QED  BY <1>1, <1>2, <1>5 DEF j

LEMMA NoNewline ==
  ASSUME NEW s, \A k \in 1..Len(s) : s[k] # Newline
  PROVE  SelectInSeq(s, LAMBDA x : x = Newline) = 0
<1> DEFINE I == {i \in 1..Len(s) : s[i] = Newline}
<1>1. SelectInSeq(s, LAMBDA x : x = Newline) = IF I # {} THEN Min(I) ELSE 0
  BY DEF SelectInSeq
<1>2. I = {}  OBVIOUS
<1> QED  BY <1>1, <1>2

-----------------------------------------------------------------------------
(***************************************************************************)
(* The next line of those that wait.                                       *)
(***************************************************************************)
End == SelectInSeq(Waiting, LAMBDA x : x = Newline)
LineRead == IF End = 0 THEN Waiting ELSE Append(SubSeq(Waiting, 1, End - 1), Nul)

(* Behind the size, what waits is the rest of the text. *)
LEMMA WaitingFacts ==
  ASSUME names \in Dirs, names # <<>>, There = Len(Sent[names]),
         NEW u \in 0..Len(Text[names]), reg.eaten = Width + u
  PROVE  /\ Waiting \in Seq(Cells) /\ Len(Waiting) = Len(Text[names]) - u
         /\ \A k \in 1..Len(Waiting) : Waiting[k] = Text[names][u + k]
<1> DEFINE s == Sent[names]
           t == Text[names]
           m == Width + u
<1>1. Width \in Nat /\ u \in Nat /\ Len(t) \in Nat /\ u <= Len(t) /\ m \in Nat
  BY SizeAssumption, TextFacts, LenProperties
<1>2. /\ s \in Seq(Cells) /\ Len(s) = Width + Len(t)
      /\ \A k \in 1..Len(t) : s[Width + k] = t[k]
  BY SentFacts
<1>3. Waiting = SubSeq(s, m + 1, Len(s))  BY DEF Waiting
<1> HIDE DEF s, t, m
<1>4. /\ Waiting \in Seq(Cells)
      /\ Len(Waiting) = IF m < Len(s) THEN Len(s) - m ELSE 0
      /\ \A k \in 1..Len(Waiting) : m + k \in 1..Len(s) /\ Waiting[k] = s[m + k]
  <2> DEFINE r == SubSeq(s, m + 1, Len(s))
  <2>1. /\ r \in Seq(Cells)
        /\ Len(r) = IF m < Len(s) THEN Len(s) - m ELSE 0
        /\ \A k \in 1..Len(r) : m + k \in 1..Len(s) /\ r[k] = s[m + k]
    <3>1. s \in Seq(Cells) /\ m \in Nat  BY <1>1, <1>2
    <3> QED  BY ONLY <3>1, RestFacts
  <2>2. Waiting = r  BY <1>3
  <2> HIDE DEF r
  <2> QED  BY <2>1, <2>2
<1>5. Len(Waiting) = Len(t) - u  BY <1>1, <1>2, <1>4 DEF m
<1>6. ASSUME NEW k \in 1..Len(Waiting) PROVE Waiting[k] = t[u + k]
  <2>1. u + k \in 1..Len(t) /\ m + k = Width + (u + k)  BY <1>1, <1>5 DEF m
  <2> QED  BY <1>2, <1>4, <2>1
<1> QED  BY <1>4, <1>5, <1>6 DEF t

(* At the beginning of line j it is read as it is: up to its newline, or,  *)
(* the last one, up to the end.                                            *)
LEMMA NextLine ==
  ASSUME names \in Dirs, There = Len(Sent[names]),
         NEW j \in 1..Len(names), reg.eaten = Width + Upto(names, j - 1)
  PROVE  /\ LineRead \in Seq(Cells)
         /\ \A k \in 1..names[j] : LineRead[k] = <<j, k>>
         /\ j < Len(names) => /\ End = names[j] + 1 /\ Len(LineRead) = names[j] + 1
                              /\ LineRead[names[j] + 1] = Nul
         /\ j = Len(names) => End = 0 /\ Len(LineRead) = names[j]
<1> DEFINE L == Len(names)
           n == names[j]
           u == Upto(names, j - 1)
           t == Text[names]
           w == Waiting
<1>1. names # <<>> /\ L \in Nat /\ n \in Nat /\ j \in Int
  <2>1. L \in Nat /\ n \in Nat  BY DirFacts
  <2>2. L # 0  BY <2>1
  <2> QED  BY <2>1, <2>2, EmptySeq
<1>2. /\ u \in Nat /\ Upto(names, j) = u + n + 1 /\ Upto(names, j) <= Upto(names, L)
      /\ \A k \in 1..n : t[u + k] = <<j, k>>
      /\ j < L => t[u + n + 1] = Newline
      /\ Len(t) = Upto(names, L) - 1
  BY <1>1, TextFacts
<1>3. j < L => u + n + 1 <= Len(t)
  <2> SUFFICES ASSUME j < L PROVE u + n + 1 <= Len(t)  OBVIOUS
  <2>1. j + 1 \in 1..L /\ (j + 1) - 1 = j  BY <1>1
  <2>2. /\ Upto(names, j + 1) = Upto(names, j) + names[j + 1] + 1
        /\ Upto(names, j + 1) <= Upto(names, L)
    BY <1>1, <2>1, TextFacts
  <2>3. names[j + 1] \in Nat \ {0}  BY <2>1, DirFacts
  <2>4. Upto(names, L) \in Int
    <3>1. L \in 1..L  BY <1>1, <2>1
    <3>2. Upto(names, L - 1) \in Nat /\ Upto(names, L) = Upto(names, L - 1) + names[L] + 1
          /\ names[L] \in Nat
      BY <3>1, UptoFacts, DirFacts
    <3> QED  BY <3>2
  <2> HIDE DEF L, n, u, t
  <2> QED  BY <1>1, <1>2, <2>2, <2>3, <2>4
<1>4. Len(t) \in Nat  BY <1>1, TextFacts, LenProperties
<1>5. u + n <= Len(t)
  <2>1. Upto(names, L) = Len(t) + 1
    <3>1. L \in 1..L  BY <1>1
    <3>2. Upto(names, L - 1) \in Nat /\ Upto(names, L) = Upto(names, L - 1) + names[L] + 1
          /\ names[L] \in Nat
      BY <3>1, UptoFacts, DirFacts
    <3> HIDE DEF t
    <3> QED  BY <1>2, <1>4, <3>2
  <2> HIDE DEF L, n, u, t
  <2> QED  BY <1>1, <1>2, <1>4, <2>1
<1>6. /\ w \in Seq(Cells) /\ Len(w) = Len(t) - u
      /\ \A k \in 1..Len(w) : w[k] = t[u + k]
  <2>1. u \in 0..Len(t)  BY <1>1, <1>2, <1>4, <1>5
  <2> QED  BY <1>1, <2>1, WaitingFacts
<1>7. \A k \in 1..n : k \in 1..Len(w) /\ w[k] = <<j, k>> /\ w[k] # Newline
  <2> HIDE DEF L, n, u, t, w
  <2>1. \A k \in 1..n : k \in 1..Len(w)  BY <1>1, <1>2, <1>4, <1>5, <1>6
  <2>2. \A k \in 1..n : w[k] = <<j, k>>  BY <1>2, <1>6, <2>1
  <2>3. \A k \in 1..n : k \in Int  BY <1>1
  <2>4. \A k \in 1..n : <<j, k>> # Newline  BY <1>1, <2>3, CellsApart
  <2> QED  BY <2>1, <2>2, <2>4
<1>8. CASE j < L
  <2> HIDE DEF L, n, u, t, w
  <2>1. n + 1 \in 1..Len(w) /\ u + (n + 1) = u + n + 1
    BY <1>1, <1>2, <1>3, <1>4, <1>6, <1>8
  <2>2. w[n + 1] = Newline  BY <1>2, <1>6, <1>8, <2>1
  <2>3. \A k \in 1..((n + 1) - 1) : w[k] # Newline  BY <1>1, <1>7
  <2>4. Len(w) \in Nat  BY <1>6, LenProperties
  <2>5. SelectInSeq(w, LAMBDA x : x = Newline) = n + 1
    BY <2>1, <2>2, <2>3, <2>4, NewlineAt
  <2>6. End = n + 1  BY <2>5 DEF End, w
  <2> DEFINE f == SubSeq(w, 1, n)
  <2>7. /\ f \in Seq(Cells) /\ Len(f) = n
        /\ \A k \in 1..n : f[k] = w[k]
    <3>1. n <= Len(w)  BY <1>1, <2>1
    <3>2. \A k \in 1..n : w[k] \in Cells  BY <1>6, <1>7
    <3>3. n = 0 \/ 1 <= n  BY <1>1
    <3> QED  BY <1>1, <1>6, <3>1, <3>2, <3>3, SubSeqProperties
  <2>8. LineRead = Append(f, Nul)  BY <1>1, <2>6 DEF LineRead, w
  <2> HIDE DEF f
  <2>9. /\ Append(f, Nul) \in Seq(Cells) /\ Len(Append(f, Nul)) = n + 1
        /\ \A k \in 1..n : Append(f, Nul)[k] = f[k]
        /\ Append(f, Nul)[n + 1] = Nul
    BY <1>1, <2>7, CellsApart, AppendProperties
  <2>10. /\ LineRead \in Seq(Cells) /\ Len(LineRead) = n + 1 /\ LineRead[n + 1] = Nul
         /\ \A k \in 1..n : LineRead[k] = <<j, k>>
    BY <1>7, <2>7, <2>8, <2>9
  <2>11. j # L  BY <1>1, <1>8
  <2> QED  BY <2>6, <2>10, <2>11 DEF L, n
<1>9. CASE j = L
  <2>1. Len(w) = n
    <3> HIDE DEF t, w, n, u
    <3> QED  BY <1>1, <1>2, <1>4, <1>6, <1>9
  <2> HIDE DEF L, n, u, t, w
  <2>2. \A k \in 1..Len(w) : w[k] # Newline  BY <1>7, <2>1
  <2>3. SelectInSeq(w, LAMBDA x : x = Newline) = 0  BY <2>2, NoNewline
  <2>4. End = 0  BY <2>3 DEF End, w
  <2>5. LineRead = w  BY <2>4 DEF LineRead, w
  <2> QED  BY <1>1, <1>6, <1>7, <1>9, <2>1, <2>4, <2>5 DEF L, n
<1> QED  BY <1>1, <1>8, <1>9

(* What is stored of it, and what is behind it in the buffer. *)
LEMMA NameFacts ==
  ASSUME NEW b \in Seq(Cells), NEW j \in 1..Len(names), names \in Dirs,
         names[j] <= Len(b), \A k \in 1..names[j] : b[k] = <<j, k>>
  PROVE  SubSeq(b, 1, names[j]) = Name(j) /\ \A k \in 1..names[j] : b[k] # Nul
<1> DEFINE n == names[j]
<1>1. n \in Nat /\ j \in Int /\ Len(b) \in Nat
  BY DirFacts, LenProperties
<1>2. SubSeq(b, 1, n) = [k \in 1..n |-> b[k]]
  <2> HIDE DEF n
  <2>1. \A k \in 1..n : k + 1 - 1 = k  BY <1>1
  <2>2. SubSeq(b, 1, n) = [k \in 1..n |-> b[k + 1 - 1]]
    <3>1. n - 1 + 1 = n  BY <1>1
    <3>2. SubSeq(b, 1, n) = [k \in 1..(n - 1 + 1) |-> b[k + 1 - 1]]  BY <1>1
    <3> QED  BY <3>1, <3>2
  <2> QED  BY <2>1, <2>2
<1>3. [k \in 1..n |-> b[k]] = Name(j)  BY DEF Name
<1>4. \A k \in 1..n : k \in Int  BY <1>1
<1>5. \A k \in 1..n : <<j, k>> # Nul  BY <1>1, <1>4, CellsApart
<1> QED  BY <1>2, <1>3, <1>5

(* The buffer after a line: up to its first NUL it is the name; the last   *)
(* name has none, and what is behind it was a longer name or is one.       *)
LEMMA BufferFacts ==
  ASSUME names \in Dirs, There = Len(Sent[names]), reg.buffer \in Seq(Cells),
         NEW j \in 1..Len(names), AtLine(j - 1)
  PROVE  LET b == Overlay(LineRead, reg.buffer)
         IN /\ b \in Seq(Cells)
            /\ j < Len(names) => UpToNul(b) = Name(j)
            /\ NoLonger => \A k \in 1..Len(b) : k > names[Len(names)] => b[k] = Nul
            /\ j = Len(names) /\ NoLonger => UpToNul(b) = Name(j)
<1> DEFINE L == Len(names)
           n == names[j]
           o == reg.buffer
           b == Overlay(LineRead, o)
<1>1. /\ reg.eaten = Width + Upto(names, j - 1)
      /\ NoLonger => \A k \in 1..Len(o) : k > names[L] => o[k] = Nul
  BY DEF AtLine
<1>2. /\ LineRead \in Seq(Cells)
      /\ \A k \in 1..n : LineRead[k] = <<j, k>>
      /\ j < L => Len(LineRead) = n + 1 /\ LineRead[n + 1] = Nul
      /\ j = L => Len(LineRead) = n
  BY <1>1, NextLine
<1>3. L \in Nat /\ n \in Nat /\ names[L] \in Nat /\ (NoLonger => n <= names[L])
  <2>1. L \in Nat /\ L \in 1..L  BY DirFacts
  <2> QED  BY <2>1, DirFacts DEF NoLonger
<1>4. j < L \/ j = L  BY <1>3
<1>5. Len(LineRead) \in Nat /\ n <= Len(LineRead)  BY <1>2, <1>3, <1>4
<1>6. /\ b \in Seq(Cells) /\ Len(b) >= Len(LineRead)
      /\ \A k \in 1..Len(LineRead) : b[k] = LineRead[k]
      /\ \A k \in 1..Len(b) : k > Len(LineRead) => k \in 1..Len(o) /\ b[k] = o[k]
  BY <1>2, OverlayFacts
<1> HIDE DEF b, o
<1>7. Len(b) \in Nat  BY <1>6, LenProperties
<1>8. n <= Len(b) /\ \A k \in 1..n : b[k] = <<j, k>>
  <2> HIDE DEF n
  <2>1. \A k \in 1..n : k \in 1..Len(LineRead)  BY <1>3, <1>5
  <2>2. n <= Len(b)  BY <1>3, <1>5, <1>6, <1>7
  <2> QED  BY <1>2, <1>6, <2>1, <2>2
<1>9. SubSeq(b, 1, n) = Name(j) /\ \A k \in 1..n : b[k] # Nul
  BY <1>6, <1>8, NameFacts
<1>10. NoLonger => \A k \in 1..Len(b) : k > names[L] => b[k] = Nul
  <2> SUFFICES ASSUME NoLonger, NEW k \in 1..Len(b), k > names[L] PROVE b[k] = Nul
    OBVIOUS
  <2> HIDE DEF n, L
  <2>1. CASE k > Len(LineRead)
    <3>1. k \in 1..Len(o) /\ b[k] = o[k]  BY <1>6, <2>1
    <3> QED  BY <1>1, <3>1
  <2>2. CASE ~(k > Len(LineRead))
    <3>1. k \in 1..Len(LineRead) /\ k > n  BY <1>3, <1>5, <1>7, <2>2
    <3>2. j < L /\ k = n + 1
      <4>1. j < L  BY <1>2, <1>3, <1>4, <3>1
      <4> QED  BY <1>2, <1>3, <3>1, <4>1
    <3> QED  BY <1>2, <1>6, <3>1, <3>2
  <2> QED  BY <2>1, <2>2
<1>11. ASSUME n < Len(b) => b[n + 1] = Nul PROVE UpToNul(b) = Name(j)
  <2> HIDE DEF n
  <2> QED  BY <1>3, <1>6, <1>8, <1>9, <1>11, UpToNulFacts
<1>12. ASSUME j < L PROVE UpToNul(b) = Name(j)
  <2>1. n + 1 \in 1..Len(LineRead)  BY <1>2, <1>3, <1>12
  <2>2. b[n + 1] = Nul  BY <1>2, <1>6, <1>12, <2>1
  <2> QED  BY <1>11, <2>2
<1>13. ASSUME j = L, NoLonger PROVE UpToNul(b) = Name(j)
  <2>1. n < Len(b) => n + 1 \in 1..Len(b) /\ n + 1 > names[L]  BY <1>3, <1>7, <1>13
  <2>2. n < Len(b) => b[n + 1] = Nul  BY <1>10, <1>13, <2>1
  <2> QED  BY <1>11, <2>2
<1> QED  BY <1>6, <1>10, <1>12, <1>13 DEF b, o

-----------------------------------------------------------------------------
(***************************************************************************)
(* The steps.                                                              *)
(***************************************************************************)
LEMMA ReadNameFacts ==
  ASSUME SessionInv, ReadName
  PROVE  /\ reg'.size = reg.size
         /\ reg'.bytes_read = Count(reg.bytes_read, (IF End = 0 THEN 0 ELSE End) - 1)
         /\ reg'.buffer = Overlay(LineRead, reg.buffer)
         /\ reg'.names = reg.names \cup {UpToNul(Overlay(LineRead, reg.buffer))}
         /\ reg'.eaten = reg.eaten + Len(LineRead)
         /\ reg'.pushed = reg.pushed /\ reg.pushed = 0
         /\ UNCHANGED <<names, req, arrived, job, prompt>>
         /\ job.step = "names"
<1>1. Registers  BY DEF SessionInv
<1>2. reg' = [reg EXCEPT
                !.bytes_read = Count(@, (IF End = 0 THEN 0 ELSE End) - 1),
                !.buffer = Overlay(LineRead, reg.buffer),
                !.names = @ \cup {UpToNul(Overlay(LineRead, reg.buffer))},
                !.eaten = @ + Len(LineRead)]
  BY DEF ReadName, End, LineRead
<1> DEFINE c == Count(reg.bytes_read, (IF End = 0 THEN 0 ELSE End) - 1)
           b == Overlay(LineRead, reg.buffer)
           m == reg.names \cup {UpToNul(b)}
           e == reg.eaten + Len(LineRead)
<1>3. reg' = [reg EXCEPT !.bytes_read = c, !.buffer = b, !.names = m, !.eaten = e]
  BY <1>2
<1> HIDE DEF c, b, m, e
<1>4. reg' = [size |-> reg.size, bytes_read |-> c, buffer |-> b,
              names |-> m, eaten |-> e, pushed |-> reg.pushed]
  BY <1>1, <1>3 DEF Registers
<1>5. /\ reg'.size = reg.size /\ reg'.bytes_read = c /\ reg'.buffer = b
      /\ reg'.names = m /\ reg'.eaten = e /\ reg'.pushed = reg.pushed
  BY <1>4
<1>6. /\ UNCHANGED <<names, req, arrived, job, prompt>>
      /\ job.step = "names" /\ ~shut
  BY DEF ReadName, Registering, requestVars, listVars, answerVars, serverVars
<1>7. reg.pushed = 0  BY <1>1, <1>6 DEF Registers
<1> QED  BY <1>5, <1>6, <1>7 DEF c, b, m, e

(* What is there, if all of the stream is. *)
LEMMA AllThere ==
  ASSUME SessionInv, RegistrationInv, req.verb = "ADD_SERVER",
         names # <<>>, arrived = StreamLen(req)
  PROVE  There = Len(Sent[names]) /\ Len(Sent[names]) \in Nat
<1>1. Len(Sent[names]) \in Nat  BY SentFacts, LenProperties DEF RegistrationInv
<1>2. req \in RequestType
  BY RequestsAssumption DEF SessionInv, RequestInv, RequestTypeOK
<1>3. HeaderLen(req) \in Int
  <2>1. VerbLen[req.verb] \in Nat /\ req.line \in Nat
    BY <1>2, VerbLengths
  <2> QED  BY <2>1 DEF HeaderLen
<1>4. req.more = Len(Sent[names])  BY DEF RegistrationInv
<1> HIDE DEF HeaderLen
<1> QED  BY <1>1, <1>3, <1>4 DEF There, StreamLen

(* Where a line begins the count has not reached the size; after the next  *)
(* one it is as much further.                                              *)
LEMMA CountFacts ==
  ASSUME SessionInv, names \in Dirs, NEW j \in 1..Len(names), AtLine(j - 1)
  PROVE  /\ reg.bytes_read < Len(Text[names])
         /\ j < Len(names) => Count(reg.bytes_read, names[j]) = Upto(names, j) - j
<1> DEFINE L == Len(names)
           n == names[j]
           u == Upto(names, j - 1)
           v == Upto(names, j)
           t == Len(Text[names])
           c == reg.bytes_read
           z == Base^Width
<1>1. L \in Nat /\ n \in Nat \ {0} /\ names # <<>>
  <2>1. L \in Nat /\ n \in Nat \ {0}  BY DirFacts
  <2>2. L # 0  BY <2>1
  <2> QED  BY <2>1, <2>2, EmptySeq
<1>2. u \in Nat /\ v = u + n + 1 /\ v <= Upto(names, L) /\ t = Upto(names, L) - 1
  BY <1>1, TextFacts
<1>3. t \in Nat /\ t < z /\ z \in Nat \ {0}
  BY <1>1, TextFacts, LenProperties, TextAssumption, SizeAssumption, PowerAssumption
<1>4. c \in Nat /\ c = u - (j - 1)  BY DEF SessionInv, Registers, AtLine
<1>5. Upto(names, L) = t + 1
  <2>1. L \in 1..L  BY <1>1
  <2>2. Upto(names, L - 1) \in Nat /\ Upto(names, L) = Upto(names, L - 1) + names[L] + 1
        /\ names[L] \in Nat
    BY <2>1, UptoFacts, DirFacts
  <2> HIDE DEF t
  <2> QED  BY <1>2, <1>3, <2>2
<1> HIDE DEF L, n, u, v, t, c, z
<1>6. c < t
  <2>1. j \in Nat /\ j >= 1  OBVIOUS
  <2> QED  BY <1>1, <1>2, <1>3, <1>4, <1>5, <2>1
<1>7. (c + n) % z = v - j
  <2>1. c + n = v - j  BY <1>1, <1>2, <1>4
  <2>2. v - j \in 0..(z - 1)
    <3>1. j \in Nat /\ j >= 1  OBVIOUS
    <3> QED  BY <1>1, <1>2, <1>3, <1>4, <1>5, <2>1, <3>1
  <2>3. (v - j) % z = v - j  BY <1>3, <2>2, DivSmall
  <2> QED  BY <2>1, <2>3
<1> QED  BY <1>6, <1>7 DEF Count, c, t, n, v, z

(* ReadName goes from line to line, and from the last one to the end.      *)
LEMMA NextName ==
  ASSUME SessionInv, RegistrationInv, ReadName, names # <<>>, There = Len(Sent[names]),
         reg.buffer \in Seq(Cells), NEW j \in 1..Len(names), AtLine(j - 1)
  PROVE  /\ reg'.buffer \in Seq(Cells)
         /\ j < Len(names) => AtLine(j)'
         /\ j = Len(names) => AllRead'
<1> DEFINE L == Len(names)
           n == names[j]
           b == Overlay(LineRead, reg.buffer)
<1>1. names \in Dirs  BY DEF RegistrationInv
<1>2. /\ reg'.bytes_read = Count(reg.bytes_read, (IF End = 0 THEN 0 ELSE End) - 1)
      /\ reg'.buffer = b
      /\ reg'.names = reg.names \cup {UpToNul(b)}
      /\ reg'.eaten = reg.eaten + Len(LineRead)
      /\ names' = names
  BY ReadNameFacts
<1>3. /\ reg.eaten = Width + Upto(names, j - 1)
      /\ reg.names = {Name(i) : i \in 1..(j - 1)}
  BY DEF AtLine
<1>4. /\ j < L => /\ End = n + 1 /\ Len(LineRead) = n + 1
      /\ j = L => End = 0 /\ Len(LineRead) = n
  BY <1>1, <1>3, NextLine
<1>5. /\ b \in Seq(Cells)
      /\ j < L => UpToNul(b) = Name(j)
      /\ NoLonger => \A k \in 1..Len(b) : k > names[L] => b[k] = Nul
      /\ j = L /\ NoLonger => UpToNul(b) = Name(j)
  BY <1>1, BufferFacts
<1>6. /\ L \in Nat /\ n \in Nat /\ Width \in Nat /\ j \in Nat
      /\ Upto(names, j - 1) \in Nat /\ Upto(names, j) = Upto(names, j - 1) + n + 1
  BY <1>1, DirFacts, UptoFacts, SizeAssumption
<1> HIDE DEF b, n
<1>7. {Name(i) : i \in 1..(j - 1)} \cup {Name(j)} = {Name(i) : i \in 1..j}
  <2>1. 1..j = (1..(j - 1)) \cup {j}  BY <1>6
  <2> QED  BY <2>1
<1>8. NoLonger' <=> NoLonger  BY <1>2 DEF NoLonger
<1>9. \A i : Name(i)' = Name(i)  BY <1>2 DEF Name
<1>10. ASSUME j < L PROVE AtLine(j)'
  <2>1. reg'.eaten = Width + Upto(names, j)
    <3>1. reg'.eaten = (Width + Upto(names, j - 1)) + (n + 1)  BY <1>2, <1>3, <1>4, <1>10
    <3> QED  BY <1>6, <3>1
  <2>2. reg'.bytes_read = Upto(names, j) - j
    <3>1. (IF End = 0 THEN 0 ELSE End) - 1 = n  BY <1>4, <1>6, <1>10
    <3>2. reg'.bytes_read = Count(reg.bytes_read, n)  BY <1>2, <3>1
    <3> QED  BY <1>1, <1>10, <3>2, CountFacts DEF n
  <2>3. reg'.names = {Name(i) : i \in 1..j}  BY <1>2, <1>3, <1>5, <1>7, <1>10
  <2>4. NoLonger => \A k \in 1..Len(reg'.buffer) : k > names[L] => reg'.buffer[k] = Nul
    BY <1>2, <1>5
  <2>5. {Name(i)' : i \in 1..j} = {Name(i) : i \in 1..j}  BY <1>9
  <2>6. reg'.names = {Name(i)' : i \in 1..j}  BY <2>3, <2>5
  <2> QED  BY <1>2, <1>8, <2>1, <2>2, <2>4, <2>6 DEF AtLine
<1>11. ASSUME j = L PROVE AllRead'
  <2>1. reg'.eaten = Len(Sent[names])
    <3>1. reg'.eaten = (Width + Upto(names, j - 1)) + n  BY <1>2, <1>3, <1>4, <1>11
    <3>2. Len(Sent[names]) = Width + Len(Text[names]) /\ Len(Text[names]) = Upto(names, L) - 1
      BY <1>1, SentFacts, TextFacts
    <3> QED  BY <1>6, <1>11, <3>1, <3>2
  <2>2. \A i \in 1..(L - 1) : Name(i) \in reg'.names  BY <1>2, <1>3, <1>11
  <2>3. ASSUME NoLonger
        PROVE  reg'.names = {Name(i) : i \in 1..L} /\ UpToNul(reg'.buffer) = Name(L)
    BY <1>2, <1>3, <1>5, <1>7, <1>11, <2>3
  <2>4. {Name(i)' : i \in 1..L} = {Name(i) : i \in 1..L}  BY <1>9
  <2> QED  BY <1>2, <1>8, <1>9, <2>1, <2>2, <2>3, <2>4 DEF AllRead
<1> QED  BY <1>2, <1>5, <1>10, <1>11

(* Once nothing is left ReadName stores what the buffer holds. *)
LEMMA LastNameAgain ==
  ASSUME SessionInv, RegistrationInv, ReadName, names # <<>>, There = Len(Sent[names]),
         reg.buffer \in Seq(Cells), AllRead
  PROVE  reg'.buffer = reg.buffer /\ AllRead'
<1>1. names \in Dirs  BY DEF RegistrationInv
<1>2. /\ reg'.buffer = Overlay(LineRead, reg.buffer)
      /\ reg'.names = reg.names \cup {UpToNul(Overlay(LineRead, reg.buffer))}
      /\ reg'.eaten = reg.eaten + Len(LineRead)
      /\ names' = names
  BY ReadNameFacts
<1>3. /\ reg.eaten = Len(Sent[names])
      /\ \A i \in 1..(Len(names) - 1) : Name(i) \in reg.names
      /\ NoLonger => /\ reg.names = {Name(i) : i \in 1..Len(names)}
                     /\ UpToNul(reg.buffer) = Name(Len(names))
  BY DEF AllRead
<1>4. Len(Sent[names]) \in Nat  BY <1>1, SentFacts, LenProperties
<1>5. LineRead = <<>> /\ Len(LineRead) = 0
  <2>1. Waiting = <<>>
    <3> DEFINE l == Len(Sent[names])
    <3>1. Waiting = SubSeq(Sent[names], l + 1, l)  BY <1>3 DEF Waiting
    <3>2. l \in Nat  BY <1>4
    <3> HIDE DEF l
    <3> QED  BY <3>1, <3>2
  <2>2. \A k \in 1..Len(Waiting) : Waiting[k] # Newline
    <3>1. Len(Waiting) = 0 /\ 1..0 = {}  BY <2>1
    <3> QED  BY <3>1
  <2>3. End = 0
    <3> HIDE DEF Waiting
    <3> QED  BY <2>2, NoNewline DEF End
  <2> QED  BY <2>1, <2>3 DEF LineRead
<1>6. Overlay(LineRead, reg.buffer) = reg.buffer
  <2> DEFINE o == reg.buffer
  <2>1. o \in Seq(Cells) /\ Len(o) \in Nat  BY LenProperties
  <2>2. SubSeq(o, 1, Len(o)) = o
    <3> HIDE DEF o
    <3>1. \A k \in 1..Len(o) : k + 1 - 1 = k  OBVIOUS
    <3>2. SubSeq(o, 1, Len(o)) = [k \in 1..Len(o) |-> o[k + 1 - 1]]  BY <2>1
    <3>3. SubSeq(o, 1, Len(o)) = [k \in 1..Len(o) |-> o[k]]  BY <3>1, <3>2
    <3>4. o = [k \in 1..Len(o) |-> o[k]]  BY <2>1
    <3> QED  BY <3>3, <3>4
  <2>3. <<>> \o o = o
    <3> HIDE DEF o
    <3> QED  BY <2>1
  <2> QED  BY <1>5, <2>2, <2>3 DEF Overlay
<1>7. reg'.buffer = reg.buffer /\ reg'.names = reg.names \cup {UpToNul(reg.buffer)}
      /\ reg'.eaten = Len(Sent[names])
  BY <1>2, <1>3, <1>4, <1>5, <1>6
<1>8. NoLonger' <=> NoLonger  BY <1>2 DEF NoLonger
<1>9. \A i : Name(i)' = Name(i)  BY <1>2 DEF Name
<1>10. ASSUME NoLonger
       PROVE  reg'.names = {Name(i) : i \in 1..Len(names)}
  <2>1. Len(names) \in 1..Len(names)
    <3>1. Len(names) \in Nat /\ Len(names) # 0  BY <1>1, DirFacts
    <3> QED  BY <3>1
  <2>2. UpToNul(reg.buffer) \in reg.names  BY <1>3, <1>10, <2>1
  <2> QED  BY <1>3, <1>7, <1>10, <2>2
<1>11. {Name(i)' : i \in 1..Len(names)} = {Name(i) : i \in 1..Len(names)}  BY <1>9
<1>12. AllRead'
  BY <1>2, <1>3, <1>7, <1>8, <1>9, <1>10, <1>11 DEF AllRead
<1> QED  BY <1>7, <1>12

LEMMA ReadNameKeeps ==
  ASSUME SessionInv, RegistrationInv, ReadName
  PROVE  RegistrationInv'
<1>1. /\ reg'.size = reg.size /\ reg'.pushed = 0
      /\ UNCHANGED <<names, req, arrived, job, prompt>>
      /\ job.step = "names"
  BY ReadNameFacts
<1>2. req.verb = "ADD_SERVER"  BY <1>1 DEF SessionInv, Registers
<1>3. ASSUME prompt, names # <<>>
      PROVE  /\ reg'.size = Len(Text[names])
             /\ reg'.buffer \in Seq(Cells)
             /\ AllRead' \/ \E i \in 0..(Len(names) - 1) : AtLine(i)'
  <2>1. /\ arrived = StreamLen(req) /\ reg.size = Len(Text[names])
        /\ reg.buffer \in Seq(Cells)
        /\ AllRead \/ \E i \in 0..(Len(names) - 1) : AtLine(i)
    BY <1>3 DEF RegistrationInv, Prompt
  <2>2. There = Len(Sent[names])  BY <1>2, <1>3, <2>1, AllThere
  <2>3. CASE AllRead
    BY <1>1, <1>3, <2>1, <2>2, <2>3, LastNameAgain
  <2>4. ASSUME NEW i \in 0..(Len(names) - 1), AtLine(i)
        PROVE  /\ reg'.buffer \in Seq(Cells)
               /\ AllRead' \/ \E k \in 0..(Len(names) - 1) : AtLine(k)'
    <3> DEFINE j == i + 1
    <3>1. Len(names) \in Nat  BY DirFacts DEF RegistrationInv
    <3>2. j \in 1..Len(names) /\ j - 1 = i  BY <3>1
    <3>3. j < Len(names) \/ j = Len(names)  BY <3>1, <3>2
    <3>4. j < Len(names) => j \in 0..(Len(names) - 1)  BY <3>1, <3>2
    <3> HIDE DEF j
    <3>5. AtLine(j - 1)  BY <2>4, <3>2
    <3>6. /\ reg'.buffer \in Seq(Cells)
          /\ j < Len(names) => AtLine(j)'
          /\ j = Len(names) => AllRead'
      BY <1>3, <2>1, <2>2, <3>2, <3>5, NextName
    <3> QED  BY <3>3, <3>4, <3>6
  <2> QED  BY <1>1, <2>1, <2>3, <2>4
<1>4. prompt' => Prompt'
  <2> SUFFICES ASSUME prompt' PROVE Prompt'  OBVIOUS
  <2>1. prompt /\ arrived = StreamLen(req)  BY <1>1 DEF RegistrationInv, Prompt
  <2>2. StreamLen(req)' = StreamLen(req)  BY <1>1
  <2> QED  BY <1>1, <1>3, <2>1, <2>2 DEF Prompt
<1> QED  BY <1>1, <1>4 DEF RegistrationInv

(* add_server() reads the size as it was sent if it is there.              *)
LEMMA ReadSizeKeeps ==
  ASSUME SessionInv, RegistrationInv, ReadSizeOnce
  PROVE  RegistrationInv'
<1>1. /\ UNCHANGED <<names, req, arrived>> /\ job.step = "idle"
      /\ state = "HANDLING_VERB" /\ action = "ADD_SERVER"
      /\ prompt' = (arrived = StreamLen(req))
  BY DEF ReadSizeOnce, Handling, listVars, requestVars
<1>2. req.verb = "ADD_SERVER" /\ Registers
  BY <1>1 DEF SessionInv, RequestInv, HeaderExact
<1>3. PICK n \in SizeValues : reg' = [reg EXCEPT !.size = n, !.eaten = Least(Width, There)]
  BY DEF ReadSizeOnce
<1>4. reg' = [size |-> n, bytes_read |-> reg.bytes_read, buffer |-> reg.buffer,
              names |-> reg.names, eaten |-> Least(Width, There), pushed |-> reg.pushed]
  BY <1>2, <1>3 DEF Registers
<1>5. job'.step = "names"
  <2>1. job \in Jobs  BY DEF SessionInv, AnswerInv, AnswerTypeOK
  <2> QED  BY <2>1, SizeReadOnce DEF Jobs
<1>6. Untouched  BY <1>1 DEF RegistrationInv
<1>7. names \in Dirs  BY DEF RegistrationInv
<1>8. /\ reg'.size = n /\ reg'.eaten = Least(Width, There) /\ reg'.names = {}
      /\ reg'.bytes_read = 0 /\ reg'.buffer = <<>> /\ reg'.pushed = 0
  BY <1>4, <1>6 DEF Untouched
<1>9. ASSUME prompt', names # <<>>
      PROVE  n = Len(Text[names]) /\ AtLine(0)'
  <2>1. There = Len(Sent[names]) /\ Len(Sent[names]) = Width + Len(Text[names])
        /\ Len(Text[names]) \in DOMAIN Digits
    BY <1>1, <1>2, <1>7, <1>9, AllThere, SentFacts
  <2>2. Width \in Nat /\ Len(Text[names]) \in Nat
    BY <1>7, <1>9, SizeAssumption, TextFacts, LenProperties
  <2>3. Least(Width, There) = Width  BY <2>1, <2>2 DEF Least
  <2>4. n \in DOMAIN Digits /\ \A i \in 1..Width : Digits[n][i] = Digits[Len(Text[names])][i]
    BY <2>3 DEF SizeValues
  <2>5. n = Len(Text[names])  BY <2>1, <2>4, DigitsApart
  <2>6. AtLine(0)'
    <3>1. Upto(names, 0)' = 0  BY DEF Upto
    <3>2. 1..0 = {} /\ Len(<<>>) = 0  OBVIOUS
    <3>3. {Name(j)' : j \in 1..0} = {}  BY <3>2
    <3>4. reg'.eaten = Width + 0 /\ reg'.bytes_read = 0 - 0
      BY <1>8, <2>2, <2>3
    <3>5. \A k \in 1..Len(reg'.buffer) : FALSE  BY <1>8, <3>2
    <3> QED  BY <1>8, <3>1, <3>3, <3>4, <3>5 DEF AtLine
  <2> QED  BY <2>5, <2>6
<1>10. prompt' => Prompt'
  <2> SUFFICES ASSUME prompt' PROVE Prompt'  OBVIOUS
  <2>1. arrived' = StreamLen(req)'  BY <1>1
  <2>2. ASSUME names # <<>>
        PROVE  /\ reg'.size = Len(Text[names])
               /\ reg'.buffer \in Seq(Cells)
               /\ \E i \in 0..(Len(names) - 1) : AtLine(i)'
    <3>1. 0 \in 0..(Len(names) - 1)
      <4>1. Len(names) \in Nat /\ Len(names) # 0  BY <1>7, <2>2, DirFacts
      <4> QED  BY <4>1
    <3>2. <<>> \in Seq(Cells)  OBVIOUS
    <3> QED  BY <1>8, <1>9, <2>2, <3>1, <3>2
  <2> QED  BY <1>1, <1>5, <2>1, <2>2 DEF Prompt
<1> QED  BY <1>1, <1>5, <1>8, <1>10 DEF RegistrationInv

(* It sends its answer only once every line is read.                       *)
LEMMA AddServerKeeps ==
  ASSUME SessionInv, RegistrationInv, AddServer
  PROVE  RegistrationInv'
<1>1. /\ reg' = [reg EXCEPT !.pushed = @ + 1] /\ reg.bytes_read >= reg.size
      /\ UNCHANGED <<names, req, arrived, job, prompt>> /\ job.step = "names"
  BY DEF AddServer, Registering, Conclude, listVars, requestVars
<1>2. Registers  BY DEF SessionInv
<1>3. reg' = [size |-> reg.size, bytes_read |-> reg.bytes_read, buffer |-> reg.buffer,
              names |-> reg.names, eaten |-> reg.eaten, pushed |-> reg.pushed + 1]
  BY <1>1, <1>2 DEF Registers
<1>4. /\ reg'.size = reg.size /\ reg'.bytes_read = reg.bytes_read
      /\ reg'.buffer = reg.buffer /\ reg'.names = reg.names /\ reg'.eaten = reg.eaten
  BY <1>3
<1>5. NoLonger' <=> NoLonger  BY <1>1 DEF NoLonger
<1>6. \A i : Name(i)' = Name(i)  BY <1>1 DEF Name
<1>7. AllRead => AllRead'
  <2>1. {Name(i)' : i \in 1..Len(names)} = {Name(i) : i \in 1..Len(names)}  BY <1>6
  <2> QED  BY <1>1, <1>4, <1>5, <1>6, <2>1 DEF AllRead
<1>8. ASSUME prompt, names # <<>>
      PROVE  reg.size = Len(Text[names]) /\ reg.buffer \in Seq(Cells) /\ AllRead
  <2>1. /\ reg.size = Len(Text[names]) /\ reg.buffer \in Seq(Cells)
        /\ AllRead \/ \E i \in 0..(Len(names) - 1) : AtLine(i)
    BY <1>8 DEF RegistrationInv, Prompt
  <2>2. ASSUME NEW i \in 0..(Len(names) - 1), AtLine(i) PROVE FALSE
    <3> DEFINE j == i + 1
    <3>1. names \in Dirs /\ Len(names) \in Nat  BY DirFacts DEF RegistrationInv
    <3>2. j \in 1..Len(names) /\ j - 1 = i  BY <3>1
    <3> HIDE DEF j
    <3>3. AtLine(j - 1)  BY <2>2, <3>2
    <3>4. reg.bytes_read < Len(Text[names])  BY <3>1, <3>2, <3>3, CountFacts
    <3>5. reg.bytes_read \in Nat /\ Len(Text[names]) \in Nat
      BY <1>2, <1>8, <3>1, TextFacts, LenProperties DEF Registers
    <3> QED  BY <1>1, <2>1, <3>4, <3>5
  <2> QED  BY <2>1, <2>2
<1>9. prompt' => Prompt'
  <2> SUFFICES ASSUME prompt' PROVE Prompt'  OBVIOUS
  <2>1. prompt /\ arrived = StreamLen(req)  BY <1>1 DEF RegistrationInv, Prompt
  <2>2. StreamLen(req)' = StreamLen(req)  BY <1>1
  <2> QED  BY <1>1, <1>4, <1>7, <1>8, <2>1, <2>2 DEF Prompt
<1> QED  BY <1>1, <1>7, <1>8, <1>9 DEF RegistrationInv

(* All other steps leave the registration alone, and what the peer sent is *)
(* there and stays there.                                                  *)
LEMMA OthersKeep ==
  ASSUME SessionInv, RegistrationInv, [Next]_vars,
         ~ReadSizeOnce, ~ReadName, ~AddServer
  PROVE  RegistrationInv'
<1>1. UNCHANGED <<reg, prompt>>
  BY DEF Next, Deliveries, ServerStep, Client, Collect, SendNames, Failures, vars
<1>2. UNCHANGED names
  BY DEF Next, Deliveries, ServerStep, Client, Collect, SendNames, Failures, vars,
         CopyName, listVars, ClientStep, Kill, ServerDies, AnswerStep, Refuse,
         AnswerDelete, AnswerMissing, AnswerGet, ListName, AnswerList, WriteSome,
         WriteFails, WriteEnds
<1>3. UNCHANGED req /\ (arrived = StreamLen(req) => UNCHANGED arrived)
  <2>1. [RequestNext]_requestVars  BY RequestStep
  <2>2. CASE Arrive
    <3>1. UNCHANGED req /\ arrived' \in (arrived + 1)..StreamLen(req)
      BY <2>2 DEF Arrive
    <3>2. arrived \in Nat  BY DEF SessionInv, RequestInv, RequestTypeOK
    <3>3. ASSUME arrived = StreamLen(req) PROVE FALSE
      <4> DEFINE l == StreamLen(req)
      <4>1. arrived' \in (l + 1)..l /\ l \in Nat  BY <3>1, <3>2, <3>3
      <4> HIDE DEF l
      <4> QED  BY <4>1
    <3> QED  BY <3>1, <3>3
  <2>3. CASE PeerEnds \/ ReadRequest \/ UNCHANGED requestVars
    BY <2>3 DEF PeerEnds, ReadRequest, ParseVerb, ReadFileName, Take, requestVars
  <2> QED  BY <2>1, <2>2, <2>3 DEF RequestNext
<1>4. job'.step = "names" <=> job.step = "names"
  <2>1. job'.step = "names" => job.step = "names"  BY AnsweringStays
  <2>2. ASSUME job.step = "names" PROVE job'.step = "names"
    <3>1. CASE Deliveries \/ Client \/ Failures \/ UNCHANGED vars
      BY <2>2, <3>1 DEF Deliveries, Client, Collect, SendNames, ClientStep, Failures,
                        Kill, ServerDies, vars, answerVars, serverVars
    <3>2. CASE ServerStep
      <4>1. CASE ReadRequest /\ UNCHANGED <<listVars, answerVars, reg, prompt>>
        BY <2>2, <4>1 DEF answerVars, serverVars
      <4>2. CASE AnswerStep
        BY <2>2, <4>2 DEF AnswerStep, Refuse, AnswerDelete, AnswerMissing, AnswerGet,
             ListName, AnswerList, WriteSome, WriteFails, WriteEnds, Writing, Handling,
             Conclude, answerVars, serverVars
      <4> QED  BY <3>2, <4>1, <4>2 DEF ServerStep
    <3> QED  BY <3>1, <3>2 DEF Next
  <2> QED  BY <2>1, <2>2
<1>5. NoLonger' <=> NoLonger  BY <1>2 DEF NoLonger
<1>6. \A i : Name(i)' = Name(i)  BY <1>2 DEF Name
<1>7. AllRead => AllRead'
  <2>1. {Name(i)' : i \in 1..Len(names)} = {Name(i) : i \in 1..Len(names)}  BY <1>6
  <2> QED  BY <1>1, <1>2, <1>5, <1>6, <2>1 DEF AllRead
<1>8. ASSUME NEW j, AtLine(j) PROVE AtLine(j)'
  <2>1. {Name(i)' : i \in 1..j} = {Name(i) : i \in 1..j}  BY <1>6
  <2> QED  BY <1>1, <1>2, <1>5, <1>8, <2>1 DEF AtLine
<1>9. Prompt => Prompt'
  <2> SUFFICES ASSUME Prompt PROVE Prompt'  OBVIOUS
  <2>1. arrived = StreamLen(req)  BY DEF Prompt
  <2>2. arrived' = StreamLen(req)'  BY <1>3, <2>1
  <2> QED  BY <1>1, <1>2, <1>4, <1>7, <1>8, <2>2 DEF Prompt
<1>10. Untouched => Untouched'  BY <1>1 DEF Untouched
<1> QED  BY <1>1, <1>2, <1>3, <1>4, <1>7, <1>9, <1>10 DEF RegistrationInv

LEMMA RegistrationInvInit == SessionInit => RegistrationInv
<1> SUFFICES ASSUME SessionInit PROVE RegistrationInv  OBVIOUS
<1>1. /\ reg = [size |-> 0, bytes_read |-> 0, buffer |-> <<>>, names |-> {},
                eaten |-> 0, pushed |-> 0]
      /\ prompt = FALSE /\ names \in Dirs
      /\ req.verb = "ADD_SERVER" => req.more = Len(Sent[names])
  BY DEF SessionInit, ListInit
<1> QED  BY <1>1 DEF RegistrationInv, Untouched

LEMMA RegistrationInvStep ==
  SessionInv /\ RegistrationInv /\ [Next]_vars => RegistrationInv'
BY ReadSizeKeeps, ReadNameKeeps, AddServerKeeps, OthersKeep

(* Whatever names a machine registers, however long the lines and the      *)
(* buffer of the server are: if the client did not overrun its own buffer  *)
(* and all of it is there when add_server() begins, every name but the     *)
(* last is stored as it is, and the last one too if no other is longer.    *)
THEOREM RegistrationsComplete == Spec => []NamesRegistered
<1>1. RegistrationInv => NamesRegistered
  BY DEF RegistrationInv, AllRead, NoLonger, NamesRegistered
<1> QED
  BY <1>1, SessionInvariant, RegistrationInvInit, RegistrationInvStep, PTL DEF Spec
=============================================================================
