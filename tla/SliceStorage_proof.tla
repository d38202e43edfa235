------------------------- MODULE SliceStorage_proof -------------------------
(***************************************************************************)
(* Proofs about SliceStorage, for any e-mails and subscriptions, any slices *)
(* at the beginning, and any number of changes.                            *)
(***************************************************************************)
EXTENDS SliceStorage, ScrapeList_proof

----------------------------------------------------------------------------
(* Slices and arrays.                                                       *)

\* A slice with its arrays, whose elements are in A.
Slice(s, A) ==
    /\ s = [arrays |-> s.arrays, len |-> s.len]
    /\ s.arrays \in Seq(Seq(A)) /\ Len(s.arrays) \in Nat \ {0}
    /\ s.len \in Nat

\* Array nr of a slice has len elements that were written, and are in E.
Covers(s, nr, len, E) ==
    /\ nr \in 1..Len(s.arrays)
    /\ len \in 0..Len(s.arrays[nr])
    /\ \A n \in 1..len : s.arrays[nr][n] \in E

\* Of a slice s and what it becomes, t: the arrays stay as long as they are;
Keeps(s, t) ==
    /\ Len(s.arrays) <= Len(t.arrays)
    /\ \A nr \in 1..Len(s.arrays) : Len(t.arrays[nr]) = Len(s.arrays[nr])

\* x is appended: only the element behind the end is written, and only if there is one;
Grows(s, t, x) ==
    /\ t.len = s.len + 1
    /\ \A n \in 1..s.len : Last(t.arrays)[n] = Last(s.arrays)[n]
    /\ Last(t.arrays)[s.len + 1] = x
    /\ \A nr \in 1..Len(s.arrays) : \A n \in 1..Len(s.arrays[nr]) :
          \/ t.arrays[nr][n] = s.arrays[nr][n]
          \/ nr = Len(s.arrays) /\ n = s.len + 1 /\ t.arrays[nr][n] = x

\* element k is removed: the last one is written in its place.
Shrinks(s, t, k) ==
    /\ t.len = s.len - 1
    /\ Len(t.arrays) = Len(s.arrays)
    /\ \A nr \in 1..Len(s.arrays) : \A n \in 1..Len(s.arrays[nr]) :
          t.arrays[nr][n] = IF nr = Len(s.arrays) /\ n = k THEN Last(s.arrays)[s.len]
                                                           ELSE s.arrays[nr][n]

\* Writing an element of an array.
LEMMA Written ==
    ASSUME NEW A, NEW arrays \in Seq(Seq(A)), NEW nr \in 1..Len(arrays),
           NEW k \in 1..Len(arrays[nr]), NEW x \in A,
           NEW new, new = [arrays EXCEPT ![nr][k] = x]
    PROVE  /\ new \in Seq(Seq(A)) /\ Len(new) = Len(arrays)
           /\ \A m \in 1..Len(arrays) : /\ Len(new[m]) = Len(arrays[m])
                                        /\ m # nr => new[m] = arrays[m]
           /\ \A n \in 1..Len(arrays[nr]) : new[nr][n] = IF n = k THEN x ELSE arrays[nr][n]
<1>1. PICK array \in Seq(A) : array = arrays[nr]
  OBVIOUS
<1>2. PICK other : other = [array EXCEPT ![k] = x]
  OBVIOUS
<1>3. /\ other \in Seq(A) /\ Len(other) = Len(array)
      /\ \A n \in 1..Len(array) : other[n] = IF n = k THEN x ELSE array[n]
  BY <1>1, <1>2
<1>4. new = [arrays EXCEPT ![nr] = other]
  BY <1>1, <1>2
<1>5. /\ new \in Seq(Seq(A)) /\ Len(new) = Len(arrays)
      /\ new[nr] = other /\ \A m \in 1..Len(arrays) : m # nr => new[m] = arrays[m]
  BY <1>3, <1>4
<1>6. \A m \in 1..Len(arrays) : Len(new[m]) = Len(arrays[m])
  BY <1>1, <1>3, <1>5
<1> QED  BY <1>1, <1>3, <1>5, <1>6

\* append, to the array there is or to a longer one.
LEMMA AppendedIs ==
    ASSUME NEW A, NEW E, NEW owner, Nil \in A, NEW x \in A \cap E,
           Slice(slices[owner], A),
           Covers(slices[owner], Len(slices[owner].arrays), slices[owner].len, E)
    PROVE  LET s == slices[owner]
               t == Appended(owner, x)
           IN  /\ Slice(t, A) /\ Covers(t, Len(t.arrays), t.len, E)
               /\ Keeps(s, t) /\ Grows(s, t, x)
<1>1. PICK s : s = slices[owner]
  OBVIOUS
<1>2. PICK arrays \in Seq(Seq(A)), len \in Nat :
         s.arrays = arrays /\ s.len = len /\ Len(arrays) \in Nat \ {0}
  BY <1>1 DEF Slice
<1>3. PICK nr \in 1..Len(arrays), array \in Seq(A) :
         nr = Len(arrays) /\ array = arrays[nr] /\ array = Last(arrays) /\ len <= Len(array)
         /\ \A n \in 1..len : array[n] \in E
  BY <1>1, <1>2, SMTT(30) DEF Covers, Last
<1>4. Array(owner) = array
  BY <1>1, <1>2, <1>3 DEF Array
<1>5. PICK t : t = Appended(owner, x)
  OBVIOUS
<1>6. CASE len < Len(array)
  <2>1. PICK new : new = [arrays EXCEPT ![nr][len + 1] = x]
    OBVIOUS
  <2>2. t = [arrays |-> new, len |-> len + 1]
    BY <1>1, <1>2, <1>3, <1>4, <1>5, <1>6, <2>1 DEF Appended
  <2>3. len + 1 \in 1..Len(array)
    BY <1>2, <1>3, <1>6
  <2>4. /\ new \in Seq(Seq(A)) /\ Len(new) = Len(arrays)
        /\ \A m \in 1..Len(arrays) : /\ Len(new[m]) = Len(arrays[m])
                                     /\ m # nr => new[m] = arrays[m]
        /\ \A n \in 1..Len(array) : new[nr][n] = IF n = len + 1 THEN x ELSE array[n]
    <3>1. PICK k : k = len + 1
      OBVIOUS
    <3>2. nr \in 1..Len(arrays) /\ k \in 1..Len(arrays[nr]) /\ x \in A
          /\ new = [arrays EXCEPT ![nr][k] = x]
      BY <1>3, <2>1, <2>3, <3>1
    <3>3. /\ new \in Seq(Seq(A)) /\ Len(new) = Len(arrays)
          /\ \A m \in 1..Len(arrays) : /\ Len(new[m]) = Len(arrays[m])
                                       /\ m # nr => new[m] = arrays[m]
          /\ \A n \in 1..Len(arrays[nr]) : new[nr][n] = IF n = k THEN x ELSE arrays[nr][n]
      BY <3>2, Written
    <3> QED  BY <1>3, <3>1, <3>3
  <2>5. \A n \in 1..len : n \in 1..Len(array) /\ n # len + 1
    BY <1>3
  <2>6. t.arrays = new /\ t.len = len + 1
    BY <2>2
  <2>7. Slice(t, A) /\ Keeps(s, t)
    BY <1>2, <2>2, <2>4, <2>6, SMTT(30) DEF Slice, Keeps
  <2>8. Grows(s, t, x)
    BY <1>2, <1>3, <2>3, <2>4, <2>5, <2>6, SMTT(30) DEF Grows, Last
  <2>9. \A n \in 1..(len + 1) : n = len + 1 \/ n \in 1..len
    OBVIOUS
  <2>10. \A n \in 1..(len + 1) : new[nr][n] \in E
    BY <1>3, <2>3, <2>4, <2>5, <2>9
  <2>11. Covers(t, Len(t.arrays), t.len, E)
    <3>1. nr = Len(t.arrays) /\ nr \in 1..Len(t.arrays) /\ t.arrays[nr] = new[nr]
      BY <1>3, <2>4, <2>6
    <3>2. len + 1 \in 0..Len(t.arrays[nr])
      <4>1. PICK m \in Nat : m = Len(array)
        OBVIOUS
      <4>2. Len(t.arrays[nr]) = m /\ len + 1 \in 1..m
        BY <1>3, <2>3, <2>4, <3>1, <4>1
      <4> QED  BY <4>2
    <3> QED  BY <2>6, <2>10, <3>1, <3>2 DEF Covers
  <2> QED  BY <1>1, <1>5, <2>7, <2>8, <2>11
<1>7. CASE ~ (len < Len(array))
  <2>1. len = Len(array) /\ Grown(len) \in Nat /\ len + 1 <= Grown(len)
    BY <1>3, <1>7 DEF Grown
  <2>2. PICK longer : longer = [n \in 1..Grown(len) |-> IF n <= len THEN array[n]
                                                        ELSE IF n = len + 1 THEN x ELSE Nil]
    OBVIOUS
  <2>3. /\ longer \in Seq(A) /\ Len(longer) = Grown(len)
        /\ \A n \in 1..len : longer[n] = array[n]
        /\ longer[len + 1] = x
    <3>1. \A n \in 1..len : n \in 1..Grown(len) /\ n <= len
      BY <2>1
    <3>2. len + 1 \in 1..Grown(len) /\ ~ (len + 1 <= len)
      BY <2>1
    <3>3. \A n \in 1..Grown(len) : longer[n] \in A
      BY <2>1, <2>2
    <3>4. longer \in [1..Grown(len) -> A]
      BY <2>2, <3>3
    <3>5. longer \in Seq(A) /\ Len(longer) = Grown(len)
      <4>1. PICK m \in Nat : m = Grown(len)
        BY <2>1
      <4>2. longer \in [1..m -> A]
        BY <3>4, <4>1
      <4>3. longer \in Seq(A) /\ Len(longer) = m
        BY <4>2
      <4> QED  BY <4>1, <4>3
    <3> QED  BY <2>2, <3>1, <3>2, <3>5
  <2>4. t = [arrays |-> Append(arrays, longer), len |-> len + 1]
    BY <1>1, <1>2, <1>3, <1>4, <1>5, <1>7, <2>2 DEF Appended
  <2>5. PICK new \in Seq(Seq(A)) :
           /\ new = Append(arrays, longer) /\ Len(new) = Len(arrays) + 1
           /\ \A m \in 1..Len(arrays) : new[m] = arrays[m]
           /\ new[Len(arrays) + 1] = longer
    <3>1. PICK new : new = Append(arrays, longer)
      OBVIOUS
    <3>2. longer \in Seq(A)
      BY <2>3
    <3>3. new \in Seq(Seq(A)) /\ Len(new) = Len(arrays) + 1
          /\ new[Len(arrays) + 1] = longer /\ \A m \in 1..Len(arrays) : new[m] = arrays[m]
      BY <3>1, <3>2
    <3> QED  BY <3>1, <3>3
  <2>6. t.arrays = new /\ t.len = len + 1
    BY <2>4, <2>5
  <2>7. Slice(t, A) /\ Keeps(s, t)
    BY <1>2, <2>4, <2>5, <2>6, SMTT(30) DEF Slice, Keeps
  <2>8. Last(t.arrays) = longer
    BY <2>5, <2>6 DEF Last
  <2>9. Grows(s, t, x)
    BY <1>2, <1>3, <2>3, <2>5, <2>6, <2>8 DEF Grows
  <2>10. \A n \in 1..(len + 1) : longer[n] \in E
    <3>1. \A n \in 1..(len + 1) : n = len + 1 \/ n \in 1..len
      OBVIOUS
    <3> QED  BY <1>3, <2>3, <3>1
  <2>11. Covers(t, Len(t.arrays), t.len, E)
    BY <2>1, <2>3, <2>5, <2>6, <2>10, SMTT(30) DEF Covers
  <2> QED  BY <1>1, <1>5, <2>7, <2>9, <2>11
<1> QED  BY <1>6, <1>7

\* A removal.
LEMMA RemovedIs ==
    ASSUME NEW A, NEW E, NEW owner, NEW k \in 1..slices[owner].len,
           Slice(slices[owner], A),
           Covers(slices[owner], Len(slices[owner].arrays), slices[owner].len, E)
    PROVE  LET s == slices[owner]
               t == Removed(owner, k)
           IN  /\ Slice(t, A) /\ Covers(t, Len(t.arrays), t.len, E)
               /\ Keeps(s, t) /\ Shrinks(s, t, k)
<1>1. PICK s : s = slices[owner]
  OBVIOUS
<1>2. PICK arrays \in Seq(Seq(A)), len \in Nat :
         s.arrays = arrays /\ s.len = len /\ Len(arrays) \in Nat \ {0} /\ k \in 1..len
  BY <1>1 DEF Slice
<1>3. PICK nr \in 1..Len(arrays), array \in Seq(A) :
         nr = Len(arrays) /\ array = arrays[nr] /\ array = Last(arrays) /\ len <= Len(array)
         /\ \A n \in 1..len : array[n] \in E
  BY <1>1, <1>2, SMTT(30) DEF Covers, Last
<1>4. Array(owner) = array
  BY <1>1, <1>2, <1>3 DEF Array
<1>5. PICK t : t = Removed(owner, k)
  OBVIOUS
<1>6. PICK x \in A \cap E : x = array[len]
  BY <1>2, <1>3
<1>7. PICK new : new = [arrays EXCEPT ![nr][k] = x]
  OBVIOUS
<1>8. t = [arrays |-> new, len |-> len - 1]
  BY <1>1, <1>2, <1>3, <1>4, <1>5, <1>6, <1>7 DEF Removed
<1>9. k \in 1..Len(array) /\ len - 1 \in Nat
  BY <1>2, <1>3
<1>10. /\ new \in Seq(Seq(A)) /\ Len(new) = Len(arrays)
       /\ \A m \in 1..Len(arrays) : /\ Len(new[m]) = Len(arrays[m])
                                    /\ m # nr => new[m] = arrays[m]
       /\ \A n \in 1..Len(array) : new[nr][n] = IF n = k THEN x ELSE array[n]
  <2>1. nr \in 1..Len(arrays) /\ k \in 1..Len(arrays[nr]) /\ x \in A
        /\ new = [arrays EXCEPT ![nr][k] = x]
    BY <1>3, <1>6, <1>7, <1>9
  <2>2. /\ new \in Seq(Seq(A)) /\ Len(new) = Len(arrays)
        /\ \A m \in 1..Len(arrays) : /\ Len(new[m]) = Len(arrays[m])
                                     /\ m # nr => new[m] = arrays[m]
        /\ \A n \in 1..Len(arrays[nr]) : new[nr][n] = IF n = k THEN x ELSE arrays[nr][n]
    BY <2>1, Written
  <2> QED  BY <1>3, <2>2
<1>11. t.arrays = new /\ t.len = len - 1
  BY <1>8
<1>12. Slice(t, A) /\ Keeps(s, t)
  BY <1>2, <1>8, <1>9, <1>10, <1>11, SMTT(30) DEF Slice, Keeps
<1>13. Shrinks(s, t, k)
  <2>1. t.len = s.len - 1 /\ Len(t.arrays) = Len(s.arrays)
    BY <1>2, <1>10, <1>11
  <2>2. \A m \in 1..Len(arrays) : \A n \in 1..Len(arrays[m]) :
           new[m][n] = IF m = nr /\ n = k THEN x ELSE arrays[m][n]
    <3> SUFFICES ASSUME NEW m \in 1..Len(arrays), NEW n \in 1..Len(arrays[m])
                 PROVE  new[m][n] = IF m = nr /\ n = k THEN x ELSE arrays[m][n]
      OBVIOUS
    <3>1. CASE m = nr
      BY <1>3, <1>10, <3>1
    <3>2. CASE m # nr
      BY <1>10, <3>2
    <3> QED  BY <3>1, <3>2
  <2>3. x = Last(s.arrays)[s.len] /\ nr = Len(s.arrays)
    BY <1>2, <1>3, <1>6
  <2> QED  BY <1>2, <1>11, <2>1, <2>2, <2>3 DEF Shrinks
<1>14. \A n \in 1..(len - 1) : n \in 1..len /\ n \in 1..Len(array)
  BY <1>3
<1>15. \A n \in 1..(len - 1) : new[nr][n] \in E
  BY <1>3, <1>6, <1>10, <1>14
<1>16. Covers(t, Len(t.arrays), t.len, E)
  <2>1. nr = Len(t.arrays) /\ nr \in 1..Len(t.arrays) /\ t.arrays[nr] = new[nr]
    BY <1>3, <1>10, <1>11
  <2>2. len - 1 \in 0..Len(t.arrays[nr])
    <3>1. PICK m \in Nat : m = Len(array)
      OBVIOUS
    <3>2. Len(new[nr]) = Len(array)
      BY <1>3, <1>10
    <3>3. Len(t.arrays[nr]) = m
      BY <2>1, <3>1, <3>2
    <3>4. len <= m /\ len - 1 \in Nat
      BY <1>3, <1>9, <3>1
    <3> QED  BY <1>2, <3>3, <3>4
  <2> QED  BY <1>11, <1>15, <2>1, <2>2 DEF Covers
<1> QED  BY <1>1, <1>5, <1>12, <1>13, <1>16

----------------------------------------------------------------------------
(* What the arrays hold.                                                    *)

\* The elements an array of an owner may hold, and those a slice of it may cover:
\* subscribers there are, and what the owner was once subscribed to.
Anything(o) == (IF o = DB THEN Subscribers ELSE Subscriptions) \cup {Nil}
Elements(o, owners, e) == IF o = DB THEN owners \ {DB}
                                    ELSE {x \in Subscriptions : <<o[1], x>> \in e}

\* The slices of the storage,
Shaped(sl, e) ==
    /\ sl = [o \in DOMAIN sl |-> sl[o]]
    /\ DB \in DOMAIN sl /\ DOMAIN sl \subseteq {DB} \cup Subscribers
    /\ \A o \in DOMAIN sl :
          /\ Slice(sl[o], Anything(o))
          /\ Covers(sl[o], Len(sl[o].arrays), sl[o].len, Elements(o, DOMAIN sl, e))

\* and a slice that was copied from it.
Copies == [owner : {DB} \cup Subscribers, nr : Nat, len : Nat]
Known(sl, c, e) ==
    /\ c.owner \in DOMAIN sl
    /\ Covers(sl[c.owner], c.nr, c.len, Elements(c.owner, DOMAIN sl, e))

\* What the loops see through the slices copied.
Views(sl, cs, views) ==
    /\ Len(views) = Len(cs)
    /\ \A n \in 1..Len(cs) :
          /\ Len(views[n]) = cs[n].len
          /\ \A m \in 1..cs[n].len : views[n][m] = sl[cs[n].owner].arrays[cs[n].nr][m]

\* The slices, who has copied them, and where the list is from.
SafeInv ==
    /\ Shaped(slices, ever)
    /\ all \in Copies /\ all.owner = DB /\ Known(slices, all, ever)
    /\ copies \in Seq(Copies) /\ Len(copies) <= all.len
    /\ \A n \in 1..Len(copies) : copies[n].owner # DB /\ Known(slices, copies[n], ever)
    /\ subscribers \in Seq(Seq(Subscriptions)) /\ Views(slices, copies, subscribers)
    /\ got \in BOOLEAN /\ (got => Len(copies) = all.len) /\ (~ got => i = 1 /\ j = 1)
    /\ \A n \in 1..Len(subscriptions) : \E p \in ever : p[2] = subscriptions[n]

\* The database is no subscriber.
LEMMA DBIsNone == DB \notin Subscribers
BY DEF DB, Subscribers

\* A function of 1..len is a sequence.
LEMMA FunctionIsSeq ==
    ASSUME NEW E, NEW len \in Nat, NEW s \in [1..len -> E]
    PROVE  s \in Seq(E) /\ Len(s) = len
OBVIOUS

\* Appending to a sequence.
LEMMA AppendIs ==
    ASSUME NEW S, NEW s \in Seq(S), NEW x \in S
    PROVE  /\ Append(s, x) \in Seq(S) /\ Len(Append(s, x)) = Len(s) + 1
           /\ \A n \in 1..Len(s) : Append(s, x)[n] = s[n]
           /\ Append(s, x)[Len(s) + 1] = x
OBVIOUS

\* What is seen through a slice.
SeenIn(sl, c) == SubSeq(sl[c.owner].arrays[c.nr], 1, c.len)

LEMMA SeenIs ==
    ASSUME NEW sl, NEW c \in Copies, NEW e, Shaped(sl, e), Known(sl, c, e)
    PROVE  /\ SeenIn(sl, c) \in Seq(Elements(c.owner, DOMAIN sl, e))
           /\ Len(SeenIn(sl, c)) = c.len
           /\ \A n \in 1..c.len : SeenIn(sl, c)[n] = sl[c.owner].arrays[c.nr][n]
<1>0. PICK seen : seen = SeenIn(sl, c)
  OBVIOUS
<1> DEFINE A == Anything(c.owner)
<1>1. PICK array \in Seq(A), len \in Nat :
         array = sl[c.owner].arrays[c.nr] /\ len = c.len /\ len <= Len(array)
         /\ \A n \in 1..len : array[n] \in Elements(c.owner, DOMAIN sl, e)
  <2>1. Slice(sl[c.owner], Anything(c.owner))
    BY DEF Shaped, Known
  <2>2. sl[c.owner].arrays[c.nr] \in Seq(Anything(c.owner))
    BY <2>1 DEF Slice, Known, Covers
  <2>3. c.len \in Nat
    BY DEF Copies
  <2>4. c.len \in 0..Len(sl[c.owner].arrays[c.nr])
        /\ \A n \in 1..c.len :
              sl[c.owner].arrays[c.nr][n] \in Elements(c.owner, DOMAIN sl, e)
    BY DEF Known, Covers
  <2>5. c.len <= Len(sl[c.owner].arrays[c.nr])
    BY <2>2, <2>3, <2>4
  <2> HIDE DEF A
  <2> QED  BY <2>2, <2>3, <2>4, <2>5 DEF A
<1>2. PICK E : E = Elements(c.owner, DOMAIN sl, e)
  OBVIOUS
<1>3. seen = [n \in 1..len |-> array[n]] /\ Len(seen) = len
  <2>1. seen = SubSeq(array, 1, len)
    BY <1>0, <1>1, Zenon DEF SeenIn
  <2>2. array \in Seq(A) /\ len \in 0..Len(array)
    BY <1>1
  <2> HIDE DEF A
  <2> QED  BY <2>1, <2>2
<1>4. seen \in [1..len -> E]
  BY <1>1, <1>2, <1>3
<1>5. seen \in Seq(E)
  <2>1. len \in Nat
    BY <1>1
  <2> QED  BY <1>4, <2>1, FunctionIsSeq
<1> QED  BY <1>0, <1>1, <1>2, <1>3, <1>5

\* The slice an owner has now.
LEMMA CopyIs ==
    ASSUME NEW e, Shaped(slices, e), NEW o \in DOMAIN slices
    PROVE  /\ Copy(o) \in Copies /\ Copy(o).owner = o /\ Known(slices, Copy(o), e)
           /\ Copy(o).nr = Len(slices[o].arrays) /\ Copy(o).len = slices[o].len
           /\ Contents(o) = SubSeq(slices[o].arrays[Copy(o).nr], 1, Copy(o).len)
<1>1. Slice(slices[o], Anything(o))
  BY DEF Shaped
<1>2. Copy(o) \in Copies
  BY <1>1 DEF Shaped, Copies, Copy, Slice
<1>3. Known(slices, Copy(o), e)
  BY DEF Shaped, Known, Copy
<1> QED  BY <1>2, <1>3 DEF Copy, Contents, Array, Last

\* A slice of the first elements of its only array.
LEMMA OneArray ==
    ASSUME NEW A, NEW E, NEW array \in Seq(A), NEW len \in 0..Len(array),
           \A n \in 1..len : array[n] \in E
    PROVE  LET s == [arrays |-> <<array>>, len |-> len]
           IN  /\ Slice(s, A) /\ Covers(s, Len(s.arrays), s.len, E)
               /\ s.len = len /\ Len(s.arrays) = 1 /\ s.arrays[1] = array
<1>1. PICK arrays : arrays = <<array>>
  OBVIOUS
<1>2. arrays \in Seq(Seq(A)) /\ Len(arrays) = 1 /\ arrays[1] = array
  BY <1>1
<1>3. PICK s : s = [arrays |-> arrays, len |-> len]
  OBVIOUS
<1>4. s.arrays = arrays /\ s.len = len
  BY <1>3
<1>5. s = [arrays |-> s.arrays, len |-> s.len] /\ s.len \in Nat
  BY <1>3
<1>6. Slice(s, A)
  <2>1. s.arrays \in Seq(Seq(A))
    BY <1>2, <1>4
  <2>2. Len(s.arrays) = 1
    BY <1>2, <1>4
  <2> QED  BY <1>5, <2>1, <2>2 DEF Slice
<1>7. Len(s.arrays) = 1 /\ s.arrays[1] = array /\ s.len \in 0..Len(array)
  BY <1>2, <1>4
<1>8. Covers(s, Len(s.arrays), s.len, E)
  BY <1>4, <1>7 DEF Covers
<1> QED  BY <1>1, <1>3, <1>4, <1>6, <1>7, <1>8

\* A slice that covers its only array.
LEMMA LiteralIs ==
    ASSUME NEW A, NEW E, NEW elements \in Seq(A), \A n \in 1..Len(elements) : elements[n] \in E
    PROVE  LET s == Literal(elements)
           IN  /\ Slice(s, A) /\ Covers(s, Len(s.arrays), s.len, E)
               /\ s.len = Len(elements) /\ Len(s.arrays) = 1 /\ s.arrays[1] = elements
<1>1. PICK len : len = Len(elements)
  OBVIOUS
<1>2. len \in 0..Len(elements) /\ \A n \in 1..len : elements[n] \in E
  BY <1>1
<1>3. PICK s : s = [arrays |-> <<elements>>, len |-> len]
  OBVIOUS
<1>4. /\ Slice(s, A) /\ Covers(s, Len(s.arrays), s.len, E)
      /\ s.len = len /\ Len(s.arrays) = 1 /\ s.arrays[1] = elements
  BY <1>2, <1>3, OneArray
<1> QED  BY <1>1, <1>3, <1>4 DEF Literal

\* A slice at the beginning.
LEMMA ListIs ==
    ASSUME NEW list \in Lists
    PROVE  /\ Slice(list, Subscriptions \cup {Nil}) /\ Len(list.arrays) = 1
           /\ Covers(list, Len(list.arrays), list.len, Subscriptions)
           /\ \A m, n \in 1..list.len : Equals(list.arrays[1][m], list.arrays[1][n]) => m = n
<1>1. /\ list \in [arrays : Seq(Seq(Subscriptions \cup {Nil})), len : Nat]
      /\ Len(list.arrays) = 1 /\ list.len <= Len(list.arrays[1])
      /\ \A n \in 1..list.len : list.arrays[1][n] \in Subscriptions
      /\ \A m, n \in 1..list.len : Equals(list.arrays[1][m], list.arrays[1][n]) => m = n
  BY ListsAssumption
<1>2. Slice(list, Subscriptions \cup {Nil})
  BY <1>1 DEF Slice
<1>3. list.len \in 0..Len(list.arrays[1])
  BY <1>1
<1> QED  BY <1>1, <1>2, <1>3 DEF Covers

----------------------------------------------------------------------------
(* Who is subscribed to what.                                               *)

\* The slices say who is a subscriber, and what is among a subscriber's subscriptions.
InDB(sl, s) == \E n \in 1..sl[DB].len : Last(sl[DB].arrays)[n] = s
InSlice(sl, s, x) == \E n \in 1..sl[s].len : Last(sl[s].arrays)[n] = x
Has(sl, p) ==
    \E s \in DOMAIN sl \ {DB} : InDB(sl, s) /\ s[1] = p[1] /\ InSlice(sl, s, p[2])

\* Contents, Stored, Held and Subscribed of slices sl.
ContentsIn(sl, o) == SubSeq(Last(sl[o].arrays), 1, sl[o].len)
StoredIn(sl, email) ==
    {s \in {ContentsIn(sl, DB)[n] : n \in 1..sl[DB].len} : s[1] = email}
HeldIn(sl, email) ==
    UNION {{ContentsIn(sl, s)[n] : n \in 1..sl[s].len} : s \in StoredIn(sl, email)}
SubscribedIn(sl) == UNION {{email} \X HeldIn(sl, email) : email \in Emails}

\* The contents of a slice are those of its latest array.
LEMMA ContentsAre ==
    ASSUME NEW sl, NEW e, Shaped(sl, e), NEW o \in DOMAIN sl
    PROVE  /\ ContentsIn(sl, o) \in Seq(Elements(o, DOMAIN sl, e))
           /\ Len(ContentsIn(sl, o)) = sl[o].len
           /\ \A n \in 1..sl[o].len : /\ ContentsIn(sl, o)[n] = Last(sl[o].arrays)[n]
                                      /\ ContentsIn(sl, o)[n] \in Elements(o, DOMAIN sl, e)
<1>1. PICK c \in Copies : c = [owner |-> o, nr |-> Len(sl[o].arrays), len |-> sl[o].len]
  BY DEF Shaped, Slice, Copies
<1>2. c.owner = o /\ c.nr = Len(sl[o].arrays) /\ c.len = sl[o].len
  BY <1>1
<1>3. Covers(sl[o], Len(sl[o].arrays), sl[o].len, Elements(o, DOMAIN sl, e))
  BY DEF Shaped
<1>4. Known(sl, c, e)
  BY <1>2, <1>3 DEF Known
<1>5. c \in Copies
  BY <1>1
<1>6. /\ SeenIn(sl, c) \in Seq(Elements(c.owner, DOMAIN sl, e))
      /\ Len(SeenIn(sl, c)) = c.len
      /\ \A n \in 1..c.len : SeenIn(sl, c)[n] = sl[c.owner].arrays[c.nr][n]
  BY <1>4, <1>5, SeenIs
<1>7. SeenIn(sl, c) = ContentsIn(sl, o)
  BY <1>2 DEF SeenIn, ContentsIn, Last
<1>8. \A n \in 1..sl[o].len : Last(sl[o].arrays)[n] \in Elements(o, DOMAIN sl, e)
  BY <1>3 DEF Covers, Last
<1> QED  BY <1>2, <1>6, <1>7, <1>8 DEF Last

\* Who is stored, and who is subscribed to what.
LEMMA SubscribedIs ==
    ASSUME NEW sl, NEW e, Shaped(sl, e)
    PROVE  /\ \A s : InDB(sl, s) => s \in DOMAIN sl \ {DB}
           /\ \A email : \A s : s \in StoredIn(sl, email) <=> InDB(sl, s) /\ s[1] = email
           /\ \A email : \A x : x \in HeldIn(sl, email) <=> Has(sl, <<email, x>>)
           /\ \A p : p \in SubscribedIn(sl) <=> p \in Emails \X Subscriptions /\ Has(sl, p)
<1>1. DB \in DOMAIN sl
  BY DEF Shaped
<1>2. \A n \in 1..sl[DB].len : /\ ContentsIn(sl, DB)[n] = Last(sl[DB].arrays)[n]
                               /\ ContentsIn(sl, DB)[n] \in DOMAIN sl \ {DB}
  BY <1>1, ContentsAre, ZenonT(40) DEF Elements
<1>3. \A s \in DOMAIN sl \ {DB} : \A n \in 1..sl[s].len :
         ContentsIn(sl, s)[n] = Last(sl[s].arrays)[n] /\ ContentsIn(sl, s)[n] \in Subscriptions
  <2> SUFFICES ASSUME NEW s \in DOMAIN sl \ {DB}, NEW n \in 1..sl[s].len
               PROVE  ContentsIn(sl, s)[n] = Last(sl[s].arrays)[n]
                      /\ ContentsIn(sl, s)[n] \in Subscriptions
    OBVIOUS
  <2>1. ContentsIn(sl, s)[n] = Last(sl[s].arrays)[n]
        /\ ContentsIn(sl, s)[n] \in Elements(s, DOMAIN sl, e)
    BY ContentsAre
  <2> QED  BY <2>1 DEF Elements
<1>4. \A s : InDB(sl, s) => s \in DOMAIN sl \ {DB}
  BY <1>2 DEF InDB
<1>5. \A email : \A s : s \in StoredIn(sl, email) <=> InDB(sl, s) /\ s[1] = email
  BY <1>2 DEF InDB, StoredIn
<1>6. \A email : \A x : x \in HeldIn(sl, email) <=> Has(sl, <<email, x>>)
  BY <1>3, <1>4, <1>5 DEF InSlice, HeldIn, Has
<1>7. \A email : \A x : x \in HeldIn(sl, email) => x \in Subscriptions
  BY <1>3, <1>4, <1>5 DEF HeldIn
<1>8. \A p : p \in SubscribedIn(sl) <=> p \in Emails \X Subscriptions /\ Has(sl, p)
  BY <1>6, <1>7 DEF SubscribedIn, Has
<1> QED  BY <1>4, <1>5, <1>6, <1>8

\* They are what SliceStorage says of the storage.
LEMMA SubscribedNow ==
    /\ \A o : ContentsIn(slices, o) = Contents(o)
    /\ \A email : StoredIn(slices, email) = Stored(email)
    /\ \A email : HeldIn(slices, email) = Held(email)
    /\ SubscribedIn(slices) = Subscribed
    /\ SubscribedIn(slices') = Subscribed'
BY DEF ContentsIn, Contents, Array, StoredIn, Stored, HeldIn, Held, SubscribedIn, Subscribed

\* No two subscribers have the same e-mail, and no two elements of a slice are equal.
Apart(sl) ==
    /\ \A m, n \in 1..sl[DB].len :
          Last(sl[DB].arrays)[m][1] = Last(sl[DB].arrays)[n][1] => m = n
    /\ \A o \in DOMAIN sl \ {DB} : \A m, n \in 1..sl[o].len :
          Equals(Last(sl[o].arrays)[m], Last(sl[o].arrays)[n]) => m = n

\* Nothing is copied at first, and the arrays are those of the lists.
LEMMA InitShaped ==
    ASSUME LiveInit
    PROVE  Shaped(slices, ever) /\ Apart(slices)
<1> DEFINE Elems(n, emails, room) ==
              [h \in 1..(n + room) |-> IF h <= n THEN <<emails[h], 1>> ELSE Nil]
           Begins(n, emails, lists, room) ==
              slices = [owner \in {DB} \cup {<<emails[h], 1>> : h \in 1..n} |->
                           IF owner = DB
                           THEN [arrays |-> <<Elems(n, emails, room)>>, len |-> n]
                           ELSE lists[owner[1]]]
<1>1. PICK n \in 0..Cardinality(Emails) : \E emails \in [1..n -> Emails] :
         /\ \A h, k \in 1..n : emails[h] = emails[k] => h = k
         /\ \E lists \in [Emails -> Lists] : \E room \in 0..MaxChanges :
               Begins(n, emails, lists, room)
  BY DEF LiveInit
<1>2. PICK emails \in [1..n -> Emails], lists \in [Emails -> Lists], room \in 0..MaxChanges :
         /\ \A h, k \in 1..n : emails[h] = emails[k] => h = k
         /\ Begins(n, emails, lists, room)
  <2> HIDE DEF Begins
  <2>1. PICK emails \in [1..n -> Emails] :
           /\ \A h, k \in 1..n : emails[h] = emails[k] => h = k
           /\ \E lists \in [Emails -> Lists] : \E room \in 0..MaxChanges :
                 Begins(n, emails, lists, room)
    BY <1>1
  <2>2. PICK lists \in [Emails -> Lists], room \in 0..MaxChanges :
           Begins(n, emails, lists, room)
    BY <2>1
  <2> QED  BY <2>1, <2>2
<1>3. n \in Nat
  BY <1>1
<1>4. \A h \in 1..n : <<emails[h], 1>> \in Subscribers
  <2>1. 1 \in 1..(MaxChanges + 1)
    BY ChangesAssumption
  <2> QED  BY <1>2, <2>1 DEF Subscribers
<1>5. /\ DOMAIN slices = {DB} \cup {<<emails[h], 1>> : h \in 1..n}
      /\ slices = [o \in DOMAIN slices |-> slices[o]]
  BY <1>2
<1>6. DB \in DOMAIN slices /\ DOMAIN slices \subseteq {DB} \cup Subscribers
  BY <1>4, <1>5
<1>7. PICK first : first = Elems(n, emails, room)
  OBVIOUS
<1>8. /\ slices[DB] = [arrays |-> <<first>>, len |-> n]
      /\ \A h \in 1..n : first[h] = <<emails[h], 1>>
  <2>1. slices[DB] = [arrays |-> <<first>>, len |-> n]
    BY <1>2, <1>5, <1>7
  <2>2. \A h \in 1..n : h \in 1..(n + room) /\ h <= n
    BY <1>2, <1>3, ChangesAssumption
  <2> QED  BY <1>7, <2>1, <2>2
<1>9. \A o \in DOMAIN slices \ {DB} :
         o[1] \in Emails /\ slices[o] \in Lists /\ slices[o] = lists[o[1]]
  BY <1>2, <1>4, <1>5
<1>10. /\ Slice(slices[DB], Anything(DB)) /\ Len(slices[DB].arrays) = 1
       /\ Covers(slices[DB], 1, n, Elements(DB, DOMAIN slices, {}))
       /\ slices[DB].arrays[1] = first /\ slices[DB].len = n
  <2>1. PICK size \in Nat : size = n + room
    BY <1>2, <1>3, ChangesAssumption
  <2>2. first \in [1..size -> Subscribers \cup {Nil}]
    <3>1. \A h \in 1..size : h <= n => h \in 1..n
      BY <1>3
    <3> QED  BY <1>4, <1>7, <2>1, <3>1
  <2>3. first \in Seq(Subscribers \cup {Nil}) /\ Len(first) = size
    BY <2>1, <2>2, FunctionIsSeq
  <2>4. n \in 0..Len(first)
    BY <1>2, <1>3, <2>1, <2>3, ChangesAssumption
  <2>5. \A h \in 1..n : first[h] \in DOMAIN slices \ {DB}
    BY <1>4, <1>5, <1>8, DBIsNone
  <2>6. PICK s : s = [arrays |-> <<first>>, len |-> n]
    OBVIOUS
  <2>7. /\ Slice(s, Subscribers \cup {Nil})
        /\ Covers(s, Len(s.arrays), s.len, DOMAIN slices \ {DB})
        /\ s.len = n /\ Len(s.arrays) = 1 /\ s.arrays[1] = first
    <3> HIDE DEF Elems
    <3> QED  BY <2>3, <2>4, <2>5, <2>6, OneArray
  <2>8. s = slices[DB]
    BY <1>8, <2>6
  <2> QED  BY <2>7, <2>8 DEF Anything, Elements
<1>11. \A o \in DOMAIN slices \ {DB} :
         /\ Slice(slices[o], Anything(o)) /\ Len(slices[o].arrays) = 1
         /\ Covers(slices[o], 1, slices[o].len, Subscriptions)
         /\ \A m, k \in 1..slices[o].len :
               Equals(slices[o].arrays[1][m], slices[o].arrays[1][k]) => m = k
  <2> SUFFICES ASSUME NEW o \in DOMAIN slices \ {DB}
               PROVE  /\ Slice(slices[o], Anything(o)) /\ Len(slices[o].arrays) = 1
                      /\ Covers(slices[o], 1, slices[o].len, Subscriptions)
                      /\ \A m, k \in 1..slices[o].len :
                            Equals(slices[o].arrays[1][m], slices[o].arrays[1][k]) => m = k
    OBVIOUS
  <2>1. PICK list \in Lists : list = slices[o]
    BY <1>9
  <2> QED  BY <2>1, ListIs DEF Anything
<1>12. PICK e : e = Emails \X Subscriptions
  OBVIOUS
<1>13. \A o \in DOMAIN slices \ {DB} : Elements(o, DOMAIN slices, e) = Subscriptions
  BY <1>9, <1>12 DEF Elements
<1>14. Shaped(slices, e)
  <2>1. Elements(DB, DOMAIN slices, e) = Elements(DB, DOMAIN slices, {})
    BY DEF Elements
  <2>2. \A o \in DOMAIN slices :
          /\ Slice(slices[o], Anything(o))
          /\ Covers(slices[o], Len(slices[o].arrays), slices[o].len, Elements(o, DOMAIN slices, e))
    BY <1>10, <1>11, <1>13, <2>1
  <2> QED  BY <1>5, <1>6, <2>2 DEF Shaped
<1>15. \A o \in DOMAIN slices \ {DB} : InDB(slices, o)
  <2> SUFFICES ASSUME NEW o \in DOMAIN slices \ {DB}
               PROVE  InDB(slices, o)
    OBVIOUS
  <2>1. PICK h \in 1..n : o = <<emails[h], 1>>
    BY <1>5
  <2>2. first[h] = o
    BY <1>8, <2>1
  <2> QED  BY <1>10, <2>2 DEF InDB, Last
<1>16. ever = SubscribedIn(slices)
  BY SubscribedNow DEF LiveInit
<1>17. \A o \in DOMAIN slices \ {DB} : \A k \in 1..slices[o].len :
          slices[o].arrays[1][k] \in Elements(o, DOMAIN slices, ever)
  <2> SUFFICES ASSUME NEW o \in DOMAIN slices \ {DB}, NEW k \in 1..slices[o].len
               PROVE  slices[o].arrays[1][k] \in Elements(o, DOMAIN slices, ever)
    OBVIOUS
  <2>1. PICK x \in Subscriptions : x = slices[o].arrays[1][k]
    BY <1>11 DEF Covers
  <2>2. InSlice(slices, o, x)
    BY <1>11, <2>1 DEF InSlice, Last
  <2>3. PICK p \in Emails \X Subscriptions : p = <<o[1], x>>
    BY <1>9
  <2>4. p[1] = o[1] /\ p[2] = x
    BY <2>3
  <2>5. Has(slices, p)
    BY <1>15, <2>2, <2>4 DEF Has
  <2>6. p \in ever
    BY <1>14, <1>16, <2>5, SubscribedIs
  <2> QED  BY <2>1, <2>3, <2>6 DEF Elements
<1>18. \A o \in DOMAIN slices :
         /\ Slice(slices[o], Anything(o))
         /\ Covers(slices[o], Len(slices[o].arrays), slices[o].len,
                   Elements(o, DOMAIN slices, ever))
  <2> SUFFICES ASSUME NEW o \in DOMAIN slices
               PROVE  /\ Slice(slices[o], Anything(o))
                      /\ Covers(slices[o], Len(slices[o].arrays), slices[o].len,
                                Elements(o, DOMAIN slices, ever))
    OBVIOUS
  <2>1. CASE o = DB
    BY <1>10, <2>1 DEF Elements
  <2>2. CASE o # DB
    BY <1>11, <1>17, <2>2 DEF Covers
  <2> QED  BY <2>1, <2>2
<1>19. Apart(slices)
  <2>1. \A m, k \in 1..n : first[m][1] = first[k][1] => m = k
    BY <1>2, <1>8
  <2> QED  BY <1>10, <1>11, <2>1 DEF Apart, Last
<1> QED  BY <1>5, <1>6, <1>18, <1>19 DEF Shaped

LEMMA InitSafe == LiveInit => SafeInv
<1> SUFFICES ASSUME LiveInit PROVE SafeInv
  OBVIOUS
<1>1. Shaped(slices, ever) /\ DB \in DOMAIN slices
  BY InitShaped DEF Shaped
<1>2. all \in Copies /\ all.owner = DB /\ Known(slices, all, ever)
  BY <1>1, CopyIs DEF LiveInit
<1>3. all.len \in Nat
  BY <1>2 DEF Copies
<1>4. copies \in Seq(Copies) /\ Len(copies) = 0
  BY DEF LiveInit
<1>5. subscribers \in Seq(Seq(Subscriptions)) /\ Len(subscribers) = 0
  BY DEF LiveInit, Init
<1>6. Views(slices, copies, subscribers)
  BY <1>4, <1>5 DEF Views
<1>7. got = FALSE /\ i = 1 /\ j = 1 /\ subscriptions = <<>>
  BY DEF LiveInit, Init
<1>8. /\ Len(copies) <= all.len
      /\ \A n \in 1..Len(copies) : copies[n].owner # DB /\ Known(slices, copies[n], ever)
  BY <1>3, <1>4
<1>9. /\ got \in BOOLEAN /\ (got => Len(copies) = all.len) /\ (~ got => i = 1 /\ j = 1)
      /\ \A n \in 1..Len(subscriptions) : \E p \in ever : p[2] = subscriptions[n]
  <2>1. \A n \in 1..Len(subscriptions) : FALSE
    BY <1>7
  <2> QED  BY <1>7, <2>1
<1> QED  BY <1>1, <1>2, <1>4, <1>5, <1>6, <1>8, <1>9 DEF SafeInv

----------------------------------------------------------------------------
(* GetSubscribers and GenerateScrapeList.                                   *)

LiveInv == Inv /\ SafeInv

\* The next subscriber is one there is, and the loops see its subscriptions.
LEMMA CopySafe ==
    ASSUME LiveInv, CopySubscriber
    PROVE  Copied /\ SafeInv'
<1>1. /\ Shaped(slices, ever) /\ DB \in DOMAIN slices
      /\ all \in Copies /\ all.owner = DB /\ Known(slices, all, ever)
      /\ copies \in Seq(Copies) /\ subscribers \in Seq(Seq(Subscriptions))
      /\ Views(slices, copies, subscribers) /\ (got => Len(copies) = all.len)
  BY DEF LiveInv, SafeInv, Shaped
<1>2. PICK n \in Nat : n = Len(copies) /\ n = Len(subscribers)
  BY <1>1 DEF Views
<1>3. PICK s : s = Seen(all)[n + 1]
  OBVIOUS
<1>4. /\ copies' = Append(copies, Copy(s)) /\ subscribers' = Append(subscribers, Contents(s))
      /\ UNCHANGED <<slices, all, ever, got, loops>>
  BY <1>2, <1>3 DEF CopySubscriber
<1>5. n + 1 \in 1..all.len /\ ~ got
  BY <1>1, <1>2 DEF CopySubscriber, Copies
<1>6. s \in DOMAIN slices \ {DB}
  <2>1. \A m \in 1..all.len : Seen(all)[m] = slices[DB].arrays[all.nr][m]
    BY <1>1, SeenIs DEF SeenIn, Seen
  <2>2. \A m \in 1..all.len : slices[DB].arrays[all.nr][m] \in DOMAIN slices \ {DB}
    BY <1>1 DEF Known, Covers, Elements
  <2> QED  BY <1>3, <1>5, <2>1, <2>2
<1>7. PICK c \in Copies : c = Copy(s)
  BY <1>1, <1>6, CopyIs
<1>8. /\ c.owner = s /\ Known(slices, c, ever) /\ c.nr = Len(slices[s].arrays)
      /\ c.len = slices[s].len
  BY <1>1, <1>6, <1>7, CopyIs
<1>9. PICK view : view = Contents(s)
  OBVIOUS
<1>10. /\ view \in Seq(Subscriptions) /\ Len(view) = c.len
       /\ \A m \in 1..c.len : view[m] = slices[c.owner].arrays[c.nr][m]
  <2>1. view = ContentsIn(slices, s)
    BY <1>9, SubscribedNow
  <2>2. PICK E : E = Elements(s, DOMAIN slices, ever)
    OBVIOUS
  <2>3. view \in Seq(E) /\ Len(view) = slices[s].len
        /\ \A m \in 1..slices[s].len : view[m] = Last(slices[s].arrays)[m]
    BY <1>1, <1>6, <2>1, <2>2, ContentsAre
  <2>4. E \subseteq Subscriptions
    BY <1>6, <2>2 DEF Elements
  <2>5. view \in Seq(Subscriptions)
    BY <2>3, <2>4
  <2> QED  BY <1>8, <2>3, <2>5 DEF Last
<1>11. /\ copies' \in Seq(Copies) /\ Len(copies') = n + 1 /\ copies'[n + 1] = c
       /\ \A m \in 1..n : copies'[m] = copies[m]
  <2>1. copies \in Seq(Copies) /\ c \in Copies
    BY <1>1, <1>7
  <2>2. copies' = Append(copies, c)
    BY <1>4, <1>7
  <2>3. Len(copies) = n
    BY <1>2
  <2> QED  BY <2>1, <2>2, <2>3, AppendIs
<1>12. /\ subscribers' \in Seq(Seq(Subscriptions)) /\ Len(subscribers') = n + 1
       /\ subscribers'[n + 1] = view /\ \A m \in 1..n : subscribers'[m] = subscribers[m]
  BY <1>1, <1>2, <1>4, <1>9, <1>10
<1>13. \A m \in 1..(n + 1) : m \in 1..n \/ m = n + 1
  OBVIOUS
<1>14. Views(slices, copies', subscribers')
  <2> SUFFICES ASSUME NEW m \in 1..(n + 1)
               PROVE  /\ Len(subscribers'[m]) = copies'[m].len
                      /\ \A k \in 1..copies'[m].len :
                            subscribers'[m][k]
                               = slices[copies'[m].owner].arrays[copies'[m].nr][k]
    BY <1>11, <1>12 DEF Views
  <2>1. CASE m \in 1..n
    <3>1. copies'[m] = copies[m] /\ subscribers'[m] = subscribers[m]
      BY <1>11, <1>12, <2>1
    <3>2. m \in 1..Len(copies)
      BY <1>2, <2>1
    <3> QED  BY <1>1, <3>1, <3>2 DEF Views
  <2>2. CASE m = n + 1
    BY <1>10, <1>11, <1>12, <2>2
  <2> QED  BY <1>13, <2>1, <2>2
<1>15. \A m \in 1..(n + 1) : copies'[m].owner # DB /\ Known(slices, copies'[m], ever)
  BY <1>2, <1>6, <1>8, <1>11, <1>13 DEF LiveInv, SafeInv
<1>16. Copied
  <2>1. DOMAIN subscribers = 1..n
    BY <1>1, <1>2
  <2> QED  BY <1>2, <1>4, <1>5, <1>12, <2>1 DEF Copied
<1>17. SafeInv'
  <2>1. Len(copies') <= all.len /\ ~ got'
    BY <1>4, <1>5, <1>11, <1>1 DEF Copies
  <2>2. \A m \in 1..Len(copies') : copies'[m].owner # DB /\ Known(slices, copies'[m], ever)
    BY <1>11, <1>15
  <2> QED  BY <1>1, <1>4, <1>5, <1>11, <1>12, <1>14, <2>1, <2>2 DEF SafeInv, LiveInv, loops
<1> QED  BY <1>16, <1>17

\* What the loops look at is in an array, where only what was stored is.
LEMMA LoopSafe ==
    ASSUME LiveInv, Loop
    PROVE  [Next]_vars /\ SafeInv'
<1>1. /\ UNCHANGED <<slices, all, copies, ever>>
      /\ (GotSubscribers /\ Len(copies) = all.len) \/ NextSubscriber \/ Collect \/ Skip
  BY DEF Loop, ReturnSubscribers
<1>2. [Next]_vars
  BY <1>1 DEF Next
<1>3. subscribers' = subscribers /\ (got' => Len(copies) = all.len) /\ got' \in BOOLEAN
      /\ (~ got' => i' = 1 /\ j' = 1)
  BY <1>1 DEF GotSubscribers, NextSubscriber, Collect, Skip, Look, Looking, LiveInv, SafeInv
<1>4. \A n \in 1..Len(subscriptions') : \E p \in ever : p[2] = subscriptions'[n]
  <2>1. CASE UNCHANGED subscriptions
    BY <2>1 DEF LiveInv, SafeInv
  <2>2. CASE Collect
    <3>1. PICK x \in Subscriptions : x = subscribers[i][j]
      BY <2>2, Looked DEF Collect, LiveInv
    <3>2. PICK list \in Seq(Subscriptions) : list = subscriptions
      BY DEF LiveInv, Inv, ScrapeListInv
    <3>3. subscriptions' = Append(list, x)
      BY <2>2, <3>1, <3>2 DEF Collect
    <3>4. \E p \in ever : p[2] = x
      <4>1. PICK c : c = copies[i]
        OBVIOUS
      <4>2. i \in 1..Len(copies) /\ j \in 1..c.len /\ x = slices[c.owner].arrays[c.nr][j]
        <5>1. /\ i \in Nat \ {0} /\ j \in Nat \ {0} /\ i <= Len(subscribers)
              /\ j <= Len(subscribers[i])
          BY <2>2 DEF Collect, Looking, LiveInv, Inv, ScrapeListInv
        <5>2. Views(slices, copies, subscribers) /\ copies \in Seq(Copies)
              /\ subscribers \in Seq(Seq(Subscriptions))
          BY DEF LiveInv, SafeInv
        <5>3. i \in 1..Len(copies)
          BY <5>1, <5>2 DEF Views
        <5>4. j \in 1..Len(subscribers[i])
          BY <5>1, <5>2, <5>3 DEF Views
        <5> QED  BY <3>1, <4>1, <5>2, <5>3, <5>4 DEF Views
      <4>3. c.owner # DB /\ Known(slices, c, ever)
        BY <4>1, <4>2 DEF LiveInv, SafeInv
      <4>4. <<c.owner[1], x>> \in ever
        BY <4>2, <4>3 DEF Known, Covers, Elements
      <4> QED  BY <4>4
    <3>5. \A n \in 1..Len(list) : \E p \in ever : p[2] = list[n]
      BY <3>2 DEF LiveInv, SafeInv
    <3>6. \A n \in 1..(Len(list) + 1) : n \in 1..Len(list) \/ n = Len(list) + 1
      OBVIOUS
    <3> QED  BY <3>3, <3>4, <3>5, <3>6, AppendIs
  <2> QED  BY <1>1, <2>1, <2>2 DEF GotSubscribers, NextSubscriber, Skip, loops
<1> QED  BY <1>1, <1>2, <1>3, <1>4 DEF SafeInv, LiveInv

----------------------------------------------------------------------------
(* The operations of the storage.                                           *)

All == Emails \X Subscriptions

\* What slices sl become: the arrays stay, what is written to them was in the slice or
\* is now, and what is new is in the slice of somebody subscribed.
Becomes(sl, new) ==
    /\ DOMAIN sl \subseteq DOMAIN new
    /\ \A o \in DOMAIN sl :
          /\ Keeps(sl[o], new[o])
          /\ \A nr \in 1..Len(sl[o].arrays) : \A n \in 1..Len(sl[o].arrays[nr]) :
                \/ new[o].arrays[nr][n] = sl[o].arrays[nr][n]
                \/ InSlice(sl, o, new[o].arrays[nr][n])
                \/ InSlice(new, o, new[o].arrays[nr][n])
    /\ \A o \in DOMAIN new \ {DB} : \A x :
          InSlice(new, o, x) => (o \in DOMAIN sl /\ InSlice(sl, o, x)) \/ InDB(new, o)

\* More may be in the elements, the more was stored.
LEMMA MoreElements ==
    ASSUME NEW o, NEW D, NEW E, D \subseteq E, NEW e, NEW f, e \subseteq f
    PROVE  Elements(o, D, e) \subseteq Elements(o, E, f)
BY DEF Elements

\* The slices hold what was stored, then too.
LEMMA BecomesShaped ==
    ASSUME NEW sl, NEW new, NEW e, NEW f, Shaped(sl, e), Shaped(new, All), Becomes(sl, new),
           e \subseteq f, SubscribedIn(new) \subseteq f
    PROVE  Shaped(new, f)
<1> SUFFICES ASSUME NEW o \in DOMAIN new
             PROVE  Covers(new[o], Len(new[o].arrays), new[o].len, Elements(o, DOMAIN new, f))
  BY DEF Shaped
<1>1. Covers(new[o], Len(new[o].arrays), new[o].len, Elements(o, DOMAIN new, All))
  BY DEF Shaped
<1>2. CASE o = DB
  BY <1>1, <1>2 DEF Elements
<1>3. CASE o # DB
  <2> SUFFICES ASSUME NEW n \in 1..new[o].len
               PROVE  new[o].arrays[Len(new[o].arrays)][n] \in Elements(o, DOMAIN new, f)
    BY <1>1 DEF Covers
  <2>1. PICK x \in Subscriptions :
           x = new[o].arrays[Len(new[o].arrays)][n] /\ <<o[1], x>> \in All
    BY <1>1, <1>3 DEF Covers, Elements
  <2>2. InSlice(new, o, x)
    BY <2>1 DEF InSlice, Last
  <2>3. CASE o \in DOMAIN sl /\ InSlice(sl, o, x)
    <3>1. Covers(sl[o], Len(sl[o].arrays), sl[o].len, Elements(o, DOMAIN sl, e))
      BY <2>3 DEF Shaped
    <3>2. <<o[1], x>> \in e
      BY <1>3, <2>3, <3>1 DEF InSlice, Last, Covers, Elements
    <3> QED  BY <1>3, <2>1, <3>2 DEF Elements
  <2>4. CASE InDB(new, o)
    <3>1. PICK p \in All : p = <<o[1], x>>
      BY <2>1
    <3>2. p[1] = o[1] /\ p[2] = x
      BY <3>1
    <3>3. Has(new, p)
      BY <1>3, <2>2, <2>4, <3>2 DEF Has
    <3>4. p \in SubscribedIn(new)
      BY <3>3, SubscribedIs DEF All
    <3> QED  BY <1>3, <2>1, <3>1, <3>4 DEF Elements
  <2> QED  BY <1>3, <2>2, <2>3, <2>4 DEF Becomes
<1> QED  BY <1>2, <1>3

\* A slice that was copied is as long as it was, and covers what was stored.
LEMMA BecomesKnown ==
    ASSUME NEW sl, NEW new, NEW e, NEW f, Shaped(sl, e), Shaped(new, f), Becomes(sl, new),
           e \subseteq f, NEW c \in Copies, Known(sl, c, e)
    PROVE  Known(new, c, f)
<1>1. PICK o : o = c.owner
  OBVIOUS
<1>2. PICK E, F : E = Elements(o, DOMAIN sl, e) /\ F = Elements(o, DOMAIN new, f)
  OBVIOUS
<1>3. E \subseteq F
  BY <1>2, MoreElements DEF Becomes
<1>4. /\ o \in DOMAIN sl /\ o \in DOMAIN new
      /\ Covers(sl[o], c.nr, c.len, E)
      /\ Covers(sl[o], Len(sl[o].arrays), sl[o].len, E)
      /\ Covers(new[o], Len(new[o].arrays), new[o].len, F)
  BY <1>1, <1>2 DEF Known, Shaped, Becomes
<1>5. \A x : InSlice(sl, o, x) \/ InSlice(new, o, x) => x \in F
  BY <1>3, <1>4 DEF InSlice, Covers, Last
<1>6. c.nr \in 1..Len(new[o].arrays) /\ Len(new[o].arrays[c.nr]) = Len(sl[o].arrays[c.nr])
  <2>1. Slice(sl[o], Anything(o)) /\ Slice(new[o], Anything(o)) /\ Keeps(sl[o], new[o])
    BY <1>4 DEF Shaped, Becomes
  <2> QED  BY <1>4, <2>1, SMTT(30) DEF Covers, Keeps, Slice
<1>7. \A n \in 1..c.len : n \in 1..Len(sl[o].arrays[c.nr])
  <2>1. sl[o].arrays[c.nr] \in Seq(Anything(o))
    <3>1. Slice(sl[o], Anything(o)) /\ c.nr \in 1..Len(sl[o].arrays)
      BY <1>4 DEF Shaped, Covers
    <3> QED  BY <3>1 DEF Slice
  <2>2. c.len \in Nat
    BY DEF Copies
  <2> QED  BY <1>4, <2>1, <2>2 DEF Covers
<1>8. \A n \in 1..c.len : new[o].arrays[c.nr][n] \in F
  BY <1>3, <1>4, <1>5, <1>7 DEF Becomes, Covers
<1> QED  BY <1>1, <1>2, <1>4, <1>6, <1>8 DEF Known, Covers

\* Whatever the storage does is what ScrapeList allows, and the list stays honest.
LEMMA ChangeSafe ==
    ASSUME LiveInv, NEW new, NEW owner, Change(new, owner), Shaped(new, All),
           Becomes(slices, new)
    PROVE  Overwritten /\ SafeInv'
<1>1. PICK f : f = ever'
  OBVIOUS
<1>2. /\ UNCHANGED <<all, copies, got, loops>> /\ slices' = new
      /\ subscribers' = [n \in DOMAIN copies |-> SeenIn(new, copies[n])]
      /\ ever \subseteq f /\ SubscribedIn(new) \subseteq f
  BY <1>1, SubscribedNow DEF Change, Seen, SeenIn
<1>3. /\ Shaped(slices, ever) /\ all \in Copies /\ Known(slices, all, ever)
      /\ copies \in Seq(Copies)
      /\ \A n \in 1..Len(copies) : copies[n].owner # DB /\ Known(slices, copies[n], ever)
  BY DEF LiveInv, SafeInv
<1>4. Shaped(new, f)
  BY <1>2, <1>3, BecomesShaped
<1>5. Known(new, all, f)
  BY <1>2, <1>3, <1>4, BecomesKnown
<1>6. PICK n \in Nat : n = Len(copies) /\ DOMAIN copies = 1..n
  BY <1>3
<1>7. \A m \in 1..n : copies[m] \in Copies /\ copies[m].owner # DB /\ Known(new, copies[m], f)
  <2> SUFFICES ASSUME NEW m \in 1..n
               PROVE  copies[m] \in Copies /\ copies[m].owner # DB /\ Known(new, copies[m], f)
    OBVIOUS
  <2>1. copies[m] \in Copies
    BY <1>3, <1>6
  <2>2. PICK c \in Copies : c = copies[m]
    BY <2>1
  <2>3. Known(slices, c, ever) /\ c.owner # DB
    BY <1>3, <1>6, <2>2
  <2>4. Known(new, c, f)
    BY <1>2, <1>3, <1>4, <2>3, BecomesKnown
  <2> QED  BY <2>2, <2>3, <2>4
<1>8. PICK views : views = subscribers'
  OBVIOUS
<1>9. \A m \in 1..n : /\ views[m] \in Seq(Subscriptions) /\ Len(views[m]) = copies[m].len
                      /\ \A k \in 1..copies[m].len :
                            views[m][k] = new[copies[m].owner].arrays[copies[m].nr][k]
  <2> SUFFICES ASSUME NEW m \in 1..n
               PROVE  /\ views[m] \in Seq(Subscriptions) /\ Len(views[m]) = copies[m].len
                      /\ \A k \in 1..copies[m].len :
                            views[m][k] = new[copies[m].owner].arrays[copies[m].nr][k]
    OBVIOUS
  <2>1. PICK c \in Copies : c = copies[m]
    BY <1>7
  <2>2. Known(new, c, f) /\ c.owner # DB /\ views[m] = SeenIn(new, c)
    BY <1>2, <1>6, <1>7, <1>8, <2>1
  <2>3. PICK E : E = Elements(c.owner, DOMAIN new, f)
    OBVIOUS
  <2>4. /\ SeenIn(new, c) \in Seq(E) /\ Len(SeenIn(new, c)) = c.len
        /\ \A k \in 1..c.len : SeenIn(new, c)[k] = new[c.owner].arrays[c.nr][k]
    BY <1>4, <2>2, <2>3, SeenIs
  <2>5. E \subseteq Subscriptions
    BY <2>2, <2>3 DEF Elements
  <2>6. views[m] \in Seq(Subscriptions)
    BY <2>2, <2>4, <2>5
  <2> QED  BY <2>1, <2>2, <2>4, <2>6
<1>10. views \in [1..n -> Seq(Subscriptions)]
  BY <1>2, <1>6, <1>8, <1>9
<1>11. views \in Seq(Seq(Subscriptions)) /\ Len(views) = n
  BY <1>10, FunctionIsSeq
<1>12. Overwritten
  <2>1. Views(slices, copies, subscribers) /\ subscribers \in Seq(Seq(Subscriptions))
    BY DEF LiveInv, SafeInv
  <2>2. DOMAIN subscribers = 1..n /\ Len(subscribers) = n
    BY <1>6, <2>1 DEF Views
  <2> QED  BY <1>2, <1>6, <1>8, <1>9, <1>11, <2>1, <2>2 DEF Overwritten, Views
<1>13. SafeInv'
  <2>1. Views(new, copies, views)
    BY <1>6, <1>9, <1>11 DEF Views
  <2>2. Shaped(slices', ever') /\ Known(slices', all', ever')
        /\ Views(slices', copies', subscribers') /\ subscribers' \in Seq(Seq(Subscriptions))
    BY <1>1, <1>2, <1>4, <1>5, <1>8, <1>11, <2>1
  <2>3. \A m \in 1..Len(copies') : copies'[m].owner # DB /\ Known(slices', copies'[m], ever')
    BY <1>1, <1>2, <1>6, <1>7
  <2>4. \A m \in 1..Len(subscriptions') : \E p \in ever' : p[2] = subscriptions'[m]
    BY <1>1, <1>2 DEF LiveInv, SafeInv, loops
  <2> QED  BY <1>2, <2>2, <2>3, <2>4 DEF LiveInv, SafeInv, loops
<1> QED  BY <1>12, <1>13

\* All anybody may be subscribed to.
LEMMA AllElements ==
    ASSUME NEW sl, NEW e, Shaped(sl, e)
    PROVE  Shaped(sl, All) /\ \A o \in Subscribers : \A D : Elements(o, D, All) = Subscriptions
<1>1. \A o \in Subscribers : \A D : Elements(o, D, All) = Subscriptions
  BY DBIsNone DEF Elements, All, Subscribers
<1>2. \A o \in DOMAIN sl : Elements(o, DOMAIN sl, e) \subseteq Elements(o, DOMAIN sl, All)
  BY <1>1 DEF Elements, Shaped
<1> QED  BY <1>1, <1>2 DEF Shaped, Covers

\* What the slices become when one of them changes, and others are added.
LEMMA OneBecomes ==
    ASSUME NEW sl, NEW e, Shaped(sl, e), NEW s \in DOMAIN sl, NEW new,
           DOMAIN sl \subseteq DOMAIN new,
           \A o \in DOMAIN sl \ {s} : new[o] = sl[o],
           \A o \in DOMAIN new \ DOMAIN sl : InDB(new, o),
           Keeps(sl[s], new[s]),
           \A nr \in 1..Len(sl[s].arrays) : \A n \in 1..Len(sl[s].arrays[nr]) :
              \/ new[s].arrays[nr][n] = sl[s].arrays[nr][n]
              \/ InSlice(sl, s, new[s].arrays[nr][n])
              \/ InSlice(new, s, new[s].arrays[nr][n]),
           s = DB \/ InDB(new, s) \/ \A x : InSlice(new, s, x) => InSlice(sl, s, x)
    PROVE  Becomes(sl, new)
<1>1. \A o \in DOMAIN sl : Keeps(sl[o], sl[o])
  BY DEF Shaped, Slice, Keeps
<1>2. \A o \in DOMAIN sl :
        /\ Keeps(sl[o], new[o])
        /\ \A nr \in 1..Len(sl[o].arrays) : \A n \in 1..Len(sl[o].arrays[nr]) :
              \/ new[o].arrays[nr][n] = sl[o].arrays[nr][n]
              \/ InSlice(sl, o, new[o].arrays[nr][n])
              \/ InSlice(new, o, new[o].arrays[nr][n])
  <2> SUFFICES ASSUME NEW o \in DOMAIN sl
               PROVE  /\ Keeps(sl[o], new[o])
                      /\ \A nr \in 1..Len(sl[o].arrays) :
                            \A n \in 1..Len(sl[o].arrays[nr]) :
                               \/ new[o].arrays[nr][n] = sl[o].arrays[nr][n]
                               \/ InSlice(sl, o, new[o].arrays[nr][n])
                               \/ InSlice(new, o, new[o].arrays[nr][n])
    OBVIOUS
  <2>1. CASE o = s
    BY <2>1
  <2>2. CASE o # s
    BY <1>1, <2>2
  <2> QED  BY <2>1, <2>2
<1>3. \A o \in DOMAIN new \ {DB} : \A x :
         InSlice(new, o, x) => (o \in DOMAIN sl /\ InSlice(sl, o, x)) \/ InDB(new, o)
  BY DEF InSlice
<1> QED  BY <1>2, <1>3 DEF Becomes

\* Appending to the slice of a subscriber.
LEMMA AppendChanges ==
    ASSUME LiveInv, NEW s, InDB(slices, s), NEW x \in Subscriptions,
           NEW new, new = [slices EXCEPT ![s] = Appended(s, x)]
    PROVE  /\ Shaped(new, All) /\ Becomes(slices, new)
           /\ s # DB /\ s \in DOMAIN slices /\ DOMAIN new = DOMAIN slices
           /\ Grows(slices[s], new[s], x) /\ \A o \in DOMAIN slices \ {s} : new[o] = slices[o]
<1>1. Shaped(slices, ever) /\ Shaped(slices, All)
  BY AllElements DEF LiveInv, SafeInv
<1>2. s \in DOMAIN slices \ {DB} /\ s \in Subscribers
  BY <1>1, SubscribedIs DEF Shaped
<1>3. PICK t : t = Appended(s, x)
  OBVIOUS
<1>4. /\ Slice(t, Anything(s)) /\ Covers(t, Len(t.arrays), t.len, Subscriptions)
      /\ Keeps(slices[s], t) /\ Grows(slices[s], t, x)
  <2>1. Slice(slices[s], Anything(s))
        /\ Covers(slices[s], Len(slices[s].arrays), slices[s].len, Subscriptions)
    BY <1>1, <1>2, AllElements DEF Shaped
  <2>2. Nil \in Anything(s) /\ x \in Anything(s) \cap Subscriptions
    BY <1>2 DEF Anything
  <2> QED  BY <1>3, <2>1, <2>2, AppendedIs
<1>5. /\ new = [o \in DOMAIN slices |-> IF o = s THEN t ELSE slices[o]]
      /\ DOMAIN new = DOMAIN slices /\ new[s] = t
      /\ \A o \in DOMAIN slices \ {s} : new[o] = slices[o]
  <2>1. new = [slices EXCEPT ![s] = t]
    BY <1>3
  <2> QED  BY <1>1, <1>2, <2>1 DEF Shaped
<1>6. Shaped(new, All)
  <2>1. Elements(s, DOMAIN new, All) = Subscriptions
    BY <1>2, AllElements, <1>1
  <2>2. \A o \in DOMAIN new :
          /\ Slice(new[o], Anything(o))
          /\ Covers(new[o], Len(new[o].arrays), new[o].len, Elements(o, DOMAIN new, All))
    BY <1>1, <1>4, <1>5, <2>1 DEF Shaped
  <2> QED  BY <1>1, <1>5, <2>2 DEF Shaped
<1>7. InDB(new, s)
  BY <1>2, <1>5 DEF InDB
<1>8. InSlice(new, s, x)
  <2>1. slices[s].len \in Nat
    BY <1>1, <1>2 DEF Shaped, Slice
  <2> QED  BY <1>4, <1>5, <2>1 DEF InSlice, Grows
<1>9. \A nr \in 1..Len(slices[s].arrays) : \A n \in 1..Len(slices[s].arrays[nr]) :
         new[s].arrays[nr][n] = slices[s].arrays[nr][n] \/ new[s].arrays[nr][n] = x
  BY <1>4, <1>5 DEF Grows
<1>10. Becomes(slices, new)
  <2>1. /\ Keeps(slices[s], new[s]) /\ s \in DOMAIN slices /\ DOMAIN slices \subseteq DOMAIN new
        /\ \A o \in DOMAIN new \ DOMAIN slices : InDB(new, o)
    BY <1>2, <1>4, <1>5
  <2>2. \A nr \in 1..Len(slices[s].arrays) : \A n \in 1..Len(slices[s].arrays[nr]) :
           \/ new[s].arrays[nr][n] = slices[s].arrays[nr][n]
           \/ InSlice(slices, s, new[s].arrays[nr][n])
           \/ InSlice(new, s, new[s].arrays[nr][n])
    BY <1>8, <1>9
  <2> QED  BY <1>1, <1>5, <1>7, <2>1, <2>2, OneBecomes
<1> QED  BY <1>2, <1>4, <1>5, <1>6, <1>10

\* Removing from a slice.
LEMMA RemoveChanges ==
    ASSUME LiveInv, NEW s \in DOMAIN slices, NEW k \in 1..slices[s].len,
           NEW new, new = [slices EXCEPT ![s] = Removed(s, k)]
    PROVE  /\ Shaped(new, All) /\ Becomes(slices, new) /\ DOMAIN new = DOMAIN slices
           /\ Shrinks(slices[s], new[s], k) /\ \A o \in DOMAIN slices \ {s} : new[o] = slices[o]
<1>1. Shaped(slices, ever) /\ Shaped(slices, All)
  BY AllElements DEF LiveInv, SafeInv
<1>2. PICK t : t = Removed(s, k)
  OBVIOUS
<1>3. PICK E : E = Elements(s, DOMAIN slices, All)
  OBVIOUS
<1>4. Slice(slices[s], Anything(s))
      /\ Covers(slices[s], Len(slices[s].arrays), slices[s].len, E)
  BY <1>1, <1>3 DEF Shaped
<1>5. /\ Slice(t, Anything(s)) /\ Covers(t, Len(t.arrays), t.len, E)
      /\ Keeps(slices[s], t) /\ Shrinks(slices[s], t, k)
  BY <1>2, <1>4, RemovedIs
<1>6. /\ new = [o \in DOMAIN slices |-> IF o = s THEN t ELSE slices[o]]
      /\ DOMAIN new = DOMAIN slices /\ new[s] = t
      /\ \A o \in DOMAIN slices \ {s} : new[o] = slices[o]
  <2>1. new = [slices EXCEPT ![s] = t]
    BY <1>2
  <2> QED  BY <1>1, <2>1 DEF Shaped
<1>7. Shaped(new, All)
  BY <1>1, <1>3, <1>5, <1>6 DEF Shaped
<1>8. /\ t.len = slices[s].len - 1 /\ slices[s].len \in Nat
      /\ Len(t.arrays) = Len(slices[s].arrays) /\ Len(t.arrays) \in Nat \ {0}
  BY <1>4, <1>5 DEF Shrinks, Slice
<1>9. \A nr \in 1..Len(slices[s].arrays) : \A n \in 1..Len(slices[s].arrays[nr]) :
         \/ t.arrays[nr][n] = slices[s].arrays[nr][n]
         \/ t.arrays[nr][n] = Last(slices[s].arrays)[slices[s].len]
  BY <1>5 DEF Shrinks
<1>10. InSlice(slices, s, Last(slices[s].arrays)[slices[s].len])
  BY <1>8 DEF InSlice
<1>11. \A x : InSlice(new, s, x) => InSlice(slices, s, x)
  <2> SUFFICES ASSUME NEW n \in 1..t.len
               PROVE  InSlice(slices, s, Last(t.arrays)[n])
    BY <1>6 DEF InSlice
  <2>1. n \in 1..slices[s].len /\ n \in 1..Len(Last(slices[s].arrays))
    BY <1>4, <1>8 DEF Covers, Last
  <2>2. \/ Last(t.arrays)[n] = Last(slices[s].arrays)[n]
        \/ Last(t.arrays)[n] = Last(slices[s].arrays)[slices[s].len]
    <3>1. Len(slices[s].arrays) \in 1..Len(slices[s].arrays)
      BY <1>8
    <3> QED  BY <1>8, <1>9, <2>1, <3>1 DEF Last
  <2> QED  BY <1>10, <2>1, <2>2 DEF InSlice
<1>12. Becomes(slices, new)
  <2>1. /\ Keeps(slices[s], new[s]) /\ DOMAIN slices \subseteq DOMAIN new
        /\ \A o \in DOMAIN new \ DOMAIN slices : InDB(new, o)
    BY <1>5, <1>6
  <2>2. \A nr \in 1..Len(slices[s].arrays) : \A n \in 1..Len(slices[s].arrays[nr]) :
           \/ new[s].arrays[nr][n] = slices[s].arrays[nr][n]
           \/ InSlice(slices, s, new[s].arrays[nr][n])
           \/ InSlice(new, s, new[s].arrays[nr][n])
    BY <1>6, <1>9, <1>10
  <2> QED  BY <1>1, <1>6, <1>11, <2>1, <2>2, OneBecomes
<1> QED  BY <1>5, <1>6, <1>7, <1>12

\* The slices with a new subscriber at the end of db.subscribers.
WithNew(s, list) ==
    [owner \in DOMAIN slices \cup {s} |-> IF owner = DB THEN Appended(DB, s)
                                         ELSE IF owner = s THEN Literal(list)
                                         ELSE slices[owner]]

LEMMA CreateChanges ==
    ASSUME LiveInv, NEW s \in Subscribers, s \notin DOMAIN slices,
           NEW list \in Seq(Subscriptions),
           NEW new, new = WithNew(s, list)
    PROVE  /\ Shaped(new, All) /\ Becomes(slices, new) /\ DOMAIN new = DOMAIN slices \cup {s}
           /\ Grows(slices[DB], new[DB], s) /\ new[s] = Literal(list)
           /\ \A o \in DOMAIN slices \ {DB} : new[o] = slices[o]
<1>1. Shaped(slices, ever) /\ Shaped(slices, All) /\ DB \in DOMAIN slices
  BY AllElements DEF LiveInv, SafeInv, Shaped
<1>2. PICK t, l : t = Appended(DB, s) /\ l = Literal(list)
  OBVIOUS
<1>3. /\ DOMAIN new = DOMAIN slices \cup {s} /\ new[DB] = t /\ new[s] = l
      /\ new = [o \in DOMAIN new |-> new[o]]
      /\ \A o \in DOMAIN slices \ {DB} : new[o] = slices[o]
  BY <1>1, <1>2, DBIsNone DEF WithNew
<1>4. PICK E : E = DOMAIN new \ {DB}
  OBVIOUS
<1>5. /\ Slice(t, Anything(DB)) /\ Covers(t, Len(t.arrays), t.len, E)
      /\ Keeps(slices[DB], t) /\ Grows(slices[DB], t, s)
  <2>1. Slice(slices[DB], Anything(DB))
        /\ Covers(slices[DB], Len(slices[DB].arrays), slices[DB].len, E)
    BY <1>1, <1>3, <1>4 DEF Shaped, Covers, Elements
  <2>2. Nil \in Anything(DB) /\ s \in Anything(DB) \cap E
    BY <1>3, <1>4, DBIsNone DEF Anything
  <2> QED  BY <1>2, <2>1, <2>2, AppendedIs
<1>6. Slice(l, Anything(s)) /\ Covers(l, Len(l.arrays), l.len, Subscriptions)
  <2>1. list \in Seq(Subscriptions \cup {Nil})
        /\ \A n \in 1..Len(list) : list[n] \in Subscriptions
    OBVIOUS
  <2> QED  BY <1>2, <2>1, LiteralIs, DBIsNone DEF Anything
<1>7. Shaped(new, All)
  <2>1. \A o \in DOMAIN new :
          /\ Slice(new[o], Anything(o))
          /\ Covers(new[o], Len(new[o].arrays), new[o].len, Elements(o, DOMAIN new, All))
    <3> SUFFICES ASSUME NEW o \in DOMAIN new
                 PROVE  /\ Slice(new[o], Anything(o))
                        /\ Covers(new[o], Len(new[o].arrays), new[o].len,
                                  Elements(o, DOMAIN new, All))
      OBVIOUS
    <3>1. CASE o = DB
      BY <1>3, <1>4, <1>5, <3>1 DEF Elements
    <3>2. CASE o = s
      BY <1>1, <1>3, <1>6, <3>2, AllElements
    <3>3. CASE o \in DOMAIN slices \ {DB}
      <4>1. o \in Subscribers
        BY <1>1, <3>3 DEF Shaped
      <4>2. Elements(o, DOMAIN new, All) = Elements(o, DOMAIN slices, All)
        BY <3>3 DEF Elements
      <4> QED  BY <1>1, <1>3, <3>3, <4>2 DEF Shaped
    <3> QED  BY <1>3, <3>1, <3>2, <3>3
  <2>2. DB \in DOMAIN new /\ DOMAIN new \subseteq {DB} \cup Subscribers
    BY <1>1, <1>3 DEF Shaped
  <2> QED  BY <1>3, <2>1, <2>2 DEF Shaped
<1>8. InDB(new, s)
  <2>1. slices[DB].len \in Nat
    BY <1>1 DEF Shaped, Slice
  <2> QED  BY <1>3, <1>5, <2>1 DEF InDB, Grows
<1>9. InSlice(new, DB, s)
  BY <1>8 DEF InDB, InSlice
<1>10. \A nr \in 1..Len(slices[DB].arrays) : \A n \in 1..Len(slices[DB].arrays[nr]) :
         new[DB].arrays[nr][n] = slices[DB].arrays[nr][n] \/ new[DB].arrays[nr][n] = s
  BY <1>3, <1>5 DEF Grows
<1>11. Becomes(slices, new)
  <2>1. /\ Keeps(slices[DB], new[DB]) /\ DOMAIN slices \subseteq DOMAIN new
        /\ \A o \in DOMAIN new \ DOMAIN slices : InDB(new, o)
    BY <1>3, <1>5, <1>8
  <2>2. \A nr \in 1..Len(slices[DB].arrays) : \A n \in 1..Len(slices[DB].arrays[nr]) :
           \/ new[DB].arrays[nr][n] = slices[DB].arrays[nr][n]
           \/ InSlice(slices, DB, new[DB].arrays[nr][n])
           \/ InSlice(new, DB, new[DB].arrays[nr][n])
    BY <1>9, <1>10
  <2> QED  BY <1>1, <1>3, <2>1, <2>2, OneBecomes
<1> QED  BY <1>2, <1>3, <1>5, <1>7, <1>11

\* x is appended to the slice of o, a new subscriber with at most one subscription to
\* that of the storage; element k of the slice of o is removed.
Addition(sl, new, o, x) ==
    /\ o \in DOMAIN sl /\ Grows(sl[o], new[o], x)
    /\ \A other \in DOMAIN sl \ {o} : new[other] = sl[other]
    /\ IF o = DB
       THEN /\ x \notin DOMAIN sl /\ DOMAIN new = DOMAIN sl \cup {x}
            /\ new[x].len \in 0..1
            /\ \A s : InDB(sl, s) => s[1] # x[1]
       ELSE DOMAIN new = DOMAIN sl /\ \A y : InSlice(sl, o, y) => ~ Equals(y, x)

Removal(sl, new, o, k) ==
    /\ o \in DOMAIN sl /\ DOMAIN new = DOMAIN sl
    /\ k \in 1..sl[o].len /\ Shrinks(sl[o], new[o], k)
    /\ \A other \in DOMAIN sl \ {o} : new[other] = sl[other]

\* What an operation of the storage does.
Operation(new, o) ==
    /\ Change(new, o) /\ Shaped(new, All) /\ Becomes(slices, new)
    /\ (\E x : Addition(slices, new, o, x)) \/ (\E k : Removal(slices, new, o, k))

LEMMA CreateIs ==
    ASSUME LiveInv, NEW email \in Emails, NEW list \in Seq(Subscriptions), Len(list) \in 0..1,
           Create(email, list)
    PROVE  \E new : Operation(new, DB)
<1>1. PICK nr \in 1..(MaxChanges + 1) :
        /\ <<email, nr>> \notin DOMAIN slices
        /\ Change([owner \in DOMAIN slices \cup {<<email, nr>>} |->
                      IF owner = DB THEN Appended(DB, <<email, nr>>)
                      ELSE IF owner = <<email, nr>> THEN Literal(list)
                      ELSE slices[owner]], DB)
  BY DEF Create
<1>2. PICK s \in Subscribers : s = <<email, nr>> /\ s[1] = email
  <2>1. <<email, nr>> \in Subscribers
    BY DEF Subscribers
  <2> QED  BY <2>1
<1>3. PICK new : new = WithNew(s, list)
  OBVIOUS
<1>4. s \in Subscribers /\ s \notin DOMAIN slices /\ Change(new, DB)
  BY <1>1, <1>2, <1>3 DEF WithNew
<1>5. /\ Shaped(new, All) /\ Becomes(slices, new) /\ DOMAIN new = DOMAIN slices \cup {s}
      /\ Grows(slices[DB], new[DB], s) /\ new[s] = Literal(list)
      /\ \A o \in DOMAIN slices \ {DB} : new[o] = slices[o]
  <2>1. /\ Shaped(new, All) /\ Becomes(slices, new) /\ DOMAIN new = DOMAIN slices \cup {s}
        /\ Grows(slices[DB], new[DB], s) /\ new[s] = Literal(list)
    BY <1>3, <1>4, CreateChanges
  <2>2. \A o \in DOMAIN slices \ {DB} : new[o] = slices[o]
    BY <1>3, <1>4 DEF WithNew
  <2> QED  BY <2>1, <2>2
<1>6. Shaped(slices, ever)
  BY DEF LiveInv, SafeInv
<1>7. \A t : InDB(slices, t) => t[1] # s[1]
  <2>1. StoredIn(slices, email) = {}
    BY SubscribedNow DEF Create
  <2> QED  BY <1>2, <1>6, <2>1, SubscribedIs
<1>8. new[s].len \in 0..1
  BY <1>5 DEF Literal
<1>9. Addition(slices, new, DB, s)
  BY <1>4, <1>5, <1>6, <1>7, <1>8 DEF Addition, Shaped
<1> QED  BY <1>4, <1>5, <1>9 DEF Operation

\* Each operation of the storage is one of these.
LEMMA OperationIs ==
    ASSUME LiveInv, NEW email \in Emails,
           \/ AddSubscriber(email)
           \/ RemoveSubscriber(email)
           \/ \E s \in Subscriptions : AddSubscription(email, s) \/ RemoveSubscription(email, s)
    PROVE  \E new, o : Operation(new, o)
<1>1. Shaped(slices, ever)
  BY DEF LiveInv, SafeInv
<1>2. \A s \in Stored(email) : InDB(slices, s) /\ s \in DOMAIN slices /\ s # DB /\ s[1] = email
  BY <1>1, SubscribedIs, SubscribedNow
<1>3. CASE AddSubscriber(email)
  <2>1. PICK list : list = <<>>
    OBVIOUS
  <2>2. list \in Seq(Subscriptions) /\ Len(list) \in 0..1
    BY <2>1
  <2>3. Create(email, list)
    BY <1>3, <2>1 DEF AddSubscriber
  <2> QED  BY <2>2, <2>3, CreateIs
<1>4. CASE RemoveSubscriber(email)
  <2>1. PICK k \in 1..slices[DB].len : Replace(DB, Removed(DB, k))
    BY <1>4 DEF RemoveSubscriber
  <2>2. PICK new : new = [slices EXCEPT ![DB] = Removed(DB, k)]
    OBVIOUS
  <2>3. Change(new, DB) /\ DB \in DOMAIN slices
    BY <1>1, <2>1, <2>2 DEF Replace, Shaped
  <2>4. Shaped(new, All) /\ Becomes(slices, new) /\ Removal(slices, new, DB, k)
    BY <2>2, <2>3, RemoveChanges DEF Removal
  <2> QED  BY <2>3, <2>4 DEF Operation
<1>5. ASSUME NEW x \in Subscriptions, AddSubscription(email, x)
      PROVE  \E new, o : Operation(new, o)
  <2>1. CASE Create(email, <<x>>)
    <3>1. PICK list : list = <<x>>
      OBVIOUS
    <3>2. list \in Seq(Subscriptions) /\ Len(list) \in 0..1
      BY <3>1
    <3>3. Create(email, list)
      BY <2>1, <3>1
    <3> QED  BY <3>2, <3>3, CreateIs
  <2>2. CASE /\ \A y \in Held(email) : ~ Equals(y, x)
             /\ \E s \in Stored(email) : Replace(s, Appended(s, x))
    <3>1. PICK s \in Stored(email) : Replace(s, Appended(s, x))
      BY <2>2
    <3>2. PICK new : new = [slices EXCEPT ![s] = Appended(s, x)]
      OBVIOUS
    <3>3. Change(new, s) /\ InDB(slices, s)
      BY <1>2, <3>1, <3>2 DEF Replace
    <3>4. /\ Shaped(new, All) /\ Becomes(slices, new)
          /\ s # DB /\ s \in DOMAIN slices /\ DOMAIN new = DOMAIN slices
          /\ Grows(slices[s], new[s], x) /\ \A o \in DOMAIN slices \ {s} : new[o] = slices[o]
      BY <3>2, <3>3, AppendChanges
    <3>5. ASSUME NEW y, InSlice(slices, s, y) PROVE ~ Equals(y, x)
      <4>1. Has(slices, <<email, y>>)
        BY <1>2, <3>5 DEF Has
      <4>2. y \in HeldIn(slices, email)
        BY <1>1, <4>1, SubscribedIs
      <4> QED  BY <2>2, <4>2, SubscribedNow
    <3>6. Addition(slices, new, s, x)
      BY <3>4, <3>5 DEF Addition
    <3> QED  BY <3>3, <3>4, <3>6 DEF Operation
  <2> QED  BY <1>5, <2>1, <2>2 DEF AddSubscription
<1>6. ASSUME NEW x \in Subscriptions, RemoveSubscription(email, x)
      PROVE  \E new, o : Operation(new, o)
  <2>1. PICK s \in Stored(email) : \E k \in 1..slices[s].len : Replace(s, Removed(s, k))
    BY <1>6 DEF RemoveSubscription
  <2>2. PICK k \in 1..slices[s].len : Replace(s, Removed(s, k))
    BY <2>1
  <2>3. PICK new : new = [slices EXCEPT ![s] = Removed(s, k)]
    OBVIOUS
  <2>4. Change(new, s) /\ s \in DOMAIN slices
    BY <1>2, <2>1, <2>2, <2>3 DEF Replace
  <2>5. Shaped(new, All) /\ Becomes(slices, new) /\ Removal(slices, new, s, k)
    BY <2>3, <2>4, RemoveChanges DEF Removal
  <2> QED  BY <2>4, <2>5 DEF Operation
<1> QED  BY <1>3, <1>4, <1>5, <1>6

----------------------------------------------------------------------------
(* Who stays is not missed.                                                 *)

\* Who is subscribed to what, p, is subscriber k of slice a, and once the slice of its
\* subscriptions is copied, element m of that.
At(sl, a, cs, p, k, m) ==
    /\ sl[DB].arrays[a.nr][k][1] = p[1] /\ InDB(sl, sl[DB].arrays[a.nr][k])
    /\ (k <= Len(cs)) => /\ cs[k].owner = sl[DB].arrays[a.nr][k]
                         /\ m \in 1..cs[k].len
                         /\ sl[cs[k].owner].arrays[cs[k].nr][m] = p[2]

\* The loops have gone by element m of subscriber k.
Passed(k, m) == got /\ (i > k \/ (i = k /\ j > m))

\* Until an element is reused, everybody subscribed throughout the call has a place in
\* the slices of the call, and is listed when the loops have gone by it.
KeptInv ==
    /\ Apart(slices)
    /\ always \subseteq Subscribed
    /\ ~ recycled => \A p \in always : \E k \in 1..all.len : \E m \in Nat :
          /\ At(slices, all, copies, p, k, m)
          /\ Passed(k, m) => DedupKey(p[2]) \in siteSet

\* What a slice covers after a removal: the last element in place of the one removed.
LEMMA ShrunkIs ==
    ASSUME NEW sl, NEW e, Shaped(sl, e), NEW new, NEW o, NEW k, Removal(sl, new, o, k)
    PROVE  \A n \in 1..new[o].len : \E h \in (1..sl[o].len) \ {k} :
              Last(new[o].arrays)[n] = Last(sl[o].arrays)[h]
              /\ h = IF n = k THEN sl[o].len ELSE n
<1> SUFFICES ASSUME NEW n \in 1..new[o].len
             PROVE  \E h \in (1..sl[o].len) \ {k} :
                       Last(new[o].arrays)[n] = Last(sl[o].arrays)[h]
                       /\ h = IF n = k THEN sl[o].len ELSE n
  OBVIOUS
<1>1. PICK len \in Nat, nr \in Nat : len = sl[o].len /\ nr = Len(sl[o].arrays) /\ nr # 0
  BY DEF Shaped, Slice, Removal
<1>2. /\ k \in 1..len /\ new[o].len = len - 1 /\ Len(new[o].arrays) = nr
      /\ \A m \in 1..Len(sl[o].arrays[nr]) :
            new[o].arrays[nr][m] = IF m = k THEN sl[o].arrays[nr][len] ELSE sl[o].arrays[nr][m]
  BY <1>1, SMTT(30) DEF Removal, Shrinks, Last
<1>3. \A m \in 1..len : m \in 1..Len(sl[o].arrays[nr])
  <2>1. /\ len \in 0..Len(sl[o].arrays[nr]) /\ sl[o].arrays[nr] \in Seq(Anything(o))
    BY <1>1 DEF Shaped, Slice, Covers, Removal
  <2> QED  BY <1>1, <2>1
<1>4. n \in 1..len /\ n # len
  BY <1>1, <1>2
<1>5. new[o].arrays[nr][n] = IF n = k THEN sl[o].arrays[nr][len] ELSE sl[o].arrays[nr][n]
  BY <1>2, <1>3, <1>4
<1>6. PICK h : h = IF n = k THEN len ELSE n
  OBVIOUS
<1>7. h \in (1..len) \ {k} /\ new[o].arrays[nr][n] = sl[o].arrays[nr][h]
  BY <1>1, <1>2, <1>4, <1>5, <1>6
<1> QED  BY <1>1, <1>2, <1>6, <1>7 DEF Last

\* What is in a slice after a removal was in it before, in another place.
LEMMA RemovalIs ==
    ASSUME NEW sl, NEW e, Shaped(sl, e), Apart(sl), NEW new, NEW o, NEW k,
           Removal(sl, new, o, k), NEW x, InSlice(new, o, x)
    PROVE  /\ InSlice(sl, o, x)
           /\ o # DB => x # Last(sl[o].arrays)[k]
           /\ o = DB => x[1] # Last(sl[DB].arrays)[k][1]
<1>1. PICK n \in 1..new[o].len : x = Last(new[o].arrays)[n]
  BY DEF InSlice
<1>2. PICK h \in (1..sl[o].len) \ {k} : x = Last(sl[o].arrays)[h]
  BY <1>1, ShrunkIs
<1>3. k \in 1..sl[o].len /\ o \in DOMAIN sl
  BY DEF Removal
<1> QED  BY <1>2, <1>3 DEF InSlice, Apart, Equals

\* A removal keeps the elements of a slice apart.
LEMMA RemovalApart ==
    ASSUME NEW sl, NEW e, Shaped(sl, e), Apart(sl), NEW new, NEW o, NEW k,
           Removal(sl, new, o, k)
    PROVE  Apart(new)
<1>1. sl[o].len \in Nat /\ k \in 1..sl[o].len /\ new[o].len = sl[o].len - 1
      /\ DOMAIN new = DOMAIN sl /\ \A other \in DOMAIN sl \ {o} : new[other] = sl[other]
  BY DEF Removal, Shaped, Slice, Shrinks
<1>2. ASSUME NEW m \in 1..new[o].len, NEW n \in 1..new[o].len, m # n
      PROVE  \E h, l \in 1..sl[o].len :
                h # l /\ Last(new[o].arrays)[m] = Last(sl[o].arrays)[h]
                      /\ Last(new[o].arrays)[n] = Last(sl[o].arrays)[l]
  BY <1>1, <1>2, ShrunkIs
<1>3. o = DB => \A m, n \in 1..new[o].len :
                   Last(new[o].arrays)[m][1] = Last(new[o].arrays)[n][1] => m = n
  BY <1>2 DEF Apart
<1>4. o # DB => \A m, n \in 1..new[o].len :
                   Equals(Last(new[o].arrays)[m], Last(new[o].arrays)[n]) => m = n
  BY <1>2 DEF Apart, Removal
<1>5. DB \in DOMAIN sl
  BY DEF Shaped
<1> QED  BY <1>1, <1>3, <1>4, <1>5 DEF Apart

\* An addition, too.
LEMMA AdditionIs ==
    ASSUME NEW sl, NEW e, Shaped(sl, e), NEW new, NEW o, NEW x,
           Addition(sl, new, o, x), NEW y, InSlice(new, o, y)
    PROVE  InSlice(sl, o, y) \/ y = x
<1>1. PICK len \in Nat : len = sl[o].len /\ new[o].len = len + 1
  BY DEF Addition, Grows, Shaped, Slice
<1>2. PICK n \in 1..(len + 1) : y = Last(new[o].arrays)[n]
  BY <1>1 DEF InSlice
<1>3. n = len + 1 \/ n \in 1..len
  BY <1>1
<1> QED  BY <1>1, <1>2, <1>3 DEF Addition, Grows, InSlice

LEMMA AdditionApart ==
    ASSUME NEW sl, NEW e, Shaped(sl, e), Apart(sl), NEW new, NEW o, NEW x,
           Addition(sl, new, o, x)
    PROVE  Apart(new)
<1>1. PICK len \in Nat :
        /\ len = sl[o].len /\ new[o].len = len + 1
        /\ \A n \in 1..len : Last(new[o].arrays)[n] = Last(sl[o].arrays)[n]
        /\ Last(new[o].arrays)[len + 1] = x
  BY DEF Addition, Grows, Shaped, Slice
<1>2. \A n \in 1..(len + 1) : n = len + 1 \/ n \in 1..len
  OBVIOUS
<1>3. DB \in DOMAIN sl /\ \A other \in DOMAIN sl \ {o} : new[other] = sl[other]
  BY DEF Shaped, Addition
<1>4. CASE o = DB
  <2>1. \A m, n \in 1..new[DB].len :
           Last(new[DB].arrays)[m][1] = Last(new[DB].arrays)[n][1] => m = n
    <3>1. \A n \in 1..len : Last(sl[DB].arrays)[n][1] # x[1]
      BY <1>1, <1>4 DEF Addition, InDB
    <3> QED  BY <1>1, <1>2, <1>4, <3>1 DEF Apart
  <2>2. ASSUME NEW other \in DOMAIN new \ {DB}, NEW m \in 1..new[other].len,
               NEW n \in 1..new[other].len,
               Equals(Last(new[other].arrays)[m], Last(new[other].arrays)[n])
        PROVE  m = n
    <3>1. CASE other \in DOMAIN sl
      BY <1>3, <1>4, <2>2, <3>1 DEF Apart
    <3>2. CASE other = x
      BY <1>4, <3>2 DEF Addition
    <3> QED  BY <1>4, <3>1, <3>2 DEF Addition
  <2> QED  BY <2>1, <2>2 DEF Apart
<1>5. CASE o # DB
  <2>1. \A m, n \in 1..new[o].len :
           Equals(Last(new[o].arrays)[m], Last(new[o].arrays)[n]) => m = n
    <3>1. \A n \in 1..len : /\ ~ Equals(Last(sl[o].arrays)[n], x)
                           /\ ~ Equals(x, Last(sl[o].arrays)[n])
      BY <1>1, <1>5 DEF Addition, InSlice, Equals
    <3>2. \A m, n \in 1..len :
             Equals(Last(sl[o].arrays)[m], Last(sl[o].arrays)[n]) => m = n
      BY <1>1, <1>5 DEF Apart, Addition
    <3> QED  BY <1>1, <1>2, <3>1, <3>2
  <2>2. DOMAIN new = DOMAIN sl /\ new[DB] = sl[DB]
    BY <1>3, <1>5 DEF Addition
  <2> QED  BY <1>3, <2>1, <2>2 DEF Apart
<1> QED  BY <1>4, <1>5

\* What a slice of the call covers stays, but for the element removed.
LEMMA Stays ==
    ASSUME LiveInv, NEW new, NEW o, Operation(new, o), ~ recycled',
           NEW c \in Copies, c = all \/ (\E n \in 1..Len(copies) : c = copies[n]),
           NEW n \in 1..c.len
    PROVE  \/ new[c.owner].arrays[c.nr][n] = slices[c.owner].arrays[c.nr][n]
           \/ /\ c.owner = o /\ Removal(slices, new, o, n)
              /\ slices[o].arrays[c.nr][n] = Last(slices[o].arrays)[n]
<1>1. Shaped(slices, ever) /\ Known(slices, c, ever) /\ copies \in Seq(Copies)
  BY DEF LiveInv, SafeInv
<1>2. c.owner \in DOMAIN slices /\ c.nr \in 1..Len(slices[c.owner].arrays)
      /\ n \in 1..Len(slices[c.owner].arrays[c.nr])
  <2>1. /\ c.owner \in DOMAIN slices /\ c.nr \in 1..Len(slices[c.owner].arrays)
        /\ c.len \in 0..Len(slices[c.owner].arrays[c.nr])
    BY <1>1 DEF Known, Covers
  <2>2. Slice(slices[c.owner], Anything(c.owner))
    BY <1>1, <2>1 DEF Shaped
  <2>3. slices[c.owner].arrays[c.nr] \in Seq(Anything(c.owner))
    BY <2>1, <2>2 DEF Slice
  <2> QED  BY <2>1, <2>3 DEF Copies
<1>3. CASE c.owner # o
  BY <1>2, <1>3 DEF Operation, Addition, Removal
<1>4. ASSUME c.owner = o, NEW k, Removal(slices, new, o, k)
      PROVE  \/ new[o].arrays[c.nr][n] = slices[o].arrays[c.nr][n]
             \/ Removal(slices, new, o, n)
                /\ slices[o].arrays[c.nr][n] = Last(slices[o].arrays)[n]
  <2>1. CASE c.nr = Len(slices[o].arrays) /\ n = k
    BY <1>4, <2>1 DEF Last
  <2>2. CASE ~ (c.nr = Len(slices[o].arrays) /\ n = k)
    BY <1>2, <1>4, <2>2 DEF Removal, Shrinks
  <2> QED  BY <2>1, <2>2
<1>5. ASSUME c.owner = o, NEW x, Addition(slices, new, o, x)
      PROVE  new[o].arrays[c.nr][n] = slices[o].arrays[c.nr][n]
  <2>1. PICK len \in Nat : len = slices[o].len /\ new[o].len = len + 1
    BY <1>1, <1>5 DEF Addition, Grows, Shaped, Slice
  <2>2. ~ Recycles(o)
    <3>1. slices[o].len < new[o].len
      BY <2>1
    <3>2. recycled' = (recycled \/ (slices[o].len < new[o].len /\ Recycles(o)))
      BY DEF Operation, Change
    <3> QED  BY <3>1, <3>2
  <2>3. c \in {all} \cup {copies[m] : m \in DOMAIN copies}
    BY <1>1
  <2>4. ~ (c.nr = Len(slices[o].arrays) /\ n = len + 1)
    BY <1>5, <2>1, <2>2, <2>3 DEF Recycles, Copies
  <2> QED  BY <1>2, <1>5, <2>1, <2>4 DEF Addition, Grows
<1> QED  BY <1>3, <1>4, <1>5 DEF Operation

\* Who is subscribed after an operation, and was, is the same subscriber.
LEMMA SameSubscriber ==
    ASSUME NEW e, Shaped(slices, e), Apart(slices), NEW new, NEW o, Operation(new, o),
           NEW s, InDB(slices, s), NEW t, InDB(new, t), t[1] = s[1]
    PROVE  t = s
<1>1. DB \in DOMAIN slices
  BY DEF Shaped
<1>2. InDB(slices, t)
  <2>1. ASSUME NEW x, Addition(slices, new, o, x)
        PROVE  InDB(slices, t)
    <3>1. CASE o = DB
      <4>1. InSlice(new, DB, t)
        BY DEF InDB, InSlice
      <4>2. InSlice(slices, DB, t) \/ t = x
        BY <2>1, <3>1, <4>1, AdditionIs
      <4> QED  BY <2>1, <3>1, <4>2 DEF Addition, InDB, InSlice
    <3>2. CASE o # DB
      BY <1>1, <2>1, <3>2 DEF Addition, InDB
    <3> QED  BY <3>1, <3>2
  <2>2. ASSUME NEW k, Removal(slices, new, o, k)
        PROVE  InDB(slices, t)
    <3>1. CASE o = DB
      <4>1. InSlice(new, DB, t)
        BY DEF InDB, InSlice
      <4>2. InSlice(slices, DB, t)
        BY <2>2, <3>1, <4>1, RemovalIs
      <4> QED  BY <4>2 DEF InDB, InSlice
    <3>2. CASE o # DB
      BY <1>1, <2>2, <3>2 DEF Removal, InDB
    <3> QED  BY <3>1, <3>2
  <2> QED  BY <2>1, <2>2 DEF Operation
<1> QED  BY <1>2 DEF InDB, Apart

\* The place of who stays.
LEMMA AtStays ==
    ASSUME LiveInv, Apart(slices), NEW new, NEW o, Operation(new, o), ~ recycled',
           NEW p \in SubscribedIn(new), NEW k \in 1..all.len, NEW m,
           At(slices, all, copies, p, k, m)
    PROVE  At(new, all, copies, p, k, m)
<1>1. /\ Shaped(slices, ever) /\ Shaped(new, All) /\ all \in Copies /\ all.owner = DB
      /\ copies \in Seq(Copies)
  BY DEF LiveInv, SafeInv, Operation
<1>2. PICK s : s = slices[DB].arrays[all.nr][k] /\ s[1] = p[1] /\ InDB(slices, s)
  BY DEF At
<1>3. PICK t \in DOMAIN new \ {DB} : InDB(new, t) /\ t[1] = p[1] /\ InSlice(new, t, p[2])
  BY <1>1, SubscribedIs DEF Has
<1>4. t = s
  BY <1>1, <1>2, <1>3, SameSubscriber
<1>5. new[DB].arrays[all.nr][k] = s
  <2>1. \/ new[DB].arrays[all.nr][k] = s
        \/ o = DB /\ Removal(slices, new, DB, k) /\ s = Last(slices[DB].arrays)[k]
    BY <1>1, <1>2, Stays
  <2>2. ASSUME Removal(slices, new, DB, k), s = Last(slices[DB].arrays)[k]
        PROVE  FALSE
    <3>1. InSlice(new, DB, t)
      BY <1>3 DEF InDB, InSlice
    <3> QED  BY <1>1, <1>4, <2>2, <3>1, RemovalIs
  <2> QED  BY <2>1, <2>2
<1>6. ASSUME k <= Len(copies)
      PROVE  /\ copies[k].owner = s /\ m \in 1..copies[k].len
             /\ new[copies[k].owner].arrays[copies[k].nr][m] = p[2]
  <2>1. k \in 1..Len(copies) /\ copies[k] \in Copies
    BY <1>1, <1>6
  <2>2. PICK c \in Copies : c = copies[k]
    BY <2>1
  <2>3. c.owner = s /\ m \in 1..c.len /\ slices[s].arrays[c.nr][m] = p[2]
    BY <1>2, <1>6, <2>2 DEF At
  <2>4. \/ new[s].arrays[c.nr][m] = p[2]
        \/ s = o /\ Removal(slices, new, s, m) /\ p[2] = Last(slices[s].arrays)[m]
    BY <2>1, <2>2, <2>3, Stays
  <2>5. ASSUME Removal(slices, new, s, m), p[2] = Last(slices[s].arrays)[m]
        PROVE  FALSE
    BY <1>1, <1>3, <1>4, <2>5, RemovalIs
  <2> QED  BY <2>2, <2>3, <2>4, <2>5
<1> QED  BY <1>2, <1>3, <1>4, <1>5, <1>6 DEF At

LEMMA OperationKept ==
    ASSUME LiveInv, KeptInv, NEW new, NEW o, Operation(new, o)
    PROVE  KeptInv'
<1>1. /\ UNCHANGED <<all, copies, got, i, j, siteSet>> /\ slices' = new
      /\ always' = always \cap Subscribed' /\ Subscribed' = SubscribedIn(new)
      /\ (~ recycled' => ~ recycled)
  BY SubscribedNow DEF Operation, Change, loops
<1>2. Apart(new)
  BY AdditionApart, RemovalApart DEF LiveInv, SafeInv, KeptInv, Operation
<1>3. ASSUME ~ recycled', NEW p \in always'
      PROVE  \E k \in 1..all.len : \E m \in Nat :
                At(new, all, copies, p, k, m) /\ (Passed(k, m) => DedupKey(p[2]) \in siteSet)
  <2>1. PICK k \in 1..all.len, m \in Nat :
           /\ At(slices, all, copies, p, k, m)
           /\ Passed(k, m) => DedupKey(p[2]) \in siteSet
    BY <1>1, <1>3 DEF KeptInv
  <2>2. p \in SubscribedIn(new)
    BY <1>1, <1>3
  <2>3. At(new, all, copies, p, k, m)
    BY <1>3, <2>1, <2>2, AtStays DEF KeptInv
  <2> QED  BY <2>1, <2>3
<1> QED  BY <1>1, <1>2, <1>3 DEF KeptInv, Passed

LEMMA CopyKept ==
    ASSUME LiveInv, KeptInv, CopySubscriber
    PROVE  KeptInv'
<1>1. PICK s : s = Seen(all)[Len(copies) + 1]
  OBVIOUS
<1>2. /\ copies' = Append(copies, Copy(s)) /\ ~ got
      /\ UNCHANGED <<slices, all, always, recycled, got, i, j, siteSet>>
  BY <1>1 DEF CopySubscriber, loops, LiveInv, SafeInv, Copies
<1>3. /\ Shaped(slices, ever) /\ all \in Copies /\ all.owner = DB /\ Known(slices, all, ever)
      /\ copies \in Seq(Copies) /\ Apart(slices)
  BY DEF LiveInv, SafeInv, KeptInv
<1>4. s = slices[DB].arrays[all.nr][Len(copies) + 1] /\ s \in DOMAIN slices
  <2>1. Len(copies) + 1 \in 1..all.len
    BY <1>3 DEF CopySubscriber, Copies
  <2>2. \A m \in 1..all.len : Seen(all)[m] = slices[DB].arrays[all.nr][m]
    BY <1>3, SeenIs DEF SeenIn, Seen
  <2>3. slices[DB].arrays[all.nr][Len(copies) + 1] \in DOMAIN slices
    BY <1>3, <2>1 DEF Known, Covers, Elements
  <2> QED  BY <1>1, <2>1, <2>2, <2>3
<1>5. Copy(s) \in Copies /\ Copy(s).owner = s /\ Copy(s).len = slices[s].len
      /\ Copy(s).nr = Len(slices[s].arrays)
  BY <1>3, <1>4, CopyIs
<1>6. PICK cs \in Seq(Copies), c \in Copies, n \in Nat :
         /\ cs = copies' /\ c = Copy(s) /\ n = Len(copies) /\ Len(cs) = n + 1 /\ cs[n + 1] = c
         /\ \A k \in 1..n : cs[k] = copies[k]
  BY <1>2, <1>3, <1>5, AppendIs
<1>7. always' = always /\ Subscribed' = Subscribed
  BY <1>2, SubscribedNow
<1>8. ASSUME ~ recycled, NEW p \in always
      PROVE  \E k \in 1..all.len : \E m \in Nat : At(slices, all, cs, p, k, m)
  <2>1. PICK k \in 1..all.len, m \in Nat : At(slices, all, copies, p, k, m)
    BY <1>8 DEF KeptInv
  <2>2. CASE k # n + 1
    <3>1. ASSUME k <= Len(cs)
          PROVE  k <= Len(copies) /\ cs[k] = copies[k]
      <4>1. n \in Nat /\ Len(cs) = n + 1 /\ n = Len(copies)
        BY <1>6
      <4>2. k \in 1..n
        BY <2>2, <3>1, <4>1
      <4> QED  BY <1>6, <4>1, <4>2
    <3> QED  BY <2>1, <3>1 DEF At
  <2>3. CASE k = n + 1
    <3>1. p \in SubscribedIn(slices)
      BY <1>8, SubscribedNow DEF KeptInv
    <3>2. PICK t : InDB(slices, t) /\ t[1] = p[1] /\ InSlice(slices, t, p[2])
      BY <1>3, <3>1, SubscribedIs DEF Has
    <3>3. InDB(slices, s) /\ s[1] = p[1]
      BY <1>4, <1>6, <2>1, <2>3 DEF At
    <3>4. t = s
      BY <1>3, <3>2, <3>3 DEF InDB, Apart
    <3>5. PICK h \in 1..slices[s].len : Last(slices[s].arrays)[h] = p[2]
      BY <3>2, <3>4 DEF InSlice
    <3>6. h \in Nat
      BY <3>5
    <3>7. cs[k].owner = s /\ h \in 1..cs[k].len
          /\ slices[cs[k].owner].arrays[cs[k].nr][h] = p[2]
      BY <1>5, <1>6, <2>3, <3>5 DEF Last
    <3>8. At(slices, all, cs, p, k, h)
      BY <1>4, <1>6, <2>3, <3>3, <3>7 DEF At
    <3> QED  BY <3>6, <3>8
  <2> QED  BY <2>1, <2>2, <2>3
<1>9. \A k, m : ~ Passed(k, m)'
  BY <1>2 DEF Passed
<1> QED  BY <1>2, <1>3, <1>6, <1>7, <1>8, <1>9 DEF KeptInv

\* The loops go by an element only when its key is among those seen.
LEMMA LoopKept ==
    ASSUME LiveInv, KeptInv, Loop
    PROVE  KeptInv'
<1>1. UNCHANGED <<slices, all, copies, always, recycled>> /\ subscribers' = subscribers
  BY DEF Loop, ReturnSubscribers, GotSubscribers, NextSubscriber, Collect, Skip, Look
<1>2. always' = always /\ Subscribed' = Subscribed
  BY <1>1, SubscribedNow
<1>3. ASSUME NEW p, NEW k \in 1..all.len, NEW m \in Nat, At(slices, all, copies, p, k, m),
             Passed(k, m) => DedupKey(p[2]) \in siteSet, Passed(k, m)'
      PROVE  DedupKey(p[2]) \in siteSet'
  <2>1. /\ i \in Nat \ {0} /\ j \in Nat \ {0} /\ got \in BOOLEAN /\ Len(copies) \in Nat
        /\ (got => Len(copies) = all.len) /\ (~ got => i = 1 /\ j = 1) /\ all.len \in Nat
        /\ Views(slices, copies, subscribers)
    BY DEF LiveInv, Inv, ScrapeListInv, SafeInv, Copies
  <2>2. siteSet \subseteq siteSet'
    BY DEF Loop, ReturnSubscribers, GotSubscribers, NextSubscriber, Collect, Skip, loops
  <2>3. CASE ReturnSubscribers
    <3>1. i' = 1 /\ j' = 1 /\ Len(copies) = all.len
      BY <2>1, <2>3 DEF ReturnSubscribers, GotSubscribers, loops
    <3>2. k <= Len(copies) /\ copies[k] \in Copies
      BY <2>1, <3>1 DEF LiveInv, SafeInv
    <3>3. m \in 1..copies[k].len
      BY <1>3, <3>2 DEF At
    <3> QED  BY <1>3, <3>1, <3>3 DEF Passed
  <2>4. ASSUME got, k <= Len(copies)
        PROVE  /\ m \in 1..Len(subscribers[k]) /\ subscribers[k][m] = p[2]
               /\ Len(subscribers[k]) \in Nat
    <3>1. copies[k] \in Copies /\ k \in 1..Len(copies)
      BY <2>1, <2>4 DEF LiveInv, SafeInv
    <3> QED  BY <1>3, <2>1, <2>4, <3>1 DEF At, Views, Copies
  <2>5. CASE NextSubscriber
    <3>1. got /\ i' = i + 1 /\ j' = 1 /\ j > Len(subscribers[i]) /\ k <= Len(copies)
      BY <2>1, <2>5 DEF NextSubscriber
    <3>2. i > k \/ (i = k /\ j > m)
      BY <1>3, <2>1, <2>4, <3>1 DEF Passed
    <3> QED  BY <1>3, <2>2, <3>1, <3>2 DEF Passed
  <2>6. CASE Collect \/ Skip
    <3>1. got /\ i' = i /\ j' = j + 1 /\ k <= Len(copies)
          /\ DedupKey(subscribers[i][j]) \in siteSet'
      BY <2>1, <2>6 DEF Collect, Skip, Look, Looking
    <3>2. i > k \/ (i = k /\ j > m) \/ (i = k /\ j = m)
      BY <1>3, <2>1, <3>1 DEF Passed
    <3> QED  BY <1>3, <2>2, <2>4, <3>1, <3>2 DEF Passed
  <2> QED  BY <2>3, <2>5, <2>6 DEF Loop
<1>4. ASSUME ~ recycled, NEW p \in always
      PROVE  \E k \in 1..all.len : \E m \in Nat :
                /\ At(slices, all, copies, p, k, m)
                /\ Passed(k, m)' => DedupKey(p[2]) \in siteSet'
  BY <1>3, <1>4 DEF KeptInv
<1> QED  BY <1>1, <1>2, <1>4 DEF KeptInv

LEMMA InitKept == LiveInit => KeptInv
<1> SUFFICES ASSUME LiveInit PROVE KeptInv
  OBVIOUS
<1>1. Shaped(slices, ever)
  BY InitShaped
<1>2. Apart(slices)
  BY InitShaped
<1>3. ASSUME NEW p \in always
      PROVE  \E k \in 1..all.len : \E m \in Nat :
                At(slices, all, copies, p, k, m) /\ ~ Passed(k, m)
  <2>1. p \in SubscribedIn(slices)
    BY <1>3, SubscribedNow DEF LiveInit
  <2>2. PICK t : InDB(slices, t) /\ t[1] = p[1]
    BY <1>1, <2>1, SubscribedIs DEF Has
  <2>3. PICK k \in 1..slices[DB].len : slices[DB].arrays[Len(slices[DB].arrays)][k] = t
    BY <2>2 DEF InDB, Last
  <2>4. all.nr = Len(slices[DB].arrays) /\ all.len = slices[DB].len
        /\ Len(copies) = 0 /\ ~ got
    BY DEF LiveInit, Init, Copy
  <2>5. At(slices, all, copies, p, k, 0) /\ ~ Passed(k, 0)
    BY <2>2, <2>3, <2>4 DEF At, Passed
  <2> QED  BY <2>4, <2>5
<1>4. always \subseteq Subscribed
  BY DEF LiveInit
<1> QED  BY <1>2, <1>3, <1>4 DEF KeptInv

LEMMA KeptStep == LiveInv /\ KeptInv /\ [LiveNext]_liveVars => KeptInv'
<1> SUFFICES ASSUME LiveInv, KeptInv, [LiveNext]_liveVars
             PROVE  KeptInv'
  OBVIOUS
<1>1. CASE CopySubscriber
  BY <1>1, CopyKept
<1>2. CASE Loop
  BY <1>2, LoopKept
<1>3. ASSUME NEW new, NEW o, Operation(new, o)
      PROVE  KeptInv'
  BY <1>3, OperationKept
<1>4. CASE UNCHANGED liveVars
  <2>1. UNCHANGED <<slices, all, copies, always, recycled, got, i, j, siteSet>>
    BY <1>4 DEF liveVars, vars, loops
  <2>2. Subscribed' = Subscribed
    BY <2>1, SubscribedNow
  <2> QED  BY <2>1, <2>2 DEF KeptInv, Passed
<1> QED  BY <1>1, <1>2, <1>3, <1>4, OperationIs DEF LiveNext

----------------------------------------------------------------------------
(* The sequences of MemoryStorage.                                          *)

\* The subscribers as MemoryStorage has them, of slices sl.
SubscriberIn(sl, s) ==
    [Email |-> s[1], Subscriptions |-> ContentsIn(sl, s), SubscriptionLimit |-> 0]
SequencesIn(sl) ==
    [s \in {ContentsIn(sl, DB)[n] : n \in 1..sl[DB].len} |-> SubscriberIn(sl, s)]

\* They are what SliceStorage says.
LEMMA SequencesNow ==
    /\ Sequences = SequencesIn(slices) /\ Sequences' = SequencesIn(slices')
    /\ Contents(DB) = ContentsIn(slices, DB) /\ Contents(DB)' = ContentsIn(slices', DB)
BY DEF Sequences, SequencesIn, SubscriberIn, Contents, ContentsIn, Array

\* Functions with the same domain and the same values are one function.
IsAFunction(f) == f = [x \in DOMAIN f |-> f[x]]
LEMMA OneFunction ==
    ASSUME NEW f, NEW g, IsAFunction(f), IsAFunction(g), DOMAIN f = DOMAIN g,
           \A x \in DOMAIN f : f[x] = g[x]
    PROVE  f = g
BY DEF IsAFunction

\* There is one for every subscriber.
LEMMA SequencesAre ==
    ASSUME NEW sl, NEW e, Shaped(sl, e)
    PROVE  /\ \A s : s \in DOMAIN SequencesIn(sl) <=> InDB(sl, s)
           /\ \A s : InDB(sl, s) => SequencesIn(sl)[s] = SubscriberIn(sl, s)
           /\ IsAFunction(SequencesIn(sl))
<1>1. \A n \in 1..sl[DB].len : ContentsIn(sl, DB)[n] = Last(sl[DB].arrays)[n]
  BY ContentsAre DEF Shaped
<1>2. DOMAIN SequencesIn(sl) = {ContentsIn(sl, DB)[n] : n \in 1..sl[DB].len}
  BY DEF SequencesIn
<1>3. \A s : s \in DOMAIN SequencesIn(sl) <=> InDB(sl, s)
  BY <1>1, <1>2 DEF InDB
<1>4. \A s \in DOMAIN SequencesIn(sl) : SequencesIn(sl)[s] = SubscriberIn(sl, s)
  BY <1>2 DEF SequencesIn
<1>5. IsAFunction(SequencesIn(sl))
  BY DEF SequencesIn, IsAFunction
<1> QED  BY <1>3, <1>4, <1>5

\* The contents of a slice that does not change,
LEMMA SameContents ==
    ASSUME NEW sl, NEW new, NEW o, new[o] = sl[o]
    PROVE  ContentsIn(new, o) = ContentsIn(sl, o)
BY DEF ContentsIn

\* of one that was appended to,
LEMMA GrownContents ==
    ASSUME NEW sl, NEW e, Shaped(sl, e), NEW new, NEW f, Shaped(new, f),
           NEW o \in DOMAIN sl \cap DOMAIN new, NEW x, Grows(sl[o], new[o], x)
    PROVE  ContentsIn(new, o) = Append(ContentsIn(sl, o), x)
<1>1. PICK A, B : A = Elements(o, DOMAIN sl, e) /\ B = Elements(o, DOMAIN new, f)
  OBVIOUS
<1>2. PICK len \in Nat : len = sl[o].len /\ new[o].len = len + 1
  BY DEF Shaped, Slice, Grows
<1>3. PICK s \in Seq(A) : s = ContentsIn(sl, o)
  BY <1>1, ContentsAre
<1>4. PICK t \in Seq(B) : t = ContentsIn(new, o)
  BY <1>1, ContentsAre
<1>5. Len(s) = len /\ \A n \in 1..len : s[n] = Last(sl[o].arrays)[n]
  BY <1>2, <1>3, ContentsAre
<1>6. Len(t) = len + 1 /\ \A n \in 1..(len + 1) : t[n] = Last(new[o].arrays)[n]
  BY <1>2, <1>4, ContentsAre
<1>7. (\A n \in 1..len : t[n] = s[n]) /\ t[len + 1] = x
  BY <1>2, <1>5, <1>6 DEF Grows
<1>8. \A n \in 1..(len + 1) : n = len + 1 \/ n \in 1..len
  OBVIOUS
<1>9. t = Append(s, x)
  BY <1>5, <1>6, <1>7, <1>8
<1> QED  BY <1>3, <1>4, <1>9

\* and of one that an element was removed from.
LEMMA ShrunkContents ==
    ASSUME NEW sl, NEW e, Shaped(sl, e), NEW new, NEW f, Shaped(new, f),
           NEW o, NEW k, Removal(sl, new, o, k)
    PROVE  ContentsIn(new, o) = Memory!SwapRemove(ContentsIn(sl, o), k)
<1>1. PICK len \in Nat : len = sl[o].len /\ new[o].len = len - 1 /\ k \in 1..len
  BY DEF Shaped, Slice, Removal, Shrinks
<1>2. o \in DOMAIN sl /\ o \in DOMAIN new
  BY DEF Removal
<1>3. PICK s : s = ContentsIn(sl, o)
  OBVIOUS
<1>4. PICK t : t = ContentsIn(new, o)
  OBVIOUS
<1>5. Len(s) = len /\ \A n \in 1..len : s[n] = Last(sl[o].arrays)[n]
  BY <1>1, <1>2, <1>3, ContentsAre
<1>6. /\ t \in Seq(Elements(o, DOMAIN new, f)) /\ Len(t) = len - 1
      /\ \A n \in 1..(len - 1) : t[n] = Last(new[o].arrays)[n]
  BY <1>1, <1>2, <1>4, ContentsAre
<1>7. \A n \in 1..(len - 1) : t[n] = IF n = k THEN s[len] ELSE s[n]
  <2> SUFFICES ASSUME NEW n \in 1..(len - 1)
               PROVE  t[n] = IF n = k THEN s[len] ELSE s[n]
    OBVIOUS
  <2>1. PICK h \in (1..len) \ {k} :
           Last(new[o].arrays)[n] = Last(sl[o].arrays)[h] /\ h = IF n = k THEN len ELSE n
    BY <1>1, ShrunkIs
  <2> QED  BY <1>5, <1>6, <2>1
<1>8. t = [n \in 1..(len - 1) |-> IF n = k THEN s[len] ELSE s[n]]
  BY <1>6, <1>7
<1>9. Memory!SwapRemove(s, k) = [n \in 1..(len - 1) |-> IF n = k THEN s[len] ELSE s[n]]
  BY <1>5 DEF Memory!SwapRemove
<1> QED  BY <1>3, <1>4, <1>8, <1>9

\* A subscriber is found at its place, and
LEMMA MemoryFinds ==
    ASSUME NEW e, Shaped(slices, e), Apart(slices), NEW email, NEW k \in 1..slices[DB].len,
           NEW s, s = Contents(DB)[k], s[1] = email
    PROVE  /\ InDB(slices, s) /\ s \in DOMAIN Sequences
           /\ Sequences[s] = SubscriberIn(slices, s)
           /\ Memory!Known(email) /\ Memory!GetSubscriber(email) = s
           /\ Memory!First(Memory!Positions(email)) = k
<1>1. PICK len \in Nat : len = slices[DB].len
  BY DEF Shaped, Slice
<1>2. /\ DOMAIN Contents(DB) = 1..len
      /\ \A n \in 1..len : Contents(DB)[n] = Last(slices[DB].arrays)[n]
  <2>1. PICK E : E = Elements(DB, DOMAIN slices, e)
    OBVIOUS
  <2>2. /\ Contents(DB) \in Seq(E) /\ Len(Contents(DB)) = len
        /\ \A n \in 1..len : Contents(DB)[n] = Last(slices[DB].arrays)[n]
    BY <1>1, <2>1, ContentsAre, SequencesNow DEF Shaped
  <2> QED  BY <2>2
<1>3. \A n \in 1..len : InDB(slices, Contents(DB)[n])
  BY <1>1, <1>2 DEF InDB
<1>4. \A n \in 1..len : Sequences[Contents(DB)[n]] = SubscriberIn(slices, Contents(DB)[n])
  BY <1>3, SequencesAre, SequencesNow
<1>5. \A n \in 1..len : Sequences[Contents(DB)[n]].Email = Last(slices[DB].arrays)[n][1]
  <2>1. \A t : SubscriberIn(slices, t).Email = t[1]
    BY DEF SubscriberIn
  <2> QED  BY <1>2, <1>4, <2>1
<1>6. k \in 1..len /\ s = Last(slices[DB].arrays)[k] /\ InDB(slices, s)
  BY <1>1, <1>2, <1>3
<1>7. Memory!Positions(email) = {k}
  BY <1>1, <1>2, <1>5, <1>6 DEF Memory!Positions, Apart
<1>8. Memory!First({k}) = k
  BY <1>6 DEF Memory!First
<1> QED  BY <1>4, <1>6, <1>7, <1>8, SequencesAre, SequencesNow
         DEF Memory!Known, Memory!GetSubscriber

\* an e-mail nobody has is not.
LEMMA MemoryMisses ==
    ASSUME NEW e, Shaped(slices, e), NEW email, Stored(email) = {}
    PROVE  ~ Memory!Known(email)
<1>1. PICK len \in Nat : len = slices[DB].len
  BY DEF Shaped, Slice
<1>2. DOMAIN Contents(DB) = 1..len
  <2>1. PICK E : E = Elements(DB, DOMAIN slices, e)
    OBVIOUS
  <2>2. /\ Contents(DB) \in Seq(E) /\ Len(Contents(DB)) = len
        /\ \A n \in 1..len : Contents(DB)[n] = Last(slices[DB].arrays)[n]
    BY <1>1, <2>1, ContentsAre, SequencesNow DEF Shaped
  <2> QED  BY <2>2
<1>3. ASSUME NEW n \in 1..len
      PROVE  Sequences[Contents(DB)[n]].Email # email
  <2>1. Contents(DB)[n][1] # email
    BY <1>1 DEF Stored
  <2>2. Contents(DB)[n] \in {Contents(DB)[m] : m \in 1..slices[DB].len}
    BY <1>1
  <2>3. Sequences[Contents(DB)[n]].Email = Contents(DB)[n][1]
    BY <2>2 DEF Sequences
  <2> QED  BY <2>1, <2>3
<1> QED  BY <1>2, <1>3 DEF Memory!Known, Memory!Positions

\* Who is stored has a place.
LEMMA StoredIs ==
    ASSUME NEW e, Shaped(slices, e), NEW email, NEW s \in Stored(email)
    PROVE  /\ s[1] = email /\ InDB(slices, s) /\ s \in DOMAIN slices \ {DB}
           /\ \E k \in 1..slices[DB].len : s = Contents(DB)[k]
<1>1. s[1] = email /\ \E k \in 1..slices[DB].len : s = Contents(DB)[k]
  BY DEF Stored
<1>2. InDB(slices, s) /\ s \in DOMAIN slices \ {DB}
  BY SubscribedIs, SubscribedNow
<1> QED  BY <1>1, <1>2

\* One subscriber gets other subscriptions.
LEMMA OneChanged ==
    ASSUME NEW e, Shaped(slices, e), NEW f, Shaped(slices', f), NEW s, InDB(slices, s),
           \A o \in DOMAIN slices \ {s} : slices'[o] = slices[o],
           DOMAIN slices' = DOMAIN slices
    PROVE  /\ Contents(DB)' = Contents(DB)
           /\ Sequences' = [Sequences EXCEPT ![s].Subscriptions = ContentsIn(slices', s)]
<1>1. s \in DOMAIN slices \ {DB} /\ \A t : InDB(slices, t) => t \in DOMAIN slices \ {DB}
  BY SubscribedIs
<1>2. slices'[DB] = slices[DB]
  BY <1>1 DEF Shaped
<1>3. \A t : InDB(slices', t) <=> InDB(slices, t)
  BY <1>2 DEF InDB
<1>4. Contents(DB)' = Contents(DB)
  BY <1>2, SameContents, SequencesNow
<1>5. /\ \A t : t \in DOMAIN Sequences' <=> InDB(slices, t)
      /\ \A t : InDB(slices, t) => Sequences'[t] = SubscriberIn(slices', t)
      /\ IsAFunction(Sequences')
  BY <1>3, SequencesAre, SequencesNow
<1>6. /\ \A t : t \in DOMAIN Sequences <=> InDB(slices, t)
      /\ \A t : InDB(slices, t) => Sequences[t] = SubscriberIn(slices, t)
      /\ IsAFunction(Sequences)
  BY SequencesAre, SequencesNow
<1>7. \A t : InDB(slices, t) /\ t # s => SubscriberIn(slices', t) = SubscriberIn(slices, t)
  BY <1>1, SameContents DEF SubscriberIn
<1>8. SubscriberIn(slices', s) =
         [SubscriberIn(slices, s) EXCEPT !.Subscriptions = ContentsIn(slices', s)]
  BY DEF SubscriberIn
<1>9. DOMAIN Sequences' = DOMAIN Sequences
  BY <1>5, <1>6
<1>10. PICK g : g = [Sequences EXCEPT ![s].Subscriptions = ContentsIn(slices', s)]
  OBVIOUS
<1>11. DOMAIN g = DOMAIN Sequences /\ IsAFunction(g)
  BY <1>6, <1>10 DEF IsAFunction
<1>12. \A t \in DOMAIN Sequences : g[t] = Sequences'[t]
  <2> SUFFICES ASSUME NEW t \in DOMAIN Sequences PROVE g[t] = Sequences'[t]
    OBVIOUS
  <2>1. CASE t = s
    BY <1>5, <1>6, <1>8, <1>10, <2>1
  <2>2. CASE t # s
    BY <1>5, <1>6, <1>7, <1>10, <2>2
  <2> QED  BY <2>1, <2>2
<1>13. Sequences' = g
  BY <1>5, <1>9, <1>11, <1>12, OneFunction
<1> QED  BY <1>4, <1>10, <1>13

\* A new subscriber.
LEMMA CreateMemory ==
    ASSUME LiveInv, NEW email \in Emails, NEW list \in Seq(Subscriptions), Len(list) \in 0..1,
           Create(email, list)
    PROVE  /\ ~ Memory!Known(email)
           /\ Memory!AppendSubscriber([Email             |-> email,
                                       Subscriptions     |-> list,
                                       SubscriptionLimit |-> 0])
<1>1. PICK nr \in 1..(MaxChanges + 1) :
        /\ <<email, nr>> \notin DOMAIN slices
        /\ Change([owner \in DOMAIN slices \cup {<<email, nr>>} |->
                      IF owner = DB THEN Appended(DB, <<email, nr>>)
                      ELSE IF owner = <<email, nr>> THEN Literal(list)
                      ELSE slices[owner]], DB)
  BY DEF Create
<1>2. PICK s \in Subscribers : s = <<email, nr>> /\ s[1] = email
  <2>1. <<email, nr>> \in Subscribers
    BY DEF Subscribers
  <2> QED  BY <2>1
<1>3. slices' = WithNew(s, list) /\ s \notin DOMAIN slices
  BY <1>1, <1>2 DEF WithNew, Change
<1>4. /\ Shaped(slices', All) /\ DOMAIN slices' = DOMAIN slices \cup {s}
      /\ Grows(slices[DB], slices'[DB], s) /\ slices'[s] = Literal(list)
      /\ \A o \in DOMAIN slices \ {DB} : slices'[o] = slices[o]
  <2>1. PICK new : new = WithNew(s, list)
    OBVIOUS
  <2>2. /\ Shaped(new, All) /\ DOMAIN new = DOMAIN slices \cup {s}
        /\ Grows(slices[DB], new[DB], s) /\ new[s] = Literal(list)
    BY <1>3, <2>1, CreateChanges
  <2>3. \A o \in DOMAIN slices \ {DB} : new[o] = slices[o]
    BY <1>3, <2>1 DEF WithNew
  <2> QED  BY <1>3, <2>1, <2>2, <2>3
<1>5. Shaped(slices, ever) /\ DB \in DOMAIN slices /\ s # DB
  BY DBIsNone DEF LiveInv, SafeInv, Shaped
<1>6. ~ Memory!Known(email)
  BY <1>5, MemoryMisses DEF Create
<1>7. Contents(DB)' = Append(Contents(DB), s)
  BY <1>4, <1>5, GrownContents, SequencesNow
<1>8. \A t : InDB(slices', t) <=> InDB(slices, t) \/ t = s
  <2>1. PICK len \in Nat : len = slices[DB].len
    BY <1>5 DEF Shaped, Slice
  <2>2. \A n \in 1..(len + 1) : n = len + 1 \/ n \in 1..len
    OBVIOUS
  <2>3. len + 1 \in 1..(len + 1) /\ \A n \in 1..len : n \in 1..(len + 1)
    OBVIOUS
  <2> QED  BY <1>4, <2>1, <2>2, <2>3 DEF InDB, Grows
<1>9. ContentsIn(slices', s) = list
  <2>1. PICK l : l = Literal(list)
    OBVIOUS
  <2>2. l.len = Len(list) /\ Len(l.arrays) = 1 /\ l.arrays[1] = list
    <3>1. \A n \in 1..Len(list) : list[n] \in Subscriptions
      OBVIOUS
    <3> QED  BY <2>1, <3>1, LiteralIs
  <2>3. ContentsIn(slices', s) = SubSeq(list, 1, Len(list))
    BY <1>4, <2>1, <2>2 DEF ContentsIn, Last
  <2> QED  BY <2>3
<1>10. PICK o : o = [Email |-> email, Subscriptions |-> list, SubscriptionLimit |-> 0]
  OBVIOUS
<1>11. SubscriberIn(slices', s) = o
  BY <1>2, <1>9, <1>10 DEF SubscriberIn
<1>12. \A t : InDB(slices, t) =>
          /\ t \in DOMAIN slices \ {DB} /\ t # s
          /\ SubscriberIn(slices', t) = SubscriberIn(slices, t)
  BY <1>3, <1>4, <1>5, SubscribedIs, SameContents DEF SubscriberIn
<1>13. /\ \A t : t \in DOMAIN Sequences' <=> InDB(slices', t)
       /\ \A t : InDB(slices', t) => Sequences'[t] = SubscriberIn(slices', t)
       /\ IsAFunction(Sequences')
  BY <1>4, SequencesAre, SequencesNow
<1>14. /\ \A t : t \in DOMAIN Sequences <=> InDB(slices, t)
       /\ \A t : InDB(slices, t) => Sequences[t] = SubscriberIn(slices, t)
  BY <1>5, SequencesAre, SequencesNow
<1>15. PICK g : g = [t \in DOMAIN Sequences \cup {s} |-> IF t = s THEN o ELSE Sequences[t]]
  OBVIOUS
<1>16. DOMAIN g = DOMAIN Sequences \cup {s} /\ IsAFunction(g)
  BY <1>15 DEF IsAFunction
<1>17. DOMAIN Sequences' = DOMAIN g
  BY <1>8, <1>13, <1>14, <1>16
<1>18. \A t \in DOMAIN g : g[t] = Sequences'[t]
  BY <1>8, <1>11, <1>12, <1>13, <1>14, <1>15, <1>16
<1>19. Sequences' = g
  BY <1>13, <1>16, <1>17, <1>18, OneFunction
<1>20. s \in Subscribers \ DOMAIN Sequences
  BY <1>12, <1>14
<1> QED  BY <1>6, <1>7, <1>10, <1>15, <1>19, <1>20 DEF Memory!AppendSubscriber

\* A subscription more.
LEMMA AppendMemory ==
    ASSUME LiveInv, Apart(slices), NEW email, NEW x \in Subscriptions,
           \A y \in Held(email) : ~ Equals(y, x),
           NEW s \in Stored(email), Replace(s, Appended(s, x))
    PROVE  Memory!AddSubscription(email, x)
<1>1. Shaped(slices, ever)
  BY DEF LiveInv, SafeInv
<1>2. PICK k \in 1..slices[DB].len : s = Contents(DB)[k]
  BY <1>1, StoredIs
<1>3. s[1] = email /\ InDB(slices, s) /\ s \in DOMAIN slices \ {DB}
  BY <1>1, StoredIs
<1>4. /\ Memory!Known(email) /\ Memory!GetSubscriber(email) = s
      /\ Sequences[s] = SubscriberIn(slices, s)
  BY <1>1, <1>2, <1>3, MemoryFinds
<1>5. /\ Shaped(slices', All) /\ DOMAIN slices' = DOMAIN slices
      /\ Grows(slices[s], slices'[s], x)
      /\ \A o \in DOMAIN slices \ {s} : slices'[o] = slices[o]
  <2>1. PICK new : new = [slices EXCEPT ![s] = Appended(s, x)]
    OBVIOUS
  <2>2. slices' = new
    BY <2>1 DEF Replace, Change
  <2>3. /\ Shaped(new, All) /\ DOMAIN new = DOMAIN slices /\ Grows(slices[s], new[s], x)
        /\ \A o \in DOMAIN slices \ {s} : new[o] = slices[o]
    BY <1>3, <2>1, AppendChanges
  <2> QED  BY <2>2, <2>3
<1>6. ContentsIn(slices', s) = Append(ContentsIn(slices, s), x)
  BY <1>1, <1>3, <1>5, GrownContents
<1>7. /\ Contents(DB)' = Contents(DB)
      /\ Sequences' = [Sequences EXCEPT ![s].Subscriptions = ContentsIn(slices', s)]
  BY <1>1, <1>3, <1>5, OneChanged
<1>8. Sequences[s].Subscriptions = ContentsIn(slices, s)
  BY <1>4 DEF SubscriberIn
<1>9. Memory!Subscribed(s, x) = {}
  <2>1. PICK len \in Nat : len = slices[s].len
    BY <1>1, <1>3 DEF Shaped, Slice
  <2>2. PICK E : E = Elements(s, DOMAIN slices, ever)
    OBVIOUS
  <2>3. /\ ContentsIn(slices, s) \in Seq(E) /\ Len(ContentsIn(slices, s)) = len
        /\ \A n \in 1..len : ContentsIn(slices, s)[n] = Last(slices[s].arrays)[n]
    BY <1>1, <1>3, <2>1, <2>2, ContentsAre
  <2>4. DOMAIN ContentsIn(slices, s) = 1..len
    BY <2>3
  <2>5. ASSUME NEW n \in 1..len PROVE ~ Equals(ContentsIn(slices, s)[n], x)
    <3>1. ContentsIn(slices, s)[n] = Contents(s)[n]
      BY SubscribedNow
    <3>2. Contents(s)[n] \in Held(email)
      BY <2>1 DEF Held
    <3> QED  BY <3>1, <3>2
  <2> QED  BY <1>8, <2>4, <2>5 DEF Memory!Subscribed, Memory!Equals, Equals
<1> QED  BY <1>4, <1>6, <1>7, <1>8, <1>9 DEF Memory!AddSubscription

\* A subscription less.
LEMMA RemoveMemory ==
    ASSUME LiveInv, Apart(slices), NEW email, NEW x, NEW s \in Stored(email),
           NEW k \in 1..slices[s].len, Equals(Contents(s)[k], x), Replace(s, Removed(s, k))
    PROVE  Memory!RemoveSubscription(email, x)
<1>1. Shaped(slices, ever)
  BY DEF LiveInv, SafeInv
<1>2. PICK h \in 1..slices[DB].len : s = Contents(DB)[h]
  BY <1>1, StoredIs
<1>3. s[1] = email /\ InDB(slices, s) /\ s \in DOMAIN slices \ {DB}
  BY <1>1, StoredIs
<1>4. /\ Memory!Known(email) /\ Memory!GetSubscriber(email) = s
      /\ Sequences[s] = SubscriberIn(slices, s)
  BY <1>1, <1>2, <1>3, MemoryFinds
<1>5. /\ Shaped(slices', All) /\ DOMAIN slices' = DOMAIN slices
      /\ Removal(slices, slices', s, k)
      /\ \A o \in DOMAIN slices \ {s} : slices'[o] = slices[o]
  <2>1. PICK new : new = [slices EXCEPT ![s] = Removed(s, k)]
    OBVIOUS
  <2>2. slices' = new
    BY <2>1 DEF Replace, Change
  <2>3. Shaped(new, All) /\ Removal(slices, new, s, k)
    BY <1>3, <2>1, RemoveChanges DEF Removal
  <2> QED  BY <2>2, <2>3 DEF Removal
<1>6. ContentsIn(slices', s) = Memory!SwapRemove(ContentsIn(slices, s), k)
  BY <1>1, <1>5, ShrunkContents
<1>7. /\ Contents(DB)' = Contents(DB)
      /\ Sequences' = [Sequences EXCEPT ![s].Subscriptions = ContentsIn(slices', s)]
  BY <1>1, <1>3, <1>5, OneChanged
<1>8. Sequences[s].Subscriptions = ContentsIn(slices, s)
  BY <1>4 DEF SubscriberIn
<1>9. Memory!Subscribed(s, x) = {k} /\ Memory!First({k}) = k
  <2>1. PICK len \in Nat : len = slices[s].len
    BY <1>1, <1>3 DEF Shaped, Slice
  <2>2. PICK E : E = Elements(s, DOMAIN slices, ever)
    OBVIOUS
  <2>3. /\ ContentsIn(slices, s) \in Seq(E) /\ Len(ContentsIn(slices, s)) = len
        /\ \A n \in 1..len : ContentsIn(slices, s)[n] = Last(slices[s].arrays)[n]
    BY <1>1, <1>3, <2>1, <2>2, ContentsAre
  <2>4. DOMAIN ContentsIn(slices, s) = 1..len
    BY <2>3
  <2>5. Equals(ContentsIn(slices, s)[k], x)
    BY SubscribedNow
  <2>6. ASSUME NEW n \in 1..len, Equals(ContentsIn(slices, s)[n], x) PROVE n = k
    <3>1. Equals(Last(slices[s].arrays)[n], Last(slices[s].arrays)[k])
      BY <2>1, <2>3, <2>5, <2>6 DEF Equals
    <3> QED  BY <1>3, <2>1, <3>1 DEF Apart
  <2>7. Memory!Subscribed(s, x) = {n \in 1..len : Equals(ContentsIn(slices, s)[n], x)}
    BY <1>8, <2>4 DEF Memory!Subscribed, Memory!Equals, Equals
  <2>8. Memory!First({k}) = k
    BY <2>1 DEF Memory!First
  <2> QED  BY <2>1, <2>5, <2>6, <2>7, <2>8
<1> QED  BY <1>4, <1>6, <1>7, <1>8, <1>9 DEF Memory!RemoveSubscription

\* A subscriber less.
LEMMA DeleteMemory ==
    ASSUME LiveInv, Apart(slices), NEW email, NEW k \in 1..slices[DB].len,
           Contents(DB)[k] \in Stored(email), Replace(DB, Removed(DB, k))
    PROVE  Memory!RemoveSubscriber(email, {})
<1>1. Shaped(slices, ever) /\ DB \in DOMAIN slices
  BY DEF LiveInv, SafeInv, Shaped
<1>2. PICK s : s = Contents(DB)[k]
  OBVIOUS
<1>3. s[1] = email /\ InDB(slices, s)
  BY <1>1, <1>2, StoredIs
<1>4. /\ Memory!Known(email) /\ Memory!GetSubscriber(email) = s
      /\ Memory!First(Memory!Positions(email)) = k
  BY <1>1, <1>2, <1>3, MemoryFinds
<1>5. Shaped(slices', All) /\ Removal(slices, slices', DB, k)
  <2>1. PICK new : new = [slices EXCEPT ![DB] = Removed(DB, k)]
    OBVIOUS
  <2>2. slices' = new
    BY <2>1 DEF Replace, Change
  <2>3. Shaped(new, All) /\ Removal(slices, new, DB, k)
    BY <1>1, <2>1, RemoveChanges DEF Removal
  <2> QED  BY <2>2, <2>3
<1>6. Contents(DB)' = Memory!SwapRemove(Contents(DB), k)
  BY <1>1, <1>5, ShrunkContents, SequencesNow
<1>7. \A n \in 1..slices[DB].len : Contents(DB)[n] = Last(slices[DB].arrays)[n]
  BY <1>1, ContentsAre, SequencesNow
<1>8. s = Last(slices[DB].arrays)[k]
  BY <1>2, <1>7
<1>9. \A t : InDB(slices', t) => InDB(slices, t) /\ t # s
  <2> SUFFICES ASSUME NEW t, InDB(slices', t) PROVE InDB(slices, t) /\ t # s
    OBVIOUS
  <2>1. InSlice(slices', DB, t)
    BY DEF InDB, InSlice
  <2>2. InSlice(slices, DB, t) /\ t[1] # s[1]
    BY <1>1, <1>5, <1>8, <2>1, RemovalIs
  <2> QED  BY <2>2 DEF InDB, InSlice
<1>10. \A t : InDB(slices, t) /\ t # s => InDB(slices', t)
  <2> SUFFICES ASSUME NEW t, InDB(slices, t), t # s PROVE InDB(slices', t)
    OBVIOUS
  <2>1. PICK len \in Nat : len = slices[DB].len
    BY <1>1 DEF Shaped, Slice
  <2>2. PICK h \in 1..len : t = Last(slices[DB].arrays)[h] /\ h # k
    BY <1>8, <2>1 DEF InDB
  <2>3. slices'[DB].len = len - 1 /\ k \in 1..len
    BY <1>5, <2>1 DEF Removal, Shrinks
  <2>4. PICK n \in 1..(len - 1) : n = IF h = len THEN k ELSE h
    BY <2>2, <2>3
  <2>5. PICK m \in 1..len : /\ Last(slices'[DB].arrays)[n] = Last(slices[DB].arrays)[m]
                            /\ m = IF n = k THEN len ELSE n
    BY <1>1, <1>5, <2>1, <2>3, <2>4, ShrunkIs
  <2>6. m = h
    BY <2>2, <2>3, <2>4, <2>5
  <2> QED  BY <2>2, <2>3, <2>4, <2>5, <2>6 DEF InDB
<1>11. \A t : InDB(slices, t) => SubscriberIn(slices', t) = SubscriberIn(slices, t)
  BY <1>1, <1>5, SubscribedIs, SameContents DEF SubscriberIn, Removal
<1>12. /\ \A t : t \in DOMAIN Sequences' <=> InDB(slices', t)
       /\ \A t : InDB(slices', t) => Sequences'[t] = SubscriberIn(slices', t)
       /\ IsAFunction(Sequences')
  BY <1>5, SequencesAre, SequencesNow
<1>13. /\ \A t : t \in DOMAIN Sequences <=> InDB(slices, t)
       /\ \A t : InDB(slices, t) => Sequences[t] = SubscriberIn(slices, t)
  BY <1>1, SequencesAre, SequencesNow
<1>14. PICK g : g = [t \in DOMAIN Sequences \ ({s} \ {}) |-> Sequences[t]]
  OBVIOUS
<1>15. DOMAIN g = DOMAIN Sequences \ {s} /\ IsAFunction(g)
  BY <1>14 DEF IsAFunction
<1>16. DOMAIN Sequences' = DOMAIN g
  BY <1>9, <1>10, <1>12, <1>13, <1>15
<1>17. \A t \in DOMAIN g : g[t] = Sequences'[t]
  BY <1>10, <1>11, <1>12, <1>13, <1>14, <1>15
<1>18. Sequences' = g
  BY <1>12, <1>15, <1>16, <1>17, OneFunction
<1> QED  BY <1>4, <1>6, <1>14, <1>18 DEF Memory!RemoveSubscriber

\* Every operation on the arrays is the one of the same name on the sequences.
LEMMA OperationMemory ==
    ASSUME LiveInv, Apart(slices), NEW email \in Emails
    PROVE  /\ AddSubscriber(email) => Memory!AddSubscriber(email, 0)
           /\ RemoveSubscriber(email) => Memory!RemoveSubscriber(email, {})
           /\ \A x \in Subscriptions :
                 /\ AddSubscription(email, x) => Memory!AddSubscription(email, x)
                 /\ RemoveSubscription(email, x) => Memory!RemoveSubscription(email, x)
<1>1. ASSUME AddSubscriber(email) PROVE Memory!AddSubscriber(email, 0)
  <2>1. PICK list : list = <<>>
    OBVIOUS
  <2>2. list \in Seq(Subscriptions) /\ Len(list) \in 0..1
    BY <2>1
  <2>3. Create(email, list)
    BY <1>1, <2>1 DEF AddSubscriber
  <2> QED  BY <2>1, <2>2, <2>3, CreateMemory DEF Memory!AddSubscriber
<1>2. ASSUME RemoveSubscriber(email) PROVE Memory!RemoveSubscriber(email, {})
  BY <1>2, DeleteMemory DEF RemoveSubscriber
<1>3. ASSUME NEW x \in Subscriptions, AddSubscription(email, x)
      PROVE  Memory!AddSubscription(email, x)
  <2>1. CASE Create(email, <<x>>)
    <3>1. PICK list : list = <<x>>
      OBVIOUS
    <3>2. list \in Seq(Subscriptions) /\ Len(list) \in 0..1
      BY <3>1
    <3>3. Create(email, list)
      BY <2>1, <3>1
    <3> QED  BY <3>1, <3>2, <3>3, CreateMemory DEF Memory!AddSubscription
  <2>2. CASE /\ \A y \in Held(email) : ~ Equals(y, x)
             /\ \E s \in Stored(email) : Replace(s, Appended(s, x))
    BY <2>2, AppendMemory
  <2> QED  BY <1>3, <2>1, <2>2 DEF AddSubscription
<1>4. ASSUME NEW x \in Subscriptions, RemoveSubscription(email, x)
      PROVE  Memory!RemoveSubscription(email, x)
  BY <1>4, RemoveMemory DEF RemoveSubscription
<1> QED  BY <1>1, <1>2, <1>3, <1>4

----------------------------------------------------------------------------
(* The theorems.                                                            *)

\* Every step is one of GenerateScrapeList that ScrapeList has.
LEMMA LiveStep == LiveInv /\ [LiveNext]_liveVars => [Next]_vars /\ LiveInv'
<1> SUFFICES ASSUME LiveInv, [LiveNext]_liveVars
             PROVE  [Next]_vars /\ SafeInv'
  BY StepInv DEF LiveInv
<1>1. CASE CopySubscriber
  BY <1>1, CopySafe DEF Next
<1>2. CASE Loop
  BY <1>2, LoopSafe
<1>3. ASSUME NEW new, NEW o, Operation(new, o)
      PROVE  Overwritten /\ SafeInv'
  BY <1>3, ChangeSafe DEF Operation
<1>4. CASE UNCHANGED liveVars
  <2>1. UNCHANGED vars /\ UNCHANGED <<slices, all, copies, ever>>
    BY <1>4 DEF liveVars
  <2> QED  BY <2>1 DEF LiveInv, SafeInv, vars, loops
<1> QED  BY <1>1, <1>2, <1>3, <1>4, OperationIs DEF LiveNext, Next

\* The loops that read the storage's arrays, while the storage writes to them, are
\* those of ScrapeList: no slice of the call changes its length, and none comes to
\* cover an element that was never written.
THEOREM ScrapeListImplemented == LiveSpec => ImplementsScrapeList
<1>1. LiveInit => Init /\ LiveInv
  BY InitInv, InitSafe DEF LiveInit, LiveInv
<1> QED  BY <1>1, LiveStep, PTL DEF LiveSpec, ImplementsScrapeList, Spec

\* The invariant: what the arrays hold was stored at some time, and the loops see it.
THEOREM SlicesCorrect == LiveSpec => []LiveInv
<1>1. LiveInit => LiveInv
  BY InitInv, InitSafe DEF LiveInit, LiveInv
<1> QED  BY <1>1, LiveStep, PTL DEF LiveSpec

\* With the storage's arrays under it, too, GenerateScrapeList lists no key twice, and
\* for every subscription it looks at one with the same joined texts.
THEOREM ListedWhileChanging == LiveSpec => [](ScrapedOnce /\ AllScraped)
<1>1. Inv => ScrapedOnce /\ AllScraped
  BY InvListed DEF Inv
<1>2. LiveInv => ScrapedOnce /\ AllScraped
  BY <1>1 DEF LiveInv
<1> QED  BY <1>2, SlicesCorrect, PTL

\* What GenerateScrapeList lists, somebody was subscribed to during the call.
THEOREM OnlyStoredListed == LiveSpec => []ListedWereStored
<1>1. LiveInv => ListedWereStored
  <2> SUFFICES ASSUME LiveInv, NEW n \in DOMAIN subscriptions
               PROVE  \E p \in ever : p[2] = subscriptions[n]
    BY DEF ListedWereStored
  <2>1. n \in 1..Len(subscriptions)
    BY DEF LiveInv, Inv, ScrapeListInv
  <2> QED  BY <2>1 DEF LiveInv, SafeInv
<1> QED  BY <1>1, SlicesCorrect, PTL

\* Operations on arrays and slices are those of MemoryStorage on sequences, for any
\* number of subscribers, and arrays of any capacity.
THEOREM SequencesImplemented == LiveSpec => ImplementsMemoryStorage
<1> DEFINE Step == \E email \in Emails :
                      \/ Memory!AddSubscriber(email, 0)
                      \/ Memory!RemoveSubscriber(email, {})
                      \/ \E s \in Subscriptions :
                            Memory!AddSubscription(email, s) \/ Memory!RemoveSubscription(email, s)
<1>1. LiveInit => LiveInv /\ KeptInv
  BY InitInv, InitSafe, InitKept DEF LiveInit, LiveInv
<1>2. LiveInv /\ KeptInv /\ [LiveNext]_liveVars => [Step]_<<Sequences, Contents(DB)>>
  <2> SUFFICES ASSUME LiveInv, KeptInv, [LiveNext]_liveVars
               PROVE  [Step]_<<Sequences, Contents(DB)>>
    OBVIOUS
  <2>1. CASE CopySubscriber \/ Loop \/ UNCHANGED liveVars
    <3>1. slices' = slices
      BY <2>1 DEF CopySubscriber, Loop, liveVars
    <3> QED  BY <3>1, SequencesNow
  <2>2. ASSUME NEW email \in Emails,
               \/ AddSubscriber(email)
               \/ RemoveSubscriber(email)
               \/ \E s \in Subscriptions : \/ AddSubscription(email, s)
                                           \/ RemoveSubscription(email, s)
        PROVE  Step
    BY <2>2, OperationMemory DEF KeptInv
  <2> QED  BY <2>1, <2>2 DEF LiveNext
<1> QED  BY <1>1, <1>2, LiveStep, KeptStep, PTL DEF LiveSpec, ImplementsMemoryStorage

\* Who is subscribed throughout the call of GenerateScrapeList has the site scraped,
\* although removals move the elements the loops go over, as long as none is reused.
THEOREM NobodyMissed == LiveSpec => []KeptAreScraped
<1>1. LiveInit => KeptInv
  BY InitKept
<1>2. LiveInv /\ KeptInv => KeptAreScraped
  <2> SUFFICES ASSUME LiveInv, KeptInv, Returned, ~ recycled, NEW p \in always
               PROVE  DedupKey(p[2]) \in siteSet
    BY DEF KeptAreScraped
  <2>1. PICK k \in 1..all.len, m \in Nat :
           Passed(k, m) => DedupKey(p[2]) \in siteSet
    BY DEF KeptInv
  <2>2. got /\ i > Len(subscribers) /\ Len(subscribers) = all.len /\ all.len \in Nat /\ i \in Nat
    BY DEF Returned, LiveInv, Inv, ScrapeListInv, SafeInv, Views, Copies
  <2> QED  BY <2>1, <2>2 DEF Passed
<1> QED  BY <1>1, <1>2, KeptStep, SlicesCorrect, PTL DEF LiveSpec
=============================================================================
