-------------------------- MODULE NgxContainers_proof -------------------------
(***************************************************************************)
(* The containers, for memory of any size and any number of calls.         *)
(***************************************************************************)
EXTENDS MCNgxContainers, SequenceTheorems, FiniteSetTheorems, WellFoundedInduction, TLAPS

-------------------------------------------------------------------------------
\* Arrays.

Held == Values \cup {None}

Visits == [array: Arrays, elts: Nat, into: Arrays \cup {None}, each: BOOLEAN, seen: Seq(Held)]

ArrayTypes ==
    /\ array \in [Arrays -> [elts: 1 .. MaxBlocks \cup {None}, nelts: Nat]]
    /\ room \in [1 .. MaxBlocks -> 0 .. MaxRoom]
    /\ memory \in [1 .. MaxBlocks -> [1 .. MaxRoom -> Held]]
    /\ made \in 0 .. MaxBlocks
    /\ visiting \in Visits \cup {None}
    /\ given \in [Arrays -> Seq(Held)]

\* Each array has a block of its own, with room for its elements.
Housed ==
    /\ \A b \in 1 .. made : room[b] > 0
    /\ \A a \in Arrays :
        IF array[a].elts = None THEN array[a].nelts = 0
        ELSE array[a].elts <= made /\ array[a].nelts <= room[array[a].elts]
    /\ \A a, b \in Arrays : a # b /\ array[a].elts # None => array[a].elts # array[b].elts

Filled ==
    \A a \in Arrays :
        /\ Len(given[a]) = array[a].nelts
        /\ \A i \in 1 .. array[a].nelts : memory[array[a].elts][i] = given[a][i]

\* The block where the visit reads is that of the array, or what the array left
\* behind, which was full.
Reads(v) ==
    \/ v.elts = array[v.array].elts
    \/ /\ \A b \in Arrays : array[b].elts # v.elts
       /\ room[v.elts] <= array[v.array].nelts
       /\ \A i \in 1 .. room[v.elts] : memory[v.elts][i] = given[v.array][i]

Visited ==
    visiting # None =>
        LET v == visiting
        IN  /\ v.elts \in 1 .. made
            /\ array[v.array].elts # None
            /\ v.into # None => array[v.into].elts # None
            /\ Len(v.seen) <= array[v.array].nelts
            /\ v.each /\ v.into = v.array /\ v.seen # <<>> => Len(v.seen) < array[v.array].nelts
            /\ \A i \in 1 .. Len(v.seen) : i <= room[v.elts] => v.seen[i] = given[v.array][i]
            /\ Reads(v)

Arrayed == ArrayTypes /\ Housed /\ Filled /\ Visited

\* One more element, in the array's block or in a larger one.
Grown(a, x) ==
    LET e == array[a].elts
        f == array'[a].elts
        n == array[a].nelts
    IN  /\ n + 1 <= room'[f]
        /\ memory'[f][n + 1] = x
        /\ \A i \in 1 .. n : memory'[f][i] = memory[e][i]
        /\ \A b \in 1 .. MaxBlocks \ {f} : room'[b] = room[b] /\ memory'[b] = memory[b]
        /\ \/ f = e /\ made' = made /\ room[e] <= room'[e]
           \/ f = made' /\ made' = made + 1 /\ n = room[e]

LEMMA PrepareIs ==
    ASSUME ArrayTypes, Housed, NEW a \in Arrays, NEW x \in Held,
           array[a].elts # None, A!prepare(a, x)
    PROVE  /\ array' \in [Arrays -> [elts: 1 .. MaxBlocks \cup {None}, nelts: Nat]]
           /\ room' \in [1 .. MaxBlocks -> 0 .. MaxRoom]
           /\ memory' \in [1 .. MaxBlocks -> [1 .. MaxRoom -> Held]]
           /\ made' \in 0 .. MaxBlocks
           /\ array'[a].nelts = array[a].nelts + 1
           /\ array'[a].elts \in 1 .. MaxBlocks
           /\ \A b \in Arrays \ {a} : array'[b] = array[b]
           /\ Grown(a, x)
<1> DEFINE e == array[a].elts
           n == array[a].nelts
<1>1. e \in 1 .. MaxBlocks /\ e <= made /\ n \in Nat /\ n <= room[e] /\ room[e] \in 1 .. MaxRoom
  BY ContainersAssumption DEF ArrayTypes, Housed
<1>2. array \in [Arrays -> [elts: 1 .. MaxBlocks \cup {None}, nelts: Nat]]
      /\ room \in [1 .. MaxBlocks -> 0 .. MaxRoom]
      /\ memory \in [1 .. MaxBlocks -> [1 .. MaxRoom -> Held]]
      /\ made \in 0 .. MaxBlocks /\ MaxBlocks \in Nat /\ MaxRoom \in Nat
  BY ContainersAssumption DEF ArrayTypes
<1>3. CASE A!fits(a, x)
  <2>1. /\ n < room[e] /\ room' = room /\ made' = made
        /\ memory' = [memory EXCEPT ![e][n + 1] = x]
        /\ array' = [array EXCEPT ![a].nelts = n + 1]
    BY <1>3 DEF A!fits, A!size
  <2> QED
    BY <1>1, <1>2, <2>1 DEF Grown
<1>4. CASE A!extends(a, x)
  <2>1. /\ n = room[e] /\ room[e] < MaxRoom /\ room' = [room EXCEPT ![e] = room[e] + 1]
        /\ made' = made
        /\ memory' = [memory EXCEPT ![e][n + 1] = x]
        /\ array' = [array EXCEPT ![a].nelts = n + 1]
    BY <1>4 DEF A!extends, A!size
  <2> QED
    BY <1>1, <1>2, <2>1 DEF Grown
<1>5. CASE A!moves(a, x)
  <2>1. /\ n = room[e] /\ made < MaxBlocks /\ made' = made + 1 /\ 2 * room[e] <= MaxRoom
        /\ room' = [room EXCEPT ![made + 1] = 2 * room[e]]
        /\ memory' = [memory EXCEPT ![made + 1] = [memory[e] EXCEPT ![n + 1] = x]]
        /\ array' = [array EXCEPT ![a] = [elts |-> made + 1, nelts |-> n + 1]]
    BY <1>5 DEF A!moves, A!size
  <2>2. /\ made + 1 \in 1 .. MaxBlocks /\ 2 * room[e] \in 0 .. MaxRoom
        /\ n + 1 \in 1 .. MaxRoom /\ n + 1 <= 2 * room[e] /\ n + 1 \in Nat
        /\ e # made + 1
    <3>1. /\ e \in Int /\ n \in Int /\ room[e] \in Int /\ made \in Int
          /\ MaxBlocks \in Int /\ MaxRoom \in Int
          /\ 1 <= room[e] /\ 0 <= n /\ 0 <= made /\ e <= made
      BY <1>1, <1>2
    <3>2. n = room[e] /\ made < MaxBlocks /\ 2 * room[e] <= MaxRoom
      BY <2>1
    <3> HIDE DEF e, n
    <3> QED
      BY <3>1, <3>2
  <2>3. /\ array'[a].nelts = n + 1 /\ array'[a].elts = made + 1
        /\ \A b \in Arrays \ {a} : array'[b] = array[b]
        /\ array' \in [Arrays -> [elts: 1 .. MaxBlocks \cup {None}, nelts: Nat]]
    BY <1>2, <2>1, <2>2
  <2>4. /\ room' \in [1 .. MaxBlocks -> 0 .. MaxRoom]
        /\ room'[made + 1] = 2 * room[e]
        /\ \A b \in 1 .. MaxBlocks \ {made + 1} : room'[b] = room[b]
    BY <1>2, <2>1, <2>2
  <2>5. /\ memory' \in [1 .. MaxBlocks -> [1 .. MaxRoom -> Held]]
        /\ memory'[made + 1][n + 1] = x
        /\ \A i \in 1 .. n : memory'[made + 1][i] = memory[e][i]
        /\ \A b \in 1 .. MaxBlocks \ {made + 1} : memory'[b] = memory[b]
    <3>1. PICK g \in [1 .. MaxRoom -> Held] : g = memory[e]
      BY <1>1, <1>2
    <3>2. PICK h : h = [g EXCEPT ![n + 1] = x]
      OBVIOUS
    <3>3. /\ h \in [1 .. MaxRoom -> Held] /\ h[n + 1] = x
          /\ \A i \in 1 .. MaxRoom : i # n + 1 => h[i] = g[i]
      BY <2>2, <3>2
    <3>4. \A i \in 1 .. n : i \in 1 .. MaxRoom /\ i # n + 1
      <4>1. n \in Int /\ MaxRoom \in Int /\ n + 1 <= MaxRoom
        BY <1>1, <1>2, <2>2
      <4> HIDE DEF n
      <4> QED
        BY <4>1
    <3>5. memory' = [memory EXCEPT ![made + 1] = h]
      BY <2>1, <3>1, <3>2
    <3> HIDE DEF e, n
    <3> QED
      BY <1>2, <2>2, <3>1, <3>3, <3>4, <3>5
  <2>6. made' = made + 1 /\ n = room[e] /\ made + 1 \in 1 .. MaxBlocks
    BY <2>1, <2>2
  <2>7. Grown(a, x)
    <3>1. n + 1 <= room'[made + 1]
      BY <2>2, <2>4
    <3> HIDE DEF e, n
    <3>2. PICK m : m = made + 1
      OBVIOUS
    <3>3. /\ n + 1 <= room'[m] /\ memory'[m][n + 1] = x
          /\ \A i \in 1 .. n : memory'[m][i] = memory[e][i]
          /\ \A b \in 1 .. MaxBlocks \ {m} : room'[b] = room[b] /\ memory'[b] = memory[b]
          /\ m = made' /\ made' = made + 1 /\ n = room[e]
      BY <2>4, <2>5, <2>6, <3>1, <3>2
    <3>4. array'[a].elts = m
      BY <2>3, <3>2
    <3> QED
      BY <3>3, <3>4 DEF Grown, e, n
  <2> QED
    BY <1>2, <2>1, <2>2, <2>3, <2>4, <2>5, <2>7
<1> QED
  BY <1>3, <1>4, <1>5 DEF A!prepare

\* The other arrays keep what they hold, and the one that grows what it held.
LEMMA GrownKeeps ==
    ASSUME ArrayTypes, Housed, Filled, NEW a \in Arrays, NEW x \in Held,
           array[a].elts # None, A!prepare(a, x)
    PROVE  /\ Housed' /\ Filled'
           /\ given' \in [Arrays -> Seq(Held)]
           /\ given'[a] = Append(given[a], x)
           /\ \A b \in Arrays \ {a} : given'[b] = given[b]
<1> DEFINE e == array[a].elts
           f == array'[a].elts
           n == array[a].nelts
<1>1. /\ made' \in 0 .. MaxBlocks
      /\ room' \in [1 .. MaxBlocks -> 0 .. MaxRoom]
      /\ array'[a].nelts = n + 1
      /\ f \in 1 .. MaxBlocks
      /\ \A b \in Arrays \ {a} : array'[b] = array[b]
  BY PrepareIs
<1>2. Grown(a, x)
  BY PrepareIs
<1>3. /\ given' \in [Arrays -> Seq(Held)]
      /\ given'[a] = Append(given[a], x)
      /\ \A b \in Arrays \ {a} : given'[b] = given[b]
  BY DEF A!prepare, ArrayTypes
<1>4. /\ e \in 1 .. MaxBlocks /\ e <= made /\ n \in Nat /\ n <= room[e]
      /\ made \in Nat /\ MaxBlocks \in Nat /\ None \notin Nat
      /\ given[a] \in Seq(Held) /\ Len(given[a]) = n
      /\ \A b \in Arrays : array[b].elts \in 1 .. MaxBlocks \cup {None} /\ array[b].nelts \in Nat
      /\ \A b \in 1 .. MaxBlocks : room[b] \in Nat /\ room'[b] \in Nat
  <2>1. MaxBlocks \in Nat /\ MaxRoom \in Nat /\ None \notin Nat
    BY ContainersAssumption
  <2>2. /\ made \in Nat
        /\ given[a] \in Seq(Held)
        /\ \A b \in Arrays : array[b].elts \in 1 .. MaxBlocks \cup {None} /\ array[b].nelts \in Nat
    BY <2>1 DEF ArrayTypes
  <2>3. \A b \in 1 .. MaxBlocks : room[b] \in Nat /\ room'[b] \in Nat
    BY <1>1, <2>1 DEF ArrayTypes
  <2>4. e <= made /\ n <= room[e] /\ Len(given[a]) = n
    BY DEF Housed, Filled
  <2> QED
    BY <2>1, <2>2, <2>3, <2>4
<1>5. /\ n + 1 <= room'[f]
      /\ memory'[f][n + 1] = x
      /\ \A i \in 1 .. n : memory'[f][i] = memory[e][i]
      /\ \A b \in 1 .. MaxBlocks \ {f} : room'[b] = room[b] /\ memory'[b] = memory[b]
      /\ \/ f = e /\ made' = made /\ room[e] <= room'[e]
         \/ f = made' /\ made' = made + 1
  BY <1>2 DEF Grown
<1> HIDE DEF e, f, n
<1>6. \A b \in Arrays \ {a} : array[b].elts # None => array[b].elts # f /\ array[b].elts <= made
  BY <1>4, <1>5 DEF Housed, e
<1>7. Housed'
  <2>1. \A b \in 1 .. made' : room'[b] > 0
    <3> TAKE b \in 1 .. made'
    <3>1. b \in 1 .. MaxBlocks /\ (b # f => b <= made)
      BY <1>1, <1>4, <1>5
    <3>2. CASE b = f
      BY <1>4, <1>5, <3>1, <3>2
    <3>3. CASE b # f
      BY <1>4, <1>5, <3>1, <3>3 DEF Housed
    <3> QED
      BY <3>2, <3>3
  <2>2. \A b \in Arrays :
            IF array'[b].elts = None THEN array'[b].nelts = 0
            ELSE array'[b].elts <= made' /\ array'[b].nelts <= room'[array'[b].elts]
    <3> TAKE b \in Arrays
    <3>1. CASE b = a
      BY <1>1, <1>4, <1>5, <3>1 DEF f
    <3>2. CASE b # a
      <4>1. array'[b] = array[b]
        BY <1>1, <3>2
      <4>2. CASE array[b].elts = None
        BY <4>1, <4>2 DEF Housed
      <4>3. CASE array[b].elts # None
        <5>1. array[b].elts <= made /\ array[b].nelts <= room[array[b].elts]
          BY <4>3 DEF Housed
        <5>2. room'[array[b].elts] = room[array[b].elts]
          BY <1>4, <1>5, <1>6, <3>2, <4>3
        <5> QED
          BY <1>4, <1>5, <4>1, <4>3, <5>1, <5>2
      <4> QED
        BY <4>2, <4>3
    <3> QED
      BY <3>1, <3>2
  <2>3. \A b, c \in Arrays : b # c /\ array'[b].elts # None => array'[b].elts # array'[c].elts
    BY <1>1, <1>4, <1>6 DEF Housed, f
  <2> QED
    BY <2>1, <2>2, <2>3 DEF Housed
<1>8. Filled'
  <2> SUFFICES ASSUME NEW b \in Arrays
               PROVE  /\ Len(given'[b]) = array'[b].nelts
                      /\ \A i \in 1 .. array'[b].nelts : memory'[array'[b].elts][i] = given'[b][i]
    BY DEF Filled
  <2>1. CASE b = a
    <3>1. Len(given'[a]) = n + 1 /\ given'[a][n + 1] = x
          /\ \A i \in 1 .. n : given'[a][i] = given[a][i]
      BY <1>3, <1>4
    <3>2. \A i \in 1 .. n : memory[e][i] = given[a][i]
      BY DEF Filled, e, n
    <3>3. \A i \in 1 .. n + 1 : memory'[f][i] = given'[a][i]
      <4> TAKE i \in 1 .. n + 1
      <4>1. i = n + 1 \/ i \in 1 .. n
        BY <1>4
      <4> QED
        BY <1>5, <3>1, <3>2, <4>1
    <3> QED
      BY <1>1, <2>1, <3>1, <3>3 DEF f
  <2>2. CASE b # a
    <3>1. array'[b] = array[b] /\ given'[b] = given[b]
      BY <1>1, <1>3, <2>2
    <3>2. CASE array[b].elts = None
      BY <3>1, <3>2, <1>4 DEF Filled, Housed
    <3>3. CASE array[b].elts # None
      BY <3>1, <3>3, <1>4, <1>5, <1>6, <2>2, SMTT(30) DEF Filled
    <3> QED
      BY <3>2, <3>3
  <2> QED
    BY <2>1, <2>2
<1> QED
  BY <1>3, <1>7, <1>8

\* A visit reads on where it did, whatever grows meanwhile.
LEMMA GrownReads ==
    ASSUME ArrayTypes, Housed, Filled, NEW a \in Arrays, NEW x \in Held,
           array[a].elts # None, A!prepare(a, x),
           NEW v \in Visits, v.elts \in 1 .. made, array[v.array].elts # None, Reads(v)
    PROVE  /\ Reads(v)'
           /\ v.elts \in 1 .. made'
           /\ array'[v.array].elts # None
           /\ array[v.array].nelts <= array'[v.array].nelts
           /\ \A i \in 1 .. array[v.array].nelts : given'[v.array][i] = given[v.array][i]
           /\ \A i \in 1 .. array[v.array].nelts : i <= room'[v.elts] => i <= room[v.elts]
<1> DEFINE e == array[a].elts
           f == array'[a].elts
           n == array[a].nelts
           c == v.array
<1>1. /\ made' \in 0 .. MaxBlocks
      /\ array'[a].nelts = n + 1
      /\ f \in 1 .. MaxBlocks
      /\ \A b \in Arrays \ {a} : array'[b] = array[b]
      /\ room' \in [1 .. MaxBlocks -> 0 .. MaxRoom]
  BY PrepareIs
<1>2. Grown(a, x)
  BY PrepareIs
<1>3. /\ given'[a] = Append(given[a], x)
      /\ \A b \in Arrays \ {a} : given'[b] = given[b]
  BY GrownKeeps
<1>4. /\ MaxBlocks \in Nat /\ MaxRoom \in Nat /\ None \notin Nat
      /\ c \in Arrays /\ v.elts \in Nat
  BY ContainersAssumption DEF Visits
<1>5. /\ made \in Nat /\ made <= MaxBlocks
      /\ \A b \in Arrays : /\ array[b].elts \in 1 .. MaxBlocks \cup {None}
                           /\ array[b].nelts \in Nat
                           /\ given[b] \in Seq(Held)
                           /\ Len(given[b]) = array[b].nelts
      /\ \A b \in 1 .. MaxBlocks : room[b] \in Nat
  BY <1>4 DEF ArrayTypes, Filled
<1>6. /\ n <= room[e] /\ e \in 1 .. MaxBlocks /\ array[c].nelts <= room[array[c].elts]
      /\ \A b \in Arrays : b # a /\ array[b].elts # None => array[b].elts # e
      /\ \A b \in Arrays : array[b].elts # None => array[b].elts <= made
  BY <1>4, <1>5 DEF Housed
<1>7. /\ \A b \in 1 .. MaxBlocks \ {f} : room'[b] = room[b] /\ memory'[b] = memory[b]
      /\ \A i \in 1 .. n : memory'[f][i] = memory[e][i]
      /\ \/ f = e /\ made' = made /\ room[e] <= room'[e]
         \/ f = made' /\ made' = made + 1 /\ n = room[e]
  BY <1>2 DEF Grown
<1>8. array'[c].elts # None /\ array[c].nelts <= array'[c].nelts /\ array'[c].nelts \in Nat
  <2>1. CASE c = a
    <3>1. n \in Nat
      BY <1>4, <1>5, <2>1
    <3>2. n <= n + 1 /\ n + 1 \in Nat
      BY <3>1
    <3>3. f # None
      BY <1>1, <1>4
    <3> HIDE DEF f, n
    <3>4. array'[c].elts = f /\ array[c].nelts = n /\ array'[c].nelts = n + 1
      BY <1>1, <2>1 DEF f, n
    <3> QED
      BY <3>2, <3>3, <3>4
  <2>2. CASE c # a
    <3>1. array'[c] = array[c]
      BY <1>1, <1>4, <2>2
    <3> QED
      BY <1>4, <1>5, <3>1
  <2> QED
    BY <2>1, <2>2
<1>9. \A i \in 1 .. array[c].nelts : given'[c][i] = given[c][i]
  <2>1. CASE c = a
    BY <1>3, <1>4, <1>5, <2>1
  <2>2. CASE c # a
    BY <1>3, <1>4, <2>2
  <2> QED
    BY <2>1, <2>2
<1>10. v.elts \in 1 .. made' /\ v.elts \in 1 .. MaxBlocks
  BY <1>4, <1>5, <1>7
<1>11. CASE v.elts = array[c].elts
  <2>1. CASE c # a
    <3>1. array'[c].elts = v.elts
      BY <1>1, <1>4, <1>11, <2>1
    <3>2. v.elts # f
      BY <1>4, <1>5, <1>6, <1>7, <1>11, <2>1
    <3>3. room'[v.elts] = room[v.elts]
      BY <1>7, <1>10, <3>2
    <3> QED
      BY <1>8, <1>9, <1>10, <3>1, <3>3 DEF Reads
  <2>2. CASE c = a /\ f = e
    <3>1. array'[c].elts = v.elts
      BY <1>11, <2>2
    <3>2. \A i \in 1 .. n : i <= room[v.elts]
      BY <1>5, <1>6, <1>11, <2>2
    <3> QED
      BY <1>8, <1>9, <1>10, <2>2, <3>1, <3>2 DEF Reads
  <2>3. CASE c = a /\ f # e
    <3>1. /\ v.elts = e /\ room'[e] = room[e] /\ memory'[e] = memory[e]
          /\ n = room[e] /\ f = made + 1
      BY <1>6, <1>7, <1>11, <2>3
    <3>2. \A b \in Arrays : array'[b].elts # e
      <4> TAKE b \in Arrays
      <4>1. CASE b = a
        BY <2>3, <4>1
      <4>2. CASE b # a
        BY <1>1, <1>4, <1>5, <1>6, <4>2
      <4> QED
        BY <4>1, <4>2
    <3>3. room'[v.elts] <= array'[c].nelts
      BY <1>1, <1>5, <1>6, <2>3, <3>1
    <3>4. \A i \in 1 .. room'[v.elts] : memory'[v.elts][i] = given'[c][i]
      <4> TAKE i \in 1 .. room'[v.elts]
      <4>1. i \in 1 .. n /\ given[a][i] = memory[e][i]
        BY <3>1 DEF Filled
      <4> QED
        BY <1>9, <2>3, <3>1, <4>1
    <3>5. Reads(v)'
      BY <3>1, <3>2, <3>3, <3>4 DEF Reads
    <3> QED
      BY <1>8, <1>9, <1>10, <3>1, <3>5
  <2> QED
    BY <2>1, <2>2, <2>3
<1>12. CASE v.elts # array[c].elts
  <2>1. /\ \A b \in Arrays : array[b].elts # v.elts
        /\ room[v.elts] <= array[c].nelts
        /\ \A i \in 1 .. room[v.elts] : memory[v.elts][i] = given[c][i]
    BY <1>12 DEF Reads
  <2>2. v.elts # f
    BY <1>4, <1>5, <1>7, <2>1
  <2>3. room'[v.elts] = room[v.elts] /\ memory'[v.elts] = memory[v.elts]
    BY <1>7, <1>10, <2>2
  <2>4. \A b \in Arrays : array'[b].elts # v.elts
    <3> TAKE b \in Arrays
    <3>1. CASE b = a
      BY <2>2, <3>1
    <3>2. CASE b # a
      <4>1. array'[b] = array[b]
        BY <1>1, <3>2
      <4> QED
        BY <2>1, <4>1
    <3> QED
      BY <3>1, <3>2
  <2>5. room'[v.elts] <= array'[c].nelts
    BY <1>4, <1>5, <1>8, <1>10, <2>1, <2>3
  <2>6. \A i \in 1 .. room'[v.elts] : memory'[v.elts][i] = given'[c][i]
    <3> TAKE i \in 1 .. room'[v.elts]
    <3>1. i \in 1 .. array[c].nelts
      BY <1>4, <1>5, <1>10, <2>1, <2>3
    <3> QED
      BY <1>9, <2>1, <2>3, <3>1
  <2>7. Reads(v)'
    BY <2>4, <2>5, <2>6 DEF Reads
  <2> QED
    BY <1>8, <1>9, <1>10, <2>3, <2>7
<1> QED
  BY <1>11, <1>12

\* What a step of a visit sees: the element, if the block it reads has it.
LEMMA ArrayStep ==
    ASSUME Arrayed, A!step
    PROVE  Arrayed'
<1>1. PICK v \in Visits : v = visiting /\ v # None
  BY DEF A!step, A!Idle, Arrayed, ArrayTypes
<1> DEFINE c == v.array
           i == Len(v.seen) + 1
<1>2. /\ v.elts \in 1 .. made
      /\ array[c].elts # None
      /\ v.into # None => array[v.into].elts # None
      /\ Len(v.seen) <= array[c].nelts
      /\ \A j \in 1 .. Len(v.seen) : j <= room[v.elts] => v.seen[j] = given[c][j]
      /\ Reads(v)
  BY <1>1 DEF Arrayed, Visited
<1>4. /\ MaxBlocks \in Nat /\ MaxRoom \in Nat /\ None \notin Arrays /\ None \notin Nat
      /\ c \in Arrays /\ v.elts \in Nat /\ v.seen \in Seq(Held) /\ i \in Nat
      /\ v.into \in Arrays \cup {None}
  BY <1>1, ContainersAssumption DEF Visits
<1>5. /\ made \in Nat /\ made <= MaxBlocks
      /\ \A b \in Arrays : /\ array[b].elts \in 1 .. MaxBlocks \cup {None}
                           /\ array[b].nelts \in Nat
                           /\ Len(given[b]) = array[b].nelts
      /\ \A b \in 1 .. MaxBlocks : room[b] \in 0 .. MaxRoom /\ room[b] \in Nat
      /\ memory \in [1 .. MaxBlocks -> [1 .. MaxRoom -> Held]]
  BY <1>4 DEF Arrayed, ArrayTypes, Filled
<1>3. PICK x \in Held :
        /\ x = IF i <= room[v.elts] THEN memory[v.elts][i] ELSE None
        /\ visiting' = [v EXCEPT !.seen = Append(v.seen, x)]
        /\ Len(v.seen) < array[c].nelts
        /\ \/ v.into # None /\ A!prepare(v.into, x)
           \/ ~v.each /\ UNCHANGED <<array, room, memory, made, given>>
  <2> DEFINE y == IF i <= room[v.elts] THEN memory[v.elts][i] ELSE None
  <2>1. y \in Held
    <3>1. CASE i <= room[v.elts]
      <4>1. v.elts \in 1 .. MaxBlocks
        BY <1>2, <1>4, <1>5
      <4>2. room[v.elts] <= MaxRoom /\ room[v.elts] \in Nat
        BY <1>4, <1>5, <4>1
      <4>3. i \in 1 .. MaxRoom
        <5>1. Len(v.seen) \in Nat
          BY <1>4
        <5> QED
          BY <1>4, <3>1, <4>2, <5>1
      <4>4. memory[v.elts] \in [1 .. MaxRoom -> Held]
        BY <1>5, <4>1
      <4> HIDE DEF i
      <4>5. memory[v.elts][i] \in Held
        BY <4>3, <4>4
      <4> QED
        BY <3>1, <4>5
    <3>2. CASE ~(i <= room[v.elts])
      <4> HIDE DEF i
      <4> QED
        BY <3>2 DEF Held
    <3> QED
      BY <3>1, <3>2
  <2>2. /\ visiting' = [v EXCEPT !.seen = Append(v.seen, y)]
        /\ Len(v.seen) < array[c].nelts
        /\ \/ v.into # None /\ A!prepare(v.into, y)
           \/ ~v.each /\ UNCHANGED <<array, room, memory, made, given>>
    BY <1>1 DEF A!step, A!more, A!size
  <2> QED
    BY <2>1, <2>2
<1>7. i <= room[v.elts] => x = given[c][i]
  <2> SUFFICES ASSUME i <= room[v.elts]
               PROVE  memory[v.elts][i] = given[c][i]
    BY <1>3
  <2>1. CASE v.elts = array[c].elts
    <3>1. i \in 1 .. array[c].nelts
      BY <1>3, <1>4, <1>5
    <3> QED
      BY <1>4, <2>1, <3>1 DEF Arrayed, Filled
  <2>2. CASE v.elts # array[c].elts
    <3>1. i \in 1 .. room[v.elts]
      BY <1>2, <1>4, <1>5
    <3> QED
      BY <1>2, <2>2, <3>1 DEF Reads
  <2> QED
    BY <2>1, <2>2
<1>8. PICK w \in Visits :
        /\ w = visiting' /\ w # None
        /\ w.array = c /\ w.elts = v.elts /\ w.into = v.into /\ w.each = v.each
        /\ w.seen = Append(v.seen, x)
  <2> DEFINE u == [array |-> c, elts |-> v.elts, into |-> v.into, each |-> v.each,
                   seen |-> Append(v.seen, x)]
  <2>1. visiting' = u
    BY <1>1, <1>3 DEF Visits
  <2>2. Append(v.seen, x) \in Seq(Held)
    BY <1>3, <1>4
  <2>3. u \in Visits
    BY <1>4, <2>2 DEF Visits
  <2>4. None \notin Visits
    BY ContainersAssumption DEF Visits, Held
  <2>5. /\ u.array = c /\ u.elts = v.elts /\ u.into = v.into /\ u.each = v.each
        /\ u.seen = Append(v.seen, x)
    OBVIOUS
  <2> HIDE DEF u
  <2> QED
    BY <2>1, <2>3, <2>4, <2>5
<1>9. /\ Len(w.seen) = i
      /\ \A j \in 1 .. i : j <= room[v.elts] => w.seen[j] = given[c][j]
  <2>1. Len(w.seen) = i /\ w.seen[i] = x /\ \A j \in 1 .. Len(v.seen) : w.seen[j] = v.seen[j]
    BY <1>3, <1>4, <1>8
  <2>2. \A j \in 1 .. i : j = i \/ j \in 1 .. Len(v.seen)
    BY <1>4
  <2> QED
    BY <1>2, <1>7, <2>1, <2>2
<1> HIDE DEF i
<1>10. CASE ~v.each /\ UNCHANGED <<array, room, memory, made, given>>
  <2>1. UNCHANGED <<array, room, memory, made, given>>
    BY <1>10
  <2>2. Reads(w)'
    BY <1>2, <1>8, <2>1 DEF Reads
  <2>3. Visited'
    <3>1. /\ w.elts \in 1 .. made' /\ array'[w.array].elts # None
          /\ w.into # None => array'[w.into].elts # None
          /\ ~w.each
          /\ Len(w.seen) <= array'[w.array].nelts
          /\ \A j \in 1 .. Len(w.seen) : j <= room'[w.elts] => w.seen[j] = given'[w.array][j]
      <4>1. array' = array /\ room' = room /\ made' = made /\ given' = given
        BY <2>1
      <4>2. Len(w.seen) <= array[c].nelts
        BY <1>3, <1>4, <1>5, <1>9 DEF i
      <4>3. /\ w.elts \in 1 .. made /\ array[w.array].elts # None
            /\ w.into # None => array[w.into].elts # None
            /\ ~w.each
        BY <1>2, <1>8, <1>10
      <4> QED
        BY <1>8, <1>9, <4>1, <4>2, <4>3
    <3> QED
      BY <1>4, <1>8, <2>2, <3>1 DEF Visited
  <2>4. (ArrayTypes /\ Housed /\ Filled)'
    BY <1>8, <2>1 DEF Arrayed, ArrayTypes, Housed, Filled
  <2> QED
    BY <2>3, <2>4 DEF Arrayed
<1>11. CASE v.into # None /\ A!prepare(v.into, x)
  <2>1. /\ A!prepare(v.into, x) /\ v.into \in Arrays /\ array[v.into].elts # None
        /\ ArrayTypes /\ Housed /\ Filled
    BY <1>2, <1>3, <1>4, <1>11 DEF Arrayed
  <2>2. /\ Reads(v)'
        /\ v.elts \in 1 .. made'
        /\ array'[c].elts # None
        /\ array[c].nelts <= array'[c].nelts
        /\ \A j \in 1 .. array[c].nelts : given'[c][j] = given[c][j]
        /\ \A j \in 1 .. array[c].nelts : j <= room'[v.elts] => j <= room[v.elts]
    BY <1>1, <1>2, <1>3, <2>1, GrownReads
  <2>3. Housed' /\ Filled' /\ given' \in [Arrays -> Seq(Held)]
    BY <1>3, <2>1, GrownKeeps
  <2>4. /\ array' \in [Arrays -> [elts: 1 .. MaxBlocks \cup {None}, nelts: Nat]]
        /\ room' \in [1 .. MaxBlocks -> 0 .. MaxRoom]
        /\ memory' \in [1 .. MaxBlocks -> [1 .. MaxRoom -> Held]]
        /\ made' \in 0 .. MaxBlocks
        /\ array'[v.into].nelts = array[v.into].nelts + 1
        /\ array'[v.into].elts \in 1 .. MaxBlocks
    BY <1>3, <2>1, PrepareIs
  <2>5. ArrayTypes'
    BY <1>8, <2>3, <2>4 DEF ArrayTypes
  <2>6. Visited'
    <3>1. w.elts \in 1 .. made' /\ array'[w.array].elts # None /\ array'[w.into].elts # None
      BY <1>4, <1>8, <1>11, <2>2, <2>4
    <3>2. array'[c].nelts \in Nat /\ i <= array[c].nelts
      <4>1. array'[c].nelts \in Nat /\ array[c].nelts \in Nat
        BY <1>4, <1>5, <2>4
      <4>2. Len(v.seen) \in Nat /\ Len(v.seen) < array[c].nelts
        BY <1>3, <1>4
      <4> QED
        BY <4>1, <4>2 DEF i
    <3>3. Len(w.seen) <= array'[w.array].nelts
      BY <1>4, <1>5, <1>8, <1>9, <2>2, <3>2
    <3>4. w.into = w.array => Len(w.seen) < array'[w.array].nelts
      BY <1>4, <1>5, <1>8, <1>9, <2>4, <3>2
    <3>5. \A j \in 1 .. Len(w.seen) : j <= room'[w.elts] => w.seen[j] = given'[w.array][j]
      <4> TAKE j \in 1 .. Len(w.seen)
      <4>1. j \in 1 .. array[c].nelts /\ j \in 1 .. i
        BY <1>4, <1>5, <1>9, <3>2
      <4> QED
        BY <1>8, <1>9, <2>2, <4>1
    <3>6. Reads(w)'
      BY <1>8, <2>2 DEF Reads
    <3> QED
      BY <1>8, <3>1, <3>3, <3>4, <3>5, <3>6 DEF Visited
  <2> QED
    BY <2>3, <2>5, <2>6 DEF Arrayed
<1> QED
  BY <1>3, <1>10, <1>11

LEMMA ArrayInit == A!Init => Arrayed
<1> SUFFICES ASSUME A!Init
             PROVE  Arrayed
  OBVIOUS
<1>1. MaxBlocks \in Nat /\ MaxRoom \in Nat /\ None \notin Nat
  BY ContainersAssumption
<1>2. ArrayTypes
  <2>1. array \in [Arrays -> [elts: 1 .. MaxBlocks \cup {None}, nelts: Nat]]
    BY DEF A!Init
  <2>2. memory \in [1 .. MaxBlocks -> [1 .. MaxRoom -> Held]]
    BY DEF A!Init, Held
  <2>3. room \in [1 .. MaxBlocks -> 0 .. MaxRoom] /\ made \in 0 .. MaxBlocks /\ visiting = None
    BY <1>1 DEF A!Init
  <2>4. <<>> \in Seq(Held)
    OBVIOUS
  <2>5. given \in [Arrays -> Seq(Held)]
    BY <2>4 DEF A!Init
  <2> QED
    BY <2>1, <2>2, <2>3, <2>5 DEF ArrayTypes
<1>3. \A a \in Arrays : array[a].elts = None /\ array[a].nelts = 0 /\ given[a] = <<>>
  BY DEF A!Init
<1>4. Housed
  BY <1>1, <1>3 DEF Housed, A!Init
<1>5. Filled
  BY <1>3 DEF Filled
<1> QED
  BY <1>2, <1>4, <1>5 DEF Arrayed, Visited, A!Init

LEMMA ArrayReshape ==
    ASSUME Arrayed, NEW a \in Arrays, NEW n \in {1, 2}, A!reshape(a, n)
    PROVE  Arrayed'
<1>1. /\ MaxBlocks \in Nat /\ MaxRoom \in Nat /\ MaxRoom > 1 /\ None \notin Nat
      /\ visiting = None /\ visiting' = None
      /\ made < MaxBlocks /\ made' = made + 1
      /\ room' = [room EXCEPT ![made + 1] = n]
      /\ array' = [array EXCEPT ![a] = [elts |-> made + 1, nelts |-> 0]]
      /\ given' = [given EXCEPT ![a] = <<>>]
      /\ memory' = memory
  BY ContainersAssumption DEF A!reshape, A!Call, A!Idle
<1>2. /\ made \in Nat /\ made + 1 \in 1 .. MaxBlocks
      /\ \A b \in Arrays : array[b].elts \in 1 .. MaxBlocks \cup {None}
  BY <1>1 DEF Arrayed, ArrayTypes
<1>3. /\ array'[a].elts = made + 1 /\ array'[a].nelts = 0 /\ given'[a] = <<>>
      /\ \A b \in Arrays \ {a} : array'[b] = array[b] /\ given'[b] = given[b]
      /\ \A b \in 1 .. made : room'[b] = room[b]
      /\ room'[made + 1] = n
  BY <1>1, <1>2 DEF Arrayed, ArrayTypes
<1>4. ArrayTypes'
  <2>1. [elts |-> made + 1, nelts |-> 0] \in [elts: 1 .. MaxBlocks \cup {None}, nelts: Nat]
    BY <1>2
  <2>2. array' \in [Arrays -> [elts: 1 .. MaxBlocks \cup {None}, nelts: Nat]]
    BY <1>1, <2>1 DEF Arrayed, ArrayTypes
  <2>3. room' \in [1 .. MaxBlocks -> 0 .. MaxRoom]
    BY <1>1, <1>2 DEF Arrayed, ArrayTypes
  <2>4. <<>> \in Seq(Held)
    OBVIOUS
  <2>5. given' \in [Arrays -> Seq(Held)]
    BY <1>1, <2>4 DEF Arrayed, ArrayTypes
  <2> QED
    BY <1>1, <1>2, <2>2, <2>3, <2>5 DEF Arrayed, ArrayTypes
<1>5. \A b \in Arrays : array[b].elts # None => array[b].elts \in 1 .. made
  BY <1>1, <1>2 DEF Arrayed, Housed
<1>6. Housed'
  <2>1. \A b \in 1 .. made' : room'[b] > 0
    <3> TAKE b \in 1 .. made'
    <3>1. b \in 1 .. made \/ b = made + 1
      BY <1>1, <1>2
    <3> QED
      BY <1>3, <3>1 DEF Arrayed, Housed
  <2>2. \A b \in Arrays :
            IF array'[b].elts = None THEN array'[b].nelts = 0
            ELSE array'[b].elts <= made' /\ array'[b].nelts <= room'[array'[b].elts]
    <3> TAKE b \in Arrays
    <3>1. CASE b = a
      BY <1>1, <1>2, <1>3, <3>1
    <3>2. CASE b # a
      <4>1. CASE array[b].elts = None
        BY <1>3, <3>2, <4>1 DEF Arrayed, Housed
      <4>2. CASE array[b].elts # None
        <5>1. array[b].nelts <= room[array[b].elts]
          BY <4>2 DEF Arrayed, Housed
        <5> QED
          BY <1>1, <1>2, <1>3, <1>5, <3>2, <4>2, <5>1
      <4> QED
        BY <4>1, <4>2
    <3> QED
      BY <3>1, <3>2
  <2>3. \A b, c \in Arrays : b # c /\ array'[b].elts # None => array'[b].elts # array'[c].elts
    <3> TAKE b, c \in Arrays
    <3>1. array[b].elts # made + 1 /\ array[c].elts # made + 1
      BY <1>1, <1>2, <1>5
    <3> QED
      BY <1>3, <3>1 DEF Arrayed, Housed
  <2> QED
    BY <2>1, <2>2, <2>3 DEF Housed
<1>7. Filled'
  BY <1>1, <1>3 DEF Arrayed, Filled
<1> QED
  BY <1>1, <1>4, <1>6, <1>7 DEF Arrayed, Visited

LEMMA ArrayClear ==
    ASSUME Arrayed, NEW a \in Arrays, A!clear(a)
    PROVE  Arrayed'
<1>1. /\ visiting = None /\ visiting' = None
      /\ array' = [array EXCEPT ![a].nelts = 0]
      /\ given' = [given EXCEPT ![a] = <<>>]
      /\ UNCHANGED <<memory, room, made>>
  BY DEF A!clear, A!Call, A!Idle
<1>2. /\ MaxBlocks \in Nat /\ made \in Nat
      /\ \A b \in Arrays : array[b] \in [elts: 1 .. MaxBlocks \cup {None}, nelts: Nat]
      /\ \A b \in 1 .. made : room[b] > 0
      /\ room \in [1 .. MaxBlocks -> 0 .. MaxRoom]
  BY ContainersAssumption DEF Arrayed, ArrayTypes, Housed
<1>3. /\ array' \in [Arrays -> [elts: 1 .. MaxBlocks \cup {None}, nelts: Nat]]
      /\ array'[a].elts = array[a].elts /\ array'[a].nelts = 0 /\ given'[a] = <<>>
      /\ \A b \in Arrays \ {a} : array'[b] = array[b] /\ given'[b] = given[b]
  BY <1>1, <1>2 DEF Arrayed, ArrayTypes
<1>4. \A b \in Arrays : array'[b].elts = array[b].elts
  BY <1>3
<1>5. ArrayTypes'
  <2>1. <<>> \in Seq(Held)
    OBVIOUS
  <2>2. given' \in [Arrays -> Seq(Held)]
    BY <1>1, <2>1 DEF Arrayed, ArrayTypes
  <2> QED
    BY <1>1, <1>3, <2>2 DEF Arrayed, ArrayTypes
<1>6. Housed'
  <2>1. \A b \in Arrays :
            IF array'[b].elts = None THEN array'[b].nelts = 0
            ELSE array'[b].elts <= made /\ array'[b].nelts <= room[array'[b].elts]
    <3> TAKE b \in Arrays
    <3>1. CASE b = a
      <4>1. CASE array[a].elts = None
        BY <1>3, <3>1, <4>1
      <4>2. CASE array[a].elts # None
        <5>1. array[a].elts \in 1 .. MaxBlocks /\ array[a].elts <= made
          BY <1>2, <4>2 DEF Arrayed, Housed
        <5>2. room[array[a].elts] > 0 /\ room[array[a].elts] \in Int
          BY <1>2, <5>1
        <5> QED
          BY <1>3, <3>1, <4>2, <5>1, <5>2
      <4> QED
        BY <4>1, <4>2
    <3>2. CASE b # a
      BY <1>3, <3>2 DEF Arrayed, Housed
    <3> QED
      BY <3>1, <3>2
  <2> QED
    BY <1>1, <1>2, <1>4, <2>1 DEF Arrayed, Housed
<1>7. Filled'
  BY <1>1, <1>3 DEF Arrayed, Filled
<1> QED
  BY <1>1, <1>5, <1>6, <1>7 DEF Arrayed, Visited

LEMMA ArrayPush ==
    ASSUME Arrayed, NEW a \in Arrays, NEW x \in Values, A!push(a, x)
    PROVE  Arrayed'
<1>1. /\ x \in Held /\ A!prepare(a, x) /\ array[a].elts # None
      /\ visiting = None /\ visiting' = None
  BY DEF A!push, A!Call, A!Idle, A!Exists, Held
<1>2. ArrayTypes /\ Housed /\ Filled
  BY DEF Arrayed
<1>3. Housed' /\ Filled' /\ given' \in [Arrays -> Seq(Held)]
  BY <1>1, <1>2, GrownKeeps
<1>4. ArrayTypes'
  BY <1>1, <1>2, <1>3, PrepareIs DEF ArrayTypes
<1> QED
  BY <1>1, <1>3, <1>4 DEF Arrayed, Visited

LEMMA ArrayVisit ==
    ASSUME Arrayed, NEW a \in Arrays, NEW into \in Arrays \cup {None}, NEW each \in BOOLEAN,
           A!begins(a, into, each)
    PROVE  Arrayed'
<1> DEFINE v == [array |-> a, elts |-> array[a].elts, into |-> into, each |-> each, seen |-> <<>>]
<1>1. /\ visiting' = v
      /\ array[a].elts # None
      /\ into # None => array[into].elts # None
      /\ UNCHANGED <<array, room, memory, made, given>>
  BY DEF A!begins, A!Exists
<1>2. array[a].elts \in 1 .. made
  BY ContainersAssumption, <1>1 DEF Arrayed, ArrayTypes, Housed
<1>3. v \in Visits
  <2>1. <<>> \in Seq(Held) /\ array[a].elts \in Nat
    BY <1>2, ContainersAssumption DEF Arrayed, ArrayTypes
  <2> QED
    BY <2>1 DEF Visits
<1>4. v.array = a /\ v.elts = array[a].elts /\ v.into = into /\ v.seen = <<>>
  OBVIOUS
<1> HIDE DEF v
<1>5. (ArrayTypes /\ Housed /\ Filled)'
  BY <1>1, <1>3 DEF Arrayed, ArrayTypes, Housed, Filled
<1>6. Visited'
  <2>1. array[a].nelts \in Nat /\ Len(<<>>) = 0
    BY DEF Arrayed, ArrayTypes
  <2> QED
    BY <1>1, <1>2, <1>4, <2>1 DEF Visited, Reads
<1> QED
  BY <1>5, <1>6 DEF Arrayed

LEMMA ArrayNext ==
    ASSUME Arrayed, [A!Next]_avars
    PROVE  Arrayed'
<1>1. CASE A!ends \/ A!throws
  <2>1. visiting' = None /\ UNCHANGED <<array, room, memory, made, given>>
    BY <1>1 DEF A!ends, A!throws
  <2> QED
    BY <2>1 DEF Arrayed, ArrayTypes, Housed, Filled, Visited
<1>2. CASE UNCHANGED avars
  BY <1>2 DEF avars, Arrayed, ArrayTypes, Housed, Filled, Visited, Reads
<1>3. CASE \E a \in Arrays, into \in Arrays \cup {None} : A!visit(a, into)
  BY <1>3, ArrayVisit DEF A!visit
<1>4. CASE \E a, into \in Arrays : A!merge(into, a)
  BY <1>4, ArrayVisit DEF A!merge
<1> QED
  BY <1>1, <1>2, <1>3, <1>4, ArrayReshape, ArrayClear, ArrayPush, ArrayStep DEF A!Next

LEMMA ArraySees == Arrayed => A!VisitSees
<1> SUFFICES ASSUME Arrayed
             PROVE  A!VisitSees
  OBVIOUS
<1>1. ASSUME NEW a \in Arrays
      PROVE  A!Contents(a) = given[a]
  <2>1. given[a] \in Seq(Held) /\ Len(given[a]) = array[a].nelts
        /\ \A i \in 1 .. array[a].nelts : memory[array[a].elts][i] = given[a][i]
    BY DEF Arrayed, ArrayTypes, Filled
  <2>2. A!Contents(a) = [i \in 1 .. Len(given[a]) |-> given[a][i]]
    BY <2>1 DEF A!Contents, A!size
  <2> QED
    BY <2>1, <2>2
<1>2. ASSUME visiting # None
      PROVE  /\ Len(visiting.seen) <= Len(given[visiting.array])
             /\ \A i \in DOMAIN visiting.seen :
                 i <= room[visiting.elts] => visiting.seen[i] = given[visiting.array][i]
             /\ ~A!more => Len(visiting.seen) = Len(given[visiting.array])
             /\ visiting.each /\ visiting.into = visiting.array /\ visiting.seen # <<>> =>
                 Len(visiting.seen) < Len(given[visiting.array])
  <2>1. visiting \in Visits
    BY <1>2 DEF Arrayed, ArrayTypes
  <2>2. visiting.array \in Arrays /\ visiting.seen \in Seq(Held)
    BY <2>1 DEF Visits
  <2>3. /\ array[visiting.array].nelts \in Nat
        /\ Len(given[visiting.array]) = array[visiting.array].nelts
    BY <2>2 DEF Arrayed, ArrayTypes, Filled
  <2>4. ~A!more => Len(visiting.seen) = array[visiting.array].nelts
    BY <1>2, <2>2, <2>3 DEF A!more, A!size, Arrayed, Visited
  <2> QED
    BY <1>2, <2>2, <2>3, <2>4 DEF Arrayed, Visited
<1> QED
  BY <1>1, <1>2 DEF A!VisitSees, A!Idle

-------------------------------------------------------------------------------
\* Rows of links.

\* The library states well-foundedness of the natural numbers as a fact about a set
\* of pairs; with it a set of numbers that is not empty has a least one.
Smaller == {p \in Nat \X Nat : p[1] < p[2]}

LEMMA SmallerIsWellFounded == IsWellFoundedOn(Smaller, Nat)
BY NatLessThanWellFounded, SMT DEF Smaller, OpToRel

LEMMA Least ==
    ASSUME NEW T \in SUBSET Nat, T # {}
    PROVE  \E n \in T : \A m \in T : n <= m
<1>1. PICK n \in T : \A m \in T : <<m, n>> \notin Smaller
  BY SmallerIsWellFounded, WFMin
<1>2. ASSUME NEW m \in T
      PROVE  n <= m
  <2>1. <<m, n>> \notin Smaller /\ m \in Nat /\ n \in Nat
    BY <1>1
  <2>2. ~(m < n)
    BY <2>1 DEF Smaller
  <2> QED
    BY <2>1, <2>2
<1> QED
  BY <1>2

\* A number of links and where to start, as the argument of a function.
Pair(k, c) == <<k, c>>

LEMMA PairIs ==
    \A k, c : Pair(k, c)[1] = k /\ Pair(k, c)[2] = c
BY DEF Pair

LEMMA PairIn ==
    \A S, K : \A k \in S, c \in K : Pair(k, c) \in S \X K
BY DEF Pair

Before(c, s) == <<c>> \o s

LEMMA BeforeIs ==
    ASSUME NEW S, NEW c \in S, NEW s \in Seq(S)
    PROVE  /\ Before(c, s) \in Seq(S)
           /\ Len(Before(c, s)) = Len(s) + 1
           /\ Before(c, s)[1] = c
           /\ \A i \in 1 .. Len(s) : Before(c, s)[i + 1] = s[i]
BY DEF Before

\* One step of a function that follows links up to a place in stop, but at most n
\* of them, and notes where it comes.
Unroll(f, link, stop, K, n) ==
    [x \in (0 .. n) \X K |->
        IF x[1] = 0 \/ x[2] \in stop THEN <<>>
        ELSE Before(x[2], f[Pair(x[1] - 1, link[x[2]])])]

Follows(f, link, stop, K, n) == f = Unroll(f, link, stop, K, n)

LEMMA UnrollIs ==
    ASSUME NEW link, NEW stop, NEW K, NEW n \in Nat, NEW f, Follows(f, link, stop, K, n),
           NEW k \in 0 .. n, NEW c \in K
    PROVE  /\ k = 0 \/ c \in stop => f[Pair(k, c)] = <<>>
           /\ k # 0 /\ c \notin stop => f[Pair(k, c)] = Before(c, f[Pair(k - 1, link[c])])
<1>1. Pair(k, c) \in (0 .. n) \X K /\ Pair(k, c)[1] = k /\ Pair(k, c)[2] = c
  BY PairIs, PairIn
<1> QED
  BY <1>1 DEF Unroll, Follows

\* Such a function exists, for each n.
LEMMA UnrollExists ==
    ASSUME NEW link, NEW stop, NEW K, \A c \in K \ stop : link[c] \in K, NEW N \in Nat
    PROVE  \E f : Follows(f, link, stop, K, N)
<1> DEFINE T == {n \in Nat : ~\E f : Follows(f, link, stop, K, n)}
<1> SUFFICES ASSUME T # {}
             PROVE  FALSE
  OBVIOUS
<1>1. PICK n \in T : \A m \in T : n <= m
  BY Least
<1>2. n \in Nat /\ ~\E f : f = Unroll(f, link, stop, K, n)
  BY DEF Follows
<1>3. CASE n = 0
  <2> DEFINE f == [x \in (0 .. 0) \X K |-> <<>>]
  <2>1. f = Unroll(f, link, stop, K, 0)
    <3>1. \A x \in (0 .. 0) \X K : x[1] = 0
      OBVIOUS
    <3> QED
      BY <3>1 DEF Unroll
  <2> QED
    BY <1>2, <1>3, <2>1
<1>4. CASE n # 0
  <2>1. n - 1 \in Nat /\ n - 1 \notin T
    BY <1>1, <1>2, <1>4
  <2>2. PICK f : f = Unroll(f, link, stop, K, n - 1)
    BY <2>1 DEF Follows
  <2> DEFINE g == Unroll(f, link, stop, K, n)
  <2>3. ASSUME NEW x \in (0 .. n) \X K, x[1] # 0, x[2] \notin stop
        PROVE  g[Pair(x[1] - 1, link[x[2]])] = f[Pair(x[1] - 1, link[x[2]])]
    <3> DEFINE k == x[1] - 1
               c == link[x[2]]
               y == Pair(k, c)
    <3>1. k \in 0 .. n - 1 /\ k \in 0 .. n /\ c \in K
      BY <1>2, <2>3
    <3> HIDE DEF k, c
    <3>3. y \in (0 .. n) \X K /\ y[1] = k /\ y[2] = c /\ y \in (0 .. n - 1) \X K
      BY <3>1, PairIs, PairIn
    <3> HIDE DEF y
    <3>2. f[y] = IF y[1] = 0 \/ y[2] \in stop THEN <<>>
                 ELSE Before(y[2], f[Pair(y[1] - 1, link[y[2]])])
      BY <2>2, <3>3 DEF Unroll
    <3>4. g[y] = IF y[1] = 0 \/ y[2] \in stop THEN <<>>
                 ELSE Before(y[2], f[Pair(y[1] - 1, link[y[2]])])
      BY <3>3 DEF Unroll
    <3> QED
      BY <3>2, <3>3, <3>4 DEF y, k, c
  <2>4. g = Unroll(g, link, stop, K, n)
    <3> HIDE DEF g
    <3>1. \A x \in (0 .. n) \X K :
             (IF x[1] = 0 \/ x[2] \in stop THEN <<>> ELSE Before(x[2], f[Pair(x[1] - 1, link[x[2]])]))
             = IF x[1] = 0 \/ x[2] \in stop THEN <<>> ELSE Before(x[2], g[Pair(x[1] - 1, link[x[2]])])
      BY <2>3
    <3>2. Unroll(f, link, stop, K, n) = Unroll(g, link, stop, K, n)
      BY <3>1 DEF Unroll
    <3> QED
      BY <3>2 DEF g
  <2> QED
    BY <1>2, <2>4
<1> QED
  BY <1>3, <1>4

\* The place of a row after its last is its end.
At(s, i, end) == IF i \in 1 .. Len(s) THEN s[i] ELSE end

\* The places of s are linked one after the other from n to the end.
Row(link, s, n, end) ==
    /\ n = At(s, 1, end)
    /\ \A i \in 1 .. Len(s) : link[s[i]] = At(s, i + 1, end)

\* Following the links from its first place gives the row.
LEMMA FollowsRow ==
    ASSUME NEW link, NEW stop, NEW K, NEW N \in Nat,
           NEW f, Follows(f, link, stop, K, N),
           NEW s \in Seq(K \ stop), Len(s) <= N,
           NEW n, NEW end \in stop \cap K, Row(link, s, n, end)
    PROVE  f[Pair(N, n)] = s
<1>1. Len(s) \in Nat /\ \A i \in 1 .. Len(s) : s[i] \in K \ stop
  OBVIOUS
<1>2. \A k \in 0 .. N, c \in K :
         /\ k = 0 \/ c \in stop => f[Pair(k, c)] = <<>>
         /\ k # 0 /\ c \notin stop => f[Pair(k, c)] = Before(c, f[Pair(k - 1, link[c])])
  <2> TAKE k \in 0 .. N, c \in K
  <2>1. CASE k = 0 \/ c \in stop
    BY <2>1, UnrollIs
  <2>2. CASE k # 0 /\ c \notin stop
    BY <2>2, UnrollIs
  <2> QED
    BY <2>1, <2>2
<1> DEFINE Rest(i) == SubSeq(s, i, Len(s))
           Good(m) == \A k \in m .. N :
                         f[Pair(k, At(s, Len(s) - m + 1, end))] = Rest(Len(s) - m + 1)
           T == {m \in 0 .. Len(s) : ~Good(m)}
<1>3. T = {}
  <2> SUFFICES ASSUME T # {}
               PROVE  FALSE
    OBVIOUS
  <2>1. T \in SUBSET Nat
    BY <1>1
  <2>2. PICK m \in T : \A p \in T : m <= p
    <3> HIDE DEF T
    <3> QED
      BY <2>1, Least
  <2>3. m \in 0 .. Len(s)
    BY <2>2
  <2>6. ~Good(m)
    BY <2>2
  <2> HIDE DEF T
  <2>4. ASSUME NEW k \in m .. N, m = 0
        PROVE  f[Pair(k, At(s, Len(s) - m + 1, end))] = Rest(Len(s) - m + 1)
    <3>1. At(s, Len(s) - m + 1, end) = end
      BY <1>1, <2>4 DEF At
    <3>2. end \in K /\ end \in stop /\ k \in 0 .. N
      BY <2>4
    <3>3. f[Pair(k, end)] = <<>>
      BY <1>2, <3>2
    <3>4. Rest(Len(s) - m + 1) = <<>>
      BY <1>1, <2>4
    <3> QED
      BY <3>1, <3>3, <3>4
  <2>5. ASSUME NEW k \in m .. N, m # 0
        PROVE  f[Pair(k, At(s, Len(s) - m + 1, end))] = Rest(Len(s) - m + 1)
    <3> DEFINE i == Len(s) - m + 1
               c == s[i]
    <3>1. i \in 1 .. Len(s)
      BY <1>1, <2>3, <2>5
    <3>2. At(s, i, end) = c /\ c \in K /\ c \notin stop /\ link[c] = At(s, i + 1, end)
      BY <1>1, <3>1 DEF At, Row
    <3>3. f[Pair(k, c)] = Before(c, f[Pair(k - 1, link[c])])
      <4>1. k # 0 /\ k \in 0 .. N
        BY <2>3, <2>5
      <4> HIDE DEF c
      <4> QED
        BY <1>2, <3>2, <4>1
    <3>4. Good(m - 1)
      <4>1. m - 1 \in 0 .. Len(s) /\ ~(m <= m - 1)
        BY <1>1, <2>3, <2>5
      <4> HIDE DEF Good
      <4>2. m - 1 \notin T
        BY <2>2, <4>1
      <4> QED
        BY <4>1, <4>2 DEF T
    <3>5. k - 1 \in (m - 1) .. N
      BY <2>3, <2>5
    <3>6. Len(s) - (m - 1) + 1 = i + 1
      BY <1>1, <2>3
    <3>7. f[Pair(k - 1, At(s, i + 1, end))] = Rest(i + 1)
      <4>1. f[Pair(k - 1, At(s, Len(s) - (m - 1) + 1, end))] = Rest(Len(s) - (m - 1) + 1)
        BY <3>4, <3>5
      <4> QED
        BY <3>6, <4>1
    <3>8. Rest(i) = Before(c, Rest(i + 1))
      <4>1. i \in Nat /\ i + 1 \in Nat
        BY <1>1, <3>1
      <4>2. Rest(i) \in Seq(K \ stop) /\ Len(Rest(i)) = Len(s) - i + 1
        BY <1>1, <3>1
      <4>3. Rest(i + 1) \in Seq(K \ stop) /\ Len(Rest(i + 1)) = Len(s) - i
        BY <1>1, <3>1
      <4> DEFINE r == Rest(i + 1)
      <4>4. /\ Before(c, r) \in Seq(K \ stop)
            /\ Len(Before(c, r)) = Len(s) - i + 1
            /\ Before(c, r)[1] = c
            /\ \A j \in 1 .. Len(r) : Before(c, r)[j + 1] = r[j]
        <5> DEFINE S == K \ stop
        <5>1. c \in S /\ r \in Seq(S)
          BY <3>2, <4>3
        <5> HIDE DEF r, c, S
        <5>2. /\ Before(c, r) \in Seq(S)
              /\ Len(Before(c, r)) = Len(r) + 1
              /\ Before(c, r)[1] = c
              /\ \A j \in 1 .. Len(r) : Before(c, r)[j + 1] = r[j]
          BY <5>1, BeforeIs
        <5>3. Len(s) - i + 1 = Len(r) + 1
          BY <1>1, <3>1, <4>3 DEF r
        <5> QED
          BY <5>2, <5>3 DEF S
      <4>5. ASSUME NEW j \in 1 .. Len(s) - i + 1
            PROVE  Rest(i)[j] = (Before(c, Rest(i + 1)))[j]
        <5>1. Rest(i)[j] = s[i + j - 1]
          BY <1>1, <3>1
        <5>2. CASE j = 1
          <6>1. i + j - 1 = i
            BY <3>1, <5>2
          <6> QED
            BY <4>4, <5>1, <5>2, <6>1
        <5>3. CASE j # 1
          <6>1. j - 1 \in 1 .. Len(r) /\ (j - 1) + 1 = j
            BY <1>1, <3>1, <4>3, <5>3
          <6>2. Before(c, r)[j] = r[j - 1]
            BY <4>4, <6>1
          <6>3. r[j - 1] = s[i + 1 + (j - 1) - 1]
            BY <1>1, <3>1, <5>3, SMTT(30)
          <6>4. i + 1 + (j - 1) - 1 = i + j - 1
            BY <1>1, <3>1
          <6> HIDE DEF r
          <6> QED
            BY <5>1, <6>2, <6>3, <6>4 DEF r
        <5> QED
          BY <5>2, <5>3
      <4> QED
        BY <4>2, <4>4, <4>5, SeqEqual
    <3> QED
      BY <3>2, <3>3, <3>7, <3>8
  <2> QED
    BY <2>4, <2>5, <2>6
<1>4. Good(Len(s))
  <2>1. Len(s) \in 0 .. Len(s)
    BY <1>1
  <2> HIDE DEF Good
  <2> QED
    BY <1>3, <2>1
<1>5. N \in Len(s) .. N
  BY <1>1
<1>6. Len(s) - Len(s) + 1 = 1 /\ Rest(1) = s
  BY <1>1
<1>7. f[Pair(N, At(s, Len(s) - Len(s) + 1, end))] = Rest(Len(s) - Len(s) + 1)
  BY <1>4, <1>5
<1> QED
  BY <1>6, <1>7 DEF Row

\* What a row holds, each of it once or not.
Holds(s) == {s[i] : i \in 1 .. Len(s)}

Once(s) == \A i, j \in 1 .. Len(s) : s[i] = s[j] => i = j

LEMMA HoldsIn ==
    ASSUME NEW S, NEW s \in Seq(S)
    PROVE  Holds(s) \subseteq S
<1>1. \A i \in 1 .. Len(s) : s[i] \in S
  OBVIOUS
<1> QED
  BY <1>1 DEF Holds

LEMMA NothingIs ==
    /\ Len(<<>>) = 0 /\ Holds(<<>>) = {} /\ Once(<<>>)
    /\ \A link, end : Row(link, <<>>, end, end)
<1>1. Len(<<>>) = 0
  OBVIOUS
<1> QED
  BY <1>1 DEF Holds, Once, Row, At

LEMMA OneIs ==
    ASSUME NEW S, NEW c \in S
    PROVE  /\ <<c>> \in Seq(S) /\ Len(<<c>>) = 1 /\ Holds(<<c>>) = {c} /\ Once(<<c>>)
           /\ \A link, end : link[c] = end => Row(link, <<c>>, c, end)
<1> DEFINE s == <<c>>
<1>1. s \in Seq(S) /\ Len(s) = 1 /\ s[1] = c
  OBVIOUS
<1> HIDE DEF s
<1>2. Holds(s) = {c} /\ Once(s)
  BY <1>1 DEF Holds, Once
<1>3. ASSUME NEW link, NEW end, link[c] = end
      PROVE  Row(link, s, c, end)
  <2>1. At(s, 1, end) = c /\ At(s, 2, end) = end
    BY <1>1 DEF At
  <2>2. \A i \in 1 .. Len(s) : i = 1
    BY <1>1
  <2> QED
    BY <1>1, <1>3, <2>1, <2>2 DEF Row
<1> QED
  BY <1>1, <1>2, <1>3 DEF s

LEMMA TailIs ==
    ASSUME NEW S, NEW s \in Seq(S), s # <<>>, Once(s)
    PROVE  /\ Tail(s) \in Seq(S) /\ Len(Tail(s)) = Len(s) - 1
           /\ Holds(Tail(s)) = Holds(s) \ {s[1]} /\ s[1] \in Holds(s)
           /\ Once(Tail(s))
<1> DEFINE t == Tail(s)
<1>1. Len(s) \in Nat \ {0}
  BY EmptySeq
<1>2. t \in Seq(S) /\ Len(t) = Len(s) - 1 /\ \A i \in 1 .. Len(t) : t[i] = s[i + 1]
  BY <1>1
<1> HIDE DEF t
<1>3. Once(t)
  <2>1. ASSUME NEW i \in 1 .. Len(t), NEW j \in 1 .. Len(t), t[i] = t[j]
        PROVE  i = j
    <3>1. s[i + 1] = s[j + 1] /\ i + 1 \in 1 .. Len(s) /\ j + 1 \in 1 .. Len(s)
      BY <1>1, <1>2, <2>1
    <3>2. i + 1 = j + 1
      BY <3>1 DEF Once
    <3> QED
      BY <3>2
  <2> QED
    BY <2>1 DEF Once
<1>4. s[1] \in Holds(s)
  BY <1>1 DEF Holds
<1>5. ASSUME NEW x \in Holds(t)
      PROVE  x \in Holds(s) /\ x # s[1]
  <2>1. PICK i \in 1 .. Len(t) : x = t[i]
    BY DEF Holds
  <2>2. x = s[i + 1] /\ i + 1 \in 1 .. Len(s) /\ 1 \in 1 .. Len(s) /\ i + 1 # 1
    BY <1>1, <1>2, <2>1
  <2> QED
    BY <2>2 DEF Holds, Once
<1>6. ASSUME NEW x \in Holds(s), x # s[1]
      PROVE  x \in Holds(t)
  <2>1. PICK i \in 1 .. Len(s) : x = s[i]
    BY DEF Holds
  <2>2. i - 1 \in 1 .. Len(t) /\ (i - 1) + 1 = i
    BY <1>1, <1>2, <1>6, <2>1
  <2>3. x = t[i - 1]
    BY <1>2, <2>1, <2>2
  <2> QED
    BY <2>2, <2>3 DEF Holds
<1> QED
  BY <1>2, <1>3, <1>4, <1>5, <1>6 DEF t

LEMMA PutBefore ==
    ASSUME NEW S, NEW c \in S, NEW s \in Seq(S), Once(s), c \notin Holds(s)
    PROVE  /\ Before(c, s) \in Seq(S) /\ Len(Before(c, s)) = Len(s) + 1
           /\ Holds(Before(c, s)) = Holds(s) \cup {c}
           /\ Once(Before(c, s))
<1> DEFINE t == Before(c, s)
<1>1. Len(s) \in Nat
  OBVIOUS
<1>2. t \in Seq(S) /\ Len(t) = Len(s) + 1 /\ t[1] = c /\ \A i \in 1 .. Len(s) : t[i + 1] = s[i]
  BY BeforeIs
<1> HIDE DEF t
<1>3. ASSUME NEW i \in 1 .. Len(t), i # 1
      PROVE  i - 1 \in 1 .. Len(s) /\ t[i] = s[i - 1]
  <2>1. i - 1 \in 1 .. Len(s) /\ (i - 1) + 1 = i
    BY <1>1, <1>2, <1>3
  <2>2. t[(i - 1) + 1] = s[i - 1]
    BY <1>2, <2>1
  <2> QED
    BY <2>1, <2>2
<1>4. Once(t)
  <2>1. ASSUME NEW i \in 1 .. Len(t), NEW j \in 1 .. Len(t), t[i] = t[j]
        PROVE  i = j
    <3>1. CASE i = 1 \/ j = 1
      BY <1>2, <1>3, <2>1, <3>1 DEF Holds
    <3>2. CASE i # 1 /\ j # 1
      <4>1. i - 1 = j - 1
        BY <1>3, <2>1, <3>2 DEF Once
      <4> QED
        BY <4>1
    <3> QED
      BY <3>1, <3>2
  <2> QED
    BY <2>1 DEF Once
<1>5. ASSUME NEW x \in Holds(t)
      PROVE  x \in Holds(s) \cup {c}
  <2>1. PICK i \in 1 .. Len(t) : x = t[i]
    BY DEF Holds
  <2>2. CASE i # 1
    BY <1>3, <2>1, <2>2 DEF Holds
  <2> QED
    BY <1>2, <2>1, <2>2
<1>6. c \in Holds(t)
  BY <1>1, <1>2 DEF Holds
<1>7. ASSUME NEW x \in Holds(s)
      PROVE  x \in Holds(t)
  <2>1. PICK i \in 1 .. Len(s) : x = s[i]
    BY DEF Holds
  <2>2. i + 1 \in 1 .. Len(t) /\ x = t[i + 1]
    BY <1>1, <1>2, <2>1
  <2> QED
    BY <2>2 DEF Holds
<1> QED
  BY <1>2, <1>4, <1>5, <1>6, <1>7 DEF t

LEMMA ConcatIs ==
    ASSUME NEW S, NEW s \in Seq(S), NEW t \in Seq(S)
    PROVE  /\ s \o t \in Seq(S) /\ Len(s \o t) = Len(s) + Len(t)
           /\ \A i \in 1 .. Len(s) : (s \o t)[i] = s[i]
           /\ \A i \in 1 .. Len(t) : (s \o t)[Len(s) + i] = t[i]
<1>1. s \o t \in Seq(S) /\ Len(s \o t) = Len(s) + Len(t)
  OBVIOUS
<1>2. \A i \in 1 .. Len(s) : (s \o t)[i] = s[i]
  OBVIOUS
<1>3. \A i \in 1 .. Len(t) : (s \o t)[Len(s) + i] = t[i]
  OBVIOUS
<1> QED
  BY <1>1, <1>2, <1>3

LEMMA JoinIs ==
    ASSUME NEW S, NEW s \in Seq(S), NEW t \in Seq(S), Once(s), Once(t),
           Holds(s) \cap Holds(t) = {}
    PROVE  /\ s \o t \in Seq(S) /\ Len(s \o t) = Len(s) + Len(t)
           /\ \A i \in 1 .. Len(s) : (s \o t)[i] = s[i]
           /\ \A i \in 1 .. Len(t) : (s \o t)[Len(s) + i] = t[i]
           /\ Holds(s \o t) = Holds(s) \cup Holds(t)
           /\ Once(s \o t)
<1> DEFINE u == s \o t
<1>1. Len(s) \in Nat /\ Len(t) \in Nat
  OBVIOUS
<1>2. u \in Seq(S) /\ Len(u) = Len(s) + Len(t)
  OBVIOUS
<1>3. \A i \in 1 .. Len(s) : u[i] = s[i]
  OBVIOUS
<1>4. \A i \in 1 .. Len(t) : u[Len(s) + i] = t[i]
  OBVIOUS
<1> HIDE DEF u
<1>5. ASSUME NEW i \in 1 .. Len(u)
      PROVE  \/ i \in 1 .. Len(s) /\ u[i] = s[i]
             \/ i > Len(s) /\ i - Len(s) \in 1 .. Len(t) /\ u[i] = t[i - Len(s)]
  <2>1. i \in Int /\ 1 <= i /\ i <= Len(s) + Len(t)
    BY <1>1, <1>2
  <2>2. CASE i <= Len(s)
    BY <1>1, <1>3, <2>1, <2>2
  <2>3. CASE i > Len(s)
    <3>1. i - Len(s) \in 1 .. Len(t) /\ Len(s) + (i - Len(s)) = i
      BY <1>1, <2>1, <2>3
    <3> QED
      BY <1>4, <2>3, <3>1
  <2> QED
    BY <1>1, <2>1, <2>2, <2>3
<1>6. Once(u)
  <2>1. ASSUME NEW i \in 1 .. Len(u), NEW j \in 1 .. Len(u), u[i] = u[j]
        PROVE  i = j
    <3>1. CASE i \in 1 .. Len(s) /\ j \in 1 .. Len(s)
      BY <1>3, <2>1, <3>1 DEF Once
    <3>2. CASE i > Len(s) /\ j > Len(s)
      <4>1. /\ i - Len(s) \in 1 .. Len(t) /\ u[i] = t[i - Len(s)]
            /\ j - Len(s) \in 1 .. Len(t) /\ u[j] = t[j - Len(s)]
        BY <1>1, <1>5, <3>2
      <4>2. i - Len(s) = j - Len(s)
        BY <2>1, <4>1 DEF Once
      <4> QED
        BY <1>1, <4>2
    <3>3. ASSUME NEW k \in 1 .. Len(s), NEW l \in 1 .. Len(u), l > Len(s), u[k] = u[l]
          PROVE  FALSE
      <4>1. u[k] \in Holds(s)
        BY <1>3 DEF Holds
      <4>2. l \notin 1 .. Len(s)
        BY <1>1, <3>3
      <4>3. u[l] \in Holds(t)
        BY <1>5, <4>2 DEF Holds
      <4> QED
        BY <3>3, <4>1, <4>3
    <3> QED
      BY <1>5, <2>1, <3>1, <3>2, <3>3
  <2> QED
    BY <2>1 DEF Once
<1>7. ASSUME NEW x \in Holds(u)
      PROVE  x \in Holds(s) \cup Holds(t)
  BY <1>5 DEF Holds
<1>8. ASSUME NEW x \in Holds(s)
      PROVE  x \in Holds(u)
  <2>1. PICK i \in 1 .. Len(s) : x = s[i]
    BY DEF Holds
  <2>2. i \in 1 .. Len(u) /\ x = u[i]
    BY <1>1, <1>2, <1>3, <2>1
  <2> QED
    BY <2>2 DEF Holds
<1>9. ASSUME NEW x \in Holds(t)
      PROVE  x \in Holds(u)
  <2>1. PICK i \in 1 .. Len(t) : x = t[i]
    BY DEF Holds
  <2>2. Len(s) + i \in 1 .. Len(u) /\ x = u[Len(s) + i]
    BY <1>1, <1>2, <1>4, <2>1
  <2> QED
    BY <2>2 DEF Holds
<1> QED
  BY <1>2, <1>3, <1>4, <1>6, <1>7, <1>8, <1>9 DEF u

\* A row stays one if the links of its places do.
LEMMA RowKept ==
    ASSUME NEW link, NEW to, NEW s, NEW n, NEW end, Row(link, s, n, end),
           \A x \in Holds(s) : to[x] = link[x]
    PROVE  Row(to, s, n, end)
<1>1. ASSUME NEW i \in 1 .. Len(s)
      PROVE  to[s[i]] = link[s[i]]
  BY <1>1 DEF Holds
<1> QED
  BY <1>1 DEF Row

LEMMA RowTail ==
    ASSUME NEW S, NEW s \in Seq(S), s # <<>>, NEW link, NEW n, NEW end, Row(link, s, n, end)
    PROVE  n = s[1] /\ Row(link, Tail(s), link[n], end)
<1> DEFINE t == Tail(s)
<1>1. Len(s) \in Nat \ {0}
  BY EmptySeq
<1>2. Len(t) = Len(s) - 1 /\ \A i \in 1 .. Len(t) : t[i] = s[i + 1]
  BY <1>1
<1> HIDE DEF t
<1>3. n = s[1] /\ link[n] = At(s, 2, end)
  <2>1. 1 \in 1 .. Len(s) /\ 1 + 1 = 2
    BY <1>1
  <2> QED
    BY <2>1 DEF Row, At
<1>4. ASSUME NEW i \in Nat \ {0}
      PROVE  At(t, i, end) = At(s, i + 1, end)
  <2>1. i \in 1 .. Len(t) <=> i + 1 \in 1 .. Len(s)
    BY <1>1, <1>2
  <2> QED
    BY <1>2, <2>1 DEF At
<1>5. link[n] = At(t, 1, end)
  <2>1. At(t, 1, end) = At(s, 1 + 1, end)
    BY <1>4
  <2> QED
    BY <1>3, <2>1
<1>6. ASSUME NEW i \in 1 .. Len(t)
      PROVE  link[t[i]] = At(t, i + 1, end)
  <2>1. i + 1 \in 1 .. Len(s) /\ i + 1 \in Nat \ {0} /\ t[i] = s[i + 1]
    BY <1>1, <1>2
  <2>2. link[s[i + 1]] = At(s, i + 1 + 1, end)
    BY <2>1 DEF Row
  <2>3. At(t, i + 1, end) = At(s, i + 1 + 1, end)
    BY <1>4, <2>1
  <2> QED
    BY <2>1, <2>2, <2>3
<1> QED
  BY <1>3, <1>5, <1>6 DEF Row, t

LEMMA RowBefore ==
    ASSUME NEW S, NEW c \in S, NEW s \in Seq(S), NEW link, NEW n, NEW end,
           Row(link, s, n, end), link[c] = n
    PROVE  Row(link, Before(c, s), c, end)
<1> DEFINE t == Before(c, s)
<1>1. Len(s) \in Nat
  OBVIOUS
<1>2. Len(t) = Len(s) + 1 /\ t[1] = c /\ \A i \in 1 .. Len(s) : t[i + 1] = s[i]
  BY BeforeIs
<1> HIDE DEF t
<1>3. ASSUME NEW i \in Nat \ {0}
      PROVE  At(t, i + 1, end) = At(s, i, end)
  <2>1. i \in 1 .. Len(s) <=> i + 1 \in 1 .. Len(t)
    BY <1>1, <1>2
  <2> QED
    BY <1>2, <2>1 DEF At
<1>4. c = At(t, 1, end)
  BY <1>1, <1>2 DEF At
<1>5. ASSUME NEW i \in 1 .. Len(t)
      PROVE  link[t[i]] = At(t, i + 1, end)
  <2>1. CASE i = 1
    <3>1. At(t, i + 1, end) = At(s, 1, end)
      BY <1>3, <2>1
    <3> QED
      BY <1>2, <2>1, <3>1 DEF Row
  <2>2. CASE i # 1
    <3>1. i - 1 \in 1 .. Len(s) /\ (i - 1) + 1 = i /\ i \in Nat \ {0}
      BY <1>1, <1>2, <2>2
    <3>2. t[i] = s[i - 1] /\ link[s[i - 1]] = At(s, i, end)
      <4>1. t[(i - 1) + 1] = s[i - 1]
        BY <1>2, <3>1
      <4>2. link[s[i - 1]] = At(s, (i - 1) + 1, end)
        BY <3>1 DEF Row
      <4> QED
        BY <3>1, <4>1, <4>2
    <3> QED
      BY <1>3, <3>1, <3>2
  <2> QED
    BY <2>1, <2>2
<1> QED
  BY <1>4, <1>5 DEF Row, t

\* The last of one row is linked to the first of another.
LEMMA RowJoin ==
    ASSUME NEW S, NEW s \in Seq(S), NEW t \in Seq(S), s # <<>>,
           NEW link, NEW n, NEW m, NEW end, NEW to,
           Row(link, s, n, end), Row(link, t, m, end),
           Once(s), Once(t), Holds(s) \cap Holds(t) = {},
           to[s[Len(s)]] = m,
           \A x \in (Holds(s) \cup Holds(t)) \ {s[Len(s)]} : to[x] = link[x]
    PROVE  Row(to, s \o t, n, end)
<1> DEFINE u == s \o t
<1>1. Len(s) \in Nat \ {0} /\ Len(t) \in Nat
  BY EmptySeq
<1>2. /\ Len(u) = Len(s) + Len(t)
      /\ \A i \in 1 .. Len(s) : u[i] = s[i]
      /\ \A i \in 1 .. Len(t) : u[Len(s) + i] = t[i]
  BY JoinIs
<1> HIDE DEF u
<1>3. ASSUME NEW i \in 1 .. Len(s)
      PROVE  At(u, i, end) = s[i]
  BY <1>1, <1>2 DEF At
<1>4. ASSUME NEW i \in Nat \ {0}
      PROVE  At(u, Len(s) + i, end) = At(t, i, end)
  <2>1. i \in 1 .. Len(t) <=> Len(s) + i \in 1 .. Len(u)
    BY <1>1, <1>2
  <2> QED
    BY <1>2, <2>1 DEF At
<1>5. n = At(u, 1, end)
  <2>1. 1 \in 1 .. Len(s)
    BY <1>1
  <2> QED
    BY <1>3, <2>1 DEF Row, At
<1>6. ASSUME NEW i \in 1 .. Len(u)
      PROVE  to[u[i]] = At(u, i + 1, end)
  <2>1. i \in Int /\ 1 <= i /\ i <= Len(s) + Len(t)
    BY <1>1, <1>2
  <2>2. CASE i < Len(s)
    <3>1. i \in 1 .. Len(s) /\ i + 1 \in 1 .. Len(s) /\ Len(s) \in 1 .. Len(s) /\ i # Len(s)
      BY <1>1, <2>1, <2>2
    <3>2. u[i] = s[i] /\ At(u, i + 1, end) = s[i + 1] /\ At(s, i + 1, end) = s[i + 1]
      BY <1>2, <1>3, <3>1 DEF At
    <3>3. s[i] \in Holds(s) /\ s[i] # s[Len(s)]
      BY <3>1 DEF Holds, Once
    <3>4. link[s[i]] = At(s, i + 1, end)
      BY <3>1 DEF Row
    <3> QED
      BY <3>2, <3>3, <3>4
  <2>3. CASE i = Len(s)
    <3>1. u[i] = s[Len(s)] /\ At(u, i + 1, end) = At(t, 1, end)
      BY <1>1, <1>2, <1>4, <2>1, <2>3
    <3> QED
      BY <3>1 DEF Row
  <2>4. CASE i > Len(s)
    <3> DEFINE j == i - Len(s)
    <3>1. j \in 1 .. Len(t) /\ Len(s) + j = i /\ Len(s) + (j + 1) = i + 1 /\ j + 1 \in Nat \ {0}
      BY <1>1, <2>1, <2>4
    <3> HIDE DEF j
    <3>2. u[i] = t[j] /\ At(u, i + 1, end) = At(t, j + 1, end)
      <4>1. u[Len(s) + j] = t[j]
        BY <1>2, <3>1
      <4>2. At(u, Len(s) + (j + 1), end) = At(t, j + 1, end)
        BY <1>4, <3>1
      <4> QED
        BY <3>1, <4>1, <4>2
    <3>3. t[j] \in Holds(t) /\ s[Len(s)] \in Holds(s)
      BY <1>1, <3>1 DEF Holds
    <3>4. link[t[j]] = At(t, j + 1, end)
      BY <3>1 DEF Row
    <3> QED
      BY <3>2, <3>3, <3>4
  <2> QED
    BY <1>1, <2>1, <2>2, <2>3, <2>4
<1> QED
  BY <1>5, <1>6 DEF Row, u

\* A row of members of a finite set, each once, is no longer than there are of them.
LEMMA OnceFinite ==
    ASSUME NEW T, IsFiniteSet(T), NEW s \in Seq(T), Once(s)
    PROVE  Len(s) <= Cardinality(T) /\ Cardinality(T) \in Nat
<1>1. Len(s) \in Nat /\ s \in [1 .. Len(s) -> T]
  OBVIOUS
<1>2. Cardinality(T) \in Nat
  BY FS_CardinalityType
<1>3. ASSUME NEW n \in Nat
      PROVE  IsFiniteSet(1 .. n) /\ Cardinality(1 .. n) = n
  BY FS_Interval
<1>4. IsFiniteSet(1 .. Len(s)) /\ Cardinality(1 .. Len(s)) = Len(s)
  <2>1. Len(s) \in Nat
    OBVIOUS
  <2> QED
    BY <1>3, <2>1
<1>5. ~(Cardinality(T) < Len(s))
  <2> SUFFICES ASSUME Cardinality(T) < Len(s)
               PROVE  FALSE
    OBVIOUS
  <2> DEFINE D == 1 .. Len(s)
  <2>1. IsFiniteSet(D) /\ Cardinality(T) < Cardinality(D) /\ s \in [D -> T]
    BY <1>1, <1>4
  <2> HIDE DEF D
  <2>2. \E i, j \in D : i # j /\ s[i] = s[j]
    BY <2>1, FS_PigeonHole
  <2> QED
    BY <2>2 DEF D, Once
<1> QED
  BY <1>1, <1>2, <1>5

LEMMA OnceShort ==
    ASSUME NEW N \in Nat, NEW s \in Seq(1 .. N), Once(s)
    PROVE  Len(s) <= N
<1> DEFINE T == 1 .. N
<1>1. IsFiniteSet(T) /\ Cardinality(T) = N /\ s \in Seq(T)
  BY FS_Interval
<1> HIDE DEF T
<1> QED
  BY <1>1, OnceFinite

-------------------------------------------------------------------------------
\* Chains.

FreeingRun == [chain: Chains, iter: C!Links \cup {None}, pos: C!Links \cup {None}]

ChainTypes ==
    /\ next \in [C!Links -> C!Links \cup {None}]
    /\ head \in [Chains -> C!Links \cup {None}]
    /\ spare \in C!Links \cup {None}
    /\ links \in 0 .. MaxLinks
    /\ freeing \in FreeingRun \cup {None}
    /\ mine \in [Chains -> Seq(C!Links)]
    /\ freed \in Seq(C!Links)

\* The rows of links: those of the chains, and of the pool.
All == Chains \cup {None}

\* Where a row starts; of the chain that is freed, what is left of it.
Start(a) ==
    IF a = None THEN spare
    ELSE IF freeing # None /\ a = freeing.chain THEN freeing.iter
    ELSE head[a]

\* The links that were made lie in rows, each in one and once.
Rows(r) ==
    /\ r \in [All -> Seq(1 .. links)]
    /\ \A a \in All : Row(next, r[a], Start(a), None) /\ Once(r[a])
    /\ \A a, b \in All : a # b => Holds(r[a]) \cap Holds(r[b]) = {}
    /\ \A n \in 1 .. links : \E a \in All : n \in Holds(r[a])
    /\ r[None] = freed
    /\ \A c \in Chains : freeing = None \/ c # freeing.chain => r[c] = mine[c]
    /\ freeing # None => freeing.pos \in Holds(r[freeing.chain]) \cup {None}

Linked == ChainTypes /\ \E r : Rows(r)

LEMMA ChainAssumption ==
    /\ MaxLinks \in Nat /\ None \notin C!Links /\ None \notin Chains /\ None \notin FreeingRun
<1>1. MaxLinks \in Nat /\ None \notin Chains /\ None \notin Nat
  BY ContainersAssumption
<1>2. C!Links \subseteq Nat
  BY <1>1 DEF C!Links
<1>3. FreeingRun \subseteq [chain: Chains, iter: Nat \cup {None}, pos: Nat \cup {None}]
  BY <1>2 DEF FreeingRun
<1> QED
  BY <1>1, <1>2, <1>3, ContainersAssumption

\* A row that starts nowhere is empty, and only such a row.
LEMMA StartsNowhere ==
    ASSUME NEW s \in Seq(C!Links), NEW link, NEW n, Row(link, s, n, None)
    PROVE  /\ n = None <=> s = <<>>
           /\ n # None => n \in Holds(s) /\ n \in C!Links
<1>1. CASE s = <<>>
  <2>1. Len(s) = 0
    BY <1>1
  <2>2. At(s, 1, None) = None
    BY <2>1 DEF At
  <2> QED
    BY <1>1, <2>2 DEF Row
<1>2. CASE s # <<>>
  <2>1. 1 \in 1 .. Len(s)
    BY <1>2, EmptySeq
  <2>2. n = s[1] /\ s[1] \in C!Links
    BY <2>1 DEF At, Row
  <2> QED
    BY <1>2, <2>1, <2>2, ChainAssumption DEF Holds
<1> QED
  BY <1>1, <1>2

\* What follows from the rows, for each of them.
LEMMA RowsAre ==
    ASSUME ChainTypes, NEW r, Rows(r), NEW a \in All
    PROVE  /\ r[a] \in Seq(1 .. links) /\ r[a] \in Seq(C!Links)
           /\ Holds(r[a]) \subseteq 1 .. links /\ 1 .. links \subseteq C!Links
           /\ Row(next, r[a], Start(a), None) /\ Once(r[a])
           /\ Start(a) = None <=> r[a] = <<>>
           /\ Start(a) # None => Start(a) \in Holds(r[a])
<1>1. r[a] \in Seq(1 .. links) /\ Row(next, r[a], Start(a), None) /\ Once(r[a])
  BY DEF Rows
<1>2. links \in Nat /\ links <= MaxLinks /\ MaxLinks \in Nat
  BY ChainAssumption DEF ChainTypes
<1>3. 1 .. links \subseteq C!Links
  BY <1>2 DEF C!Links
<1>4. r[a] \in Seq(C!Links)
  BY <1>1, <1>3, SeqMonotonic
<1>5. Holds(r[a]) \subseteq 1 .. links
  <2> DEFINE S == 1 .. links
  <2>1. r[a] \in Seq(S)
    BY <1>1
  <2> HIDE DEF S
  <2>2. \A i \in 1 .. Len(r[a]) : r[a][i] \in S
    BY <2>1
  <2> QED
    BY <2>2 DEF Holds, S
<1>6. /\ Start(a) = None <=> r[a] = <<>>
      /\ Start(a) # None => Start(a) \in Holds(r[a])
  BY <1>1, <1>4, StartsNowhere
<1> QED
  BY <1>1, <1>3, <1>4, <1>5, <1>6

LEMMA ChainInit == C!Init => Linked
<1> SUFFICES ASSUME C!Init
             PROVE  Linked
  OBVIOUS
<1> DEFINE r == [a \in All |-> <<>>]
<1>1. ChainTypes
  BY ChainAssumption DEF C!Init, ChainTypes
<1>2. links = 0 /\ freeing = None /\ freed = <<>> /\ spare = None
      /\ \A c \in Chains : head[c] = None /\ mine[c] = <<>>
  BY DEF C!Init
<1>3. None \in All /\ Chains \subseteq All
  BY DEF All
<1>4. \A a \in All : r[a] = <<>> /\ Start(a) = None
  BY <1>2, <1>3 DEF Start, All
<1>5. r \in [All -> Seq(1 .. links)]
  OBVIOUS
<1> HIDE DEF r
<1>6. Rows(r)
  BY <1>2, <1>3, <1>4, <1>5, NothingIs DEF Rows
<1> QED
  BY <1>1, <1>6 DEF Linked

\* A new chain is the front of the pool's row, or a link that was in no row.
LEMMA ChainMade ==
    ASSUME Linked, NEW c \in Chains, C!chain(c)
    PROVE  Linked'
<1>1. ChainTypes /\ \E r : Rows(r)
  BY DEF Linked
<1>2. PICK r : Rows(r)
  BY <1>1
<1>3. freeing = None /\ head[c] = None /\ freeing' = freeing
  BY DEF C!chain
<1>4. PICK n \in C!Links :
         /\ C!alloc(n)
         /\ next' = [next EXCEPT ![n] = None]
         /\ head' = [head EXCEPT ![c] = n]
         /\ mine' = [mine EXCEPT ![c] = <<n>>]
  BY DEF C!chain
<1>5. c \in All /\ None \in All /\ c # None /\ Chains \subseteq All
  BY ChainAssumption DEF All
<1>6. r[c] = <<>> /\ Start(c) = None
  BY <1>1, <1>2, <1>3, <1>5, RowsAre DEF Start
<1>7. \E t \in Seq(1 .. links') :
         /\ Once(t) /\ Row(next, t, spare', None) /\ n \notin Holds(t) /\ freed' = t
         /\ Holds(t) \cup {n} = Holds(r[None]) \cup {n}
         /\ \A a \in All \ {None} : n \notin Holds(r[a])
         /\ 1 .. links' = (1 .. links) \cup {n}
         /\ spare' \in C!Links \cup {None} /\ links' \in 0 .. MaxLinks
  <2>1. freed = r[None] /\ Start(None) = spare
    BY <1>2 DEF Rows, Start
  <2>2. CASE spare # None
    <3>1. n = spare /\ spare' = next[n] /\ freed' = Tail(freed) /\ links' = links
      BY <1>4, <2>2 DEF C!alloc
    <3>2. /\ r[None] \in Seq(1 .. links) /\ r[None] # <<>> /\ Once(r[None])
          /\ Row(next, r[None], n, None) /\ n \in Holds(r[None]) /\ Holds(r[None]) \subseteq 1 .. links
      BY <1>1, <1>2, <1>5, <2>1, <2>2, <3>1, RowsAre
    <3> DEFINE S == 1 .. links
               t == Tail(r[None])
    <3> HIDE DEF S
    <3>3. r[None] \in Seq(S)
      BY <3>2 DEF S
    <3>4. n = r[None][1] /\ Row(next, t, next[n], None)
      BY <3>2, <3>3, RowTail
    <3>5. t \in Seq(S) /\ Once(t) /\ Holds(t) = Holds(r[None]) \ {n}
      BY <3>2, <3>3, <3>4, TailIs
    <3>6. \A a \in All \ {None} : n \notin Holds(r[a])
      BY <1>2, <1>5, <3>2 DEF Rows
    <3>7. spare' \in C!Links \cup {None} /\ links' \in 0 .. MaxLinks
      BY <1>1, <3>1 DEF ChainTypes
    <3>8. n \in S /\ t \in Seq(1 .. links')
      BY <3>1, <3>2, <3>5 DEF S
    <3> HIDE DEF t
    <3>9. 1 .. links' = (1 .. links) \cup {n} /\ freed' = t
      BY <2>1, <3>1, <3>8 DEF S, t
    <3> QED
      BY <3>1, <3>2, <3>4, <3>5, <3>6, <3>7, <3>8, <3>9
  <2>3. CASE spare = None
    <3>1. n = links + 1 /\ links < MaxLinks /\ links' = n /\ spare' = spare /\ freed' = freed
      BY <1>4, <2>3 DEF C!alloc
    <3>2. links \in Nat /\ MaxLinks \in Nat
      BY <1>1, ChainAssumption DEF ChainTypes
    <3>3. 1 .. links' = (1 .. links) \cup {n} /\ links' \in 0 .. MaxLinks /\ n \notin 1 .. links
      BY <3>1, <3>2
    <3>4. /\ r[None] = <<>> /\ Once(r[None]) /\ Row(next, r[None], None, None)
      BY <1>1, <1>2, <1>5, <2>1, <2>3, RowsAre
    <3>5. r[None] \in Seq(1 .. links')
      BY <3>4
    <3>6. \A a \in All : n \notin Holds(r[a])
      <4>1. ASSUME NEW a \in All
            PROVE  Holds(r[a]) \subseteq 1 .. links
        BY <1>1, <1>2, RowsAre
      <4> QED
        BY <3>3, <4>1
    <3> QED
      BY <1>1, <1>5, <2>1, <2>3, <3>1, <3>3, <3>4, <3>5, <3>6
  <2> QED
    BY <2>2, <2>3
<1>8. PICK t \in Seq(1 .. links') :
         /\ Once(t) /\ Row(next, t, spare', None) /\ n \notin Holds(t) /\ freed' = t
         /\ Holds(t) \cup {n} = Holds(r[None]) \cup {n}
         /\ \A a \in All \ {None} : n \notin Holds(r[a])
         /\ 1 .. links' = (1 .. links) \cup {n}
         /\ spare' \in C!Links \cup {None} /\ links' \in 0 .. MaxLinks
  BY <1>7
<1> DEFINE S == 1 .. links'
           q == [r EXCEPT ![None] = t, ![c] = <<n>>]
<1>9. n \in S /\ 1 .. links \subseteq S /\ t \in Seq(S) /\ S = 1 .. links'
  BY <1>8
<1> HIDE DEF S
<1>10. S \subseteq C!Links
  BY <1>8, ChainAssumption DEF C!Links, S
<1>11. <<n>> \in Seq(S) /\ Holds(<<n>>) = {n} /\ Once(<<n>>)
  BY <1>9, OneIs
<1>12. \A a \in All : r[a] \in Seq(S)
  <2> TAKE a \in All
  <2>1. r[a] \in Seq(1 .. links)
    BY <1>1, <1>2, RowsAre
  <2> QED
    BY <1>9, <2>1, SeqMonotonic
<1>13. /\ q \in [All -> Seq(S)] /\ q[None] = t /\ q[c] = <<n>>
       /\ \A a \in All \ {None, c} : q[a] = r[a]
  BY <1>2, <1>5, <1>9, <1>11, <1>12 DEF Rows
<1> HIDE DEF q
<1>14. ChainTypes'
  <2>1. next' \in [C!Links -> C!Links \cup {None}] /\ head' \in [Chains -> C!Links \cup {None}]
    BY <1>1, <1>4 DEF ChainTypes
  <2>2. <<n>> \in Seq(C!Links) /\ t \in Seq(C!Links)
    BY <1>9, <1>10, <1>11, SeqMonotonic
  <2>3. mine' \in [Chains -> Seq(C!Links)]
    BY <1>1, <1>4, <2>2 DEF ChainTypes
  <2> QED
    BY <1>1, <1>3, <1>8, <2>1, <2>2, <2>3 DEF ChainTypes
<1>15. ASSUME NEW a \in All
       PROVE  Row(next', q[a], Start(a)', None) /\ Once(q[a])
  <2>1. CASE a = None
    <3>1. \A x \in Holds(t) : next'[x] = next[x]
      <4>1. Holds(t) \subseteq C!Links
        BY <1>9, <1>10, HoldsIn
      <4> QED
        BY <1>1, <1>4, <1>8, <4>1 DEF ChainTypes
    <3>2. Row(next', t, spare', None)
      BY <1>8, <3>1, RowKept
    <3> QED
      BY <1>8, <1>13, <2>1, <3>2 DEF Start
  <2>2. CASE a = c
    <3>1. next'[n] = None
      BY <1>1, <1>4 DEF ChainTypes
    <3>2. Row(next', <<n>>, n, None)
      BY <1>9, <3>1, OneIs
    <3>3. Start(a)' = n
      BY <1>1, <1>3, <1>4, <1>5, <2>2 DEF Start, ChainTypes
    <3> QED
      BY <1>11, <1>13, <2>2, <3>2, <3>3
  <2>3. CASE a \notin {None, c}
    <3>1. Holds(r[a]) \subseteq C!Links /\ Row(next, r[a], Start(a), None) /\ Once(r[a])
      BY <1>1, <1>2, RowsAre
    <3>2. \A x \in Holds(r[a]) : next'[x] = next[x]
      BY <1>1, <1>4, <1>8, <2>3, <3>1 DEF ChainTypes
    <3>3. Row(next', r[a], Start(a), None)
      BY <3>1, <3>2, RowKept
    <3>4. Start(a)' = Start(a)
      BY <1>1, <1>3, <1>4, <1>5, <2>3 DEF Start, ChainTypes, All
    <3> QED
      BY <1>13, <2>3, <3>1, <3>3, <3>4
  <2> QED
    BY <2>1, <2>2, <2>3
<1>16. ASSUME NEW a \in All, NEW b \in All, a # b
       PROVE  Holds(q[a]) \cap Holds(q[b]) = {}
  <2>1. \A d \in All \ {None} : Holds(r[None]) \cap Holds(r[d]) = {} /\ n \notin Holds(r[d])
    BY <1>2, <1>5, <1>8 DEF Rows
  <2>2. \A d \in All \ {None} : Holds(t) \cap Holds(r[d]) = {}
    BY <1>8, <2>1
  <2>3. Holds(r[a]) \cap Holds(r[b]) = {}
    BY <1>2, <1>16 DEF Rows
  <2> QED
    BY <1>8, <1>11, <1>13, <1>16, <2>1, <2>2, <2>3
<1>17. ASSUME NEW m \in S
       PROVE  \E a \in All : m \in Holds(q[a])
  <2>1. CASE m = n
    BY <1>5, <1>11, <1>13, <2>1
  <2>2. CASE m # n
    <3>1. m \in 1 .. links
      BY <1>8, <1>9, <2>2
    <3>2. PICK a \in All : m \in Holds(r[a])
      BY <1>2, <3>1 DEF Rows
    <3>3. a # c
      BY <1>6, <3>2, NothingIs
    <3>4. CASE a = None
      BY <1>5, <1>8, <1>13, <2>2, <3>2, <3>4
    <3> QED
      BY <1>13, <3>2, <3>3, <3>4
  <2> QED
    BY <2>1, <2>2
<1>18. \A d \in Chains : q[d] = mine'[d]
  <2> TAKE d \in Chains
  <2>1. r[d] = mine[d] /\ d # None
    BY <1>2, <1>3, ChainAssumption DEF Rows
  <2> QED
    BY <1>1, <1>4, <1>5, <1>13, <2>1 DEF ChainTypes
<1>19. Rows(q)'
  BY <1>3, <1>8, <1>9, <1>13, <1>15, <1>16, <1>17, <1>18 DEF Rows
<1> QED
  BY <1>14, <1>19 DEF Linked

\* Following the links of a chain, or of the pool, gives its row.
Walked(link) ==
    CHOOSE f : Follows(f, link, {None}, C!Links \cup {None}, MaxLinks + 1)

LEMMA FromWalked ==
    ASSUME NEW n
    PROVE  C!From(n) = Walked(next)[Pair(MaxLinks + 1, n)]
BY DEF C!From, C!Walk, Walked, Follows, Unroll, Pair, Before

LEMMA WalkedRow ==
    ASSUME NEW link \in [C!Links -> C!Links \cup {None}],
           NEW s \in Seq(C!Links), Once(s), NEW n, Row(link, s, n, None)
    PROVE  Walked(link)[Pair(MaxLinks + 1, n)] = s
<1> DEFINE K == C!Links \cup {None}
           N == MaxLinks + 1
<1>1. MaxLinks \in Nat /\ N \in Nat
  BY ChainAssumption
<1>2. \A c \in K \ {None} : link[c] \in K
  OBVIOUS
<1>3. Len(s) <= N
  <2>1. Len(s) <= MaxLinks
    BY <1>1, OnceShort DEF C!Links
  <2> QED
    BY <1>1, <2>1
<1>4. s \in Seq(K \ {None})
  <2>1. C!Links \subseteq K \ {None}
    BY ChainAssumption
  <2> QED
    BY <2>1, SeqMonotonic
<1> HIDE DEF K, N
<1>5. \E f : Follows(f, link, {None}, K, N)
  BY <1>1, <1>2, UnrollExists
<1>6. Follows(Walked(link), link, {None}, K, N)
  BY <1>5 DEF Walked, K, N
<1>7. None \in {None} \cap K
  BY DEF K
<1> DEFINE f == Walked(link)
<1> HIDE DEF f
<1>8. f[Pair(N, n)] = s
  BY <1>1, <1>3, <1>4, <1>6, <1>7, FollowsRow DEF f
<1> QED
  BY <1>8 DEF f, N

LEMMA RowsFrom ==
    ASSUME ChainTypes, NEW r, Rows(r), NEW a \in All
    PROVE  C!From(Start(a)) = r[a]
<1>1. r[a] \in Seq(C!Links) /\ Row(next, r[a], Start(a), None) /\ Once(r[a])
  BY RowsAre
<1>2. next \in [C!Links -> C!Links \cup {None}]
  BY DEF ChainTypes
<1>3. Walked(next)[Pair(MaxLinks + 1, Start(a))] = r[a]
  BY <1>1, <1>2, WalkedRow
<1> QED
  BY <1>3, FromWalked

\* The rows of two chains become one, and the second chain is left without.
LEMMA ChainAppended ==
    ASSUME Linked, NEW c \in Chains, NEW d \in Chains, C!append(c, d)
    PROVE  Linked'
<1>1. ChainTypes
  BY DEF Linked
<1>2. PICK r : Rows(r)
  BY DEF Linked
<1>3. /\ freeing = None /\ c # d /\ head[c] # None
      /\ next' = [next EXCEPT ![C!tail(c)] = head[d]]
      /\ head' = [head EXCEPT ![d] = None]
      /\ mine' = [mine EXCEPT ![c] = mine[c] \o mine[d], ![d] = <<>>]
      /\ spare' = spare /\ links' = links /\ freeing' = freeing /\ freed' = freed
  BY <1>1 DEF C!append, ChainTypes
<1>4. c \in All /\ d \in All /\ None \in All /\ c # None /\ d # None /\ Chains \subseteq All
  BY ChainAssumption DEF All
<1>5. Start(c) = head[c] /\ Start(d) = head[d] /\ r[c] = mine[c] /\ r[d] = mine[d]
  BY <1>2, <1>3, <1>4 DEF Start, Rows
<1> DEFINE S == 1 .. links
           z == r[c][Len(r[c])]
           u == r[c] \o r[d]
           q == [r EXCEPT ![c] = u, ![d] = <<>>]
<1>6. S = 1 .. links /\ S \subseteq C!Links /\ 1 .. links' = S
  <2>1. 1 .. links \subseteq C!Links
    BY <1>1, <1>2, <1>4, RowsAre
  <2> QED
    BY <1>3, <2>1
<1> HIDE DEF S
<1>7. /\ r[c] \in Seq(S) /\ Once(r[c]) /\ Row(next, r[c], head[c], None) /\ r[c] # <<>>
      /\ r[d] \in Seq(S) /\ Once(r[d]) /\ Row(next, r[d], head[d], None)
      /\ Holds(r[c]) \cap Holds(r[d]) = {}
  <2>1. /\ r[c] \in Seq(1 .. links) /\ Once(r[c]) /\ Row(next, r[c], Start(c), None) /\ r[c] # <<>>
    BY <1>1, <1>2, <1>3, <1>4, <1>5, RowsAre
  <2>2. r[d] \in Seq(1 .. links) /\ Once(r[d]) /\ Row(next, r[d], Start(d), None)
    BY <1>1, <1>2, <1>4, RowsAre
  <2>3. Holds(r[c]) \cap Holds(r[d]) = {}
    BY <1>2, <1>3, <1>4 DEF Rows
  <2> QED
    BY <1>5, <1>6, <2>1, <2>2, <2>3
<1>8. z \in Holds(r[c]) /\ z \in S
  <2>1. Len(r[c]) \in 1 .. Len(r[c])
    BY <1>7, EmptySeq
  <2> QED
    BY <1>7, <2>1, HoldsIn DEF Holds
<1>9. C!tail(c) = z
  <2>1. C!From(head[c]) = r[c]
    BY <1>1, <1>2, <1>4, <1>5, RowsFrom
  <2> QED
    BY <2>1 DEF C!tail
<1>10. u \in Seq(S) /\ Holds(u) = Holds(r[c]) \cup Holds(r[d]) /\ Once(u)
  BY <1>7, JoinIs
<1> HIDE DEF z, u
<1>11. next'[z] = head[d] /\ \A x \in C!Links \ {z} : next'[x] = next[x]
  BY <1>1, <1>3, <1>6, <1>8, <1>9 DEF ChainTypes
<1>12. Row(next', u, head[c], None)
  <2>1. \A x \in (Holds(r[c]) \cup Holds(r[d])) \ {z} : next'[x] = next[x]
    <3>1. Holds(r[c]) \subseteq S /\ Holds(r[d]) \subseteq S
      BY <1>7, HoldsIn
    <3> QED
      BY <1>6, <1>11, <3>1
  <2> DEFINE to == next'
             m == head[d]
             n == head[c]
  <2>2. to[r[c][Len(r[c])]] = m
    BY <1>11 DEF z
  <2>3. \A x \in (Holds(r[c]) \cup Holds(r[d])) \ {r[c][Len(r[c])]} : to[x] = next[x]
    BY <2>1 DEF z
  <2>4. Row(next, r[c], n, None) /\ Row(next, r[d], m, None)
    BY <1>7
  <2> HIDE DEF to, m, n
  <2>5. Row(to, r[c] \o r[d], n, None)
    BY <1>7, <2>2, <2>3, <2>4, RowJoin
  <2> QED
    BY <2>5 DEF to, n, u
<1>13. r \in [All -> Seq(S)]
  BY <1>2, <1>6 DEF Rows
<1>14. <<>> \in Seq(S)
  OBVIOUS
<1>15. /\ q \in [All -> Seq(S)] /\ q[c] = u /\ q[d] = <<>>
       /\ \A a \in All \ {c, d} : q[a] = r[a]
  BY <1>3, <1>4, <1>10, <1>13, <1>14
<1> HIDE DEF q
<1>16. ChainTypes'
  <2>1. next' \in [C!Links -> C!Links \cup {None}] /\ head' \in [Chains -> C!Links \cup {None}]
    BY <1>1, <1>3 DEF ChainTypes
  <2>2. u \in Seq(C!Links)
    BY <1>6, <1>10, SeqMonotonic
  <2>4. <<>> \in Seq(C!Links)
    OBVIOUS
  <2>3. mine' \in [Chains -> Seq(C!Links)]
    <3>1. mine' = [mine EXCEPT ![c] = u, ![d] = <<>>]
      BY <1>3, <1>5 DEF u
    <3> QED
      BY <1>1, <2>2, <2>4, <3>1 DEF ChainTypes
  <2> QED
    BY <1>1, <1>3, <2>1, <2>3 DEF ChainTypes
<1>17. ASSUME NEW a \in All
       PROVE  Row(next', q[a], Start(a)', None) /\ Once(q[a])
  <2>1. CASE a = c
    <3>1. Start(a)' = head[c]
      BY <1>1, <1>3, <1>4, <2>1 DEF Start, ChainTypes
    <3> QED
      BY <1>10, <1>12, <1>15, <2>1, <3>1
  <2>2. CASE a = d
    <3>1. Start(a)' = None
      BY <1>1, <1>3, <1>4, <2>2 DEF Start, ChainTypes
    <3>2. Row(next', <<>>, None, None)
      BY NothingIs
    <3> QED
      BY <1>15, <2>2, <3>1, <3>2, NothingIs
  <2>3. CASE a \notin {c, d}
    <3>1. Holds(r[a]) \subseteq C!Links /\ Row(next, r[a], Start(a), None) /\ Once(r[a])
      BY <1>1, <1>2, RowsAre
    <3>2. z \notin Holds(r[a])
      BY <1>2, <1>4, <1>8, <2>3 DEF Rows
    <3>3. \A x \in Holds(r[a]) : next'[x] = next[x]
      BY <1>11, <3>1, <3>2
    <3>4. Row(next', r[a], Start(a), None)
      BY <3>1, <3>3, RowKept
    <3>5. Start(a)' = Start(a)
      BY <1>1, <1>3, <1>4, <2>3 DEF Start, ChainTypes, All
    <3> QED
      BY <1>15, <2>3, <3>1, <3>4, <3>5
  <2> QED
    BY <2>1, <2>2, <2>3
<1>18. ASSUME NEW a \in All, NEW b \in All, a # b
       PROVE  Holds(q[a]) \cap Holds(q[b]) = {}
  <2>1. \A e \in All \ {c, d} : Holds(r[e]) \cap Holds(u) = {}
    BY <1>2, <1>4, <1>10 DEF Rows
  <2>2. Holds(r[a]) \cap Holds(r[b]) = {}
    BY <1>2, <1>18 DEF Rows
  <2>3. Holds(q[d]) = {}
    BY <1>15, NothingIs
  <2> QED
    BY <1>15, <1>18, <2>1, <2>2, <2>3
<1>19. ASSUME NEW m \in S
       PROVE  \E a \in All : m \in Holds(q[a])
  <2>1. PICK a \in All : m \in Holds(r[a])
    BY <1>2, <1>6 DEF Rows
  <2>2. CASE a \in {c, d}
    BY <1>4, <1>10, <1>15, <2>1, <2>2
  <2> QED
    BY <1>15, <2>1, <2>2
<1>20. \A e \in Chains : q[e] = mine'[e]
  <2> TAKE e \in Chains
  <2>1. r[e] = mine[e]
    BY <1>2, <1>3 DEF Rows
  <2>2. mine' = [mine EXCEPT ![c] = u, ![d] = <<>>]
    BY <1>3, <1>5 DEF u
  <2> QED
    BY <1>1, <1>3, <1>4, <1>15, <2>1, <2>2 DEF ChainTypes
<1>21. q[None] = freed'
  BY <1>2, <1>3, <1>4, <1>15 DEF Rows
<1>22. Rows(q)'
  BY <1>3, <1>6, <1>15, <1>17, <1>18, <1>19, <1>20, <1>21 DEF Rows
<1> QED
  BY <1>16, <1>22 DEF Linked

\* From then on the chain's row is what is left of it.
LEMMA ChainFree ==
    ASSUME Linked, NEW c \in Chains, NEW pos \in C!Links \cup {None}, C!free(c, pos)
    PROVE  Linked'
<1>1. ChainTypes
  BY DEF Linked
<1>2. PICK r : Rows(r)
  BY DEF Linked
<1>3. /\ freeing = None /\ head[c] # None
      /\ pos = None \/ \E i \in DOMAIN mine[c] : mine[c][i] = pos
      /\ freeing' = [chain |-> c, iter |-> head[c], pos |-> pos]
      /\ next' = next /\ head' = head /\ spare' = spare /\ links' = links
      /\ mine' = mine /\ freed' = freed
  BY DEF C!free
<1>4. freeing' # None /\ freeing' \in FreeingRun /\ freeing'.chain = c
      /\ freeing'.iter = head[c] /\ freeing'.pos = pos
  <2>1. freeing' \in FreeingRun
    BY <1>1, <1>3 DEF FreeingRun, ChainTypes
  <2> QED
    BY <1>3, <2>1, ChainAssumption
<1>5. ChainTypes'
  BY <1>1, <1>3, <1>4 DEF ChainTypes
<1>6. \A a \in All : Start(a)' = Start(a)
  BY <1>3, <1>4 DEF Start
<1>7. pos \in Holds(r[c]) \cup {None}
  <2>1. r[c] = mine[c] /\ mine[c] \in Seq(C!Links)
    BY <1>1, <1>2, <1>3 DEF Rows, ChainTypes
  <2>2. DOMAIN mine[c] = 1 .. Len(mine[c])
    BY <2>1
  <2> QED
    BY <1>3, <2>1, <2>2 DEF Holds
<1>8. Rows(r)'
  BY <1>2, <1>3, <1>4, <1>6, <1>7 DEF Rows
<1> QED
  BY <1>5, <1>8 DEF Linked

\* A link that is given back goes to the front of the pool's row.
LEMMA ChainGivesBack ==
    ASSUME Linked, C!frees, freeing.iter \notin {None, freeing.pos}
    PROVE  Linked'
<1>1. ChainTypes
  BY DEF Linked
<1>2. PICK r : Rows(r)
  BY DEF Linked
<1>0. PICK cur, c : cur = freeing.iter /\ c = freeing.chain
  OBVIOUS
<1> DEFINE S == 1 .. links
           t == Tail(r[c])
           f == Before(cur, r[None])
           q == [r EXCEPT ![c] = t, ![None] = f]
<1>3. /\ freeing # None
      /\ freeing' = [freeing EXCEPT !.iter = next[cur]]
      /\ next' = [next EXCEPT ![cur] = spare]
      /\ spare' = cur /\ freed' = <<cur>> \o freed
      /\ head' = head /\ links' = links /\ mine' = mine
      /\ cur # None /\ cur # freeing.pos
  BY <1>0 DEF C!frees, C!giveBack
<1>4. freeing \in FreeingRun /\ c \in Chains /\ cur \in C!Links
  BY <1>0, <1>1, <1>3 DEF ChainTypes, FreeingRun
<1>5. /\ freeing' \in FreeingRun /\ freeing' # None
      /\ freeing'.chain = c /\ freeing'.iter = next[cur] /\ freeing'.pos = freeing.pos
  <2>1. next[cur] \in C!Links \cup {None}
    BY <1>1, <1>4 DEF ChainTypes
  <2>2. freeing' \in FreeingRun /\ freeing'.chain = c /\ freeing'.iter = next[cur]
        /\ freeing'.pos = freeing.pos
    BY <1>0, <1>3, <1>4, <2>1 DEF FreeingRun
  <2> QED
    BY <2>2, ChainAssumption
<1>6. c \in All /\ None \in All /\ c # None /\ Chains \subseteq All
  BY <1>4, ChainAssumption DEF All
<1>7. Start(c) = cur /\ Start(None) = spare /\ r[None] = freed
  BY <1>0, <1>2, <1>3, <1>6 DEF Start, Rows
<1>8. S = 1 .. links /\ S \subseteq C!Links /\ 1 .. links' = S
  <2>1. 1 .. links \subseteq C!Links
    BY <1>1, <1>2, <1>6, RowsAre
  <2> QED
    BY <1>3, <2>1
<1> HIDE DEF S
<1>9. /\ r[c] \in Seq(S) /\ Once(r[c]) /\ Row(next, r[c], cur, None) /\ r[c] # <<>>
      /\ r[None] \in Seq(S) /\ Once(r[None]) /\ Row(next, r[None], spare, None)
      /\ Holds(r[c]) \cap Holds(r[None]) = {} /\ Holds(r[c]) \subseteq S
  <2>1. /\ r[c] \in Seq(1 .. links) /\ Once(r[c]) /\ Row(next, r[c], Start(c), None)
        /\ r[c] # <<>> /\ Holds(r[c]) \subseteq 1 .. links
    BY <1>1, <1>2, <1>3, <1>6, <1>7, RowsAre
  <2>2. r[None] \in Seq(1 .. links) /\ Once(r[None]) /\ Row(next, r[None], Start(None), None)
    BY <1>1, <1>2, <1>6, RowsAre
  <2>3. Holds(r[c]) \cap Holds(r[None]) = {}
    BY <1>2, <1>6 DEF Rows
  <2> QED
    BY <1>7, <1>8, <2>1, <2>2, <2>3
<1>10. cur = r[c][1] /\ Row(next, t, next[cur], None)
  BY <1>9, RowTail
<1>11. t \in Seq(S) /\ Once(t) /\ Holds(t) = Holds(r[c]) \ {cur} /\ cur \in Holds(r[c])
  BY <1>9, <1>10, TailIs
<1>12. cur \in S /\ cur \notin Holds(r[None])
  BY <1>9, <1>11
<1>13. f \in Seq(S) /\ Once(f) /\ Holds(f) = Holds(r[None]) \cup {cur}
  BY <1>9, <1>12, PutBefore
<1>14. next'[cur] = spare /\ \A x \in C!Links \ {cur} : next'[x] = next[x]
  BY <1>1, <1>3, <1>4 DEF ChainTypes
<1> HIDE DEF t
<1>15. Row(next', f, cur, None)
  <2>1. \A x \in Holds(r[None]) : next'[x] = next[x]
    <3>1. Holds(r[None]) \subseteq S
      BY <1>9, HoldsIn
    <3> QED
      BY <1>8, <1>12, <1>14, <3>1
  <2>2. Row(next', r[None], spare, None)
    BY <1>9, <2>1, RowKept
  <2> QED
    BY <1>9, <1>12, <1>14, <2>2, RowBefore
<1>16. freed' = f
  BY <1>3, <1>7 DEF Before
<1> HIDE DEF f
<1>17. r \in [All -> Seq(S)]
  BY <1>2, <1>8 DEF Rows
<1>18. /\ q \in [All -> Seq(S)] /\ q[c] = t /\ q[None] = f
       /\ \A a \in All \ {c, None} : q[a] = r[a]
  BY <1>6, <1>11, <1>13, <1>17
<1> HIDE DEF q
<1>19. ChainTypes'
  <2>1. next' \in [C!Links -> C!Links \cup {None}] /\ spare' \in C!Links
    BY <1>1, <1>3, <1>4 DEF ChainTypes
  <2>2. f \in Seq(C!Links)
    BY <1>8, <1>13, SeqMonotonic
  <2> QED
    BY <1>1, <1>3, <1>5, <1>16, <2>1, <2>2 DEF ChainTypes
<1>20. ASSUME NEW a \in All
       PROVE  Row(next', q[a], Start(a)', None) /\ Once(q[a])
  <2>1. CASE a = c
    <3>1. \A x \in Holds(t) : next'[x] = next[x]
      BY <1>8, <1>9, <1>11, <1>14
    <3>2. Row(next', t, next[cur], None)
      BY <1>10, <3>1, RowKept
    <3>3. Start(a)' = next[cur]
      BY <1>5, <1>6, <2>1 DEF Start
    <3> QED
      BY <1>11, <1>18, <2>1, <3>2, <3>3
  <2>2. CASE a = None
    <3>1. Start(a)' = cur
      BY <1>3, <2>2 DEF Start
    <3> QED
      BY <1>13, <1>15, <1>18, <2>2, <3>1
  <2>3. CASE a \notin {c, None}
    <3>1. Holds(r[a]) \subseteq C!Links /\ Row(next, r[a], Start(a), None) /\ Once(r[a])
      BY <1>1, <1>2, RowsAre
    <3>2. cur \notin Holds(r[a])
      BY <1>2, <1>6, <1>11, <2>3 DEF Rows
    <3>3. \A x \in Holds(r[a]) : next'[x] = next[x]
      BY <1>14, <3>1, <3>2
    <3>4. Row(next', r[a], Start(a), None)
      BY <3>1, <3>3, RowKept
    <3>5. Start(a)' = Start(a)
      BY <1>0, <1>3, <1>5, <2>3 DEF Start
    <3> QED
      BY <1>18, <2>3, <3>1, <3>4, <3>5
  <2> QED
    BY <2>1, <2>2, <2>3
<1>21. ASSUME NEW a \in All, NEW b \in All, a # b
       PROVE  Holds(q[a]) \cap Holds(q[b]) = {}
  <2>1. \A e \in All \ {c} : Holds(r[c]) \cap Holds(r[e]) = {}
    BY <1>2, <1>6 DEF Rows
  <2>2. \A e \in All \ {None} : Holds(r[None]) \cap Holds(r[e]) = {}
    BY <1>2, <1>6 DEF Rows
  <2>3. Holds(r[a]) \cap Holds(r[b]) = {}
    BY <1>2, <1>21 DEF Rows
  <2>4. \A e \in All \ {c, None} : Holds(f) \cap Holds(r[e]) = {} /\ Holds(t) \cap Holds(r[e]) = {}
    BY <1>11, <1>13, <2>1, <2>2
  <2>5. Holds(f) \cap Holds(t) = {}
    BY <1>9, <1>11, <1>13
  <2>6. CASE a = c
    BY <1>18, <1>21, <2>4, <2>5, <2>6
  <2>7. CASE a = None
    BY <1>18, <1>21, <2>4, <2>5, <2>7
  <2>8. CASE a \notin {c, None}
    <3>1. q[a] = r[a]
      BY <1>18, <1>21, <2>8
    <3>2. CASE b \in {c, None}
      BY <1>18, <2>4, <2>8, <3>1, <3>2
    <3>3. CASE b \notin {c, None}
      <4>1. q[b] = r[b]
        BY <1>18, <1>21, <3>3
      <4> QED
        BY <2>3, <3>1, <4>1
    <3> QED
      BY <3>2, <3>3
  <2> QED
    BY <2>6, <2>7, <2>8
<1>22. ASSUME NEW m \in S
       PROVE  \E a \in All : m \in Holds(q[a])
  <2>1. PICK a \in All : m \in Holds(r[a])
    BY <1>2, <1>8 DEF Rows
  <2>2. CASE a = c
    BY <1>6, <1>11, <1>13, <1>18, <2>1, <2>2
  <2>3. CASE a = None
    BY <1>6, <1>13, <1>18, <2>1, <2>3
  <2>4. CASE a \notin {c, None}
    BY <1>18, <2>1, <2>4
  <2> QED
    BY <2>2, <2>3, <2>4
<1>23. \A e \in Chains : e # c => q[e] = mine'[e]
  <2> TAKE e \in Chains
  <2>1. e # None
    BY ChainAssumption
  <2>2. e # c => r[e] = mine[e]
    BY <1>0, <1>2 DEF Rows
  <2> QED
    BY <1>3, <1>6, <1>18, <2>1, <2>2
<1>24. freeing.pos \in Holds(t) \cup {None}
  <2>1. freeing.pos \in Holds(r[c]) \cup {None}
    BY <1>0, <1>2, <1>3 DEF Rows
  <2> QED
    BY <1>3, <1>11, <2>1
<1>25. Rows(q)'
  <2>1. q \in [All -> Seq(1 .. links')] /\ q[None] = freed'
    BY <1>8, <1>16, <1>18
  <2>2. \A n \in 1 .. links' : \E a \in All : n \in Holds(q[a])
    BY <1>8, <1>22
  <2>3. \A e \in Chains : freeing' = None \/ e # freeing'.chain => q[e] = mine'[e]
    BY <1>5, <1>23
  <2>4. freeing'.pos \in Holds(q[freeing'.chain]) \cup {None}
    BY <1>5, <1>18, <1>24
  <2>5. \A a \in All : Row(next', q[a], Start(a)', None) /\ Once(q[a])
    BY <1>20
  <2>6. \A a, b \in All : a # b => Holds(q[a]) \cap Holds(q[b]) = {}
    BY <1>21
  <2> QED
    BY <2>1, <2>2, <2>3, <2>4, <2>5, <2>6 DEF Rows
<1> QED
  BY <1>19, <1>25 DEF Linked

\* Where it ends, the chain starts from then on.
LEMMA ChainFreed ==
    ASSUME Linked, C!frees, freeing.iter \in {None, freeing.pos}
    PROVE  Linked'
<1>1. ChainTypes
  BY DEF Linked
<1>2. PICK r : Rows(r)
  BY DEF Linked
<1> DEFINE c == freeing.chain
<1>3. /\ freeing # None /\ freeing' = None
      /\ head' = [head EXCEPT ![c] = freeing.pos]
      /\ mine' = [mine EXCEPT ![c] = C!From(freeing.pos)]
      /\ next' = next /\ spare' = spare /\ links' = links /\ freed' = freed
  BY DEF C!frees
<1>4. c \in Chains /\ freeing.pos \in C!Links \cup {None}
  BY <1>1, <1>3 DEF ChainTypes, FreeingRun
<1>5. c \in All /\ None \in All /\ c # None
  BY <1>4, ChainAssumption DEF All
<1>6. Start(c) = freeing.iter
  BY <1>3, <1>5 DEF Start
<1>7. freeing.iter = freeing.pos
  <2>1. CASE freeing.iter = None
    <3>1. r[c] = <<>>
      BY <1>1, <1>2, <1>5, <1>6, <2>1, RowsAre
    <3>2. freeing.pos \in Holds(r[c]) \cup {None}
      BY <1>2, <1>3 DEF Rows
    <3> QED
      BY <2>1, <3>1, <3>2, NothingIs
  <2> QED
    BY <2>1
<1>8. C!From(freeing.pos) = r[c] /\ r[c] \in Seq(C!Links)
  BY <1>1, <1>2, <1>5, <1>6, <1>7, RowsFrom, RowsAre
<1>9. ChainTypes'
  BY <1>1, <1>3, <1>4, <1>8 DEF ChainTypes
<1>10. ASSUME NEW a \in All
       PROVE  Start(a)' = Start(a)
  <2>1. CASE a = None
    BY <1>3, <2>1 DEF Start
  <2>2. CASE a = c
    BY <1>1, <1>3, <1>4, <1>5, <1>6, <1>7, <2>2 DEF Start, ChainTypes
  <2>3. CASE a \notin {None, c}
    BY <1>1, <1>3, <1>4, <2>3 DEF Start, ChainTypes, All
  <2> QED
    BY <2>1, <2>2, <2>3
<1>11. \A d \in Chains : r[d] = mine'[d]
  <2> TAKE d \in Chains
  <2>1. CASE d = c
    BY <1>1, <1>3, <1>8, <2>1 DEF ChainTypes
  <2>2. CASE d # c
    BY <1>1, <1>2, <1>3, <2>2 DEF ChainTypes, Rows
  <2> QED
    BY <2>1, <2>2
<1> HIDE DEF c
<1>12. Rows(r)'
  BY <1>2, <1>3, <1>10, <1>11 DEF Rows
<1> QED
  BY <1>9, <1>12 DEF Linked

LEMMA ChainNext ==
    ASSUME Linked, [C!Next]_cvars
    PROVE  Linked'
<1>1. CASE C!Next
  <2>1. ASSUME NEW c \in Chains, C!chain(c)
        PROVE  Linked'
    BY <2>1, ChainMade
  <2>2. ASSUME NEW c \in Chains, NEW d \in Chains, C!append(c, d)
        PROVE  Linked'
    BY <2>2, ChainAppended
  <2>3. ASSUME NEW c \in Chains, NEW pos \in C!Links \cup {None}, C!free(c, pos)
        PROVE  Linked'
    BY <2>3, ChainFree
  <2>4. CASE C!frees
    BY <2>4, ChainGivesBack, ChainFreed
  <2> QED
    BY <1>1, <2>1, <2>2, <2>3, <2>4 DEF C!Next
<1>2. CASE UNCHANGED cvars
  <2>1. ChainTypes' <=> ChainTypes
    BY <1>2 DEF cvars, ChainTypes
  <2>2. \A a \in All : Start(a)' = Start(a)
    BY <1>2 DEF cvars, Start
  <2>3. \A r : Rows(r) => Rows(r)'
    BY <1>2, <2>2 DEF cvars, Rows
  <2> QED
    BY <2>1, <2>3 DEF Linked
<1> QED
  BY <1>1, <1>2

\* Each link has one place, in the chains and in the pool together.
LEMMA ChainOnce == Linked => C!NoneTwice
<1> SUFFICES ASSUME Linked, freeing = None
             PROVE  C!NoneTwice
  BY DEF C!NoneTwice
<1>1. ChainTypes
  BY DEF Linked
<1>2. PICK r : Rows(r)
  BY DEF Linked
<1>3. None \in All /\ Chains \subseteq All /\ None \notin Chains /\ All = Chains \cup {None}
  BY ChainAssumption DEF All
<1>4. /\ \A c \in Chains : Start(c) = head[c] /\ r[c] = mine[c]
      /\ Start(None) = spare /\ r[None] = freed
  BY <1>2, <1>3 DEF Start, Rows
<1>5. \A a \in All : C!From(Start(a)) = r[a]
  BY <1>1, <1>2, RowsFrom
<1>6. (\A c \in Chains : C!From(head[c]) = r[c]) /\ C!From(spare) = r[None]
  BY <1>3, <1>4, <1>5
<1>7. ASSUME NEW n \in 1 .. links
      PROVE  Cardinality(C!Places(n)) = 1
  <2>1. PICK a \in All : n \in Holds(r[a])
    BY <1>2 DEF Rows
  <2>2. PICK i \in 1 .. Len(r[a]) : r[a][i] = n
    BY <2>1 DEF Holds
  <2>3. \A b \in All : n \in Holds(r[b]) => b = a
    BY <1>2, <2>1 DEF Rows
  <2>4. \A b \in All : \A j \in 1 .. Len(r[b]) : r[b][j] = n => b = a /\ j = i
    <3> TAKE b \in All
    <3> TAKE j \in 1 .. Len(r[b])
    <3>1. r[b][j] = n => b = a
      BY <2>3 DEF Holds
    <3>2. Once(r[a])
      BY <1>1, <1>2, RowsAre
    <3>3. r[b][j] = n => j = i
      BY <2>2, <3>1, <3>2 DEF Once
    <3> QED
      BY <3>1, <3>3
  <2>5. \A b \in All : Len(r[b]) \in Nat /\ Len(r[b]) <= MaxLinks
                       /\ DOMAIN r[b] = 1 .. Len(r[b])
    <3> TAKE b \in All
    <3>1. r[b] \in Seq(C!Links) /\ Once(r[b]) /\ MaxLinks \in Nat
      BY <1>1, <1>2, RowsAre, ChainAssumption
    <3> QED
      BY <3>1, OnceShort DEF C!Links
  <2> DEFINE x == <<a, i>>
  <2>6. ASSUME NEW p \in C!Places(n)
        PROVE  p = x
    <3>1. CASE /\ p \in Chains \X C!Links
               /\ p[2] <= Len(C!From(head[p[1]]))
               /\ C!From(head[p[1]])[p[2]] = n
      <4>1. p[1] \in Chains /\ p[2] \in Nat \ {0} /\ p = <<p[1], p[2]>> /\ C!From(head[p[1]]) = r[p[1]]
        BY <1>6, <3>1, ChainAssumption DEF C!Links
      <4>2. p[2] \in 1 .. Len(r[p[1]]) /\ r[p[1]][p[2]] = n
        BY <1>3, <2>5, <3>1, <4>1
      <4> QED
        BY <1>3, <2>4, <4>1, <4>2
    <3>2. CASE \E j \in DOMAIN C!From(spare) : C!From(spare)[j] = n /\ p = <<None, j>>
      <4>1. PICK j \in DOMAIN C!From(spare) : C!From(spare)[j] = n /\ p = <<None, j>>
        BY <3>2
      <4>2. j \in 1 .. Len(r[None]) /\ r[None][j] = n
        BY <1>3, <1>6, <2>5, <4>1
      <4> QED
        BY <1>3, <2>4, <4>1, <4>2
    <3> QED
      BY <3>1, <3>2 DEF C!Places
  <2>7. x \in C!Places(n)
    <3>1. CASE a \in Chains
      <4>1. i \in C!Links /\ i <= Len(r[a]) /\ MaxLinks \in Nat
        BY <2>2, <2>5, ChainAssumption DEF C!Links
      <4>2. x \in Chains \X C!Links /\ x[1] = a /\ x[2] = i
        BY <3>1, <4>1
      <4> HIDE DEF x
      <4>3. C!From(head[x[1]]) = r[a]
        BY <1>6, <3>1, <4>2
      <4> QED
        BY <2>2, <4>1, <4>2, <4>3 DEF C!Places
    <3>2. CASE a = None
      <4>1. i \in DOMAIN C!From(spare) /\ C!From(spare)[i] = n
        BY <1>3, <1>6, <2>2, <2>5, <3>2
      <4> QED
        BY <3>2, <4>1 DEF C!Places
    <3> QED
      BY <1>3, <3>1, <3>2
  <2> HIDE DEF x
  <2>8. C!Places(n) = {x}
    BY <2>6, <2>7
  <2> QED
    BY <2>8, FS_Singleton
<1>8. (\A c \in Chains : C!From(head[c]) = mine[c]) /\ C!From(spare) = freed
  BY <1>4, <1>6
<1>9. \A n \in 1 .. links : Cardinality(C!Places(n)) = 1
  BY <1>7
<1>10. \A n \in 1 .. links : C!Cardinality(C!Places(n)) = 1
  BY <1>9 DEF C!Cardinality, Cardinality
<1> QED
  BY <1>8, <1>10, Zenon DEF C!NoneTwice

-------------------------------------------------------------------------------
\* Queues.

\* The cells of a ring: its head q, then those of s, then the head again, linked
\* both ways.
Ring(to, from, s, q) ==
    \A i \in 0 .. Len(s) :
        to[At(s, i, q)] = At(s, i + 1, q) /\ from[At(s, i + 1, q)] = At(s, i, q)

\* Of the cells of a ring none comes twice, but for the head, with which it starts
\* and ends.
LEMMA CellsAre ==
    ASSUME NEW S, NEW s \in Seq(S), Once(s), NEW q, q \notin S
    PROVE  /\ \A i \in Int : At(s, i, q) \in Holds(s) \cup {q}
           /\ \A i \in 1 .. Len(s) : At(s, i, q) = s[i] /\ s[i] \in Holds(s) /\ s[i] # q
           /\ At(s, 0, q) = q /\ At(s, Len(s) + 1, q) = q
           /\ \A i, j \in 0 .. Len(s) : At(s, i, q) = At(s, j, q) => i = j
           /\ \A i, j \in 1 .. Len(s) + 1 : At(s, i, q) = At(s, j, q) => i = j
<1>1. Len(s) \in Nat
  OBVIOUS
<1>2. \A i \in 1 .. Len(s) : At(s, i, q) = s[i] /\ s[i] \in Holds(s) /\ s[i] # q
  <2>1. q \notin Holds(s)
    BY HoldsIn
  <2> QED
    BY <2>1 DEF At, Holds
<1>3. \A i \in Int : i \notin 1 .. Len(s) => At(s, i, q) = q
  BY DEF At
<1>4. At(s, 0, q) = q /\ At(s, Len(s) + 1, q) = q
  BY <1>1, <1>3
<1>5. \A i, j \in 1 .. Len(s) : At(s, i, q) = At(s, j, q) => i = j
  BY <1>2 DEF Once
<1>6. ASSUME NEW i \in 0 .. Len(s), NEW j \in 0 .. Len(s), At(s, i, q) = At(s, j, q)
      PROVE  i = j
  <2>1. CASE i = 0 /\ j = 0
    BY <2>1
  <2>2. CASE i = 0 /\ j # 0
    <3>1. j \in 1 .. Len(s)
      BY <1>1, <2>2
    <3> QED
      BY <1>2, <1>4, <1>6, <2>2, <3>1
  <2>3. CASE i # 0 /\ j = 0
    <3>1. i \in 1 .. Len(s)
      BY <1>1, <2>3
    <3> QED
      BY <1>2, <1>4, <1>6, <2>3, <3>1
  <2>4. CASE i # 0 /\ j # 0
    <3>1. i \in 1 .. Len(s) /\ j \in 1 .. Len(s)
      BY <1>1, <2>4
    <3> QED
      BY <1>5, <1>6, <3>1
  <2> QED
    BY <2>1, <2>2, <2>3, <2>4
<1>7. ASSUME NEW i \in 1 .. Len(s) + 1, NEW j \in 1 .. Len(s) + 1, At(s, i, q) = At(s, j, q)
      PROVE  i = j
  <2>1. CASE i = Len(s) + 1 /\ j = Len(s) + 1
    BY <2>1
  <2>2. CASE i = Len(s) + 1 /\ j # Len(s) + 1
    <3>1. j \in 1 .. Len(s)
      BY <1>1, <2>2
    <3> QED
      BY <1>2, <1>4, <1>7, <2>2, <3>1
  <2>3. CASE i # Len(s) + 1 /\ j = Len(s) + 1
    <3>1. i \in 1 .. Len(s)
      BY <1>1, <2>3
    <3> QED
      BY <1>2, <1>4, <1>7, <2>3, <3>1
  <2>4. CASE i # Len(s) + 1 /\ j # Len(s) + 1
    <3>1. i \in 1 .. Len(s) /\ j \in 1 .. Len(s)
      BY <1>1, <2>4
    <3> QED
      BY <1>5, <1>7, <3>1
  <2> QED
    BY <2>1, <2>2, <2>3, <2>4
<1>8. ASSUME NEW i \in Int
      PROVE  At(s, i, q) \in Holds(s) \cup {q}
  <2>1. CASE i \in 1 .. Len(s)
    BY <1>2, <2>1
  <2>2. CASE i \notin 1 .. Len(s)
    BY <1>3, <2>2
  <2> QED
    BY <2>1, <2>2
<1>9. \A i, j \in 0 .. Len(s) : At(s, i, q) = At(s, j, q) => i = j
  BY <1>6
<1>10. \A i, j \in 1 .. Len(s) + 1 : At(s, i, q) = At(s, j, q) => i = j
  BY <1>7
<1> QED
  BY <1>2, <1>4, <1>8, <1>9, <1>10

LEMMA RingKept ==
    ASSUME NEW S, NEW s \in Seq(S), Once(s), NEW q, q \notin S,
           NEW to, NEW from, NEW to2, NEW from2, Ring(to, from, s, q),
           \A x \in Holds(s) \cup {q} : to2[x] = to[x] /\ from2[x] = from[x]
    PROVE  Ring(to2, from2, s, q)
<1>1. \A i \in Int : At(s, i, q) \in Holds(s) \cup {q}
  BY CellsAre
<1>2. Len(s) \in Nat
  OBVIOUS
<1>3. ASSUME NEW i \in 0 .. Len(s)
      PROVE  to2[At(s, i, q)] = At(s, i + 1, q) /\ from2[At(s, i + 1, q)] = At(s, i, q)
  <2>1. i \in Int /\ i + 1 \in Int
    BY <1>2
  <2>2. At(s, i, q) \in Holds(s) \cup {q} /\ At(s, i + 1, q) \in Holds(s) \cup {q}
    BY <1>1, <2>1
  <2>3. to[At(s, i, q)] = At(s, i + 1, q) /\ from[At(s, i + 1, q)] = At(s, i, q)
    BY DEF Ring
  <2> QED
    BY <2>2, <2>3
<1> QED
  BY <1>3 DEF Ring

\* A cell that is put between two of a ring, in the place after k.
LEMMA RingInserted ==
    ASSUME NEW S, NEW s \in Seq(S), Once(s), NEW q, q \notin S,
           NEW to, NEW from, NEW to2, NEW from2, Ring(to, from, s, q),
           NEW k \in 0 .. Len(s), NEW n \in S, n \notin Holds(s),
           NEW t, Len(t) = Len(s) + 1,
           \A j \in 0 .. k : At(t, j, q) = At(s, j, q),
           At(t, k + 1, q) = n,
           \A j \in (k + 2) .. Len(s) + 2 : At(t, j, q) = At(s, j - 1, q),
           to2[n] = At(s, k + 1, q), to2[At(s, k, q)] = n,
           from2[n] = At(s, k, q), from2[At(s, k + 1, q)] = n,
           \A x \in (Holds(s) \cup {q}) \ {At(s, k, q)} : to2[x] = to[x],
           \A x \in (Holds(s) \cup {q}) \ {At(s, k + 1, q)} : from2[x] = from[x]
    PROVE  Ring(to2, from2, t, q)
<1>1. Len(s) \in Nat /\ k \in Nat /\ k <= Len(s)
  OBVIOUS
<1>2. /\ \A i \in Int : At(s, i, q) \in Holds(s) \cup {q}
      /\ \A i, j \in 0 .. Len(s) : At(s, i, q) = At(s, j, q) => i = j
      /\ \A i, j \in 1 .. Len(s) + 1 : At(s, i, q) = At(s, j, q) => i = j
  BY CellsAre
<1>3. ASSUME NEW i \in 0 .. Len(s), i # k
      PROVE  to2[At(s, i, q)] = At(s, i + 1, q) /\ from2[At(s, i + 1, q)] = At(s, i, q)
  <2>1. i \in Int /\ i + 1 \in Int /\ i + 1 \in 1 .. Len(s) + 1 /\ k + 1 \in 1 .. Len(s) + 1
        /\ i + 1 # k + 1
    BY <1>1, <1>3
  <2>2. At(s, i, q) # At(s, k, q) /\ At(s, i + 1, q) # At(s, k + 1, q)
    BY <1>2, <1>3, <2>1
  <2>3. to[At(s, i, q)] = At(s, i + 1, q) /\ from[At(s, i + 1, q)] = At(s, i, q)
    BY DEF Ring
  <2> QED
    BY <1>2, <2>1, <2>2, <2>3
<1>4. ASSUME NEW i \in 0 .. Len(t)
      PROVE  to2[At(t, i, q)] = At(t, i + 1, q) /\ from2[At(t, i + 1, q)] = At(t, i, q)
  <2>1. i \in Int /\ 0 <= i /\ i <= Len(s) + 1
    BY <1>1
  <2>2. CASE i < k
    <3>1. i \in 0 .. k /\ i + 1 \in 0 .. k /\ i \in 0 .. Len(s)
      BY <1>1, <2>1, <2>2
    <3>2. At(t, i, q) = At(s, i, q) /\ At(t, i + 1, q) = At(s, i + 1, q)
      BY <3>1
    <3> QED
      BY <1>3, <2>2, <3>1, <3>2
  <2>3. CASE i = k
    <3>1. At(t, i, q) = At(s, k, q) /\ At(t, i + 1, q) = n
      BY <1>1, <2>3
    <3> QED
      BY <3>1
  <2>4. CASE i = k + 1
    <3>1. i + 1 \in (k + 2) .. Len(s) + 2 /\ (i + 1) - 1 = k + 1
      BY <1>1, <2>1, <2>4
    <3>2. At(t, i, q) = n /\ At(t, i + 1, q) = At(s, k + 1, q)
      BY <2>4, <3>1
    <3> QED
      BY <3>2
  <2>5. CASE i > k + 1
    <3>1. /\ i \in (k + 2) .. Len(s) + 2 /\ i + 1 \in (k + 2) .. Len(s) + 2
          /\ (i + 1) - 1 = (i - 1) + 1 /\ i - 1 \in 0 .. Len(s) /\ i - 1 # k
      BY <1>1, <2>1, <2>5
    <3>2. At(t, i, q) = At(s, i - 1, q) /\ At(t, i + 1, q) = At(s, (i - 1) + 1, q)
      BY <3>1
    <3> QED
      BY <1>3, <3>1, <3>2
  <2> QED
    BY <1>1, <2>1, <2>2, <2>3, <2>4, <2>5
<1> QED
  BY <1>4 DEF Ring

\* The cell in place k that is taken out.
LEMMA RingRemoved ==
    ASSUME NEW S, NEW s \in Seq(S), Once(s), NEW q, q \notin S,
           NEW to, NEW from, NEW to2, NEW from2, Ring(to, from, s, q),
           NEW k \in 1 .. Len(s),
           NEW t, Len(t) = Len(s) - 1,
           \A j \in 0 .. k - 1 : At(t, j, q) = At(s, j, q),
           \A j \in k .. Len(s) : At(t, j, q) = At(s, j + 1, q),
           to2[At(s, k - 1, q)] = At(s, k + 1, q),
           from2[At(s, k + 1, q)] = At(s, k - 1, q),
           \A x \in (Holds(s) \cup {q}) \ {At(s, k - 1, q)} : to2[x] = to[x],
           \A x \in (Holds(s) \cup {q}) \ {At(s, k + 1, q)} : from2[x] = from[x]
    PROVE  Ring(to2, from2, t, q)
<1>1. Len(s) \in Nat /\ k \in Nat /\ 1 <= k /\ k <= Len(s)
  OBVIOUS
<1>2. /\ \A i \in Int : At(s, i, q) \in Holds(s) \cup {q}
      /\ \A i, j \in 0 .. Len(s) : At(s, i, q) = At(s, j, q) => i = j
      /\ \A i, j \in 1 .. Len(s) + 1 : At(s, i, q) = At(s, j, q) => i = j
  BY CellsAre
<1>3. ASSUME NEW i \in 0 .. Len(s), i # k - 1, i # k
      PROVE  to2[At(s, i, q)] = At(s, i + 1, q) /\ from2[At(s, i + 1, q)] = At(s, i, q)
  <2>1. /\ i \in Int /\ i + 1 \in Int /\ i + 1 \in 1 .. Len(s) + 1 /\ k + 1 \in 1 .. Len(s) + 1
        /\ i + 1 # k + 1 /\ k - 1 \in 0 .. Len(s)
    BY <1>1, <1>3
  <2>2. At(s, i, q) # At(s, k - 1, q) /\ At(s, i + 1, q) # At(s, k + 1, q)
    BY <1>2, <1>3, <2>1
  <2>3. to[At(s, i, q)] = At(s, i + 1, q) /\ from[At(s, i + 1, q)] = At(s, i, q)
    BY DEF Ring
  <2> QED
    BY <1>2, <2>1, <2>2, <2>3
<1>4. ASSUME NEW i \in 0 .. Len(t)
      PROVE  to2[At(t, i, q)] = At(t, i + 1, q) /\ from2[At(t, i + 1, q)] = At(t, i, q)
  <2>1. i \in Int /\ 0 <= i /\ i <= Len(s) - 1
    BY <1>1
  <2>2. CASE i < k - 1
    <3>1. i \in 0 .. k - 1 /\ i + 1 \in 0 .. k - 1 /\ i \in 0 .. Len(s) /\ i # k - 1 /\ i # k
      BY <1>1, <2>1, <2>2
    <3>2. At(t, i, q) = At(s, i, q) /\ At(t, i + 1, q) = At(s, i + 1, q)
      BY <3>1
    <3> QED
      BY <1>3, <3>1, <3>2
  <2>3. CASE i = k - 1
    <3>1. i \in 0 .. k - 1 /\ i + 1 = k /\ k \in k .. Len(s)
      BY <1>1, <2>3
    <3>2. At(t, i, q) = At(s, k - 1, q) /\ At(t, i + 1, q) = At(s, k + 1, q)
      BY <2>3, <3>1
    <3> QED
      BY <3>2
  <2>4. CASE i >= k
    <3>1. /\ i \in k .. Len(s) /\ i + 1 \in k .. Len(s) /\ i + 1 \in 0 .. Len(s)
          /\ i + 1 # k - 1 /\ i + 1 # k
      BY <1>1, <2>1, <2>4
    <3>2. At(t, i, q) = At(s, i + 1, q) /\ At(t, i + 1, q) = At(s, (i + 1) + 1, q)
      BY <3>1
    <3> QED
      BY <1>3, <3>1, <3>2
  <2> QED
    BY <1>1, <2>1, <2>2, <2>3, <2>4
<1> QED
  BY <1>4 DEF Ring

\* The ring u is put behind the last cell of the ring s.
LEMMA RingJoined ==
    ASSUME NEW S, NEW s \in Seq(S), Once(s), NEW u \in Seq(S), Once(u), u # <<>>,
           Holds(s) \cap Holds(u) = {}, NEW q, q \notin S, NEW r, r \notin S,
           NEW to, NEW from, NEW to2, NEW from2, Ring(to, from, s, q), Ring(to, from, u, r),
           NEW z, z = At(s, Len(s), q), NEW x, x = u[1], NEW y, y = u[Len(u)],
           to2[z] = x, to2[y] = q, from2[x] = z, from2[q] = y,
           \A c \in (Holds(s) \cup Holds(u) \cup {q}) \ {y, z} : to2[c] = to[c],
           \A c \in (Holds(s) \cup Holds(u) \cup {q}) \ {x, q} : from2[c] = from[c]
    PROVE  Ring(to2, from2, s \o u, q)
<1> DEFINE v == s \o u
<1>1. Len(s) \in Nat /\ Len(u) \in Nat \ {0}
  BY EmptySeq
<1>2. /\ v \in Seq(S) /\ Len(v) = Len(s) + Len(u) /\ Once(v)
      /\ \A i \in 1 .. Len(s) : v[i] = s[i]
      /\ \A i \in 1 .. Len(u) : v[Len(s) + i] = u[i]
  BY JoinIs
<1> HIDE DEF v
<1>3. /\ \A i \in Int : At(s, i, q) \in Holds(s) \cup {q}
      /\ \A i \in 1 .. Len(s) : At(s, i, q) = s[i] /\ s[i] \in Holds(s) /\ s[i] # q
      /\ At(s, 0, q) = q
      /\ \A i, j \in 0 .. Len(s) : At(s, i, q) = At(s, j, q) => i = j
  BY CellsAre
<1>4. /\ \A i \in 1 .. Len(u) : At(u, i, r) = u[i] /\ u[i] \in Holds(u)
      /\ \A i, j \in 1 .. Len(u) : u[i] = u[j] => i = j
  BY CellsAre DEF Once
<1>5. \A i \in 1 .. Len(u) : u[i] # q /\ u[i] \notin Holds(s)
  BY <1>4
<1>6. \A i \in 0 .. Len(s) : At(v, i, q) = At(s, i, q)
  <2> TAKE i \in 0 .. Len(s)
  <2>1. CASE i = 0
    BY <1>3, <2>1 DEF At
  <2>2. CASE i # 0
    <3>1. i \in 1 .. Len(s) /\ i \in 1 .. Len(v)
      BY <1>1, <1>2, <2>2
    <3> QED
      BY <1>2, <3>1 DEF At
  <2> QED
    BY <2>1, <2>2
<1>7. \A i \in 1 .. Len(u) : At(v, Len(s) + i, q) = u[i]
  <2> TAKE i \in 1 .. Len(u)
  <2>1. Len(s) + i \in 1 .. Len(v)
    BY <1>1, <1>2
  <2> QED
    BY <1>2, <2>1 DEF At
<1>8. At(v, Len(s) + Len(u) + 1, q) = q
  <2>1. Len(s) + Len(u) + 1 \notin 1 .. Len(v)
    BY <1>1, <1>2
  <2> QED
    BY <2>1 DEF At
<1>9. ASSUME NEW i \in 0 .. Len(v)
      PROVE  to2[At(v, i, q)] = At(v, i + 1, q) /\ from2[At(v, i + 1, q)] = At(v, i, q)
  <2>1. i \in Int /\ 0 <= i /\ i <= Len(s) + Len(u)
    BY <1>1, <1>2
  <2>2. CASE i < Len(s)
    <3>1. /\ i \in 0 .. Len(s) /\ i + 1 \in 0 .. Len(s) /\ i + 1 \in 1 .. Len(s) /\ i # Len(s)
          /\ Len(s) \in 0 .. Len(s) /\ i \in Int /\ i + 1 \in Int
      BY <1>1, <2>1, <2>2
    <3>2. At(v, i, q) = At(s, i, q) /\ At(v, i + 1, q) = At(s, i + 1, q)
      BY <1>6, <3>1
    <3>3. to[At(s, i, q)] = At(s, i + 1, q) /\ from[At(s, i + 1, q)] = At(s, i, q)
      BY <3>1 DEF Ring
    <3>4. At(s, i, q) \in Holds(s) \cup {q} /\ At(s, i, q) # z
      BY <1>3, <3>1
    <3>5. At(s, i + 1, q) \in Holds(s) /\ At(s, i + 1, q) # q
      BY <1>3, <3>1
    <3>6. y \in Holds(u) /\ x \in Holds(u) /\ y # q
      <4>1. Len(u) \in 1 .. Len(u) /\ 1 \in 1 .. Len(u)
        BY <1>1
      <4> QED
        BY <1>4, <1>5, <4>1
    <3> QED
      BY <3>2, <3>3, <3>4, <3>5, <3>6
  <2>3. CASE i = Len(s)
    <3>1. /\ Len(s) \in 0 .. Len(s) /\ 1 \in 1 .. Len(u)
      BY <1>1
    <3>2. At(v, i, q) = z /\ At(v, i + 1, q) = x
      BY <1>6, <1>7, <2>3, <3>1
    <3> QED
      BY <3>2
  <2>4. CASE Len(s) < i /\ i < Len(s) + Len(u)
    <3> DEFINE j == i - Len(s)
    <3>1. /\ j \in 1 .. Len(u) /\ j + 1 \in 1 .. Len(u) /\ j # Len(u) /\ j + 1 # 1
          /\ Len(s) + j = i /\ Len(s) + (j + 1) = i + 1 /\ j \in 0 .. Len(u)
          /\ Len(u) \in 1 .. Len(u) /\ 1 \in 1 .. Len(u) /\ Len(s) \in Int
      <4>1. j \in Int /\ 1 <= j /\ j + 1 <= Len(u) /\ Len(s) + j = i
        BY <1>1, <2>1, <2>4
      <4> HIDE DEF j
      <4> QED
        BY <1>1, <4>1, SMTT(30)
    <3> HIDE DEF j
    <3>2. At(v, Len(s) + j, q) = u[j] /\ At(v, Len(s) + (j + 1), q) = u[j + 1]
      BY <1>7, <3>1
    <3>3. to[u[j]] = u[j + 1] /\ from[u[j + 1]] = u[j]
      <4>1. to[At(u, j, r)] = At(u, j + 1, r) /\ from[At(u, j + 1, r)] = At(u, j, r)
        BY <3>1 DEF Ring
      <4>2. At(u, j, r) = u[j] /\ At(u, j + 1, r) = u[j + 1]
        BY <1>4, <3>1
      <4> QED
        BY <4>1, <4>2
    <3>4. u[j] \in Holds(u) /\ u[j + 1] \in Holds(u) /\ u[j] # y /\ u[j + 1] # x /\ u[j + 1] # q
      BY <1>4, <1>5, <3>1
    <3>5. u[j] # z
      <4>1. z \in Holds(s) \cup {q}
        BY <1>3, <3>1
      <4> QED
        BY <1>5, <3>1, <4>1
    <3>6. to2[u[j]] = u[j + 1] /\ from2[u[j + 1]] = u[j]
      BY <3>3, <3>4, <3>5
    <3> QED
      BY <3>1, <3>2, <3>6
  <2>5. CASE i = Len(s) + Len(u)
    <3>1. Len(u) \in 1 .. Len(u)
      BY <1>1
    <3>2. At(v, i, q) = y /\ At(v, i + 1, q) = q
      BY <1>7, <1>8, <2>5, <3>1
    <3> QED
      BY <3>2
  <2> QED
    BY <1>1, <2>1, <2>2, <2>3, <2>4, <2>5
<1> QED
  BY <1>9 DEF Ring, v

\* The cells are linked anew, one after the other.
LEMMA RingSorted ==
    ASSUME NEW S, NEW t \in Seq(S), NEW q, NEW to, NEW from,
           to[q] = At(t, 1, q), from[q] = At(t, Len(t), q),
           \A i \in 1 .. Len(t) : to[t[i]] = At(t, i + 1, q) /\ from[t[i]] = At(t, i - 1, q)
    PROVE  Ring(to, from, t, q)
<1>1. Len(t) \in Nat
  OBVIOUS
<1>2. ASSUME NEW i \in 0 .. Len(t)
      PROVE  to[At(t, i, q)] = At(t, i + 1, q)
  <2>1. CASE i = 0
    BY <2>1 DEF At
  <2>2. CASE i # 0
    <3>1. i \in 1 .. Len(t)
      BY <1>1, <2>2
    <3>2. At(t, i, q) = t[i]
      BY <3>1 DEF At
    <3> QED
      BY <3>1, <3>2
  <2> QED
    BY <2>1, <2>2
<1>3. ASSUME NEW i \in 0 .. Len(t)
      PROVE  from[At(t, i + 1, q)] = At(t, i, q)
  <2>1. CASE i = Len(t)
    <3>1. i + 1 \notin 1 .. Len(t)
      BY <1>1, <2>1
    <3>2. At(t, i + 1, q) = q
      BY <3>1 DEF At
    <3> QED
      BY <2>1, <3>2
  <2>2. CASE i # Len(t)
    <3>1. i + 1 \in 1 .. Len(t) /\ (i + 1) - 1 = i
      BY <1>1, <2>2
    <3>2. At(t, i + 1, q) = t[i + 1]
      BY <3>1 DEF At
    <3>3. from[t[i + 1]] = At(t, (i + 1) - 1, q)
      BY <3>1
    <3> QED
      BY <3>1, <3>2, <3>3
  <2> QED
    BY <2>1, <2>2
<1> QED
  BY <1>2, <1>3 DEF Ring

\* A ring is a row from either side.
LEMMA RingIsRow ==
    ASSUME NEW S, NEW s \in Seq(S), NEW q, NEW to, NEW from, Ring(to, from, s, q)
    PROVE  /\ Row(to, s, to[q], q)
           /\ Q!Reverse(s) \in Seq(S) /\ Len(Q!Reverse(s)) = Len(s)
           /\ Row(from, Q!Reverse(s), from[q], q)
<1> DEFINE t == Q!Reverse(s)
<1>1. Len(s) \in Nat
  OBVIOUS
<1>2. t \in Seq(S) /\ Len(t) = Len(s) /\ \A i \in 1 .. Len(s) : t[i] = s[Len(s) - i + 1]
  BY DEF Q!Reverse
<1> HIDE DEF t
<1>3. \A i \in 0 .. Len(s) + 1 : At(t, i, q) = At(s, Len(s) - i + 1, q)
  <2> TAKE i \in 0 .. Len(s) + 1
  <2>1. i \in 1 .. Len(s) <=> Len(s) - i + 1 \in 1 .. Len(s)
    BY <1>1
  <2> QED
    BY <1>2, <2>1 DEF At
<1>4. \A i \in 0 .. Len(s) : to[At(s, i, q)] = At(s, i + 1, q) /\ from[At(s, i + 1, q)] = At(s, i, q)
  BY DEF Ring
<1>5. At(s, 0, q) = q /\ At(s, Len(s) + 1, q) = q /\ \A i \in 1 .. Len(s) : At(s, i, q) = s[i]
  <2>1. 0 \notin 1 .. Len(s) /\ Len(s) + 1 \notin 1 .. Len(s)
    BY <1>1
  <2> QED
    BY <2>1 DEF At
<1>6. Row(to, s, to[q], q)
  <2>1. to[q] = At(s, 1, q)
    <3>1. 0 \in 0 .. Len(s) /\ 0 + 1 = 1
      BY <1>1
    <3> QED
      BY <1>4, <1>5, <3>1
  <2>2. ASSUME NEW i \in 1 .. Len(s)
        PROVE  to[s[i]] = At(s, i + 1, q)
    <3>1. i \in 0 .. Len(s)
      BY <1>1
    <3> QED
      BY <1>4, <1>5, <3>1
  <2> QED
    BY <2>1, <2>2 DEF Row
<1>7. Row(from, t, from[q], q)
  <2>1. from[q] = At(t, 1, q)
    <3>1. Len(s) \in 0 .. Len(s) /\ 1 \in 0 .. Len(s) + 1 /\ Len(s) - 1 + 1 = Len(s)
      BY <1>1
    <3>2. At(t, 1, q) = At(s, Len(s), q)
      BY <1>3, <3>1
    <3> QED
      BY <1>4, <1>5, <3>1, <3>2
  <2>2. ASSUME NEW i \in 1 .. Len(t)
        PROVE  from[t[i]] = At(t, i + 1, q)
    <3> DEFINE j == Len(s) - i
    <3>1. j \in 0 .. Len(s) /\ j + 1 = Len(s) - i + 1 /\ j + 1 \in 1 .. Len(s)
          /\ i + 1 \in 0 .. Len(s) + 1 /\ Len(s) - (i + 1) + 1 = j /\ i \in 1 .. Len(s)
      BY <1>1, <1>2
    <3>2. t[i] = At(s, j + 1, q)
      <4>1. t[i] = s[j + 1]
        BY <1>2, <3>1
      <4> QED
        BY <1>5, <3>1, <4>1
    <3>3. At(t, i + 1, q) = At(s, j, q)
      BY <1>3, <3>1
    <3> QED
      BY <1>4, <3>1, <3>2, <3>3
  <2> QED
    BY <2>1, <2>2 DEF Row
<1> QED
  BY <1>2, <1>6, <1>7 DEF t

\* The row t is s with n in the place after k.
Inserted(t, s, k, n) ==
    /\ t \in Seq(Nodes) /\ Len(t) = Len(s) + 1
    /\ \A j \in 1 .. k : t[j] = s[j]
    /\ t[k + 1] = n
    /\ \A j \in (k + 2) .. Len(s) + 1 : t[j] = s[j - 1]

CellsInserted(t, s, k, n, q) ==
    /\ \A j \in 0 .. k : At(t, j, q) = At(s, j, q)
    /\ At(t, k + 1, q) = n
    /\ \A j \in (k + 2) .. Len(s) + 2 : At(t, j, q) = At(s, j - 1, q)

LEMMA InsertedIs ==
    ASSUME NEW s \in Seq(Nodes), Once(s), NEW n \in Nodes, n \notin Holds(s),
           NEW k \in 0 .. Len(s), NEW t, Inserted(t, s, k, n), NEW q
    PROVE  Once(t) /\ Holds(t) = Holds(s) \cup {n} /\ CellsInserted(t, s, k, n, q)
<1>1. Len(s) \in Nat /\ k \in Nat /\ k <= Len(s) /\ Len(t) = Len(s) + 1
  BY DEF Inserted
<1>2. /\ \A j \in 1 .. k : t[j] = s[j]
      /\ t[k + 1] = n
      /\ \A j \in (k + 2) .. Len(s) + 1 : t[j] = s[j - 1]
  BY DEF Inserted
<1>3. ASSUME NEW j \in 1 .. Len(t)
      PROVE  \/ j \in 1 .. Len(s) /\ j <= k /\ t[j] = s[j]
             \/ j = k + 1 /\ t[j] = n
             \/ j > k + 1 /\ j - 1 \in 1 .. Len(s) /\ t[j] = s[j - 1]
  <2>1. \/ j \in 1 .. Len(s) /\ j \in 1 .. k
        \/ j = k + 1
        \/ j \in (k + 2) .. Len(s) + 1 /\ j > k + 1 /\ j - 1 \in 1 .. Len(s)
    BY <1>1
  <2> QED
    BY <1>2, <2>1
<1>4. Once(t)
  <2>1. ASSUME NEW i \in 1 .. Len(t), NEW j \in 1 .. Len(t), t[i] = t[j], i < j
        PROVE  FALSE
    <3>1. CASE i <= k
      <4>1. i \in 1 .. Len(s) /\ t[i] = s[i]
        BY <1>1, <1>3, <3>1
      <4>2. CASE j <= k
        <5>1. j \in 1 .. Len(s) /\ t[j] = s[j] /\ i # j
          BY <1>1, <1>3, <2>1, <4>2
        <5> QED
          BY <2>1, <4>1, <5>1 DEF Once
      <4>3. CASE j = k + 1
        BY <1>2, <2>1, <4>1, <4>3 DEF Holds
      <4>4. CASE j > k + 1
        <5>1. j - 1 \in 1 .. Len(s) /\ t[j] = s[j - 1] /\ i # j - 1
          BY <1>1, <1>3, <3>1, <4>4
        <5> QED
          BY <2>1, <4>1, <5>1 DEF Once
      <4> QED
        BY <1>1, <4>2, <4>3, <4>4
    <3>2. CASE i = k + 1
      <4>1. j - 1 \in 1 .. Len(s) /\ t[j] = s[j - 1]
        BY <1>1, <1>3, <2>1, <3>2
      <4> QED
        BY <1>2, <2>1, <3>2, <4>1 DEF Holds
    <3>3. CASE i > k + 1
      <4>1. i - 1 \in 1 .. Len(s) /\ t[i] = s[i - 1]
        BY <1>1, <1>3, <3>3
      <4>2. j - 1 \in 1 .. Len(s) /\ t[j] = s[j - 1] /\ i - 1 # j - 1
        BY <1>1, <1>3, <2>1, <3>3
      <4> QED
        BY <2>1, <4>1, <4>2 DEF Once
    <3> QED
      BY <1>1, <3>1, <3>2, <3>3
  <2>2. ASSUME NEW i \in 1 .. Len(t), NEW j \in 1 .. Len(t), t[i] = t[j]
        PROVE  i = j
    <3>1. i < j \/ j < i \/ i = j
      BY <1>1
    <3> QED
      BY <2>1, <2>2, <3>1
  <2> QED
    BY <2>2 DEF Once
<1>5. Holds(t) = Holds(s) \cup {n}
  <2>1. ASSUME NEW x \in Holds(t)
        PROVE  x \in Holds(s) \cup {n}
    <3>1. PICK j \in 1 .. Len(t) : x = t[j]
      BY DEF Holds
    <3> QED
      BY <1>3, <3>1 DEF Holds
  <2>2. n \in Holds(t)
    <3>1. k + 1 \in 1 .. Len(t)
      BY <1>1
    <3> QED
      BY <1>2, <3>1 DEF Holds
  <2>3. ASSUME NEW x \in Holds(s)
        PROVE  x \in Holds(t)
    <3>1. PICK j \in 1 .. Len(s) : x = s[j]
      BY DEF Holds
    <3>2. CASE j <= k
      <4>1. j \in 1 .. k /\ j \in 1 .. Len(t)
        BY <1>1, <3>2
      <4>2. x = t[j]
        BY <1>2, <3>1, <4>1
      <4> QED
        BY <4>1, <4>2 DEF Holds
    <3>3. CASE j > k
      <4>1. j + 1 \in (k + 2) .. Len(s) + 1 /\ j + 1 \in 1 .. Len(t) /\ (j + 1) - 1 = j
        BY <1>1, <3>3
      <4>2. x = t[j + 1]
        BY <1>2, <3>1, <4>1
      <4> QED
        BY <4>1, <4>2 DEF Holds
    <3> QED
      BY <1>1, <3>2, <3>3
  <2> QED
    BY <2>1, <2>2, <2>3
<1>6. ASSUME NEW j \in 0 .. k
      PROVE  At(t, j, q) = At(s, j, q)
  <2>1. j \in 1 .. Len(t) <=> j \in 1 .. Len(s)
    BY <1>1
  <2>2. j \in 1 .. Len(t) => j \in 1 .. k
    BY <1>1
  <2> QED
    BY <1>2, <2>1, <2>2 DEF At
<1>7. At(t, k + 1, q) = n
  <2>1. k + 1 \in 1 .. Len(t)
    BY <1>1
  <2> QED
    BY <1>2, <2>1 DEF At
<1>8. ASSUME NEW j \in (k + 2) .. Len(s) + 2
      PROVE  At(t, j, q) = At(s, j - 1, q)
  <2>1. j \in 1 .. Len(t) <=> j - 1 \in 1 .. Len(s)
    BY <1>1
  <2>2. j \in 1 .. Len(t) => j \in (k + 2) .. Len(s) + 1
    BY <1>1
  <2> QED
    BY <1>2, <2>1, <2>2 DEF At
<1> QED
  BY <1>4, <1>5, <1>6, <1>7, <1>8 DEF CellsInserted

\* The row t is s without what is in place k.
Removed(t, s, k) ==
    /\ t \in Seq(Nodes) /\ Len(t) = Len(s) - 1
    /\ \A j \in 1 .. k - 1 : t[j] = s[j]
    /\ \A j \in k .. Len(s) - 1 : t[j] = s[j + 1]

CellsRemoved(t, s, k, q) ==
    /\ \A j \in 0 .. k - 1 : At(t, j, q) = At(s, j, q)
    /\ \A j \in k .. Len(s) : At(t, j, q) = At(s, j + 1, q)

LEMMA RemovedIs ==
    ASSUME NEW s \in Seq(Nodes), Once(s), NEW k \in 1 .. Len(s), NEW t, Removed(t, s, k), NEW q
    PROVE  Once(t) /\ Holds(t) \subseteq Holds(s) /\ CellsRemoved(t, s, k, q)
<1>1. Len(s) \in Nat /\ k \in Nat /\ 1 <= k /\ k <= Len(s) /\ Len(t) = Len(s) - 1
  BY DEF Removed
<1>2. /\ \A j \in 1 .. k - 1 : t[j] = s[j]
      /\ \A j \in k .. Len(s) - 1 : t[j] = s[j + 1]
  BY DEF Removed
<1>3. ASSUME NEW j \in 1 .. Len(t)
      PROVE  \/ j \in 1 .. Len(s) /\ j < k /\ t[j] = s[j]
             \/ j >= k /\ j + 1 \in 1 .. Len(s) /\ t[j] = s[j + 1]
  <2>1. \/ j \in 1 .. Len(s) /\ j < k /\ j \in 1 .. k - 1
        \/ j \in k .. Len(s) - 1 /\ j >= k /\ j + 1 \in 1 .. Len(s)
    BY <1>1
  <2> QED
    BY <1>2, <2>1
<1>4. Once(t)
  <2>1. ASSUME NEW i \in 1 .. Len(t), NEW j \in 1 .. Len(t), t[i] = t[j], i < j
        PROVE  FALSE
    <3>1. CASE j < k
      <4>1. i \in 1 .. Len(s) /\ t[i] = s[i] /\ j \in 1 .. Len(s) /\ t[j] = s[j] /\ i # j
        BY <1>1, <1>3, <2>1, <3>1
      <4> QED
        BY <2>1, <4>1 DEF Once
    <3>2. CASE i < k /\ j >= k
      <4>1. i \in 1 .. Len(s) /\ t[i] = s[i]
        BY <1>1, <1>3, <3>2
      <4>2. j + 1 \in 1 .. Len(s) /\ t[j] = s[j + 1] /\ i # j + 1
        BY <1>1, <1>3, <2>1, <3>2
      <4> QED
        BY <2>1, <4>1, <4>2 DEF Once
    <3>3. CASE i >= k
      <4>1. i + 1 \in 1 .. Len(s) /\ t[i] = s[i + 1]
        BY <1>1, <1>3, <3>3
      <4>2. j + 1 \in 1 .. Len(s) /\ t[j] = s[j + 1] /\ i + 1 # j + 1
        BY <1>1, <1>3, <2>1, <3>3
      <4> QED
        BY <2>1, <4>1, <4>2 DEF Once
    <3> QED
      BY <1>1, <2>1, <3>1, <3>2, <3>3
  <2>2. ASSUME NEW i \in 1 .. Len(t), NEW j \in 1 .. Len(t), t[i] = t[j]
        PROVE  i = j
    <3>1. i < j \/ j < i \/ i = j
      BY <1>1
    <3> QED
      BY <2>1, <2>2, <3>1
  <2> QED
    BY <2>2 DEF Once
<1>5. ASSUME NEW x \in Holds(t)
      PROVE  x \in Holds(s)
  <2>1. PICK j \in 1 .. Len(t) : x = t[j]
    BY DEF Holds
  <2> QED
    BY <1>3, <2>1 DEF Holds
<1>6. ASSUME NEW j \in 0 .. k - 1
      PROVE  At(t, j, q) = At(s, j, q)
  <2>1. j \in 1 .. Len(t) <=> j \in 1 .. Len(s)
    BY <1>1
  <2>2. j \in 1 .. Len(t) => j \in 1 .. k - 1
    BY <1>1
  <2> QED
    BY <1>2, <2>1, <2>2 DEF At
<1>7. ASSUME NEW j \in k .. Len(s)
      PROVE  At(t, j, q) = At(s, j + 1, q)
  <2>1. j \in 1 .. Len(t) <=> j + 1 \in 1 .. Len(s)
    BY <1>1
  <2>2. j \in 1 .. Len(t) => j \in k .. Len(s) - 1
    BY <1>1
  <2> QED
    BY <1>2, <2>1, <2>2 DEF At
<1> QED
  BY <1>4, <1>5, <1>6, <1>7 DEF CellsRemoved

Walks == [queue: Queues, at: Q!Cells \cup {None}, seen: Seq(Nodes), all: Seq(Nodes)]

QueueTypes ==
    /\ succ \in [Q!Cells -> Q!Cells \cup {None}]
    /\ pred \in [Q!Cells -> Q!Cells \cup {None}]
    /\ used \in SUBSET Queues
    /\ walk \in Walks \cup {None}
    /\ placed \in [Queues -> Seq(Nodes)]

\* Each queue that is used is a ring of its own.
Ringed ==
    /\ \A q \in used : Ring(succ, pred, placed[q], q)
    /\ \A q \in Queues : Once(placed[q]) /\ (q \notin used => placed[q] = <<>>)
    /\ \A q, r \in Queues : q # r => Holds(placed[q]) \cap Holds(placed[r]) = {}

\* An iteration has yet to see the nodes from where it is.
Walking ==
    walk # None =>
        /\ walk.queue \in used
        /\ \E i \in 1 .. Len(placed[walk.queue]) + 1 :
            /\ walk.at = At(placed[walk.queue], i, walk.queue)
            /\ walk.all = walk.seen \o SubSeq(placed[walk.queue], i, Len(placed[walk.queue]))

Queued == QueueTypes /\ Ringed /\ Walking

LEMMA QueueAssumption ==
    /\ IsFiniteSet(Nodes) /\ Nodes \subseteq Int /\ Nodes \cap Queues = {}
    /\ None \notin Queues /\ None \notin Nodes /\ None \notin Walks
    /\ Q!Cells = Queues \cup Nodes
<1>1. Q!Cells = Queues \cup Nodes
  BY DEF Q!Cells
<1>2. Walks \subseteq [queue: Queues, at: Queues \cup Nodes \cup {None}, seen: Seq(Nodes), all: Seq(Nodes)]
  BY <1>1 DEF Walks
<1> QED
  BY <1>1, <1>2, ContainersAssumption

\* What follows for each queue.
LEMMA QueueIs ==
    ASSUME QueueTypes, Ringed, NEW q \in used
    PROVE  LET s == placed[q]
           IN  /\ q \in Queues /\ q \in Q!Cells /\ q \notin Nodes
               /\ s \in Seq(Nodes) /\ Len(s) \in Nat /\ Once(s) /\ Holds(s) \subseteq Nodes
               /\ Ring(succ, pred, s, q)
               /\ succ[q] = At(s, 1, q) /\ pred[q] = At(s, Len(s), q)
               /\ \A i \in 1 .. Len(s) : succ[s[i]] = At(s, i + 1, q) /\ pred[s[i]] = At(s, i - 1, q)
<1> DEFINE s == placed[q]
<1>1. q \in Queues /\ q \in Q!Cells /\ q \notin Nodes
  BY QueueAssumption DEF QueueTypes
<1>2. s \in Seq(Nodes) /\ Once(s) /\ Ring(succ, pred, s, q)
  BY <1>1 DEF QueueTypes, Ringed
<1> HIDE DEF s
<1>3. Len(s) \in Nat /\ Holds(s) \subseteq Nodes
  BY <1>2, HoldsIn
<1>4. At(s, 0, q) = q /\ At(s, Len(s) + 1, q) = q /\ \A i \in 1 .. Len(s) : At(s, i, q) = s[i]
  BY <1>1, <1>2, CellsAre
<1>5. \A i \in 0 .. Len(s) : succ[At(s, i, q)] = At(s, i + 1, q) /\ pred[At(s, i + 1, q)] = At(s, i, q)
  BY <1>2 DEF Ring
<1>6. succ[q] = At(s, 1, q) /\ pred[q] = At(s, Len(s), q)
  <2>1. 0 \in 0 .. Len(s) /\ 0 + 1 = 1 /\ Len(s) \in 0 .. Len(s)
    BY <1>3
  <2> QED
    BY <1>4, <1>5, <2>1
<1>7. ASSUME NEW i \in 1 .. Len(s)
      PROVE  succ[s[i]] = At(s, i + 1, q) /\ pred[s[i]] = At(s, i - 1, q)
  <2>1. i \in 0 .. Len(s) /\ i - 1 \in 0 .. Len(s) /\ (i - 1) + 1 = i
    BY <1>3
  <2>2. pred[At(s, (i - 1) + 1, q)] = At(s, i - 1, q)
    BY <1>5, <2>1
  <2> QED
    BY <1>4, <1>5, <2>1, <2>2
<1> QED
  BY <1>1, <1>2, <1>3, <1>6, <1>7 DEF s

\* Of the others nothing changes, if no cell of theirs does.
LEMMA OthersKept ==
    ASSUME QueueTypes, Ringed, NEW r \in used,
           \A x \in Holds(placed[r]) \cup {r} : succ'[x] = succ[x] /\ pred'[x] = pred[x],
           placed'[r] = placed[r]
    PROVE  Ring(succ', pred', placed'[r], r)
<1> DEFINE s == placed[r]
           to == succ'
           from == pred'
<1>1. r \notin Nodes /\ s \in Seq(Nodes) /\ Once(s) /\ Ring(succ, pred, s, r)
  BY QueueIs
<1>2. \A x \in Holds(s) \cup {r} : to[x] = succ[x] /\ from[x] = pred[x]
  OBVIOUS
<1> HIDE DEF s, to, from
<1>3. Ring(to, from, s, r)
  BY <1>1, <1>2, RingKept
<1> QED
  BY <1>3 DEF s, to, from

LEMMA QueueInit == Q!Init => Queued
<1> SUFFICES ASSUME Q!Init
             PROVE  Queued
  OBVIOUS
<1>1. used = {} /\ walk = None /\ \A q \in Queues : placed[q] = <<>>
  BY DEF Q!Init
<1>2. QueueTypes
  BY DEF Q!Init, QueueTypes
<1>3. \A q \in Queues : Once(placed[q]) /\ Holds(placed[q]) = {}
  BY <1>1, NothingIs
<1>4. Ringed
  BY <1>1, <1>3 DEF Ringed
<1> QED
  BY <1>1, <1>2, <1>4 DEF Queued, Walking

\* A new ring is its head alone.
LEMMA QueueMade ==
    ASSUME Queued, NEW q \in Queues, Q!init(q)
    PROVE  Queued'
<1>1. QueueTypes /\ Ringed
  BY DEF Queued
<1>2. /\ walk = None /\ walk' = walk
      /\ succ' = [succ EXCEPT ![q] = q] /\ pred' = [pred EXCEPT ![q] = q]
      /\ used' = used \cup {q} /\ placed' = [placed EXCEPT ![q] = <<>>]
  BY DEF Q!init, Q!Idle
<1>3. q \in Q!Cells /\ q \notin Nodes
  BY QueueAssumption
<1>4. /\ succ'[q] = q /\ pred'[q] = q
      /\ \A x \in Q!Cells \ {q} : succ'[x] = succ[x] /\ pred'[x] = pred[x]
      /\ placed'[q] = <<>> /\ \A r \in Queues \ {q} : placed'[r] = placed[r]
  BY <1>1, <1>2, <1>3 DEF QueueTypes
<1>5. QueueTypes'
  <2>1. succ' \in [Q!Cells -> Q!Cells \cup {None}] /\ pred' \in [Q!Cells -> Q!Cells \cup {None}]
    BY <1>1, <1>2, <1>3 DEF QueueTypes
  <2>2. <<>> \in Seq(Nodes)
    OBVIOUS
  <2>3. placed' \in [Queues -> Seq(Nodes)]
    BY <1>1, <1>2, <2>2 DEF QueueTypes
  <2> QED
    BY <1>1, <1>2, <2>1, <2>3 DEF QueueTypes
<1>6. ASSUME NEW r \in used'
      PROVE  Ring(succ', pred', placed'[r], r)
  <2>1. CASE r = q
    <3>1. Ring(succ', pred', <<>>, q)
      <4>1. Len(<<>>) = 0 /\ \A i \in Int : At(<<>>, i, q) = q
        BY DEF At
      <4>2. \A i \in 0 .. Len(<<>>) : i \in Int /\ i + 1 \in Int
        BY <4>1
      <4> QED
        BY <1>4, <4>1, <4>2 DEF Ring
    <3> QED
      BY <1>4, <2>1, <3>1
  <2>2. CASE r # q
    <3>1. r \in used /\ r \in Queues /\ r \in Q!Cells
      BY <1>1, <1>2, <2>2, QueueIs
    <3>2. Holds(placed[r]) \subseteq Nodes
      BY <1>1, <3>1, QueueIs
    <3>3. \A x \in Holds(placed[r]) \cup {r} : succ'[x] = succ[x] /\ pred'[x] = pred[x]
      BY <1>3, <1>4, <2>2, <3>1, <3>2, QueueAssumption
    <3> QED
      BY <1>1, <1>4, <2>2, <3>1, <3>3, OthersKept
  <2> QED
    BY <2>1, <2>2
<1>7. \A r \in Queues : Once(placed'[r]) /\ (r \notin used' => placed'[r] = <<>>)
  BY <1>1, <1>2, <1>4, NothingIs DEF Ringed
<1>8. \A r, p \in Queues : r # p => Holds(placed'[r]) \cap Holds(placed'[p]) = {}
  BY <1>1, <1>4, NothingIs DEF Ringed
<1>9. Ringed'
  BY <1>6, <1>7, <1>8 DEF Ringed
<1> QED
  BY <1>2, <1>5, <1>9 DEF Queued, Walking

LEMMA InsertedFirst ==
    ASSUME NEW s \in Seq(Nodes), NEW n \in Nodes
    PROVE  Inserted(<<n>> \o s, s, 0, n)
<1>1. PICK t : t = <<n>> \o s
  OBVIOUS
<1>2. Len(s) \in Nat /\ t \in Seq(Nodes) /\ Len(t) = Len(s) + 1 /\ t[1] = n
  BY <1>1
<1>3. ASSUME NEW j \in (0 + 2) .. Len(s) + 1
      PROVE  t[j] = s[j - 1]
  <2>1. j - 1 \in 1 .. Len(s) /\ (j - 1) + 1 = j
    BY <1>2
  <2>2. t[(j - 1) + 1] = s[j - 1]
    BY <1>1, <2>1
  <2> QED
    BY <2>1, <2>2
<1>4. 0 + 1 = 1 /\ \A j \in 1 .. 0 : FALSE
  OBVIOUS
<1>5. Inserted(t, s, 0, n)
  BY <1>2, <1>3, <1>4 DEF Inserted
<1> QED
  BY <1>1, <1>5

LEMMA InsertedLast ==
    ASSUME NEW s \in Seq(Nodes), NEW n \in Nodes
    PROVE  Inserted(Append(s, n), s, Len(s), n)
BY DEF Inserted

LEMMA InsertedAt ==
    ASSUME NEW s \in Seq(Nodes), NEW n \in Nodes, NEW i \in 1 .. Len(s)
    PROVE  Inserted(Q!InsertAt(s, i + 1, n), s, i, n)
<1> DEFINE u == SubSeq(s, 1, i)
           w == SubSeq(s, i + 1, Len(s))
           m == u \o <<n>>
<1>1. Len(s) \in Nat /\ i \in Nat /\ 1 <= i /\ i <= Len(s) /\ (i + 1) - 1 = i
  OBVIOUS
<1>2. m \o w = Q!InsertAt(s, i + 1, n)
  BY <1>1 DEF Q!InsertAt
<1>3. u \in Seq(Nodes) /\ Len(u) = i /\ \A j \in 1 .. i : u[j] = s[j]
  BY <1>1
<1>4. w \in Seq(Nodes) /\ Len(w) = Len(s) - i /\ \A j \in 1 .. Len(s) - i : w[j] = s[j + i]
  BY <1>1
<1> HIDE DEF u, w
<1>5. m \in Seq(Nodes) /\ Len(m) = i + 1 /\ m[i + 1] = n /\ \A j \in 1 .. i : m[j] = s[j]
  BY <1>1, <1>3
<1> HIDE DEF m
<1>12. m \o w \in Seq(Nodes) /\ Len(m \o w) = Len(m) + Len(w)
  BY <1>4, <1>5, ConcatIs
<1>13. \A j \in 1 .. Len(m) : (m \o w)[j] = m[j]
  BY <1>4, <1>5, ConcatIs
<1>14. \A j \in 1 .. Len(w) : (m \o w)[Len(m) + j] = w[j]
  BY <1>4, <1>5, ConcatIs
<1>15. PICK t : t = m \o w
  OBVIOUS
<1>6. /\ t \in Seq(Nodes) /\ Len(t) = Len(m) + Len(w)
      /\ \A j \in 1 .. Len(m) : t[j] = m[j]
      /\ \A j \in 1 .. Len(w) : t[Len(m) + j] = w[j]
  BY <1>12, <1>13, <1>14, <1>15
<1>7. Len(t) = Len(s) + 1 /\ t[i + 1] = n /\ \A j \in 1 .. i : t[j] = s[j]
  <2>1. i + 1 \in 1 .. Len(m) /\ \A j \in 1 .. i : j \in 1 .. Len(m)
    BY <1>1, <1>5
  <2> QED
    BY <1>1, <1>4, <1>5, <1>6, <2>1
<1>8. ASSUME NEW j \in (i + 2) .. Len(s) + 1
      PROVE  t[j] = s[j - 1]
  <2>1. j - (i + 1) \in 1 .. Len(w) /\ Len(m) + (j - (i + 1)) = j /\ (j - (i + 1)) + i = j - 1
        /\ j - (i + 1) \in 1 .. Len(s) - i
    BY <1>1, <1>4, <1>5
  <2>2. t[Len(m) + (j - (i + 1))] = w[j - (i + 1)]
    BY <1>6, <2>1
  <2>3. w[j - (i + 1)] = s[(j - (i + 1)) + i]
    BY <1>4, <2>1
  <2> QED
    BY <2>1, <2>2, <2>3
<1>9. Inserted(t, s, i, n)
  BY <1>6, <1>7, <1>8 DEF Inserted
<1> QED
  BY <1>2, <1>9, <1>15

LEMMA PutIn ==
    ASSUME QueueTypes, Ringed, NEW q \in used, NEW n \in Nodes, n \in Q!Loose,
           NEW k \in 0 .. Len(placed[q]), Q!insert_after(At(placed[q], k, q), n),
           NEW t, Inserted(t, placed[q], k, n), placed' = [placed EXCEPT ![q] = t],
           used' = used, walk' \in Walks \cup {None}
    PROVE  QueueTypes' /\ Ringed'
<1> DEFINE s == placed[q]
           to == succ'
           from == pred'
           c == At(s, k, q)
           d == At(s, k + 1, q)
<1>1. /\ q \in Queues /\ q \in Q!Cells /\ q \notin Nodes
      /\ s \in Seq(Nodes) /\ Len(s) \in Nat /\ Once(s) /\ Holds(s) \subseteq Nodes
      /\ Ring(succ, pred, s, q)
  BY QueueIs
<1>2. \A r \in Queues : n \notin Holds(placed[r])
  BY DEF Q!Loose, Q!Contains, Holds
<1>3. k \in 0 .. Len(s) /\ Inserted(t, s, k, n) /\ n \notin Holds(s)
  BY <1>1, <1>2
<1>4. Q!Cells = Queues \cup Nodes /\ Nodes \cap Queues = {}
  BY QueueAssumption
<1> HIDE DEF s
<1>5. c \in Holds(s) \cup {q} /\ d \in Holds(s) \cup {q}
  <2>1. k \in Int /\ k + 1 \in Int
    BY <1>1
  <2> QED
    BY <1>1, <2>1, CellsAre
<1>6. succ[c] = d
  BY <1>1, <1>3 DEF Ring
<1>7. c \in Q!Cells /\ d \in Q!Cells /\ n \in Q!Cells /\ c # n /\ d # n
  BY <1>1, <1>3, <1>4, <1>5
<1>8. to = [succ EXCEPT ![n] = d, ![c] = n] /\ from = [pred EXCEPT ![n] = c, ![d] = n]
  BY <1>6 DEF Q!insert_after, s
<1> HIDE DEF c, d, to, from
<1>9. /\ to[n] = d /\ to[c] = n /\ \A x \in Q!Cells \ {n, c} : to[x] = succ[x]
      /\ from[n] = c /\ from[d] = n /\ \A x \in Q!Cells \ {n, d} : from[x] = pred[x]
      /\ to \in [Q!Cells -> Q!Cells \cup {None}] /\ from \in [Q!Cells -> Q!Cells \cup {None}]
  BY <1>7, <1>8 DEF QueueTypes
<1>10. /\ Once(t) /\ Holds(t) = Holds(s) \cup {n}
       /\ \A j \in 0 .. k : At(t, j, q) = At(s, j, q)
       /\ At(t, k + 1, q) = n
       /\ \A j \in (k + 2) .. Len(s) + 2 : At(t, j, q) = At(s, j - 1, q)
  <2>1. s \in Seq(Nodes) /\ Once(s) /\ n \notin Holds(s) /\ k \in 0 .. Len(s) /\ Inserted(t, s, k, n)
    BY <1>1, <1>3
  <2>2. Once(t) /\ Holds(t) = Holds(s) \cup {n} /\ CellsInserted(t, s, k, n, q)
    BY <2>1, InsertedIs
  <2> QED
    BY <2>2 DEF CellsInserted
<1>11. Ring(to, from, t, q)
  <2>1. Len(t) = Len(s) + 1
    BY <1>3 DEF Inserted
  <2>2. /\ to[n] = At(s, k + 1, q) /\ to[At(s, k, q)] = n
        /\ from[n] = At(s, k, q) /\ from[At(s, k + 1, q)] = n
    BY <1>9 DEF c, d
  <2>5. \A x \in Holds(s) \cup {q} : x \in Q!Cells /\ x # n
    BY <1>1, <1>3, <1>4
  <2>3. \A x \in (Holds(s) \cup {q}) \ {At(s, k, q)} : to[x] = succ[x]
    BY <1>9, <2>5 DEF c
  <2>4. \A x \in (Holds(s) \cup {q}) \ {At(s, k + 1, q)} : from[x] = pred[x]
    BY <1>9, <2>5 DEF d
  <2>6. PICK z, ta, fa, tb, fb : z = s /\ ta = succ /\ fa = pred /\ tb = to /\ fb = from
    OBVIOUS
  <2>7. /\ z \in Seq(Nodes) /\ Once(z) /\ q \notin Nodes /\ Ring(ta, fa, z, q)
        /\ k \in 0 .. Len(z) /\ n \in Nodes /\ n \notin Holds(z) /\ Len(t) = Len(z) + 1
    BY <1>1, <1>3, <2>1, <2>6
  <2>8. /\ \A j \in 0 .. k : At(t, j, q) = At(z, j, q)
        /\ At(t, k + 1, q) = n
        /\ \A j \in (k + 2) .. Len(z) + 2 : At(t, j, q) = At(z, j - 1, q)
    BY <1>10, <2>6
  <2>9. /\ tb[n] = At(z, k + 1, q) /\ tb[At(z, k, q)] = n
        /\ fb[n] = At(z, k, q) /\ fb[At(z, k + 1, q)] = n
        /\ \A x \in (Holds(z) \cup {q}) \ {At(z, k, q)} : tb[x] = ta[x]
        /\ \A x \in (Holds(z) \cup {q}) \ {At(z, k + 1, q)} : fb[x] = fa[x]
    BY <2>2, <2>3, <2>4, <2>6
  <2>10. Ring(tb, fb, t, q)
    BY <2>7, <2>8, <2>9, RingInserted, SMTT(30)
  <2> QED
    BY <2>6, <2>10
<1>12. placed'[q] = t /\ \A r \in Queues \ {q} : placed'[r] = placed[r]
  BY <1>1 DEF QueueTypes
<1>13. QueueTypes'
  <2>1. t \in Seq(Nodes)
    BY <1>3 DEF Inserted
  <2>2. placed' \in [Queues -> Seq(Nodes)]
    BY <1>1, <2>1 DEF QueueTypes
  <2> QED
    BY <1>9, <2>2 DEF QueueTypes, to, from
<1>14. ASSUME NEW r \in used'
       PROVE  Ring(succ', pred', placed'[r], r)
  <2>1. CASE r = q
    BY <1>11, <1>12, <2>1 DEF to, from
  <2>2. CASE r # q
    <3>1. r \in used /\ r \in Queues /\ r \in Q!Cells /\ Holds(placed[r]) \subseteq Nodes
      BY QueueIs
    <3>2. Holds(placed[r]) \cap Holds(s) = {}
      BY <1>1, <2>2, <3>1 DEF Ringed, s
    <3>3. \A x \in Holds(placed[r]) \cup {r} : x \in Q!Cells \ {n, c, d}
      BY <1>2, <1>4, <1>5, <1>1, <2>2, <3>1, <3>2
    <3>4. \A x \in Holds(placed[r]) \cup {r} : succ'[x] = succ[x] /\ pred'[x] = pred[x]
      BY <1>9, <3>3 DEF to, from
    <3> QED
      BY <1>12, <2>2, <3>1, <3>4, OthersKept
  <2> QED
    BY <2>1, <2>2
<1>15. \A r \in Queues : Once(placed'[r]) /\ (r \notin used' => placed'[r] = <<>>)
  BY <1>10, <1>12 DEF Ringed
<1>16. \A r, p \in Queues : r # p => Holds(placed'[r]) \cap Holds(placed'[p]) = {}
  <2>1. \A r \in Queues \ {q} : Holds(t) \cap Holds(placed[r]) = {}
    BY <1>1, <1>2, <1>10 DEF Ringed, s
  <2>2. \A r, p \in Queues : r # p => Holds(placed[r]) \cap Holds(placed[p]) = {}
    BY DEF Ringed
  <2> QED
    BY <1>12, <2>1, <2>2
<1>17. Ringed'
  BY <1>14, <1>15, <1>16 DEF Ringed
<1> QED
  BY <1>13, <1>17

LEMMA QueueInserts ==
    ASSUME Queued, NEW q \in Queues, NEW n \in Nodes, Q!inserts(q, n)
    PROVE  Queued'
<1>1. QueueTypes /\ Ringed
  BY DEF Queued
<1>2. q \in used /\ n \in Q!Loose /\ walk = None /\ walk' = walk /\ used' = used
  BY DEF Q!inserts, Q!Idle
<1>3. /\ placed[q] \in Seq(Nodes) /\ Len(placed[q]) \in Nat
      /\ succ[q] = At(placed[q], 1, q) /\ pred[q] = At(placed[q], Len(placed[q]), q)
  BY <1>1, <1>2, QueueIs
<1>4. \E k \in 0 .. Len(placed[q]) : \E t :
         /\ Q!insert_after(At(placed[q], k, q), n)
         /\ Inserted(t, placed[q], k, n)
         /\ placed' = [placed EXCEPT ![q] = t]
  <2> DEFINE s == placed[q]
  <2>1. s \in Seq(Nodes) /\ Len(s) \in Nat
    BY <1>3
  <2>2. CASE Q!insert(q, n)
    <3> DEFINE t == <<n>> \o s
    <3>1. Q!insert_after(q, n) /\ placed' = [placed EXCEPT ![q] = t]
      BY <2>2 DEF Q!insert
    <3>2. At(s, 0, q) = q /\ 0 \in 0 .. Len(s)
      BY <2>1 DEF At
    <3>3. Inserted(t, s, 0, n)
      BY <2>1, InsertedFirst
    <3> HIDE DEF t, s
    <3> QED
      BY <3>1, <3>2, <3>3 DEF s
  <2>3. CASE Q!append(q, n)
    <3> DEFINE t == Append(s, n)
    <3>1. Q!insert_after(At(s, Len(s), q), n) /\ placed' = [placed EXCEPT ![q] = t]
      BY <1>3, <2>3 DEF Q!append, Q!back
    <3>2. Len(s) \in 0 .. Len(s)
      BY <2>1
    <3>3. Inserted(t, s, Len(s), n)
      BY <2>1, InsertedLast
    <3> HIDE DEF t, s
    <3> QED
      BY <3>1, <3>2, <3>3 DEF s
  <2>4. CASE \E i \in DOMAIN s : Q!insertAt(q, i, n)
    <3>1. PICK i \in DOMAIN s : Q!insertAt(q, i, n)
      BY <2>4
    <3>2. i \in 1 .. Len(s) /\ i \in 0 .. Len(s)
      BY <2>1
    <3> DEFINE t == Q!InsertAt(s, i + 1, n)
    <3>3. Q!insert_after(At(s, i, q), n) /\ placed' = [placed EXCEPT ![q] = t]
      BY <3>1, <3>2 DEF Q!insertAt, At
    <3>4. Inserted(t, s, i, n)
      BY <2>1, <3>2, InsertedAt
    <3> HIDE DEF t, s
    <3> QED
      BY <3>2, <3>3, <3>4 DEF s
  <2> QED
    BY <2>2, <2>3, <2>4 DEF Q!inserts
<1>5. QueueTypes' /\ Ringed'
  BY <1>1, <1>2, <1>4, PutIn
<1> QED
  BY <1>2, <1>5 DEF Queued, Walking

LEMMA RemovedAt ==
    ASSUME NEW s \in Seq(Nodes), NEW k \in 1 .. Len(s)
    PROVE  Removed(Q!RemoveAt(s, k), s, k)
<1> DEFINE u == SubSeq(s, 1, k - 1)
           w == SubSeq(s, k + 1, Len(s))
<1>1. Len(s) \in Nat /\ k \in Nat /\ 1 <= k /\ k <= Len(s)
  OBVIOUS
<1>2. u \o w = Q!RemoveAt(s, k)
  BY <1>1 DEF Q!RemoveAt
<1>3. u \in Seq(Nodes) /\ Len(u) = k - 1 /\ \A j \in 1 .. k - 1 : u[j] = s[j]
  BY <1>1
<1>4. w \in Seq(Nodes) /\ Len(w) = Len(s) - k /\ \A j \in 1 .. Len(s) - k : w[j] = s[j + k]
  BY <1>1
<1> HIDE DEF u, w
<1>5. u \o w \in Seq(Nodes) /\ Len(u \o w) = Len(u) + Len(w)
  BY <1>3, <1>4, ConcatIs
<1>6. \A j \in 1 .. Len(u) : (u \o w)[j] = u[j]
  BY <1>3, <1>4, ConcatIs
<1>7. \A j \in 1 .. Len(w) : (u \o w)[Len(u) + j] = w[j]
  BY <1>3, <1>4, ConcatIs
<1>8. PICK t : t = u \o w
  OBVIOUS
<1>9. Len(t) = Len(s) - 1 /\ \A j \in 1 .. k - 1 : t[j] = s[j]
  BY <1>1, <1>3, <1>4, <1>5, <1>6, <1>8
<1>10. ASSUME NEW j \in k .. Len(s) - 1
       PROVE  t[j] = s[j + 1]
  <2>1. /\ j - (k - 1) \in 1 .. Len(w) /\ Len(u) + (j - (k - 1)) = j
        /\ (j - (k - 1)) + k = j + 1 /\ j - (k - 1) \in 1 .. Len(s) - k
    BY <1>1, <1>3, <1>4
  <2>2. (u \o w)[Len(u) + (j - (k - 1))] = w[j - (k - 1)]
    BY <1>7, <2>1
  <2>3. w[j - (k - 1)] = s[(j - (k - 1)) + k]
    BY <1>4, <2>1
  <2> QED
    BY <1>8, <2>1, <2>2, <2>3
<1>11. Removed(t, s, k)
  BY <1>5, <1>8, <1>9, <1>10 DEF Removed
<1> QED
  BY <1>2, <1>8, <1>11

\* A node that is taken out of its queue still knows what came behind it.
LEMMA TakenOut ==
    ASSUME QueueTypes, Ringed, NEW q \in used, NEW n \in Nodes, Q!remove(q, n),
           used' = used
    PROVE  /\ walk' \in Walks \cup {None} => QueueTypes'
           /\ Ringed' /\ succ'[n] = succ[n]
           /\ \E k \in 1 .. Len(placed[q]) :
                placed[q][k] = n /\ Removed(placed'[q], placed[q], k)
<1> DEFINE s == placed[q]
           to == succ'
           from == pred'
<1>1. /\ q \in Queues /\ q \in Q!Cells /\ q \notin Nodes
      /\ s \in Seq(Nodes) /\ Len(s) \in Nat /\ Once(s) /\ Holds(s) \subseteq Nodes
      /\ Ring(succ, pred, s, q)
      /\ \A i \in 1 .. Len(s) : succ[s[i]] = At(s, i + 1, q) /\ pred[s[i]] = At(s, i - 1, q)
  BY QueueIs
<1>2. PICK k \in DOMAIN s : s[k] = n /\ placed' = [placed EXCEPT ![q] = Q!RemoveAt(s, k)]
  BY DEF Q!remove
<1>3. Q!Cells = Queues \cup Nodes /\ Nodes \cap Queues = {}
  BY QueueAssumption
<1> HIDE DEF s
<1>4. k \in 1 .. Len(s) /\ k \in Nat /\ 1 <= k /\ k <= Len(s)
  BY <1>1, <1>2
<1>5. PICK c, d, t : c = At(s, k - 1, q) /\ d = At(s, k + 1, q) /\ t = Q!RemoveAt(s, k)
  OBVIOUS
<1>6. pred[n] = c /\ succ[n] = d
  BY <1>1, <1>2, <1>4, <1>5
<1>7. /\ \A i \in Int : At(s, i, q) \in Holds(s) \cup {q}
      /\ \A i \in 1 .. Len(s) : At(s, i, q) = s[i] /\ s[i] \in Holds(s)
      /\ \A i, j \in 0 .. Len(s) : At(s, i, q) = At(s, j, q) => i = j
      /\ \A i, j \in 1 .. Len(s) + 1 : At(s, i, q) = At(s, j, q) => i = j
  BY <1>1, CellsAre
<1>8. c \in Holds(s) \cup {q} /\ d \in Holds(s) \cup {q} /\ c # n /\ d # n /\ n \in Holds(s)
  <2>1. /\ k - 1 \in Int /\ k + 1 \in Int /\ k - 1 \in 0 .. Len(s) /\ k \in 0 .. Len(s)
        /\ k + 1 \in 1 .. Len(s) + 1 /\ k \in 1 .. Len(s) + 1 /\ k - 1 # k /\ k + 1 # k
    BY <1>1, <1>4
  <2>2. At(s, k, q) = n /\ n \in Holds(s)
    BY <1>2, <1>4, <1>7
  <2> QED
    BY <1>5, <1>7, <2>1, <2>2
<1>9. c \in Q!Cells /\ d \in Q!Cells
  BY <1>1, <1>3, <1>8
<1>10. to = [succ EXCEPT ![c] = d] /\ from = [pred EXCEPT ![d] = c]
  BY <1>6 DEF Q!remove, Q!unlink
<1> HIDE DEF to, from
<1>11. /\ to[c] = d /\ \A x \in Q!Cells \ {c} : to[x] = succ[x]
       /\ from[d] = c /\ \A x \in Q!Cells \ {d} : from[x] = pred[x]
       /\ to \in [Q!Cells -> Q!Cells \cup {None}] /\ from \in [Q!Cells -> Q!Cells \cup {None}]
  BY <1>9, <1>10 DEF QueueTypes
<1>12. Removed(t, s, k)
  BY <1>1, <1>4, <1>5, RemovedAt
<1>13. /\ Once(t) /\ Holds(t) \subseteq Holds(s)
       /\ \A j \in 0 .. k - 1 : At(t, j, q) = At(s, j, q)
       /\ \A j \in k .. Len(s) : At(t, j, q) = At(s, j + 1, q)
  <2>1. s \in Seq(Nodes) /\ Once(s) /\ k \in 1 .. Len(s) /\ Removed(t, s, k)
    BY <1>1, <1>4, <1>12
  <2>2. Once(t) /\ Holds(t) \subseteq Holds(s) /\ CellsRemoved(t, s, k, q)
    BY <2>1, RemovedIs
  <2> QED
    BY <2>2 DEF CellsRemoved
<1>14. Ring(to, from, t, q)
  <2>1. Len(t) = Len(s) - 1
    BY <1>12 DEF Removed
  <2>2. to[At(s, k - 1, q)] = At(s, k + 1, q) /\ from[At(s, k + 1, q)] = At(s, k - 1, q)
    BY <1>5, <1>11
  <2>3. \A x \in (Holds(s) \cup {q}) \ {At(s, k - 1, q)} : to[x] = succ[x]
    BY <1>1, <1>3, <1>5, <1>11
  <2>4. \A x \in (Holds(s) \cup {q}) \ {At(s, k + 1, q)} : from[x] = pred[x]
    BY <1>1, <1>3, <1>5, <1>11
  <2> QED
    BY <1>1, <1>4, <1>13, <2>1, <2>2, <2>3, <2>4, RingRemoved
<1>15. placed'[q] = t /\ \A r \in Queues \ {q} : placed'[r] = placed[r]
  BY <1>1, <1>2, <1>5 DEF QueueTypes, s
<1>16. ASSUME walk' \in Walks \cup {None}
       PROVE  QueueTypes'
  <2>1. t \in Seq(Nodes)
    BY <1>12 DEF Removed
  <2>2. placed' \in [Queues -> Seq(Nodes)]
    BY <1>1, <1>2, <1>5, <2>1 DEF QueueTypes, s
  <2> QED
    BY <1>11, <1>16, <2>2 DEF QueueTypes, to, from
<1>17. ASSUME NEW r \in used'
       PROVE  Ring(succ', pred', placed'[r], r)
  <2>1. CASE r = q
    BY <1>14, <1>15, <2>1 DEF to, from
  <2>2. CASE r # q
    <3>1. r \in used /\ r \in Queues /\ r \in Q!Cells /\ Holds(placed[r]) \subseteq Nodes
      BY QueueIs
    <3>2. Holds(placed[r]) \cap Holds(s) = {}
      BY <1>1, <2>2, <3>1 DEF Ringed, s
    <3>3. \A x \in Holds(placed[r]) \cup {r} : x \in Q!Cells \ {c, d}
      BY <1>1, <1>3, <1>8, <2>2, <3>1, <3>2
    <3>4. \A x \in Holds(placed[r]) \cup {r} : succ'[x] = succ[x] /\ pred'[x] = pred[x]
      BY <1>11, <3>3 DEF to, from
    <3> QED
      BY <1>15, <2>2, <3>1, <3>4, OthersKept
  <2> QED
    BY <2>1, <2>2
<1>18. \A r \in Queues : Once(placed'[r]) /\ (r \notin used' => placed'[r] = <<>>)
  BY <1>13, <1>15 DEF Ringed
<1>19. \A r, p \in Queues : r # p => Holds(placed'[r]) \cap Holds(placed'[p]) = {}
  <2>1. \A r, p \in Queues : r # p => Holds(placed[r]) \cap Holds(placed[p]) = {}
    BY DEF Ringed
  <2>2. \A r \in Queues : Holds(placed'[r]) \subseteq Holds(placed[r])
    BY <1>13, <1>15 DEF s
  <2> QED
    BY <2>1, <2>2
<1>20. Ringed'
  BY <1>17, <1>18, <1>19 DEF Ringed
<1>21. succ'[n] = succ[n]
  BY <1>3, <1>8, <1>11 DEF to
<1> QED
  BY <1>2, <1>4, <1>12, <1>15, <1>16, <1>20, <1>21 DEF s

LEMMA QueueRemoves ==
    ASSUME Queued, NEW q \in Queues, NEW n \in Nodes, Q!removes(q, n)
    PROVE  Queued'
<1>1. QueueTypes /\ Ringed
  BY DEF Queued
<1>2. q \in used /\ Q!remove(q, n) /\ walk = None /\ walk' = walk /\ used' = used
  BY DEF Q!removes, Q!Idle
<1>3. QueueTypes' /\ Ringed'
  BY <1>1, <1>2, TakenOut
<1> QED
  BY <1>2, <1>3 DEF Queued, Walking

\* The links, in cells of K, that a merge of r into q leaves.
Merged(to2, from2, to, from, q, r, tail, K) ==
    /\ to[r] = r => tail = from[q]
    /\ to[r] # r => tail = from[r]
    /\ to2[tail] = q
    /\ from[q] # tail => to2[from[q]] = to[r]
    /\ \A x \in K \ {tail, from[q]} : to2[x] = to[x]
    /\ from2[q] = tail
    /\ to[r] # q => from2[to[r]] = from[q]
    /\ \A x \in K \ {q, to[r]} : from2[x] = from[x]

SameBut(to2, from2, to, from, S, K) ==
    \A x \in K : x \notin S => to2[x] = to[x] /\ from2[x] = from[x]

\* They are a ring, whether there were nodes in either queue or not.
LEMMA MergedRing ==
    ASSUME NEW S, NEW s \in Seq(S), Once(s), NEW u \in Seq(S), Once(u),
           Holds(s) \cap Holds(u) = {}, NEW q, q \notin S, NEW r, r \notin S, q # r,
           NEW K, S \subseteq K, q \in K, r \in K,
           NEW to, NEW from, NEW to2, NEW from2, Ring(to, from, s, q), Ring(to, from, u, r),
           NEW tail, Merged(to2, from2, to, from, q, r, tail, K)
    PROVE  /\ Ring(to2, from2, s \o u, q)
           /\ SameBut(to2, from2, to, from, Holds(s) \cup Holds(u) \cup {q, r}, K)
<1>1. Len(s) \in Nat /\ Len(u) \in Nat
  OBVIOUS
<1>2. Holds(s) \subseteq S /\ Holds(u) \subseteq S
  BY HoldsIn
<1>3. PICK z : z = At(s, Len(s), q)
  OBVIOUS
<1>4. z \in Holds(s) \cup {q} /\ z \in K
  BY <1>1, <1>2, <1>3, CellsAre
<1>5. from[q] = z /\ to[z] = q
  <2>1. At(s, Len(s) + 1, q) = q /\ Len(s) \in 0 .. Len(s)
    BY <1>1, CellsAre
  <2> QED
    BY <1>3, <2>1 DEF Ring
<1>6. CASE u = <<>>
  <2>1. to[r] = r /\ from[r] = r
    <3>1. At(u, 0, r) = r /\ At(u, 0 + 1, r) = r /\ 0 \in 0 .. Len(u)
      BY <1>6 DEF At
    <3> QED
      BY <3>1 DEF Ring
  <2>2. tail = z
    BY <1>5, <2>1 DEF Merged
  <2>3. \A x \in K : to2[x] = to[x] /\ (x # r => from2[x] = from[x])
    BY <1>4, <1>5, <2>1, <2>2 DEF Merged
  <2>4. \A x \in Holds(s) \cup {q} : to2[x] = to[x] /\ from2[x] = from[x]
    BY <1>2, <2>3
  <2>5. Ring(to2, from2, s, q)
    BY <2>4, RingKept
  <2>6. s \o u = s
    BY <1>6
  <2> QED
    BY <2>3, <2>5, <2>6 DEF SameBut
<1>7. CASE u # <<>>
  <2>1. Len(u) \in Nat \ {0}
    BY <1>7, EmptySeq
  <2>2. PICK x, y : x = u[1] /\ y = u[Len(u)]
    OBVIOUS
  <2>3. x \in Holds(u) /\ y \in Holds(u)
    <3>1. 1 \in 1 .. Len(u) /\ Len(u) \in 1 .. Len(u)
      BY <2>1
    <3> QED
      BY <2>2, <3>1 DEF Holds
  <2>4. to[r] = x /\ from[r] = y
    <3>1. /\ 0 \in 0 .. Len(u) /\ Len(u) \in 0 .. Len(u) /\ 0 + 1 = 1
          /\ 1 \in 1 .. Len(u) /\ Len(u) \in 1 .. Len(u)
      BY <2>1
    <3>2. /\ At(u, 0, r) = r /\ At(u, Len(u) + 1, r) = r
          /\ At(u, 1, r) = x /\ At(u, Len(u), r) = y
      BY <2>2, <3>1, CellsAre
    <3> QED
      BY <3>1, <3>2 DEF Ring
  <2>5. x \in K /\ y \in K /\ x # q /\ y # q /\ x # r /\ y # r /\ y # z /\ x # z
    BY <1>2, <1>4, <2>3
  <2>6. tail = y
    BY <2>4, <2>5 DEF Merged
  <2>7. /\ to2[z] = x /\ to2[y] = q /\ \A c \in K \ {y, z} : to2[c] = to[c]
        /\ from2[x] = z /\ from2[q] = y /\ \A c \in K \ {x, q} : from2[c] = from[c]
    BY <1>4, <1>5, <2>4, <2>5, <2>6 DEF Merged
  <2>8. /\ \A c \in (Holds(s) \cup Holds(u) \cup {q}) \ {y, z} : to2[c] = to[c]
        /\ \A c \in (Holds(s) \cup Holds(u) \cup {q}) \ {x, q} : from2[c] = from[c]
    BY <1>2, <2>7
  <2>9. Ring(to2, from2, s \o u, q)
    BY <1>3, <1>7, <2>2, <2>7, <2>8, RingJoined
  <2>10. \A c \in K : c \notin Holds(s) \cup Holds(u) \cup {q, r} =>
            to2[c] = to[c] /\ from2[c] = from[c]
    BY <1>4, <2>3, <2>7
  <2> QED
    BY <2>9, <2>10 DEF SameBut
<1> QED
  BY <1>6, <1>7

LEMMA QueueMerges ==
    ASSUME Queued, NEW q \in Queues, NEW r \in Queues, Q!merge(q, r)
    PROVE  Queued'
<1> DEFINE s == placed[q]
           u == placed[r]
           to == succ'
           from == pred'
<1>1. QueueTypes /\ Ringed
  BY DEF Queued
<1>2. /\ walk = None /\ walk' = walk /\ q \in used /\ r \in used /\ q # r
      /\ used' = used \ {r} /\ placed' = [placed EXCEPT ![q] = s \o u, ![r] = <<>>]
  BY DEF Q!merge, Q!Idle
<1>3. /\ q \in Q!Cells /\ q \notin Nodes /\ r \in Q!Cells /\ r \notin Nodes
      /\ s \in Seq(Nodes) /\ Len(s) \in Nat /\ Once(s) /\ Holds(s) \subseteq Nodes
      /\ u \in Seq(Nodes) /\ Len(u) \in Nat /\ Once(u) /\ Holds(u) \subseteq Nodes
      /\ Ring(succ, pred, s, q) /\ Ring(succ, pred, u, r)
  BY <1>1, <1>2, QueueIs
<1>4. Holds(s) \cap Holds(u) = {}
  BY <1>1, <1>2 DEF Ringed
<1>5. Nodes \subseteq Q!Cells /\ Queues \subseteq Q!Cells /\ Nodes \cap Queues = {}
  BY QueueAssumption
<1>6. succ[r] \in Q!Cells /\ pred[q] \in Q!Cells /\ pred[r] \in Q!Cells
  <2>1. \A i \in Int : At(s, i, q) \in Holds(s) \cup {q} /\ At(u, i, r) \in Holds(u) \cup {r}
    BY <1>3, CellsAre
  <2>2. Len(s) \in Int /\ Len(u) \in Int /\ 1 \in Int
    BY <1>3
  <2>3. succ[r] = At(u, 1, r) /\ pred[q] = At(s, Len(s), q) /\ pred[r] = At(u, Len(u), r)
    BY <1>1, <1>2, QueueIs
  <2> QED
    BY <1>3, <1>5, <2>1, <2>2, <2>3
<1>7. PICK p, tail : p = [pred EXCEPT ![succ[r]] = pred[q]] /\ tail = p[r]
  OBVIOUS
<1>8. to = [succ EXCEPT ![pred[q]] = succ[r], ![tail] = q] /\ from = [p EXCEPT ![q] = tail]
  BY <1>7 DEF Q!merge
<1> HIDE DEF s, u, to, from
<1>9. /\ (succ[r] = r => tail = pred[q]) /\ (succ[r] # r => tail = pred[r])
      /\ p \in [Q!Cells -> Q!Cells \cup {None}] /\ p[succ[r]] = pred[q]
      /\ \A x \in Q!Cells \ {succ[r]} : p[x] = pred[x]
  BY <1>1, <1>3, <1>6, <1>7 DEF QueueTypes
<1>10. tail \in Q!Cells
  BY <1>6, <1>9
<1>11. /\ to[tail] = q /\ (pred[q] # tail => to[pred[q]] = succ[r])
       /\ \A x \in Q!Cells \ {tail, pred[q]} : to[x] = succ[x]
       /\ to \in [Q!Cells -> Q!Cells \cup {None}]
  BY <1>1, <1>3, <1>6, <1>8, <1>10 DEF QueueTypes
<1>12. /\ from[q] = tail /\ (succ[r] # q => from[succ[r]] = pred[q])
       /\ \A x \in Q!Cells \ {q, succ[r]} : from[x] = pred[x]
       /\ from \in [Q!Cells -> Q!Cells \cup {None}]
  BY <1>1, <1>3, <1>6, <1>8, <1>9, <1>10 DEF QueueTypes
<1>13. /\ Ring(to, from, s \o u, q)
       /\ \A x \in Q!Cells : x \notin Holds(s) \cup Holds(u) \cup {q, r} =>
            to[x] = succ[x] /\ from[x] = pred[x]
  <2>1. PICK K, to1, from1 : K = Q!Cells /\ to1 = succ /\ from1 = pred
    OBVIOUS
  <2>2. /\ Nodes \subseteq K /\ q \in K /\ r \in K
        /\ Ring(to1, from1, s, q) /\ Ring(to1, from1, u, r)
        /\ Merged(to, from, to1, from1, q, r, tail, K)
    BY <1>3, <1>5, <1>9, <1>11, <1>12, <2>1 DEF Merged
  <2>3. /\ Ring(to, from, s \o u, q)
        /\ SameBut(to, from, to1, from1, Holds(s) \cup Holds(u) \cup {q, r}, K)
    BY <1>2, <1>3, <1>4, <2>2, MergedRing
  <2> QED
    BY <2>1, <2>3 DEF SameBut
<1>14. PICK t : t = s \o u
  OBVIOUS
<1>15. t \in Seq(Nodes) /\ Once(t) /\ Holds(t) = Holds(s) \cup Holds(u)
  BY <1>3, <1>4, <1>14, JoinIs
<1>16. placed'[q] = t /\ placed'[r] = <<>> /\ \A o \in Queues \ {q, r} : placed'[o] = placed[o]
  BY <1>1, <1>2, <1>14 DEF QueueTypes
<1>17. QueueTypes'
  <2>1. <<>> \in Seq(Nodes)
    OBVIOUS
  <2>2. placed' \in [Queues -> Seq(Nodes)]
    BY <1>1, <1>2, <1>14, <1>15, <2>1 DEF QueueTypes
  <2> QED
    BY <1>1, <1>2, <1>11, <1>12, <2>2 DEF QueueTypes, to, from
<1>18. ASSUME NEW o \in used'
       PROVE  Ring(succ', pred', placed'[o], o)
  <2>1. CASE o = q
    BY <1>13, <1>14, <1>16, <2>1 DEF to, from
  <2>2. CASE o # q
    <3>1. /\ o \in used /\ o # r /\ o \in Queues /\ o \in Q!Cells
          /\ Holds(placed[o]) \subseteq Nodes
      BY <1>1, <1>2, QueueIs
    <3>2. Holds(placed[o]) \cap (Holds(s) \cup Holds(u)) = {}
      BY <1>1, <2>2, <3>1 DEF Ringed, s, u
    <3>3. \A x \in Holds(placed[o]) \cup {o} :
             x \in Q!Cells /\ x \notin Holds(s) \cup Holds(u) \cup {q, r}
      BY <1>3, <1>5, <2>2, <3>1, <3>2
    <3>4. \A x \in Holds(placed[o]) \cup {o} : succ'[x] = succ[x] /\ pred'[x] = pred[x]
      BY <1>13, <3>3 DEF to, from
    <3> QED
      BY <1>1, <1>16, <2>2, <3>1, <3>4, OthersKept
  <2> QED
    BY <2>1, <2>2
<1>19. \A o \in Queues : Once(placed'[o]) /\ (o \notin used' => placed'[o] = <<>>)
  BY <1>1, <1>2, <1>15, <1>16, NothingIs DEF Ringed
<1>20. \A o, w \in Queues : o # w => Holds(placed'[o]) \cap Holds(placed'[w]) = {}
  <2>1. \A o, w \in Queues : o # w => Holds(placed[o]) \cap Holds(placed[w]) = {}
    BY <1>1 DEF Ringed
  <2>2. \A o \in Queues \ {q, r} :
          Holds(placed[o]) \cap Holds(s) = {} /\ Holds(placed[o]) \cap Holds(u) = {}
    BY <2>1 DEF s, u
  <2>3. Holds(placed'[r]) = {} /\ Holds(placed'[q]) = Holds(s) \cup Holds(u)
    BY <1>15, <1>16, NothingIs
  <2>4. \A o \in Queues \ {q, r} : Holds(placed'[o]) = Holds(placed[o])
    BY <1>16
  <2> QED
    BY <2>1, <2>2, <2>3, <2>4
<1>21. Ringed'
  BY <1>18, <1>19, <1>20 DEF Ringed
<1> QED
  BY <1>2, <1>17, <1>21 DEF Queued, Walking

LEMMA SortedIs ==
    ASSUME NEW o \in Seq(Nodes), NEW t \in Q!Sorted(o)
    PROVE  t \in Seq(Nodes) /\ Len(t) = Len(o) /\ Once(t) /\ Holds(t) \subseteq Holds(o)
<1>1. Len(o) \in Nat /\ DOMAIN o = 1 .. Len(o) /\ Q!ToSet(o) = Holds(o) /\ Holds(o) \subseteq Nodes
  BY HoldsIn DEF Q!ToSet, Holds
<1>2. /\ t \in [1 .. Len(o) -> Holds(o)]
      /\ \A i, j \in 1 .. Len(o) : i < j => t[i] < t[j]
  BY <1>1 DEF Q!Sorted
<1>3. t \in Seq(Holds(o)) /\ Len(t) = Len(o)
  BY <1>1, <1>2
<1>4. \A i \in 1 .. Len(t) : t[i] \in Holds(o) /\ t[i] \in Int
  BY <1>1, <1>2, <1>3, QueueAssumption
<1>5. t \in Seq(Nodes)
  BY <1>1, <1>3, SeqMonotonic
<1>6. Holds(t) \subseteq Holds(o)
  BY <1>4 DEF Holds
<1>7. ASSUME NEW i \in 1 .. Len(t), NEW j \in 1 .. Len(t), t[i] = t[j]
      PROVE  i = j
  <2>1. i < j => t[i] < t[j]
    BY <1>2, <1>3
  <2>2. j < i => t[j] < t[i]
    BY <1>2, <1>3
  <2>3. ~ t[i] < t[j] /\ ~ t[j] < t[i]
    BY <1>4, <1>7
  <2>4. i \in Int /\ j \in Int
    BY <1>1, <1>3
  <2> QED
    BY <2>1, <2>2, <2>3, <2>4
<1> QED
  BY <1>3, <1>5, <1>6, <1>7 DEF Once

LEMMA QueueSorts ==
    ASSUME Queued, NEW q \in Queues, Q!sort(q)
    PROVE  Queued'
<1> DEFINE o == placed[q]
           to == succ'
           from == pred'
<1>1. QueueTypes /\ Ringed
  BY DEF Queued
<1>2. q \in used /\ walk = None /\ walk' = walk /\ used' = used
  BY DEF Q!sort, Q!Idle
<1>3. q \in Q!Cells /\ q \notin Nodes /\ o \in Seq(Nodes) /\ Holds(o) \subseteq Nodes
  BY <1>1, <1>2, QueueIs
<1>4. Nodes \subseteq Q!Cells /\ Queues \subseteq Q!Cells /\ Nodes \cap Queues = {}
  BY QueueAssumption
<1>5. PICK t \in Q!Sorted(o) :
        /\ succ' = [n \in Q!Cells |->
             IF n = q THEN IF 1 \in DOMAIN t THEN t[1] ELSE q
             ELSE IF Q!Contains(t, n)
                  THEN IF (CHOOSE i \in DOMAIN t : t[i] = n) + 1 \in DOMAIN t
                       THEN t[(CHOOSE i \in DOMAIN t : t[i] = n) + 1] ELSE q
                  ELSE succ[n]]
        /\ pred' = [n \in Q!Cells |->
             IF n = q THEN IF Len(t) \in DOMAIN t THEN t[Len(t)] ELSE q
             ELSE IF Q!Contains(t, n)
                  THEN IF (CHOOSE i \in DOMAIN t : t[i] = n) - 1 \in DOMAIN t
                       THEN t[(CHOOSE i \in DOMAIN t : t[i] = n) - 1] ELSE q
                  ELSE pred[n]]
        /\ placed' = [placed EXCEPT ![q] = t]
  BY Zenon DEF Q!sort
<1> HIDE DEF o
<1>6. t \in Seq(Nodes) /\ Len(t) \in Nat /\ DOMAIN t = 1 .. Len(t) /\ Once(t) /\ Holds(t) \subseteq Holds(o)
  BY <1>3, SortedIs
<1>7. \A n : Q!Contains(t, n) <=> n \in Holds(t)
  BY <1>6 DEF Q!Contains, Holds
<1>8. \A i \in 1 .. Len(t) : (CHOOSE j \in DOMAIN t : t[j] = t[i]) = i
  BY <1>6 DEF Once
<1>9. /\ to[q] = At(t, 1, q) /\ from[q] = At(t, Len(t), q)
      /\ \A n \in Q!Cells : n # q /\ n \notin Holds(t) => to[n] = succ[n] /\ from[n] = pred[n]
  BY <1>3, <1>5, <1>6, <1>7 DEF At
<1>10. ASSUME NEW i \in 1 .. Len(t)
       PROVE  to[t[i]] = At(t, i + 1, q) /\ from[t[i]] = At(t, i - 1, q)
  <2>1. t[i] \in Holds(t) /\ t[i] \in Q!Cells /\ t[i] # q /\ Q!Contains(t, t[i])
    BY <1>3, <1>4, <1>6, <1>7 DEF Holds
  <2>2. (CHOOSE j \in DOMAIN t : t[j] = t[i]) = i
    BY <1>8
  <2>3. to[t[i]] = IF i + 1 \in DOMAIN t THEN t[i + 1] ELSE q
    <3>1. to[t[i]] = IF (CHOOSE j \in DOMAIN t : t[j] = t[i]) + 1 \in DOMAIN t
                     THEN t[(CHOOSE j \in DOMAIN t : t[j] = t[i]) + 1] ELSE q
      BY <1>5, <2>1, Zenon
    <3> QED
      BY <2>2, <3>1, Zenon
  <2>4. from[t[i]] = IF i - 1 \in DOMAIN t THEN t[i - 1] ELSE q
    <3>1. from[t[i]] = IF (CHOOSE j \in DOMAIN t : t[j] = t[i]) - 1 \in DOMAIN t
                       THEN t[(CHOOSE j \in DOMAIN t : t[j] = t[i]) - 1] ELSE q
      BY <1>5, <2>1, Zenon
    <3> QED
      BY <2>2, <3>1, Zenon
  <2> QED
    BY <1>6, <2>3, <2>4 DEF At
<1> HIDE DEF to, from
<1>11. Ring(to, from, t, q)
  BY <1>6, <1>9, <1>10, RingSorted
<1>12. placed'[q] = t /\ \A r \in Queues \ {q} : placed'[r] = placed[r]
  BY <1>1, <1>5 DEF QueueTypes
<1>13. QueueTypes'
  <2>1. placed' \in [Queues -> Seq(Nodes)]
    BY <1>1, <1>5, <1>6 DEF QueueTypes
  <2>2. \A i \in Int : At(t, i, q) \in Q!Cells
    BY <1>3, <1>4, <1>6, HoldsIn, CellsAre
  <2>3. ASSUME NEW n \in Q!Cells
        PROVE  to[n] \in Q!Cells \cup {None} /\ from[n] \in Q!Cells \cup {None}
    <3>1. CASE n = q
      BY <1>6, <1>9, <2>2, <3>1
    <3>2. CASE n # q /\ n \notin Holds(t)
      BY <1>1, <1>9, <3>2 DEF QueueTypes
    <3>3. CASE n \in Holds(t)
      <4>1. PICK i \in 1 .. Len(t) : n = t[i]
        BY <3>3 DEF Holds
      <4>2. i + 1 \in Int /\ i - 1 \in Int
        BY <1>6
      <4> QED
        BY <1>10, <2>2, <4>1, <4>2
    <3> QED
      BY <3>1, <3>2, <3>3
  <2>4. DOMAIN to = Q!Cells /\ DOMAIN from = Q!Cells /\ to = [n \in Q!Cells |-> to[n]] /\ from = [n \in Q!Cells |-> from[n]]
    BY <1>5 DEF to, from
  <2>5. to \in [Q!Cells -> Q!Cells \cup {None}] /\ from \in [Q!Cells -> Q!Cells \cup {None}]
    BY <2>3, <2>4
  <2> QED
    BY <1>1, <1>2, <2>1, <2>5 DEF QueueTypes, to, from
<1>14. ASSUME NEW r \in used'
       PROVE  Ring(succ', pred', placed'[r], r)
  <2>1. CASE r = q
    BY <1>11, <1>12, <2>1 DEF to, from
  <2>2. CASE r # q
    <3>1. r \in used /\ r \in Queues /\ r \in Q!Cells /\ Holds(placed[r]) \subseteq Nodes
      BY <1>1, <1>2, QueueIs
    <3>2. Holds(placed[r]) \cap Holds(o) = {}
      BY <1>1, <2>2, <3>1 DEF Ringed, o
    <3>3. \A x \in Holds(placed[r]) \cup {r} : x \in Q!Cells /\ x # q /\ x \notin Holds(t)
      BY <1>3, <1>4, <1>6, <2>2, <3>1, <3>2
    <3>4. \A x \in Holds(placed[r]) \cup {r} : succ'[x] = succ[x] /\ pred'[x] = pred[x]
      BY <1>9, <3>3 DEF to, from
    <3> QED
      BY <1>1, <1>12, <2>2, <3>1, <3>4, OthersKept
  <2> QED
    BY <2>1, <2>2
<1>15. \A r \in Queues : Once(placed'[r]) /\ (r \notin used' => placed'[r] = <<>>)
  BY <1>1, <1>2, <1>6, <1>12 DEF Ringed
<1>16. \A r, p \in Queues : r # p => Holds(placed'[r]) \cap Holds(placed'[p]) = {}
  <2>1. \A r, p \in Queues : r # p => Holds(placed[r]) \cap Holds(placed[p]) = {}
    BY <1>1 DEF Ringed
  <2>2. \A r \in Queues : Holds(placed'[r]) \subseteq Holds(placed[r])
    BY <1>6, <1>12 DEF o
  <2> QED
    BY <2>1, <2>2
<1>17. Ringed'
  BY <1>14, <1>15, <1>16 DEF Ringed
<1> QED
  BY <1>2, <1>13, <1>17 DEF Queued, Walking

\* What is before the place i and what is from it on, when the place moves on.
LEMMA RestIs ==
    ASSUME NEW S, NEW s \in Seq(S), NEW i \in 1 .. Len(s), NEW a \in Seq(S)
    PROVE  a \o SubSeq(s, i, Len(s)) = Append(a, s[i]) \o SubSeq(s, i + 1, Len(s))
<1> DEFINE u == SubSeq(s, i, Len(s))
           w == SubSeq(s, i + 1, Len(s))
           b == Append(a, s[i])
<1>1. Len(s) \in Nat /\ i \in Nat /\ 1 <= i /\ i <= Len(s) /\ Len(a) \in Nat
  OBVIOUS
<1>2. u \in Seq(S) /\ Len(u) = Len(s) - i + 1 /\ \A j \in 1 .. Len(s) - i + 1 : u[j] = s[j + i - 1]
  BY <1>1
<1>3. w \in Seq(S) /\ Len(w) = Len(s) - i /\ \A j \in 1 .. Len(s) - i : w[j] = s[j + i]
  BY <1>1
<1>4. b \in Seq(S) /\ Len(b) = Len(a) + 1 /\ b[Len(a) + 1] = s[i] /\ \A j \in 1 .. Len(a) : b[j] = a[j]
  BY <1>1
<1> HIDE DEF u, w, b
<1>5. /\ a \o u \in Seq(S) /\ Len(a \o u) = Len(a) + Len(u)
      /\ b \o w \in Seq(S) /\ Len(b \o w) = Len(b) + Len(w)
  BY <1>2, <1>3, <1>4, ConcatIs
<1>6. /\ \A j \in 1 .. Len(a) : (a \o u)[j] = a[j]
      /\ \A j \in 1 .. Len(u) : (a \o u)[Len(a) + j] = u[j]
  BY <1>2, ConcatIs
<1>7. /\ \A j \in 1 .. Len(b) : (b \o w)[j] = b[j]
      /\ \A j \in 1 .. Len(w) : (b \o w)[Len(b) + j] = w[j]
  BY <1>3, <1>4, ConcatIs, SMTT(30)
<1>8. PICK x, y : x = a \o u /\ y = b \o w
  OBVIOUS
<1>9. ASSUME NEW j \in 1 .. Len(x)
      PROVE  x[j] = y[j]
  <2>1. j \in Int /\ 1 <= j /\ j <= Len(a) + Len(s) - i + 1
    BY <1>1, <1>2, <1>5, <1>8
  <2>2. CASE j <= Len(a)
    <3>1. j \in 1 .. Len(a) /\ j \in 1 .. Len(b)
      BY <1>1, <1>4, <2>1, <2>2
    <3> QED
      BY <1>4, <1>6, <1>7, <1>8, <3>1
  <2>3. CASE j = Len(a) + 1
    <3>1. 1 \in 1 .. Len(u) /\ Len(a) + 1 \in 1 .. Len(b) /\ 1 \in 1 .. Len(s) - i + 1 /\ 1 + i - 1 = i
      BY <1>1, <1>2, <1>4
    <3>2. x[Len(a) + 1] = u[1] /\ u[1] = s[1 + i - 1]
      BY <1>2, <1>6, <1>8, <3>1
    <3>3. y[Len(a) + 1] = b[Len(a) + 1]
      BY <1>7, <1>8, <3>1
    <3> QED
      BY <1>4, <2>3, <3>1, <3>2, <3>3
  <2>4. CASE j > Len(a) + 1
    <3>1. PICK m, n : m = j - Len(a) /\ n = j - Len(a) - 1
      OBVIOUS
    <3>2. /\ m \in 1 .. Len(u) /\ m \in 1 .. Len(s) - i + 1 /\ Len(a) + m = j
          /\ n \in 1 .. Len(w) /\ n \in 1 .. Len(s) - i /\ Len(b) + n = j
          /\ m + i - 1 = n + i
      BY <1>1, <1>2, <1>3, <1>4, <2>1, <2>4, <3>1
    <3>3. (a \o u)[Len(a) + m] = u[m] /\ u[m] = s[m + i - 1]
      BY <1>2, <1>6, <3>2
    <3>4. (b \o w)[Len(b) + n] = w[n] /\ w[n] = s[n + i]
      BY <1>3, <1>7, <3>2
    <3> QED
      BY <1>8, <3>2, <3>3, <3>4
  <2> QED
    BY <1>1, <2>1, <2>2, <2>3, <2>4
<1>10. x \in Seq(S) /\ y \in Seq(S) /\ Len(x) = Len(y)
  <2>1. x \in Seq(S) /\ y \in Seq(S) /\ Len(x) = Len(a) + Len(u) /\ Len(y) = Len(b) + Len(w)
    BY <1>5, <1>8
  <2> QED
    BY <1>1, <1>2, <1>3, <1>4, <2>1
<1>11. x = y
  BY <1>9, <1>10, SeqEqual
<1> QED
  BY <1>8, <1>11 DEF u, w, b

LEMMA ShorterRest ==
    ASSUME NEW s \in Seq(Nodes), NEW i \in 1 .. Len(s), NEW t, Removed(t, s, i)
    PROVE  SubSeq(t, i, Len(t)) = SubSeq(s, i + 1, Len(s))
<1>1. Len(s) \in Nat /\ i \in Nat /\ 1 <= i /\ i <= Len(s) /\ Len(t) = Len(s) - 1 /\ t \in Seq(Nodes)
  BY DEF Removed
<1>2. PICK x, y : x = SubSeq(t, i, Len(t)) /\ y = SubSeq(s, i + 1, Len(s))
  OBVIOUS
<1>3. x \in Seq(Nodes) /\ Len(x) = Len(s) - i /\ \A j \in 1 .. Len(s) - i : x[j] = t[j + i - 1]
  BY <1>1, <1>2
<1>4. y \in Seq(Nodes) /\ Len(y) = Len(s) - i /\ \A j \in 1 .. Len(s) - i : y[j] = s[j + i]
  BY <1>1, <1>2
<1>5. ASSUME NEW j \in 1 .. Len(x)
      PROVE  x[j] = y[j]
  <2>1. j \in 1 .. Len(s) - i /\ j + i - 1 \in i .. Len(s) - 1 /\ (j + i - 1) + 1 = j + i
    BY <1>1, <1>3
  <2>2. t[j + i - 1] = s[(j + i - 1) + 1]
    BY <2>1 DEF Removed
  <2> QED
    BY <1>3, <1>4, <2>1, <2>2
<1>6. x = y
  BY <1>3, <1>4, <1>5, SeqEqual
<1> QED
  BY <1>2, <1>6

LEMMA QueueBegins ==
    ASSUME Queued, NEW q \in Queues, Q!begin(q)
    PROVE  Queued'
<1> DEFINE s == placed[q]
<1>1. QueueTypes /\ Ringed
  BY DEF Queued
<1>2. /\ q \in used /\ UNCHANGED <<succ, pred, used, placed>>
      /\ walk' = [queue |-> q, at |-> succ[q], seen |-> <<>>, all |-> placed[q]]
  BY DEF Q!begin
<1>3. /\ s \in Seq(Nodes) /\ Len(s) \in Nat /\ succ[q] = At(s, 1, q)
      /\ q \in Q!Cells /\ \A i \in Int : At(s, i, q) \in Holds(s) \cup {q}
      /\ Holds(s) \subseteq Q!Cells
  <2>1. q \in Queues /\ q \in Q!Cells /\ q \notin Nodes /\ s \in Seq(Nodes) /\ Once(s)
        /\ Len(s) \in Nat /\ succ[q] = At(s, 1, q) /\ Holds(s) \subseteq Nodes
    BY <1>1, <1>2, QueueIs
  <2>2. \A i \in Int : At(s, i, q) \in Holds(s) \cup {q}
    BY <2>1, CellsAre
  <2> QED
    BY <2>1, <2>2, QueueAssumption
<1>4. succ[q] \in Q!Cells
  <2>1. 1 \in Int
    OBVIOUS
  <2> QED
    BY <1>3, <2>1
<1>5. walk' \in Walks
  <2>1. <<>> \in Seq(Nodes)
    OBVIOUS
  <2> QED
    BY <1>2, <1>3, <1>4, <2>1 DEF Walks
<1>6. walk'.queue = q /\ walk'.at = At(s, 1, q) /\ walk'.seen = <<>> /\ walk'.all = s
  BY <1>2, <1>3
<1>7. s = <<>> \o SubSeq(s, 1, Len(s)) /\ 1 \in 1 .. Len(s) + 1
  BY <1>3
<1>8. placed' = placed /\ used' = used
  BY <1>2
<1>9. Walking'
  <2>1. walk'.queue \in used' /\ placed'[walk'.queue] = s
    BY <1>2, <1>6, <1>8
  <2> HIDE DEF s
  <2>2. \E i \in 1 .. Len(s) + 1 :
           walk'.at = At(s, i, q) /\ walk'.all = walk'.seen \o SubSeq(s, i, Len(s))
    BY <1>6, <1>7
  <2> QED
    BY <1>6, <2>1, <2>2 DEF Walking
<1>10. QueueTypes' /\ Ringed'
  BY <1>1, <1>2, <1>5 DEF QueueTypes, Ringed
<1> QED
  BY <1>9, <1>10 DEF Queued

LEMMA QueueIncrements ==
    ASSUME Queued, Q!increment
    PROVE  Queued'
<1>1. QueueTypes /\ Ringed /\ Walking
  BY DEF Queued
<1>2. /\ walk # None /\ walk.at # walk.queue /\ used' = used
      /\ Q!remove(walk.queue, walk.at) \/ UNCHANGED <<succ, pred, placed>>
      /\ walk' = [walk EXCEPT !.seen = Append(@, walk.at), !.at = succ'[@]]
  BY DEF Q!increment, Q!Idle
<1>3. walk \in Walks
  BY <1>1, <1>2 DEF QueueTypes
<1>4. PICK q, s, x : q = walk.queue /\ s = placed[q] /\ x = walk.at
  OBVIOUS
<1>5. q \in used /\ x # q
  BY <1>1, <1>2, <1>4 DEF Walking
<1>6. PICK i \in 1 .. Len(s) + 1 :
        x = At(s, i, q) /\ walk.all = walk.seen \o SubSeq(s, i, Len(s))
  BY <1>1, <1>2, <1>4 DEF Walking
<1>7. /\ q \in Queues /\ q \in Q!Cells /\ q \notin Nodes
      /\ s \in Seq(Nodes) /\ Len(s) \in Nat /\ Once(s) /\ Holds(s) \subseteq Nodes
      /\ \A j \in 1 .. Len(s) : succ[s[j]] = At(s, j + 1, q)
  BY <1>1, <1>4, <1>5, QueueIs
<1>8. /\ i \in 1 .. Len(s) /\ x = s[i] /\ x \in Nodes
      /\ succ[x] = At(s, i + 1, q) /\ succ[x] \in Q!Cells
  <2>1. /\ At(s, Len(s) + 1, q) = q
        /\ \A j \in Int : At(s, j, q) \in Holds(s) \cup {q}
        /\ \A j \in 1 .. Len(s) : At(s, j, q) = s[j] /\ s[j] \in Holds(s)
    BY <1>7, CellsAre
  <2>2. i # Len(s) + 1
    BY <1>5, <1>6, <2>1
  <2>3. i \in 1 .. Len(s) /\ i + 1 \in Int
    BY <1>7, <2>2
  <2> QED
    BY <1>6, <1>7, <2>1, <2>3, QueueAssumption
<1>9. /\ walk'.queue = q /\ walk'.at = succ'[x] /\ walk'.all = walk.all
      /\ walk'.seen = Append(walk.seen, x)
  BY <1>2, <1>3, <1>4 DEF Walks
<1>10. walk.seen \in Seq(Nodes) /\ walk.all \in Seq(Nodes)
  BY <1>3 DEF Walks
<1>11. walk'.all = walk'.seen \o SubSeq(s, i + 1, Len(s))
  <2>1. PICK a : a = walk.seen
    OBVIOUS
  <2>2. a \o SubSeq(s, i, Len(s)) = Append(a, s[i]) \o SubSeq(s, i + 1, Len(s))
    BY <1>7, <1>8, <1>10, <2>1, RestIs
  <2> QED
    BY <1>6, <1>8, <1>9, <2>1, <2>2
<1>12. succ'[x] \in Q!Cells => walk' \in Walks
  <2>1. Append(walk.seen, x) \in Seq(Nodes)
    BY <1>8, <1>10
  <2> QED
    BY <1>2, <1>3, <1>4, <2>1 DEF Walks
<1>13. CASE UNCHANGED <<succ, pred, placed>>
  <2>1. succ'[x] = succ[x] /\ placed'[q] = s
    BY <1>4, <1>13
  <2>2. walk' \in Walks
    BY <1>8, <1>12, <2>1
  <2>3. QueueTypes' /\ Ringed'
    BY <1>1, <1>2, <1>13, <2>2 DEF QueueTypes, Ringed
  <2>4. i + 1 \in 1 .. Len(s) + 1
    BY <1>7, <1>8
  <2>5. \E j \in 1 .. Len(s) + 1 :
           walk'.at = At(s, j, q) /\ walk'.all = walk'.seen \o SubSeq(s, j, Len(s))
    BY <1>8, <1>9, <1>11, <2>1, <2>4
  <2>6. Walking'
    BY <1>2, <1>5, <1>9, <2>1, <2>5 DEF Walking
  <2> QED
    BY <2>3, <2>6 DEF Queued
<1>14. CASE Q!remove(walk.queue, walk.at)
  <2>1. Q!remove(q, x)
    BY <1>4, <1>14
  <2>2. succ'[x] = succ[x]
    BY <1>1, <1>2, <1>5, <1>8, <2>1, TakenOut
  <2>3. walk' \in Walks
    BY <1>8, <1>12, <2>2
  <2>4. /\ QueueTypes' /\ Ringed'
        /\ \E k \in 1 .. Len(placed[q]) :
              placed[q][k] = x /\ Removed(placed'[q], placed[q], k)
    BY <1>1, <1>2, <1>5, <1>8, <2>1, <2>3, TakenOut
  <2>5. PICK t : t = placed'[q]
    OBVIOUS
  <2>6. PICK k \in 1 .. Len(s) : s[k] = x /\ Removed(t, s, k)
    BY <1>4, <2>4, <2>5
  <2>7. k = i
    BY <1>7, <1>8, <2>6 DEF Once
  <2>8. Removed(t, s, i) /\ Len(t) = Len(s) - 1
    BY <2>6, <2>7 DEF Removed
  <2>9. At(t, i, q) = At(s, i + 1, q)
    <3>1. CellsRemoved(t, s, i, q)
      BY <1>7, <1>8, <2>8, RemovedIs
    <3>2. i \in i .. Len(s)
      BY <1>7, <1>8
    <3> QED
      BY <3>1, <3>2 DEF CellsRemoved
  <2>10. SubSeq(t, i, Len(t)) = SubSeq(s, i + 1, Len(s))
    BY <1>7, <1>8, <2>8, ShorterRest
  <2>11. i \in 1 .. Len(t) + 1
    BY <1>7, <1>8, <2>8
  <2>12. \E j \in 1 .. Len(t) + 1 :
           walk'.at = At(t, j, q) /\ walk'.all = walk'.seen \o SubSeq(t, j, Len(t))
    BY <1>8, <1>9, <1>11, <2>2, <2>9, <2>10, <2>11
  <2>13. Walking'
    BY <1>2, <1>5, <1>9, <2>5, <2>12 DEF Walking
  <2> QED
    BY <2>4, <2>13 DEF Queued
<1> QED
  BY <1>2, <1>13, <1>14

LEMMA QueueEnds ==
    ASSUME Queued, Q!ends
    PROVE  Queued'
<1>1. walk' = None /\ UNCHANGED <<succ, pred, used, placed>>
  BY DEF Q!ends
<1> QED
  BY <1>1 DEF Queued, QueueTypes, Ringed, Walking

LEMMA QueueNext ==
    ASSUME Queued, [Q!Next]_qvars
    PROVE  Queued'
<1>1. CASE UNCHANGED qvars
  BY <1>1 DEF Queued, QueueTypes, Ringed, Walking, qvars
<1>2. ASSUME NEW q \in Queues, Q!init(q)
      PROVE  Queued'
  BY <1>2, QueueMade
<1>3. ASSUME NEW q \in Queues, Q!sort(q)
      PROVE  Queued'
  BY <1>3, QueueSorts
<1>4. ASSUME NEW q \in Queues, Q!begin(q)
      PROVE  Queued'
  BY <1>4, QueueBegins
<1>5. ASSUME NEW q \in Queues, NEW n \in Nodes, Q!inserts(q, n)
      PROVE  Queued'
  BY <1>5, QueueInserts
<1>6. ASSUME NEW q \in Queues, NEW n \in Nodes, Q!removes(q, n)
      PROVE  Queued'
  BY <1>6, QueueRemoves
<1>7. ASSUME NEW q \in Queues, NEW r \in Queues, Q!merge(q, r)
      PROVE  Queued'
  BY <1>7, QueueMerges
<1>8. CASE Q!increment
  BY <1>8, QueueIncrements
<1>9. CASE Q!ends
  BY <1>9, QueueEnds
<1> QED
  BY <1>1, <1>2, <1>3, <1>4, <1>5, <1>6, <1>7, <1>8, <1>9 DEF Q!Next

Along(link, q) ==
    CHOOSE f : Follows(f, link, {q, None}, Q!Cells \cup {None}, Q!Most)

LEMMA AlongIs ==
    ASSUME NEW link, NEW q
    PROVE  Q!Along(link, q) = Along(link, q)[Pair(Q!Most, link[q])]
BY DEF Q!Along, Along, Follows, Unroll, Pair, Before

\* Who follows the links of a row of nodes sees it.
LEMMA AlongRow ==
    ASSUME NEW link \in [Q!Cells -> Q!Cells \cup {None}], NEW q \in Queues,
           NEW s \in Seq(Nodes), Len(s) <= Q!Most, Q!Most \in Nat, Row(link, s, link[q], q)
    PROVE  Q!Along(link, q) = s
<1> DEFINE K == Q!Cells \cup {None}
           stop == {q, None}
           N == Q!Most
<1>1. \A c \in K \ stop : link[c] \in K
  OBVIOUS
<1>2. s \in Seq(K \ stop)
  <2>1. Nodes \subseteq K \ stop
    BY QueueAssumption
  <2> QED
    BY <2>1, SeqMonotonic
<1>3. q \in stop \cap K
  BY QueueAssumption
<1> HIDE DEF K, stop, N
<1>4. \E f : Follows(f, link, stop, K, N)
  BY <1>1, UnrollExists DEF N
<1>5. Follows(Along(link, q), link, stop, K, N)
  BY <1>4 DEF Along, K, N, stop
<1>6. PICK f, n : f = Along(link, q) /\ n = link[q]
  OBVIOUS
<1>7. f[Pair(N, n)] = s
  <2>1. N \in Nat /\ Len(s) <= N /\ Row(link, s, n, q) /\ Follows(f, link, stop, K, N)
    BY <1>5, <1>6 DEF N
  <2> QED
    BY <1>2, <1>3, <2>1, FollowsRow
<1> QED
  BY <1>6, <1>7, AlongIs DEF N

LEMMA QueueOnce == Queued => Q!NoneTwice
<1> SUFFICES ASSUME Queued
             PROVE  Q!NoneTwice
  OBVIOUS
<1>1. QueueTypes /\ Ringed /\ Walking
  BY DEF Queued
<1>2. Q!Most = Cardinality(Nodes) + 1
  <2>1. Q!Cardinality(Nodes) = Cardinality(Nodes)
    BY DEF Q!Cardinality, Cardinality
  <2> QED
    BY <2>1 DEF Q!Most
<1>3. ASSUME NEW q \in used
      PROVE  /\ Q!Forwards(q) = placed[q]
             /\ Q!Backwards(q) = Q!Reverse(placed[q])
             /\ Q!empty(q) <=> placed[q] = <<>>
  <2>1. PICK s, t : s = placed[q] /\ t = Q!Reverse(s)
    OBVIOUS
  <2>2. /\ q \in Queues /\ q \notin Nodes
        /\ s \in Seq(Nodes) /\ Len(s) \in Nat /\ Once(s) /\ Holds(s) \subseteq Nodes
        /\ Ring(succ, pred, s, q) /\ pred[q] = At(s, Len(s), q)
    BY <1>1, <2>1, QueueIs
  <2>3. Len(s) <= Q!Most /\ Q!Most \in Nat
    <3>1. Len(s) <= Cardinality(Nodes) /\ Cardinality(Nodes) \in Nat
      BY <2>2, OnceFinite, QueueAssumption
    <3> QED
      BY <1>2, <2>2, <3>1
  <2>4. /\ Row(succ, s, succ[q], q)
        /\ t \in Seq(Nodes) /\ Len(t) = Len(s)
        /\ Row(pred, t, pred[q], q)
    BY <2>1, <2>2, RingIsRow
  <2>5. Q!Along(succ, q) = s
    BY <1>1, <2>2, <2>3, <2>4, AlongRow DEF QueueTypes
  <2>6. Q!Along(pred, q) = t
    BY <1>1, <2>2, <2>3, <2>4, AlongRow DEF QueueTypes
  <2>7. pred[q] = q <=> s = <<>>
    <3>1. CASE s = <<>>
      BY <2>2, <3>1 DEF At
    <3>2. CASE s # <<>>
      <4>1. Len(s) \in 1 .. Len(s)
        BY <2>2, <3>2, EmptySeq
      <4>2. At(s, Len(s), q) = s[Len(s)] /\ s[Len(s)] # q
        BY <2>2, <4>1, CellsAre
      <4> QED
        BY <2>2, <3>2, <4>2
    <3> QED
      BY <3>1, <3>2
  <2> QED
    BY <2>1, <2>5, <2>6, <2>7 DEF Q!Forwards, Q!Backwards, Q!empty
<1>4. ASSUME walk # None, walk.at = walk.queue
      PROVE  walk.seen = walk.all
  <2>1. PICK q, s, a : q = walk.queue /\ s = placed[q] /\ a = walk.seen
    OBVIOUS
  <2>2. q \in used
    BY <1>1, <1>4, <2>1 DEF Walking
  <2>3. PICK i \in 1 .. Len(s) + 1 :
          walk.at = At(s, i, q) /\ walk.all = a \o SubSeq(s, i, Len(s))
    BY <1>1, <1>4, <2>1 DEF Walking
  <2>4. q \notin Nodes /\ s \in Seq(Nodes) /\ Len(s) \in Nat /\ Once(s)
    BY <1>1, <2>1, <2>2, QueueIs
  <2>5. i = Len(s) + 1
    <3>1. \A j \in 1 .. Len(s) : At(s, j, q) # q
      BY <2>4, CellsAre
    <3> QED
      BY <1>4, <2>1, <2>3, <2>4, <3>1
  <2>6. SubSeq(s, i, Len(s)) = <<>>
    BY <2>4, <2>5
  <2>7. a \in Seq(Nodes)
    BY <1>1, <1>4, <2>1 DEF QueueTypes, Walks
  <2> QED
    BY <2>1, <2>3, <2>6, <2>7
<1> QED
  BY <1>3, <1>4 DEF Q!NoneTwice, Q!Idle

-------------------------------------------------------------------------------
\* Lists.

LEMMA ListsAre ==
    /\ L!Lists = {Main, Sub} /\ Main # Sub
    /\ L!Parts = {Main, Sub} \cup 1 .. MaxBlocks
    /\ L!Lists \cap Nat = {} /\ None \notin L!Parts
    /\ MaxBlocks \in Nat \ {0} /\ Nalloc \in Nat \ {0}
    /\ \A l \in L!Lists : L!Other(l) \in L!Lists /\ L!Other(l) # l
BY ContainersAssumption DEF L!Lists, L!Parts, L!Other

\* Further parts have blocks that were taken later, behind full ones.
Parted(ps) ==
    /\ ps \in [L!Parts -> [elts: 1 .. MaxBlocks, nelts: 0 .. Nalloc,
                           next: 1 .. MaxBlocks \cup {None}]]
    /\ \A p \in L!Parts : ps[p].next # None =>
        /\ ps[p].nelts = Nalloc
        /\ ps[p].next > ps[p].elts /\ ps[ps[p].next].elts = ps[p].next

\* The cells that a part uses.
Run(x) == [i \in 1 .. x.nelts |-> Pair(x.elts, i)]

FlatOf(f, ps) ==
    [p \in L!Parts \cup {None} |-> IF p = None THEN <<>> ELSE Run(ps[p]) \o f[ps[p].next]]

Flat(ps) == CHOOSE f : f = FlatOf(f, ps)

LEMMA FromIsFlat == L!From = Flat(part)
BY DEF L!From, Flat, FlatOf, Run, Pair

LEMMA PartIs ==
    ASSUME NEW ps, Parted(ps), NEW p \in L!Parts
    PROVE  /\ ps[p].elts \in 1 .. MaxBlocks /\ ps[p].elts \in Nat
           /\ ps[p].nelts \in 0 .. Nalloc /\ ps[p].nelts \in Nat /\ ps[p].nelts <= Nalloc
           /\ ps[p].next \in L!Parts \cup {None}
           /\ ps[p].next # None =>
                /\ ps[p].next \in L!Parts /\ ps[p].next \in 1 .. MaxBlocks
                /\ ps[p].next > ps[p].elts /\ ps[ps[p].next].elts = ps[p].next
                /\ ps[p].nelts = Nalloc
BY ListsAre DEF Parted

\* The rows of cells exist, as parts come one after the other.
LEMMA FlatExists ==
    ASSUME NEW ps, Parted(ps)
    PROVE  \E f : f = FlatOf(f, ps)
<1> DEFINE D(n) == {p \in L!Parts : ps[p].elts + n > MaxBlocks} \cup {None}
           Body(f, n) == [p \in D(n) |-> IF p = None THEN <<>> ELSE Run(ps[p]) \o f[ps[p].next]]
           Good(n) == \E f : f = Body(f, n)
           T == {n \in Nat : ~Good(n)}
<1>1. T = {}
  <2> SUFFICES ASSUME T # {}
               PROVE  FALSE
    OBVIOUS
  <2>1. T \in SUBSET Nat
    OBVIOUS
  <2>2. PICK n \in T : \A m \in T : n <= m
    <3> HIDE DEF T
    <3> QED
      BY <2>1, Least
  <2>3. n \in Nat /\ ~Good(n)
    BY <2>2
  <2>4. CASE n = 0
    <3>1. D(0) = {None}
      BY PartIs, ListsAre
    <3>2. PICK f : f = [p \in {None} |-> <<>>]
      OBVIOUS
    <3>3. f = Body(f, 0)
      BY <3>1, <3>2
    <3> QED
      BY <2>3, <2>4, <3>3
  <2>5. CASE n # 0
    <3>1. n - 1 \in Nat /\ ~(n <= n - 1)
      BY <2>3, <2>5
    <3>2. Good(n - 1)
      <4> HIDE DEF Good
      <4>1. n - 1 \notin T
        BY <2>2, <3>1
      <4> HIDE DEF T
      <4> QED
        BY <3>1, <4>1 DEF T
    <3>3. PICK f : f = Body(f, n - 1)
      BY <3>2
    <3>4. D(n - 1) \subseteq D(n)
      BY <2>3, <3>1, PartIs, ListsAre
    <3>5. ASSUME NEW p \in L!Parts, p \in D(n)
          PROVE  ps[p].next \in D(n - 1)
      <4>1. CASE ps[p].next = None
        BY <4>1
      <4>2. CASE ps[p].next # None
        <5>1. /\ ps[p].next \in L!Parts /\ ps[p].next > ps[p].elts
              /\ ps[ps[p].next].elts = ps[p].next /\ ps[p].elts \in Nat
              /\ ps[p].next \in Nat
          BY <4>2, PartIs
        <5>2. ps[p].elts + n > MaxBlocks /\ MaxBlocks \in Nat
          BY <3>5, ListsAre
        <5>3. ps[ps[p].next].elts + (n - 1) > MaxBlocks
          BY <2>3, <5>1, <5>2
        <5> QED
          BY <5>1, <5>3
      <4> QED
        BY <4>1, <4>2
    <3>6. PICK g : g = [p \in D(n) |-> IF p \in D(n - 1) THEN f[p]
                                       ELSE Run(ps[p]) \o f[ps[p].next]]
      OBVIOUS
    <3>7. \A p \in D(n - 1) : g[p] = f[p]
      BY <3>4, <3>6
    <3>8. ASSUME NEW p \in D(n)
          PROVE  g[p] = IF p = None THEN <<>> ELSE Run(ps[p]) \o g[ps[p].next]
      <4>1. CASE p = None
        <5>1. None \in D(n - 1)
          OBVIOUS
        <5>2. f[None] = <<>>
          BY <3>3, <5>1
        <5> QED
          BY <3>7, <4>1, <5>1, <5>2
      <4>2. CASE p # None
        <5>1. p \in L!Parts
          BY <4>2
        <5>2. g[ps[p].next] = f[ps[p].next]
          BY <3>5, <3>7, <5>1
        <5>3. g[p] = Run(ps[p]) \o f[ps[p].next]
          <6>1. CASE p \in D(n - 1)
            <7>1. f[p] = Run(ps[p]) \o f[ps[p].next]
              BY <3>3, <4>2, <6>1
            <7> QED
              BY <3>7, <6>1, <7>1
          <6>2. CASE p \notin D(n - 1)
            BY <3>6, <6>2
          <6> QED
            BY <6>1, <6>2
        <5> QED
          BY <4>2, <5>2, <5>3
      <4> QED
        BY <4>1, <4>2
    <3>9. g = Body(g, n)
      BY <3>6, <3>8
    <3> QED
      BY <2>3, <3>9
  <2> QED
    BY <2>4, <2>5
<1>2. Good(MaxBlocks)
  <2> HIDE DEF Good
  <2> QED
    BY <1>1, ListsAre
<1>3. D(MaxBlocks) = L!Parts \cup {None}
  <2>1. \A p \in L!Parts : ps[p].elts + MaxBlocks > MaxBlocks
    BY PartIs, ListsAre
  <2> QED
    BY <2>1
<1>4. PICK f : f = Body(f, MaxBlocks)
  BY <1>2
<1> QED
  BY <1>3, <1>4 DEF FlatOf

\* What holds of a part if it does of the next holds of all.
LEMMA PartInduction ==
    ASSUME NEW ps, Parted(ps), NEW G, None \in G,
           \A p \in L!Parts : ps[p].next \in G => p \in G
    PROVE  L!Parts \subseteq G
<1> DEFINE T == {n \in Nat : \E p \in L!Parts : p \notin G /\ ps[p].elts + n = MaxBlocks}
<1> SUFFICES ASSUME NEW q \in L!Parts, q \notin G
             PROVE  FALSE
  OBVIOUS
<1>1. T # {}
  <2>1. MaxBlocks - ps[q].elts \in Nat /\ ps[q].elts + (MaxBlocks - ps[q].elts) = MaxBlocks
    BY PartIs, ListsAre
  <2> QED
    BY <2>1
<1>2. PICK n \in T : \A m \in T : n <= m
  <2>1. T \in SUBSET Nat
    OBVIOUS
  <2> HIDE DEF T
  <2> QED
    BY <1>1, <2>1, Least
<1>3. PICK p \in L!Parts : p \notin G /\ ps[p].elts + n = MaxBlocks
  BY <1>2
<1>4. ps[p].next \notin G /\ ps[p].next # None
  BY <1>3
<1>5. /\ ps[p].next \in L!Parts /\ ps[p].next \in 1 .. MaxBlocks /\ ps[p].next > ps[p].elts
      /\ ps[ps[p].next].elts = ps[p].next /\ ps[p].elts \in Nat /\ MaxBlocks \in Nat
  BY <1>4, PartIs, ListsAre
<1>6. MaxBlocks - ps[p].next \in T
  BY <1>4, <1>5
<1>7. n <= MaxBlocks - ps[p].next
  <2> HIDE DEF T
  <2> QED
    BY <1>2, <1>6
<1> QED
  BY <1>3, <1>5, <1>7

Spots == (1 .. MaxBlocks) \X (1 .. Nalloc)

Flats(f, ps) ==
    f[None] = <<>> /\ \A p \in L!Parts : f[p] = Run(ps[p]) \o f[ps[p].next]

LEMMA FlatIs ==
    ASSUME NEW ps, Parted(ps)
    PROVE  Flats(Flat(ps), ps)
<1>1. PICK f : f = Flat(ps)
  OBVIOUS
<1>2. f = FlatOf(f, ps)
  BY <1>1, FlatExists DEF Flat
<1>3. \A p \in L!Parts : f[p] = Run(ps[p]) \o f[ps[p].next]
  BY <1>2, ListsAre DEF FlatOf
<1>4. f[None] = <<>>
  BY <1>2 DEF FlatOf
<1> QED
  BY <1>1, <1>3, <1>4 DEF Flats

LEMMA RunIs ==
    ASSUME NEW x, x.elts \in 1 .. MaxBlocks, x.nelts \in 0 .. Nalloc
    PROVE  /\ Run(x) \in Seq(Spots) /\ Len(Run(x)) = x.nelts
           /\ \A i \in 1 .. x.nelts : Run(x)[i] = Pair(x.elts, i)
<1>1. \A i \in 1 .. x.nelts : Pair(x.elts, i) \in Spots
  <2> TAKE i \in 1 .. x.nelts
  <2>1. i \in 1 .. Nalloc
    BY ListsAre
  <2> QED
    BY <2>1, PairIn DEF Spots
<1>2. x.nelts \in Nat
  BY ListsAre
<1> QED
  BY <1>1, <1>2 DEF Run

LEMMA OnceJoined ==
    ASSUME NEW S, NEW s \in Seq(S), NEW t \in Seq(S), Once(s), Once(t),
           \A i \in 1 .. Len(s), j \in 1 .. Len(t) : s[i] # t[j]
    PROVE  Once(s \o t)
<1>1. Holds(s) \cap Holds(t) = {}
  BY DEF Holds
<1> QED
  BY <1>1, JoinIs

\* The cells of a part and of those behind it are different, and are in its block
\* and in later ones.
LEMMA FlatSpots ==
    ASSUME NEW ps, Parted(ps), NEW f, Flats(f, ps)
    PROVE  \A p \in L!Parts \cup {None} :
              /\ f[p] \in Seq(Spots) /\ Once(f[p])
              /\ p # None => \A i \in 1 .. Len(f[p]) : f[p][i][1] >= ps[p].elts
<1> DEFINE Good(p) == /\ f[p] \in Seq(Spots) /\ Once(f[p])
                      /\ p # None => \A i \in 1 .. Len(f[p]) : f[p][i][1] >= ps[p].elts
           G == {p \in L!Parts \cup {None} : Good(p)}
<1>1. None \in G
  <2>1. f[None] = <<>> /\ <<>> \in Seq(Spots) /\ Once(<<>>)
    BY NothingIs DEF Flats
  <2> QED
    BY <2>1
<1>2. ASSUME NEW p \in L!Parts, ps[p].next \in G
      PROVE  p \in G
  <2>1. PICK s, t, e, n : s = Run(ps[p]) /\ t = f[ps[p].next] /\ e = ps[p].elts /\ n = ps[p].next
    OBVIOUS
  <2>2. f[p] = s \o t
    BY <2>1 DEF Flats
  <2>3. /\ s \in Seq(Spots) /\ \A i \in 1 .. Len(s) : s[i] = Pair(e, i)
        /\ Len(s) \in Nat /\ e \in Nat
    BY <2>1, PartIs, RunIs
  <2>4. /\ t \in Seq(Spots) /\ Once(t)
        /\ n # None => \A i \in 1 .. Len(t) : t[i][1] >= ps[n].elts
    BY <1>2, <2>1
  <2>5. \A i \in 1 .. Len(t) : t[i][1] > e
    <3>1. CASE n = None
      BY <2>1, <3>1 DEF Flats
    <3>2. CASE n # None
      <4>1. n > e /\ ps[n].elts = n /\ n \in Nat
        BY <2>1, <3>2, PartIs
      <4>2. \A i \in 1 .. Len(t) : t[i][1] \in Nat
        BY <2>4 DEF Spots
      <4> QED
        BY <2>3, <2>4, <3>2, <4>1, <4>2
    <3> QED
      BY <3>1, <3>2
  <2>6. \A i \in 1 .. Len(s) : s[i][1] = e /\ s[i][2] = i
    BY <2>3, PairIs
  <2>7. Once(s)
    BY <2>6 DEF Once
  <2>8. \A i \in 1 .. Len(s), j \in 1 .. Len(t) : s[i] # t[j]
    BY <2>3, <2>5, <2>6
  <2>9. Once(s \o t)
    BY <2>3, <2>4, <2>7, <2>8, OnceJoined
  <2>10. s \o t \in Seq(Spots) /\ \A i \in 1 .. Len(s \o t) : (s \o t)[i][1] >= e
    <3>1. PICK u : u = s \o t
      OBVIOUS
    <3>2. u \in Seq(Spots) /\ Len(u) = Len(s) + Len(t)
      BY <2>3, <2>4, <3>1, ConcatIs
    <3>3. \A i \in 1 .. Len(s) : u[i] = s[i]
      BY <2>3, <2>4, <3>1, ConcatIs
    <3>4. \A i \in 1 .. Len(t) : u[Len(s) + i] = t[i]
      BY <2>3, <2>4, <3>1, ConcatIs
    <3>5. ASSUME NEW i \in 1 .. Len(u)
          PROVE  u[i][1] >= e
      <4>1. CASE i \in 1 .. Len(s)
        BY <2>3, <2>6, <3>3, <4>1
      <4>2. CASE i \notin 1 .. Len(s)
        <5>1. i - Len(s) \in 1 .. Len(t) /\ Len(s) + (i - Len(s)) = i
          BY <2>3, <2>4, <3>2, <4>2
        <5>2. u[i] = t[i - Len(s)] /\ t[i - Len(s)][1] > e
          BY <2>5, <3>4, <5>1
        <5>3. t[i - Len(s)][1] \in Nat
          BY <2>4, <5>1 DEF Spots
        <5> QED
          BY <2>3, <5>2, <5>3
      <4> QED
        BY <4>1, <4>2
    <3> QED
      BY <3>1, <3>2, <3>5
  <2> QED
    BY <2>1, <2>2, <2>9, <2>10
<1>3. L!Parts \subseteq G
  <2> HIDE DEF G
  <2> QED
    BY <1>1, <1>2, PartInduction
<1> QED
  BY <1>1, <1>3

LEMMA AppendIs ==
    ASSUME NEW S, NEW s \in Seq(S), NEW c \in S
    PROVE  /\ Append(s, c) \in Seq(S) /\ Len(Append(s, c)) = Len(s) + 1
           /\ Append(s, c)[Len(s) + 1] = c
           /\ \A i \in 1 .. Len(s) : Append(s, c)[i] = s[i]
OBVIOUS

LEMMA AppendJoined ==
    ASSUME NEW S, NEW s \in Seq(S), NEW t \in Seq(S), NEW c \in S
    PROVE  s \o Append(t, c) = Append(s \o t, c)
<1>1. PICK o : o = <<c>>
  OBVIOUS
<1>2. o \in Seq(S)
  BY <1>1, OneIs
<1>3. Append(t, c) = t \o o
  BY <1>1, AppendIsConcat
<1>4. s \o t \in Seq(S)
  BY ConcatIs
<1>5. Append(s \o t, c) = (s \o t) \o o
  BY <1>1, <1>4, AppendIsConcat
<1> QED
  BY <1>2, <1>3, <1>5, ConcatAssociative

\* A set of parts that one does not leave by going to the next.
Closed(ps, r) == r \in SUBSET L!Parts /\ \A p \in r : ps[p].next \in r \cup {None}

\* All of them lead to z.
Ends(ps, r, z) == \A p \in r : ps[p].next = None <=> p = z

\* Parts that stay as they are, and those behind them, have the cells they had.
LEMMA FlatSame ==
    ASSUME NEW ps, Parted(ps), NEW pt, Parted(pt), NEW r, Closed(ps, r),
           \A p \in r : pt[p] = ps[p]
    PROVE  \A p \in r : Flat(pt)[p] = Flat(ps)[p]
<1>1. PICK f, g : f = Flat(ps) /\ g = Flat(pt)
  OBVIOUS
<1>2. Flats(f, ps) /\ Flats(g, pt)
  BY <1>1, FlatIs
<1> DEFINE G == {p \in L!Parts \cup {None} : p \in r => g[p] = f[p]}
<1>3. None \in G
  BY <1>2 DEF Flats
<1>4. ASSUME NEW p \in L!Parts, ps[p].next \in G
      PROVE  p \in G
  <2> SUFFICES ASSUME p \in r
               PROVE  g[p] = f[p]
    OBVIOUS
  <2>1. pt[p] = ps[p] /\ (ps[p].next \in r \/ ps[p].next = None)
    BY DEF Closed
  <2>2. g[ps[p].next] = f[ps[p].next]
    BY <1>2, <1>4, <2>1 DEF Flats
  <2>3. f[p] = Run(ps[p]) \o f[ps[p].next] /\ g[p] = Run(pt[p]) \o g[pt[p].next]
    BY <1>2 DEF Flats
  <2> QED
    BY <2>1, <2>2, <2>3
<1>5. L!Parts \subseteq G
  <2> HIDE DEF G
  <2> QED
    BY <1>3, <1>4, PartInduction
<1> QED
  BY <1>1, <1>5 DEF Closed

\* A cell behind the last part's is behind those of all that lead there.
LEMMA FlatGrows ==
    ASSUME NEW ps, Parted(ps), NEW pt, Parted(pt), NEW r, Closed(ps, r), NEW z, Ends(ps, r, z),
           \A p \in r \ {z} : pt[p] = ps[p],
           NEW c \in Spots, Flat(pt)[z] = Append(Flat(ps)[z], c)
    PROVE  \A p \in r : Flat(pt)[p] = Append(Flat(ps)[p], c)
<1>1. PICK f, g : f = Flat(ps) /\ g = Flat(pt)
  OBVIOUS
<1>2. Flats(f, ps) /\ Flats(g, pt)
  BY <1>1, FlatIs
<1> DEFINE G == {p \in L!Parts \cup {None} : p \in r => g[p] = Append(f[p], c)}
<1>3. None \in G
  BY ListsAre DEF Closed
<1>4. ASSUME NEW p \in L!Parts, ps[p].next \in G
      PROVE  p \in G
  <2> SUFFICES ASSUME p \in r
               PROVE  g[p] = Append(f[p], c)
    OBVIOUS
  <2>1. CASE p = z
    BY <1>1, <2>1
  <2>2. CASE p # z
    <3>1. PICK n, s, t : n = ps[p].next /\ s = Run(ps[p]) /\ t = f[n]
      OBVIOUS
    <3>2. pt[p] = ps[p] /\ n # None /\ n \in r
      BY <2>2, <3>1 DEF Closed, Ends
    <3>3. g[n] = Append(t, c)
      BY <1>4, <3>1, <3>2
    <3>4. f[p] = s \o t /\ g[p] = s \o g[n]
      BY <1>2, <3>1, <3>2 DEF Flats
    <3>5. t \in Seq(Spots)
      <4>1. n \in L!Parts \cup {None}
        BY <3>2 DEF Closed
      <4> QED
        BY <1>2, <3>1, <4>1, FlatSpots
    <3>6. s \in Seq(Spots)
      BY <3>1, PartIs, RunIs
    <3>7. s \o Append(t, c) = Append(s \o t, c)
      BY <3>5, <3>6, AppendJoined
    <3> QED
      BY <3>3, <3>4, <3>7
  <2> QED
    BY <2>1, <2>2
<1>5. L!Parts \subseteq G
  <2> HIDE DEF G
  <2> QED
    BY <1>3, <1>4, PartInduction
<1> QED
  BY <1>1, <1>5 DEF Closed

\* The cells of what leads to z are in blocks before that of z, or are the cells
\* that z uses.
LEMMA FlatBelow ==
    ASSUME NEW ps, Parted(ps), NEW r, Closed(ps, r), NEW z \in r, Ends(ps, r, z)
    PROVE  \A p \in r : \A i \in 1 .. Len(Flat(ps)[p]) :
              LET s == Flat(ps)[p][i]
              IN  s[1] < ps[z].elts \/ (s[1] = ps[z].elts /\ s[2] <= ps[z].nelts)
<1>1. PICK f, e, n : f = Flat(ps) /\ e = ps[z].elts /\ n = ps[z].nelts
  OBVIOUS
<1>2. Flats(f, ps)
  BY <1>1, FlatIs
<1>3. z \in L!Parts /\ e \in Nat /\ n \in Nat
  BY <1>1, PartIs DEF Closed
<1> DEFINE Under(s) == s[1] < e \/ (s[1] = e /\ s[2] <= n)
           G == {p \in L!Parts \cup {None} : p \in r =>
                    /\ ps[p].elts <= e
                    /\ \A i \in 1 .. Len(f[p]) : Under(f[p][i])}
<1>4. None \in G
  BY ListsAre DEF Closed
<1>5. ASSUME NEW p \in L!Parts, ps[p].next \in G
      PROVE  p \in G
  <2> SUFFICES ASSUME p \in r
               PROVE  /\ ps[p].elts <= e
                      /\ \A i \in 1 .. Len(f[p]) : Under(f[p][i])
    OBVIOUS
  <2>1. PICK s, t, m : s = Run(ps[p]) /\ m = ps[p].next /\ t = f[m]
    OBVIOUS
  <2>2. f[p] = s \o t
    BY <1>2, <2>1 DEF Flats
  <2>3. /\ s \in Seq(Spots) /\ Len(s) = ps[p].nelts
        /\ \A i \in 1 .. Len(s) : s[i] = Pair(ps[p].elts, i)
        /\ ps[p].elts \in Nat /\ ps[p].nelts \in Nat
    BY <2>1, PartIs, RunIs
  <2>4. \A i \in 1 .. Len(s) : s[i][1] = ps[p].elts /\ s[i][2] = i
    BY <2>3, PairIs
  <2>5. t \in Seq(Spots)
    <3>1. m \in L!Parts \cup {None}
      BY <2>1, PartIs
    <3> QED
      BY <1>2, <2>1, <3>1, FlatSpots
  <2>6. ps[p].elts <= e /\ (\A i \in 1 .. Len(s) : Under(s[i])) /\ \A i \in 1 .. Len(t) : Under(t[i])
    <3>1. CASE p = z
      <4>1. m = None /\ t = <<>>
        BY <1>2, <2>1, <3>1 DEF Ends, Flats
      <4>2. Len(t) = 0
        BY <4>1
      <4>3. \A i \in 1 .. Len(s) : Under(s[i])
        BY <1>1, <1>3, <2>3, <2>4, <3>1
      <4> QED
        BY <1>1, <1>3, <3>1, <4>2, <4>3
    <3>2. CASE p # z
      <4>1. m # None /\ m \in r
        BY <2>1, <3>2 DEF Ends, Closed
      <4>2. m \in Nat /\ m > ps[p].elts /\ ps[m].elts = m
        BY <2>1, <4>1, PartIs, ListsAre
      <4>3. m <= e /\ \A i \in 1 .. Len(t) : Under(t[i])
        BY <1>5, <2>1, <4>1, <4>2
      <4>4. ps[p].elts < e
        BY <1>3, <2>3, <4>2, <4>3
      <4> QED
        BY <1>3, <2>3, <2>4, <4>3, <4>4
    <3> QED
      BY <3>1, <3>2
  <2> HIDE DEF Under
  <2>7. \A i \in 1 .. Len(s \o t) : Under((s \o t)[i])
    <3>1. PICK u : u = s \o t
      OBVIOUS
    <3>7. s \in Seq(Spots) /\ t \in Seq(Spots)
      BY <2>3, <2>5
    <3>2. Len(u) = Len(s) + Len(t) /\ Len(s) \in Nat /\ Len(t) \in Nat
      BY <3>1, <3>7, ConcatIs
    <3>3. \A i \in 1 .. Len(s) : u[i] = s[i]
      BY <3>1, <3>7, ConcatIs
    <3>4. \A i \in 1 .. Len(t) : u[Len(s) + i] = t[i]
      BY <3>1, <3>7, ConcatIs
    <3>5. \A i \in 1 .. Len(u) : i \in 1 .. Len(s) \/ (i - Len(s) \in 1 .. Len(t) /\ Len(s) + (i - Len(s)) = i)
      BY <3>2
    <3>6. \A i \in 1 .. Len(u) : Under(u[i])
      BY <2>6, <3>3, <3>4, <3>5
    <3> QED
      BY <3>1, <3>6
  <2> QED
    BY <2>2, <2>6, <2>7
<1>6. L!Parts \subseteq G
  <2> HIDE DEF G
  <2> QED
    BY <1>4, <1>5, PartInduction
<1> QED
  BY <1>1, <1>6 DEF Closed

LEMMA SpotIs ==
    ASSUME NEW s \in Spots
    PROVE  /\ s[1] \in 1 .. MaxBlocks /\ s[2] \in 1 .. Nalloc /\ s[1] \in Nat /\ s[2] \in Nat
           /\ s = Pair(s[1], s[2])
BY DEF Spots, Pair

LEMMA FlatSpot ==
    ASSUME NEW ps, Parted(ps), NEW p \in L!Parts, NEW i \in 1 .. Len(Flat(ps)[p])
    PROVE  Flat(ps)[p][i] \in Spots
<1>1. PICK f : f = Flat(ps)
  OBVIOUS
<1>2. Flats(f, ps)
  BY <1>1, FlatIs
<1>3. f[p] \in Seq(Spots)
  BY <1>2, FlatSpots
<1>4. PICK t \in Seq(Spots) : t = f[p]
  BY <1>3
<1>5. t[i] \in Spots
  BY <1>1, <1>4
<1> QED
  BY <1>1, <1>4, <1>5

\* The cells of parts that one does not leave are in their blocks.
LEMMA FlatBlocks ==
    ASSUME NEW ps, Parted(ps), NEW r, Closed(ps, r)
    PROVE  \A p \in r : \A i \in 1 .. Len(Flat(ps)[p]) : \E q \in r :
              Flat(ps)[p][i][1] = ps[q].elts /\ Flat(ps)[p][i][2] \in 1 .. ps[q].nelts
<1>1. PICK f : f = Flat(ps)
  OBVIOUS
<1>2. Flats(f, ps)
  BY <1>1, FlatIs
<1> DEFINE In(s) == \E q \in r : s[1] = ps[q].elts /\ s[2] \in 1 .. ps[q].nelts
           G == {p \in L!Parts \cup {None} : p \in r => \A i \in 1 .. Len(f[p]) : In(f[p][i])}
<1>3. None \in G
  BY ListsAre DEF Closed
<1>4. ASSUME NEW p \in L!Parts, ps[p].next \in G
      PROVE  p \in G
  <2> SUFFICES ASSUME p \in r
               PROVE  \A i \in 1 .. Len(f[p]) : In(f[p][i])
    OBVIOUS
  <2>1. PICK s, t, m : s = Run(ps[p]) /\ m = ps[p].next /\ t = f[m]
    OBVIOUS
  <2>2. f[p] = s \o t /\ (m \in r \/ m = None)
    BY <1>2, <2>1 DEF Flats, Closed
  <2>3. /\ s \in Seq(Spots) /\ Len(s) = ps[p].nelts
        /\ \A i \in 1 .. Len(s) : s[i] = Pair(ps[p].elts, i)
    BY <2>1, PartIs, RunIs
  <2>4. \A i \in 1 .. Len(s) : In(s[i])
    BY <2>3, PairIs
  <2>5. t \in Seq(Spots)
    <3>1. m \in L!Parts \cup {None}
      BY <2>1, PartIs
    <3> QED
      BY <1>2, <2>1, <3>1, FlatSpots
  <2>6. \A i \in 1 .. Len(t) : In(t[i])
    <3>1. CASE m = None
      <4>1. Len(t) = 0
        BY <1>2, <2>1, <3>1 DEF Flats
      <4> QED
        BY <4>1
    <3>2. CASE m # None
      <4> HIDE DEF In
      <4> QED
        BY <1>4, <2>1, <2>2, <3>2
    <3> QED
      BY <3>1, <3>2
  <2> HIDE DEF In
  <2>7. PICK u : u = s \o t
    OBVIOUS
  <2>13. s \in Seq(Spots) /\ t \in Seq(Spots)
    BY <2>3, <2>5
  <2>8. Len(u) = Len(s) + Len(t) /\ Len(s) \in Nat /\ Len(t) \in Nat
    <3>1. Len(u) = Len(s) + Len(t)
      BY <2>7, <2>13, ConcatIs
    <3> QED
      BY <2>13, <3>1
  <2>9. \A i \in 1 .. Len(s) : u[i] = s[i]
    BY <2>7, <2>13, ConcatIs
  <2>10. \A i \in 1 .. Len(t) : u[Len(s) + i] = t[i]
    BY <2>7, <2>13, ConcatIs
  <2>11. \A i \in 1 .. Len(u) : i \in 1 .. Len(s) \/ (i - Len(s) \in 1 .. Len(t) /\ Len(s) + (i - Len(s)) = i)
    BY <2>8
  <2>12. \A i \in 1 .. Len(u) : In(u[i])
    BY <2>4, <2>6, <2>9, <2>10, <2>11
  <2> QED
    BY <2>2, <2>7, <2>12
<1>5. L!Parts \subseteq G
  <2> HIDE DEF G
  <2> QED
    BY <1>3, <1>4, PartInduction
<1> QED
  BY <1>1, <1>5 DEF Closed

-------------------------------------------------------------------------------

Headers == [key: Keys, by: L!Lists, hash: {0, 1}]

Visitors == [list: L!Lists,
             at: [part: L!Parts \cup {None}, data: Nat \cup {None}, count: Nat],
             into: L!Lists \cup {None}, each: BOOLEAN, seen: Seq(Headers)]

\* What a part has of blocks is there, and what it uses of its own has headers.
Stored(ps, cs, n) ==
    \A p \in L!Parts :
        /\ ps[p].elts <= n
        /\ ps[p].next # None => ps[p].next <= n
        /\ \A i \in 1 .. ps[p].nelts : cs[ps[p].elts][i] \in Headers

ListTypes ==
    /\ Parted(part)
    /\ last \in [L!Lists -> L!Parts]
    /\ cells \in [1 .. MaxBlocks -> [1 .. Nalloc -> Headers \cup {None}]]
    /\ blocks \in 1 .. MaxBlocks
    /\ Stored(part, cells, blocks)
    /\ visit \in Visitors \cup {None}
    /\ own \in [L!Lists -> Seq(Headers)]
    /\ wrote \in SUBSET L!Lists

\* The parts R[l] are those that the list l may come to; once the lists are no
\* longer tied, in other blocks than the other's; and if the parent has one part,
\* it uses no more of it than the subrequest does.
Laid(R) ==
    /\ R \in [L!Lists -> SUBSET L!Parts]
    /\ \A l \in L!Lists :
        /\ l \in R[l] /\ last[l] \in R[l]
        /\ R[l] \subseteq {l} \cup 1 .. blocks
        /\ Closed(part, R[l])
        /\ \A p \in R[l] \ {l} : part[p].elts = p /\ p > part[l].elts
    /\ ~copied => wrote = {} /\ ~tied /\ ~plain
    /\ copied /\ ~tied => \A p \in R[Main], q \in R[Sub] : part[p].elts # part[q].elts
    /\ plain /\ tied /\ Main \notin wrote =>
        /\ R[Main] = {Main} /\ part[Sub].elts = part[Main].elts
        /\ part[Main].nelts <= part[Sub].nelts

\* Whose list is still what it was given.
Sure(l) ==
    /\ L!InUse(l)
    /\ L!Other(l) \notin wrote \/ (l = Main /\ plain /\ Main \notin wrote)

Holding(f, cs, s) == Len(f) = Len(s) /\ \A i \in 1 .. Len(s) : cs[f[i][1]][f[i][2]] = s[i]

Intact(l, R) == Ends(part, R[l], last[l]) /\ Holding(Flat(part)[l], cells, own[l])

\* Where a visit is, and if its list is what it was given, how much of it was seen.
Position(v, R) ==
    /\ v.at.part \in R[v.list] \cup {None}
    /\ v.at.part = None => v.at.data = None /\ v.at.count = 0
    /\ v.at.part # None =>
        /\ v.at.data = part[v.at.part].elts
        /\ v.at.count = 0 \/ v.at.count < part[v.at.part].nelts
    /\ L!InUse(v.list)
    /\ v.into # None => L!InUse(v.into)

Progress(f, a, v, s) ==
    /\ f[v.list] = a \o f[v.at.part]
    /\ Len(a) + v.at.count = Len(v.seen)
    /\ Len(v.seen) <= Len(s)
    /\ \A i \in 1 .. Len(v.seen) : v.seen[i] = s[i]
    /\ v.each /\ v.into = v.list /\ v.seen # <<>> => Len(v.seen) < Len(s)

Seeing(v) ==
    L!Other(v.list) \notin wrote =>
        \E a \in Seq(Spots) : Progress(Flat(part), a, v, own[v.list])

\* The inductive invariant of the lists.
Listed ==
    /\ ListTypes
    /\ \E R : /\ Laid(R)
              /\ \A l \in L!Lists : Sure(l) => Intact(l, R)
              /\ visit # None => Position(visit, R) /\ Seeing(visit)

\* What a header that is put into the last part z of a list, at the cell c, does.
PutDone(l, x, c) ==
    /\ c \in Spots
    /\ Parted(part') /\ Stored(part', cells', blocks')
    /\ last' \in [L!Lists -> L!Parts]
    /\ cells' \in [1 .. MaxBlocks -> [1 .. Nalloc -> Headers \cup {None}]]
    /\ blocks' \in 1 .. MaxBlocks /\ blocks <= blocks'
    /\ cells'[c[1]][c[2]] = x
    /\ \A s \in Spots : s # c => cells'[s[1]][s[2]] = cells[s[1]][s[2]]
    /\ \A p \in L!Parts : p # last[l] /\ ~(p \in Nat /\ p > blocks) => part'[p] = part[p]
    /\ part'[last[l]].elts = part[last[l]].elts
    /\ part[last[l]].nelts <= part'[last[l]].nelts
    /\ \A k \in L!Lists : k # l => last'[k] = last[k]
    /\ (c[1] = part[last[l]].elts /\ c[2] = part[last[l]].nelts + 1) \/ c[1] > blocks
    /\ part[last[l]].next = None => Flat(part')[last[l]] = Append(Flat(part)[last[l]], c)
    /\ part'[last'[l]].next = None
    /\ \/ last'[l] = last[l]
       \/ /\ last'[l] \in 1 .. blocks' /\ last'[l] > blocks
          /\ part'[last[l]].next = last'[l] /\ part'[last'[l]].elts = last'[l]

LEMMA RunGrows ==
    ASSUME NEW x, x.elts \in 1 .. MaxBlocks, x.nelts \in 0 .. Nalloc, x.nelts < Nalloc,
           NEW y, y.elts = x.elts, y.nelts = x.nelts + 1
    PROVE  Run(y) = Append(Run(x), Pair(x.elts, x.nelts + 1)) /\ Pair(x.elts, x.nelts + 1) \in Spots
<1>1. x.nelts \in Nat /\ y.nelts \in 0 .. Nalloc /\ x.nelts + 1 \in 1 .. Nalloc
  BY ListsAre
<1>2. PICK c : c = Pair(x.elts, x.nelts + 1)
  OBVIOUS
<1>3. c \in Spots
  <2>1. PICK a \in 1 .. MaxBlocks, b \in 1 .. Nalloc : a = x.elts /\ b = x.nelts + 1
    BY <1>1
  <2>2. Pair(a, b) \in (1 .. MaxBlocks) \X (1 .. Nalloc)
    BY PairIn
  <2> QED
    BY <1>2, <2>1, <2>2 DEF Spots
<1>4. PICK s, t : s = Run(x) /\ t = Run(y)
  OBVIOUS
<1>5. /\ s \in Seq(Spots) /\ Len(s) = x.nelts /\ \A i \in 1 .. x.nelts : s[i] = Pair(x.elts, i)
  BY <1>4, RunIs
<1>6. /\ t \in Seq(Spots) /\ Len(t) = x.nelts + 1 /\ \A i \in 1 .. x.nelts + 1 : t[i] = Pair(x.elts, i)
  BY <1>1, <1>4, RunIs
<1>7. PICK u : u = Append(s, c)
  OBVIOUS
<1>8. /\ u \in Seq(Spots) /\ Len(u) = x.nelts + 1 /\ u[x.nelts + 1] = c
      /\ \A i \in 1 .. x.nelts : u[i] = s[i]
  BY <1>3, <1>5, <1>7, AppendIs
<1>9. \A i \in 1 .. Len(t) : t[i] = u[i]
  <2> TAKE i \in 1 .. Len(t)
  <2>1. i = x.nelts + 1 \/ i \in 1 .. x.nelts
    BY <1>1, <1>6
  <2>2. t[i] = Pair(x.elts, i)
    BY <1>6
  <2> QED
    BY <1>2, <1>5, <1>8, <2>1, <2>2
<1>10. t = u
  BY <1>6, <1>8, <1>9, SeqEqual
<1> QED
  BY <1>2, <1>3, <1>4, <1>7, <1>10

\* There is room in the last part.
LEMMA PutBehind ==
    ASSUME ListTypes, NEW R, Laid(R), NEW l \in L!Lists, NEW x \in Headers, L!put(l, x),
           part[last[l]].nelts < Nalloc
    PROVE  \E c : PutDone(l, x, c)
<1>1. PICK z, e, n : z = last[l] /\ e = part[z].elts /\ n = part[z].nelts
  OBVIOUS
<1>2. /\ cells' = [cells EXCEPT ![e] = [cells[e] EXCEPT ![n + 1] = x]]
      /\ part' = [part EXCEPT ![z] = [part[z] EXCEPT !.nelts = n + 1]]
      /\ last' = last /\ blocks' = blocks
  BY <1>1 DEF L!put
<1>3. /\ z \in L!Parts /\ e \in 1 .. MaxBlocks /\ n \in 0 .. Nalloc /\ n \in Nat /\ e \in Nat
      /\ n < Nalloc /\ part[z].next = None /\ n + 1 \in 1 .. Nalloc /\ n + 1 \in 0 .. Nalloc
  <2>1. z \in L!Parts /\ Parted(part)
    BY <1>1 DEF ListTypes
  <2> QED
    BY <1>1, <2>1, PartIs, ListsAre
<1>4. part \in [L!Parts -> [elts: 1 .. MaxBlocks, nelts: 0 .. Nalloc,
                            next: 1 .. MaxBlocks \cup {None}]]
  BY DEF ListTypes, Parted
<1>5. /\ \A p \in L!Parts \ {z} : part'[p] = part[p]
      /\ part'[z].elts = e /\ part'[z].nelts = n + 1 /\ part'[z].next = None
      /\ part' \in [L!Parts -> [elts: 1 .. MaxBlocks, nelts: 0 .. Nalloc,
                                next: 1 .. MaxBlocks \cup {None}]]
  BY <1>1, <1>2, <1>3, <1>4
<1>6. Parted(part')
  <2>1. ASSUME NEW p \in L!Parts, part'[p].next # None
        PROVE  /\ part'[p].nelts = Nalloc
               /\ part'[p].next > part'[p].elts
               /\ part'[part'[p].next].elts = part'[p].next
    <3>1. p # z /\ part'[p] = part[p] /\ part[p].next # None
      BY <1>5, <2>1
    <3>2. /\ part[p].nelts = Nalloc /\ part[p].next > part[p].elts
          /\ part[part[p].next].elts = part[p].next /\ part[p].next \in L!Parts
      BY <3>1, ListsAre DEF ListTypes, Parted
    <3>3. \A q \in L!Parts : part'[q].elts = part[q].elts
      BY <1>1, <1>5
    <3> QED
      BY <3>1, <3>2, <3>3
  <2> QED
    BY <1>5, <2>1 DEF Parted
<1>7. PICK c : c = Pair(e, n + 1)
  OBVIOUS
<1>8. c \in Spots /\ c[1] = e /\ c[2] = n + 1
  BY <1>3, <1>7, PairIs, PairIn DEF Spots
<1>9. cells \in [1 .. MaxBlocks -> [1 .. Nalloc -> Headers \cup {None}]]
  BY DEF ListTypes
<1>10. PICK g, h : g = cells[e] /\ h = [g EXCEPT ![n + 1] = x]
  OBVIOUS
<1>11. /\ h \in [1 .. Nalloc -> Headers \cup {None}] /\ h[n + 1] = x
       /\ \A i \in 1 .. Nalloc : i # n + 1 => h[i] = g[i]
  BY <1>3, <1>9, <1>10
<1>12. cells' = [cells EXCEPT ![e] = h]
  BY <1>2, <1>10
<1>13. /\ cells' \in [1 .. MaxBlocks -> [1 .. Nalloc -> Headers \cup {None}]]
       /\ cells'[e] = h /\ \A b \in 1 .. MaxBlocks : b # e => cells'[b] = cells[b]
  BY <1>3, <1>9, <1>11, <1>12
<1>14. /\ cells'[e][n + 1] = x
       /\ \A b \in 1 .. MaxBlocks, i \in 1 .. Nalloc :
            ~(b = e /\ i = n + 1) => cells'[b][i] = cells[b][i]
  BY <1>10, <1>11, <1>13
<1>15. \A s \in Spots : s # c => cells'[s[1]][s[2]] = cells[s[1]][s[2]]
  <2> TAKE s \in Spots
  <2> SUFFICES ASSUME s # c
               PROVE  cells'[s[1]][s[2]] = cells[s[1]][s[2]]
    OBVIOUS
  <2>1. s = Pair(s[1], s[2]) /\ s[1] \in 1 .. MaxBlocks /\ s[2] \in 1 .. Nalloc
    BY DEF Spots, Pair
  <2>2. ~(s[1] = e /\ s[2] = n + 1)
    BY <1>7, <2>1
  <2> QED
    BY <1>14, <2>1, <2>2
<1>16. Stored(part', cells', blocks')
  <2>1. Stored(part, cells, blocks)
    BY DEF ListTypes
  <2> SUFFICES ASSUME NEW p \in L!Parts
               PROVE  /\ part'[p].elts <= blocks'
                      /\ part'[p].next # None => part'[p].next <= blocks'
                      /\ \A i \in 1 .. part'[p].nelts : cells'[part'[p].elts][i] \in Headers
    BY DEF Stored
  <2>2. part'[p].elts = part[p].elts /\ part'[p].next = part[p].next
    BY <1>1, <1>3, <1>5
  <2>3. part[p].elts <= blocks /\ (part[p].next # None => part[p].next <= blocks)
        /\ \A i \in 1 .. part[p].nelts : cells[part[p].elts][i] \in Headers
    BY <2>1 DEF Stored
  <2>4. ASSUME NEW i \in 1 .. part'[p].nelts
        PROVE  cells'[part[p].elts][i] \in Headers
    <3>1. part[p].elts \in 1 .. MaxBlocks /\ i \in 1 .. Nalloc
      BY <1>4, <1>5, ListsAre
    <3>2. CASE part[p].elts = e /\ i = n + 1
      BY <1>14, <3>2
    <3>3. CASE ~(part[p].elts = e /\ i = n + 1)
      <4>1. i \in 1 .. part[p].nelts
        <5>1. CASE p = z
          <6>1. i \in 1 .. n + 1 /\ i # n + 1
            BY <1>1, <1>5, <3>3, <5>1
          <6> QED
            BY <1>1, <1>3, <5>1, <6>1
        <5>2. CASE p # z
          BY <1>5, <5>2
        <5> QED
          BY <5>1, <5>2
      <4> QED
        BY <1>14, <2>3, <3>1, <3>3, <4>1
    <3> QED
      BY <3>2, <3>3
  <2> QED
    BY <1>2, <2>2, <2>3, <2>4
<1>17. Flat(part')[z] = Append(Flat(part)[z], c)
  <2>1. PICK f, g2, y : f = Flat(part) /\ g2 = Flat(part') /\ y = part'[z]
    OBVIOUS
  <2>2. Flats(f, part) /\ Flats(g2, part')
    BY <1>6, <2>1, FlatIs DEF ListTypes
  <2>3. f[z] = Run(part[z]) \o <<>> /\ g2[z] = Run(y) \o <<>>
    BY <1>3, <1>5, <2>1, <2>2 DEF Flats
  <2>4. Run(y) = Append(Run(part[z]), c)
    BY <1>1, <1>3, <1>5, <1>7, <2>1, RunGrows
  <2>5. Run(part[z]) \in Seq(Spots)
    BY <1>1, <1>3, RunIs
  <2>6. Append(Run(part[z]), c) \in Seq(Spots)
    BY <1>8, <2>5, AppendIs
  <2>7. f[z] = Run(part[z]) /\ g2[z] = Append(Run(part[z]), c)
    BY <2>3, <2>4, <2>5, <2>6, ConcatEmptySeq
  <2> QED
    BY <2>1, <2>7
<1>18. last' \in [L!Lists -> L!Parts] /\ blocks' \in 1 .. MaxBlocks /\ blocks \in Nat
  BY <1>2, ListsAre DEF ListTypes
<1>19. PutDone(l, x, c)
  <2>1. blocks <= blocks' /\ n <= part'[z].nelts /\ last'[l] = z
    BY <1>1, <1>2, <1>3, <1>5, <1>18
  <2>2. \A k \in L!Lists : k # l => last'[k] = last[k]
    BY <1>2
  <2>3. \A p \in L!Parts : p # z => part'[p] = part[p]
    BY <1>5
  <2>4. cells'[c[1]][c[2]] = x
    BY <1>8, <1>14
  <2> QED
    BY <1>1, <1>5, <1>6, <1>8, <1>13, <1>15, <1>16, <1>17, <1>18, <2>1, <2>2, <2>3, <2>4, Zenon
    DEF PutDone
<1> QED
  BY <1>19

\* There is none, and a new part comes behind it.
LEMMA PutAnew ==
    ASSUME ListTypes, NEW R, Laid(R), NEW l \in L!Lists, NEW x \in Headers, L!put(l, x),
           ~(part[last[l]].nelts < Nalloc)
    PROVE  \E c : PutDone(l, x, c)
<1>1. PICK z, n : z = last[l] /\ n = blocks + 1
  OBVIOUS
<1>2. blocks \in Nat /\ blocks \in 1 .. MaxBlocks /\ blocks < MaxBlocks /\ n \in 1 .. MaxBlocks
      /\ n > blocks /\ n \in Nat
  <2>1. blocks \in 1 .. MaxBlocks /\ MaxBlocks \in Nat
    BY ListsAre DEF ListTypes
  <2>2. blocks < MaxBlocks
    BY DEF L!put
  <2> QED
    BY <1>1, <2>1, <2>2
<1>3. /\ z \in L!Parts /\ part[z].nelts = Nalloc /\ z # n
      /\ n \in L!Parts /\ n \notin L!Lists
  <2>1. z \in R[l] /\ R[l] \subseteq {l} \cup 1 .. blocks
    BY <1>1 DEF Laid
  <2>2. z \in L!Parts /\ Parted(part)
    BY <1>1 DEF ListTypes
  <2>3. n \in L!Parts /\ n \notin L!Lists
    BY <1>2, ListsAre
  <2>4. part[z].nelts \in Nat /\ part[z].nelts <= Nalloc /\ Nalloc \in Nat
    BY <2>2, PartIs, ListsAre
  <2>5. n \notin {l} \cup 1 .. blocks
    BY <1>2, <2>3
  <2> QED
    BY <1>1, <2>1, <2>2, <2>3, <2>4, <2>5
<1>4. PICK u, v : u = [part[z] EXCEPT !.next = n] /\ v = [elts |-> n, nelts |-> 1, next |-> None]
  OBVIOUS
<1>5. part' = [part EXCEPT ![z] = u, ![n] = v]
  <2>1. [L!Fresh(n) EXCEPT !.nelts = 1] = v
    BY <1>4 DEF L!Fresh
  <2> QED
    BY <1>1, <1>4, <2>1 DEF L!put
<1>6. /\ blocks' = n /\ last' = [last EXCEPT ![l] = n]
      /\ cells' = [cells EXCEPT ![n] = [cells[n] EXCEPT ![1] = x]]
  BY <1>1 DEF L!put
<1>7. part \in [L!Parts -> [elts: 1 .. MaxBlocks, nelts: 0 .. Nalloc,
                            next: 1 .. MaxBlocks \cup {None}]]
  BY DEF ListTypes, Parted
<1>8. /\ u.elts = part[z].elts /\ u.nelts = Nalloc /\ u.next = n
      /\ v.elts = n /\ v.nelts = 1 /\ v.next = None
      /\ u \in [elts: 1 .. MaxBlocks, nelts: 0 .. Nalloc, next: 1 .. MaxBlocks \cup {None}]
      /\ v \in [elts: 1 .. MaxBlocks, nelts: 0 .. Nalloc, next: 1 .. MaxBlocks \cup {None}]
  <2>1. part[z] \in [elts: 1 .. MaxBlocks, nelts: 0 .. Nalloc, next: 1 .. MaxBlocks \cup {None}]
    BY <1>3, <1>7
  <2>2. 1 \in 0 .. Nalloc
    BY ListsAre
  <2> QED
    BY <1>2, <1>3, <1>4, <2>1, <2>2
<1>9. /\ part'[z] = u /\ part'[n] = v /\ \A p \in L!Parts : p # z /\ p # n => part'[p] = part[p]
      /\ part' \in [L!Parts -> [elts: 1 .. MaxBlocks, nelts: 0 .. Nalloc,
                                next: 1 .. MaxBlocks \cup {None}]]
  BY <1>3, <1>5, <1>7, <1>8
<1>10. \A p \in L!Parts :
         /\ part[p].elts <= blocks /\ part[p].elts \in 1 .. MaxBlocks /\ part[p].elts \in Nat
         /\ part[p].next # None =>
              /\ part[p].next <= blocks /\ part[p].next # n /\ part[p].next \in L!Parts
              /\ part[p].nelts = Nalloc /\ part[p].next > part[p].elts
              /\ part[part[p].next].elts = part[p].next
         /\ part[p].nelts \in 0 .. Nalloc
         /\ \A i \in 1 .. part[p].nelts : cells[part[p].elts][i] \in Headers
  <2>1. TAKE p \in L!Parts
  <2>2. Stored(part, cells, blocks) /\ Parted(part)
    BY DEF ListTypes
  <2>3. part[p].next # None => part[p].next <= blocks /\ part[p].next \in Nat
    BY <2>2, PartIs, ListsAre DEF Stored
  <2> QED
    BY <1>2, <2>2, <2>3, PartIs DEF Stored
<1>11. Parted(part')
  <2>1. ASSUME NEW p \in L!Parts, part'[p].next # None
        PROVE  /\ part'[p].nelts = Nalloc
               /\ part'[p].next > part'[p].elts
               /\ part'[part'[p].next].elts = part'[p].next
    <3>1. CASE p = z
      <4>1. part[z].elts <= blocks /\ part[z].elts \in Nat
        BY <1>3, <1>10
      <4>2. n > part[z].elts
        BY <1>2, <4>1
      <4> QED
        BY <1>8, <1>9, <3>1, <4>2
    <3>2. CASE p = n
      BY <1>8, <1>9, <2>1, <3>2
    <3>3. CASE p # z /\ p # n
      <4>1. part'[p] = part[p] /\ part[p].next # None
        BY <1>9, <2>1, <3>3
      <4>2. /\ part[p].next # n /\ part[p].next \in L!Parts
            /\ part[p].nelts = Nalloc /\ part[p].next > part[p].elts
            /\ part[part[p].next].elts = part[p].next
        BY <1>10, <4>1
      <4>3. part'[part[p].next].elts = part[part[p].next].elts
        BY <1>8, <1>9, <4>2
      <4> QED
        BY <4>1, <4>2, <4>3
    <3> QED
      BY <3>1, <3>2, <3>3
  <2> QED
    BY <1>9, <2>1 DEF Parted
<1>12. PICK c : c = Pair(n, 1)
  OBVIOUS
<1>13. c \in Spots /\ c[1] = n /\ c[2] = 1
  <2>1. 1 \in 1 .. Nalloc
    BY ListsAre
  <2> QED
    BY <1>2, <1>12, <2>1, PairIs, PairIn DEF Spots
<1>14. cells \in [1 .. MaxBlocks -> [1 .. Nalloc -> Headers \cup {None}]]
  BY DEF ListTypes
<1>15. PICK g, h : g = cells[n] /\ h = [g EXCEPT ![1] = x]
  OBVIOUS
<1>16. /\ h \in [1 .. Nalloc -> Headers \cup {None}] /\ h[1] = x
       /\ \A i \in 1 .. Nalloc : i # 1 => h[i] = g[i]
  <2>1. 1 \in 1 .. Nalloc
    BY ListsAre
  <2> QED
    BY <1>2, <1>14, <1>15, <2>1
<1>17. cells' = [cells EXCEPT ![n] = h]
  BY <1>6, <1>15
<1>18. /\ cells' \in [1 .. MaxBlocks -> [1 .. Nalloc -> Headers \cup {None}]]
       /\ cells'[n] = h /\ \A b \in 1 .. MaxBlocks : b # n => cells'[b] = cells[b]
  BY <1>2, <1>14, <1>16, <1>17
<1>19. \A s \in Spots : s # c => cells'[s[1]][s[2]] = cells[s[1]][s[2]]
  <2> TAKE s \in Spots
  <2> SUFFICES ASSUME s # c
               PROVE  cells'[s[1]][s[2]] = cells[s[1]][s[2]]
    OBVIOUS
  <2>1. s = Pair(s[1], s[2]) /\ s[1] \in 1 .. MaxBlocks /\ s[2] \in 1 .. Nalloc
    BY DEF Spots, Pair
  <2>2. ~(s[1] = n /\ s[2] = 1)
    BY <1>12, <2>1
  <2>3. CASE s[1] = n
    BY <1>15, <1>16, <1>18, <2>1, <2>2, <2>3
  <2>4. CASE s[1] # n
    BY <1>18, <2>1, <2>4
  <2> QED
    BY <2>3, <2>4
<1>20. Stored(part', cells', blocks')
  <2> SUFFICES ASSUME NEW p \in L!Parts
               PROVE  /\ part'[p].elts <= n
                      /\ part'[p].next # None => part'[p].next <= n
                      /\ \A i \in 1 .. part'[p].nelts : cells'[part'[p].elts][i] \in Headers
    BY <1>6 DEF Stored
  <2>1. CASE p = n
    <3>1. \A i \in 1 .. part'[p].nelts : i = 1
      BY <1>8, <1>9, <2>1
    <3> QED
      BY <1>2, <1>8, <1>9, <1>16, <1>18, <2>1, <3>1
  <2>2. CASE p # n
    <3>1. part'[p].elts = part[p].elts /\ part'[p].nelts = part[p].nelts
          /\ (part'[p].next = part[p].next \/ part'[p].next = n)
      BY <1>3, <1>8, <1>9, <2>2
    <3>2. part[p].elts <= n /\ part[p].elts # n /\ (part[p].next # None => part[p].next <= n)
      <4>1. part[p].elts <= blocks /\ part[p].elts \in Nat /\ (part[p].next # None => part[p].next <= blocks)
            /\ (part[p].next # None => part[p].next \in Nat)
        BY <1>10, PartIs, ListsAre DEF ListTypes
      <4> QED
        BY <1>2, <4>1
    <3>3. \A i \in 1 .. part[p].nelts : cells'[part[p].elts][i] \in Headers
      BY <1>10, <1>18, <3>2
    <3> QED
      BY <1>2, <3>1, <3>2, <3>3
  <2> QED
    BY <2>1, <2>2
<1>21. part[z].next = None => Flat(part')[z] = Append(Flat(part)[z], c)
  <2> SUFFICES ASSUME part[z].next = None
               PROVE  Flat(part')[z] = Append(Flat(part)[z], c)
    OBVIOUS
  <2>1. PICK f, g2, s, t : f = Flat(part) /\ g2 = Flat(part') /\ s = Run(part[z]) /\ t = Run(v)
    OBVIOUS
  <2>2. Flats(f, part) /\ Flats(g2, part')
    BY <1>11, <2>1, FlatIs DEF ListTypes
  <2>3. f[z] = s \o <<>> /\ g2[z] = Run(u) \o g2[n] /\ g2[n] = t \o <<>>
    <3>1. /\ f[None] = <<>> /\ f[z] = Run(part[z]) \o f[part[z].next]
          /\ g2[None] = <<>> /\ g2[z] = Run(part'[z]) \o g2[part'[z].next]
          /\ g2[n] = Run(part'[n]) \o g2[part'[n].next]
      BY <1>3, <2>2 DEF Flats
    <3> QED
      BY <1>8, <1>9, <2>1, <3>1
  <2>4. s \in Seq(Spots) /\ t \in Seq(Spots) /\ Len(t) = 1 /\ t[1] = c
    <3>1. /\ part[z].elts \in 1 .. MaxBlocks /\ part[z].nelts \in 0 .. Nalloc
          /\ v.elts \in 1 .. MaxBlocks /\ v.nelts \in 0 .. Nalloc
      <4>1. part[z].elts \in 1 .. MaxBlocks /\ part[z].nelts \in 0 .. Nalloc
        BY <1>3, <1>10
      <4> QED
        BY <1>8, <4>1
    <3>2. s \in Seq(Spots) /\ t \in Seq(Spots) /\ Len(t) = 1 /\ t[1] = Pair(v.elts, 1)
      <4>1. s \in Seq(Spots)
        BY <2>1, <3>1, RunIs
      <4>2. /\ t \in Seq(Spots) /\ Len(t) = v.nelts
            /\ \A i \in 1 .. v.nelts : t[i] = Pair(v.elts, i)
        BY <2>1, <3>1, RunIs
      <4>3. v.nelts = 1 /\ 1 \in 1 .. 1
        BY <1>8
      <4> QED
        BY <4>1, <4>2, <4>3
    <3> QED
      BY <1>8, <1>12, <3>2
  <2>5. Run(u) = s
    <3>1. u.elts = part[z].elts /\ u.nelts = part[z].nelts
      BY <1>3, <1>8
    <3> QED
      BY <2>1, <3>1 DEF Run
  <2>6. f[z] = s /\ g2[z] = s \o t
    BY <2>3, <2>4, <2>5, ConcatEmptySeq
  <2>7. PICK o : o = <<c>>
    OBVIOUS
  <2>8. t = o
    <3>1. o \in Seq(Spots) /\ Len(o) = 1 /\ o[1] = c
      BY <1>13, <2>7
    <3>2. \A i \in 1 .. Len(t) : t[i] = o[i]
      BY <2>4, <3>1
    <3> QED
      BY <2>4, <3>1, <3>2, SeqEqual
  <2>9. Append(s, c) = s \o o
    BY <1>13, <2>4, <2>7, AppendIsConcat
  <2> QED
    BY <2>1, <2>6, <2>8, <2>9
<1>22. last \in [L!Lists -> L!Parts]
  BY DEF ListTypes
<1>23. last' \in [L!Lists -> L!Parts] /\ last'[l] = n /\ \A k \in L!Lists : k # l => last'[k] = last[k]
  BY <1>3, <1>6, <1>22
<1>24. PutDone(l, x, c)
  <2>1. /\ blocks' \in 1 .. MaxBlocks /\ blocks <= blocks' /\ n \in 1 .. blocks' /\ c[1] > blocks
        /\ part[z].nelts <= part'[z].nelts
    BY <1>2, <1>3, <1>6, <1>8, <1>9, <1>13, ListsAre
  <2>2. cells'[c[1]][c[2]] = x
    BY <1>13, <1>16, <1>18
  <2>3. \A p \in L!Parts : p # z /\ ~(p \in Nat /\ p > blocks) => part'[p] = part[p]
    BY <1>2, <1>9
  <2> QED
    BY <1>1, <1>2, <1>8, <1>9, <1>11, <1>13, <1>18, <1>19, <1>20, <1>21, <1>23, <2>1, <2>2, <2>3,
       Zenon DEF PutDone
<1> QED
  BY <1>24

LEMMA PutIs ==
    ASSUME ListTypes, NEW R, Laid(R), NEW l \in L!Lists, NEW x \in Headers, L!put(l, x)
    PROVE  \E c : PutDone(l, x, c)
BY PutBehind, PutAnew

\* The parts that each list may come to, with the new one.
Wider(R, z, w) == [k \in L!Lists |-> IF w # z /\ z \in R[k] THEN R[k] \cup {w} ELSE R[k]]

LEMMA PutParts ==
    ASSUME ListTypes, NEW R, Laid(R), NEW l \in L!Lists, NEW x \in Headers, NEW c, PutDone(l, x, c)
    PROVE  /\ \A k \in L!Lists : \A p \in R[k] :
                /\ p # last[l] => part'[p] = part[p]
                /\ part'[p].elts = part[p].elts /\ part'[p].elts \in Nat /\ part'[p].elts <= blocks
                /\ p # last'[l] \/ p = last[l]
           /\ last[l] \in R[l] /\ last[l] \in L!Parts /\ last'[l] \in L!Parts
           /\ part'[last'[l]].next = None
           /\ \/ last'[l] = last[l]
              \/ /\ last'[l] # last[l] /\ last'[l] \in 1 .. blocks' /\ last'[l] > blocks /\ last'[l] \in Nat
                 /\ part'[last[l]].next = last'[l] /\ part'[last'[l]].elts = last'[l]
<1>1. PICK z, w : z = last[l] /\ w = last'[l]
  OBVIOUS
<1>2. /\ \A p \in L!Parts : p # z /\ ~(p \in Nat /\ p > blocks) => part'[p] = part[p]
      /\ part'[z].elts = part[z].elts
      /\ last' \in [L!Lists -> L!Parts] /\ blocks' \in 1 .. MaxBlocks
      /\ part'[w].next = None
      /\ \/ w = z
         \/ /\ w \in 1 .. blocks' /\ w > blocks
            /\ part'[z].next = w /\ part'[w].elts = w
  BY <1>1 DEF PutDone
<1>3. blocks \in Nat /\ L!Lists \cap Nat = {}
  BY ListsAre DEF ListTypes
<1>4. /\ \A k \in L!Lists : R[k] \subseteq {k} \cup 1 .. blocks /\ R[k] \subseteq L!Parts
      /\ z \in R[l]
  BY <1>1 DEF Laid, Closed
<1>5. \A k \in L!Lists : \A p \in R[k] : ~(p \in Nat /\ p > blocks)
  <2> TAKE k \in L!Lists
  <2> TAKE p \in R[k]
  <2>1. p = k \/ p \in 1 .. blocks
    BY <1>4
  <2>2. CASE p = k
    BY <1>3, <2>2
  <2>3. CASE p \in 1 .. blocks
    BY <1>3, <2>3
  <2> QED
    BY <2>1, <2>2, <2>3
<1>6. \A p \in L!Parts : part[p].elts \in Nat /\ part[p].elts <= blocks
  BY PartIs DEF ListTypes, Stored
<1>7. CASE w = z
  <2>1. \A k \in L!Lists : \A p \in R[k] :
             /\ p # z => part'[p] = part[p]
             /\ part'[p].elts = part[p].elts /\ part'[p].elts \in Nat /\ part'[p].elts <= blocks
    BY <1>2, <1>4, <1>5, <1>6
  <2> QED
    BY <1>1, <1>2, <1>4, <1>7, <2>1
<1>8. CASE w # z
  <2>1. w \in 1 .. blocks' /\ w > blocks /\ w \in Nat /\ part'[z].next = w /\ part'[w].elts = w
    BY <1>2, <1>8
  <2>2. \A k \in L!Lists : \A p \in R[k] :
             /\ p # z => part'[p] = part[p]
             /\ part'[p].elts = part[p].elts /\ part'[p].elts \in Nat /\ part'[p].elts <= blocks
             /\ p # w
    BY <1>2, <1>4, <1>5, <1>6, <2>1
  <2>3. w \in L!Parts
    BY <1>1, <1>2
  <2> QED
    BY <1>1, <1>2, <1>4, <1>8, <2>1, <2>2, <2>3
<1> QED
  BY <1>7, <1>8

LEMMA PutLays ==
    ASSUME ListTypes, NEW R, Laid(R), NEW l \in L!Lists, L!InUse(l), NEW x \in Headers,
           NEW c, PutDone(l, x, c), UNCHANGED <<copied, tied, plain>>, L!Wrote(l),
           NEW R2, R2 = Wider(R, last[l], last'[l])
    PROVE  Laid(R2)'
<1>1. PICK z, w, n : z = last[l] /\ w = last'[l] /\ n = blocks'
  OBVIOUS
<1>2. /\ \A k \in L!Lists : \A p \in R[k] :
           /\ p # z => part'[p] = part[p]
           /\ part'[p].elts = part[p].elts /\ part'[p].elts \in Nat /\ part'[p].elts <= blocks
           /\ p # w \/ p = z
      /\ z \in R[l] /\ z \in L!Parts /\ w \in L!Parts
      /\ part'[w].next = None
      /\ \/ w = z
         \/ /\ w # z /\ w \in 1 .. n /\ w > blocks /\ w \in Nat
            /\ part'[z].next = w /\ part'[w].elts = w
  BY <1>1, PutParts
<1>3. /\ blocks \in Nat /\ n \in Nat /\ blocks <= n
      /\ \A k \in L!Lists : k # l => last'[k] = last[k]
      /\ part[z].nelts <= part'[z].nelts
  BY <1>1, ListsAre DEF PutDone, ListTypes
<1>4. /\ R2 = [k \in L!Lists |-> IF w # z /\ z \in R[k] THEN R[k] \cup {w} ELSE R[k]]
      /\ \A k \in L!Lists : R2[k] = R[k] \/ (w # z /\ z \in R[k] /\ R2[k] = R[k] \cup {w})
      /\ \A k \in L!Lists : w # z /\ z \in R[k] => R2[k] = R[k] \cup {w}
  BY <1>1 DEF Wider
<1>5. \A k \in L!Lists :
        /\ k \in R[k] /\ last[k] \in R[k] /\ R[k] \subseteq {k} \cup 1 .. blocks
        /\ R[k] \subseteq L!Parts
        /\ \A p \in R[k] : part[p].next \in R[k] \cup {None}
        /\ \A p \in R[k] \ {k} : part[p].elts = p /\ p > part[k].elts
  BY DEF Laid, Closed
<1>6. R2 \in [L!Lists -> SUBSET L!Parts]
  <2>1. \A k \in L!Lists : R2[k] \in SUBSET L!Parts
    BY <1>2, <1>4, <1>5
  <2> QED
    BY <1>4, <2>1
<1>7. ASSUME NEW k \in L!Lists
      PROVE  /\ k \in R2[k] /\ last'[k] \in R2[k]
             /\ R2[k] \subseteq {k} \cup 1 .. n
             /\ Closed(part', R2[k])
             /\ \A p \in R2[k] \ {k} : part'[p].elts = p /\ p > part'[k].elts
  <2>1. k \in R2[k]
    BY <1>4, <1>5
  <2>2. last'[k] \in R2[k]
    <3>1. CASE k = l
      BY <1>1, <1>2, <1>4, <3>1
    <3>2. CASE k # l
      BY <1>3, <1>4, <1>5, <3>2
    <3> QED
      BY <3>1, <3>2
  <2>3. R2[k] \subseteq {k} \cup 1 .. n
    <3>1. R[k] \subseteq {k} \cup 1 .. n
      BY <1>3, <1>5
    <3> QED
      BY <1>2, <1>4, <3>1
  <2>4. ASSUME NEW p \in R2[k]
        PROVE  part'[p].next \in R2[k] \cup {None}
    <3>1. CASE p = w
      BY <1>2, <3>1
    <3>2. CASE p # w
      <4>1. p \in R[k]
        BY <1>4, <3>2
      <4>2. CASE p = z
        BY <1>2, <1>4, <3>2, <4>1, <4>2
      <4>3. CASE p # z
        BY <1>2, <1>4, <1>5, <4>1, <4>3
      <4> QED
        BY <4>2, <4>3
    <3> QED
      BY <3>1, <3>2
  <2>5. ASSUME NEW p \in R2[k] \ {k}
        PROVE  part'[p].elts = p /\ p > part'[k].elts
    <3>1. part'[k].elts = part[k].elts /\ part'[k].elts \in Nat /\ part'[k].elts <= blocks
      BY <1>2, <1>5
    <3>2. CASE p \in R[k]
      BY <1>2, <1>5, <3>1, <3>2
    <3>3. CASE p \notin R[k]
      <4>1. p = w /\ w # z
        BY <1>4, <3>3
      <4>2. part'[w].elts = w /\ w > blocks /\ w \in Nat
        BY <1>2, <4>1
      <4> QED
        BY <1>3, <3>1, <4>1, <4>2
    <3> QED
      BY <3>2, <3>3
  <2>6. Closed(part', R2[k])
    BY <1>6, <2>4 DEF Closed
  <2> QED
    BY <2>1, <2>2, <2>3, <2>5, <2>6
<1>8. /\ wrote' = (IF tied THEN wrote \cup {l} ELSE wrote)
      /\ copied' = copied /\ tied' = tied /\ plain' = plain
  BY DEF L!Wrote
<1>9. Main \in L!Lists /\ Sub \in L!Lists /\ Main # Sub /\ \A k \in L!Lists : k = Main \/ k = Sub
  BY ListsAre
<1>10. ~copied' => wrote' = {} /\ ~tied' /\ ~plain'
  BY <1>8 DEF Laid
<1>11. ASSUME copied', ~tied', NEW p \in R2[Main], NEW q \in R2[Sub]
       PROVE  part'[p].elts # part'[q].elts
  <2>1. \A a \in R[Main], b \in R[Sub] : part'[a].elts # part'[b].elts
    BY <1>2, <1>8, <1>9, <1>11 DEF Laid
  <2>2. \A k \in L!Lists : k # l => z \notin R[k]
    BY <1>2, <1>9, <2>1
  <2>3. \A k \in L!Lists : k # l => R2[k] = R[k]
    BY <1>4, <2>2
  <2>4. CASE p \in R[Main] /\ q \in R[Sub]
    BY <2>1, <2>4
  <2>5. CASE p \notin R[Main]
    <3>1. p = w /\ w # z /\ l = Main /\ q \in R[Sub]
      BY <1>4, <1>9, <1>11, <2>3, <2>5
    <3>2. part'[q].elts \in Nat /\ part'[q].elts <= blocks
      BY <1>2, <1>9, <3>1
    <3>3. part'[w].elts = w /\ w > blocks /\ w \in Nat
      BY <1>2, <3>1
    <3> QED
      BY <1>3, <3>1, <3>2, <3>3
  <2>6. CASE q \notin R[Sub]
    <3>1. q = w /\ w # z /\ l = Sub /\ p \in R[Main]
      BY <1>4, <1>9, <1>11, <2>3, <2>6
    <3>2. part'[p].elts \in Nat /\ part'[p].elts <= blocks
      BY <1>2, <1>9, <3>1
    <3>3. part'[w].elts = w /\ w > blocks /\ w \in Nat
      BY <1>2, <3>1
    <3> QED
      BY <1>3, <3>1, <3>2, <3>3
  <2> QED
    BY <2>4, <2>5, <2>6
<1>12. ASSUME plain', tied', Main \notin wrote'
       PROVE  /\ R2[Main] = {Main} /\ part'[Sub].elts = part'[Main].elts
              /\ part'[Main].nelts <= part'[Sub].nelts
  <2>1. plain /\ tied /\ Main \notin wrote /\ l = Sub
    BY <1>8, <1>9, <1>12
  <2>2. /\ R[Main] = {Main} /\ part[Sub].elts = part[Main].elts
        /\ part[Main].nelts <= part[Sub].nelts
    BY <2>1 DEF Laid
  <2>3. z # Main
    <3>1. z \in {Sub} \cup 1 .. blocks
      BY <1>2, <1>5, <2>1
    <3>2. Main \notin 1 .. blocks
      BY <1>3, <1>9, ListsAre
    <3> QED
      BY <1>9, <3>1, <3>2
  <2>4. R2[Main] = {Main} /\ part'[Main] = part[Main]
    BY <1>2, <1>4, <1>9, <2>2, <2>3
  <2>5. part'[Sub].elts = part[Sub].elts
    BY <1>2, <1>5, <1>9
  <2>6. part[Sub].nelts <= part'[Sub].nelts
    <3>1. CASE z = Sub
      BY <1>3, <3>1
    <3>2. CASE z # Sub
      <4>1. part'[Sub] = part[Sub]
        BY <1>2, <1>5, <1>9, <3>2
      <4>2. part[Sub].nelts \in Nat
        BY <1>5, <1>9, PartIs DEF ListTypes
      <4> QED
        BY <4>1, <4>2
    <3> QED
      BY <3>1, <3>2
  <2>7. part[Main].nelts \in Nat /\ part[Sub].nelts \in Nat /\ part'[Sub].nelts \in Nat
    <3>1. Parted(part) /\ Parted(part') /\ Main \in L!Parts /\ Sub \in L!Parts
      BY <1>5, <1>9 DEF ListTypes, PutDone
    <3> QED
      BY <3>1, PartIs
  <2> QED
    BY <2>2, <2>4, <2>5, <2>6, <2>7
<1> QED
  BY <1>1, <1>6, <1>7, <1>10, <1>11, <1>12 DEF Laid

LEMMA PutOwn ==
    ASSUME ListTypes, NEW R, Laid(R), NEW l \in L!Lists, NEW x \in Headers, NEW c, PutDone(l, x, c),
           Ends(part, R[l], last[l])
    PROVE  /\ \A p \in R[l] : /\ Flat(part')[p] = Append(Flat(part)[p], c)
                              /\ \A i \in 1 .. Len(Flat(part)[p]) : Flat(part)[p][i] # c
           /\ Ends(part', Wider(R, last[l], last'[l])[l], last'[l])
<1>1. PICK z, w, r : z = last[l] /\ w = last'[l] /\ r = R[l]
  OBVIOUS
<1>2. /\ \A p \in r : p # z => part'[p] = part[p]
      /\ \A p \in r : p # w \/ p = z
      /\ z \in r /\ z \in L!Parts /\ w \in L!Parts
      /\ part'[w].next = None
      /\ \/ w = z
         \/ w # z /\ w \in Nat /\ part'[z].next = w
  BY <1>1, PutParts
<1>3. Closed(part, r) /\ Ends(part, r, z) /\ Parted(part) /\ Parted(part') /\ c \in Spots
  BY <1>1 DEF Laid, ListTypes, PutDone
<1>4. part[z].next = None
  BY <1>2, <1>3 DEF Ends
<1>5. Flat(part')[z] = Append(Flat(part)[z], c)
  BY <1>1, <1>4 DEF PutDone
<1>6. \A p \in r : Flat(part')[p] = Append(Flat(part)[p], c)
  <2>1. PICK ps, pt : ps = part /\ pt = part'
    OBVIOUS
  <2>2. /\ Parted(ps) /\ Parted(pt) /\ Closed(ps, r) /\ Ends(ps, r, z)
        /\ \A p \in r \ {z} : pt[p] = ps[p]
        /\ Flat(pt)[z] = Append(Flat(ps)[z], c)
    BY <1>2, <1>3, <1>5, <2>1
  <2>3. \A p \in r : Flat(pt)[p] = Append(Flat(ps)[p], c)
    BY <1>3, <2>2, FlatGrows
  <2> QED
    BY <2>1, <2>3
<1>7. ASSUME NEW p \in r, NEW i \in 1 .. Len(Flat(part)[p])
      PROVE  Flat(part)[p][i] # c
  <2>1. PICK s : s = Flat(part)[p][i]
    OBVIOUS
  <2>2. s[1] < part[z].elts \/ (s[1] = part[z].elts /\ s[2] <= part[z].nelts)
    BY <1>2, <1>3, <2>1, FlatBelow
  <2>3. (c[1] = part[z].elts /\ c[2] = part[z].nelts + 1) \/ c[1] > blocks
    BY <1>1 DEF PutDone
  <2>4. /\ part[z].elts \in Nat /\ part[z].elts <= blocks /\ blocks \in Nat /\ part[z].nelts \in Nat
    BY <1>2, <1>3, PartIs, ListsAre DEF ListTypes, Stored
  <2>5. s \in Spots
    <3>1. p \in L!Parts
      BY <1>3 DEF Closed
    <3> QED
      BY <1>3, <2>1, <3>1, FlatSpot
  <2>6. s[1] \in Nat /\ s[2] \in Nat
    BY <2>5, SpotIs
  <2>7. s # c
    BY <2>2, <2>3, <2>4, <2>6
  <2> QED
    BY <2>1, <2>7
<1>8. Ends(part', Wider(R, z, w)[l], w)
  <2>1. Wider(R, z, w)[l] = IF w # z THEN r \cup {w} ELSE r
    BY <1>1, <1>2 DEF Wider
  <2>2. None \notin r
    BY <1>3, ListsAre DEF Closed
  <2>3. ASSUME NEW p \in r \cup {w}
        PROVE  part'[p].next = None <=> p = w
    <3>1. CASE p = w
      BY <1>2, <3>1
    <3>2. CASE p # w /\ p = z
      <4>1. part'[z].next = w /\ w # None
        BY <1>2, <3>2, ListsAre
      <4> QED
        BY <3>2, <4>1
    <3>3. CASE p # w /\ p # z
      <4>1. part'[p] = part[p] /\ p \in r
        BY <1>2, <3>3
      <4> QED
        BY <1>3, <3>3, <4>1 DEF Ends
    <3> QED
      BY <3>1, <3>2, <3>3
  <2> QED
    BY <2>1, <2>3 DEF Ends
<1> QED
  BY <1>1, <1>6, <1>7, <1>8

LEMMA PutOther ==
    ASSUME ListTypes, NEW R, Laid(R), NEW l \in L!Lists, L!InUse(l), NEW x \in Headers,
           NEW c, PutDone(l, x, c), UNCHANGED <<copied, tied, plain>>, L!Wrote(l),
           NEW k \in L!Lists, k # l, Sure(k)', Intact(k, R)
    PROVE  /\ \A p \in R[k] : /\ Flat(part')[p] = Flat(part)[p] /\ part'[p] = part[p]
                              /\ \A i \in 1 .. Len(Flat(part)[p]) : Flat(part)[p][i] # c
           /\ Wider(R, last[l], last'[l])[k] = R[k] /\ last'[k] = last[k]
<1>1. PICK z, w, r : z = last[l] /\ w = last'[l] /\ r = R[k]
  OBVIOUS
<1>2. /\ \A p \in r : p # z => part'[p] = part[p]
      /\ z \in R[l] /\ z \in L!Parts
  BY <1>1, PutParts
<1>3. Closed(part, r) /\ Parted(part) /\ Parted(part') /\ last'[k] = last[k]
  BY <1>1 DEF Laid, ListTypes, PutDone
<1>4. (c[1] = part[z].elts /\ c[2] = part[z].nelts + 1) \/ c[1] > blocks
  BY <1>1 DEF PutDone
<1>5. \A p \in L!Parts : /\ part[p].elts \in Nat /\ part[p].elts <= blocks
                         /\ part[p].nelts \in Nat /\ blocks \in Nat
  BY <1>3, PartIs, ListsAre DEF ListTypes, Stored
<1>6. /\ wrote' = (IF tied THEN wrote \cup {l} ELSE wrote)
      /\ copied' = copied /\ tied' = tied /\ plain' = plain
  BY DEF L!Wrote
<1>7. Main \in L!Lists /\ Sub \in L!Lists /\ Main # Sub /\ \A a \in L!Lists : a = Main \/ a = Sub
  BY ListsAre
<1>8. L!Other(k) = l
  BY <1>7 DEF L!Other
<1>9. copied
  BY <1>6, <1>7 DEF Sure, L!InUse
<1>10. z \notin r /\ \A p \in r : \A i \in 1 .. Len(Flat(part)[p]) : Flat(part)[p][i] # c
  <2>1. CASE ~tied
    <3>1. \A p \in R[k], q \in R[l] : part[p].elts # part[q].elts
      BY <1>7, <1>9, <2>1 DEF Laid
    <3>2. ASSUME NEW p \in r, NEW i \in 1 .. Len(Flat(part)[p])
          PROVE  Flat(part)[p][i] # c
      <4>1. PICK q \in r : Flat(part)[p][i][1] = part[q].elts
        BY <1>3, FlatBlocks
      <4>2. part[q].elts # part[z].elts /\ part[q].elts \in Nat /\ part[q].elts <= blocks
            /\ blocks \in Nat
        BY <1>1, <1>2, <1>3, <1>5, <3>1 DEF Closed
      <4> QED
        BY <1>4, <4>1, <4>2
    <3> QED
      BY <1>1, <1>2, <3>1, <3>2
  <2>2. CASE tied
    <3>1. k = Main /\ plain /\ Main \notin wrote /\ l = Sub
      BY <1>6, <1>7, <1>8, <2>2 DEF Sure
    <3>2. r = {Main} /\ part[Sub].elts = part[Main].elts /\ part[Main].nelts <= part[Sub].nelts
      BY <1>1, <2>2, <3>1 DEF Laid
    <3>3. /\ R[Sub] \subseteq {Sub} \cup 1 .. blocks
          /\ \A p \in R[Sub] \ {Sub} : part[p].elts = p /\ p > part[Sub].elts
      BY <1>7 DEF Laid
    <3>4. z # Main
      <4>1. Main \notin 1 .. blocks
        BY <1>5, <1>7, ListsAre
      <4> QED
        BY <1>2, <1>7, <3>1, <3>3, <4>1
    <3>5. ASSUME NEW i \in 1 .. Len(Flat(part)[Main])
          PROVE  Flat(part)[Main][i] # c
      <4>1. PICK s : s = Flat(part)[Main][i]
        OBVIOUS
      <4>2. Main \in r /\ Ends(part, r, Main)
        <5>1. Ends(part, r, last[Main]) /\ last[Main] \in r
          BY <1>1, <1>7, <3>1 DEF Intact, Laid
        <5> QED
          BY <3>2, <5>1
      <4>3. s[1] < part[Main].elts \/ (s[1] = part[Main].elts /\ s[2] <= part[Main].nelts)
        BY <1>3, <4>1, <4>2, FlatBelow
      <4>4. /\ part[Main].elts \in Nat /\ part[Main].nelts \in Nat /\ part[Sub].nelts \in Nat
            /\ part[Main].elts <= blocks /\ blocks \in Nat
        BY <1>5, <1>7, ListsAre
      <4>7. s[1] \in Nat /\ s[2] \in Nat
        <5>1. Main \in L!Parts
          BY ListsAre
        <5>2. s \in Spots
          BY <1>3, <4>1, <5>1, FlatSpot
        <5> QED
          BY <5>2, SpotIs
      <4> SUFFICES s # c
        BY <4>1
      <4>5. CASE z = Sub
        BY <1>4, <3>2, <4>3, <4>4, <4>5, <4>7
      <4>6. CASE z # Sub
        <5>1. part[z].elts = z /\ z > part[Main].elts
          BY <1>2, <3>1, <3>2, <3>3, <4>6
        <5>2. part[z].elts \in Nat
          BY <1>2, <1>5
        <5> QED
          BY <1>4, <4>3, <4>4, <4>7, <5>1, <5>2
      <4> QED
        BY <4>5, <4>6
    <3> QED
      BY <3>2, <3>4, <3>5
  <2> QED
    BY <2>1, <2>2
<1>11. \A p \in r : part'[p] = part[p]
  BY <1>2, <1>10
<1>12. \A p \in r : Flat(part')[p] = Flat(part)[p]
  <2>1. PICK ps, pt : ps = part /\ pt = part'
    OBVIOUS
  <2>2. Parted(ps) /\ Parted(pt) /\ Closed(ps, r) /\ \A p \in r : pt[p] = ps[p]
    BY <1>3, <1>11, <2>1
  <2>3. \A p \in r : Flat(pt)[p] = Flat(ps)[p]
    BY <2>2, FlatSame
  <2> QED
    BY <2>1, <2>3
<1>13. Wider(R, z, w)[k] = r
  BY <1>1, <1>10 DEF Wider
<1> QED
  BY <1>1, <1>3, <1>10, <1>11, <1>12, <1>13

LEMMA HoldingGrows ==
    ASSUME NEW f \in Seq(Spots), NEW c \in Spots, \A i \in 1 .. Len(f) : f[i] # c,
           NEW S, NEW s \in Seq(S), NEW x \in S, NEW cs, NEW ct, ct[c[1]][c[2]] = x,
           \A q \in Spots : q # c => ct[q[1]][q[2]] = cs[q[1]][q[2]],
           Holding(f, cs, s)
    PROVE  Holding(Append(f, c), ct, Append(s, x))
<1>1. PICK g, t : g = Append(f, c) /\ t = Append(s, x)
  OBVIOUS
<1>2. /\ Len(g) = Len(f) + 1 /\ g[Len(f) + 1] = c /\ \A i \in 1 .. Len(f) : g[i] = f[i]
      /\ Len(t) = Len(s) + 1 /\ t[Len(s) + 1] = x /\ \A i \in 1 .. Len(s) : t[i] = s[i]
  BY <1>1, AppendIs
<1>3. Len(f) = Len(s) /\ Len(s) \in Nat /\ \A i \in 1 .. Len(s) : cs[f[i][1]][f[i][2]] = s[i]
  BY DEF Holding
<1>4. ASSUME NEW i \in 1 .. Len(t)
      PROVE  ct[g[i][1]][g[i][2]] = t[i]
  <2>1. i = Len(s) + 1 \/ i \in 1 .. Len(s)
    BY <1>2, <1>3
  <2>2. CASE i = Len(s) + 1
    BY <1>2, <1>3, <2>2
  <2>3. CASE i \in 1 .. Len(s)
    <3>1. g[i] = f[i] /\ t[i] = s[i] /\ f[i] \in Spots /\ f[i] # c
      BY <1>2, <1>3, <2>3
    <3> QED
      BY <1>3, <2>3, <3>1
  <2> QED
    BY <2>1, <2>2, <2>3
<1> QED
  BY <1>1, <1>2, <1>3, <1>4 DEF Holding

LEMMA HoldingSame ==
    ASSUME NEW f \in Seq(Spots), NEW c, \A i \in 1 .. Len(f) : f[i] # c,
           NEW s, NEW cs, NEW ct,
           \A q \in Spots : q # c => ct[q[1]][q[2]] = cs[q[1]][q[2]],
           Holding(f, cs, s)
    PROVE  Holding(f, ct, s)
<1>1. Len(f) = Len(s) /\ \A i \in 1 .. Len(s) : cs[f[i][1]][f[i][2]] = s[i]
  BY DEF Holding
<1>2. \A i \in 1 .. Len(s) : f[i] \in Spots /\ f[i] # c
  BY <1>1
<1> QED
  BY <1>1, <1>2 DEF Holding

LEMMA SureBefore ==
    ASSUME NEW k \in L!Lists, wrote \subseteq wrote', copied' = copied, plain' => plain, Sure(k)'
    PROVE  Sure(k)
BY DEF Sure, L!InUse

LEMMA FlatOfPart ==
    ASSUME NEW ps, Parted(ps), NEW p \in L!Parts \cup {None}
    PROVE  Flat(ps)[p] \in Seq(Spots) /\ Once(Flat(ps)[p]) /\ Flat(ps)[None] = <<>>
<1>1. PICK f : f = Flat(ps)
  OBVIOUS
<1>2. Flats(f, ps)
  BY <1>1, FlatIs
<1>3. f[p] \in Seq(Spots) /\ Once(f[p])
  BY <1>2, FlatSpots
<1> QED
  BY <1>1, <1>2, <1>3 DEF Flats

LEMMA PutIntact ==
    ASSUME ListTypes, NEW R, Laid(R), NEW l \in L!Lists, L!InUse(l), NEW x \in Headers,
           NEW c, PutDone(l, x, c), UNCHANGED <<copied, tied, plain>>, L!Wrote(l),
           own' = [own EXCEPT ![l] = Append(own[l], x)],
           \A k \in L!Lists : Sure(k) => Intact(k, R),
           NEW R2, R2 = Wider(R, last[l], last'[l]), NEW k \in L!Lists, Sure(k)'
    PROVE  Intact(k, R2)'
<1>1. Sure(k) /\ Intact(k, R)
  <2>1. wrote \subseteq wrote' /\ copied' = copied /\ plain' = plain
    BY DEF L!Wrote
  <2>2. Sure(k)
    BY <2>1, SureBefore
  <2> QED
    BY <2>2
<1>2. /\ Ends(part, R[k], last[k]) /\ Holding(Flat(part)[k], cells, own[k])
      /\ k \in R[k] /\ k \in L!Parts
  BY <1>1 DEF Intact, Laid, Closed
<1>3. /\ Parted(part) /\ Parted(part') /\ c \in Spots /\ cells'[c[1]][c[2]] = x
      /\ \A s \in Spots : s # c => cells'[s[1]][s[2]] = cells[s[1]][s[2]]
  BY DEF ListTypes, PutDone
<1>4. PICK f, ow : f = Flat(part)[k] /\ ow = own[k]
  OBVIOUS
<1>5. f \in Seq(Spots) /\ ow \in Seq(Headers)
  <2>1. Flat(part)[k] \in Seq(Spots)
    BY <1>2, <1>3, FlatOfPart
  <2>2. own[k] \in Seq(Headers)
    BY DEF ListTypes
  <2> QED
    BY <1>4, <2>1, <2>2
<1>6. own \in [L!Lists -> Seq(Headers)]
  BY DEF ListTypes
<1>7. CASE k = l
  <2>1. /\ Flat(part')[k] = Append(f, c)
        /\ \A i \in 1 .. Len(f) : f[i] # c
        /\ Ends(part', R2[k], last'[k])
    BY <1>2, <1>4, <1>7, PutOwn
  <2>2. own'[k] = Append(ow, x)
    BY <1>4, <1>6, <1>7
  <2>3. PICK cs, ct : cs = cells /\ ct = cells'
    OBVIOUS
  <2>4. Holding(Append(f, c), ct, Append(ow, x))
    BY <1>2, <1>3, <1>4, <1>5, <2>1, <2>3, HoldingGrows
  <2> QED
    BY <2>1, <2>2, <2>3, <2>4 DEF Intact
<1>8. CASE k # l
  <2>1. /\ \A p \in R[k] : /\ Flat(part')[p] = Flat(part)[p] /\ part'[p] = part[p]
                           /\ \A i \in 1 .. Len(Flat(part)[p]) : Flat(part)[p][i] # c
        /\ Wider(R, last[l], last'[l])[k] = R[k] /\ last'[k] = last[k]
    BY <1>1, <1>8, PutOther
  <2>2. own'[k] = ow
    BY <1>4, <1>6, <1>8
  <2>3. PICK cs, ct : cs = cells /\ ct = cells'
    OBVIOUS
  <2>4. Flat(part')[k] = f /\ \A i \in 1 .. Len(f) : f[i] # c
    BY <1>2, <1>4, <2>1
  <2>5. Holding(f, ct, ow)
    BY <1>2, <1>3, <1>4, <1>5, <2>3, <2>4, HoldingSame
  <2>6. Ends(part', R2[k], last'[k])
    BY <1>2, <2>1 DEF Ends
  <2> QED
    BY <2>2, <2>3, <2>4, <2>5, <2>6 DEF Intact
<1> QED
  BY <1>7, <1>8

LEMMA PutTypes ==
    ASSUME ListTypes, NEW l \in L!Lists, NEW x \in Headers, NEW c, PutDone(l, x, c), L!Wrote(l),
           own' = [own EXCEPT ![l] = Append(own[l], x)], visit' \in Visitors \cup {None}
    PROVE  ListTypes'
<1>1. own' \in [L!Lists -> Seq(Headers)]
  BY DEF ListTypes
<1>2. wrote' \in SUBSET L!Lists
  BY DEF ListTypes, L!Wrote
<1> QED
  BY <1>1, <1>2 DEF ListTypes, PutDone

HeldBy(R) == \A l \in L!Lists : Sure(l) => Intact(l, R)

LEMMA ListInit == L!Init => Listed
<1> SUFFICES ASSUME L!Init
             PROVE  Listed
  OBVIOUS
<1>1. /\ part = [p \in L!Parts |-> [elts |-> 1, nelts |-> 0, next |-> None]]
      /\ last = [l \in L!Lists |-> l] /\ blocks = 1 /\ visit = None /\ copied = FALSE
      /\ cells = [b \in 1 .. MaxBlocks |-> [i \in 1 .. Nalloc |-> None]]
      /\ own = [l \in L!Lists |-> <<>>] /\ tied = FALSE /\ wrote = {} /\ plain = FALSE
  BY DEF L!Init, L!Fresh
<1>2. 1 \in 1 .. MaxBlocks /\ 0 \in 0 .. Nalloc /\ L!Lists \subseteq L!Parts
  BY ListsAre DEF L!Parts, L!Lists
<1>3. Parted(part)
  BY <1>1, <1>2 DEF Parted
<1>4. <<>> \in Seq(Headers)
  OBVIOUS
<1>5. \A p \in L!Parts : part[p].nelts = 0 /\ part[p].elts = 1 /\ part[p].next = None
  BY <1>1
<1>6. Stored(part, cells, blocks)
  BY <1>1, <1>5 DEF Stored
<1>7. ListTypes
  BY <1>1, <1>2, <1>3, <1>4, <1>6 DEF ListTypes
<1>8. PICK R : R = [l \in L!Lists |-> {l}]
  OBVIOUS
<1>9. Laid(R)
  <2>1. \A l \in L!Lists : Closed(part, R[l]) /\ last[l] = l /\ R[l] = {l}
    BY <1>1, <1>2, <1>5, <1>8 DEF Closed
  <2>2. R \in [L!Lists -> SUBSET L!Parts]
    BY <1>2, <1>8
  <2> QED
    BY <1>1, <2>1, <2>2 DEF Laid
<1>10. ASSUME NEW l \in L!Lists
       PROVE  Intact(l, R)
  <2>1. PICK f : f = Flat(part)[l]
    OBVIOUS
  <2>2. f = <<>>
    <3>1. PICK g : g = Flat(part)
      OBVIOUS
    <3>2. g[None] = <<>> /\ g[l] = Run(part[l]) \o g[part[l].next]
      BY <1>2, <1>3, <3>1, FlatIs DEF Flats
    <3>3. part[l].next = None /\ part[l].nelts = 0 /\ part[l].elts = 1
      BY <1>2, <1>5
    <3>4. Run(part[l]) \in Seq(Spots) /\ Len(Run(part[l])) = 0
      BY <1>2, <3>3, RunIs
    <3>5. Run(part[l]) = <<>>
      BY <3>4, EmptySeq
    <3>6. <<>> \o <<>> = <<>>
      BY <3>4, <3>5, ConcatEmptySeq
    <3> QED
      BY <2>1, <3>1, <3>2, <3>3, <3>5, <3>6
  <2>3. Ends(part, R[l], last[l])
    BY <1>1, <1>2, <1>5, <1>8 DEF Ends
  <2>4. own[l] = <<>>
    BY <1>1
  <2>5. PICK s : s = own[l]
    OBVIOUS
  <2>6. Len(f) = 0 /\ Len(s) = 0
    BY <2>2, <2>4, <2>5
  <2> QED
    BY <2>1, <2>3, <2>5, <2>6 DEF Intact, Holding
<1> QED
  BY <1>1, <1>7, <1>9, <1>10 DEF Listed

LEMMA ListPush ==
    ASSUME Listed, NEW l \in L!Lists, NEW k \in Keys, L!push(l, k)
    PROVE  Listed'
<1>1. PICK R : Laid(R) /\ \A j \in L!Lists : Sure(j) => Intact(j, R)
  BY DEF Listed
<1>2. PICK x : x = [L!Header(k, l) EXCEPT !.hash = 1]
  OBVIOUS
<1>3. x \in Headers
  BY <1>2 DEF L!Header, Headers
<1>4. /\ visit = None /\ visit' = visit /\ L!InUse(l)
      /\ L!put(l, x) /\ own' = [own EXCEPT ![l] = Append(own[l], x)] /\ L!Wrote(l)
      /\ copied' = copied /\ tied' = tied /\ plain' = plain
  BY <1>2 DEF L!push, L!Call, L!add
<1>5. ListTypes
  BY DEF Listed
<1>6. PICK c : PutDone(l, x, c)
  BY <1>1, <1>3, <1>4, <1>5, PutIs
<1>7. PICK R2 : R2 = Wider(R, last[l], last'[l])
  OBVIOUS
<1>8. Laid(R2)'
  BY <1>1, <1>3, <1>4, <1>5, <1>6, <1>7, PutLays
<1>9. HeldBy(R2)'
  <2>1. ASSUME NEW j \in L!Lists, Sure(j)'
        PROVE  Intact(j, R2)'
    BY <1>1, <1>3, <1>4, <1>5, <1>6, <1>7, <2>1, PutIntact
  <2> QED
    BY <2>1 DEF HeldBy
<1>10. ListTypes'
  BY <1>3, <1>4, <1>5, <1>6, PutTypes
<1>11. visit' = None
  BY <1>4
<1> QED
  BY <1>8, <1>9, <1>10, <1>11 DEF Listed, HeldBy

LEMMA ContentsAre ==
    ASSUME ListTypes, NEW l \in L!Lists, NEW f, f = Flat(part)[l]
    PROVE  /\ L!From[l] = f /\ f \in Seq(Spots) /\ DOMAIN f = 1 .. Len(f)
           /\ DOMAIN L!Contents(l) = 1 .. Len(f)
           /\ \A i \in 1 .. Len(f) : L!Contents(l)[i] = cells[f[i][1]][f[i][2]]
<1>1. l \in L!Parts
  BY DEF L!Parts
<1>2. L!From[l] = f
  BY FromIsFlat
<1>3. f \in Seq(Spots)
  BY <1>1, FlatOfPart DEF ListTypes
<1> QED
  BY <1>2, <1>3 DEF L!Contents, L!Held

LEMMA ContentsHeld ==
    ASSUME ListTypes, NEW l \in L!Lists, Holding(Flat(part)[l], cells, own[l])
    PROVE  L!Contents(l) = own[l]
<1>1. PICK f, s : f = Flat(part)[l] /\ s = own[l]
  OBVIOUS
<1>2. /\ DOMAIN L!Contents(l) = 1 .. Len(f)
      /\ \A i \in 1 .. Len(f) : L!Contents(l)[i] = cells[f[i][1]][f[i][2]]
      /\ L!Contents(l) = [i \in DOMAIN L!Contents(l) |-> L!Contents(l)[i]]
  <2>1. L!Contents(l) = [i \in DOMAIN L!Contents(l) |-> L!Contents(l)[i]]
    BY DEF L!Contents
  <2> QED
    BY <1>1, <2>1, ContentsAre
<1>3. s \in Seq(Headers)
  BY <1>1 DEF ListTypes
<1>4. Len(f) = Len(s) /\ \A i \in 1 .. Len(s) : cells[f[i][1]][f[i][2]] = s[i]
  BY <1>1 DEF Holding
<1>5. s = [i \in 1 .. Len(s) |-> s[i]]
  BY <1>3
<1> QED
  BY <1>1, <1>2, <1>4, <1>5

\* Only one element is found.
LEMMA FoundOnce ==
    ASSUME NEW s, NEW n \in Nat, DOMAIN s = 1 .. n, NEW k,
           NEW i \in L!Found(s, k), NEW j \in L!Found(s, k)
    PROVE  i = j
<1>1. /\ i \in 1 .. n /\ s[i].key = k /\ \A m \in 1 .. (i - 1) : s[m].key # k
      /\ j \in 1 .. n /\ s[j].key = k /\ \A m \in 1 .. (j - 1) : s[m].key # k
  BY DEF L!Found
<1>2. ~(i < j) /\ ~(j < i)
  BY <1>1
<1> QED
  BY <1>1, <1>2

LEMMA ListRemove ==
    ASSUME Listed, NEW l \in L!Lists, NEW k \in Keys, L!remove(l, k)
    PROVE  Listed'
<1>1. PICK R : Laid(R) /\ \A j \in L!Lists : Sure(j) => Intact(j, R)
  BY DEF Listed
<1>2. /\ visit = None /\ visit' = visit /\ L!InUse(l) /\ L!Wrote(l)
      /\ plain' = (plain /\ l = Main)
      /\ part' = part /\ last' = last /\ blocks' = blocks /\ copied' = copied /\ tied' = tied
  BY DEF L!remove, L!Call
<1>3. ListTypes
  BY DEF Listed
<1>4. PICK f : f = Flat(part)[l]
  OBVIOUS
<1>5. /\ L!From[l] = f /\ f \in Seq(Spots) /\ DOMAIN L!Contents(l) = 1 .. Len(f)
      /\ \A i \in 1 .. Len(f) : L!Contents(l)[i] = cells[f[i][1]][f[i][2]]
  BY <1>3, <1>4, ContentsAre
<1>6. PICK i \in L!Found(L!Contents(l), k) :
        LET c == L!From[l][i] IN cells' = [cells EXCEPT ![c[1]][c[2]].hash = 0]
  BY DEF L!remove
<1>7. i \in 1 .. Len(f)
  BY <1>5, <1>6 DEF L!Found
<1>8. PICK c \in Spots : c = f[i]
  BY <1>5, <1>7
<1>9. PICK b, n : b = c[1] /\ n = c[2]
  OBVIOUS
<1>10. b \in 1 .. MaxBlocks /\ n \in 1 .. Nalloc /\ c = Pair(b, n)
  BY <1>9, SpotIs
<1>11. l \in R[l] /\ Closed(part, R[l]) /\ l \in L!Parts /\ Parted(part)
  BY <1>1, <1>3 DEF Laid, ListTypes, L!Parts
<1>12. PICK q \in R[l] : b = part[q].elts /\ n \in 1 .. part[q].nelts
  BY <1>4, <1>7, <1>8, <1>9, <1>11, FlatBlocks
<1>13. cells[b][n] \in Headers
  BY <1>3, <1>11, <1>12 DEF ListTypes, Stored, Closed
<1>14. PICK y : y = [cells[b][n] EXCEPT !.hash = 0]
  OBVIOUS
<1>15. y \in Headers
  BY <1>13, <1>14 DEF Headers
<1>16. PICK g, h : g = cells[b] /\ h = [g EXCEPT ![n] = y]
  OBVIOUS
<1>17. cells' = [cells EXCEPT ![b] = h]
  <2>1. cells' = [cells EXCEPT ![b] = [cells[b] EXCEPT ![n] = [cells[b][n] EXCEPT !.hash = 0]]]
    BY <1>5, <1>6, <1>8, <1>9
  <2> QED
    BY <1>14, <1>16, <2>1
<1>18. cells \in [1 .. MaxBlocks -> [1 .. Nalloc -> Headers \cup {None}]]
  BY <1>3 DEF ListTypes
<1>19. /\ h \in [1 .. Nalloc -> Headers \cup {None}] /\ h[n] = y
       /\ \A j \in 1 .. Nalloc : j # n => h[j] = g[j]
  BY <1>10, <1>15, <1>16, <1>18
<1>20. /\ cells' \in [1 .. MaxBlocks -> [1 .. Nalloc -> Headers \cup {None}]]
       /\ cells'[b] = h /\ \A a \in 1 .. MaxBlocks : a # b => cells'[a] = cells[a]
  BY <1>10, <1>17, <1>18, <1>19
<1>21. \A s \in Spots : s # c => cells'[s[1]][s[2]] = cells[s[1]][s[2]]
  <2> TAKE s \in Spots
  <2> SUFFICES ASSUME s # c
               PROVE  cells'[s[1]][s[2]] = cells[s[1]][s[2]]
    OBVIOUS
  <2>1. s = Pair(s[1], s[2]) /\ s[1] \in 1 .. MaxBlocks /\ s[2] \in 1 .. Nalloc
    BY SpotIs
  <2>2. ~(s[1] = b /\ s[2] = n)
    BY <1>10, <2>1
  <2>3. CASE s[1] = b
    BY <1>16, <1>19, <1>20, <2>1, <2>2, <2>3
  <2>4. CASE s[1] # b
    BY <1>20, <2>1, <2>4
  <2> QED
    BY <2>3, <2>4
<1>22. Stored(part', cells', blocks')
  <2>1. Stored(part, cells, blocks)
    BY <1>3 DEF ListTypes
  <2>2. ASSUME NEW p \in L!Parts, NEW j \in 1 .. part[p].nelts
        PROVE  cells'[part[p].elts][j] \in Headers
    <3>1. part[p].elts \in 1 .. MaxBlocks /\ j \in 1 .. Nalloc
      BY <1>11, PartIs, ListsAre
    <3>2. cells[part[p].elts][j] \in Headers
      BY <2>1 DEF Stored
    <3>3. CASE part[p].elts = b /\ j = n
      BY <1>15, <1>19, <1>20, <3>3
    <3>4. CASE part[p].elts = b /\ j # n
      BY <1>16, <1>19, <1>20, <3>1, <3>2, <3>4
    <3>5. CASE part[p].elts # b
      BY <1>20, <3>1, <3>2, <3>5
    <3> QED
      BY <3>3, <3>4, <3>5
  <2> QED
    BY <1>2, <2>1, <2>2 DEF Stored
<1>23. /\ own' = [own EXCEPT ![l] = [j \in DOMAIN own[l] |->
                    IF j \in L!Found(own[l], k) THEN [own[l][j] EXCEPT !.hash = 0] ELSE own[l][j]]]
       /\ own \in [L!Lists -> Seq(Headers)]
  BY <1>3 DEF L!remove, ListTypes
<1>24. PICK s, t : /\ s = own[l]
                   /\ t = [j \in DOMAIN s |-> IF j \in L!Found(s, k) THEN [s[j] EXCEPT !.hash = 0]
                                              ELSE s[j]]
  OBVIOUS
<1>25. /\ s \in Seq(Headers) /\ DOMAIN s = 1 .. Len(s) /\ Len(s) \in Nat
       /\ t \in Seq(Headers) /\ Len(t) = Len(s)
       /\ \A j \in 1 .. Len(s) :
            /\ j \in L!Found(s, k) => t[j] = [s[j] EXCEPT !.hash = 0]
            /\ j \notin L!Found(s, k) => t[j] = s[j]
  <2>1. s \in Seq(Headers) /\ DOMAIN s = 1 .. Len(s) /\ Len(s) \in Nat
    BY <1>23, <1>24
  <2>2. \A j \in 1 .. Len(s) :
            /\ j \in L!Found(s, k) => t[j] = [s[j] EXCEPT !.hash = 0]
            /\ j \notin L!Found(s, k) => t[j] = s[j]
    BY <1>24, <2>1
  <2>3. \A j \in 1 .. Len(s) : t[j] \in Headers
    <3> TAKE j \in 1 .. Len(s)
    <3>1. s[j] \in Headers
      BY <2>1
    <3>2. [s[j] EXCEPT !.hash = 0] \in Headers
      BY <3>1 DEF Headers
    <3> QED
      BY <2>2, <3>1, <3>2
  <2>4. DOMAIN t = 1 .. Len(s) /\ t = [j \in 1 .. Len(s) |-> t[j]]
    BY <1>24, <2>1
  <2>5. t \in [1 .. Len(s) -> Headers]
    BY <2>3, <2>4
  <2>6. t \in Seq(Headers)
    BY <2>1, <2>5
  <2> QED
    BY <2>1, <2>2, <2>4, <2>6
<1>26. own' = [own EXCEPT ![l] = t]
  BY <1>23, <1>24
<1>27. ListTypes'
  <2>1. own' \in [L!Lists -> Seq(Headers)]
    BY <1>23, <1>25, <1>26
  <2>2. wrote' \in SUBSET L!Lists
    BY <1>2, <1>3 DEF ListTypes, L!Wrote
  <2> QED
    BY <1>2, <1>3, <1>20, <1>22, <2>1, <2>2 DEF ListTypes
<1>28. /\ wrote' = (IF tied THEN wrote \cup {l} ELSE wrote) /\ wrote \subseteq wrote'
       /\ (plain' => plain)
  BY <1>2 DEF L!Wrote
<1>29. Laid(R)'
  BY <1>1, <1>2, <1>28 DEF Laid
<1>30. HeldBy(R)'
  <2> SUFFICES ASSUME NEW j \in L!Lists, Sure(j)'
               PROVE  Intact(j, R)'
    BY DEF HeldBy
  <2>1. Sure(j) /\ Intact(j, R)
    <3>1. Sure(j)
      BY <1>2, <1>28, SureBefore
    <3> QED
      BY <1>1, <3>1
  <2>2. Ends(part', R[j], last'[j]) /\ Holding(Flat(part)[j], cells, own[j])
    BY <1>2, <2>1 DEF Intact
  <2>3. CASE j = l
    <3>1. L!Contents(l) = s /\ Len(f) = Len(s)
      BY <1>3, <1>4, <1>24, <2>2, <2>3, ContentsHeld DEF Holding
    <3>2. i \in L!Found(s, k)
      BY <1>6, <3>1
    <3>3. \A m \in 1 .. Len(s) : m \in L!Found(s, k) => m = i
      BY <1>25, <3>2, FoundOnce
    <3>4. Once(f)
      BY <1>4, <1>11, FlatOfPart
    <3>5. ASSUME NEW m \in 1 .. Len(s)
          PROVE  cells'[f[m][1]][f[m][2]] = t[m]
      <4>1. cells[f[m][1]][f[m][2]] = s[m]
        BY <1>4, <1>24, <2>2, <2>3 DEF Holding
      <4>2. CASE m = i
        <5>1. t[m] = [s[m] EXCEPT !.hash = 0]
          BY <1>25, <3>2, <4>2
        <5>2. s[m] = cells[b][n] /\ f[m] = c
          BY <1>8, <1>9, <4>1, <4>2
        <5>3. t[m] = y
          BY <1>14, <5>1, <5>2
        <5>4. cells'[b][n] = y
          BY <1>19, <1>20
        <5> QED
          BY <1>9, <5>2, <5>3, <5>4
      <4>3. CASE m # i
        <5>1. t[m] = s[m]
          BY <1>25, <3>3, <4>3
        <5>2. f[m] \in Spots /\ f[m] # c
          BY <1>5, <1>7, <1>8, <3>1, <3>4, <4>3 DEF Once
        <5> QED
          BY <1>21, <4>1, <5>1, <5>2
      <4> QED
        BY <4>2, <4>3
    <3>6. own'[l] = t
      BY <1>23, <1>26
    <3>7. Holding(f, cells', t)
      BY <1>25, <3>1, <3>5 DEF Holding
    <3> QED
      BY <1>2, <1>4, <2>2, <2>3, <3>6, <3>7 DEF Intact
  <2>4. CASE j # l
    <3>1. Main \in L!Lists /\ Sub \in L!Lists /\ Main # Sub /\ \A a \in L!Lists : a = Main \/ a = Sub
      BY ListsAre
    <3>2. L!Other(j) = l
      BY <2>4, <3>1 DEF L!Other
    <3>3. copied /\ ~tied
      <4>1. copied
        BY <1>2, <2>1, <2>4, <3>1 DEF Sure, L!InUse
      <4>2. ASSUME tied
            PROVE  FALSE
        <5>1. l \in wrote'
          BY <1>28, <4>2
        <5>2. j = Main /\ plain'
          BY <3>2, <5>1 DEF Sure
        <5> QED
          BY <1>2, <2>4, <5>2
      <4> QED
        BY <4>1, <4>2
    <3>4. \A p \in R[j], a \in R[l] : part[p].elts # part[a].elts
      BY <1>1, <2>4, <3>1, <3>3 DEF Laid
    <3>5. PICK e : e = Flat(part)[j]
      OBVIOUS
    <3>6. j \in R[j] /\ Closed(part, R[j]) /\ j \in L!Parts
      BY <1>1 DEF Laid, L!Parts
    <3>7. e \in Seq(Spots)
      BY <1>11, <3>5, <3>6, FlatOfPart
    <3>8. \A m \in 1 .. Len(e) : e[m] # c
      <4> TAKE m \in 1 .. Len(e)
      <4>1. PICK p \in R[j] : e[m][1] = part[p].elts
        BY <1>11, <3>5, <3>6, FlatBlocks
      <4> QED
        BY <1>9, <1>12, <3>4, <4>1
    <3>9. PICK cs, ct : cs = cells /\ ct = cells'
      OBVIOUS
    <3>10. Holding(e, ct, own[j])
      BY <1>21, <2>2, <3>5, <3>7, <3>8, <3>9, HoldingSame
    <3>11. own'[j] = own[j]
      BY <1>23, <2>4
    <3> QED
      BY <1>2, <2>2, <3>5, <3>9, <3>10, <3>11 DEF Intact
  <2> QED
    BY <2>3, <2>4
<1>31. visit' = None
  BY <1>2
<1> QED
  BY <1>27, <1>29, <1>30, <1>31 DEF Listed, HeldBy

\* A list whose first part is used anew, with its cells or with others.
LEMMA ListAnew ==
    ASSUME Listed, NEW l \in L!Lists, visit = None, visit' = None, cells' = cells, copied' = copied,
           wrote' = wrote, NEW e,
           NEW x, x = [elts |-> e, nelts |-> 0, next |-> None],
           part' = [part EXCEPT ![l] = x], last' = [last EXCEPT ![l] = l],
           own' = [own EXCEPT ![l] = <<>>],
           \/ e = part[l].elts /\ blocks' = blocks /\ tied' = tied /\ plain' = (plain /\ l = Main)
           \/ /\ blocks < MaxBlocks /\ e = blocks + 1 /\ blocks' = e
              /\ tied' = FALSE /\ plain' = plain
    PROVE  Listed'
<1>1. PICK R : Laid(R) /\ \A j \in L!Lists : Sure(j) => Intact(j, R)
  BY DEF Listed
<1>2. ListTypes
  BY DEF Listed
<1>3. /\ L!Lists = {Main, Sub} /\ Main # Sub /\ L!Lists \cap Nat = {} /\ L!Lists \subseteq L!Parts
      /\ None \notin L!Parts /\ MaxBlocks \in Nat /\ 0 \in 0 .. Nalloc
  BY ListsAre
<1>4. /\ Parted(part) /\ Stored(part, cells, blocks) /\ blocks \in 1 .. MaxBlocks /\ blocks \in Nat
      /\ last \in [L!Lists -> L!Parts] /\ own \in [L!Lists -> Seq(Headers)]
  BY <1>2, <1>3 DEF ListTypes
<1>5. /\ x.elts = e /\ x.nelts = 0 /\ x.next = None
      /\ e \in 1 .. MaxBlocks /\ e \in Nat /\ e <= blocks' /\ blocks <= blocks' /\ blocks' \in 1 .. MaxBlocks
  <2>1. part[l].elts \in 1 .. MaxBlocks /\ part[l].elts \in Nat /\ part[l].elts <= blocks
    BY <1>3, <1>4, PartIs DEF Stored
  <2> QED
    BY <1>3, <1>4, <2>1
<1>6. /\ part' \in [L!Parts -> [elts: 1 .. MaxBlocks, nelts: 0 .. Nalloc,
                               next: 1 .. MaxBlocks \cup {None}]]
      /\ part'[l] = x /\ \A p \in L!Parts : p # l => part'[p] = part[p]
  BY <1>3, <1>4, <1>5 DEF Parted
<1>7. Parted(part')
  <2>1. \A p \in L!Parts : part'[p].next # None =>
            /\ part'[p].nelts = Nalloc
            /\ part'[p].next > part'[p].elts /\ part'[part'[p].next].elts = part'[p].next
    <3> SUFFICES ASSUME NEW p \in L!Parts, part'[p].next # None
                 PROVE  /\ part'[p].nelts = Nalloc
                        /\ part'[p].next > part'[p].elts /\ part'[part'[p].next].elts = part'[p].next
      OBVIOUS
    <3>1. p # l /\ part'[p] = part[p]
      BY <1>5, <1>6
    <3>2. part[p].next \in L!Parts /\ part[p].next \in 1 .. MaxBlocks
      BY <1>4, <3>1, PartIs
    <3>3. part[p].next # l
      BY <1>3, <3>2
    <3>4. part'[part[p].next] = part[part[p].next]
      BY <1>6, <3>2, <3>3
    <3> QED
      BY <1>4, <3>1, <3>4 DEF Parted
  <2> QED
    BY <1>6, <2>1 DEF Parted
<1>8. Stored(part', cells', blocks')
  <2> SUFFICES ASSUME NEW p \in L!Parts
               PROVE  /\ part'[p].elts <= blocks'
                      /\ part'[p].next # None => part'[p].next <= blocks'
                      /\ \A i \in 1 .. part'[p].nelts : cells'[part'[p].elts][i] \in Headers
    BY DEF Stored
  <2>1. CASE p = l
    BY <1>5, <1>6, <2>1
  <2>2. CASE p # l
    <3>1. part'[p] = part[p]
      BY <1>6, <2>2
    <3>2. /\ part[p].elts <= blocks /\ part[p].elts \in Nat
          /\ part[p].next # None => part[p].next <= blocks /\ part[p].next \in 1 .. MaxBlocks
          /\ \A i \in 1 .. part[p].nelts : cells[part[p].elts][i] \in Headers
      BY <1>4, PartIs DEF Stored
    <3>3. part[p].elts <= blocks' /\ (part[p].next # None => part[p].next <= blocks')
      BY <1>3, <1>4, <1>5, <3>2
    <3> QED
      BY <3>1, <3>2, <3>3
  <2> QED
    BY <2>1, <2>2
<1>9. ListTypes'
  <2>1. last' \in [L!Lists -> L!Parts]
    BY <1>3, <1>4
  <2>2. <<>> \in Seq(Headers)
    OBVIOUS
  <2>3. own' \in [L!Lists -> Seq(Headers)]
    BY <1>4, <2>2
  <2> QED
    BY <1>2, <1>5, <1>7, <1>8, <2>1, <2>3 DEF ListTypes
<1>10. PICK R2 : R2 = [R EXCEPT ![l] = {l}]
  OBVIOUS
<1>11. /\ R \in [L!Lists -> SUBSET L!Parts] /\ R2 \in [L!Lists -> SUBSET L!Parts]
       /\ R2[l] = {l} /\ \A k \in L!Lists : k # l => R2[k] = R[k]
  BY <1>1, <1>3, <1>10 DEF Laid
<1>12. \A k \in L!Lists : k # l => \A p \in R[k] : p # l /\ p \in L!Parts /\ part'[p] = part[p]
  <2> SUFFICES ASSUME NEW k \in L!Lists, k # l, NEW p \in R[k]
               PROVE  p # l /\ p \in L!Parts /\ part'[p] = part[p]
    OBVIOUS
  <2>1. p \in {k} \cup 1 .. blocks /\ p \in L!Parts
    BY <1>1, <1>11 DEF Laid
  <2>2. p # l
    BY <1>3, <1>4, <2>1
  <2> QED
    BY <1>6, <2>1, <2>2
<1>13. Laid(R2)'
  <2>1. ASSUME NEW k \in L!Lists
        PROVE  /\ k \in R2[k] /\ last'[k] \in R2[k]
               /\ R2[k] \subseteq {k} \cup 1 .. blocks'
               /\ Closed(part', R2[k])
               /\ \A p \in R2[k] \ {k} : part'[p].elts = p /\ p > part'[k].elts
    <3>1. CASE k = l
      <4>1. last'[k] = l /\ R2[k] = {l}
        BY <1>4, <1>11, <3>1
      <4>2. Closed(part', R2[k])
        BY <1>3, <1>5, <1>6, <4>1 DEF Closed
      <4> QED
        BY <3>1, <4>1, <4>2
    <3>2. CASE k # l
      <4>1. R2[k] = R[k] /\ last'[k] = last[k] /\ part'[k] = part[k]
        BY <1>3, <1>4, <1>6, <1>11, <3>2
      <4>2. /\ k \in R[k] /\ last[k] \in R[k] /\ R[k] \subseteq {k} \cup 1 .. blocks
            /\ Closed(part, R[k])
            /\ \A p \in R[k] \ {k} : part[p].elts = p /\ p > part[k].elts
        BY <1>1 DEF Laid
      <4>3. Closed(part', R[k])
        BY <1>12, <3>2, <4>2 DEF Closed
      <4>4. R[k] \subseteq {k} \cup 1 .. blocks'
        BY <1>3, <1>4, <1>5, <4>2
      <4>5. \A p \in R[k] \ {k} : part'[p].elts = p /\ p > part'[k].elts
        BY <1>12, <3>2, <4>1, <4>2
      <4> QED
        BY <4>1, <4>2, <4>3, <4>4, <4>5
    <3> QED
      BY <3>1, <3>2
  <2>2. ~copied' => wrote' = {} /\ ~tied' /\ ~plain'
    BY <1>1 DEF Laid
  <2>3. ASSUME copied' /\ ~tied', NEW p \in R2[Main], NEW q \in R2[Sub]
        PROVE  part'[p].elts # part'[q].elts
    <3>1. \A k \in L!Lists : \A a \in R2[k] : a \in L!Parts /\ part[a].elts <= blocks /\ part[a].elts \in Nat
      BY <1>4, <1>11, PartIs DEF Stored
    <3>2. R2[Main] \subseteq R[Main] /\ R2[Sub] \subseteq R[Sub]
      <4>1. \A k \in L!Lists : k \in R[k]
        BY <1>1 DEF Laid
      <4> QED
        BY <1>3, <1>11, <4>1
    <3>3. CASE e = part[l].elts /\ tied' = tied
      <4>1. part[p].elts # part[q].elts
        BY <1>1, <2>3, <3>2, <3>3 DEF Laid
      <4>2. \A a \in L!Parts : part'[a].elts = part[a].elts
        BY <1>5, <1>6, <3>3
      <4> QED
        BY <1>3, <3>1, <4>1, <4>2
    <3>4. CASE e = blocks + 1
      <4>1. CASE l = Main
        <5>1. p = l /\ part'[p].elts = e
          BY <1>5, <1>6, <1>11, <4>1
        <5>2. part'[q].elts = part[q].elts /\ part[q].elts <= blocks /\ part[q].elts \in Nat
          BY <1>3, <1>11, <1>12, <3>1, <4>1
        <5> QED
          BY <1>4, <3>4, <5>1, <5>2
      <4>2. CASE l = Sub
        <5>1. q = l /\ part'[q].elts = e
          BY <1>5, <1>6, <1>11, <4>2
        <5>2. part'[p].elts = part[p].elts /\ part[p].elts <= blocks /\ part[p].elts \in Nat
          BY <1>3, <1>11, <1>12, <3>1, <4>2
        <5> QED
          BY <1>4, <3>4, <5>1, <5>2
      <4> QED
        BY <1>3, <4>1, <4>2
    <3> QED
      BY <3>3, <3>4
  <2>4. ASSUME plain' /\ tied' /\ Main \notin wrote'
        PROVE  /\ R2[Main] = {Main} /\ part'[Sub].elts = part'[Main].elts
               /\ part'[Main].nelts <= part'[Sub].nelts
    <3>1. l = Main /\ plain /\ tied /\ Main \notin wrote /\ e = part[l].elts
      BY <2>4
    <3>2. part[Sub].elts = part[Main].elts
      BY <1>1, <3>1 DEF Laid
    <3>3. part'[Sub] = part[Sub] /\ part'[Main].elts = e /\ part'[Main].nelts = 0
      BY <1>3, <1>5, <1>6, <3>1
    <3>4. part[Sub].nelts \in Nat
      BY <1>3, <1>4, PartIs
    <3> QED
      BY <1>11, <3>1, <3>2, <3>3, <3>4
  <2> QED
    BY <1>11, <2>1, <2>2, <2>3, <2>4 DEF Laid
<1>14. HeldBy(R2)'
  <2> SUFFICES ASSUME NEW j \in L!Lists, Sure(j)'
               PROVE  Intact(j, R2)'
    BY DEF HeldBy
  <2>1. CASE j = l
    <3>1. PICK pt, g, f : pt = part' /\ g = Flat(pt) /\ f = g[l]
      OBVIOUS
    <3>2. g[None] = <<>> /\ f = Run(x) \o g[None]
      <4>1. Flats(g, pt)
        BY <1>7, <3>1, FlatIs
      <4>2. pt[l] = x /\ x.next = None /\ l \in L!Parts
        BY <1>3, <1>5, <1>6, <3>1
      <4> QED
        BY <3>1, <4>1, <4>2 DEF Flats
    <3>3. Run(x) \in Seq(Spots) /\ Len(Run(x)) = 0
      BY <1>3, <1>5, RunIs
    <3>4. Run(x) = <<>>
      BY <3>3, EmptySeq
    <3>5. <<>> \o <<>> = <<>>
      BY <3>3, <3>4, ConcatEmptySeq
    <3>6. PICK s : s = own'[l]
      OBVIOUS
    <3>7. s = <<>> /\ f = <<>>
      BY <1>4, <3>2, <3>4, <3>5, <3>6
    <3>8. Len(f) = 0 /\ Len(s) = 0
      BY <3>7
    <3>9. Ends(part', R2[l], last'[l])
      BY <1>4, <1>5, <1>6, <1>11 DEF Ends
    <3> QED
      BY <2>1, <3>1, <3>6, <3>8, <3>9 DEF Intact, Holding
  <2>2. CASE j # l
    <3>1. Sure(j)
      <4>1. wrote \subseteq wrote'
        OBVIOUS
      <4>2. plain' => plain
        OBVIOUS
      <4> QED
        BY <4>1, <4>2, SureBefore
    <3>2. Intact(j, R)
      BY <1>1, <3>1
    <3>4. PICK pt, ps, r : pt = part' /\ ps = part /\ r = R[j]
      OBVIOUS
    <3>3. Closed(ps, r) /\ j \in r
      BY <1>1, <3>4 DEF Laid
    <3>5. \A p \in r : pt[p] = ps[p]
      BY <1>12, <2>2, <3>4
    <3>9. Parted(ps) /\ Parted(pt)
      BY <1>4, <1>7, <3>4
    <3>6. Flat(pt)[j] = Flat(ps)[j]
      BY <3>3, <3>5, <3>9, FlatSame
    <3>7. R2[j] = R[j] /\ last'[j] = last[j] /\ own'[j] = own[j]
      BY <1>4, <1>11, <2>2
    <3>8. Ends(pt, R[j], last[j])
      BY <3>2, <3>4, <3>5 DEF Ends, Intact
    <3> QED
      BY <3>2, <3>4, <3>6, <3>7, <3>8 DEF Intact
  <2> QED
    BY <2>1, <2>2
<1> QED
  BY <1>9, <1>13, <1>14 DEF Listed, HeldBy

LEMMA ListClear ==
    ASSUME Listed, NEW l \in L!Lists, L!clear(l)
    PROVE  Listed'
<1>1. PICK e, x : e = part[l].elts /\ x = [elts |-> e, nelts |-> 0, next |-> None]
  OBVIOUS
<1>2. /\ visit = None /\ visit' = None /\ cells' = cells /\ copied' = copied /\ wrote' = wrote
      /\ blocks' = blocks /\ tied' = tied /\ plain' = (plain /\ l = Main)
      /\ last' = [last EXCEPT ![l] = l] /\ own' = [own EXCEPT ![l] = <<>>]
      /\ part' = [part EXCEPT ![l] = L!Fresh(part[l].elts)]
  BY DEF L!clear, L!Call
<1>3. L!Fresh(part[l].elts) = x
  BY <1>1 DEF L!Fresh
<1> QED
  BY <1>1, <1>2, <1>3, ListAnew

LEMMA ListReinit ==
    ASSUME Listed, NEW l \in L!Lists, L!reinit(l)
    PROVE  Listed'
<1>1. PICK e, x : e = blocks + 1 /\ x = [elts |-> e, nelts |-> 0, next |-> None]
  OBVIOUS
<1>2. /\ visit = None /\ visit' = None /\ cells' = cells /\ copied' = copied /\ wrote' = wrote
      /\ blocks < MaxBlocks /\ blocks' = e /\ tied' = FALSE /\ plain' = plain
      /\ last' = [last EXCEPT ![l] = l] /\ own' = [own EXCEPT ![l] = <<>>]
      /\ part' = [part EXCEPT ![l] = L!Fresh(blocks')]
  BY <1>1 DEF L!reinit, L!Call
<1>3. L!Fresh(blocks') = x
  BY <1>1, <1>2 DEF L!Fresh
<1> QED
  BY <1>1, <1>2, <1>3, ListAnew

\* The subrequest's list, as it is copied, has a first part of its own and shares
\* the others.
LEMMA ListCopy ==
    ASSUME Listed, L!copy
    PROVE  Listed'
<1>1. PICK R : Laid(R) /\ \A j \in L!Lists : Sure(j) => Intact(j, R)
  BY DEF Listed
<1>2. ListTypes
  BY DEF Listed
<1>3. /\ L!Lists = {Main, Sub} /\ Main # Sub /\ L!Lists \cap Nat = {} /\ L!Lists \subseteq L!Parts
      /\ Main \in L!Lists /\ Sub \in L!Lists /\ None \notin L!Parts /\ MaxBlocks \in Nat
      /\ Main \in L!Parts /\ Sub \in L!Parts
  BY ListsAre
<1>4. /\ Parted(part) /\ Stored(part, cells, blocks) /\ blocks \in 1 .. MaxBlocks
      /\ last \in [L!Lists -> L!Parts] /\ own \in [L!Lists -> Seq(Headers)]
  BY <1>2 DEF ListTypes
<1>5. PICK ps, pt, m, z, y :
        ps = part /\ pt = part' /\ m = part[Main] /\ z = last[Main]
        /\ y = IF z = Main THEN Sub ELSE z
  OBVIOUS
<1>6. /\ visit = None /\ visit' = None /\ ~copied /\ copied' = TRUE
      /\ pt = [ps EXCEPT ![Sub] = m] /\ last' = [last EXCEPT ![Sub] = y]
      /\ own' = [own EXCEPT ![Sub] = own[Main]]
      /\ tied' = TRUE /\ plain' = (z = Main) /\ cells' = cells /\ blocks' = blocks /\ wrote' = wrote
  BY <1>5 DEF L!copy, L!create
<1>7. Parted(ps)
  BY <1>4, <1>5
<1>8. /\ pt \in [L!Parts -> [elts: 1 .. MaxBlocks, nelts: 0 .. Nalloc,
                             next: 1 .. MaxBlocks \cup {None}]]
      /\ pt[Sub] = m /\ ps[Main] = m /\ pt[Main] = m
      /\ \A p \in L!Parts : p # Sub => pt[p] = ps[p]
  BY <1>3, <1>5, <1>6, <1>7 DEF Parted
<1>9. \A p \in L!Parts : \E q \in L!Parts : pt[p] = ps[q]
  BY <1>3, <1>8
<1>10. Parted(pt)
  <2>1. ASSUME NEW p \in L!Parts, pt[p].next # None
        PROVE  /\ pt[p].nelts = Nalloc
               /\ pt[p].next > pt[p].elts /\ pt[pt[p].next].elts = pt[p].next
    <3>1. PICK q \in L!Parts : pt[p] = ps[q]
      BY <1>9
    <3>2. ps[q].next \in L!Parts /\ ps[q].next \in 1 .. MaxBlocks
      BY <1>7, <2>1, <3>1, PartIs
    <3>3. ps[q].next # Sub
      BY <1>3, <3>2
    <3>4. pt[ps[q].next] = ps[ps[q].next]
      BY <1>8, <3>2, <3>3
    <3> QED
      BY <1>7, <2>1, <3>1, <3>4 DEF Parted
  <2> QED
    BY <1>8, <2>1 DEF Parted
<1>11. Stored(pt, cells, blocks)
  <2>1. Stored(ps, cells, blocks)
    BY <1>4, <1>5
  <2> QED
    BY <1>9, <2>1 DEF Stored
<1>12. wrote = {}
  BY <1>1, <1>6 DEF Laid
<1>13. Ends(ps, R[Main], z) /\ Holding(Flat(ps)[Main], cells, own[Main])
  <2>1. Sure(Main)
    BY <1>12 DEF Sure, L!InUse
  <2> QED
    BY <1>1, <1>3, <1>5, <2>1 DEF Intact
<1>14. /\ Main \in R[Main] /\ z \in R[Main] /\ R[Main] \subseteq {Main} \cup 1 .. blocks
       /\ Closed(ps, R[Main]) /\ R[Main] \subseteq L!Parts
       /\ \A p \in R[Main] \ {Main} : ps[p].elts = p /\ p > m.elts
  BY <1>1, <1>3, <1>5 DEF Laid, Closed
<1>15. PICK r : r = IF z = Main THEN {Main} ELSE R[Main]
  OBVIOUS
<1>16. /\ Main \in r /\ z \in r /\ r \subseteq R[Main] /\ Closed(ps, r) /\ (z = Main => r = {Main})
  <2>1. z = Main => m.next = None
    BY <1>8, <1>13, <1>14 DEF Ends
  <2>2. Closed(ps, r)
    BY <1>3, <1>8, <1>14, <1>15, <2>1 DEF Closed
  <2> QED
    BY <1>14, <1>15, <2>2
<1>17. Sub \notin r
  BY <1>3, <1>14, <1>16
<1>18. \A p \in r : p \in L!Parts /\ pt[p] = ps[p] /\ ps[p].next \in r \cup {None} /\ ps[p].next # Main
  <2> SUFFICES ASSUME NEW p \in r
               PROVE  p \in L!Parts /\ pt[p] = ps[p] /\ ps[p].next \in r \cup {None} /\ ps[p].next # Main
    OBVIOUS
  <2>1. p \in L!Parts /\ ps[p].next \in r \cup {None}
    BY <1>16 DEF Closed
  <2>2. ps[p].next # None => ps[p].next \in 1 .. MaxBlocks
    BY <1>7, <2>1, PartIs
  <2> QED
    BY <1>3, <1>8, <1>17, <2>1, <2>2
<1>19. PICK t : t = {Sub} \cup (r \ {Main})
  OBVIOUS
<1>20. PICK R2 : R2 = [l \in L!Lists |-> IF l = Main THEN r ELSE t]
  OBVIOUS
<1>21. R2[Main] = r /\ R2[Sub] = t
  BY <1>3, <1>20
<1>22. Closed(pt, r) /\ Closed(pt, t)
  <2>1. m.next \in (r \ {Main}) \cup {None}
    BY <1>8, <1>16, <1>18
  <2> QED
    BY <1>3, <1>8, <1>18, <1>19, <2>1 DEF Closed
<1>23. Laid(R2)'
  <2>1. R2 \in [L!Lists -> SUBSET L!Parts]
    BY <1>3, <1>18, <1>19, <1>20
  <2>2. last'[Main] = z /\ last'[Sub] = y
    BY <1>3, <1>4, <1>5, <1>6
  <2>3. ASSUME NEW l \in L!Lists
        PROVE  /\ l \in R2[l] /\ last'[l] \in R2[l] /\ R2[l] \subseteq {l} \cup 1 .. blocks'
               /\ Closed(pt, R2[l])
               /\ \A p \in R2[l] \ {l} : pt[p].elts = p /\ p > pt[l].elts
    <3>1. CASE l = Main
      <4>1. \A p \in r \ {Main} : pt[p].elts = p /\ p > pt[Main].elts
        BY <1>8, <1>14, <1>16, <1>18
      <4>2. r \subseteq {Main} \cup 1 .. blocks
        BY <1>14, <1>16
      <4> QED
        BY <1>6, <1>16, <1>21, <1>22, <2>2, <3>1, <4>1, <4>2
    <3>2. CASE l = Sub
      <4>1. \A p \in t \ {Sub} : pt[p].elts = p /\ p > pt[Sub].elts
        BY <1>8, <1>14, <1>16, <1>18, <1>19
      <4>2. t \subseteq {Sub} \cup 1 .. blocks
        BY <1>14, <1>16, <1>19
      <4>3. y \in t
        BY <1>5, <1>16, <1>19
      <4>4. Sub \in R2[Sub] /\ last'[Sub] \in R2[Sub] /\ Closed(pt, R2[Sub])
        BY <1>19, <1>21, <1>22, <2>2, <4>3
      <4>5. R2[Sub] \subseteq {Sub} \cup 1 .. blocks'
        BY <1>6, <1>21, <4>2
      <4> QED
        BY <1>21, <3>2, <4>1, <4>4, <4>5
    <3> QED
      BY <1>3, <3>1, <3>2
  <2>4. plain' => R2[Main] = {Main} /\ pt[Sub].elts = pt[Main].elts /\ pt[Main].nelts <= pt[Sub].nelts
    <3>1. m.nelts \in Nat
      BY <1>3, <1>7, <1>8, PartIs
    <3>2. m.nelts <= m.nelts
      BY <3>1
    <3> QED
      BY <1>6, <1>8, <1>16, <1>21, <3>2
  <2>5. \A l \in L!Lists :
          /\ l \in R2[l] /\ last'[l] \in R2[l]
          /\ R2[l] \subseteq {l} \cup 1 .. blocks'
          /\ Closed(part', R2[l])
          /\ \A p \in R2[l] \ {l} : part'[p].elts = p /\ p > part'[l].elts
    BY <1>5, <2>3
  <2>6. plain' => R2[Main] = {Main} /\ part'[Sub].elts = part'[Main].elts
                  /\ part'[Main].nelts <= part'[Sub].nelts
    BY <1>5, <2>4
  <2>7. copied' /\ tied'
    BY <1>6
  <2> QED
    BY <2>1, <2>5, <2>6, <2>7, Zenon DEF Laid
<1>24. HeldBy(R2)'
  <2>1. PICK f, g : f = Flat(ps) /\ g = Flat(pt)
    OBVIOUS
  <2>2. g[Main] = f[Main]
    <3>1. \A p \in r : pt[p] = ps[p]
      BY <1>18
    <3> QED
      BY <1>7, <1>10, <1>16, <2>1, <3>1, FlatSame
  <2>3. g[Sub] = g[Main]
    <3>1. Flats(g, pt)
      BY <1>10, <2>1, FlatIs
    <3> QED
      BY <1>3, <1>8, <3>1 DEF Flats
  <2>4. own'[Main] = own[Main] /\ own'[Sub] = own[Main] /\ last'[Main] = z /\ last'[Sub] = y
    BY <1>3, <1>4, <1>5, <1>6
  <2>5. Ends(pt, r, z)
    BY <1>13, <1>16, <1>18 DEF Ends
  <2>6. Ends(pt, t, y)
    <3> SUFFICES ASSUME NEW p \in t
                 PROVE  pt[p].next = None <=> p = y
      BY DEF Ends
    <3>1. m.next = None <=> z = Main
      BY <1>8, <1>16, <2>5 DEF Ends
    <3>2. CASE p = Sub
      BY <1>5, <1>8, <1>16, <1>17, <3>1, <3>2
    <3>3. CASE p \in r \ {Main}
      BY <1>5, <1>16, <1>17, <2>5, <3>3 DEF Ends
    <3> QED
      BY <1>19, <3>2, <3>3
  <2>7. Holding(f[Main], cells, own[Main])
    BY <1>13, <2>1
  <2>8. ASSUME NEW l \in L!Lists
        PROVE  Ends(pt, R2[l], last'[l]) /\ Holding(g[l], cells', own'[l])
    <3>1. CASE l = Main
      BY <1>6, <1>21, <2>2, <2>4, <2>5, <2>7, <3>1
    <3>2. CASE l = Sub
      BY <1>6, <1>21, <2>2, <2>3, <2>4, <2>6, <2>7, <3>2
    <3> QED
      BY <1>3, <3>1, <3>2
  <2> QED
    BY <1>5, <2>1, <2>8 DEF HeldBy, Intact
<1>25. ListTypes'
  <2>1. y \in L!Parts
    BY <1>3, <1>5, <1>14
  <2>2. last' \in [L!Lists -> L!Parts] /\ own' \in [L!Lists -> Seq(Headers)]
    BY <1>3, <1>4, <1>6, <2>1
  <2> QED
    BY <1>2, <1>5, <1>6, <1>10, <1>11, <2>2 DEF ListTypes
<1> QED
  BY <1>6, <1>23, <1>24, <1>25 DEF Listed, HeldBy

Placed(R) == visit # None => Position(visit, R) /\ Seeing(visit)

\* One step of an iterator: it has passed one cell more of the list.
Passed(f, b, l, it, n) == f[l] = b \o f[it.part] /\ Len(b) + it.count = n

Iter(p, d, n) == [part |-> p, data |-> d, count |-> n]

LEMMA LastOne ==
    ASSUME NEW k \in Nat, NEW m \in Nat, NEW n \in Nat, n < m, ~(n + 1 < m)
    PROVE  (k + m) + 0 = k + n + 1
OBVIOUS

LEMMA IncrementPasses ==
    ASSUME NEW ps, Parted(ps), NEW l, NEW p \in L!Parts, NEW d, NEW n \in Nat, n < ps[p].nelts,
           NEW it, it = Iter(p, d, n), d = ps[p].elts,
           NEW a \in Seq(Spots), Flat(ps)[l] = a \o Flat(ps)[p],
           NEW j, j = L!increment(ps, it)
    PROVE  \E b \in Seq(Spots) : Passed(Flat(ps), b, l, j, Len(a) + n + 1)
<1>1. it.part = p /\ it.data = d /\ it.count = n
  BY DEF Iter
<1>2. ps[p].nelts \in Nat /\ Len(a) \in Nat
  BY PartIs
<1>3. CASE n + 1 < ps[p].nelts
  <2>1. j = [it EXCEPT !.count = n + 1]
    BY <1>1, <1>3 DEF L!increment
  <2>2. j = [part |-> p, data |-> d, count |-> n + 1]
    BY <2>1 DEF Iter
  <2>3. j.part = p /\ j.data = d /\ j.count = n + 1
    BY <2>2
  <2>4. Len(a) + (n + 1) = Len(a) + n + 1
    BY <1>2
  <2>5. Passed(Flat(ps), a, l, j, Len(a) + n + 1)
    BY <2>3, <2>4 DEF Passed
  <2> QED
    BY <2>5
<1>4. CASE ~(n + 1 < ps[p].nelts)
  <2>1. PICK q, e : q = ps[p].next /\ e = IF q = None THEN None ELSE ps[q].elts
    OBVIOUS
  <2>2. j = [part |-> q, data |-> e, count |-> 0]
    BY <1>1, <1>4, <2>1 DEF L!increment
  <2>3. j.part = q /\ j.data = e /\ j.count = 0
    BY <2>2
  <2>4. PICK f, r, g : f = Flat(ps) /\ r = Run(ps[p]) /\ g = f[q]
    OBVIOUS
  <2>5. f[p] = r \o g
    BY <2>1, <2>4, FlatIs DEF Flats
  <2>6. r \in Seq(Spots) /\ Len(r) = ps[p].nelts
    BY <2>4, PartIs, RunIs
  <2>7. g \in Seq(Spots)
    BY <2>1, <2>4, PartIs, FlatOfPart
  <2>8. PICK b : b = a \o r
    OBVIOUS
  <2>9. b \in Seq(Spots) /\ Len(b) = Len(a) + Len(r)
    BY <2>6, <2>8, ConcatIs
  <2>10. f[l] = b \o g
    <3>1. f[l] = a \o (r \o g)
      BY <2>4, <2>5
    <3>3. r \in Seq(Spots)
      BY <2>6
    <3>2. a \o (r \o g) = (a \o r) \o g
      BY <2>7, <3>3, ConcatAssociative, SMTT(30)
    <3> QED
      BY <2>8, <3>1, <3>2
  <2>11. Len(b) + 0 = Len(a) + n + 1
    <3>1. PICK m, k : m = ps[p].nelts /\ k = Len(a)
      OBVIOUS
    <3>2. m \in Nat /\ k \in Nat /\ n < m /\ ~(n + 1 < m) /\ Len(b) = k + m
      BY <1>2, <1>4, <2>6, <2>9, <3>1
    <3>3. (k + m) + 0 = k + n + 1
      BY <3>2, LastOne
    <3> QED
      BY <3>1, <3>2, <3>3
  <2>12. Passed(f, b, l, j, Len(a) + n + 1)
    BY <2>3, <2>4, <2>10, <2>11 DEF Passed
  <2> QED
    BY <2>4, <2>9, <2>12
<1> QED
  BY <1>3, <1>4

LEMMA ListVisits ==
    ASSUME Listed, NEW l \in L!Lists, NEW into \in L!Lists \cup {None}, NEW each \in BOOLEAN,
           L!begins(l, into, each)
    PROVE  Listed'
<1>1. PICK R : Laid(R) /\ \A j \in L!Lists : Sure(j) => Intact(j, R)
  BY DEF Listed
<1>2. ListTypes
  BY DEF Listed
<1>3. PICK at, v : at = [part |-> l, data |-> part[l].elts, count |-> 0]
                   /\ v = [list |-> l, at |-> at, into |-> into, each |-> each, seen |-> <<>>]
  OBVIOUS
<1>4. /\ visit' = v /\ L!InUse(l) /\ (into # None => L!InUse(into))
      /\ part' = part /\ last' = last /\ cells' = cells /\ blocks' = blocks /\ copied' = copied
      /\ own' = own /\ tied' = tied /\ wrote' = wrote /\ plain' = plain
  BY <1>3 DEF L!begins, L!Call, L!begin, L!ghosts
<1>5. l \in L!Parts /\ None \notin L!Parts /\ Parted(part)
  BY <1>2, ListsAre DEF ListTypes
<1>6. /\ v.list = l /\ v.at = at /\ v.into = into /\ v.seen = <<>>
      /\ v.at.part = l /\ v.at.data = part[l].elts /\ v.at.count = 0
  BY <1>3
<1>7. v \in Visitors
  <2>1. part[l].elts \in Nat
    BY <1>5, PartIs
  <2>2. at \in [part: L!Parts \cup {None}, data: Nat \cup {None}, count: Nat]
    BY <1>3, <1>5, <2>1
  <2>3. <<>> \in Seq(Headers)
    OBVIOUS
  <2> QED
    BY <1>3, <2>2, <2>3 DEF Visitors
<1>8. ListTypes'
  BY <1>2, <1>4, <1>7 DEF ListTypes
<1>9. Laid(R)'
  BY <1>1, <1>4 DEF Laid
<1>10. HeldBy(R)'
  BY <1>1, <1>4 DEF HeldBy, Sure, Intact, L!InUse
<1>11. Position(v, R)'
  <2>1. l \in R[l]
    BY <1>1 DEF Laid
  <2> QED
    BY <1>4, <1>5, <1>6, <2>1 DEF Position, L!InUse
<1>12. Seeing(v)'
  <2>1. PICK f, g, s, a : f = Flat(part) /\ g = f[l] /\ s = own[l] /\ a = <<>>
    OBVIOUS
  <2>2. g \in Seq(Spots) /\ s \in Seq(Headers)
    BY <1>2, <1>5, <2>1, FlatOfPart DEF ListTypes
  <2>3. a \in Seq(Spots) /\ Len(a) = 0
    BY <2>1
  <2>4. a \o g = g
    BY <2>1, <2>2, ConcatEmptySeq
  <2>5. Len(s) \in Nat /\ Len(v.seen) = 0
    BY <1>6, <2>2
  <2>6. Progress(f, a, v, s)
    BY <1>6, <2>1, <2>3, <2>4, <2>5 DEF Progress
  <2> QED
    BY <1>4, <1>6, <2>1, <2>3, <2>6 DEF Seeing
<1>13. Placed(R)'
  BY <1>4, <1>11, <1>12 DEF Placed
<1> QED
  BY <1>8, <1>9, <1>10, <1>13 DEF Listed, HeldBy, Placed

LEMMA ListStops ==
    ASSUME Listed, L!throws \/ L!ends
    PROVE  Listed'
<1>1. PICK R : Laid(R) /\ \A j \in L!Lists : Sure(j) => Intact(j, R)
  BY DEF Listed
<1>2. /\ visit' = None
      /\ part' = part /\ last' = last /\ cells' = cells /\ blocks' = blocks /\ copied' = copied
      /\ own' = own /\ tied' = tied /\ wrote' = wrote /\ plain' = plain
  BY DEF L!throws, L!ends, L!ghosts
<1>3. ListTypes'
  BY <1>2 DEF Listed, ListTypes
<1>4. Laid(R)'
  BY <1>1, <1>2 DEF Laid
<1>5. HeldBy(R)'
  BY <1>1, <1>2 DEF HeldBy, Sure, Intact, L!InUse
<1> QED
  BY <1>2, <1>3, <1>4, <1>5 DEF Listed, HeldBy

\* Where an iterator in p comes: to its next cell, or to the first of the part behind.
Comes(ps, p, d, j) ==
    \/ j.part = p /\ j.data = d /\ j.count < ps[p].nelts
    \/ /\ j.part = ps[p].next /\ j.count = 0
       /\ j.data = IF j.part = None THEN None ELSE ps[j.part].elts

LEMMA IncrementIs ==
    ASSUME NEW ps, Parted(ps), NEW p \in L!Parts, NEW d, NEW n \in Nat, n < ps[p].nelts,
           NEW it, it = Iter(p, d, n), d = ps[p].elts,
           NEW j, j = L!increment(ps, it)
    PROVE  /\ j \in [part: L!Parts \cup {None}, data: Nat \cup {None}, count: Nat]
           /\ Comes(ps, p, d, j)
<1>1. /\ j = [part |-> j.part, data |-> j.data, count |-> j.count] /\ j.count \in Nat
      /\ \/ j.part = p /\ j.data = d /\ j.count < ps[p].nelts
         \/ /\ j.part = ps[p].next /\ j.count = 0
            /\ j.data = IF j.part = None THEN None ELSE ps[j.part].elts
  <2>1. CASE n + 1 < ps[p].nelts
    <3>1. j = [part |-> p, data |-> d, count |-> n + 1]
      BY <2>1 DEF L!increment, Iter
    <3>2. j.part = p /\ j.data = d /\ j.count = n + 1
      BY <3>1
    <3> QED
      BY <2>1, <3>1, <3>2
  <2>2. CASE ~(n + 1 < ps[p].nelts)
    <3>1. PICK q, e : q = ps[p].next /\ e = IF q = None THEN None ELSE ps[q].elts
      OBVIOUS
    <3>2. j = [part |-> q, data |-> e, count |-> 0]
      BY <2>2, <3>1 DEF L!increment, Iter
    <3>3. j.part = q /\ j.data = e /\ j.count = 0
      BY <3>2
    <3> QED
      BY <3>1, <3>2, <3>3
  <2> QED
    BY <2>1, <2>2
<1>2. d \in Nat /\ ps[p].next \in L!Parts \cup {None}
  BY PartIs
<1>3. ps[p].next # None => ps[ps[p].next].elts \in Nat
  BY <1>2, PartIs
<1>4. j.part \in L!Parts \cup {None} /\ j.data \in Nat \cup {None}
  BY <1>1, <1>2, <1>3
<1> QED
  BY <1>1, <1>4 DEF Comes

\* What a step that sees x adds to the list s that is visited, if it pushes there.
Added(f, g, l, p, s, t, x, v) ==
    \/ ~(v.each /\ v.into = l) /\ g[l] = f[l] /\ g[p] = f[p] /\ t = s
    \/ \E c \in Spots : g[l] = Append(f[l], c) /\ g[p] = Append(f[p], c) /\ t = Append(s, x)

\* The visit v, when it has seen x.
Saw(v, x, j) == [v EXCEPT !.seen = Append(v.seen, x), !.at = j]

\* It is in the cell that the visit has come to, of a part that has no fewer then.
Shown(ps, pt, p, d, n, cs, x) ==
    /\ x = cs[d][n + 1]
    /\ ps[p].elts = d /\ pt[p].elts = d /\ n < ps[p].nelts /\ ps[p].nelts <= pt[p].nelts

LEMMA SeesOne ==
    ASSUME NEW ps, Parted(ps), NEW pt, Parted(pt), NEW v \in Visitors, NEW l \in L!Lists, v.list = l,
           NEW p \in L!Parts, NEW n \in Nat, NEW d, v.at = Iter(p, d, n),
           NEW cs, NEW x \in Headers, Shown(ps, pt, p, d, n, cs, x),
           NEW s \in Seq(Headers), NEW t \in Seq(Headers), NEW a \in Seq(Spots),
           Progress(Flat(ps), a, v, s), Holding(Flat(ps)[l], cs, s),
           Added(Flat(ps), Flat(pt), l, p, s, t, x, v),
           NEW j, j = L!increment(pt, v.at),
           NEW w, w = Saw(v, x, j)
    PROVE  \E b \in Seq(Spots) : Progress(Flat(pt), b, w, t)
<1> USE DEF Shown
<1>1. PICK f, g, k, m : f = Flat(ps) /\ g = Flat(pt) /\ k = Len(v.seen) /\ m = Len(a)
  OBVIOUS
<1>2. /\ v.at.part = p /\ v.at.count = n /\ v.seen \in Seq(Headers)
      /\ w.list = l /\ w.at = j /\ w.into = v.into /\ w.each = v.each
      /\ w.seen = Append(v.seen, x)
      /\ l \in L!Parts
  BY ListsAre DEF Visitors, Iter, Saw
<1>3. /\ f[l] = a \o f[p] /\ m + n = k /\ k <= Len(s)
      /\ \A i \in 1 .. k : v.seen[i] = s[i]
      /\ v.each /\ v.into = l /\ v.seen # <<>> => k < Len(s)
      /\ m \in Nat /\ k \in Nat /\ Len(s) \in Nat
  <2>1. /\ f[l] = a \o f[p] /\ m + n = k /\ k <= Len(s)
        /\ \A i \in 1 .. k : v.seen[i] = s[i]
        /\ v.each /\ v.into = l /\ v.seen # <<>> => k < Len(s)
    <3>1. Progress(f, a, v, s)
      BY <1>1
    <3> QED
      BY <1>1, <1>2, <3>1 DEF Progress
  <2>2. m \in Nat /\ Len(s) \in Nat
    BY <1>1
  <2>3. k \in Nat
    BY <1>1, <1>2
  <2> QED
    BY <2>1, <2>2, <2>3
<1>4. /\ f[p] \in Seq(Spots) /\ f[l] \in Seq(Spots) /\ g[p] \in Seq(Spots)
  BY <1>1, <1>2, FlatOfPart
<1>5. PICK r, h : r = Run(ps[p]) /\ h = f[ps[p].next]
  OBVIOUS
<1>6. f[p] = r \o h
  BY <1>1, <1>5, FlatIs DEF Flats
<1>7. /\ r \in Seq(Spots) /\ Len(r) = ps[p].nelts /\ n + 1 \in 1 .. Len(r)
      /\ r[n + 1] = Pair(d, n + 1)
  <2>1. ps[p].nelts \in Nat /\ r \in Seq(Spots) /\ Len(r) = ps[p].nelts
        /\ \A i \in 1 .. ps[p].nelts : r[i] = Pair(d, i)
    BY <1>5, PartIs, RunIs
  <2>2. n + 1 \in 1 .. ps[p].nelts
    BY <2>1
  <2> QED
    BY <2>1, <2>2
<1>8. h \in Seq(Spots)
  BY <1>1, <1>5, PartIs, FlatOfPart
<1>9. n + 1 \in 1 .. Len(f[p]) /\ f[p][n + 1] = Pair(d, n + 1)
  <2>1. /\ Len(r \o h) = Len(r) + Len(h) /\ Len(h) \in Nat /\ Len(r) \in Nat
        /\ \A i \in 1 .. Len(r) : (r \o h)[i] = r[i]
    <3>1. r \in Seq(Spots)
      BY <1>7
    <3>2. Len(r \o h) = Len(r) + Len(h) /\ \A i \in 1 .. Len(r) : (r \o h)[i] = r[i]
      BY <1>8, <3>1, ConcatIs
    <3>3. Len(h) \in Nat /\ Len(r) \in Nat
      BY <1>8, <3>1
    <3> QED
      BY <3>2, <3>3
  <2>2. n + 1 \in 1 .. Len(r \o h)
    BY <1>7, <2>1
  <2> QED
    BY <1>6, <1>7, <2>1, <2>2
<1>10. k + 1 \in 1 .. Len(f[l]) /\ f[l][k + 1] = Pair(d, n + 1)
  <2>1. PICK q : q = f[p]
    OBVIOUS
  <2>5. q \in Seq(Spots)
    BY <1>4, <2>1
  <2>2. /\ Len(a \o q) = m + Len(q) /\ Len(q) \in Nat
        /\ \A i \in 1 .. Len(q) : (a \o q)[m + i] = q[i]
    <3>1. /\ Len(a \o q) = Len(a) + Len(q)
          /\ \A i \in 1 .. Len(q) : (a \o q)[Len(a) + i] = q[i]
      BY <2>5, ConcatIs
    <3>2. Len(q) \in Nat
      BY <2>5
    <3> QED
      BY <1>1, <3>1, <3>2
  <2>3. m + (n + 1) = k + 1
    BY <1>3
  <2>4. k + 1 \in 1 .. (m + Len(q))
    BY <1>3, <1>9, <2>1, <2>2
  <2> QED
    BY <1>3, <1>9, <2>1, <2>2, <2>3, <2>4
<1>11. k + 1 \in 1 .. Len(s) /\ s[k + 1] = x
  <2>1. Len(f[l]) = Len(s) /\ \A i \in 1 .. Len(s) : cs[f[l][i][1]][f[l][i][2]] = s[i]
    BY <1>1 DEF Holding
  <2>2. k + 1 \in 1 .. Len(s)
    BY <1>10, <2>1
  <2>3. f[l][k + 1][1] = d /\ f[l][k + 1][2] = n + 1
    BY <1>10, PairIs
  <2> QED
    BY <2>1, <2>2, <2>3
<1>12. g[l] = a \o g[p]
  <2>1. CASE g[l] = f[l] /\ g[p] = f[p]
    BY <1>3, <2>1
  <2>2. CASE \E c \in Spots : g[l] = Append(f[l], c) /\ g[p] = Append(f[p], c)
    <3>1. PICK c \in Spots : g[l] = Append(f[l], c) /\ g[p] = Append(f[p], c)
      BY <2>2
    <3>2. PICK q : q = f[p]
      OBVIOUS
    <3>4. q \in Seq(Spots)
      BY <1>4, <3>2
    <3>3. a \o Append(q, c) = Append(a \o q, c)
      BY <3>4, AppendJoined
    <3> QED
      BY <1>3, <3>1, <3>2, <3>3
  <2> QED
    BY <1>1, <2>1, <2>2 DEF Added
<1>13. n < pt[p].nelts
  <2>1. ps[p].nelts \in Nat /\ pt[p].nelts \in Nat
    BY PartIs
  <2> QED
    BY <2>1
<1>14. PICK b \in Seq(Spots) : Passed(g, b, l, j, m + n + 1)
  BY <1>1, <1>12, <1>13, IncrementPasses
<1>15. /\ g[w.list] = b \o g[w.at.part] /\ Len(b) + w.at.count = k + 1
  <2>1. m + n + 1 = k + 1
    BY <1>3
  <2> QED
    BY <1>2, <1>14, <2>1 DEF Passed
<1>16. PICK u : u = w.seen
  OBVIOUS
<1>17. /\ Len(u) = k + 1 /\ u[k + 1] = x /\ \A i \in 1 .. k : u[i] = v.seen[i]
  BY <1>1, <1>2, <1>16, AppendIs
<1>18. /\ Len(s) <= Len(t) /\ \A i \in 1 .. Len(s) : t[i] = s[i]
       /\ v.each /\ v.into = l => Len(t) = Len(s) + 1
       /\ Len(t) \in Nat
  <2>1. CASE ~(v.each /\ v.into = l) /\ t = s
    BY <1>3, <2>1
  <2>2. CASE t = Append(s, x)
    <3>1. Len(t) = Len(s) + 1 /\ \A i \in 1 .. Len(s) : t[i] = s[i]
      BY <2>2, AppendIs
    <3> QED
      BY <1>3, <3>1
  <2> QED
    BY <1>1, <2>1, <2>2 DEF Added
<1>19. k + 1 <= Len(t) /\ (v.each /\ v.into = l => k + 1 < Len(t))
  BY <1>3, <1>11, <1>18
<1>20. \A i \in 1 .. (k + 1) : u[i] = t[i]
  <2> TAKE i \in 1 .. (k + 1)
  <2>1. CASE i = k + 1
    BY <1>11, <1>17, <1>18, <2>1
  <2>2. CASE i # k + 1
    <3>1. i \in 1 .. k /\ i \in 1 .. Len(s)
      BY <1>3, <2>2
    <3> QED
      BY <1>3, <1>17, <1>18, <3>1
  <2> QED
    BY <2>1, <2>2
<1>21. Progress(g, b, w, t)
  BY <1>2, <1>15, <1>16, <1>17, <1>19, <1>20 DEF Progress
<1> QED
  BY <1>1, <1>14, <1>21

\* What a step of the visit v does that sees x, besides going on.
Stepped(R2, v, x) ==
    /\ Laid(R2)' /\ HeldBy(R2)'
    /\ visit' \in Visitors \cup {None} => ListTypes'
    /\ Parted(part')
    /\ v.at.part \in R2[v.list]
    /\ part'[v.at.part].elts = part[v.at.part].elts
    /\ part[v.at.part].nelts <= part'[v.at.part].nelts
    /\ wrote \subseteq wrote'
    /\ L!Other(v.list) \notin wrote' =>
          Added(Flat(part), Flat(part'), v.list, v.at.part, own[v.list], own'[v.list], x, v)

LEMMA StepSees ==
    ASSUME ListTypes, NEW R, Laid(R), HeldBy(R), NEW v \in Visitors, ~v.each,
           v.at.part \in R[v.list], NEW x,
           UNCHANGED <<part, last, cells, blocks, own, wrote, copied, tied, plain>>
    PROVE  Stepped(R, v, x)
<1>1. /\ part' = part /\ last' = last /\ cells' = cells /\ blocks' = blocks /\ copied' = copied
      /\ own' = own /\ tied' = tied /\ wrote' = wrote /\ plain' = plain
  OBVIOUS
<1>2. v.list \in L!Lists /\ ~(v.each /\ v.into = v.list)
  BY DEF Visitors
<1>3. v.at.part \in L!Parts /\ Parted(part)
  BY <1>2 DEF Laid, ListTypes
<1>4. Laid(R)'
  BY <1>1 DEF Laid
<1>5. HeldBy(R)'
  BY <1>1 DEF HeldBy, Sure, Intact, L!InUse
<1>6. visit' \in Visitors \cup {None} => ListTypes'
  BY <1>1 DEF ListTypes
<1>7. part[v.at.part].nelts <= part'[v.at.part].nelts
  <2>1. part[v.at.part].nelts \in Nat
    BY <1>3, PartIs
  <2> QED
    BY <1>1, <2>1
<1>8. Added(Flat(part), Flat(part'), v.list, v.at.part, own[v.list], own'[v.list], x, v)
  BY <1>1, <1>2 DEF Added
<1> QED
  BY <1>1, <1>3, <1>4, <1>5, <1>6, <1>7, <1>8 DEF Stepped

LEMMA StepPuts ==
    ASSUME ListTypes, NEW R, Laid(R), HeldBy(R), NEW v \in Visitors, NEW o \in L!Lists, v.into = o,
           L!InUse(v.list), L!InUse(o), v.at.part \in R[v.list], NEW x \in Headers,
           L!put(o, x), own' = [own EXCEPT ![o] = Append(own[o], x)], L!Wrote(o),
           UNCHANGED <<copied, tied, plain>>
    PROVE  \E R2 : Stepped(R2, v, x)
<1>1. PICK l, p : l = v.list /\ p = v.at.part
  OBVIOUS
<1>2. l \in L!Lists /\ l \in R[l] /\ p \in R[l] /\ Parted(part)
  BY <1>1 DEF Visitors, Laid, ListTypes
<1>3. PICK c : PutDone(o, x, c)
  BY PutIs
<1>4. PICK R2 : R2 = Wider(R, last[o], last'[o])
  OBVIOUS
<1>5. Laid(R2)'
  BY <1>3, <1>4, PutLays
<1>6. HeldBy(R2)'
  <2>1. \A k \in L!Lists : Sure(k) => Intact(k, R)
    BY DEF HeldBy
  <2>2. ASSUME NEW k \in L!Lists, Sure(k)'
        PROVE  Intact(k, R2)'
    BY <1>3, <1>4, <2>1, <2>2, PutIntact
  <2> QED
    BY <2>2 DEF HeldBy
<1>7. visit' \in Visitors \cup {None} => ListTypes'
  BY <1>3, PutTypes
<1>8. Parted(part')
  BY <1>3 DEF PutDone
<1>9. p \in R2[l]
  BY <1>2, <1>4 DEF Wider
<1>10. part'[p].elts = part[p].elts /\ (p # last[o] => part'[p] = part[p])
  BY <1>2, <1>3, PutParts
<1>11. part[p].nelts <= part'[p].nelts
  <2>1. p \in L!Parts
    BY <1>2 DEF Laid
  <2>2. part[p].nelts \in Nat
    BY <1>2, <2>1, PartIs
  <2>3. CASE p = last[o]
    BY <1>3, <2>3 DEF PutDone
  <2>4. CASE p # last[o]
    BY <1>10, <2>2, <2>4
  <2> QED
    BY <2>3, <2>4
<1>12. wrote \subseteq wrote'
  BY DEF L!Wrote
<1>13. ASSUME L!Other(l) \notin wrote'
       PROVE  Added(Flat(part), Flat(part'), l, p, own[l], own'[l], x, v)
  <2>1. Sure(l) /\ Sure(l)'
    BY <1>1, <1>12, <1>13 DEF Sure, L!InUse
  <2>2. Intact(l, R)
    BY <1>2, <2>1 DEF HeldBy
  <2>3. own \in [L!Lists -> Seq(Headers)]
    BY DEF ListTypes
  <2>4. CASE o = l
    <3>1. Ends(part, R[o], last[o])
      BY <2>2, <2>4 DEF Intact
    <3>2. \A q \in R[o] : Flat(part')[q] = Append(Flat(part)[q], c)
      BY <1>3, <3>1, PutOwn
    <3>3. c \in Spots
      BY <1>3 DEF PutDone
    <3>4. own'[l] = Append(own[l], x)
      BY <2>3, <2>4
    <3> QED
      BY <1>2, <2>4, <3>2, <3>3, <3>4 DEF Added
  <2>5. CASE o # l
    <3>1. \A q \in R[l] : Flat(part')[q] = Flat(part)[q]
      BY <1>2, <1>3, <2>1, <2>2, <2>5, PutOther
    <3>2. own'[l] = own[l]
      BY <1>2, <2>3, <2>5
    <3> QED
      BY <1>2, <2>5, <3>1, <3>2 DEF Added
  <2> QED
    BY <2>4, <2>5
<1> QED
  BY <1>1, <1>5, <1>6, <1>7, <1>8, <1>9, <1>10, <1>11, <1>12, <1>13 DEF Stepped

LEMMA ListStep ==
    ASSUME Listed, L!step
    PROVE  Listed'
<1>1. PICK R : Laid(R) /\ HeldBy(R) /\ Placed(R)
  BY DEF Listed, HeldBy, Placed
<1>2. ListTypes
  BY DEF Listed
<1>3. PICK v, l, p, n, d, x, j, w :
        /\ v = visit /\ l = v.list /\ p = v.at.part /\ n = v.at.count /\ d = v.at.data
        /\ x = cells[d][n + 1] /\ j = L!increment(part', v.at)
        /\ w = Saw(v, x, j)
  OBVIOUS
<1>4. /\ v # None /\ L!valid(v.at) /\ visit' = w
      /\ copied' = copied /\ tied' = tied /\ plain' = plain
      /\ \/ ~v.each /\ UNCHANGED <<part, last, cells, blocks, own, wrote>>
         \/ /\ v.into # None /\ L!put(v.into, x) /\ L!Wrote(v.into)
            /\ own' = [own EXCEPT ![v.into] = Append(own[v.into], x)]
  <2>1. x = L!dereference(v.at)
    BY <1>3 DEF L!dereference
  <2>2. visit' = [v EXCEPT !.seen = Append(v.seen, x), !.at = L!increment(part', v.at)]
    BY <1>3, <2>1 DEF L!step
  <2> QED
    BY <1>3, <2>1, <2>2 DEF L!step, Saw
<1>5. v \in Visitors
  BY <1>2, <1>3, <1>4 DEF ListTypes
<1>6. Position(v, R) /\ Seeing(v)
  BY <1>1, <1>3, <1>4 DEF Placed
<1>7. /\ p \in R[l] /\ d = part[p].elts /\ n \in Nat /\ n < part[p].nelts
      /\ L!InUse(l) /\ (v.into # None => L!InUse(v.into))
      /\ l \in L!Lists /\ p \in L!Parts /\ Parted(part)
      /\ v.at = Iter(p, d, n)
  <2>1. /\ p \in R[l] \cup {None} /\ p # None
        /\ (n = 0 \/ n < part[p].nelts) /\ d = part[p].elts /\ part[p].nelts > 0
    BY <1>3, <1>4, <1>6 DEF Position, L!valid
  <2>2. /\ l \in L!Lists /\ n \in Nat /\ v.at = Iter(p, d, n)
    BY <1>3, <1>5 DEF Visitors, Iter
  <2>3. p \in R[l] /\ p \in L!Parts /\ Parted(part)
    BY <1>1, <1>2, <2>1, <2>2 DEF Laid, ListTypes
  <2>4. n < part[p].nelts
    BY <2>1
  <2>5. L!InUse(l) /\ (v.into # None => L!InUse(v.into))
    BY <1>3, <1>4, <1>6, <2>2 DEF Position
  <2> QED
    BY <2>1, <2>2, <2>3, <2>4, <2>5
<1>8. x \in Headers
  <2>1. \A i \in 1 .. part[p].nelts : cells[part[p].elts][i] \in Headers
    BY <1>2, <1>7 DEF ListTypes, Stored
  <2>2. part[p].nelts \in Nat
    BY <1>7, PartIs
  <2>3. n + 1 \in 1 .. part[p].nelts
    BY <1>7, <2>2
  <2> QED
    BY <1>3, <1>7, <2>1, <2>3
<1>9. PICK R2 : Stepped(R2, v, x)
  <2>1. CASE ~v.each /\ UNCHANGED <<part, last, cells, blocks, own, wrote>>
    <3>1. UNCHANGED <<part, last, cells, blocks, own, wrote, copied, tied, plain>>
      BY <1>4, <2>1
    <3>2. Stepped(R, v, x)
      BY <1>1, <1>2, <1>3, <1>5, <1>7, <2>1, <3>1, StepSees
    <3> QED
      BY <3>2
  <2>2. CASE /\ v.into # None /\ L!put(v.into, x) /\ L!Wrote(v.into)
             /\ own' = [own EXCEPT ![v.into] = Append(own[v.into], x)]
    <3>1. PICK o \in L!Lists : v.into = o
      BY <1>5, <2>2 DEF Visitors
    <3>2. L!put(o, x) /\ own' = [own EXCEPT ![o] = Append(own[o], x)] /\ L!Wrote(o)
      BY <2>2, <3>1
    <3>3. L!InUse(v.list) /\ L!InUse(o) /\ v.at.part \in R[v.list]
      BY <1>3, <1>7, <2>2, <3>1
    <3>4. UNCHANGED <<copied, tied, plain>>
      BY <1>4
    <3> QED
      BY <1>1, <1>2, <1>5, <1>8, <3>1, <3>2, <3>3, <3>4, StepPuts
  <2> QED
    BY <1>4, <2>1, <2>2
<1>10. /\ Laid(R2)' /\ HeldBy(R2)' /\ (visit' \in Visitors \cup {None} => ListTypes')
       /\ Parted(part') /\ p \in R2[l] /\ part'[p].elts = d /\ part[p].nelts <= part'[p].nelts
       /\ wrote \subseteq wrote'
       /\ L!Other(l) \notin wrote' => Added(Flat(part), Flat(part'), l, p, own[l], own'[l], x, v)
  BY <1>3, <1>7, <1>9 DEF Stepped
<1>11. n < part'[p].nelts
  <2>1. part[p].nelts \in Nat /\ part'[p].nelts \in Nat
    BY <1>7, <1>10, PartIs
  <2> QED
    BY <1>7, <1>10, <2>1
<1>12. /\ j \in [part: L!Parts \cup {None}, data: Nat \cup {None}, count: Nat]
       /\ \/ j.part = p /\ j.data = d /\ j.count < part'[p].nelts
          \/ /\ j.part = part'[p].next /\ j.count = 0
             /\ j.data = IF j.part = None THEN None ELSE part'[j.part].elts
  <2>1. PICK pt, it : pt = part' /\ it = v.at
    OBVIOUS
  <2>2. /\ Parted(pt) /\ n < pt[p].nelts /\ d = pt[p].elts /\ j = L!increment(pt, it)
        /\ it = Iter(p, d, n)
    BY <1>3, <1>7, <1>10, <1>11, <2>1
  <2>3. /\ j \in [part: L!Parts \cup {None}, data: Nat \cup {None}, count: Nat]
        /\ Comes(pt, p, d, j)
    BY <1>7, <2>2, IncrementIs
  <2> QED
    BY <2>1, <2>3 DEF Comes
<1>13. /\ w \in Visitors /\ w.list = l /\ w.at = j /\ w.into = v.into
  <2>1. Append(v.seen, x) \in Seq(Headers)
    BY <1>5, <1>8, AppendIs DEF Visitors
  <2> QED
    BY <1>3, <1>5, <1>7, <1>12, <2>1 DEF Visitors, Saw
<1>14. ListTypes'
  BY <1>4, <1>10, <1>13
<1>15. Position(w, R2)'
  <2>1. p # None
    BY <1>7, ListsAre
  <2>2. j.part \in R2[l] \cup {None}
    <3>1. Closed(part', R2[l])
      BY <1>7, <1>10 DEF Laid
    <3> QED
      BY <1>10, <1>12, <3>1 DEF Closed
  <2>3. j.part = None => j.data = None /\ j.count = 0
    BY <1>12, <2>1
  <2>4. j.part # None =>
          j.data = part'[j.part].elts /\ (j.count = 0 \/ j.count < part'[j.part].nelts)
    BY <1>10, <1>12
  <2>5. L!InUse(l)' /\ (v.into # None => L!InUse(v.into)')
    BY <1>4, <1>7 DEF L!InUse
  <2> QED
    BY <1>13, <2>2, <2>3, <2>4, <2>5 DEF Position
<1>16. Seeing(w)'
  <2> SUFFICES ASSUME L!Other(l) \notin wrote'
               PROVE  \E b \in Seq(Spots) : Progress(Flat(part'), b, w, own'[l])
    BY <1>13 DEF Seeing
  <2>1. PICK ps, pt, cs, s, t : ps = part /\ pt = part' /\ cs = cells /\ s = own[l] /\ t = own'[l]
    OBVIOUS
  <2>2. L!Other(l) \notin wrote
    BY <1>10
  <2>3. PICK a \in Seq(Spots) : Progress(Flat(ps), a, v, s)
    BY <1>3, <1>6, <2>1, <2>2 DEF Seeing
  <2>4. Holding(Flat(ps)[l], cs, s)
    <3>1. Sure(l)
      BY <1>7, <2>2 DEF Sure
    <3> QED
      BY <1>1, <1>7, <2>1, <3>1 DEF HeldBy, Intact
  <2>5. Added(Flat(ps), Flat(pt), l, p, s, t, x, v)
    BY <1>10, <2>1
  <2>6. s \in Seq(Headers) /\ t \in Seq(Headers)
    BY <1>2, <1>7, <1>14, <2>1 DEF ListTypes
  <2>7. /\ Parted(ps) /\ Parted(pt) /\ Shown(ps, pt, p, d, n, cs, x)
        /\ j = L!increment(pt, v.at) /\ w = Saw(v, x, j) /\ v.list = l /\ v.at = Iter(p, d, n)
    BY <1>3, <1>7, <1>10, <2>1 DEF Shown
  <2>9. l \in L!Lists /\ p \in L!Parts /\ n \in Nat
    BY <1>7
  <2>8. \E b \in Seq(Spots) : Progress(Flat(pt), b, w, t)
    BY <1>5, <1>8, <2>3, <2>4, <2>5, <2>6, <2>7, <2>9, SeesOne
  <2> QED
    BY <2>1, <2>8
<1>17. Placed(R2)'
  BY <1>4, <1>15, <1>16 DEF Placed
<1> QED
  BY <1>10, <1>14, <1>17 DEF Listed, HeldBy, Placed

LEMMA ListNext ==
    ASSUME Listed, [L!Next]_lvars
    PROVE  Listed'
<1>1. CASE \E l \in L!Lists, k \in Keys : L!push(l, k) \/ L!remove(l, k)
  BY <1>1, ListPush, ListRemove
<1>2. CASE \E l \in L!Lists : L!clear(l) \/ L!reinit(l)
  BY <1>2, ListClear, ListReinit
<1>3. CASE L!copy
  BY <1>3, ListCopy
<1>4. CASE \E l \in L!Lists, into \in L!Lists \cup {None} : L!visits(l, into)
  BY <1>4, ListVisits DEF L!visits
<1>5. CASE L!step
  BY <1>5, ListStep
<1>6. CASE L!throws \/ L!ends
  BY <1>6, ListStops
<1>7. CASE \E l, into \in L!Lists : L!merge(into, l)
  BY <1>7, ListVisits DEF L!merge
<1>8. CASE UNCHANGED lvars
  <2>1. PICK R : Laid(R) /\ HeldBy(R) /\ Placed(R)
    BY DEF Listed, HeldBy, Placed
  <2>2. /\ part' = part /\ last' = last /\ cells' = cells /\ blocks' = blocks /\ copied' = copied
        /\ own' = own /\ tied' = tied /\ wrote' = wrote /\ plain' = plain /\ visit' = visit
    BY <1>8 DEF lvars
  <2>3. ListTypes'
    BY <2>2 DEF Listed, ListTypes
  <2>4. Laid(R)'
    BY <2>1, <2>2 DEF Laid
  <2>5. HeldBy(R)'
    BY <2>1, <2>2 DEF HeldBy, Sure, Intact, L!InUse
  <2>6. Placed(R)'
    BY <2>1, <2>2 DEF Placed, Position, Seeing, L!InUse, L!valid
  <2> QED
    BY <2>3, <2>4, <2>5, <2>6 DEF Listed, HeldBy, Placed
<1> QED
  BY <1>1, <1>2, <1>3, <1>4, <1>5, <1>6, <1>7, <1>8 DEF L!Next

LEMMA ListOwn == Listed => L!OwnKept
<1> SUFFICES ASSUME Listed
             PROVE  L!OwnKept
  OBVIOUS
<1>1. PICK R : Laid(R) /\ HeldBy(R) /\ ListTypes
  BY DEF Listed, HeldBy
<1>2. ASSUME NEW l \in L!Lists, Sure(l)
      PROVE  L!Contents(l) = own[l]
  <2>1. Holding(Flat(part)[l], cells, own[l])
    BY <1>1, <1>2 DEF HeldBy, Intact
  <2> QED
    BY <1>1, <2>1, ContentsHeld
<1>3. \A l \in L!Lists : L!InUse(l) /\ L!Other(l) \notin wrote => L!Contents(l) = own[l]
  BY <1>2 DEF Sure
<1>4. plain /\ Main \notin wrote => L!Contents(Main) = own[Main]
  <2>1. Main \in L!Lists /\ L!InUse(Main)
    BY ListsAre DEF L!InUse
  <2> QED
    BY <1>2, <2>1 DEF Sure
<1> QED
  BY <1>3, <1>4 DEF L!OwnKept

LEMMA ListSees == Listed => L!VisitSees
<1> SUFFICES ASSUME Listed, visit # None, L!Other(visit.list) \notin wrote
             PROVE  /\ Len(visit.seen) <= Len(own[visit.list])
                    /\ \A i \in DOMAIN visit.seen : visit.seen[i] = own[visit.list][i]
                    /\ ~L!valid(visit.at) => Len(visit.seen) = Len(own[visit.list])
                    /\ visit.each /\ visit.into = visit.list /\ visit.seen # <<>> =>
                        Len(visit.seen) < Len(own[visit.list])
  BY DEF L!VisitSees
<1>1. PICK R : Laid(R) /\ HeldBy(R) /\ Placed(R) /\ ListTypes
  BY DEF Listed, HeldBy, Placed
<1>2. PICK v, l, p, f, s, u : /\ v = visit /\ l = v.list /\ p = v.at.part /\ f = Flat(part)
                              /\ s = own[l] /\ u = v.seen
  OBVIOUS
<1>3. v \in Visitors /\ l \in L!Lists /\ u \in Seq(Headers) /\ s \in Seq(Headers) /\ Parted(part)
      /\ l \in L!Parts
  <2>1. v \in Visitors /\ Parted(part) /\ own \in [L!Lists -> Seq(Headers)]
    BY <1>1, <1>2 DEF ListTypes
  <2>2. l \in L!Lists /\ u \in Seq(Headers)
    BY <1>2, <2>1 DEF Visitors
  <2> QED
    BY <1>2, <2>1, <2>2, ListsAre
<1>4. Position(v, R) /\ Seeing(v) /\ L!Other(l) \notin wrote
  BY <1>1, <1>2 DEF Placed
<1>5. /\ p \in R[l] \cup {None} /\ L!InUse(l)
      /\ p = None => v.at.count = 0
      /\ p # None => v.at.data = part[p].elts /\ (v.at.count = 0 \/ v.at.count < part[p].nelts)
  BY <1>2, <1>4 DEF Position
<1>6. p \in L!Parts \cup {None}
  BY <1>1, <1>3, <1>5 DEF Laid
<1>7. ASSUME ~L!valid(v.at)
      PROVE  f[p] = <<>> /\ v.at.count = 0
  <2>1. f[None] = <<>>
    BY <1>2, <1>3, FlatIs DEF Flats
  <2>2. CASE p = None
    BY <1>5, <2>1, <2>2
  <2>3. CASE p # None
    <3>1. p \in L!Parts /\ part[p].elts \in Nat /\ part[p].nelts \in Nat
      BY <1>3, <1>6, <2>3, PartIs
    <3>2. v.at.data # None
      BY <1>5, <2>3, <3>1, ContainersAssumption
    <3>3. ~(part[p].nelts > 0)
      BY <1>2, <1>5, <1>7, <2>3, <3>2 DEF L!valid
    <3>4. part[p].nelts = 0
      BY <3>1, <3>3
    <3>5. v.at.count = 0
      <4>1. v.at.count \in Nat
        BY <1>3 DEF Visitors
      <4> QED
        BY <1>5, <2>3, <3>4, <4>1
    <3>6. part[p].next = None
      BY <1>3, <3>1, <3>4, PartIs, ListsAre
    <3>7. f[p] = Run(part[p]) \o f[None]
      BY <1>2, <1>3, <3>1, <3>6, FlatIs DEF Flats
    <3>8. Run(part[p]) \in Seq(Spots) /\ Len(Run(part[p])) = 0
      BY <1>3, <3>1, <3>4, PartIs, RunIs
    <3>9. Run(part[p]) = <<>>
      BY <3>8, EmptySeq
    <3>10. <<>> \o <<>> = <<>>
      BY <3>8, <3>9, ConcatEmptySeq
    <3> QED
      BY <2>1, <3>5, <3>7, <3>9, <3>10
  <2> QED
    BY <2>2, <2>3
<1>8. PICK a \in Seq(Spots) : Progress(f, a, v, s)
  BY <1>2, <1>4 DEF Seeing
<1>9. /\ f[l] = a \o f[p] /\ Len(a) + v.at.count = Len(u) /\ Len(u) <= Len(s)
      /\ \A i \in 1 .. Len(u) : u[i] = s[i]
      /\ v.each /\ v.into = l /\ u # <<>> => Len(u) < Len(s)
  BY <1>2, <1>8 DEF Progress
<1>10. ASSUME ~L!valid(v.at)
       PROVE  Len(u) = Len(s)
  <2>1. f[p] = <<>> /\ v.at.count = 0
    BY <1>7, <1>10
  <2>2. f[l] = a
    BY <1>9, <2>1, ConcatEmptySeq
  <2>3. Sure(l)
    BY <1>4, <1>5 DEF Sure
  <2>4. Len(f[l]) = Len(s)
    BY <1>1, <1>2, <1>3, <2>3 DEF HeldBy, Intact, Holding
  <2>5. Len(a) \in Nat /\ Len(s) \in Nat
    BY <1>3
  <2> QED
    BY <1>9, <2>1, <2>2, <2>4, <2>5
<1>11. DOMAIN u = 1 .. Len(u)
  BY <1>3
<1> QED
  BY <1>2, <1>9, <1>10, <1>11

-------------------------------------------------------------------------------

Kept == Arrayed /\ Linked /\ Queued /\ Listed

LEMMA KeptInit == Init => Kept
BY ArrayInit, ChainInit, QueueInit, ListInit DEF Init, Kept

LEMMA KeptNext == Kept /\ [Next]_<<focus, lvars, avars, cvars, qvars>> => Kept'
<1> SUFFICES ASSUME Kept, [Next]_<<focus, lvars, avars, cvars, qvars>>
             PROVE  Kept'
  OBVIOUS
<1>1. [A!Next]_avars /\ [C!Next]_cvars /\ [Q!Next]_qvars /\ [L!Next]_lvars
  BY Zenon DEF Next
<1> QED
  BY <1>1, ArrayNext, ChainNext, QueueNext, ListNext DEF Kept

THEOREM ContainersKept == Spec => []Kept
BY KeptInit, KeptNext, PTL DEF Spec

\* No link is in two chains, or in one and in the pool, and each node that is in a
\* queue is there once, read from either end: NgxChain::append, head and free,
\* NgxQueue::insert, remove, merge, sort and the iterators.
THEOREM ContainersOnce == Spec => []NoneTwice
<1>1. Kept => NoneTwice
  BY ChainOnce, QueueOnce DEF Kept, NoneTwice
<1> QED
  BY <1>1, ContainersKept, PTL

\* Each list holds what it was given, in order, until the other is written to while
\* they share cells: NgxSubRequest::create, NgxHeaders::add and remove, NgxList::push,
\* clear, reinit and merge.
THEOREM ContainersOwn == Spec => []OwnKept
<1>1. Kept => OwnKept
  BY ListOwn DEF Kept, OwnKept
<1> QED
  BY <1>1, ContainersKept, PTL

\* At each step of a visit of a list or an array, whose callback may push at any step,
\* the elements so far were seen once and in order, also those pushed meanwhile, and
\* at its end all; of an array up to the room of the block that is read.  A merge with
\* itself always has some left: NgxList::visit and merge, NgxArray::visit and merge.
THEOREM ContainersVisits == Spec => []VisitSees
<1>1. Kept => VisitSees
  BY ListSees, ArraySees DEF Kept, VisitSees
<1> QED
  BY <1>1, ContainersKept, PTL

===============================================================================
