----------------------------- MODULE DiscoveryProofs -----------------------------
(* What discovery makes of any model directories: the lemmas that the theorems on     *)
(* the registry and on the model store share.                                         *)
EXTENDS Discovery, Integers, TLAPS

\* The two loops of discover_models, and that over the ensembles.
ScanName(at, found, n) ==
    IF n \in at.files THEN ScanFile(found, [dir |-> at.dir, name |-> n]) ELSE found
AddEnsembles(p, e, d) == Updated(e, Defined(d.yaml))

Inner == INSTANCE FoldTheorems WITH Op <- ScanName
Outer == INSTANCE FoldTheorems WITH Op <- ScanDirectory
Definitions == INSTANCE FoldTheorems WITH Op <- AddEnsembles

\* Directories as a sequence.
IsDirs(dirs) == \E N \in Nat : DOMAIN dirs = 1..N

----------------------------------------------------------------------------
(* Versions                                                                  *)

LEMMA PartsAreOrdered ==
  ASSUME NEW a \in {0, 1} \X Nat, NEW b \in {0, 1} \X Nat, NEW c \in {0, 1} \X Nat
  PROVE  /\ ~PartLess(a, a)
         /\ a = b \/ PartLess(a, b) \/ PartLess(b, a)
         /\ PartLess(a, b) /\ PartLess(b, c) => PartLess(a, c)
         /\ PartLess(a, b) <=> IF a[1] # b[1] THEN b[1] = 1 ELSE a[2] < b[2]
  <1>1. ASSUME NEW d \in {0, 1} \X Nat
        PROVE  d[1] \in {0, 1} /\ d[2] \in Nat /\ d = <<d[1], d[2]>>
    OBVIOUS
  <1>2. /\ a[1] \in {0, 1} /\ a[2] \in Nat /\ a = <<a[1], a[2]>>
        /\ b[1] \in {0, 1} /\ b[2] \in Nat /\ b = <<b[1], b[2]>>
        /\ c[1] \in {0, 1} /\ c[2] \in Nat
    BY <1>1
  <1>3. ~PartLess(a, a)
    BY <1>2 DEF PartLess
  <1>4. a = b \/ PartLess(a, b) \/ PartLess(b, a)
    BY <1>2 DEF PartLess
  <1>5. PartLess(a, b) /\ PartLess(b, c) => PartLess(a, c)
    BY <1>2 DEF PartLess
  <1>6. PartLess(a, b) <=> IF a[1] # b[1] THEN b[1] = 1 ELSE a[2] < b[2]
    BY <1>2 DEF PartLess
  <1> QED
    BY <1>3, <1>4, <1>5, <1>6

LEMMA VersionParts ==
  ASSUME NEW v \in Version
  PROVE  /\ Len(v) \in Nat /\ DOMAIN v = 1..Len(v)
         /\ \A i \in 1..Len(v) : v[i] \in {0, 1} \X Nat
  BY DEF Version

\* The first part that makes v newer.
NewerAt(i, v, w) ==
    /\ i \in 1..Len(v) /\ i <= Len(w) + 1
    /\ \A j \in 1..i - 1 : v[j] = w[j]
    /\ i <= Len(w) => PartLess(w[i], v[i])

LEMMA NewerSomewhere ==
  ASSUME NEW v \in Version, NEW w \in Version
  PROVE  Newer(v, w) <=> \E i \in 1..Len(v) : NewerAt(i, v, w)
  BY VersionParts DEF Newer, NewerAt

LEMMA NewerIsIrreflexive ==
  ASSUME NEW v \in Version
  PROVE  ~Newer(v, v)
  <1> SUFFICES ASSUME NEW i \in 1..Len(v), NewerAt(i, v, v) PROVE FALSE
    BY NewerSomewhere
  <1>1. v[i] \in {0, 1} \X Nat /\ i <= Len(v)
    BY VersionParts
  <1> QED
    BY <1>1, PartsAreOrdered DEF NewerAt

LEMMA NewerIsTransitive ==
  ASSUME NEW u \in Version, NEW v \in Version, NEW w \in Version, Newer(u, v), Newer(v, w)
  PROVE  Newer(u, w)
  <1>1. PICK i \in 1..Len(u) : NewerAt(i, u, v)
    BY NewerSomewhere
  <1>2. PICK j \in 1..Len(v) : NewerAt(j, v, w)
    BY NewerSomewhere
  <1>3. Len(u) \in Nat /\ Len(v) \in Nat /\ Len(w) \in Nat /\ i \in Nat /\ j \in Nat
    BY VersionParts
  <1>4. CASE i < j
    <2>1. i \in 1..Len(v) /\ i <= Len(w) /\ i \in 1..j - 1 /\ \A k \in 1..i - 1 : k \in 1..j - 1
      BY <1>2, <1>3, <1>4 DEF NewerAt
    <2>2. NewerAt(i, u, w)
      BY <1>1, <1>2, <1>3, <2>1 DEF NewerAt
    <2> QED
      BY <2>2, NewerSomewhere
  <1>5. CASE j < i
    <2>1. j \in 1..Len(u) /\ j \in 1..i - 1 /\ \A k \in 1..j - 1 : k \in 1..i - 1
      BY <1>1, <1>3, <1>5 DEF NewerAt
    <2>2. NewerAt(j, u, w)
      BY <1>1, <1>2, <1>3, <2>1 DEF NewerAt
    <2> QED
      BY <2>1, <2>2, NewerSomewhere
  <1>6. CASE i = j
    <2>1. i <= Len(v) /\ PartLess(v[i], u[i])
      BY <1>1, <1>2, <1>3, <1>6 DEF NewerAt
    <2>2. i <= Len(w) => PartLess(w[i], v[i])
      BY <1>2, <1>6 DEF NewerAt
    <2>3. i <= Len(w) => i \in 1..Len(w) /\ i \in 1..Len(u) /\ i \in 1..Len(v)
      BY <1>3, <2>1
    <2>4. i <= Len(w) => PartLess(w[i], u[i])
      BY <2>1, <2>2, <2>3, VersionParts, PartsAreOrdered
    <2>5. NewerAt(i, u, w)
      BY <1>1, <1>2, <1>6, <2>4 DEF NewerAt
    <2> QED
      BY <2>5, NewerSomewhere
  <1> QED
    BY <1>3, <1>4, <1>5, <1>6

\* The first part in which two versions differ, if there is one.
LEMMA VersionsDiffer ==
  ASSUME NEW v \in Version, NEW w \in Version, v # w
  PROVE  \E i \in Nat \ {0} :
            /\ i <= Len(v) + 1 /\ i <= Len(w) + 1
            /\ \A j \in 1..i - 1 : v[j] = w[j]
            /\ i <= Len(v) \/ i <= Len(w)
            /\ i <= Len(v) /\ i <= Len(w) => v[i] # w[i]
  <1> DEFINE T == {i \in Nat \ {0} : \/ i = Len(v) + 1 \/ i = Len(w) + 1
                                     \/ i <= Len(v) /\ i <= Len(w) /\ v[i] # w[i]}
  <1>1. /\ Len(v) \in Nat /\ DOMAIN v = 1..Len(v) /\ v \in Seq({0, 1} \X Nat)
        /\ Len(w) \in Nat /\ DOMAIN w = 1..Len(w) /\ w \in Seq({0, 1} \X Nat)
    BY VersionParts DEF Version
  <1>2. Len(v) + 1 \in T /\ T \in SUBSET Nat
    BY <1>1
  <1>3. PICK i \in T : \A j \in T : i <= j
    BY <1>2, Outer!LeastNumber
  <1>4. i \in Nat \ {0} /\ i <= Len(v) + 1 /\ i <= Len(w) + 1
    <2>1. Len(w) + 1 \in T
      BY <1>1
    <2> QED
      BY <1>2, <1>3, <2>1
  <1>5. ASSUME NEW j \in 1..i - 1 PROVE v[j] = w[j]
    <2>1. j \in Nat \ {0} /\ j <= Len(v) /\ j <= Len(w) /\ ~(i <= j)
      BY <1>1, <1>4
    <2>2. j \notin T
      BY <1>3, <2>1
    <2> QED
      BY <1>1, <2>1, <2>2
  <1>6. i <= Len(v) \/ i <= Len(w)
    <2> SUFFICES ASSUME ~(i <= Len(v)), ~(i <= Len(w)) PROVE FALSE
      OBVIOUS
    <2> DEFINE a == Len(v)
               b == Len(w)
    <2>1. i = a + 1 /\ a = b
      <3>1. i \in Nat /\ a \in Nat /\ b \in Nat /\ i <= a + 1 /\ i <= b + 1
            /\ ~(i <= a) /\ ~(i <= b)
        BY <1>1, <1>4
      <3> HIDE DEF T, a, b
      <3> QED
        BY <3>1
    <2>2. \A j \in 1..Len(v) : v[j] = w[j]
      BY <1>1, <1>5, <2>1
    <2> HIDE DEF T
    <2>3. v = w
      BY <1>1, <2>1, <2>2
    <2> QED
      BY <2>3
  <1>7. i <= Len(v) /\ i <= Len(w) => v[i] # w[i]
    BY <1>1, <1>4
  <1> HIDE DEF T
  <1> QED
    BY <1>4, <1>5, <1>6, <1>7

LEMMA NewerIsTotal ==
  ASSUME NEW v \in Version, NEW w \in Version
  PROVE  v = w \/ Newer(v, w) \/ Newer(w, v)
  <1> SUFFICES ASSUME v # w PROVE Newer(v, w) \/ Newer(w, v)
    OBVIOUS
  <1>1. PICK i \in Nat \ {0} :
            /\ i <= Len(v) + 1 /\ i <= Len(w) + 1
            /\ \A j \in 1..i - 1 : v[j] = w[j]
            /\ i <= Len(v) \/ i <= Len(w)
            /\ i <= Len(v) /\ i <= Len(w) => v[i] # w[i]
    BY VersionsDiffer
  <1>2. Len(v) \in Nat /\ Len(w) \in Nat
    BY VersionParts
  <1>3. CASE ~(i <= Len(w))
    <2>1. NewerAt(i, v, w) /\ i \in 1..Len(v)
      BY <1>1, <1>2, <1>3 DEF NewerAt
    <2> QED
      BY <2>1, NewerSomewhere
  <1>4. CASE ~(i <= Len(v))
    <2>1. NewerAt(i, w, v) /\ i \in 1..Len(w)
      BY <1>1, <1>2, <1>4 DEF NewerAt
    <2> QED
      BY <2>1, NewerSomewhere
  <1>5. CASE i <= Len(v) /\ i <= Len(w)
    <2>1. i \in 1..Len(v) /\ i \in 1..Len(w) /\ v[i] # w[i]
      BY <1>1, <1>2, <1>5
    <2>2. PartLess(v[i], w[i]) \/ PartLess(w[i], v[i])
      BY <2>1, VersionParts, PartsAreOrdered
    <2>3. NewerAt(i, v, w) \/ NewerAt(i, w, v)
      BY <1>1, <2>1, <2>2 DEF NewerAt
    <2> QED
      BY <2>1, <2>3, NewerSomewhere
  <1> QED
    BY <1>3, <1>4, <1>5

----------------------------------------------------------------------------
(* Files                                                                     *)

Main(V, id) == {p \in V : ~p.name.lite /\ p.name.id = id}
Lite(V, stem) == {p \in V : p.name.lite /\ Stem(p.name) = stem}

\* Among files looked at, b is the one that serves: none is newer, and of those of
\* the same age it was the first.
IsBest(b, F) ==
    /\ b \in F
    /\ \A p \in F \ {b} : \/ Newer(b.name.version, p.name.version)
                          \/ ~Newer(p.name.version, b.name.version) /\ Precedes(b, p)

\* What is known when the files V have been looked at.
ScanInv(found, V) ==
    /\ found = [served |-> found.served, gates |-> found.gates]
    /\ \A id : IF Main(V, id) = {} THEN id \notin DOMAIN found.served
               ELSE id \in DOMAIN found.served /\ IsBest(found.served[id], Main(V, id))
    /\ \A stem : IF Lite(V, stem) = {} THEN stem \notin DOMAIN found.gates
                 ELSE stem \in DOMAIN found.gates /\ found.gates[stem] \in Lite(V, stem)

LEMMA NextIsBest ==
  ASSUME NEW F \in SUBSET Path, NEW b, IsBest(b, F), NEW p \in Path, p \notin F, Precedes(b, p)
  PROVE  IsBest(IF Newer(p.name.version, b.name.version) THEN p ELSE b, F \cup {p})
  <1>1. \A q \in Path : q.name.version \in Version
    BY DiscoveryAssumption DEF Path
  <1>2. b \in F /\ b \in Path
    BY DEF IsBest
  <1>3. CASE Newer(p.name.version, b.name.version)
    <2>1. ASSUME NEW q \in F PROVE Newer(p.name.version, q.name.version)
      <3>1. q.name.version \in Version /\ b.name.version \in Version /\ p.name.version \in Version
        BY <1>1, <1>2
      <3>2. \/ q = b \/ Newer(b.name.version, q.name.version)
            \/ ~Newer(q.name.version, b.name.version)
        BY DEF IsBest
      <3>3. \/ q.name.version = b.name.version \/ Newer(b.name.version, q.name.version)
        BY <3>1, <3>2, NewerIsTotal
      <3> QED
        BY <1>3, <3>1, <3>3, NewerIsTransitive
    <2> QED
      BY <1>3, <2>1 DEF IsBest
  <1>4. CASE ~Newer(p.name.version, b.name.version)
    BY <1>2, <1>4 DEF IsBest
  <1> QED
    BY <1>3, <1>4

LEMMA ScanOne ==
  ASSUME NEW V \in SUBSET Path, NEW found, ScanInv(found, V),
         NEW p \in Path, p \notin V, \A q \in V : Precedes(q, p)
  PROVE  ScanInv(ScanFile(found, p), V \cup {p})
  <1> DEFINE W == V \cup {p}
             id == p.name.id
             stem == Stem(p.name)
  <1>1. found = [served |-> found.served, gates |-> found.gates]
    BY DEF ScanInv
  <1>2. ASSUME NEW i, i # id \/ p.name.lite PROVE Main(W, i) = Main(V, i)
    BY <1>2 DEF Main
  <1>3. ASSUME NEW s, s # stem \/ ~p.name.lite PROVE Lite(W, s) = Lite(V, s)
    BY <1>3 DEF Lite
  <1>4. CASE p.name.lite
    <2>1. Lite(W, stem) = Lite(V, stem) \cup {p}
      BY <1>4 DEF Lite
    <2>2. CASE stem \in DOMAIN found.gates
      <3>1. ScanFile(found, p) = found
        BY <1>4, <2>2 DEF ScanFile
      <3>2. Lite(V, stem) # {} /\ found.gates[stem] \in Lite(V, stem)
        BY <2>2 DEF ScanInv
      <3>3. found.gates[stem] \in Lite(W, stem)
        BY <2>1, <3>2
      <3> HIDE DEF stem, id, W
      <3>4. \A i : IF Main(W, i) = {} THEN i \notin DOMAIN found.served
                   ELSE i \in DOMAIN found.served /\ IsBest(found.served[i], Main(W, i))
        BY <1>2, <1>4 DEF ScanInv
      <3>5. \A s : IF Lite(W, s) = {} THEN s \notin DOMAIN found.gates
                   ELSE s \in DOMAIN found.gates /\ found.gates[s] \in Lite(W, s)
        BY <1>3, <2>2, <3>3 DEF ScanInv
      <3>6. ScanInv(found, W)
        BY <1>1, <3>4, <3>5 DEF ScanInv
      <3> QED
        BY <3>1, <3>6 DEF W
    <2>3. CASE stem \notin DOMAIN found.gates
      <3> DEFINE next == ScanFile(found, p)
      <3>1. next = [found EXCEPT !.gates = With(found.gates, stem, p)]
        BY <1>4, <2>3 DEF ScanFile
      <3>2. /\ next = [served |-> next.served, gates |-> next.gates]
            /\ next.served = found.served
            /\ next.gates = With(found.gates, stem, p)
        BY <1>1, <3>1
      <3>3. /\ DOMAIN next.gates = DOMAIN found.gates \cup {stem}
            /\ next.gates[stem] = p
            /\ \A s \in DOMAIN found.gates : s # stem => next.gates[s] = found.gates[s]
        BY <3>2 DEF With
      <3> HIDE DEF stem, id, W, next
      <3>4. \A i : IF Main(W, i) = {} THEN i \notin DOMAIN next.served
                   ELSE i \in DOMAIN next.served /\ IsBest(next.served[i], Main(W, i))
        BY <1>2, <1>4, <3>2 DEF ScanInv
      <3>5. ASSUME NEW s
            PROVE  IF Lite(W, s) = {} THEN s \notin DOMAIN next.gates
                   ELSE s \in DOMAIN next.gates /\ next.gates[s] \in Lite(W, s)
        <4>1. CASE s = stem
          BY <2>1, <3>3, <4>1
        <4>2. CASE s # stem
          BY <1>3, <3>3, <4>2 DEF ScanInv
        <4> QED
          BY <4>1, <4>2
      <3>6. ScanInv(next, W)
        BY <3>2, <3>4, <3>5 DEF ScanInv
      <3> QED
        BY <3>6 DEF W, next
    <2> QED
      BY <2>2, <2>3
  <1>5. CASE ~p.name.lite
    <2>1. Main(W, id) = Main(V, id) \cup {p} /\ p \notin Main(V, id)
      BY <1>5 DEF Main
    <2>2. \A s : IF Lite(W, s) = {} THEN s \notin DOMAIN found.gates
                 ELSE s \in DOMAIN found.gates /\ found.gates[s] \in Lite(W, s)
      BY <1>3, <1>5 DEF ScanInv
    <2> DEFINE served == IF id \in DOMAIN found.served
                            /\ ~Newer(p.name.version, found.served[id].name.version)
                         THEN found.served ELSE With(found.served, id, p)
               next == ScanFile(found, p)
    <2>3. /\ next = [served |-> next.served, gates |-> next.gates]
          /\ next.served = served /\ next.gates = found.gates
      <3>1. CASE id \in DOMAIN found.served
                 /\ ~Newer(p.name.version, found.served[id].name.version)
        <4>1. next = found /\ served = found.served
          BY <1>5, <3>1 DEF ScanFile
        <4> QED
          BY <1>1, <4>1
      <3>2. CASE ~(id \in DOMAIN found.served
                   /\ ~Newer(p.name.version, found.served[id].name.version))
        <4>1. next = [found EXCEPT !.served = With(found.served, id, p)]
              /\ served = With(found.served, id, p)
          BY <1>5, <3>2 DEF ScanFile
        <4> HIDE DEF next, served
        <4> QED
          BY <1>1, <4>1
      <3> QED
        BY <3>1, <3>2
    <2>4. /\ DOMAIN served = DOMAIN found.served \cup {id}
          /\ \A i \in DOMAIN found.served : i # id => served[i] = found.served[i]
          /\ served[id] = IF id \in DOMAIN found.served
                             /\ ~Newer(p.name.version, found.served[id].name.version)
                          THEN found.served[id] ELSE p
      BY DEF With
    <2>5. IsBest(served[id], Main(W, id))
      <3>1. CASE Main(V, id) = {}
        <4>1. id \notin DOMAIN found.served
          BY <3>1 DEF ScanInv
        <4> HIDE DEF W, id, served
        <4>2. served[id] = p /\ Main(W, id) = {p}
          BY <2>1, <2>4, <3>1, <4>1
        <4> QED
          BY <4>2 DEF IsBest
      <3>2. CASE Main(V, id) # {}
        <4> DEFINE b == found.served[id]
        <4>1. id \in DOMAIN found.served /\ IsBest(b, Main(V, id))
          BY <3>2 DEF ScanInv
        <4>2. Main(V, id) \in SUBSET Path /\ b \in V /\ Precedes(b, p)
          BY <4>1 DEF IsBest, Main
        <4>3. served[id] = IF Newer(p.name.version, b.name.version) THEN p ELSE b
          BY <2>4, <4>1
        <4> HIDE DEF W, id, served, b
        <4> QED
          BY <2>1, <4>1, <4>2, <4>3, NextIsBest
      <3> QED
        BY <3>1, <3>2
    <2> HIDE DEF stem, id, W, next, served
    <2>6. ASSUME NEW i
          PROVE  IF Main(W, i) = {} THEN i \notin DOMAIN next.served
                 ELSE i \in DOMAIN next.served /\ IsBest(next.served[i], Main(W, i))
      <3>1. CASE i = id
        BY <2>1, <2>3, <2>4, <2>5, <3>1
      <3>2. CASE i # id
        BY <1>2, <2>3, <2>4, <3>2 DEF ScanInv
      <3> QED
        BY <3>1, <3>2
    <2>7. ScanInv(next, W)
      BY <2>2, <2>3, <2>6 DEF ScanInv
    <2> QED
      BY <2>7 DEF W, next
  <1> QED
    BY <1>4, <1>5

----------------------------------------------------------------------------
(* The loops                                                                 *)

LEMMA NamesAreSequence ==
  /\ Len(Names) \in Nat /\ DOMAIN Names = 1..Len(Names)
  /\ \A k \in 1..Len(Names) : Names[k] \in ToSet(Names)
  /\ \A n \in ToSet(Names) : \E k \in 1..Len(Names) : n = Names[k]
  <1>1. Names \in Seq(ToSet(Names))
    BY DiscoveryAssumption
  <1>2. Len(Names) \in Nat /\ DOMAIN Names = 1..Len(Names)
    BY <1>1
  <1> QED
    BY <1>2 DEF ToSet

\* The files that have been looked at when k names of directory i have been.
Visited(dirs, i, k) ==
    {p \in Paths(dirs) : p.dir < i \/ (p.dir = i /\ \E j \in 1..k : p.name = Names[j])}

LEMMA PathsAreDirs ==
  ASSUME NEW dirs, NEW N \in Nat, DOMAIN dirs = 1..N, NEW p \in Paths(dirs)
  PROVE  /\ p \in Path /\ p = [dir |-> p.dir, name |-> p.name]
         /\ p.dir \in 1..N /\ p.name \in ToSet(Names) /\ p.name \in dirs[p.dir].files
  BY DEF Paths, Path

LEMMA DirectoryIsLoop ==
  ASSUME NEW dirs, NEW found, NEW i
  PROVE  \E acc : /\ Inner!IsLoop(acc, [dir |-> i, files |-> dirs[i].files], found, Names, Len(Names))
                  /\ ScanDirectory(dirs, found, i) = acc[Len(Names)]
  <1> DEFINE at == [dir |-> i, files |-> dirs[i].files]
  <1>1. ScanDirectory(dirs, found, i) = Inner!Fold(at, found, Names)
    BY DEF ScanDirectory, ScanName, FoldLeft, MapThenFoldSet, Max,
           Inner!Fold, Inner!FoldLeft, Inner!MapThenFoldSet, Inner!Max
  <1> HIDE DEF at
  <1>2. \E acc : Inner!IsLoop(acc, at, found, Names, Len(Names))
                 /\ Inner!Fold(at, found, Names) = acc[Len(Names)]
    BY NamesAreSequence, Inner!FoldIsLoop
  <1> QED
    BY <1>1, <1>2 DEF at

\* One directory, name by name.
LEMMA ScanOneDirectory ==
  ASSUME NEW dirs, NEW N \in Nat, DOMAIN dirs = 1..N, NEW i \in 1..N,
         NEW found, ScanInv(found, Visited(dirs, i, 0))
  PROVE  ScanInv(ScanDirectory(dirs, found, i), Visited(dirs, i, Len(Names)))
  <1> DEFINE L == Len(Names)
             at == [dir |-> i, files |-> dirs[i].files]
  <1>1. /\ L \in Nat /\ DOMAIN Names = 1..L
        /\ \A k \in 1..L : Names[k] \in ToSet(Names)
    BY NamesAreSequence
  <1>2. PICK acc : Inner!IsLoop(acc, at, found, Names, L) /\ ScanDirectory(dirs, found, i) = acc[L]
    BY DirectoryIsLoop
  <1> DEFINE K == {k \in 0..L : ScanInv(acc[k], Visited(dirs, i, k))}
  <1>3. 0 \in K
    BY <1>1, <1>2 DEF Inner!IsLoop
  <1>4. ASSUME NEW k \in 0..L - 1, k \in K PROVE k + 1 \in K
    <2> DEFINE n == Names[k + 1]
               V == Visited(dirs, i, k)
               W == Visited(dirs, i, k + 1)
               p == [dir |-> i, name |-> n]
    <2>1. k + 1 \in 1..L /\ n \in ToSet(Names) /\ k + 1 \in 0..L
      BY <1>1
    <2>2. acc[k + 1] = IF n \in dirs[i].files THEN ScanFile(acc[k], p) ELSE acc[k]
      BY <1>2 DEF Inner!IsLoop, ScanName
    <2>3. ScanInv(acc[k], V)
      BY <1>4
    <2>4. /\ \A j \in 1..k : j \in 1..k + 1 /\ j \in 1..L /\ j # k + 1 /\ j < k + 1
          /\ \A j \in 1..k + 1 : j \in 1..k \/ j = k + 1
      BY <1>1
    <2> HIDE DEF L, K, at
    <2>5. CASE n \notin dirs[i].files
      <3>1. ASSUME NEW q \in Paths(dirs) PROVE q \in W <=> q \in V
        <4>1. q.dir = i => q.name # n
          BY <2>5, PathsAreDirs
        <4> QED
          BY <2>4, <4>1 DEF Visited
      <3>2. W = V
        BY <3>1 DEF Visited
      <3> QED
        BY <2>1, <2>2, <2>3, <2>5, <3>2 DEF K
    <2>6. CASE n \in dirs[i].files
      <3>1. p \in Paths(dirs) /\ p \in Path /\ V \in SUBSET Path
        <4>1. p \in Paths(dirs)
          BY <2>1, <2>6 DEF Paths
        <4> QED
          BY <4>1, PathsAreDirs DEF Visited
      <3>2. ASSUME NEW q \in V PROVE Precedes(q, p)
        <4>1. CASE q.dir < i
          BY <4>1 DEF Precedes
        <4>2. CASE ~(q.dir < i)
          <5>1. PICK j \in 1..k : q.dir = i /\ q.name = Names[j]
            BY <4>2 DEF Visited
          <5>2. j \in DOMAIN Names /\ k + 1 \in DOMAIN Names /\ j < k + 1
            BY <1>1, <2>1, <2>4
          <5> QED
            BY <5>1, <5>2 DEF Precedes
        <4> QED
          BY <4>1, <4>2
      <3>3. p \notin V
        <4> SUFFICES ASSUME p \in V PROVE FALSE
          OBVIOUS
        <4>1. ~(p.dir < i)
          OBVIOUS
        <4>2. PICK j \in 1..k : n = Names[j]
          BY <4>1 DEF Visited
        <4>3. j \in DOMAIN Names /\ k + 1 \in DOMAIN Names /\ j # k + 1
          BY <1>1, <2>1, <2>4
        <4> QED
          BY <4>2, <4>3, DiscoveryAssumption
      <3>4. ASSUME NEW q PROVE q \in W <=> q \in V \cup {p}
        <4>1. p \in W
          BY <2>1, <3>1 DEF Visited
        <4>2. q \in V => q \in W
          BY <2>4 DEF Visited
        <4>3. ASSUME q \in W, q \notin V PROVE q = p
          <5>1. q \in Paths(dirs) /\ q.dir = i /\ q.name = n
            BY <2>4, <4>3 DEF Visited
          <5>2. q = [dir |-> q.dir, name |-> q.name]
            BY <5>1, PathsAreDirs
          <5> QED
            BY <5>1, <5>2
        <4> QED
          BY <4>1, <4>2, <4>3
      <3>5. W = V \cup {p}
        BY <3>4
      <3> HIDE DEF V, W, p, n
      <3>6. ScanInv(ScanFile(acc[k], p), V \cup {p})
        BY <2>3, <3>1, <3>2, <3>3, ScanOne
      <3>7. ScanInv(acc[k + 1], W)
        BY <2>2, <2>6, <3>5, <3>6
      <3> QED
        BY <2>1, <3>7 DEF K, W
    <2> QED
      BY <2>5, <2>6
  <1> HIDE DEF K
  <1>5. \A k \in 0..L : k \in K
    BY <1>1, <1>3, <1>4, Inner!IntervalByInduction
  <1> QED
    BY <1>1, <1>2, <1>5 DEF K

LEMMA ScanIsLoop ==
  ASSUME NEW dirs, NEW N \in Nat, DOMAIN dirs = 1..N
  PROVE  \E acc : /\ Outer!IsLoop(acc, dirs, [served |-> << >>, gates |-> << >>],
                                  [i \in DOMAIN dirs |-> i], N)
                  /\ Scanned(dirs) = acc[N]
  <1> DEFINE none == [served |-> << >>, gates |-> << >>]
             order == [i \in DOMAIN dirs |-> i]
  <1>1. Scanned(dirs) = Outer!Fold(dirs, none, order)
    BY DEF Scanned, FoldLeft, MapThenFoldSet, Max,
           Outer!Fold, Outer!FoldLeft, Outer!MapThenFoldSet, Outer!Max
  <1>2. DOMAIN order = 1..N
    OBVIOUS
  <1> HIDE DEF none, order
  <1>3. \E acc : Outer!IsLoop(acc, dirs, none, order, N) /\ Outer!Fold(dirs, none, order) = acc[N]
    BY <1>2, Outer!FoldIsLoop
  <1> QED
    BY <1>1, <1>3 DEF none, order

\* All directories: what discover_models finds is the newest file for each wake word,
\* and the first gate for each of its names.
THEOREM ScanFindsBest ==
  ASSUME NEW dirs, IsDirs(dirs)
  PROVE  ScanInv(Scanned(dirs), Paths(dirs))
  <1> DEFINE L == Len(Names)
  <1>1. PICK N \in Nat : DOMAIN dirs = 1..N
    BY DEF IsDirs
  <1>2. PICK acc : /\ Outer!IsLoop(acc, dirs, [served |-> << >>, gates |-> << >>],
                                   [i \in DOMAIN dirs |-> i], N)
                   /\ Scanned(dirs) = acc[N]
    BY <1>1, ScanIsLoop
  <1>3. ASSUME NEW p \in Paths(dirs)
        PROVE  p.dir \in 1..N /\ \E j \in 1..L : p.name = Names[j]
    BY <1>1, PathsAreDirs, NamesAreSequence
  <1> DEFINE K == {i \in 0..N : ScanInv(acc[i], Visited(dirs, i + 1, 0))}
  <1>4. 0 \in K
    <2>1. acc[0] = [served |-> << >>, gates |-> << >>]
      BY <1>2 DEF Outer!IsLoop
    <2>2. Visited(dirs, 1, 0) = {}
      BY <1>3 DEF Visited
    <2>3. \A id : Main({}, id) = {} /\ Lite({}, id) = {}
      BY DEF Main, Lite
    <2>4. DOMAIN acc[0].served = {} /\ DOMAIN acc[0].gates = {}
      BY <2>1
    <2>5. ScanInv(acc[0], {})
      BY <2>1, <2>3, <2>4 DEF ScanInv
    <2> QED
      BY <2>2, <2>5
  <1>5. ASSUME NEW i \in 0..N - 1, i \in K PROVE i + 1 \in K
    <2>1. i + 1 \in 1..N /\ i + 1 \in 0..N
      BY <1>1
    <2>2. acc[i + 1] = ScanDirectory(dirs, acc[i], i + 1)
      BY <1>1, <1>2, <2>1 DEF Outer!IsLoop
    <2>3. ScanInv(acc[i + 1], Visited(dirs, i + 1, L))
      <3>1. ScanInv(acc[i], Visited(dirs, i + 1, 0))
        BY <1>5
      <3> HIDE DEF K, L
      <3> QED
        BY <1>1, <2>1, <2>2, <3>1, ScanOneDirectory DEF L
    <2>4. Visited(dirs, i + 1, L) = Visited(dirs, i + 1 + 1, 0)
      <3>1. ASSUME NEW p \in Paths(dirs)
            PROVE  p \in Visited(dirs, i + 1, L) <=> p \in Visited(dirs, i + 1 + 1, 0)
        <4>1. p \in Visited(dirs, i + 1, L) <=> p.dir < i + 1 \/ p.dir = i + 1
          BY <1>3 DEF Visited
        <4>2. p \in Visited(dirs, i + 1 + 1, 0) <=> p.dir < i + 1 + 1
          BY DEF Visited
        <4>3. p.dir \in Nat
          BY <1>3
        <4> QED
          BY <4>1, <4>2, <4>3
      <3> QED
        BY <3>1 DEF Visited
    <2> QED
      BY <2>1, <2>3, <2>4
  <1> HIDE DEF K
  <1>6. \A i \in 0..N : i \in K
    BY <1>1, <1>4, <1>5, Inner!IntervalByInduction
  <1>7. ScanInv(acc[N], Visited(dirs, N + 1, 0))
    BY <1>1, <1>6 DEF K
  <1>8. Visited(dirs, N + 1, 0) = Paths(dirs)
    BY <1>3 DEF Visited
  <1> QED
    BY <1>2, <1>7, <1>8

----------------------------------------------------------------------------
(* Ensembles and the registry                                                *)

LEMMA EnsemblesAreLoop ==
  ASSUME NEW dirs, NEW N \in Nat, DOMAIN dirs = 1..N
  PROVE  \E acc : Definitions!IsLoop(acc, 0, << >>, dirs, N) /\ Ensembles(dirs) = acc[N]
  <1>1. Ensembles(dirs) = Definitions!Fold(0, << >>, dirs)
    BY DEF Ensembles, AddEnsembles, FoldLeft, MapThenFoldSet, Max,
           Definitions!Fold, Definitions!FoldLeft, Definitions!MapThenFoldSet, Definitions!Max
  <1> QED
    BY <1>1, Definitions!FoldIsLoop

LEMMA EnsemblesHaveMembers ==
  ASSUME NEW dirs, IsDirs(dirs), NEW e \in DOMAIN Ensembles(dirs)
  PROVE  Ensembles(dirs)[e] # << >>
  <1>1. PICK N \in Nat : DOMAIN dirs = 1..N
    BY DEF IsDirs
  <1>2. PICK acc : Definitions!IsLoop(acc, 0, << >>, dirs, N) /\ Ensembles(dirs) = acc[N]
    BY <1>1, EnsemblesAreLoop
  <1> DEFINE K == {k \in 0..N : \A i \in DOMAIN acc[k] : acc[k][i] # << >>}
  <1>3. 0 \in K
    BY <1>2 DEF Definitions!IsLoop
  <1>4. ASSUME NEW k \in 0..N - 1, k \in K PROVE k + 1 \in K
    <2>1. acc[k + 1] = Updated(acc[k], Defined(dirs[k + 1].yaml))
      BY <1>2 DEF Definitions!IsLoop, AddEnsembles
    <2>2. \A i \in DOMAIN acc[k] : acc[k][i] # << >>
      BY <1>4
    <2>3. \A i \in DOMAIN Defined(dirs[k + 1].yaml) : Defined(dirs[k + 1].yaml)[i] # << >>
      BY DEF Defined
    <2>4. \A i \in DOMAIN acc[k + 1] : acc[k + 1][i] # << >>
      BY <2>1, <2>2, <2>3 DEF Updated
    <2>5. k + 1 \in 0..N
      BY <1>1
    <2> QED
      BY <2>4, <2>5
  <1> HIDE DEF K
  <1>5. \A k \in 0..N : k \in K
    BY <1>1, <1>3, <1>4, Inner!IntervalByInduction
  <1> QED
    BY <1>1, <1>2, <1>5 DEF K

LEMMA LeastOfNumbers ==
  ASSUME NEW S \in SUBSET Nat, S # {}
  PROVE  Min(S) \in S /\ \A n \in S : Min(S) <= n
  <1>1. \E n \in S : \A m \in S : n <= m
    BY Outer!LeastNumber
  <1> QED
    BY <1>1 DEF Min

LEMMA AcceptedMeansWhole ==
  ASSUME NEW dirs, IsDirs(dirs), Verdict(dirs) = "ok", NEW e \in DOMAIN Ensembles(dirs)
  PROVE  /\ e \notin DOMAIN Served(dirs)
         /\ ToSet(Ensembles(dirs)[e]) \subseteq DOMAIN Served(dirs)
  <1> DEFINE broken == {i \in DOMAIN dirs : Broken(dirs[i].yaml)}
  <1>1. broken = {}
    <2> SUFFICES ASSUME broken # {} PROVE FALSE
      OBVIOUS
    <2>1. broken \in SUBSET Nat
      BY DEF IsDirs
    <2>2. Min(broken) \in broken
      BY <2>1, LeastOfNumbers
    <2>3. dirs[Min(broken)].yaml \in {Invalid, Odd}
      BY <2>2 DEF Broken
    <2>4. Verdict(dirs) = dirs[Min(broken)].yaml
      BY DEF Verdict
    <2> QED
      BY <2>3, <2>4, DiscoveryAssumption
  <1>2. Verdict(dirs) = IF \E i \in DOMAIN Ensembles(dirs) :
                              \/ i \in DOMAIN Served(dirs)
                              \/ ~(ToSet(Ensembles(dirs)[i]) \subseteq DOMAIN Served(dirs))
                        THEN Invalid ELSE "ok"
    BY <1>1 DEF Verdict
  <1> QED
    BY <1>2, DiscoveryAssumption

\* The file of a wake word is one of the directories'.
LEMMA ServedIsFile ==
  ASSUME NEW dirs, IsDirs(dirs), NEW id \in DOMAIN Served(dirs)
  PROVE  /\ IsBest(Served(dirs)[id], Main(Paths(dirs), id))
         /\ Served(dirs)[id] \in Path /\ Served(dirs)[id] \in Paths(dirs)
         /\ Served(dirs)[id] # NoPath
  <1>1. IsBest(Served(dirs)[id], Main(Paths(dirs), id))
    BY ScanFindsBest DEF ScanInv, Served
  <1>2. Served(dirs)[id] \in Paths(dirs)
    BY <1>1 DEF IsBest, Main
  <1>3. Served(dirs)[id] \in Path
    BY <1>2, PathsAreDirs DEF IsDirs
  <1> QED
    BY <1>1, <1>2, <1>3, DiscoveryAssumption

\* What State.refresh has for a wake word with a file.
LEMMA BackingHasFiles ==
  ASSUME NEW dirs, IsDirs(dirs)
  PROVE  /\ DOMAIN Registry(dirs).backing = DOMAIN Served(dirs)
         /\ \A id \in DOMAIN Served(dirs) :
               LET entry == Registry(dirs).backing[id]
                   stem == Stem(Served(dirs)[id].name)
               IN  /\ entry.path = Served(dirs)[id]
                   /\ entry.gate = IF stem \in DOMAIN Gates(dirs) THEN Gates(dirs)[stem] ELSE NoPath
  <1> DEFINE E == Entries(dirs)
             stem(id) == Stem(Served(dirs)[id].name)
             B == {id \in DOMAIN E : E[id].path # NoPath}
  <1>1. /\ DOMAIN E = DOMAIN Served(dirs) \cup DOMAIN Ensembles(dirs)
        /\ \A id \in DOMAIN Served(dirs) :
              /\ E[id].path = Served(dirs)[id]
              /\ E[id].gate = IF stem(id) \in DOMAIN Gates(dirs) THEN Gates(dirs)[stem(id)]
                              ELSE NoPath
        /\ \A id \in DOMAIN Ensembles(dirs) \ DOMAIN Served(dirs) : E[id].path = NoPath
    BY DEF Entries
  <1>2. Registry(dirs).backing = [id \in B |-> E[id]]
    BY DEF Registry, Restrict
  <1> HIDE DEF E
  <1>3. B = DOMAIN Served(dirs)
    BY <1>1, ServedIsFile
  <1> HIDE DEF B
  <1> QED
    BY <1>1, <1>2, <1>3

\* What is offered has a file for each of its interpreters.
LEMMA OfferedHasFiles ==
  ASSUME NEW dirs, IsDirs(dirs), Verdict(dirs) = "ok", NEW id \in DOMAIN Registry(dirs).models
  PROVE  LET members == Registry(dirs).models[id].members
         IN  (IF members = << >> THEN {id} ELSE ToSet(members)) \subseteq DOMAIN Registry(dirs).backing
  <1> DEFINE E == Entries(dirs)
             M == DOMAIN E \ Hidden(dirs)
  <1>1. Registry(dirs).models = [i \in M |-> E[i]]
    BY DEF Registry, Restrict
  <1>2. /\ DOMAIN E = DOMAIN Served(dirs) \cup DOMAIN Ensembles(dirs)
        /\ \A i \in DOMAIN Served(dirs) : E[i].members = << >>
        /\ \A i \in DOMAIN Ensembles(dirs) \ DOMAIN Served(dirs) : E[i].members = Ensembles(dirs)[i]
    BY DEF Entries
  <1> HIDE DEF E
  <1>3. id \in DOMAIN E /\ Registry(dirs).models[id].members = E[id].members
    BY <1>1
  <1>4. CASE id \in DOMAIN Served(dirs)
    BY <1>2, <1>3, <1>4, BackingHasFiles
  <1>5. CASE id \in DOMAIN Ensembles(dirs) \ DOMAIN Served(dirs)
    <2>1. E[id].members # << >> /\ ToSet(E[id].members) \subseteq DOMAIN Served(dirs)
      BY <1>2, <1>5, EnsemblesHaveMembers, AcceptedMeansWhole
    <2> QED
      BY <1>3, <2>1, BackingHasFiles
  <1> QED
    BY <1>2, <1>3, <1>4, <1>5

LEMMA DefaultIsOffered ==
  ASSUME NEW dirs, NEW models, NEW configured
  PROVE  DefaultIds(dirs, models, configured) \subseteq DOMAIN models
  BY DEF DefaultIds
=============================================================================
