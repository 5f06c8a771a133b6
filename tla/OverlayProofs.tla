---------------------------- MODULE OverlayProofs ----------------------------
(***************************************************************************)
(* Proofs about OverlayStage, for any finite set of paths of any depth:    *)
(* that a replay makes the snapshot what the guest saw, that the overlay   *)
(* is a staging like the one with two trees, and that a harvest reports    *)
(* what a scan of those two trees would.                                   *)
(***************************************************************************)
EXTENDS OverlayStage, SequenceTheorems, FiniteSetTheorems, WellFoundedInduction, TLAPS

-----------------------------------------------------------------------------
(* Paths.                                                                  *)

\* What is above a path is shorter, and what is above that is above it too.
LEMMA PathsAre ==
  ASSUME NEW p \in Paths
  PROVE  p \in Seq(STRING) /\ Len(p) \in Nat
<1>1. p \in Seq(STRING)
  BY TreeParameters
<1> QED
  BY <1>1, LenProperties

LEMMA PrefixIs ==
  ASSUME NEW p \in Paths, NEW q \in Paths
  PROVE  IsPrefix(q, p) <=> Len(q) <= Len(p) /\ \A i \in 1..Len(q) : q[i] = p[i]
<1>1. /\ p \in Seq(STRING) /\ Len(p) \in Nat
      /\ q \in Seq(STRING) /\ Len(q) \in Nat
  BY PathsAre
<1> SUFFICES ASSUME Len(q) <= Len(p)
             PROVE  SubSeq(q, 1, Len(q)) = SubSeq(p, 1, Len(q))
                      <=> \A i \in 1..Len(q) : q[i] = p[i]
  BY DEF IsPrefix
<1> DEFINE a == SubSeq(q, 1, Len(q))
           b == SubSeq(p, 1, Len(q))
<1>2. \A i \in 1..Len(q) : q[i] \in STRING /\ p[i] \in STRING
  BY <1>1, ElementOfSeq
<1>3. /\ a \in Seq(STRING) /\ Len(a) = Len(q) /\ \A i \in 1..Len(q) : a[i] = q[i]
      /\ b \in Seq(STRING) /\ Len(b) = Len(q) /\ \A i \in 1..Len(q) : b[i] = p[i]
  <2>1. /\ a \in Seq(STRING) /\ Len(a) = IF 1 <= Len(q) THEN Len(q) - 1 + 1 ELSE 0
        /\ \A i \in 1..(Len(q) - 1 + 1) : a[i] = q[1 + i - 1]
    BY <1>1, <1>2, SubSeqProperties
  <2>2. /\ b \in Seq(STRING) /\ Len(b) = IF 1 <= Len(q) THEN Len(q) - 1 + 1 ELSE 0
        /\ \A i \in 1..(Len(q) - 1 + 1) : b[i] = p[1 + i - 1]
    BY <1>1, <1>2, SubSeqProperties
  <2> HIDE DEF a, b
  <2> QED
    BY <1>1, <2>1, <2>2
<1> HIDE DEF a, b
<1>4. a = b <=> \A i \in 1..Len(q) : a[i] = b[i]
  BY <1>3, SeqEqual
<1>5. a = b <=> \A i \in 1..Len(q) : q[i] = p[i]
  BY <1>3, <1>4
<1> QED
  BY <1>5 DEF a, b

LEMMA AboveIsShorter ==
  ASSUME NEW p \in Paths, NEW q \in Above(p)
  PROVE  q \in Paths /\ Len(q) < Len(p) /\ q # p /\ p \in Below(q) /\ p \notin Above(q)
<1>1. q \in Paths /\ IsPrefix(q, p) /\ q # p
  BY DEF Above, IsStrictPrefix
<1>2. /\ p \in Seq(STRING) /\ Len(p) \in Nat
      /\ q \in Seq(STRING) /\ Len(q) \in Nat
  BY <1>1, PathsAre
<1>3. Len(q) <= Len(p) /\ \A i \in 1..Len(q) : q[i] = p[i]
  BY <1>1, PrefixIs
<1>4. Len(q) # Len(p)
  BY <1>1, <1>2, <1>3, SeqEqual
<1>5. p \notin Above(q)
  BY <1>1, <1>2, <1>3, <1>4, PrefixIs DEF Above, IsStrictPrefix
<1> QED
  BY <1>1, <1>2, <1>3, <1>4, <1>5 DEF Above, Below

LEMMA AboveIsTransitive ==
  ASSUME NEW p \in Paths, NEW q \in Above(p), NEW r \in Above(q)
  PROVE  r \in Above(p)
<1>1. /\ q \in Paths /\ r \in Paths /\ Len(r) < Len(q) /\ Len(q) < Len(p)
      /\ IsPrefix(q, p) /\ IsPrefix(r, q)
  BY AboveIsShorter DEF Above, IsStrictPrefix
<1>2. Len(p) \in Nat /\ Len(q) \in Nat /\ Len(r) \in Nat
  BY <1>1, PathsAre
<1>3. \A i \in 1..Len(r) : r[i] = q[i] /\ q[i] = p[i]
  BY <1>1, <1>2, PrefixIs
<1>4. IsPrefix(r, p) /\ r # p
  BY <1>1, <1>2, <1>3, PrefixIs
<1> QED
  BY <1>1, <1>4 DEF Above, IsStrictPrefix

LEMMA AboveIsLinear ==
  ASSUME NEW p \in Paths, NEW q \in Above(p), NEW r \in Above(p)
  PROVE  q = r \/ q \in Above(r) \/ r \in Above(q)
<1>1. /\ q \in Paths /\ r \in Paths /\ Len(q) < Len(p) /\ Len(r) < Len(p)
      /\ IsPrefix(q, p) /\ IsPrefix(r, p)
  BY AboveIsShorter DEF Above, IsStrictPrefix
<1>2. Len(p) \in Nat /\ Len(q) \in Nat /\ Len(r) \in Nat
  BY <1>1, PathsAre
<1>3. /\ \A i \in 1..Len(q) : q[i] = p[i]
      /\ \A i \in 1..Len(r) : r[i] = p[i]
  BY <1>1, PrefixIs
<1>4. CASE Len(q) <= Len(r)
  <2>1. IsPrefix(q, r)
    BY <1>1, <1>2, <1>3, <1>4, PrefixIs
  <2> QED
    BY <1>1, <2>1 DEF Above, IsStrictPrefix
<1>5. CASE Len(r) <= Len(q)
  <2>1. IsPrefix(r, q)
    BY <1>1, <1>2, <1>3, <1>5, PrefixIs
  <2> QED
    BY <1>1, <2>1 DEF Above, IsStrictPrefix
<1> QED
  BY <1>2, <1>4, <1>5

\* A path and the rest of a longer one below it are the longer one.
LEMMA Rejoined ==
  ASSUME NEW p \in Paths, NEW q \in Above(p)
  PROVE  q \o SubSeq(p, Len(q) + 1, Len(p)) = p
<1>1. /\ q \in Paths /\ Len(q) < Len(p) /\ IsPrefix(q, p)
  BY AboveIsShorter DEF Above, IsStrictPrefix
<1>2. /\ p \in Seq(STRING) /\ Len(p) \in Nat
      /\ q \in Seq(STRING) /\ Len(q) \in Nat
  BY <1>1, PathsAre
<1>3. \A i \in 1..Len(q) : q[i] = p[i]
  BY <1>1, PrefixIs
<1> DEFINE m == Len(q) + 1
           n == Len(p)
           rest == SubSeq(p, m, n)
<1>4. m \in Int /\ n \in Int /\ \A i \in m..n : p[i] \in STRING
  BY <1>2, ElementOfSeq
<1>5. /\ rest \in Seq(STRING) /\ Len(rest) = (IF m <= n THEN n - m + 1 ELSE 0)
      /\ \A i \in 1..(n - m + 1) : rest[i] = p[m + i - 1]
  <2> HIDE DEF m, n
  <2> QED
    BY <1>4, SubSeqProperties
<1>6. Len(rest) = Len(p) - Len(q) /\ \A i \in 1..Len(rest) : rest[i] = p[Len(q) + i]
  <2> HIDE DEF rest
  <2> QED
    BY <1>1, <1>2, <1>5
<1> DEFINE both == q \o rest
<1> HIDE DEF rest
<1>7. /\ both \in Seq(STRING) /\ Len(both) = Len(q) + Len(rest)
      /\ \A i \in 1..(Len(q) + Len(rest)) :
           both[i] = IF i <= Len(q) THEN q[i] ELSE rest[i - Len(q)]
  BY <1>2, <1>5, ConcatProperties
<1> HIDE DEF both
<1>8. Len(both) = Len(p) /\ \A i \in 1..Len(both) : both[i] = p[i]
  <2>1. Len(both) = Len(p)
    BY <1>2, <1>6, <1>7
  <2>2. ASSUME NEW i \in 1..Len(p), i <= Len(q) PROVE both[i] = p[i]
    BY <1>2, <1>3, <1>7, <2>1, <2>2
  <2>3. ASSUME NEW i \in 1..Len(p), ~(i <= Len(q)) PROVE both[i] = p[i]
    <3>1. i - Len(q) \in 1..Len(rest) /\ Len(q) + (i - Len(q)) = i
      BY <1>2, <1>6, <2>3
    <3>2. rest[i - Len(q)] = p[i]
      BY <1>6, <3>1
    <3> QED
      BY <1>7, <2>1, <2>3, <3>2
  <2> QED
    BY <2>1, <2>2, <2>3
<1>9. both = p
  BY <1>2, <1>7, <1>8, SeqEqual
<1> QED
  BY <1>9 DEF both, rest, m, n

-----------------------------------------------------------------------------
(* Nodes, and what the guest sees of a snapshot under an upper directory.  *)

Nodes == {Nothing, Dir, Link} \cup Files
Entries == Nodes \cup {Whiteout, Opaque}

LEMMA NodesDiffer ==
  /\ Nothing # Dir /\ Nothing # Link /\ Nothing # Whiteout /\ Nothing # Opaque
  /\ Dir # Link /\ Dir # Whiteout /\ Dir # Opaque
  /\ Link # Whiteout /\ Link # Opaque /\ Whiteout # Opaque
  /\ \A f \in Files : f \notin {Nothing, Dir, Link, Whiteout, Opaque}
  /\ \A f \in Entries : f.kind = "file" <=> f \in Files
  /\ \A f \in Entries : f.kind = "link" <=> f = Link
  /\ \A f \in Entries : f.kind = "none" <=> f = Nothing
BY DEF Nothing, Dir, Link, Whiteout, Opaque, Files, Entries, Nodes

\* Shows and Merged for any snapshot and any upper directory.
ShowsUnder(u, p) == \A q \in Above(p) : u[q] \in {Nothing, Dir}

Face(x) == IF x = Whiteout THEN Nothing ELSE IF x = Opaque THEN Dir ELSE x

Seen(s, u) ==
  [p \in Paths |-> IF u[p] # Nothing THEN Face(u[p])
                   ELSE IF ShowsUnder(u, p) THEN s[p] ELSE Nothing]

\* An entry of the upper has its parents there, and they are directories.
Stands(u) == \A p \in Paths : u[p] # Nothing => \A q \in Above(p) : u[q] \in {Dir, Opaque}

LEMMA MergedIsSeen == Merged = Seen(snap, upper)
BY NodesDiffer DEF Merged, Seen, Face, Lower, Shows, ShowsUnder

LEMMA SeenIsTree ==
  ASSUME NEW s, IsTree(s), NEW u, Stands(u)
  PROVE  IsTree(Seen(s, u))
<1> SUFFICES ASSUME NEW p \in Paths, Seen(s, u)[p] # Nothing, NEW q \in Above(p)
             PROVE  Seen(s, u)[q] = Dir
  BY DEF IsTree
<1>1. q \in Paths
  BY AboveIsShorter
<1>2. CASE u[p] # Nothing
  <2>1. u[q] \in {Dir, Opaque}
    BY <1>2 DEF Stands
  <2> QED
    BY <1>1, <2>1, NodesDiffer DEF Seen, Face
<1>3. CASE u[p] = Nothing
  <2>1. ShowsUnder(u, p) /\ s[p] # Nothing
    BY <1>3 DEF Seen
  <2>2. s[q] = Dir /\ u[q] \in {Nothing, Dir}
    BY <2>1 DEF IsTree, ShowsUnder
  <2>3. ShowsUnder(u, q)
    BY <1>1, <2>1, AboveIsTransitive DEF ShowsUnder
  <2> QED
    BY <1>1, <2>2, <2>3, NodesDiffer DEF Seen, Face
<1> QED
  BY <1>2, <1>3

\* Copying a directory up shows nobody anything else.
LEMMA CopyShowsTheSame ==
  ASSUME NEW s, NEW u, NEW w,
         \A p \in Paths : w[p] = u[p] \/ (u[p] = Nothing /\ w[p] = Dir /\ Seen(s, u)[p] = Dir)
  PROVE  Seen(s, w) = Seen(s, u) /\ \A p \in Paths : ShowsUnder(w, p) <=> ShowsUnder(u, p)
<1>1. ASSUME NEW p \in Paths PROVE ShowsUnder(w, p) <=> ShowsUnder(u, p)
  BY AboveIsShorter, NodesDiffer DEF ShowsUnder
<1>2. ASSUME NEW p \in Paths PROVE Seen(s, w)[p] = Seen(s, u)[p]
  BY <1>1, NodesDiffer DEF Seen, Face
<1> QED
  BY <1>1, <1>2 DEF Seen

\* What is put in the place of p and all below it shows there, and the snapshot
\* does not shine through.
LEMMA PutShows ==
  ASSUME NEW s, IsTree(s), NEW u, NEW p \in Paths, NEW x,
         x \in {Nothing, Dir} /\ ShowsUnder(u, p) => s[p] # Dir,
         x = Nothing /\ ShowsUnder(u, p) => s[p] = Nothing
  PROVE  /\ Seen(s, Put(Without(u, p), p, x)) = Put(Without(Seen(s, u), p), p, Face(x))
         /\ \A r \in Paths \ Below(p) :
              ShowsUnder(Put(Without(u, p), p, x), r) <=> ShowsUnder(u, r)
<1> DEFINE w == Put(Without(u, p), p, x)
           y == Put(Without(Seen(s, u), p), p, Face(x))
<1>1. \A r \in Paths : w[r] = IF r = p THEN x ELSE IF r \in Below(p) THEN Nothing ELSE u[r]
  BY DEF Put, Without
<1>2. \A r \in Paths : y[r] = IF r = p THEN Face(x)
                              ELSE IF r \in Below(p) THEN Nothing ELSE Seen(s, u)[r]
  BY DEF Put, Without
<1>3. DOMAIN y = Paths /\ y = [r \in Paths |-> y[r]]
  BY DEF Put, Without
<1> HIDE DEF w, y
<1>4. ASSUME NEW r \in Paths, r \notin Below(p)
      PROVE  /\ ShowsUnder(w, r) <=> ShowsUnder(u, r)
             /\ \A q \in Above(r) : q \in Paths /\ w[q] = u[q]
  <2>1. ASSUME NEW q \in Above(r) PROVE q \in Paths /\ q # p /\ q \notin Below(p)
    <3>1. q \in Paths
      BY AboveIsShorter
    <3>2. p \notin Above(r)
      BY <1>4, AboveIsShorter
    <3>3. p \notin Above(q)
      BY <2>1, <3>1, <3>2, AboveIsTransitive
    <3> QED
      BY <3>1, <3>2, <3>3 DEF Above, Below
  <2> QED
    BY <1>1, <2>1 DEF ShowsUnder
<1>5. ASSUME NEW r \in Paths, r \notin Below(p), r # p PROVE Seen(s, w)[r] = y[r]
  BY <1>1, <1>2, <1>4, <1>5 DEF Seen
<1>6. Seen(s, w)[p] = y[p]
  <2>1. p \notin Below(p)
    BY DEF Below, IsStrictPrefix
  <2>2. ShowsUnder(w, p) <=> ShowsUnder(u, p)
    BY <1>4, <2>1
  <2> QED
    BY <1>1, <1>2, <2>2, NodesDiffer DEF Seen, Face
<1>7. ASSUME NEW r \in Below(p) PROVE Seen(s, w)[r] = y[r]
  <2>1. r \in Paths /\ p \in Above(r) /\ r # p
    BY DEF Below, Above, IsStrictPrefix
  <2>2. y[r] = Nothing /\ w[r] = Nothing /\ w[p] = x
    BY <1>1, <1>2, <2>1
  <2>3. ShowsUnder(w, r) => s[r] = Nothing
    <3> SUFFICES ASSUME ShowsUnder(w, r) PROVE s[r] = Nothing
      OBVIOUS
    <3>1. x \in {Nothing, Dir}
      BY <2>1, <2>2 DEF ShowsUnder
    <3>2. ShowsUnder(w, p)
      BY <2>1, AboveIsTransitive DEF ShowsUnder
    <3>3. ShowsUnder(u, p)
      BY <1>4, <3>2 DEF Below, IsStrictPrefix
    <3> QED
      BY <2>1, <3>1, <3>3 DEF IsTree
  <2> QED
    BY <2>1, <2>2, <2>3 DEF Seen
<1>8. ASSUME NEW r \in Paths PROVE Seen(s, w)[r] = y[r]
  BY <1>5, <1>6, <1>7
<1>9. Seen(s, w) = y
  BY <1>3, <1>8 DEF Seen
<1> QED
  BY <1>4, <1>9 DEF w, y

-----------------------------------------------------------------------------
(* The invariant.                                                          *)

Typed ==
  /\ ignored \in Ignoring
  /\ snap \in [Paths -> Nodes] /\ upper \in [Paths -> Entries]

\* A directory that is copied up, or made where the snapshot has nothing, does not
\* stand in the place of a file or of a link that would show through.
Copied(s, u) ==
  \A p \in Paths : u[p] = Dir /\ ShowsUnder(u, p) => s[p] \in {Dir, Nothing}

Layered == Typed /\ IsTree(snap) /\ Stands(upper) /\ Copied(snap, upper)

LEMMA PutStands ==
  ASSUME NEW u, Stands(u), NEW p \in Paths, NEW x,
         x # Nothing => \A q \in Above(p) : u[q] \in {Dir, Opaque}
  PROVE  Stands(Put(Without(u, p), p, x))
<1> DEFINE w == Put(Without(u, p), p, x)
<1>1. \A r \in Paths : w[r] = IF r = p THEN x ELSE IF r \in Below(p) THEN Nothing ELSE u[r]
  BY DEF Put, Without
<1> HIDE DEF w
<1> SUFFICES ASSUME NEW r \in Paths, w[r] # Nothing, NEW q \in Above(r)
             PROVE  w[q] \in {Dir, Opaque}
  BY DEF Stands, w
<1>2. q \in Paths /\ r \notin Above(r) /\ r \notin Above(q)
  BY AboveIsShorter
<1>3. CASE r = p
  <2>1. q # p /\ q \notin Below(p)
    BY <1>2, <1>3, AboveIsShorter DEF Above, Below
  <2> QED
    BY <1>1, <1>2, <1>3, <2>1
<1>4. CASE r # p
  <2>1. r \notin Below(p) /\ u[r] # Nothing
    BY <1>1, <1>4
  <2>2. p \notin Above(r)
    BY <2>1, AboveIsShorter
  <2>3. q # p /\ q \notin Below(p)
    BY <1>2, <2>2, AboveIsTransitive DEF Above, Below
  <2> QED
    BY <1>1, <1>2, <2>1, <2>3 DEF Stands
<1> QED
  BY <1>3, <1>4

\* What a change starts from: the upper with the parents of p copied up.
LEMMA CopiedUpIs ==
  ASSUME Layered, NEW p \in Paths, Room(Merged, p)
  PROVE  /\ CopiedUp(p) \in [Paths -> Entries]
         /\ Stands(CopiedUp(p)) /\ Copied(snap, CopiedUp(p))
         /\ Seen(snap, CopiedUp(p)) = Merged
         /\ \A q \in Above(p) : CopiedUp(p)[q] \in {Dir, Opaque}
         /\ ShowsUnder(CopiedUp(p), p) <=> Shows(p)
<1> DEFINE u == CopiedUp(p)
<1>1. \A r \in Paths : u[r] = IF r \in Above(p) /\ upper[r] = Nothing THEN Dir ELSE upper[r]
  BY DEF CopiedUp
<1>2. CopiedUp(p) \in [Paths -> Entries]
  BY DEF CopiedUp, Layered, Typed, Entries, Nodes
<1> HIDE DEF u
<1>3. \A q \in Above(p) : q \in Paths /\ Seen(snap, upper)[q] = Dir
  BY MergedIsSeen, AboveIsShorter DEF Room
<1>4. /\ Seen(snap, u) = Seen(snap, upper)
      /\ \A r \in Paths : ShowsUnder(u, r) <=> ShowsUnder(upper, r)
  <2>1. \A r \in Paths : \/ u[r] = upper[r]
                         \/ upper[r] = Nothing /\ u[r] = Dir /\ Seen(snap, upper)[r] = Dir
    BY <1>1, <1>3
  <2> QED
    BY <2>1, CopyShowsTheSame
<1>5. ASSUME NEW q \in Above(p) PROVE u[q] \in {Dir, Opaque}
  <2>1. upper[q] # Nothing => upper[q] \in {Dir, Opaque}
    <3> SUFFICES ASSUME upper[q] # Nothing PROVE upper[q] \in {Dir, Opaque}
      OBVIOUS
    <3>1. Face(upper[q]) = Dir
      BY <1>3 DEF Seen
    <3> QED
      BY <3>1, NodesDiffer DEF Face
  <2> QED
    BY <1>1, <1>3, <2>1
<1>6. Stands(u)
  <2> SUFFICES ASSUME NEW r \in Paths, u[r] # Nothing, NEW q \in Above(r)
               PROVE  u[q] \in {Dir, Opaque}
    BY DEF Stands
  <2>1. q \in Paths
    BY AboveIsShorter
  <2>2. CASE r \in Above(p)
    BY <1>5, <2>2, AboveIsTransitive
  <2>3. CASE r \notin Above(p)
    <3>1. upper[q] \in {Dir, Opaque}
      BY <1>1, <2>3 DEF Layered, Stands
    <3> QED
      BY <1>1, <2>1, <3>1, NodesDiffer
  <2> QED
    BY <2>2, <2>3
<1>7. Copied(snap, u)
  <2> SUFFICES ASSUME NEW r \in Paths, u[r] = Dir, ShowsUnder(u, r)
               PROVE  snap[r] \in {Dir, Nothing}
    BY DEF Copied
  <2>1. ShowsUnder(upper, r)
    BY <1>4
  <2>2. CASE upper[r] = Dir
    BY <2>1, <2>2 DEF Layered, Copied
  <2>3. CASE upper[r] # Dir
    <3>1. upper[r] = Nothing /\ Seen(snap, upper)[r] = Dir
      BY <1>1, <1>3, <2>3
    <3> QED
      BY <2>1, <3>1 DEF Seen
  <2> QED
    BY <2>2, <2>3
<1> QED
  BY <1>2, <1>4, <1>5, <1>6, <1>7, MergedIsSeen DEF u, Shows, ShowsUnder

\* Every change puts an entry in the place of p and of all that is below it.
LEMMA Placed ==
  ASSUME Layered, NEW p \in Paths, Room(Merged, p), NEW x \in Entries,
         x \in {Nothing, Dir} => Lower(p) = Nothing,
         upper' = Put(Without(CopiedUp(p), p), p, x), UNCHANGED <<ignored, snap>>
  PROVE  Layered' /\ Merged' = Put(Without(Merged, p), p, Face(x))
<1> DEFINE u == CopiedUp(p)
<1>1. /\ u \in [Paths -> Entries] /\ Stands(u) /\ Copied(snap, u)
      /\ Seen(snap, u) = Merged
      /\ \A q \in Above(p) : u[q] \in {Dir, Opaque}
      /\ ShowsUnder(u, p) <=> Shows(p)
  BY CopiedUpIs
<1> HIDE DEF u
<1>2. x \in {Nothing, Dir} /\ ShowsUnder(u, p) => snap[p] = Nothing
  BY <1>1 DEF Lower
<1>3. x \in {Nothing, Dir} /\ ShowsUnder(u, p) => snap[p] # Dir
  BY <1>2, NodesDiffer
<1>4. IsTree(snap)
  BY DEF Layered
<1> DEFINE w == Put(Without(u, p), p, x)
<1>5. upper' = w
  BY DEF u
<1>6. /\ Seen(snap, w) = Put(Without(Seen(snap, u), p), p, Face(x))
      /\ \A r \in Paths \ Below(p) : ShowsUnder(w, r) <=> ShowsUnder(u, r)
  BY <1>2, <1>3, <1>4, PutShows
<1>7. Stands(w)
  BY <1>1, PutStands
<1>8. \A r \in Paths : w[r] = IF r = p THEN x ELSE IF r \in Below(p) THEN Nothing ELSE u[r]
  BY DEF Put, Without
<1>9. w \in [Paths -> Entries]
  BY <1>1 DEF Put, Without, Entries, Nodes
<1> HIDE DEF w
<1>10. Copied(snap, w)
  <2> SUFFICES ASSUME NEW r \in Paths, w[r] = Dir, ShowsUnder(w, r)
               PROVE  snap[r] \in {Dir, Nothing}
    BY DEF Copied
  <2>1. r = p \/ (r \notin Below(p) /\ u[r] = Dir)
    BY <1>8, NodesDiffer
  <2>2. ShowsUnder(u, r)
    BY <1>6, <2>1 DEF Below, IsStrictPrefix
  <2> QED
    BY <1>1, <1>2, <1>8, <2>1, <2>2 DEF Copied
<1>11. Merged' = Seen(snap, w)
  <2>1. (Merged = Seen(snap, upper))'
    BY MergedIsSeen, PTL
  <2> QED
    BY <1>5, <2>1 DEF Seen, ShowsUnder
<1> QED
  BY <1>1, <1>4, <1>5, <1>6, <1>7, <1>9, <1>10, <1>11
     DEF Layered, Typed, Stands, Copied, ShowsUnder

-----------------------------------------------------------------------------
(* The changes.                                                            *)

\* The two modules speak of the same trees.
LEMMA SameTrees ==
  /\ Scan!Files = Files /\ Scan!Link = Link /\ Scan!Dir = Dir /\ Scan!Nothing = Nothing
  /\ Scan!Empty = Empty /\ Scan!PushTrees = PushTrees
  /\ \A t, p, x : Scan!Put(t, p, x) = Put(t, p, x)
  /\ \A t, p : /\ Scan!CanWrite(t, p) <=> CanWrite(t, p)
               /\ Scan!CanLink(t, p) <=> CanLink(t, p)
               /\ Scan!CanMake(t, p) <=> CanMake(t, p)
               /\ Scan!CanUnlink(t, p) <=> CanUnlink(t, p)
               /\ Scan!CanRmdir(t, p) <=> CanRmdir(t, p)
<1>1. /\ Scan!Files = Files /\ Scan!Link = Link /\ Scan!Dir = Dir /\ Scan!Nothing = Nothing
      /\ Scan!Empty = Empty
      /\ \A p : Scan!Above(p) = Above(p) /\ Scan!Below(p) = Below(p)
  BY DEF Scan!Files, Files, Scan!Link, Link, Scan!Dir, Dir, Scan!Nothing, Nothing,
     Scan!Empty, Empty, Scan!Above, Above, Scan!Below, Below, Scan!IsStrictPrefix,
     IsStrictPrefix, Scan!IsPrefix, IsPrefix
<1>2. Scan!PushTrees = PushTrees
  BY <1>1 DEF Scan!PushTrees, PushTrees, Scan!IsTree, IsTree
<1> QED
  BY <1>1, <1>2 DEF Scan!Put, Put, Scan!CanWrite, CanWrite, Scan!CanLink, CanLink,
     Scan!CanMake, CanMake, Scan!CanUnlink, CanUnlink, Scan!CanRmdir, CanRmdir,
     Scan!Room, Room

LEMMA NothingBelow ==
  ASSUME Layered, NEW p \in Paths, Merged[p] # Dir, NEW r \in Below(p)
  PROVE  CopiedUp(p)[r] = Nothing /\ Merged[r] = Nothing
<1>1. r \in Paths /\ p \in Above(r)
  BY DEF Below, Above
<1>2. r \notin Above(p)
  BY <1>1, AboveIsShorter
<1>3. IsTree(Merged)
  BY MergedIsSeen, SeenIsTree DEF Layered
<1>4. Merged[r] = Nothing
  BY <1>1, <1>3 DEF IsTree
<1>5. upper[r] = Nothing
  <2> SUFFICES ASSUME upper[p] \in {Dir, Opaque} PROVE FALSE
    BY <1>1 DEF Layered, Stands
  <2> QED
    BY MergedIsSeen, NodesDiffer DEF Seen, Face
<1> QED
  BY <1>1, <1>2, <1>4, <1>5 DEF CopiedUp

\* Where nothing is below, nothing below is lost.
LEMMA PutAlone ==
  ASSUME NEW t, t = [r \in Paths |-> t[r]], NEW p \in Paths, NEW x,
         \A r \in Below(p) : t[r] = Nothing
  PROVE  Put(Without(t, p), p, x) = Put(t, p, x)
<1>1. \A r \in Paths : Put(Without(t, p), p, x)[r] = Put(t, p, x)[r]
  BY DEF Put, Without
<1> QED
  BY <1>1 DEF Put, Without

LEMMA ChangeStep ==
  ASSUME Layered, NEW p \in Paths, Change(p)
  PROVE  Layered' /\ Scan!Change
<1>1. Merged = [r \in Paths |-> Merged[r]] /\ CopiedUp(p) = [r \in Paths |-> CopiedUp(p)[r]]
  BY DEF Merged, CopiedUp
<1>2. UNCHANGED <<ignored, snap>>
  BY DEF Change, WriteFile, MakeLink, MakeDir, Delete, Into
<1>3. IsTree(Merged)
  BY MergedIsSeen, SeenIsTree DEF Layered
\* A change that adds a node.
<1>4. ASSUME NEW x \in Entries, Into(p, x), Room(Merged, p), Merged[p] # Dir,
             x \in {Nothing, Dir} => Lower(p) = Nothing
      PROVE  Layered' /\ Merged' = Put(Merged, p, Face(x))
  <2>1. Put(Without(CopiedUp(p), p), p, x) = Put(CopiedUp(p), p, x)
    BY <1>1, <1>4, NothingBelow, PutAlone
  <2>2. upper' = Put(Without(CopiedUp(p), p), p, x)
    BY <1>4, <2>1 DEF Into
  <2>3. Layered' /\ Merged' = Put(Without(Merged, p), p, Face(x))
    BY <1>2, <1>4, <2>2, Placed
  <2>4. Put(Without(Merged, p), p, Face(x)) = Put(Merged, p, Face(x))
    BY <1>1, <1>4, NothingBelow, PutAlone
  <2> QED
    BY <2>3, <2>4
<1>5. CASE WriteFile(p)
  <2>1. PICK f \in Files : Into(p, f)
    BY <1>5 DEF WriteFile
  <2>2. CanWrite(Merged, p) /\ Room(Merged, p) /\ Merged[p] # Dir
    BY <1>5 DEF WriteFile, CanWrite, Dir
  <2>3. f \in Entries /\ f \notin {Nothing, Dir} /\ Face(f) = f
    BY NodesDiffer DEF Entries, Nodes, Face
  <2>4. Layered' /\ Merged' = Put(Merged, p, f)
    BY <1>4, <2>1, <2>2, <2>3
  <2> QED
    BY <1>2, <2>2, <2>4, SameTrees DEF Scan!Change
<1>6. CASE MakeLink(p)
  <2>1. CanLink(Merged, p) /\ Room(Merged, p) /\ Merged[p] = Nothing /\ Into(p, Link)
    BY <1>6 DEF MakeLink, CanLink
  <2>2. Link \in Entries /\ Link \notin {Nothing, Dir} /\ Face(Link) = Link
    BY NodesDiffer DEF Entries, Nodes, Face
  <2>3. Layered' /\ Merged' = Put(Merged, p, Link)
    BY <1>4, <2>1, <2>2, NodesDiffer
  <2> QED
    BY <1>2, <2>1, <2>3, SameTrees DEF Scan!Change
<1>7. CASE MakeDir(p)
  <2>1. CanMake(Merged, p) /\ Room(Merged, p) /\ Merged[p] = Nothing
    BY <1>7 DEF MakeDir, CanMake
  <2>2. PICK x \in {Dir, Opaque} : Into(p, x) /\ (x = Dir => upper[p] # Whiteout)
    BY <1>7, NodesDiffer DEF MakeDir
  <2>3. x \in Entries /\ x # Nothing /\ Face(x) = Dir
    BY NodesDiffer DEF Entries, Nodes, Face
  <2>4. x = Dir => Lower(p) = Nothing
    <3> SUFFICES ASSUME upper[p] # Whiteout PROVE Lower(p) = Nothing
      BY <2>2
    <3>1. upper[p] = Nothing
      BY <2>1, MergedIsSeen, NodesDiffer DEF Seen, Face
    <3> QED
      BY <2>1, <3>1, NodesDiffer DEF Merged
  <2>5. Layered' /\ Merged' = Put(Merged, p, Dir)
    BY <1>4, <2>1, <2>2, <2>3, <2>4, NodesDiffer
  <2> QED
    BY <1>2, <2>1, <2>5, SameTrees DEF Scan!Change
<1>8. CASE Delete(p)
  <2>1. CanUnlink(Merged, p) \/ CanRmdir(Merged, p)
    BY <1>8 DEF Delete
  <2>2. Merged[p] # Nothing
    BY <2>1 DEF CanUnlink, CanRmdir, Nothing, Dir
  <2>3. Room(Merged, p)
    BY <1>3, <2>2 DEF IsTree, Room
  <2>4. \A r \in Below(p) : Merged[r] = Nothing
    <3>1. CASE CanUnlink(Merged, p)
      BY <3>1, NothingBelow DEF CanUnlink, Dir
    <3>2. CASE CanRmdir(Merged, p)
      BY <3>2 DEF CanRmdir
    <3> QED
      BY <2>1, <3>1, <3>2
  <2>5. /\ Removed(p) \in Entries /\ Face(Removed(p)) = Nothing
        /\ Removed(p) \in {Nothing, Dir} => Lower(p) = Nothing
    BY NodesDiffer DEF Removed, Entries, Nodes, Face
  <2>6. Layered' /\ Merged' = Put(Without(Merged, p), p, Nothing)
    BY <1>2, <1>8, <2>3, <2>5, Placed DEF Delete
  <2>7. Merged' = Put(Merged, p, Nothing)
    BY <1>1, <2>4, <2>6, PutAlone
  <2> QED
    BY <1>2, <2>1, <2>6, <2>7, SameTrees DEF Scan!Change
<1> QED
  BY <1>5, <1>6, <1>7, <1>8 DEF Change

-----------------------------------------------------------------------------
(* The replay.                                                             *)

\* The upper as far as a walk has come.
Come(walk, n) ==
  [p \in Paths |-> IF \E i \in 1..n : walk[i] = p THEN upper[p] ELSE Nothing]

LEMMA EntryIs ==
  ASSUME Layered, NEW t, NEW p \in Paths
  PROVE  ReplayEntry(t, p) =
           IF upper[p] = Nothing \/ (upper[p] = Dir /\ t[p] = Dir) THEN t
           ELSE IF upper[p] = Whiteout THEN Without(t, p)
           ELSE Put(Without(t, p), p, Face(upper[p]))
BY NodesDiffer DEF ReplayEntry, Face

\* Replaying one more entry gives what would be seen under an upper with that entry.
LEMMA EntryFolds ==
  ASSUME Layered, NEW p \in Paths, NEW u, u = [r \in Paths |-> u[r]], u[p] = Nothing,
         \A r \in Below(p) : u[r] = Nothing
  PROVE  ReplayEntry(Seen(snap, u), p) = Seen(snap, [u EXCEPT ![p] = upper[p]])
<1> DEFINE x == upper[p]
           w == [u EXCEPT ![p] = x]
           t == Seen(snap, u)
<1>1. p \notin Below(p)
  BY DEF Below, IsStrictPrefix
<1>2. w = Put(Without(u, p), p, x) /\ Without(u, p) = u
  <2>1. \A r \in Paths : Without(u, p)[r] = u[r]
    BY DEF Without
  <2>2. Without(u, p) = u
    BY <2>1 DEF Without
  <2> QED
    BY <2>2 DEF Put
<1>3. t[p] = IF ShowsUnder(u, p) THEN snap[p] ELSE Nothing
  BY DEF Seen
<1>4. CASE x = Nothing
  <2>1. w = u
    BY <1>4
  <2> QED
    BY <1>4, <2>1, EntryIs
<1>5. CASE x = Dir /\ t[p] = Dir
  <2>1. \A r \in Paths : w[r] = u[r] \/ (u[r] = Nothing /\ w[r] = Dir /\ t[r] = Dir)
    BY <1>5
  <2>2. Seen(snap, w) = t
    BY <2>1, CopyShowsTheSame
  <2>3. ReplayEntry(t, p) = t
    BY <1>5, EntryIs
  <2> QED
    BY <2>2, <2>3
<1>6. CASE x # Nothing /\ ~(x = Dir /\ t[p] = Dir)
  <2>1. x \in {Nothing, Dir} /\ ShowsUnder(u, p) => snap[p] # Dir
    BY <1>3, <1>6
  <2>2. Seen(snap, w) = Put(Without(t, p), p, Face(x))
    BY <1>2, <1>6, <2>1, PutShows DEF Layered
  <2>3. CASE x = Whiteout
    <3>1. Put(Without(t, p), p, Nothing) = Without(t, p)
      BY DEF Put, Without
    <3>2. ReplayEntry(t, p) = Without(t, p) /\ Face(x) = Nothing
      BY <1>6, <2>3, EntryIs, NodesDiffer DEF Face
    <3> QED
      BY <2>2, <3>1, <3>2
  <2>4. CASE x # Whiteout
    BY <1>6, <2>2, <2>4, EntryIs
  <2> QED
    BY <2>3, <2>4
<1> QED
  BY <1>4, <1>5, <1>6

\* A set of numbers has a least one.
LEMMA NatLeast ==
  ASSUME NEW T, T \subseteq Nat, T # {}
  PROVE  \E m \in T : \A n \in T : m <= n
<1>1. PICK m \in T : \A n \in T : ~(n < m)
  <2>1. \E m \in T : \A n \in T : ~(<<n, m>> \in OpToRel(<, Nat))
    BY WFMin, NatLessThanWellFounded, Zenon
  <2>2. \A m, n \in Nat : n < m => <<n, m>> \in OpToRel(<, Nat)
    BY Zenon DEF OpToRel
  <2> QED
    BY <2>1, <2>2, Zenon
<1> QED
  BY <1>1

LEMMA WalksMeetOnce ==
  ASSUME NEW walk \in Walks, NEW i \in 1..Cardinality(Paths), NEW j \in 1..Cardinality(Paths),
         walk[i] = walk[j]
  PROVE  i = j
<1> DEFINE N == Cardinality(Paths)
<1>1. N \in Nat
  BY TreeParameters, FS_CardinalityType
<1>2. IsFiniteSet(1..N) /\ Cardinality(1..N) = N
  BY <1>1, FS_Interval
<1>3. walk \in Surjection(1..N, Paths)
  BY DEF Walks, Surjection
<1>4. walk \in Injection(1..N, Paths)
  BY <1>2, <1>3, FS_SurjSameCardinalityImpliesInj
<1> QED
  BY <1>4 DEF Injection, IsInjective

\* Each step of a walk meets a path it has not met, nor any path below it.
LEMMA WalkStep ==
  ASSUME Layered, NEW walk \in Walks, NEW n \in 1..Cardinality(Paths)
  PROVE  Seen(snap, Come(walk, n)) = ReplayEntry(Seen(snap, Come(walk, n - 1)), walk[n])
<1> DEFINE N == Cardinality(Paths)
           p == walk[n]
           u == Come(walk, n - 1)
<1>1. N \in Nat
  BY TreeParameters, FS_CardinalityType
<1>2. p \in Paths /\ DOMAIN walk = 1..N /\ n \in Nat
  BY <1>1 DEF Walks
<1>3. \A i, j \in 1..N : walk[i] \in Above(walk[j]) => i < j
  BY <1>2 DEF Walks
<1>4. \A r \in Below(p) : u[r] = Nothing
  <2> SUFFICES ASSUME NEW r \in Below(p), NEW i \in 1..(n - 1), walk[i] = r PROVE FALSE
    BY DEF Come, Below
  <2>1. i \in 1..N /\ n \in 1..N /\ i < n
    BY <1>1, <1>2
  <2>2. walk[n] \in Above(walk[i])
    BY <1>2 DEF Below, Above
  <2> QED
    BY <1>1, <1>3, <2>1, <2>2
<1>5. u[p] = Nothing
  <2> SUFFICES ASSUME NEW i \in 1..(n - 1), walk[i] = p PROVE FALSE
    BY <1>2 DEF Come
  <2> QED
    BY <1>1, <1>2, WalksMeetOnce
<1>6. Come(walk, n) = [u EXCEPT ![p] = upper[p]]
  <2>1. ASSUME NEW r \in Paths PROVE Come(walk, n)[r] = [u EXCEPT ![p] = upper[p]][r]
    <3>1. (\E i \in 1..n : walk[i] = r) <=> (r = p \/ \E i \in 1..(n - 1) : walk[i] = r)
      BY <1>2
    <3> QED
      BY <1>2, <3>1 DEF Come
  <2> QED
    BY <2>1 DEF Come
<1>7. u = [r \in Paths |-> u[r]]
  BY DEF Come
<1> HIDE DEF u, p
<1>8. ReplayEntry(Seen(snap, u), p) = Seen(snap, [u EXCEPT ![p] = upper[p]])
  BY <1>2, <1>4, <1>5, <1>7, EntryFolds
<1> QED
  BY <1>6, <1>8 DEF u, p

\* A replay, whatever the order of the walk, leaves what the guest saw.
LEMMA ReplayedIsMerged ==
  ASSUME Layered, NEW walk \in Walks
  PROVE  Replayed(walk) = Merged
<1> DEFINE N == Cardinality(Paths)
           Steps(f) == [n \in 0..N |-> IF n = 0 THEN snap ELSE ReplayEntry(f[n - 1], walk[n])]
           g == [n \in 0..N |-> Seen(snap, Come(walk, n))]
           tree == CHOOSE f : f = Steps(f)
<1>1. N \in Nat
  BY TreeParameters, FS_CardinalityType
<1>2. Seen(snap, Come(walk, 0)) = snap
  <2>1. \A p \in Paths : Come(walk, 0)[p] = Nothing
    BY DEF Come
  <2>2. \A p \in Paths : ShowsUnder(Come(walk, 0), p)
    BY <2>1, AboveIsShorter DEF ShowsUnder
  <2>3. \A p \in Paths : Seen(snap, Come(walk, 0))[p] = snap[p]
    BY <2>1, <2>2 DEF Seen
  <2> QED
    BY <2>3 DEF Seen, Layered, Typed
<1>3. Seen(snap, Come(walk, N)) = Merged
  <2>1. \A p \in Paths : \E i \in 1..N : walk[i] = p
    BY DEF Walks
  <2>2. \A p \in Paths : Come(walk, N)[p] = upper[p]
    BY <2>1 DEF Come
  <2>3. Come(walk, N) = upper
    BY <2>2 DEF Come, Layered, Typed
  <2> QED
    BY <2>3, MergedIsSeen
<1>4. g = Steps(g)
  <2>1. ASSUME NEW n \in 0..N PROVE g[n] = Steps(g)[n]
    <3>1. CASE n = 0
      BY <1>2, <3>1
    <3>2. CASE n # 0
      <4>1. n \in 1..N /\ n - 1 \in 0..N
        BY <1>1, <3>2
      <4>2. Seen(snap, Come(walk, n)) = ReplayEntry(Seen(snap, Come(walk, n - 1)), walk[n])
        BY <4>1, WalkStep
      <4> QED
        BY <3>2, <4>1, <4>2
    <3> QED
      BY <3>1, <3>2
  <2> QED
    BY <2>1
<1>5. tree = Steps(tree)
  <2> HIDE DEF g, Steps
  <2> QED
    BY <1>4
<1>6. \A n \in 0..N : tree[n] = g[n]
  <2> DEFINE Bad == {n \in 0..N : tree[n] # g[n]}
  <2> SUFFICES ASSUME Bad # {} PROVE FALSE
    OBVIOUS
  <2>1. PICK m \in Bad : \A n \in Bad : m <= n
    <3>1. Bad \subseteq Nat
      BY <1>1
    <3> HIDE DEF Bad
    <3> QED
      BY <3>1, NatLeast
  <2>2. \A n \in 0..N :
          /\ tree[n] = IF n = 0 THEN snap ELSE ReplayEntry(tree[n - 1], walk[n])
          /\ g[n] = IF n = 0 THEN snap ELSE ReplayEntry(g[n - 1], walk[n])
    <3> HIDE DEF tree, g
    <3> QED
      BY <1>4, <1>5
  <2> HIDE DEF tree, g
  <2>3. m \in 0..N /\ m # 0
    BY <2>2
  <2>4. m - 1 \in 0..N /\ ~(m <= m - 1)
    BY <1>1, <2>3
  <2>5. tree[m - 1] = g[m - 1]
    BY <2>1, <2>4
  <2> QED
    BY <2>2, <2>3, <2>5
<1>7. Replayed(walk) = tree[N]
  BY DEF Replayed
<1> HIDE DEF tree
<1>8. tree[N] = Seen(snap, Come(walk, N))
  BY <1>1, <1>6
<1> QED
  BY <1>3, <1>7, <1>8

-----------------------------------------------------------------------------
(* The stage.                                                              *)

\* Under an empty upper the guest sees the snapshot.
LEMMA NothingOver ==
  ASSUME NEW s \in [Paths -> Nodes]
  PROVE  Seen(s, Empty) = s /\ Stands(Empty) /\ Copied(s, Empty) /\ Empty \in [Paths -> Nodes]
<1>1. \A p \in Paths : Empty[p] = Nothing
  BY DEF Empty
<1>2. \A p \in Paths : ShowsUnder(Empty, p)
  BY <1>1, AboveIsShorter DEF ShowsUnder
<1>3. \A p \in Paths : Seen(s, Empty)[p] = s[p]
  BY <1>1, <1>2 DEF Seen
<1>4. Seen(s, Empty) = s
  BY <1>3 DEF Seen
<1> QED
  BY <1>1, <1>4, NodesDiffer DEF Stands, Copied, Empty, Nodes

LEMMA LayeredInit == Init => Layered /\ Scan!Init
<1> SUFFICES ASSUME Init PROVE Layered /\ Scan!Init
  OBVIOUS
<1>1. Empty \in [Paths -> Nodes] /\ Seen(Empty, Empty) = Empty /\ Stands(Empty)
      /\ Copied(Empty, Empty)
  <2>1. Empty \in [Paths -> Nodes]
    BY DEF Empty, Nodes
  <2> QED
    BY <2>1, NothingOver
<1>2. IsTree(Empty)
  BY DEF IsTree, Empty
<1>3. Merged = Empty
  BY <1>1, MergedIsSeen DEF Init
<1> QED
  BY <1>1, <1>2, <1>3, SameTrees DEF Init, Layered, Typed, Entries, Scan!Init

\* An operation that ends with a tree of its own under an empty upper.
LEMMA Afresh ==
  ASSUME NEW s \in [Paths -> Nodes], IsTree(s), Layered,
         snap' = s, upper' = Empty, UNCHANGED ignored
  PROVE  Layered' /\ Merged' = s
<1>1. Seen(s, Empty) = s /\ Stands(Empty) /\ Copied(s, Empty) /\ Empty \in [Paths -> Nodes]
  BY NothingOver
<1>2. (Merged = Seen(snap, upper))'
  BY MergedIsSeen, PTL
<1>3. Merged' = s
  BY <1>1, <1>2 DEF Seen, ShowsUnder
<1> QED
  BY <1>1, <1>3 DEF Layered, Typed, Entries, IsTree, Stands, Copied, ShowsUnder

LEMMA LayeredStep ==
  ASSUME Layered, [Next]_vars
  PROVE  Layered' /\ [Scan!Next]_(Scan!vars)
<1>1. Merged = Seen(snap, upper) /\ IsTree(Merged) /\ Merged \in [Paths -> Nodes]
  <2>1. Merged = Seen(snap, upper) /\ IsTree(Merged)
    BY MergedIsSeen, SeenIsTree DEF Layered
  <2>2. \A p \in Paths : Seen(snap, upper)[p] \in Nodes
    BY NodesDiffer DEF Seen, Face, Layered, Typed, Entries, Nodes
  <2> QED
    BY <2>1, <2>2 DEF Seen
<1>2. CASE Push
  <2>1. snap' \in [Paths -> Nodes] /\ IsTree(snap') /\ snap' \in PushTrees
    BY <1>2 DEF Push, PushTrees, Nodes
  <2>2. Layered' /\ Merged' = snap'
    BY <1>2, <2>1, Afresh DEF Push
  <2> QED
    BY <2>1, <2>2, SameTrees DEF Scan!Next, Scan!Push
<1>3. CASE Rebase
  <2>1. snap' = Merged
    BY <1>3, ReplayedIsMerged DEF Rebase
  <2>2. Layered' /\ Merged' = Merged
    BY <1>1, <1>3, <2>1, Afresh DEF Rebase
  <2> QED
    BY <2>1, <2>2 DEF Scan!Next, Scan!Rebase
<1>4. CASE Reset
  <2>1. snap \in [Paths -> Nodes] /\ IsTree(snap)
    BY DEF Layered, Typed
  <2>2. Layered' /\ Merged' = snap /\ snap' = snap
    BY <1>4, <2>1, Afresh DEF Reset
  <2> QED
    BY <2>2 DEF Scan!Next, Scan!Reset
<1>5. CASE Clear
  <2>1. Empty \in [Paths -> Nodes] /\ IsTree(Empty)
    BY DEF Empty, Nodes, IsTree
  <2>2. Layered' /\ Merged' = Empty
    BY <1>5, <2>1, Afresh DEF Clear
  <2> QED
    BY <1>5, <2>2, SameTrees DEF Clear, Scan!Next, Scan!Clear
<1>6. ASSUME NEW p \in Paths, Change(p) PROVE Layered' /\ Scan!Next
  BY <1>6, ChangeStep DEF Scan!Next
<1>7. CASE UNCHANGED vars
  <2>1. (Merged = Seen(snap, upper))'
    BY MergedIsSeen, PTL
  <2>2. Merged' = Merged
    BY <1>1, <1>7, <2>1 DEF Seen, ShowsUnder, vars
  <2> QED
    BY <1>7, <2>2 DEF vars, Layered, Typed, IsTree, Stands, Copied, ShowsUnder, Scan!vars
<1> QED
  BY <1>2, <1>3, <1>4, <1>5, <1>6, <1>7 DEF Next

\* An entry of the upper stands under directories of the upper, the snapshot is a tree,
\* and a directory that was copied up hides no file: what every change of the
\* guest and every operation of the stage leaves true of the two directories.
THEOREM LayersStand == Spec => []Layered
<1> QED
  BY LayeredInit, LayeredStep, PTL DEF Spec

\* The overlay is a staging like the one with two trees: whatever the order in which
\* a rebase's walk meets the upper, it moves the baseline up to what the guest sees
\* and changes nothing for the guest (OverlayStage against ScanStage).
THEOREM OverlayIsStaging == Spec => ImplementsScan
<1> QED
  BY LayeredInit, LayeredStep, PTL DEF Spec, ImplementsScan, Scan!Spec

-----------------------------------------------------------------------------
(* The harvest.                                                            *)

Regular == Layered /\ ~ReplacesLink /\ ~IgnoredChanges

\* Where the upper has an entry, no lookup in the snapshot goes through a link on its
\* way there, and it ends in one only where the snapshot has that link itself.
LEMMA LookupsAreDirect ==
  ASSUME Regular, NEW p \in Paths, upper[p] # Nothing
  PROVE  /\ IsLink(p) <=> snap[p] = Link
         /\ snap[p] # Link => /\ Followed(p) = p /\ At(Followed(p)) = snap[p]
                              /\ IsFile(p) <=> snap[p] \in Files
                              /\ IsDir(p) <=> snap[p] = Dir
<1>1. ASSUME NEW q \in Above(p) PROVE snap[q] # Link
  <2>1. q \in Paths /\ upper[q] \in {Dir, Opaque}
    BY AboveIsShorter DEF Regular, Layered, Stands
  <2>2. Merged[q] = Dir
    BY <2>1, MergedIsSeen, NodesDiffer DEF Seen, Face
  <2> QED
    BY <2>1, <2>2, NodesDiffer DEF Regular, ReplacesLink
<1>2. Real(p) = p
  BY <1>1 DEF Real
<1>3. snap[p] \in Nodes /\ snap[p] \in Entries
  BY DEF Regular, Layered, Typed, Entries
<1> QED
  BY <1>2, <1>3, NodesDiffer DEF IsLink, Followed, At, IsFile, IsDir

\* The snapshot's files below p that a scan does not ignore for a name below p.
Under(p) ==
  {q \in Below(p) : /\ snap[q] \in Files /\ Last(q) \notin ignored.files
                    /\ \A d \in Above(q) \cap Below(p) : Last(d) \notin ignored.dirs}

LEMMA FilesUnderAre ==
  ASSUME Regular, NEW p \in Paths, Followed(p) = p
  PROVE  FilesUnder(p) = Under(p)
<1> DEFINE found == {q \in Paths : /\ IsStrictPrefix(Followed(p), q)
                                  /\ snap[q].kind = "file" /\ Last(q) \notin ignored.files
                                  /\ \A d \in Above(q) : IsStrictPrefix(Followed(p), d)
                                                         => Last(d) \notin ignored.dirs}
<1>1. \A q \in Paths : snap[q].kind = "file" <=> snap[q] \in Files
  BY NodesDiffer DEF Regular, Layered, Typed, Entries
<1>2. \A q, d : d \in Above(q) /\ IsStrictPrefix(p, d) <=> d \in Above(q) \cap Below(p)
  BY DEF Above, Below
<1>3. found = Under(p)
  BY <1>1, <1>2 DEF Under, Below
<1>4. \A q \in Under(p) : p \o SubSeq(q, Len(Followed(p)) + 1, Len(q)) = q
  BY Rejoined DEF Under, Below, Above
<1>5. FilesUnder(p) = {p \o SubSeq(q, Len(Followed(p)) + 1, Len(q)) : q \in found}
  BY DEF FilesUnder
<1> HIDE DEF found
<1> QED
  BY <1>3, <1>4, <1>5

\* What is walked to a node is walked to all above it, and from a node that is walked
\* to and not ignored to what is under it.
LEMMA WalkedUnder ==
  ASSUME Regular, NEW p \in Paths, Walked(p, ignored), Last(p) \notin ignored.dirs,
         NEW q \in Under(p)
  PROVE  Walked(q, ignored)
<1> SUFFICES ASSUME NEW d \in Above(q) PROVE Last(d) \notin ignored.dirs
  BY DEF Walked
<1>1. q \in Paths /\ p \in Above(q) /\ d \in Paths
  BY AboveIsShorter DEF Under, Below, Above
<1>2. d = p \/ d \in Above(p) \/ d \in Below(p)
  BY <1>1, AboveIsLinear DEF Above, Below
<1> QED
  BY <1>2 DEF Walked, Under

LEMMA GuestSees ==
  ASSUME Regular, NEW p \in Paths
  PROVE  /\ Merged[p] = IF upper[p] # Nothing THEN Face(upper[p])
                        ELSE IF Shows(p) THEN snap[p] ELSE Nothing
         /\ Merged[p] \in Nodes /\ snap[p] \in Nodes /\ upper[p] \in Entries
         /\ Merged[p] \in Files <=> \/ upper[p] \in Files
                                    \/ upper[p] = Nothing /\ Shows(p) /\ snap[p] \in Files
         /\ Merged[p] \notin {Nothing, Link} => snap[p] # Link
         /\ upper[p] \in {Dir, Opaque} => Merged[p] = Dir
<1>1. Merged[p] = IF upper[p] # Nothing THEN Face(upper[p])
                  ELSE IF Shows(p) THEN snap[p] ELSE Nothing
  BY MergedIsSeen DEF Seen, Shows, ShowsUnder
<1>2. snap[p] \in Nodes /\ upper[p] \in Entries
  BY DEF Regular, Layered, Typed
<1>3. Merged[p] \notin {Nothing, Link} => snap[p] # Link
  BY DEF Regular, ReplacesLink
<1> QED
  BY <1>1, <1>2, <1>3, NodesDiffer DEF Face, Entries, Nodes

LEMMA WritesMatch ==
  ASSUME Regular
  PROVE  Writes = ScanWrites(Merged, snap, ignored)
<1>1. ASSUME NEW p \in Paths
      PROVE  p \in Writes <=> p \in ScanWrites(Merged, snap, ignored)
  <2>1. /\ Merged[p] \in Entries /\ snap[p] \in Entries /\ upper[p] \in Entries
        /\ Merged[p] \in Files <=> \/ upper[p] \in Files
                                   \/ upper[p] = Nothing /\ Shows(p) /\ snap[p] \in Files
    BY <1>1, GuestSees DEF Entries
  <2>2. CASE p \in UpperFiles
    <3>1. upper[p] \in Files /\ Walked(p, ignored) /\ Last(p) \notin ignored.files
      BY <2>1, <2>2, NodesDiffer DEF UpperFiles
    <3>2. Merged[p] = upper[p] /\ upper[p] # Nothing /\ snap[p] # Link
      BY <1>1, <3>1, GuestSees, NodesDiffer DEF Face
    <3>3. At(Followed(p)) = snap[p] /\ ~IsLink(p) /\ (IsFile(p) <=> snap[p] \in Files)
      BY <1>1, <3>2, LookupsAreDirect
    <3>4. SameContent(p) /\ SameMode(p) <=> snap[p] = upper[p]
      <4>1. SameContent(p) /\ SameMode(p)
              <=> /\ snap[p] \in Files /\ snap[p] # Nothing
                  /\ snap[p].content = upper[p].content /\ snap[p].mode = upper[p].mode
        BY <3>3 DEF SameContent, SameMode
      <4>2. \A f, g \in Files : f.content = g.content /\ f.mode = g.mode <=> f = g
        BY DEF Files
      <4> QED
        BY <3>1, <3>2, <4>1, <4>2
    <3>5. p \in Writes <=> snap[p] # upper[p]
      BY <2>2, <3>4 DEF Writes
    <3>6. p \in ScanWrites(Merged, snap, ignored) <=> snap[p] # upper[p]
      BY <1>1, <2>1, <3>1, <3>2, NodesDiffer DEF ScanWrites, Index
    <3> QED
      BY <3>5, <3>6
  <2>3. CASE p \notin UpperFiles
    <3>1. SUFFICES ASSUME p \in ScanWrites(Merged, snap, ignored) PROVE FALSE
      BY <2>3 DEF Writes
    <3>2. Merged[p] \in Files /\ Walked(p, ignored) /\ Last(p) \notin ignored.files
      BY <2>1, <3>1, NodesDiffer DEF ScanWrites, Index
    <3>3. upper[p] = Nothing /\ Shows(p) /\ snap[p] \in Files
      BY <2>1, <2>3, <3>2, NodesDiffer DEF UpperFiles
    <3>4. Merged[p] = snap[p]
      BY <1>1, <3>3, GuestSees
    <3>5. p \in Index(snap, ignored)
      BY <2>1, <3>2, <3>3, NodesDiffer DEF Index
    <3> QED
      BY <3>1, <3>4, <3>5 DEF ScanWrites
  <2> QED
    BY <2>2, <2>3
<1> QED
  BY <1>1 DEF Writes, UpperFiles, ScanWrites, Index

\* The files of the snapshot that the guest has no more as files.
Gone == {p \in Paths : /\ snap[p] \in Files /\ Merged[p] \notin Files
                      /\ Walked(p, ignored) /\ Last(p) \notin ignored.files}

LEMMA ScanReportsGone ==
  ASSUME Regular
  PROVE  ScanDeletes(Merged, snap, ignored) = Gone
<1>1. ASSUME NEW p \in Paths PROVE p \in ScanDeletes(Merged, snap, ignored) <=> p \in Gone
  <2>1. Merged[p] \in Entries /\ snap[p] \in Entries
    BY <1>1, GuestSees DEF Entries
  <2> QED
    BY <1>1, <2>1, NodesDiffer DEF ScanDeletes, Index, Gone
<1> QED
  BY <1>1 DEF ScanDeletes, Index, Gone

\* A name that a scan ignores as a directory's does not change its kind.
LEMMA KindsStay ==
  ASSUME Regular, NEW p \in Paths, snap[p] # Nothing, (snap[p] = Dir) # (Merged[p] = Dir)
  PROVE  Last(p) \notin ignored.dirs
BY DEF Regular, IgnoredChanges

LEMMA UnderIsGone ==
  ASSUME Regular, NEW p \in Paths, Walked(p, ignored), snap[p] = Dir, Merged[p] # Dir
  PROVE  Under(p) \subseteq Gone
<1> SUFFICES ASSUME NEW q \in Under(p) PROVE q \in Gone
  OBVIOUS
<1>1. Last(p) \notin ignored.dirs
  BY KindsStay, NodesDiffer
<1>2. Walked(q, ignored)
  BY <1>1, WalkedUnder
<1>3. IsTree(Merged)
  BY MergedIsSeen, SeenIsTree DEF Regular, Layered
<1>4. q \in Paths /\ p \in Above(q)
  BY DEF Under, Below, Above
<1>5. Merged[q] = Nothing
  BY <1>3, <1>4 DEF IsTree
<1> QED
  BY <1>2, <1>4, <1>5, NodesDiffer DEF Under, Gone

LEMMA DeletesAreGone ==
  ASSUME Regular
  PROVE  Deletes \subseteq Gone
<1>1. Replaced \subseteq Gone
  <2> SUFFICES ASSUME NEW p \in Writes, IsDir(p) PROVE FilesUnder(p) \subseteq Gone
    BY DEF Replaced
  <2>1. p \in Paths /\ upper[p] \in Files /\ Walked(p, ignored)
    <3>1. p \in Paths /\ upper[p].kind = "file" /\ Walked(p, ignored)
      BY DEF Writes, UpperFiles
    <3> QED
      BY <3>1, GuestSees, NodesDiffer
  <2>2. Merged[p] = upper[p] /\ upper[p] # Nothing /\ snap[p] # Link /\ Merged[p] # Dir
    BY <2>1, GuestSees, NodesDiffer DEF Face
  <2>3. Followed(p) = p /\ snap[p] = Dir
    BY <2>1, <2>2, LookupsAreDirect
  <2> QED
    BY <2>1, <2>2, <2>3, FilesUnderAre, UnderIsGone
<1>2. ASSUME NEW p \in Covers PROVE /\ p \in Paths /\ upper[p] # Nothing /\ Walked(p, ignored)
                                    /\ Merged[p] \in {Nothing, Link}
  BY GuestSees, NodesDiffer DEF Covers, Face
<1>3. ASSUME NEW p \in Covers, ~IsLink(p), IsDir(p) PROVE FilesUnder(p) \subseteq Gone
  <2>1. Followed(p) = p /\ snap[p] = Dir
    BY <1>2, <1>3, LookupsAreDirect
  <2>2. Merged[p] # Dir
    BY <1>2, NodesDiffer
  <2> QED
    BY <1>2, <2>1, <2>2, FilesUnderAre, UnderIsGone
<1>4. ASSUME NEW p \in Covers, ~IsLink(p), IsFile(p), Last(p) \notin ignored.files
      PROVE  p \in Gone
  <2>1. snap[p] \in Files
    BY <1>2, <1>4, LookupsAreDirect
  <2> QED
    BY <1>2, <1>4, <2>1, NodesDiffer DEF Gone
<1>5. ASSUME NEW p \in Opaques
      PROVE  /\ p \in Paths /\ Walked(p, ignored) /\ Last(p) \notin ignored.dirs
             /\ Merged[p] = Dir /\ upper[p] = Opaque /\ Followed(p) = p
             /\ IsFile(p) <=> snap[p] \in Files
  <2>1. p \in Paths /\ upper[p] = Opaque /\ Walked(p, ignored) /\ Last(p) \notin ignored.dirs
    BY DEF Opaques
  <2>2. Merged[p] = Dir /\ snap[p] # Link
    BY <2>1, GuestSees, NodesDiffer
  <2>3. Followed(p) = p /\ (IsFile(p) <=> snap[p] \in Files)
    BY <2>1, <2>2, LookupsAreDirect, NodesDiffer
  <2> QED
    BY <2>1, <2>2, <2>3
<1>6. ASSUME NEW p \in Opaques, NEW q \in FilesUnder(p) \ UpperFiles PROVE q \in Gone
  <2>1. q \in Under(p)
    BY <1>5, FilesUnderAre
  <2>2. q \in Paths /\ p \in Above(q) /\ snap[q] \in Files /\ Last(q) \notin ignored.files
    BY <1>5, <2>1 DEF Under, Below, Above
  <2>3. Walked(q, ignored)
    BY <1>5, <2>1, WalkedUnder
  <2>4. ~Shows(q)
    BY <1>5, <2>2, NodesDiffer DEF Shows
  <2>5. upper[q] \notin Files
    BY <1>6, <2>2, <2>3, GuestSees, NodesDiffer DEF UpperFiles
  <2>6. Merged[q] \notin Files
    BY <2>2, <2>4, <2>5, GuestSees
  <2> QED
    BY <2>2, <2>3, <2>6 DEF Gone
<1>7. ASSUME NEW p \in Opaques, IsFile(p), Last(p) \notin ignored.files PROVE p \in Gone
  BY <1>5, <1>7, NodesDiffer DEF Gone
<1> QED
  BY <1>1, <1>3, <1>4, <1>6, <1>7 DEF Deletes, Covered, Hidden

\* The topmost entry above p that hides what the snapshot has there.
LEMMA Topmost ==
  ASSUME Regular, NEW p \in Paths, ~Shows(p)
  PROVE  \E q \in Above(p) : upper[q] \notin {Nothing, Dir} /\ Shows(q)
<1> DEFINE hiding == {q \in Above(p) : upper[q] \notin {Nothing, Dir}}
           lengths == {Len(q) : q \in hiding}
<1>1. lengths # {} /\ lengths \subseteq Nat
  BY AboveIsShorter, PathsAre DEF Shows
<1>2. PICK m \in lengths : \A n \in lengths : m <= n
  <2> HIDE DEF lengths
  <2> QED
    BY <1>1, NatLeast
<1>3. PICK q \in hiding : m = Len(q)
  BY <1>2
<1>4. ASSUME NEW r \in Above(q) PROVE upper[r] \in {Nothing, Dir}
  <2>1. q \in Above(p) /\ q \in Paths /\ r \in Paths /\ Len(r) < Len(q)
    BY <1>3, AboveIsShorter
  <2>2. r \in Above(p)
    BY <2>1, AboveIsTransitive
  <2>3. Len(r) \in Nat /\ Len(q) \in Nat
    BY <2>1, PathsAre
  <2> QED
    BY <1>2, <1>3, <2>1, <2>2, <2>3
<1> QED
  BY <1>3, <1>4 DEF Shows

LEMMA GoneAreDeletes ==
  ASSUME Regular
  PROVE  Gone \subseteq Deletes
<1> SUFFICES ASSUME NEW p \in Gone PROVE p \in Deletes
  OBVIOUS
<1>1. /\ p \in Paths /\ snap[p] \in Files /\ Merged[p] \notin Files
      /\ Walked(p, ignored) /\ Last(p) \notin ignored.files
  BY DEF Gone
<1>2. upper[p] \notin Files /\ upper[p] \in Entries /\ snap[p] \in Nodes
  BY <1>1, GuestSees
<1>3. \A q \in Above(p) : snap[q] = Dir
  BY <1>1, NodesDiffer DEF Regular, Layered, IsTree
\* Hidden by an entry in its own place.
<1>4. CASE Shows(p)
  <2>1. upper[p] \in {Dir, Link, Whiteout, Opaque}
    BY <1>1, <1>2, <1>4, GuestSees DEF Entries, Nodes
  <2>2. upper[p] # Nothing /\ ~InOpaque(p)
    BY <1>4, <2>1, NodesDiffer DEF Shows, InOpaque
  <2>3. ~IsLink(p) /\ IsFile(p)
    BY <1>1, <2>2, LookupsAreDirect, NodesDiffer
  <2>4. CASE upper[p] \in {Whiteout, Link}
    <3>1. p \in Covers
      BY <1>1, <2>2, <2>4 DEF Covers
    <3> QED
      BY <1>1, <2>3, <3>1 DEF Deletes, Covered
  <2>5. CASE upper[p] = Opaque
    <3>1. Merged[p] = Dir /\ snap[p] # Dir /\ snap[p] # Nothing
      BY <1>1, <2>5, GuestSees, NodesDiffer
    <3>2. Last(p) \notin ignored.dirs
      BY <1>1, <3>1, KindsStay
    <3>3. p \in Opaques
      BY <1>1, <2>2, <2>5, <3>2 DEF Opaques
    <3> QED
      BY <1>1, <2>3, <3>3 DEF Deletes, Hidden
  <2>6. CASE upper[p] = Dir
    <3>1. snap[p] \in {Dir, Nothing}
      BY <1>1, <1>4, <2>6 DEF Regular, Layered, Copied, Shows, ShowsUnder
    <3> QED
      BY <1>1, <3>1, NodesDiffer
  <2> QED
    BY <2>1, <2>4, <2>5, <2>6
\* Hidden by one above it.
<1>5. CASE ~Shows(p)
  <2>1. PICK q \in Above(p) : upper[q] \notin {Nothing, Dir} /\ Shows(q)
    BY <1>1, <1>5, Topmost
  <2>2. q \in Paths /\ p \in Below(q) /\ snap[q] = Dir /\ upper[q] \in Entries
    BY <1>1, <1>3, AboveIsShorter, GuestSees
  <2>3. Walked(q, ignored) /\ Last(q) \notin ignored.dirs
    BY <1>1, AboveIsTransitive DEF Walked
  <2>4. ~InOpaque(q)
    BY <2>1, NodesDiffer DEF Shows, InOpaque
  <2>5. IsDir(q) /\ ~IsLink(q) /\ Followed(q) = q /\ ~IsFile(q)
    BY <2>1, <2>2, LookupsAreDirect, NodesDiffer
  <2>6. p \in FilesUnder(q)
    <3>1. p \in Under(q)
      BY <1>1, <2>2 DEF Under, Walked
    <3> QED
      BY <2>2, <2>5, <3>1, FilesUnderAre
  <2>7. CASE upper[q] \in {Whiteout, Link}
    <3>1. q \in Covers
      BY <2>2, <2>3, <2>4, <2>7 DEF Covers
    <3> QED
      BY <2>5, <2>6, <3>1 DEF Deletes, Covered
  <2>8. CASE upper[q] = Opaque
    <3>1. q \in Opaques
      BY <2>2, <2>3, <2>4, <2>8 DEF Opaques
    <3>2. p \notin UpperFiles
      BY <1>2, NodesDiffer DEF UpperFiles
    <3> QED
      BY <2>5, <2>6, <3>1, <3>2 DEF Deletes, Hidden
  <2>9. CASE upper[q] \in Files
    <3>1. Last(q) \notin ignored.files
      BY <2>2, IgnoringNames DEF Regular, Layered, Typed
    <3>2. q \in UpperFiles
      BY <2>2, <2>3, <2>9, <3>1, NodesDiffer DEF UpperFiles
    <3>3. q \in Writes
      BY <2>5, <3>2 DEF Writes, SameContent
    <3> QED
      BY <2>5, <2>6, <3>3 DEF Deletes, Replaced
  <2> QED
    BY <2>1, <2>2, <2>7, <2>8, <2>9 DEF Entries, Nodes
<1> QED
  BY <1>4, <1>5

\* A harvest of the upper reports the writes and the deletes that a scan of the two
\* trees would (staging.py 149-166), in every state of the stage but for the two
\* cases that Parity names.
THEOREM HarvestMatchesScan == Spec => []Parity
<1>1. Layered => Parity
  <2> SUFFICES ASSUME Regular
               PROVE  /\ Writes = ScanWrites(Merged, snap, ignored)
                      /\ Deletes = ScanDeletes(Merged, snap, ignored)
    BY DEF Parity, Regular
  <2> QED
    BY WritesMatch, ScanReportsGone, DeletesAreGone, GoneAreDeletes
<1> QED
  BY <1>1, LayersStand, PTL

=============================================================================
