--------------------------- MODULE InitrdFsProofs ---------------------------
(***************************************************************************)
(* Proofs about the initrd file system, for every archive.                 *)
(*                                                                         *)
(* The server knows no directory tree, only paths that it compares.  The   *)
(* first part shows that the comparison finds the tree again: IsIn holds   *)
(* of the paths of a directory and of an entry exactly when the entry is   *)
(* in the directory, and a name matches an entry of it exactly when it is  *)
(* the entry's name.  The second part follows a reader through a           *)
(* directory or a file, message by message.                                *)
(***************************************************************************)
EXTENDS InitrdFs, NatLemmas, SequenceTheorems, FiniteSetTheorems

-----------------------------------------------------------------------------
(* Sequences.                                                              *)

(* What names consist of, and what the server and the archive add to them. *)
Chars == STRING \cup {"/", "nul"}

(* The path of an entry: that of its directory, a separator and its name.  *)
Joined(d, n) == d \o <<"/">> \o n

(* What is where in a path. *)
LEMMA JoinedIs ==
  ASSUME NEW d \in Seq(Chars), NEW n \in Seq(Chars)
  PROVE  /\ Joined(d, n) \in Seq(Chars)
         /\ Len(Joined(d, n)) = Len(d) + 1 + Len(n)
         /\ \A i \in 1..Len(d) : Joined(d, n)[i] = d[i]
         /\ Joined(d, n)[Len(d) + 1] = "/"
         /\ \A i \in 1..Len(n) : Joined(d, n)[Len(d) + 1 + i] = n[i]
<1> DEFINE u == <<"/">>
           e == d \o u
<1>1. u \in Seq(Chars) /\ Len(u) = 1 /\ u[1] = "/"
  <2>1. "/" \in Chars
    BY DEF Chars
  <2> QED
    BY <2>1
<1> HIDE DEF u
<1>2. /\ e \in Seq(Chars)
      /\ Len(e) = Len(d) + 1
      /\ \A i \in 1..Len(d) + 1 : e[i] = IF i <= Len(d) THEN d[i] ELSE u[i - Len(d)]
  <2>1. /\ e \in Seq(Chars)
        /\ Len(e) = Len(d) + Len(u)
        /\ \A i \in 1..Len(d) + Len(u) : e[i] = IF i <= Len(d) THEN d[i] ELSE u[i - Len(d)]
    BY <1>1, ConcatProperties
  <2> QED
    BY <1>1, <2>1
<1> HIDE DEF e
<1>3. /\ e \o n \in Seq(Chars)
      /\ Len(e \o n) = Len(e) + Len(n)
      /\ \A i \in 1..Len(e) + Len(n) : (e \o n)[i] = IF i <= Len(e) THEN e[i] ELSE n[i - Len(e)]
  BY <1>2, ConcatProperties
<1>4. Joined(d, n) = e \o n
  BY DEF Joined, e, u
<1>5. Len(d) \in Nat /\ Len(n) \in Nat
  BY LenProperties
<1> DEFINE j == Joined(d, n)
<1> HIDE DEF j
<1>6. /\ Len(j) = Len(d) + 1 + Len(n)
      /\ \A i \in 1..Len(d) + 1 + Len(n) :
           j[i] = IF i <= Len(d) + 1 THEN e[i] ELSE n[i - (Len(d) + 1)]
  BY <1>2, <1>3, <1>4, <1>5 DEF j
<1>7. \A i \in 1..Len(d) : j[i] = d[i]
  <2> TAKE i \in 1..Len(d)
  <2> QED
    BY <1>2, <1>5, <1>6
<1>8. j[Len(d) + 1] = "/"
  <2>1. Len(d) + 1 \in 1..Len(d) + 1 /\ Len(d) + 1 \in 1..Len(d) + 1 + Len(n)
    BY <1>5
  <2>2. e[Len(d) + 1] = u[Len(d) + 1 - Len(d)] /\ Len(d) + 1 - Len(d) = 1
    BY <1>2, <1>5, <2>1
  <2> QED
    BY <1>1, <1>5, <1>6, <2>1, <2>2
<1>9. \A i \in 1..Len(n) : j[Len(d) + 1 + i] = n[i]
  <2> TAKE i \in 1..Len(n)
  <2>1. /\ Len(d) + 1 + i \in 1..Len(d) + 1 + Len(n)
        /\ ~(Len(d) + 1 + i <= Len(d) + 1)
        /\ Len(d) + 1 + i - (Len(d) + 1) = i
    BY <1>5
  <2> QED
    BY <1>6, <2>1
<1> QED
  BY <1>3, <1>4, <1>6, <1>7, <1>8, <1>9 DEF j

(* A path has one last separator: what is before it and behind it is       *)
(* determined by the path.                                                 *)
LEMMA JoinedOnce ==
  ASSUME NEW d \in Seq(Chars), NEW n \in Seq(Chars),
         NEW e \in Seq(Chars), NEW m \in Seq(Chars),
         \A i \in 1..Len(n) : n[i] # "/",
         \A i \in 1..Len(m) : m[i] # "/",
         Joined(d, n) = Joined(e, m)
  PROVE  d = e /\ n = m
<1> DEFINE j == Joined(d, n)
<1>1. /\ Len(j) = Len(d) + 1 + Len(n)
      /\ \A i \in 1..Len(d) : j[i] = d[i]
      /\ j[Len(d) + 1] = "/"
      /\ \A i \in 1..Len(n) : j[Len(d) + 1 + i] = n[i]
  BY JoinedIs
<1>2. /\ Len(j) = Len(e) + 1 + Len(m)
      /\ \A i \in 1..Len(e) : j[i] = e[i]
      /\ j[Len(e) + 1] = "/"
      /\ \A i \in 1..Len(m) : j[Len(e) + 1 + i] = m[i]
  <2> DEFINE i == Joined(e, m)
  <2>1. /\ Len(i) = Len(e) + 1 + Len(m)
        /\ \A k \in 1..Len(e) : i[k] = e[k]
        /\ i[Len(e) + 1] = "/"
        /\ \A k \in 1..Len(m) : i[Len(e) + 1 + k] = m[k]
    BY JoinedIs
  <2>2. j = i
    OBVIOUS
  <2> HIDE DEF i, j
  <2> QED
    BY <2>1, <2>2
<1> HIDE DEF j
<1>3. Len(d) \in Nat /\ Len(n) \in Nat /\ Len(e) \in Nat /\ Len(m) \in Nat
  BY LenProperties
<1>4. ~(Len(d) < Len(e))
  <2> SUFFICES ASSUME Len(d) < Len(e) PROVE FALSE
    OBVIOUS
  <2> DEFINE k == Len(e) - Len(d)
  <2>1. k \in 1..Len(n) /\ Len(d) + 1 + k = Len(e) + 1
    BY <1>1, <1>2, <1>3
  <2> HIDE DEF k
  <2>2. j[Len(d) + 1 + k] = n[k] /\ n[k] # "/"
    BY <1>1, <1>2, <2>1
  <2>3. j[Len(e) + 1] = "/"
    BY <1>1, <1>2
  <2> QED
    BY <2>1, <2>2, <2>3
<1>5. ~(Len(e) < Len(d))
  <2> SUFFICES ASSUME Len(e) < Len(d) PROVE FALSE
    OBVIOUS
  <2> DEFINE k == Len(d) - Len(e)
  <2>1. k \in 1..Len(m) /\ Len(e) + 1 + k = Len(d) + 1
    BY <1>1, <1>2, <1>3
  <2> HIDE DEF k
  <2>2. j[Len(e) + 1 + k] = m[k] /\ m[k] # "/"
    BY <1>1, <1>2, <2>1
  <2>3. j[Len(d) + 1] = "/"
    BY <1>1, <1>2
  <2> QED
    BY <2>1, <2>2, <2>3
<1>6. Len(d) = Len(e) /\ Len(n) = Len(m)
  BY <1>1, <1>2, <1>3, <1>4, <1>5
<1>7. \A i \in 1..Len(d) : d[i] = e[i]
  BY <1>1, <1>2, <1>6
<1>8. \A i \in 1..Len(n) : n[i] = m[i]
  BY <1>1, <1>2, <1>6
<1>9. d = e
  BY <1>6, <1>7, SeqEqual
<1>10. n = m
  BY <1>6, <1>8, SeqEqual
<1> QED
  BY <1>9, <1>10

(* A prefix, element by element. *)
LEMMA PrefixIs ==
  ASSUME NEW S, NEW s \in Seq(S), NEW t \in Seq(S)
  PROVE  IsPrefix(s, t) <=> Len(s) <= Len(t) /\ \A i \in 1..Len(s) : s[i] = t[i]
<1>1. Len(s) \in Nat /\ Len(t) \in Nat
  BY LenProperties
<1>2. ASSUME Len(s) <= Len(t)
      PROVE  SubSeq(s, 1, Len(s)) = SubSeq(t, 1, Len(s)) <=> \A i \in 1..Len(s) : s[i] = t[i]
  <2> DEFINE p == SubSeq(s, 1, Len(s))
             q == SubSeq(t, 1, Len(s))
  <2>1. /\ p \in Seq(S) /\ Len(p) = Len(s) /\ \A i \in 1..Len(s) : p[i] = s[i]
    BY <1>1, SubSeqFull
  <2>2. \A i \in 1..Len(s) : t[i] \in S
    BY <1>1, <1>2, ElementOfSeq
  <2>3. /\ q \in Seq(S)
        /\ Len(q) = IF 1 <= Len(s) THEN Len(s) - 1 + 1 ELSE 0
        /\ \A i \in 1..Len(s) - 1 + 1 : q[i] = t[1 + i - 1]
    BY <1>1, <2>2, SubSeqProperties
  <2> HIDE DEF p, q
  <2>4. Len(q) = Len(s) /\ \A i \in 1..Len(s) : q[i] = t[i]
    BY <1>1, <2>3
  <2>5. ASSUME \A i \in 1..Len(s) : s[i] = t[i] PROVE p = q
    <3>1. Len(p) = Len(q) /\ \A i \in 1..Len(p) : p[i] = q[i]
      BY <2>1, <2>4, <2>5
    <3> QED
      BY <2>1, <2>3, <3>1, SeqEqual
  <2>6. ASSUME p = q PROVE \A i \in 1..Len(s) : s[i] = t[i]
    BY <2>1, <2>4, <2>6
  <2> QED
    BY <2>5, <2>6 DEF p, q
<1> QED
  BY <1>2 DEF IsPrefix

(* PrefixIs, for numbers. *)
LEMMA NumbersPrefix ==
  ASSUME NEW s \in Seq(Nat), NEW t \in Seq(Nat)
  PROVE  IsPrefix(s, t) <=> Len(s) <= Len(t) /\ \A i \in 1..Len(s) : s[i] = t[i]
BY PrefixIs

(* The same for paths. *)
LEMMA PathsPrefix ==
  ASSUME NEW s \in Seq(Chars), NEW t \in Seq(Chars)
  PROVE  IsPrefix(s, t) <=> Len(s) <= Len(t) /\ \A i \in 1..Len(s) : s[i] = t[i]
BY PrefixIs

(* One path behind another. *)
LEMMA PathsConcat ==
  ASSUME NEW s \in Seq(Chars), NEW t \in Seq(Chars)
  PROVE  /\ s \o t \in Seq(Chars) /\ Len(s \o t) = Len(s) + Len(t)
         /\ \A i \in 1..Len(s) + Len(t) : (s \o t)[i] = IF i <= Len(s) THEN s[i] ELSE t[i - Len(s)]
BY ConcatProperties

(* What Min of the community modules is for a set of numbers. *)
LEMMA MinIs ==
  ASSUME NEW S \in SUBSET Nat, S # {}
  PROVE  Min(S) \in S /\ \A x \in S : Min(S) <= x
<1>1. \E x \in S : \A y \in S : x <= y
  BY LeastNat
<1> QED
  BY <1>1 DEF Min

-----------------------------------------------------------------------------
(* Paths.                                                                  *)

EntryType == [parent : Nat, type : {"directory", "regular"}, name : Seq(STRING), size : Nat]

(* Where directories are. *)
Directory == {b \in Addresses \cup {ROOT} : Type(b) = "directory"}

(* The tree of an archive, in addresses. *)
LEMMA TreeIs ==
  ASSUME IsArchive(archive)
  PROVE  /\ Len(archive) \in Nat
         /\ Addresses \subseteq Nat
         /\ \A a \in Addresses :
              /\ a \in Nat /\ a # ROOT /\ a >= START /\ a < End
              /\ Entry(a).name \in Seq(Chars)
              /\ Len(Entry(a).name) \in Nat /\ Len(Entry(a).name) > 0
              /\ \A k \in 1..Len(Entry(a).name) : Entry(a).name[k] # "/" /\ Entry(a).name[k] # "nul"
              /\ Entry(a).size \in Nat
              /\ DirectoryOf(a) \in Addresses \cup {ROOT} /\ DirectoryOf(a) < a
              /\ Type(a) = Entry(a).type
              /\ Type(DirectoryOf(a)) = "directory"
              /\ \A b \in Addresses :
                   DirectoryOf(b) = DirectoryOf(a) /\ Entry(b).name = Entry(a).name => b = a
<1>1. archive \in Seq(EntryType)
  BY DEF IsArchive, EntryType
<1>2. Len(archive) \in Nat /\ DOMAIN archive = 1..Len(archive)
      /\ \A i \in 1..Len(archive) : archive[i] \in EntryType
  BY <1>1, LenProperties, ElementOfSeq
<1>3. Addresses \subseteq Nat
  BY <1>2 DEF Addresses, START, MAGIC
<1>4. ASSUME NEW a \in Addresses
      PROVE  /\ a \in Nat /\ a # ROOT /\ a >= START /\ a < End
             /\ a - START + 1 \in 1..Len(archive)
  BY <1>2 DEF Addresses, START, MAGIC, ROOT, End
<1>5. ASSUME NEW a \in Addresses
      PROVE  /\ Entry(a) \in EntryType
             /\ Entry(a).parent \in 0..(a - START)
             /\ Entry(a).parent # 0 => archive[Entry(a).parent].type = "directory"
             /\ Len(Entry(a).name) > 0
             /\ \A k \in DOMAIN Entry(a).name : Entry(a).name[k] \notin {"/", "nul"}
             /\ \A j \in DOMAIN archive : archive[j].parent = Entry(a).parent /\ archive[j].name = Entry(a).name
                                            => j = a - START + 1
  <2> DEFINE i == a - START + 1
  <2>1. i \in DOMAIN archive /\ i - 1 = a - START
    BY <1>2, <1>4 DEF START, MAGIC
  <2>2. Entry(a) = archive[i]
    BY DEF Entry
  <2> HIDE DEF i
  <2>3. i \in 1..Len(archive)
    BY <1>2, <2>1
  <2>4. /\ archive[i].parent \in 0..(i - 1)
        /\ archive[i].parent # 0 => archive[archive[i].parent].type = "directory"
        /\ Len(archive[i].name) > 0
        /\ \A k \in DOMAIN archive[i].name : archive[i].name[k] \notin {"/", "nul"}
        /\ \A j \in DOMAIN archive : archive[j].parent = archive[i].parent /\ archive[j].name = archive[i].name
                                            => j = i
    BY <2>1 DEF IsArchive
  <2>5. archive[i] \in EntryType
    BY <1>2, <2>3
  <2> QED
    BY <2>1, <2>2, <2>4, <2>5 DEF i
<1>6. ASSUME NEW a \in Addresses
      PROVE  /\ Entry(a).name \in Seq(Chars)
             /\ Len(Entry(a).name) \in Nat /\ Len(Entry(a).name) > 0
             /\ \A k \in 1..Len(Entry(a).name) : Entry(a).name[k] # "/" /\ Entry(a).name[k] # "nul"
             /\ Entry(a).size \in Nat
  <2>1. Entry(a).name \in Seq(STRING) /\ Entry(a).size \in Nat
    BY <1>5 DEF EntryType
  <2> DEFINE n == Entry(a).name
  <2>2. STRING \subseteq Chars
    BY DEF Chars
  <2>3. n \in Seq(Chars)
    BY <2>1, <2>2, SeqMonotonic
  <2>4. Len(n) \in Nat /\ DOMAIN n = 1..Len(n)
    BY <2>3, LenProperties
  <2> QED
    BY <1>5, <2>1, <2>3, <2>4
<1>7. ASSUME NEW a \in Addresses
      PROVE  /\ DirectoryOf(a) \in Addresses \cup {ROOT} /\ DirectoryOf(a) < a
             /\ Type(a) = Entry(a).type
             /\ Type(DirectoryOf(a)) = "directory"
  <2>1. Type(a) = Entry(a).type
    BY <1>4 DEF Type
  <2> DEFINE p == Entry(a).parent
  <2>2. p \in 0..(a - START) /\ (p # 0 => archive[p].type = "directory")
    BY <1>5
  <2>3. DirectoryOf(a) = IF p = 0 THEN ROOT ELSE START + p - 1
    BY DEF DirectoryOf
  <2> HIDE DEF p
  <2>4. CASE p = 0
    BY <1>4, <2>1, <2>3, <2>4 DEF Type, ROOT
  <2>5. CASE p # 0
    <3>1. /\ START + p - 1 \in Addresses /\ START + p - 1 < a
          /\ (START + p - 1) - START + 1 = p
          /\ START + p - 1 # ROOT
      <4>1. a \in Nat /\ p \in 0..(a - 2) /\ p # 0 /\ a < 2 + Len(archive) /\ Len(archive) \in Nat
        BY <1>2, <1>4, <2>2, <2>5 DEF START, MAGIC, End
      <4>2. 2 + p - 1 \in 2..(2 + Len(archive) - 1) /\ 2 + p - 1 < a
            /\ (2 + p - 1) - 2 + 1 = p /\ 2 + p - 1 # 0
        BY <4>1
      <4> QED
        BY <4>2 DEF Addresses, START, MAGIC, ROOT
    <3>2. Type(START + p - 1) = archive[p].type
      <4>1. Type(START + p - 1) = Entry(START + p - 1).type
        BY <3>1, Zenon DEF Type
      <4>2. Entry(START + p - 1) = archive[(START + p - 1) - START + 1]
        BY Zenon DEF Entry
      <4> QED
        BY <3>1, <4>1, <4>2, Zenon
    <3> QED
      BY <2>1, <2>2, <2>3, <2>5, <3>1, <3>2
  <2> QED
    BY <2>4, <2>5
<1>8. ASSUME NEW a \in Addresses, NEW b \in Addresses,
             DirectoryOf(b) = DirectoryOf(a), Entry(b).name = Entry(a).name
      PROVE  b = a
  <2> DEFINE p == Entry(a).parent
             q == Entry(b).parent
             j == b - START + 1
  <2>1. p \in Nat /\ q \in Nat
    BY <1>5 DEF EntryType
  <2>2. p = q
    <3>1. DirectoryOf(a) = IF p = 0 THEN 0 ELSE 2 + p - 1
      BY DEF DirectoryOf, ROOT, START, MAGIC
    <3>2. DirectoryOf(b) = IF q = 0 THEN 0 ELSE 2 + q - 1
      BY DEF DirectoryOf, ROOT, START, MAGIC
    <3> HIDE DEF p, q
    <3> QED
      BY <1>8, <2>1, <3>1, <3>2
  <2>3. j \in DOMAIN archive /\ archive[j] = Entry(b)
    BY <1>2, <1>4 DEF Entry
  <2>4. j = a - START + 1
    BY <1>5, <1>8, <2>2, <2>3
  <2> QED
    BY <1>4, <2>4 DEF START, MAGIC
<1> QED
  BY <1>2, <1>3, <1>4, <1>6, <1>7, <1>8

(* path of Path, as an equation. *)
PathBody(f) ==
  [a \in Addresses |-> IF DirectoryOf(a) = ROOT THEN Entry(a).name
                       ELSE f[DirectoryOf(a)] \o <<"/">> \o Entry(a).name]
PathFcn == CHOOSE f : f = PathBody(f)

(* The recursion of Path ends: a directory is before what is in it.  By    *)
(* the least number of entries that no function is right for.              *)
LEMMA PathExists ==
  ASSUME IsArchive(archive)
  PROVE  \E f : f = PathBody(f)
<1> DEFINE Right(f, n) == \A a \in Addresses : a < START + n => f[a] = PathBody(f)[a]
           Bad == {n \in Nat : ~ \E f : f = [a \in Addresses |-> f[a]] /\ Right(f, n)}
           Body(f, a) == IF DirectoryOf(a) = ROOT THEN Entry(a).name
                         ELSE f[DirectoryOf(a)] \o <<"/">> \o Entry(a).name
<1>1. \A f : \A a \in Addresses : PathBody(f)[a] = Body(f, a)
  BY DEF PathBody
<1>2. \A a \in Addresses : a \in Nat /\ a >= START /\ a < End /\ DirectoryOf(a) \in Nat
                           /\ DirectoryOf(a) < a /\ (DirectoryOf(a) # ROOT => DirectoryOf(a) \in Addresses)
  BY TreeIs DEF ROOT
<1>3. \A f, g : \A a \in Addresses :
        (DirectoryOf(a) # ROOT => f[DirectoryOf(a)] = g[DirectoryOf(a)]) => Body(f, a) = Body(g, a)
  OBVIOUS
<1> HIDE DEF Body
<1>4. Bad = {}
  <2> SUFFICES ASSUME Bad # {} PROVE FALSE
    OBVIOUS
  <2>1. PICK n \in Bad : \A m \in Bad : n <= m
    BY LeastNat
  <2>2. n # 0
    <3> DEFINE f == [a \in Addresses |-> 0]
    <3>1. f = [a \in Addresses |-> f[a]]
      OBVIOUS
    <3>2. Right(f, 0)
      BY <1>2 DEF START, MAGIC
    <3> QED
      BY <3>1, <3>2
  <2>3. n - 1 \in Nat /\ n - 1 \notin Bad
    BY <2>1, <2>2
  <2>4. PICK f : f = [a \in Addresses |-> f[a]] /\ Right(f, n - 1)
    BY <2>3
  <2> DEFINE g == [a \in Addresses |-> IF a = START + n - 1 THEN Body(f, a) ELSE f[a]]
  <2>5. g = [a \in Addresses |-> g[a]]
    OBVIOUS
  <2>6. ASSUME NEW a \in Addresses, a < START + n PROVE g[a] = Body(g, a)
    <3>1. g[a] = Body(f, a)
      <4>1. CASE a = START + n - 1
        BY <4>1
      <4>2. CASE a # START + n - 1
        <5>1. a < START + (n - 1)
          BY <1>2, <2>1, <2>6, <4>2 DEF START, MAGIC
        <5> QED
          BY <1>1, <2>4, <4>2, <5>1
      <4> QED
        BY <4>1, <4>2
    <3>2. DirectoryOf(a) # ROOT => f[DirectoryOf(a)] = g[DirectoryOf(a)]
      <4> SUFFICES ASSUME DirectoryOf(a) # ROOT PROVE f[DirectoryOf(a)] = g[DirectoryOf(a)]
        OBVIOUS
      <4>1. DirectoryOf(a) \in Addresses /\ DirectoryOf(a) # START + n - 1
        BY <1>2, <2>1, <2>6 DEF START, MAGIC
      <4> QED
        BY <4>1
    <3> QED
      BY <1>3, <3>1, <3>2
  <2> HIDE DEF g
  <2>7. Right(g, n)
    BY <1>1, <2>6
  <2>8. n \notin Bad
    BY <2>5, <2>7
  <2> QED
    BY <2>1, <2>8
<1>5. Len(archive) \in Nat /\ End = START + Len(archive)
  BY TreeIs DEF End
<1>6. PICK f : f = [a \in Addresses |-> f[a]] /\ Right(f, Len(archive))
  BY <1>4, <1>5
<1>7. \A a \in Addresses : f[a] = PathBody(f)[a]
  BY <1>2, <1>5, <1>6
<1>8. PathBody(f) = [a \in Addresses |-> PathBody(f)[a]]
  BY DEF PathBody
<1>9. f = PathBody(f)
  BY <1>6, <1>7, <1>8
<1> QED
  BY <1>9

(* What Path computes. *)
LEMMA PathIs ==
  ASSUME IsArchive(archive)
  PROVE  /\ Path(ROOT) = <<>>
         /\ \A a \in Addresses :
              Path(a) = IF DirectoryOf(a) = ROOT THEN Entry(a).name
                        ELSE Joined(Path(DirectoryOf(a)), Entry(a).name)
<1>1. PathFcn = PathBody(PathFcn)
  BY PathExists DEF PathFcn
<1>2. \A b : Path(b) = IF b = ROOT THEN <<>> ELSE PathFcn[b]
  BY Zenon DEF Path, PathFcn, PathBody
<1>3. ASSUME NEW a \in Addresses
      PROVE  Path(a) = IF DirectoryOf(a) = ROOT THEN Entry(a).name
                       ELSE Joined(Path(DirectoryOf(a)), Entry(a).name)
  <2>1. a # ROOT
    BY TreeIs
  <2>2. PathBody(PathFcn)[a] = IF DirectoryOf(a) = ROOT THEN Entry(a).name
                               ELSE PathFcn[DirectoryOf(a)] \o <<"/">> \o Entry(a).name
    BY DEF PathBody
  <2>3. Path(a) = IF DirectoryOf(a) = ROOT THEN Entry(a).name
                  ELSE PathFcn[DirectoryOf(a)] \o <<"/">> \o Entry(a).name
    BY <1>1, <1>2, <2>1, <2>2
  <2>4. DirectoryOf(a) # ROOT => Path(DirectoryOf(a)) = PathFcn[DirectoryOf(a)]
    BY <1>2
  <2> QED
    BY <2>3, <2>4 DEF Joined
<1> QED
  BY <1>2, <1>3

(* Paths are sequences of characters, and only the root's is empty. *)
LEMMA PathType ==
  ASSUME IsArchive(archive)
  PROVE  \A b \in Addresses \cup {ROOT} :
           /\ Path(b) \in Seq(Chars) /\ Len(Path(b)) \in Nat
           /\ Path(b) = <<>> <=> b = ROOT
           /\ Len(Path(b)) = 0 <=> b = ROOT
<1> DEFINE Ok(b) == Path(b) \in Seq(Chars) /\ Len(Path(b)) \in Nat /\ Len(Path(b)) > 0
           Bad == {a \in Addresses : ~Ok(a)}
<1>1. Bad = {}
  <2> SUFFICES ASSUME Bad # {} PROVE FALSE
    OBVIOUS
  <2>1. Bad \in SUBSET Nat
    BY TreeIs
  <2>2. PICK a \in Bad : \A b \in Bad : a <= b
    BY <2>1, LeastNat
  <2> DEFINE n == Entry(a).name
             d == DirectoryOf(a)
  <2>3. a \in Nat /\ n \in Seq(Chars) /\ Len(n) \in Nat /\ Len(n) > 0
        /\ d \in Addresses \cup {ROOT} /\ d < a /\ d \in Nat
    BY TreeIs DEF ROOT
  <2>4. CASE d = ROOT
    <3>1. Path(a) = n
      BY <2>4, PathIs
    <3> QED
      BY <2>2, <2>3, <3>1
  <2>5. CASE d # ROOT
    <3>1. Path(a) = Joined(Path(d), n)
      BY <2>5, PathIs
    <3>2. Ok(d)
      BY <2>2, <2>3, <2>5
    <3> HIDE DEF n, d
    <3>3. Joined(Path(d), n) \in Seq(Chars) /\ Len(Joined(Path(d), n)) = Len(Path(d)) + 1 + Len(n)
      BY <2>3, <3>2, JoinedIs
    <3> QED
      BY <2>2, <2>3, <3>1, <3>2, <3>3
  <2> QED
    BY <2>4, <2>5
<1>2. \A a \in Addresses : Ok(a) /\ a # ROOT
  BY <1>1, TreeIs
<1>3. Path(ROOT) = <<>>
  BY PathIs
<1>4. <<>> \in Seq(Chars) /\ Len(<<>>) = 0
  BY EmptySeq
<1> SUFFICES ASSUME NEW b \in Addresses \cup {ROOT}
             PROVE  /\ Path(b) \in Seq(Chars) /\ Len(Path(b)) \in Nat
                    /\ Path(b) = <<>> <=> b = ROOT
                    /\ Len(Path(b)) = 0 <=> b = ROOT
  OBVIOUS
<1>5. CASE b = ROOT
  BY <1>3, <1>4, <1>5
<1>6. CASE b # ROOT
  <2>1. Ok(b)
    BY <1>2, <1>6
  <2>2. Path(b) # <<>>
    BY <1>4, <2>1
  <2> QED
    BY <1>6, <2>1, <2>2
<1> QED
  BY <1>5, <1>6

(* What is where in the path of an entry. *)
LEMMA EntryPath ==
  ASSUME IsArchive(archive), NEW a \in Addresses, DirectoryOf(a) # ROOT
  PROVE  LET d == Path(DirectoryOf(a))
             n == Entry(a).name
         IN  /\ Path(a) = Joined(d, n)
             /\ Len(Path(a)) = Len(d) + 1 + Len(n)
             /\ \A i \in 1..Len(d) : Path(a)[i] = d[i]
             /\ Path(a)[Len(d) + 1] = "/"
             /\ \A i \in 1..Len(n) : Path(a)[Len(d) + 1 + i] = n[i]
<1> DEFINE d == Path(DirectoryOf(a))
           n == Entry(a).name
<1>1. d \in Seq(Chars) /\ n \in Seq(Chars)
  BY TreeIs, PathType
<1>2. Path(a) = Joined(d, n)
  BY PathIs
<1> HIDE DEF d, n
<1>3. /\ Len(Joined(d, n)) = Len(d) + 1 + Len(n)
      /\ \A i \in 1..Len(d) : Joined(d, n)[i] = d[i]
      /\ Joined(d, n)[Len(d) + 1] = "/"
      /\ \A i \in 1..Len(n) : Joined(d, n)[Len(d) + 1 + i] = n[i]
  BY <1>1, JoinedIs
<1> QED
  BY <1>2, <1>3 DEF d, n

(* An entry at the root has no separator in its path, any other has one. *)
LEMMA RootEntries ==
  ASSUME IsArchive(archive), NEW a \in Addresses
  PROVE  DirectoryOf(a) = ROOT <=> \A i \in 1..Len(Path(a)) : Path(a)[i] # "/"
<1>1. CASE DirectoryOf(a) = ROOT
  <2>1. Path(a) = Entry(a).name
    BY <1>1, PathIs
  <2> QED
    BY <1>1, <2>1, TreeIs
<1>2. CASE DirectoryOf(a) # ROOT
  <2> DEFINE l == Len(Path(DirectoryOf(a)))
             k == Len(Entry(a).name)
  <2>1. l \in Nat /\ k \in Nat
    BY TreeIs, PathType
  <2>2. Len(Path(a)) = l + 1 + k /\ Path(a)[l + 1] = "/"
    BY <1>2, EntryPath
  <2> HIDE DEF l, k
  <2>3. l + 1 \in 1..Len(Path(a))
    BY <2>1, <2>2
  <2> QED
    BY <1>2, <2>2, <2>3
<1> QED
  BY <1>1, <1>2

(* No two entries have the same path. *)
LEMMA PathsDiffer ==
  ASSUME IsArchive(archive), NEW x \in Addresses, NEW y \in Addresses, Path(x) = Path(y)
  PROVE  x = y
<1> DEFINE Bad == {a \in Addresses : \E b \in Addresses : Path(a) = Path(b) /\ a # b}
<1> SUFFICES ASSUME x # y PROVE FALSE
  OBVIOUS
<1>1. Bad \in SUBSET Nat /\ Bad # {}
  BY TreeIs
<1>2. PICK a \in Bad : \A c \in Bad : a <= c
  BY <1>1, LeastNat
<1>3. PICK b \in Addresses : Path(a) = Path(b) /\ a # b
  BY <1>2
<1> DEFINE d == DirectoryOf(a)
           e == DirectoryOf(b)
<1>4. /\ a \in Addresses /\ b \in Addresses /\ a \in Nat
      /\ d \in Addresses \cup {ROOT} /\ d < a /\ d \in Nat
      /\ e \in Addresses \cup {ROOT}
      /\ d = e /\ Entry(a).name = Entry(b).name => a = b
  BY TreeIs DEF ROOT
<1>5. d = ROOT <=> e = ROOT
  BY <1>3, <1>4, RootEntries
<1>6. CASE d = ROOT
  <2>1. Path(a) = Entry(a).name /\ Path(b) = Entry(b).name
    BY <1>4, <1>5, <1>6, PathIs
  <2> QED
    BY <1>3, <1>4, <1>5, <1>6, <2>1
<1>7. CASE d # ROOT
  <2>1. Path(a) = Joined(Path(d), Entry(a).name) /\ Path(b) = Joined(Path(e), Entry(b).name)
    BY <1>4, <1>5, <1>7, PathIs
  <2>2. /\ Path(d) \in Seq(Chars) /\ Path(e) \in Seq(Chars)
        /\ Entry(a).name \in Seq(Chars) /\ Entry(b).name \in Seq(Chars)
        /\ \A i \in 1..Len(Entry(a).name) : Entry(a).name[i] # "/"
        /\ \A i \in 1..Len(Entry(b).name) : Entry(b).name[i] # "/"
    BY <1>4, TreeIs, PathType
  <2>3. Joined(Path(d), Entry(a).name) = Joined(Path(e), Entry(b).name)
    BY <1>3, <2>1
  <2>4. Path(d) = Path(e) /\ Entry(a).name = Entry(b).name
    <3> DEFINE p == Path(d)
               q == Path(e)
               n == Entry(a).name
               m == Entry(b).name
    <3>1. /\ p \in Seq(Chars) /\ q \in Seq(Chars) /\ n \in Seq(Chars) /\ m \in Seq(Chars)
          /\ \A i \in 1..Len(n) : n[i] # "/"
          /\ \A i \in 1..Len(m) : m[i] # "/"
          /\ Joined(p, n) = Joined(q, m)
      BY <2>2, <2>3
    <3> HIDE DEF p, q, n, m
    <3>2. p = q /\ n = m
      BY <3>1, JoinedOnce
    <3> QED
      BY <3>2 DEF p, q, n, m
  <2>5. d \in Addresses /\ e \in Addresses /\ d \notin Bad
    BY <1>2, <1>4, <1>5, <1>7
  <2>6. d = e
    BY <2>4, <2>5
  <2> QED
    BY <1>3, <1>4, <2>4, <2>6
<1> QED
  BY <1>6, <1>7

(***************************************************************************)
(* The comparison of paths in next_file_in_dir finds the tree again: an    *)
(* entry's path passes it for a directory exactly if the entry is in the   *)
(* directory.  The path of another entry that only starts with the         *)
(* directory's, or of one further down, does not.                          *)
(***************************************************************************)
LEMMA InDirectory ==
  ASSUME IsArchive(archive), NEW b \in Addresses \cup {ROOT}, NEW a \in Addresses
  PROVE  IsIn(Path(b), Path(a)) <=> DirectoryOf(a) = b
<1> DEFINE p == Path(a)
           q == Path(b)
           d == Path(DirectoryOf(a))
           n == Entry(a).name
<1>1. /\ p \in Seq(Chars) /\ q \in Seq(Chars) /\ d \in Seq(Chars) /\ n \in Seq(Chars)
      /\ Len(p) \in Nat /\ Len(q) \in Nat /\ Len(d) \in Nat /\ Len(n) \in Nat
      /\ Len(q) = 0 <=> b = ROOT
      /\ \A i \in 1..Len(n) : n[i] # "/"
  BY TreeIs, PathType
<1>2. DirectoryOf(a) = ROOT <=> \A i \in 1..Len(p) : p[i] # "/"
  BY RootEntries
<1>3. DirectoryOf(a) # ROOT => /\ Len(p) = Len(d) + 1 + Len(n)
                               /\ \A i \in 1..Len(d) : p[i] = d[i]
                               /\ p[Len(d) + 1] = "/"
                               /\ \A i \in 1..Len(n) : p[Len(d) + 1 + i] = n[i]
  BY EntryPath
<1>4. IsPrefix(q, p) <=> Len(q) <= Len(p) /\ \A i \in 1..Len(q) : q[i] = p[i]
  <2>1. q \in Seq(Chars) /\ p \in Seq(Chars)
    BY <1>1
  <2> HIDE DEF p, q
  <2> QED
    BY <2>1, PathsPrefix
<1>5. IsIn(q, p) <=> IF Len(q) = 0 THEN \A i \in 1..Len(p) : p[i] # "/"
                     ELSE /\ Len(p) >= Len(q) + 1 /\ IsPrefix(q, p)
                          /\ p[Len(q) + 1] = "/"
                          /\ \A i \in Len(q) + 2..Len(p) : p[i] # "/"
  BY DEF IsIn, Separators
<1>6. q = d /\ b # ROOT /\ DirectoryOf(a) # ROOT => DirectoryOf(a) = b
  BY TreeIs, PathsDiffer
<1>7. DirectoryOf(a) = b => q = d
  OBVIOUS
<1> HIDE DEF p, q, d, n
<1>8. CASE b = ROOT
  BY <1>1, <1>2, <1>5, <1>8 DEF p, q
<1>9. CASE b # ROOT
  <2>1. ASSUME IsIn(q, p) PROVE DirectoryOf(a) = b
    <3>1. /\ Len(p) >= Len(q) + 1 /\ Len(q) <= Len(p) /\ \A i \in 1..Len(q) : q[i] = p[i]
          /\ p[Len(q) + 1] = "/"
          /\ \A i \in Len(q) + 2..Len(p) : p[i] # "/"
      BY <1>1, <1>4, <1>5, <1>9, <2>1
    <3>2. DirectoryOf(a) # ROOT
      <4>1. Len(q) + 1 \in 1..Len(p)
        BY <1>1, <3>1
      <4> QED
        BY <1>2, <3>1, <4>1
    <3>3. ~(Len(d) > Len(q))
      <4> SUFFICES ASSUME Len(d) > Len(q) PROVE FALSE
        OBVIOUS
      <4>1. Len(d) + 1 \in Len(q) + 2..Len(p)
        BY <1>1, <1>3, <3>2
      <4> QED
        BY <1>3, <3>1, <3>2, <4>1
    <3>4. ~(Len(d) < Len(q))
      <4> SUFFICES ASSUME Len(d) < Len(q) PROVE FALSE
        OBVIOUS
      <4> DEFINE k == Len(q) - Len(d)
      <4>1. k \in 1..Len(n) /\ Len(d) + 1 + k = Len(q) + 1
        BY <1>1, <1>3, <3>1, <3>2
      <4> HIDE DEF k
      <4>2. p[Len(d) + 1 + k] = n[k] /\ n[k] # "/"
        BY <1>1, <1>3, <3>2, <4>1
      <4> QED
        BY <3>1, <4>1, <4>2
    <3>5. Len(q) = Len(d)
      BY <1>1, <3>3, <3>4
    <3>6. \A i \in 1..Len(q) : q[i] = d[i]
      BY <1>3, <3>1, <3>2, <3>5
    <3>7. q = d
      BY <1>1, <3>5, <3>6, SeqEqual
    <3> QED
      BY <1>6, <1>9, <3>2, <3>7
  <2>2. ASSUME DirectoryOf(a) = b PROVE IsIn(q, p)
    <3>1. q = d /\ DirectoryOf(a) # ROOT
      BY <1>7, <1>9, <2>2
    <3>2. /\ Len(p) = Len(q) + 1 + Len(n)
          /\ \A i \in 1..Len(q) : p[i] = q[i]
          /\ p[Len(q) + 1] = "/"
          /\ \A i \in 1..Len(n) : p[Len(q) + 1 + i] = n[i]
      BY <1>3, <3>1
    <3>3. IsPrefix(q, p) /\ Len(p) >= Len(q) + 1
      BY <1>1, <1>4, <3>2
    <3>4. \A i \in Len(q) + 2..Len(p) : p[i] # "/"
      <4> TAKE i \in Len(q) + 2..Len(p)
      <4> DEFINE k == i - Len(q) - 1
      <4>1. k \in 1..Len(n) /\ i = Len(q) + 1 + k
        BY <1>1, <3>2
      <4> HIDE DEF k
      <4>2. p[Len(q) + 1 + k] = n[k] /\ n[k] # "/"
        BY <1>1, <3>2, <4>1
      <4> QED
        BY <4>1, <4>2
    <3> QED
      BY <1>1, <1>5, <1>9, <3>2, <3>3, <3>4
  <2> QED
    BY <2>1, <2>2 DEF p, q
<1> QED
  BY <1>8, <1>9

(* A name matches an entry of a directory exactly if it is its name. *)
LEMMA MatchesName ==
  ASSUME IsArchive(archive), NEW a \in Addresses,
         NEW name \in Seq(Chars), \A k \in 1..Len(name) : name[k] # "nul"
  PROVE  Matches(Path(DirectoryOf(a)), a, name) <=> Entry(a).name = name
<1> DEFINE d == Path(DirectoryOf(a))
           n == Entry(a).name
           p == Path(a)
           offset == IF d = <<>> THEN 0 ELSE Len(d) + 1
           rest == SubSeq(p, offset + 1, Len(p))
           z == <<"nul">>
<1>1. /\ p \in Seq(Chars) /\ d \in Seq(Chars) /\ n \in Seq(Chars)
      /\ Len(p) \in Nat /\ Len(d) \in Nat /\ Len(n) \in Nat /\ Len(name) \in Nat
      /\ d = <<>> <=> DirectoryOf(a) = ROOT
      /\ \A i \in 1..Len(n) : n[i] # "nul"
  BY TreeIs, PathType, LenProperties
<1>2. DirectoryOf(a) # ROOT => /\ Len(p) = Len(d) + 1 + Len(n)
                               /\ \A i \in 1..Len(n) : p[Len(d) + 1 + i] = n[i]
  BY EntryPath
<1>3. DirectoryOf(a) = ROOT => p = n
  BY PathIs
<1>4. Matches(d, a, name) <=> IsPrefix(rest \o z, name \o z)
  BY DEF Matches
<1>5. z \in Seq(Chars) /\ Len(z) = 1 /\ z[1] = "nul"
  <2>1. "nul" \in Chars
    BY DEF Chars
  <2> QED
    BY <2>1
<1> HIDE DEF z, p, d, n
<1>6. /\ offset \in Nat /\ Len(p) = offset + Len(n)
      /\ \A i \in 1..Len(n) : p[offset + i] = n[i]
  <2>1. CASE DirectoryOf(a) = ROOT
    <3>1. offset = 0 /\ p = n
      BY <1>1, <1>3, <2>1
    <3> QED
      BY <1>1, <3>1
  <2>2. CASE DirectoryOf(a) # ROOT
    <3>1. offset = Len(d) + 1
      BY <1>1, <2>2
    <3> HIDE DEF offset
    <3> QED
      BY <1>1, <1>2, <2>2, <3>1
  <2> QED
    BY <2>1, <2>2
<1> HIDE DEF offset
<1>7. rest = n
  <2>1. \A i \in offset + 1..Len(p) : p[i] \in Chars
    <3>1. \A i \in 1..Len(p) : p[i] \in Chars
      BY <1>1, ElementOfSeq
    <3> QED
      BY <1>1, <1>6, <3>1
  <2>2. offset + 1 \in Int /\ Len(p) \in Int
    BY <1>1, <1>6
  <2>3. /\ rest \in Seq(Chars)
        /\ Len(rest) = IF offset + 1 <= Len(p) THEN Len(p) - (offset + 1) + 1 ELSE 0
        /\ \A i \in 1..Len(p) - (offset + 1) + 1 : rest[i] = p[offset + 1 + i - 1]
    BY <2>1, <2>2, SubSeqProperties
  <2> HIDE DEF rest
  <2>4. Len(rest) = Len(n)
    BY <1>1, <1>6, <2>3
  <2>5. \A i \in 1..Len(rest) : rest[i] = n[i]
    <3> TAKE i \in 1..Len(rest)
    <3>1. /\ i \in 1..Len(n) /\ i \in 1..Len(p) - (offset + 1) + 1
          /\ offset + 1 + i - 1 = offset + i
      BY <1>1, <1>6, <2>4
    <3> QED
      BY <1>6, <2>3, <3>1
  <2> QED
    BY <1>1, <2>3, <2>4, <2>5, SeqEqual
<1> HIDE DEF rest
<1>8. /\ n \o z \in Seq(Chars) /\ Len(n \o z) = Len(n) + Len(z)
      /\ \A i \in 1..Len(n) + Len(z) : (n \o z)[i] = IF i <= Len(n) THEN n[i] ELSE z[i - Len(n)]
  <2>1. n \in Seq(Chars) /\ z \in Seq(Chars)
    BY <1>1, <1>5
  <2> QED
    BY <2>1, PathsConcat
<1>9. /\ name \o z \in Seq(Chars) /\ Len(name \o z) = Len(name) + Len(z)
      /\ \A i \in 1..Len(name) + Len(z) : (name \o z)[i] = IF i <= Len(name) THEN name[i] ELSE z[i - Len(name)]
  <2>1. z \in Seq(Chars)
    BY <1>5
  <2> QED
    BY <2>1, PathsConcat
<1> DEFINE s == n \o z
           t == name \o z
<1>10. IsPrefix(s, t) <=> Len(s) <= Len(t) /\ \A i \in 1..Len(s) : s[i] = t[i]
  <2>1. s \in Seq(Chars) /\ t \in Seq(Chars)
    BY <1>8, <1>9
  <2> HIDE DEF s, t
  <2> QED
    BY <2>1, PathsPrefix
<1> HIDE DEF s, t
<1>11. /\ Len(s) = Len(n) + 1 /\ Len(t) = Len(name) + 1
       /\ \A i \in 1..Len(n) : s[i] = n[i]
       /\ s[Len(n) + 1] = "nul"
       /\ \A i \in 1..Len(name) : t[i] = name[i]
  <2>1. Len(n) + 1 \in 1..Len(n) + Len(z) /\ Len(n) + 1 - Len(n) = 1 /\ ~(Len(n) + 1 <= Len(n))
    BY <1>1, <1>5
  <2> QED
    BY <1>1, <1>5, <1>8, <1>9, <2>1 DEF s, t
<1>12. ASSUME IsPrefix(s, t) PROVE n = name
  <2>1. Len(n) <= Len(name)
    BY <1>1, <1>10, <1>11, <1>12
  <2>2. ~(Len(n) < Len(name))
    <3> SUFFICES ASSUME Len(n) < Len(name) PROVE FALSE
      OBVIOUS
    <3>1. Len(n) + 1 \in 1..Len(s) /\ Len(n) + 1 \in 1..Len(name)
      BY <1>1, <1>11
    <3>2. s[Len(n) + 1] = t[Len(n) + 1] /\ t[Len(n) + 1] = name[Len(n) + 1]
      BY <1>10, <1>11, <1>12, <3>1
    <3> QED
      BY <1>11, <3>1, <3>2
  <2>3. Len(n) = Len(name)
    BY <1>1, <2>1, <2>2
  <2>4. \A i \in 1..Len(n) : n[i] = name[i]
    <3> TAKE i \in 1..Len(n)
    <3>1. i \in 1..Len(s) /\ i \in 1..Len(name)
      BY <1>1, <1>11, <2>3
    <3> QED
      BY <1>10, <1>11, <1>12, <3>1
  <2> QED
    BY <1>1, <2>3, <2>4, SeqEqual
<1>13. ASSUME n = name PROVE IsPrefix(s, t)
  <2>1. s = t
    BY <1>13 DEF s, t
  <2> QED
    BY <1>1, <1>10, <1>11, <2>1
<1> QED
  BY <1>4, <1>7, <1>12, <1>13 DEF s, t, d, n

(* What next_file_in_dir looks through is what is in the directory, and    *)
(* all of it if jax_next_file sees every entry.                            *)
Entries(b) == {a \in Addresses : DirectoryOf(a) = b}
AllSeen == \A a \in Addresses : jax_next_file(a)

(* The files of a directory that the search at an address can find, all of *)
(* them if the reader sees every entry of the archive.                     *)
LEMMA FilesAre ==
  ASSUME IsArchive(archive), NEW b \in Addresses \cup {ROOT}, NEW from
  PROVE  /\ FilesInDir(b, from) \subseteq {a \in Entries(b) : a >= from /\ next_file(a) = a + 1}
         /\ AllSeen => FilesInDir(b, from) = {a \in Entries(b) : a >= from}
<1>1. \A a \in Addresses : IsIn(Path(b), Path(a)) <=> a \in Entries(b)
  BY InDirectory DEF Entries
<1>2. \A a \in Addresses : (next_file(a) # NULL <=> jax_next_file(a)) /\ (jax_next_file(a) => next_file(a) = a + 1)
  <2> TAKE a \in Addresses
  <2>1. a \in Nat
    BY TreeIs
  <2> QED
    BY <2>1 DEF next_file, NULL
<1>3. Entries(b) \subseteq Addresses
  BY DEF Entries
<1> QED
  BY <1>1, <1>2, <1>3 DEF FilesInDir, AllSeen

(* The first entry of a directory at or behind an address. *)
LEMMA NextInDir ==
  ASSUME IsArchive(archive), NEW b \in Addresses \cup {ROOT}, NEW from \in Nat
  PROVE  LET in == FilesInDir(b, from)
             a  == next_file_in_dir(b, from)
         IN  IF from = 0 \/ in = {} THEN a = NULL
             ELSE a = Min(in) /\ a \in in /\ a # NULL /\ \A c \in in : a <= c
<1> DEFINE in == FilesInDir(b, from)
<1>1. in \in SUBSET Nat /\ NULL \notin in
  BY TreeIs DEF FilesInDir, NULL, ROOT
<1>2. next_file_in_dir(b, from) = IF from < MAGIC \/ in = {} THEN NULL ELSE Min(in)
  BY DEF next_file_in_dir
<1>3. from < MAGIC <=> from = 0
  BY DEF MAGIC
<1> HIDE DEF in
<1>4. in # {} => Min(in) \in in /\ \A c \in in : Min(in) <= c
  BY <1>1, MinIs
<1> QED
  BY <1>1, <1>2, <1>3, <1>4 DEF in

-----------------------------------------------------------------------------
(* What a read answers.                                                    *)

(* The name in a directory entry fits into the room for it. *)
LEMMA NameFits ==
  ASSUME IsArchive(archive), NEW b \in Addresses \cup {ROOT}, NEW a \in Addresses,
         DirectoryOf(a) = b, NEW room \in Nat
  PROVE  Len(EntryName(Path(b), a, room)) \in 0..room
<1> DEFINE dir == Path(b)
           z == <<"nul", "nul">>
           path == Path(a) \o z
           length == IF dir = <<>> THEN Len(Path(a)) ELSE Len(Path(a)) - (Len(dir) - 1)
           offset == IF dir = <<>> THEN 0 ELSE Len(dir) + 1
           m == Min({room, length})
<1>1. EntryName(dir, a, room) = SubSeq(path, offset + 1, offset + m)
  BY DEF EntryName
<1>2. /\ Path(a) \in Seq(Chars) /\ Len(Path(a)) \in Nat /\ Len(dir) \in Nat
      /\ dir = <<>> <=> b = ROOT
  BY PathType
<1>3. z \in Seq(Chars) /\ Len(z) = 2
  <2>1. "nul" \in Chars
    BY DEF Chars
  <2> QED
    BY <2>1
<1> HIDE DEF z
<1>4. path \in Seq(Chars) /\ Len(path) = Len(Path(a)) + 2
  <2>1. path \in Seq(Chars) /\ Len(path) = Len(Path(a)) + Len(z)
    BY <1>2, <1>3, ConcatProperties
  <2> QED
    BY <1>3, <2>1
<1>5. offset \in Nat /\ length \in Nat /\ offset + length <= Len(Path(a)) + 2
  <2>1. CASE b = ROOT
    <3>1. offset = 0 /\ length = Len(Path(a))
      BY <1>2, <2>1
    <3> QED
      BY <1>2, <3>1
  <2>2. CASE b # ROOT
    <3>1. offset = Len(dir) + 1 /\ length = Len(Path(a)) - (Len(dir) - 1)
      BY <1>2, <2>2
    <3> DEFINE k == Len(Entry(a).name)
    <3>2. k \in Nat /\ Len(Path(a)) = Len(dir) + 1 + k
      BY <2>2, TreeIs, EntryPath
    <3> HIDE DEF offset, length, k, dir
    <3> QED
      BY <1>2, <3>1, <3>2
  <2> QED
    BY <2>1, <2>2
<1> HIDE DEF path, offset, length
<1>6. m \in Nat /\ m <= room /\ m <= length
  <2>1. {room, length} \in SUBSET Nat /\ {room, length} # {}
    BY <1>5
  <2>2. m \in {room, length} /\ \A x \in {room, length} : m <= x
    BY <2>1, MinIs
  <2> QED
    BY <1>5, <2>2
<1> HIDE DEF m
<1>7. \A i \in offset + 1..offset + m : path[i] \in Chars
  <2>1. \A i \in 1..Len(path) : path[i] \in Chars
    BY <1>4, ElementOfSeq
  <2> QED
    BY <1>2, <1>4, <1>5, <1>6, <2>1
<1>8. offset + 1 \in Int /\ offset + m \in Int
  BY <1>5, <1>6
<1>9. Len(SubSeq(path, offset + 1, offset + m)) =
        IF offset + 1 <= offset + m THEN (offset + m) - (offset + 1) + 1 ELSE 0
  BY <1>7, <1>8, SubSeqProperties
<1>10. Len(SubSeq(path, offset + 1, offset + m)) = m
  BY <1>5, <1>6, <1>9
<1>11. Len(EntryName(dir, a, room)) = m
  BY <1>1, <1>10, Zenon
<1> QED
  BY <1>6, <1>11

(* Where a read of a directory starts to look. *)
From(b, position) == IF position # 0 THEN position ELSE IF b = ROOT THEN START ELSE b

(* A read of a directory gives the first of its entries at or behind the   *)
(* position, and where to go on.                                           *)
LEMMA DirectoryRead ==
  ASSUME IsArchive(archive), NEW b \in Addresses \cup {ROOT},
         NEW position \in Nat, NEW size \in Nat
  PROVE  LET r  == read_directory(b, position, size)
             in == FilesInDir(b, From(b, position))
         IN  /\ r.bytes \in Nat /\ r.next \in Nat /\ r.data \in Seq(Nat)
             /\ r.bytes <= size \/ r.bytes <= HEADER
             /\ IF From(b, position) < START \/ in = {}
                THEN r.data = <<>> /\ r.next = 0
                ELSE /\ Min(in) \in in /\ \A c \in in : Min(in) <= c
                     /\ r.data = <<Min(in)>>
                     /\ r.next = IF FilesInDir(b, Min(in) + 1) = {} THEN 0 ELSE Min(in) + 1
<1> DEFINE from == From(b, position)
           a    == next_file_in_dir(b, from)
           in   == FilesInDir(b, from)
           room == Max({size, HEADER}) - HEADER
           name == EntryName(Path(b), a, room)
           next == IF next_file_in_dir(b, next_file(a)) = NULL THEN 0 ELSE next_file(a)
           r    == read_directory(b, position, size)
<1>1. from \in Nat
  BY TreeIs DEF From, START, MAGIC, ROOT
<1>2. r = IF from < START \/ a = NULL THEN Error("EINVAL")
          ELSE [Zero EXCEPT !.bytes = HEADER + Len(name), !.data = <<a>>, !.name = name, !.next = next]
  BY DEF read_directory, From
<1>3. IF from = 0 \/ in = {} THEN a = NULL
      ELSE a = Min(in) /\ a \in in /\ a # NULL /\ \A c \in in : a <= c
  BY <1>1, NextInDir
<1>4. in \subseteq {c \in Entries(b) : c >= from /\ next_file(c) = c + 1}
  BY FilesAre
<1>5. HEADER \in Nat
  BY InitrdAssumption
<1> HIDE DEF from, in
<1>6. from = 0 => from < START
  BY DEF START, MAGIC
<1>7. CASE from < START \/ in = {}
  <2>1. r = Error("EINVAL")
    BY <1>2, <1>3, <1>7
  <2>2. r.bytes = 0 /\ r.next = 0 /\ r.data = <<>>
    BY <2>1 DEF Error, Zero
  <2>3. <<>> \in Seq(Nat)
    BY EmptySeq
  <2> QED
    BY <1>5, <1>7, <2>2, <2>3 DEF from, in
<1>8. CASE ~(from < START \/ in = {})
  <2>1. a = Min(in) /\ a \in in /\ a # NULL /\ \A c \in in : a <= c
    BY <1>3, <1>6, <1>8
  <2>2. a \in Addresses /\ DirectoryOf(a) = b /\ next_file(a) = a + 1
    BY <1>4, <2>1 DEF Entries
  <2>3. a \in Nat
    BY <2>2, TreeIs
  <2>4. r = [Zero EXCEPT !.bytes = HEADER + Len(name), !.data = <<a>>, !.name = name, !.next = next]
    BY <1>2, <1>8, <2>1
  <2> HIDE DEF r, name, a, next
  <2>5. r.bytes = HEADER + Len(name) /\ r.data = <<a>> /\ r.next = next
    BY <2>4 DEF Zero
  <2>6. room \in Nat /\ (HEADER + room = size \/ HEADER + room = HEADER)
    <3> DEFINE m == Max({size, HEADER})
    <3>1. m \in {size, HEADER} /\ m >= HEADER
      <4>1. \E x \in {size, HEADER} : \A y \in {size, HEADER} : x >= y
        BY <1>5
      <4> QED
        BY <4>1 DEF Max
    <3> HIDE DEF m
    <3> QED
      BY <1>5, <3>1 DEF m
  <2> HIDE DEF room
  <2>7. Len(name) \in 0..room
    BY <2>2, <2>6, NameFits DEF name
  <2>8. r.bytes \in Nat /\ (r.bytes <= size \/ r.bytes <= HEADER)
    BY <1>5, <2>5, <2>6, <2>7
  <2>9. next = IF FilesInDir(b, a + 1) = {} THEN 0 ELSE a + 1
    <3>1. IF a + 1 = 0 \/ FilesInDir(b, a + 1) = {} THEN next_file_in_dir(b, a + 1) = NULL
          ELSE next_file_in_dir(b, a + 1) # NULL
      <4>1. a + 1 \in Nat
        BY <2>3
      <4> DEFINE c == a + 1
      <4> HIDE DEF c
      <4>2. IF c = 0 \/ FilesInDir(b, c) = {} THEN next_file_in_dir(b, c) = NULL
            ELSE next_file_in_dir(b, c) # NULL
        BY <4>1, NextInDir DEF c
      <4> QED
        BY <4>2 DEF c
    <3>2. a + 1 # 0
      BY <2>3
    <3> QED
      BY <2>2, <3>1, <3>2 DEF next
  <2>10. r.next \in Nat /\ r.data \in Seq(Nat)
    BY <2>3, <2>5, <2>9
  <2> QED
    BY <1>8, <2>1, <2>5, <2>8, <2>9, <2>10 DEF r, from, in
<1> QED
  BY <1>7, <1>8

(* A read of a file gives the bytes at the position, as many as there are. *)
LEMMA FileRead ==
  ASSUME IsArchive(archive), NEW b \in Addresses, NEW position \in Nat, NEW size \in Nat
  PROVE  LET r == read_file(b, position, size)
         IN  /\ r.bytes \in Nat /\ r.next = 0 /\ r.data \in Seq(Nat)
             /\ r.bytes <= size
             /\ r.data = [i \in 1..r.bytes |-> position + i]
             /\ r.bytes = 0 \/ position + r.bytes <= Entry(b).size
             /\ r.bytes = 0 /\ size > 0 => position >= Entry(b).size
<1> DEFINE e == Entry(b).size
           n == IF position >= e THEN 0 ELSE IF position + size >= e THEN e - position ELSE size
           r == read_file(b, position, size)
<1>1. e \in Nat
  BY TreeIs
<1>2. r = [Zero EXCEPT !.bytes = n, !.data = [i \in 1..n |-> position + i]]
  BY DEF read_file
<1> HIDE DEF n, e, r
<1>3. n \in Nat /\ n <= size /\ (n = 0 \/ position + n <= e) /\ (n = 0 /\ size > 0 => position >= e)
  BY <1>1 DEF n
<1>4. r.bytes = n /\ r.data = [i \in 1..n |-> position + i] /\ r.next = 0
  BY <1>2 DEF Zero
<1>5. [i \in 1..n |-> position + i] \in Seq(Nat)
  BY <1>3
<1> QED
  BY <1>3, <1>4, <1>5 DEF e, r

-----------------------------------------------------------------------------
(* What every message keeps.                                               *)

Walk == [position : Nat, seen : Seq(Nat), ended : BOOLEAN, inode : Nat]
BaseInv ==
  /\ IsArchive(archive)
  /\ "empty_last" \notin Calls => AllSeen
  /\ held \subseteq Addresses \cup {ROOT}
  /\ walks \in [held -> Walk]

(* A read of `asked` bytes at a position. *)
ReadStep(b, position, asked) ==
  LET reply == handle_read(b, position, asked)
      on    == position = walks[b].position \/ (Type(b) = "directory" /\ position = 0)
  IN  /\ b \in held /\ position \in Positions(b)
      /\ asked \in Nat
      /\ archive' = archive
      /\ walks' = IF on THEN [walks EXCEPT ![b] = Progress(@, b, position, asked, reply)] ELSE walks
      /\ last'.message.call # "FD_OPEN"

StatStep(b) ==
  /\ b \in held
  /\ b = ROOT => "root_stat" \in Calls
  /\ archive' = archive
  /\ walks' = [walks EXCEPT ![b].inode = IF b = ROOT THEN START ELSE b]
  /\ last'.message.call # "FD_OPEN"

OpenStep(b, names, name, flags, mode, taken) ==
  /\ b \in held /\ name \in Name
  /\ FdOpen(b, names, name, flags, mode, taken)

QuietStep ==
  /\ archive' = archive
  /\ walks' = walks
  /\ last'.message.call # "FD_OPEN"

(* Every message is one of these. *)
LEMMA Steps ==
  ASSUME Next
  PROVE  \/ \E b, position, asked : ReadStep(b, position, asked)
         \/ \E b : StatStep(b)
         \/ \E b, names, name, flags, mode, taken : OpenStep(b, names, name, flags, mode, taken)
         \/ QuietStep
<1>1. ASSUME NEW b \in held, NEW position \in Positions(b), NEW size \in Nat, NEW limit \in Nat,
             NEW call, call # "FD_OPEN", NEW received,
             Reading(Message(b, call), b, position, size, limit, received)
      PROVE  ReadStep(b, position, Asked(size, limit))
  <2>1. Asked(size, limit) \in Nat
    BY DEF Asked
  <2> DEFINE asked == Asked(size, limit)
             reply == handle_read(b, position, asked)
             on    == position = walks[b].position \/ (Type(b) = "directory" /\ position = 0)
  <2>2. /\ Served(Message(b, call), received, reply, TRUE)
        /\ walks' = IF on THEN [walks EXCEPT ![b] = Progress(@, b, position, asked, reply)] ELSE walks
    BY <1>1, Zenon DEF Reading
  <2> HIDE DEF reply, on, asked
  <2>3. last' = [message |-> Message(b, call), reply |-> reply] /\ archive' = archive
    BY <2>2 DEF Served
  <2>4. last'.message.call = call
    BY <2>3 DEF Message
  <2> QED
    BY <1>1, <2>1, <2>2, <2>3, <2>4, Zenon DEF ReadStep, reply, on, asked
<1>2. ASSUME NEW b \in held, NEW position \in Positions(b), NEW size \in Size, FdReadFast(b, position, size)
      PROVE  ReadStep(b, position, Asked(size, FD_READ_FAST_MAX_SIZE))
  <2>1. size \in Nat /\ FD_READ_FAST_MAX_SIZE \in Nat
    BY InitrdAssumption
  <2>2. Reading(Message(b, "FD_READ_FAST"), b, position, size, FD_READ_FAST_MAX_SIZE, {0})
    BY <1>2, Zenon DEF FdReadFast
  <2> QED
    BY <1>1, <2>1, <2>2
<1>3. ASSUME NEW b \in held, NEW position \in Positions(b), NEW size \in Size, NEW capacity \in Capacity,
             FdRead(b, position, size, capacity)
      PROVE  ReadStep(b, position, Asked(size, capacity))
  <2>1. size \in Nat /\ capacity \in Nat
    BY InitrdAssumption
  <2>2. Reading(Message(b, "FD_READ"), b, position, size, capacity, {0, 1})
    BY <1>3, Zenon DEF FdRead
  <2> QED
    BY <1>1, <2>1, <2>2
<1>4. ASSUME NEW b, NEW position, NEW size, FdReadNoBuffer(b, position, size) PROVE QuietStep
  <2>1. PICK reply : last' = [message |-> Message(b, "FD_READ"), reply |-> reply] /\ archive' = archive
    BY <1>4 DEF FdReadNoBuffer, Served
  <2>2. last'.message.call # "FD_OPEN"
    BY <2>1 DEF Message
  <2> QED
    BY <1>4, <2>1, <2>2 DEF FdReadNoBuffer, QuietStep
<1>5. ASSUME NEW b \in held, FdStat(b) PROVE StatStep(b)
  <2>1. last' = [message |-> Message(b, "FD_STAT"), reply |-> Zero] /\ archive' = archive
    BY <1>5 DEF FdStat, Served
  <2>2. last'.message.call # "FD_OPEN"
    BY <2>1 DEF Message
  <2>3. (b = ROOT => "root_stat" \in Calls) /\ walks' = [walks EXCEPT ![b].inode = IF b = ROOT THEN START ELSE b]
    BY <1>5 DEF FdStat
  <2> QED
    BY <1>5, <2>1, <2>2, <2>3 DEF StatStep
<1>6. ASSUME NEW b, NEW received,
             NEW call \in {"FD_WRITE", "FD_WRITE_FAST", "FD_LINK", "FD_UNLINK", "FD_TRUNCATE",
                           "FD_MOUNT", "FD_UNMOUNT", "other"},
             Unsupported(b, call, received)
      PROVE  QuietStep
  <2>1. PICK reply : last' = [message |-> Message(b, call), reply |-> reply] /\ archive' = archive
    BY <1>6 DEF Unsupported, Served
  <2>2. last'.message.call # "FD_OPEN"
    BY <2>1 DEF Message
  <2> QED
    BY <1>6, <2>1, <2>2 DEF Unsupported, QuietStep
<1>7. ASSUME NEW b \in held, NEW name \in Name, NEW names, NEW flags, NEW mode, NEW taken,
             FdOpen(b, names, name, flags, mode, taken)
      PROVE  OpenStep(b, names, name, flags, mode, taken)
  BY <1>7 DEF OpenStep
<1>8. PICK b \in held :
    \/ \E position \in Positions(b), size \in Size :
         \/ FdReadFast(b, position, size)
         \/ \E capacity \in Capacity : FdRead(b, position, size, capacity)
         \/ FdReadNoBuffer(b, position, size)
    \/ FdStat(b)
    \/ \E name \in Name, flags \in SUBSET {"OPEN_CREATE", "OPEN_EXCLUSIVE"},
          mode \in {"MODE_READ", "MODE_WRITE", "MODE_APPEND"}, taken \in BOOLEAN :
         \E names \in {{}, {name}} : FdOpen(b, names, name, flags, mode, taken)
    \/ \E call \in {"FD_WRITE", "FD_WRITE_FAST", "FD_LINK", "FD_UNLINK", "FD_TRUNCATE",
                    "FD_MOUNT", "FD_UNMOUNT", "other"}, received \in MaySend :
         Unsupported(b, call, received)
  BY Zenon DEF Next
<1>9. CASE \E position \in Positions(b), size \in Size : FdReadFast(b, position, size)
  BY <1>2, <1>9, Zenon
<1>10. CASE \E position \in Positions(b), size \in Size, capacity \in Capacity :
              FdRead(b, position, size, capacity)
  <2>1. PICK position \in Positions(b), size \in Size, capacity \in Capacity :
          FdRead(b, position, size, capacity)
    BY <1>10
  <2>2. ReadStep(b, position, Asked(size, capacity))
    BY <1>3, <2>1
  <2> QED
    BY <2>2, Zenon
<1>11. CASE \E name \in Name, flags \in SUBSET {"OPEN_CREATE", "OPEN_EXCLUSIVE"},
               mode \in {"MODE_READ", "MODE_WRITE", "MODE_APPEND"}, taken \in BOOLEAN :
              \E names \in {{}, {name}} : FdOpen(b, names, name, flags, mode, taken)
  <2>1. PICK name \in Name : \E names, flags, mode, taken : FdOpen(b, names, name, flags, mode, taken)
    BY <1>11, Zenon
  <2>2. \E names, flags, mode, taken : OpenStep(b, names, name, flags, mode, taken)
    BY <1>7, <2>1, Zenon
  <2> QED
    BY <2>2, Zenon
<1>12. CASE \E call \in {"FD_WRITE", "FD_WRITE_FAST", "FD_LINK", "FD_UNLINK", "FD_TRUNCATE",
                         "FD_MOUNT", "FD_UNMOUNT", "other"}, received \in MaySend :
              Unsupported(b, call, received)
  BY <1>6, <1>12, Zenon
<1>13. CASE \E position \in Positions(b), size \in Size : FdReadNoBuffer(b, position, size)
  BY <1>4, <1>13, Zenon
<1> QED
  BY <1>5, <1>8, <1>9, <1>10, <1>11, <1>12, <1>13, Zenon

(* What handle_open looks for. *)
Found(b, name) ==
  LET from == IF b = ROOT THEN START ELSE next_file(b)
  IN  {a \in FilesInDir(b, from) : from # NULL /\ Matches(Path(b), a, name)}

(* What an open answers. *)
LEMMA OpenReply ==
  ASSUME IsArchive(archive), NEW b \in Addresses \cup {ROOT}, NEW name, NEW flags, NEW mode
  PROVE  LET r == handle_open(b, name, flags, mode)
             found == Found(b, name)
         IN  /\ r.fd = {} \/ (Type(b) = "directory" /\ r.fd = {Min(found)} /\ Min(found) \in found)
             /\ r.status = "ok" => r.fd # {}
             /\ r.status = "ENOENT" => Type(b) = "directory" /\ found = {}
             /\ \/ r.status \in {"ok", "ENOENT", "EROFS", "ENOTSUP"}
                \/ TEMPORARY \in node
<1> DEFINE r == handle_open(b, name, flags, mode)
           found == Found(b, name)
           writes == "OPEN_EXCLUSIVE" \in flags \/ mode \in {"MODE_WRITE", "MODE_APPEND"}
           rest == IF found = {}
                   THEN Error(IF "OPEN_CREATE" \in flags THEN "EROFS" ELSE "ENOENT")
                   ELSE IF TEMPORARY \in node
                   THEN Error("ECAPEXISTS")
                   ELSE [Zero EXCEPT !.fd = {Min(found)}]
<1>1. r = CASE Type(b) # "directory" -> Error("ENOTSUP")
            [] Type(b) = "directory" /\ writes -> Error("EROFS")
            [] OTHER -> rest
  BY Zenon DEF handle_open, Found
<1>2. found \in SUBSET Nat
  BY FilesAre, TreeIs DEF Found, Entries
<1>3. found # {} => Min(found) \in found
  BY <1>2, MinIs
<1>4. \A e : Error(e).fd = {} /\ Error(e).status = e
  BY DEF Error, Zero
<1>5. LET z == [Zero EXCEPT !.fd = {Min(found)}]
      IN  z.fd = {Min(found)} /\ z.status = "ok"
  BY DEF Zero
<1> HIDE DEF r, found, writes
<1>6. CASE Type(b) # "directory"
  <2>1. r = Error("ENOTSUP")
    BY <1>1, <1>6
  <2> QED
    BY <1>4, <2>1 DEF r, found
<1>7. CASE Type(b) = "directory" /\ writes
  <2>1. r = Error("EROFS")
    BY <1>1, <1>7
  <2> QED
    BY <1>4, <2>1 DEF r, found
<1>8. CASE Type(b) = "directory" /\ ~writes
  <2>1. r = rest
    BY <1>1, <1>8
  <2>3. CASE found = {}
    <3>1. r = Error("EROFS") \/ r = Error("ENOENT")
      BY <2>1, <2>3
    <3> QED
      BY <1>4, <1>8, <2>3, <3>1 DEF r, found
  <2>4. CASE found # {} /\ TEMPORARY \in node
    <3>1. r = Error("ECAPEXISTS")
      BY <2>1, <2>4
    <3> QED
      BY <1>4, <2>4, <3>1 DEF r, found
  <2>5. CASE found # {} /\ TEMPORARY \notin node
    <3>1. r = [Zero EXCEPT !.fd = {Min(found)}]
      BY <2>1, <2>5
    <3>2. r.fd = {Min(found)} /\ r.status = "ok"
      BY <1>5, <3>1
    <3> QED
      BY <1>3, <1>8, <2>5, <3>2 DEF r, found
  <2> QED
    BY <2>3, <2>4, <2>5
<1> QED
  BY <1>6, <1>7, <1>8

(* An open opens nothing or an entry, and changes no other descriptor. *)
LEMMA OpenEffect ==
  ASSUME BaseInv, NEW b, NEW names, NEW name, NEW flags, NEW mode, NEW taken,
         OpenStep(b, names, name, flags, mode, taken)
  PROVE  /\ archive' = archive
         /\ \E G \in SUBSET Addresses :
              walks' = [f \in held \cup G |-> IF f \in held THEN walks[f] ELSE NotRead]
<1> DEFINE reply == handle_open(b, name, flags, mode)
<1>1. FdOpen(b, names, name, flags, mode, taken) /\ b \in Addresses \cup {ROOT} /\ IsArchive(archive)
  BY DEF OpenStep, BaseInv
<1>2. reply.fd = {} \/ (reply.fd = {Min(Found(b, name))} /\ Min(Found(b, name)) \in Found(b, name))
  BY <1>1, OpenReply
<1>3. Found(b, name) \subseteq Addresses
  BY <1>1, FilesAre DEF Found, Entries
<1>4. /\ archive' = archive
      /\ walks' = [f \in held \cup Given(reply, taken) |-> IF f \in held THEN walks[f] ELSE NotRead]
  BY <1>1, Zenon DEF FdOpen, Served
<1> HIDE DEF reply
<1>5. Given(reply, taken) \subseteq Addresses
  BY <1>2, <1>3 DEF Given
<1> QED
  BY <1>4, <1>5

(* What a read does to the holder's progress. *)
Progressed(b, position, asked, w) ==
  LET r == handle_read(b, position, asked)
      v == walks[b]
  IN  /\ w \in Walk
      /\ w.inode = v.inode
      /\ IF Type(b) = "directory"
         THEN /\ w.seen = (IF position = 0 THEN <<>> ELSE v.seen) \o r.data
              /\ w.position = r.next
              /\ w.ended = (r.next = 0)
         ELSE /\ w.seen = v.seen \o r.data
              /\ w.position = v.position + r.bytes
              /\ w.ended = (r.bytes = 0 /\ asked > 0)

(* Positions, and what is read at them. *)
LEMMA ReadTypes ==
  ASSUME BaseInv, NEW b \in held, NEW position \in Positions(b), NEW asked \in Nat
  PROVE  /\ b \in Addresses \cup {ROOT} /\ position \in Nat /\ walks[b] \in Walk
         /\ Type(b) # "directory" => b \in Addresses
         /\ handle_read(b, position, asked) = IF Type(b) = "directory" THEN read_directory(b, position, asked)
                                              ELSE read_file(b, position, asked)
         /\ LET r == handle_read(b, position, asked)
            IN  r.bytes \in Nat /\ r.next \in Nat /\ r.data \in Seq(Nat)
<1>1. b \in Addresses \cup {ROOT} /\ walks[b] \in Walk /\ IsArchive(archive)
  BY DEF BaseInv
<1>2. Type(b) # "directory" => b \in Addresses
  BY <1>1 DEF Type
<1>3. handle_read(b, position, asked) = IF Type(b) = "directory" THEN read_directory(b, position, asked)
                                        ELSE read_file(b, position, asked)
  BY DEF handle_read
<1>4. position \in Nat
  <2>1. Len(archive) \in Nat /\ (b \in Addresses => Entry(b).size \in Nat)
    BY <1>1, TreeIs
  <2>2. walks[b].position \in Nat
    BY <1>1 DEF Walk
  <2>3. MAGIC \in Nat /\ End \in Nat
    BY <2>1 DEF MAGIC, End, START
  <2>4. CASE Type(b) = "directory"
    BY <2>2, <2>3, <2>4 DEF Positions
  <2>5. CASE Type(b) # "directory"
    BY <1>2, <2>1, <2>5 DEF Positions
  <2> QED
    BY <2>4, <2>5
<1>5. CASE Type(b) = "directory"
  <2> DEFINE r == read_directory(b, position, asked)
  <2>1. r.bytes \in Nat /\ r.next \in Nat /\ r.data \in Seq(Nat)
    BY <1>1, <1>4, DirectoryRead
  <2> HIDE DEF r
  <2> QED
    BY <1>1, <1>2, <1>3, <1>4, <1>5, <2>1 DEF r
<1>6. CASE Type(b) # "directory"
  <2> DEFINE r == read_file(b, position, asked)
  <2>1. r.bytes \in Nat /\ r.next = 0 /\ r.data \in Seq(Nat)
    BY <1>1, <1>2, <1>4, <1>6, FileRead
  <2> HIDE DEF r
  <2> QED
    BY <1>1, <1>2, <1>3, <1>4, <1>6, <2>1 DEF r
<1> QED
  BY <1>5, <1>6

(* A read changes at most the progress of the descriptor it is for, if it  *)
(* was at the position where the holder was, or at the start.              *)
LEMMA ReadEffect ==
  ASSUME BaseInv, NEW b, NEW position, NEW asked, ReadStep(b, position, asked)
  PROVE  /\ archive' = archive
         /\ \/ walks' = walks
            \/ /\ position = walks[b].position \/ (Type(b) = "directory" /\ position = 0)
               /\ \E w \in Walk : walks' = [walks EXCEPT ![b] = w] /\ Progressed(b, position, asked, w)
<1> DEFINE r == handle_read(b, position, asked)
           v == walks[b]
           w == Progress(v, b, position, asked, r)
           on == position = v.position \/ (Type(b) = "directory" /\ position = 0)
<1>1. /\ b \in held /\ position \in Positions(b) /\ asked \in Nat /\ archive' = archive
      /\ walks' = IF on THEN [walks EXCEPT ![b] = w] ELSE walks
  BY DEF ReadStep
<1>2. v \in Walk /\ r.bytes \in Nat /\ r.next \in Nat /\ r.data \in Seq(Nat)
  BY <1>1, ReadTypes
<1> DEFINE dir == Type(b) = "directory"
           sofar == IF dir /\ position = 0 THEN <<>> ELSE v.seen
           ended == IF dir THEN r.next = 0 ELSE r.bytes = 0 /\ asked > 0
           at == IF dir THEN r.next ELSE v.position + r.bytes
<1>3. w = [v EXCEPT !.seen = sofar \o r.data, !.ended = ended, !.position = at]
  BY DEF Progress
<1> HIDE DEF r, v, w
<1>4. /\ v.position \in Nat /\ v.seen \in Seq(Nat) /\ v.ended \in BOOLEAN /\ v.inode \in Nat
      /\ v = [position |-> v.position, seen |-> v.seen, ended |-> v.ended, inode |-> v.inode]
  BY <1>2 DEF Walk
<1>5. sofar \in Seq(Nat) /\ at \in Nat /\ ended \in BOOLEAN
  <2>1. <<>> \in Seq(Nat)
    BY EmptySeq
  <2>2. sofar \in Seq(Nat)
    BY <1>4, <2>1
  <2>3. at \in Nat
    BY <1>2, <1>4
  <2>4. ended \in BOOLEAN
    BY Zenon
  <2> QED
    BY <2>2, <2>3, <2>4
<1>6. sofar \o r.data \in Seq(Nat)
  BY <1>2, <1>5, ConcatProperties
<1> DEFINE s == sofar \o r.data
<1> HIDE DEF s, sofar, at, ended
<1>7. w = [position |-> at, seen |-> s, ended |-> ended, inode |-> v.inode]
  BY <1>3, <1>4 DEF s
<1>8. w \in Walk
  BY <1>4, <1>5, <1>6, <1>7 DEF Walk, s
<1>9. w.inode = v.inode /\ w.seen = s /\ w.position = at /\ w.ended = ended
  BY <1>7
<1>10. Progressed(b, position, asked, w)
  <2>1. CASE dir
    BY <1>8, <1>9, <2>1 DEF Progressed, r, v, s, sofar, at, ended
  <2>2. CASE ~dir
    BY <1>8, <1>9, <2>2 DEF Progressed, r, v, s, sofar, at, ended
  <2> QED
    BY <2>1, <2>2
<1> QED
  BY <1>1, <1>8, <1>10 DEF v

(* The archive is the same, so are all that is said of it. *)
LEMMA ArchiveKept ==
  ASSUME archive' = archive
  PROVE  /\ IsArchive(archive)' <=> IsArchive(archive)
         /\ AllSeen' <=> AllSeen
         /\ Addresses' = Addresses
         /\ \A b : Type(b)' = Type(b) /\ DirectoryOf(b)' = DirectoryOf(b) /\ Entries(b)' = Entries(b)
         /\ \A b : Entry(b)' = Entry(b) /\ Contents(b)' = Contents(b)
<1>1. Addresses' = Addresses /\ End' = End
  BY DEF Addresses, End
<1>2. \A b : Entry(b)' = Entry(b)
  BY DEF Entry
<1>3. \A b : Type(b)' = Type(b) /\ DirectoryOf(b)' = DirectoryOf(b)
  BY <1>2 DEF Type, DirectoryOf
<1>4. \A b : jax_next_file(b)' <=> jax_next_file(b)
  BY <1>1, <1>2 DEF jax_next_file
<1>5. \A b : Entries(b)' = Entries(b)
  BY <1>1, <1>3 DEF Entries
<1>6. \A b : Contents(b)' = Contents(b)
  BY <1>2, <1>3, <1>5 DEF Contents, Entries
<1> QED
  BY <1>1, <1>2, <1>3, <1>4, <1>5, <1>6 DEF AllSeen

(* The server starts with the archive and the root's descriptor. *)
LEMMA BaseInitially == ASSUME Init PROVE BaseInv
<1>1. IsArchive(archive)
  BY InitrdAssumption DEF Init
<1>2. ASSUME "empty_last" \notin Calls PROVE AllSeen
  <2> SUFFICES ASSUME NEW a \in Addresses, a = End - 1 PROVE Entry(a).size > 0
    BY DEF AllSeen, jax_next_file
  <2>1. Len(archive) \in Nat /\ a \in Nat /\ a >= START /\ Entry(a).size \in Nat
    BY <1>1, TreeIs
  <2>2. a - START + 1 = Len(archive) /\ Len(archive) > 0
    BY <2>1 DEF End, START, MAGIC
  <2>3. archive[Len(archive)].size # 0
    BY <1>2, <2>2 DEF Init
  <2> QED
    BY <2>1, <2>2, <2>3 DEF Entry
<1>3. walks = [b \in {ROOT} |-> NotRead] /\ held = {ROOT}
  BY DEF Init, held
<1>4. NotRead \in Walk
  <2>1. <<>> \in Seq(Nat)
    BY EmptySeq
  <2> QED
    BY <2>1 DEF NotRead, Walk, NULL
<1> QED
  BY <1>1, <1>2, <1>3, <1>4 DEF BaseInv

(* Every message keeps the types of the walks, and the archive. *)
LEMMA BaseKept == ASSUME BaseInv, [Next]_vars PROVE BaseInv'
<1>1. ASSUME archive' = archive, walks' \in [held' -> Walk], held' \subseteq Addresses \cup {ROOT}
      PROVE  BaseInv'
  BY <1>1, ArchiveKept DEF BaseInv
<1>2. held \subseteq Addresses \cup {ROOT} /\ walks \in [held -> Walk]
  BY DEF BaseInv
<1>3. ASSUME archive' = archive, walks' = walks PROVE BaseInv'
  BY <1>1, <1>2, <1>3 DEF held
<1>4. ASSUME archive' = archive, NEW b \in held, NEW w \in Walk, walks' = [walks EXCEPT ![b] = w]
      PROVE  BaseInv'
  <2>1. held' = held /\ walks' \in [held -> Walk]
    BY <1>2, <1>4 DEF held
  <2> QED
    BY <1>1, <1>2, <1>4, <2>1
<1>5. CASE UNCHANGED vars
  BY <1>3, <1>5 DEF vars
<1>6. ASSUME NEW b, NEW position, NEW asked, ReadStep(b, position, asked) PROVE BaseInv'
  <2>1. b \in held
    BY <1>6 DEF ReadStep
  <2> QED
    BY <1>3, <1>4, <1>6, <2>1, ReadEffect
<1>7. ASSUME NEW b, StatStep(b) PROVE BaseInv'
  <2> DEFINE i == IF b = ROOT THEN START ELSE b
             w == [walks[b] EXCEPT !.inode = i]
  <2>1. b \in held /\ archive' = archive /\ walks' = [walks EXCEPT ![b].inode = i]
    BY <1>7 DEF StatStep
  <2>2. i \in Nat
    BY <1>2, <2>1, TreeIs DEF BaseInv, START, MAGIC
  <2>3. walks[b] \in Walk
    BY <1>2, <2>1
  <2> HIDE DEF i
  <2>4. w \in Walk
    BY <2>2, <2>3 DEF Walk
  <2>5. walks' = [walks EXCEPT ![b] = w]
    BY <2>1
  <2> QED
    BY <1>4, <2>1, <2>4, <2>5
<1>8. ASSUME NEW b, NEW names, NEW name, NEW flags, NEW mode, NEW taken,
             OpenStep(b, names, name, flags, mode, taken)
      PROVE  BaseInv'
  <2>1. archive' = archive
    BY <1>8, OpenEffect
  <2>2. PICK G \in SUBSET Addresses :
          walks' = [f \in held \cup G |-> IF f \in held THEN walks[f] ELSE NotRead]
    BY <1>8, OpenEffect
  <2>3. held' = held \cup G
    BY <2>2 DEF held
  <2>4. NotRead \in Walk
    <3>1. <<>> \in Seq(Nat)
      BY EmptySeq
    <3> QED
      BY <3>1 DEF NotRead, Walk, NULL
  <2>5. walks' \in [held' -> Walk]
    BY <1>2, <2>2, <2>3, <2>4
  <2> QED
    BY <1>1, <1>2, <2>1, <2>3, <2>5
<1>9. ASSUME QuietStep PROVE BaseInv'
  BY <1>3, <1>9 DEF QuietStep
<1>10. CASE Next
  BY <1>6, <1>7, <1>8, <1>9, <1>10, Steps, Zenon
<1> QED
  BY <1>5, <1>10

-----------------------------------------------------------------------------
(* Increasing sequences.                                                   *)

Ordered(S, s) == s \in [1..Cardinality(S) -> S] /\ Increasing(s) /\ Range(s) = S

(* A finite set of numbers can be put in order: by the least size for      *)
(* which one cannot, and the least number of such a set.                   *)
LEMMA InOrderIs ==
  ASSUME NEW S \in SUBSET Nat, IsFiniteSet(S)
  PROVE  Ordered(S, InOrder(S)) /\ Cardinality(S) \in Nat
<1> DEFINE Bad == {n \in Nat : \E T \in SUBSET S : Cardinality(T) = n /\ ~ \E s : Ordered(T, s)}
<1>1. \A T \in SUBSET S : IsFiniteSet(T) /\ Cardinality(T) \in Nat
  BY FS_Subset, FS_CardinalityType
<1>2. Bad = {}
  <2> SUFFICES ASSUME Bad # {} PROVE FALSE
    OBVIOUS
  <2>1. PICK n \in Bad : \A m \in Bad : n <= m
    BY LeastNat
  <2>2. PICK T \in SUBSET S : Cardinality(T) = n /\ ~ \E s : Ordered(T, s)
    BY <2>1
  <2>3. n \in Nat /\ IsFiniteSet(T) /\ T \in SUBSET Nat
    BY <1>1, <2>1, <2>2
  <2>4. T # {}
    <3> SUFFICES ASSUME T = {} PROVE FALSE
      OBVIOUS
    <3>1. Cardinality(T) = 0
      BY FS_EmptySet
    <3> DEFINE s == [i \in 1..0 |-> i]
    <3>2. s \in [1..0 -> T] /\ Increasing(s) /\ Range(s) = T
      BY DEF Increasing, Range
    <3>3. Ordered(T, s)
      BY <3>1, <3>2 DEF Ordered
    <3> QED
      BY <2>2, <3>3
  <2>5. PICK m \in T : \A x \in T : m <= x
    BY <2>3, <2>4, LeastNat
  <2> DEFINE U == T \ {m}
  <2>6. IsFiniteSet(U) /\ Cardinality(U) = n - 1 /\ U \in SUBSET S
    BY <2>2, <2>3, <2>5, FS_RemoveElement
  <2>7. n - 1 \in Nat /\ n - 1 < n
    BY <1>1, <2>3, <2>6
  <2>8. PICK s : Ordered(U, s)
    BY <2>1, <2>3, <2>6, <2>7
  <2>9. s \in [1..n - 1 -> U] /\ Increasing(s) /\ Range(s) = U
    BY <2>6, <2>8 DEF Ordered
  <2> DEFINE t == [i \in 1..n |-> IF i = 1 THEN m ELSE s[i - 1]]
  <2>10. \A i \in 1..n : i # 1 => i - 1 \in 1..n - 1 /\ s[i - 1] \in U
    BY <2>3, <2>7, <2>9
  <2>11. t \in [1..n -> T]
    BY <2>5, <2>10
  <2>12. Increasing(t)
    <3> SUFFICES ASSUME NEW i \in 1..n, NEW j \in 1..n, i < j PROVE t[i] < t[j]
      BY DEF Increasing
    <3>1. j # 1 /\ t[j] = s[j - 1] /\ j - 1 \in 1..n - 1 /\ s[j - 1] \in U
      BY <2>3, <2>10
    <3>2. CASE i = 1
      <4>1. t[i] = m
        BY <3>2
      <4>2. m <= s[j - 1] /\ m # s[j - 1] /\ m \in Nat /\ s[j - 1] \in Nat
        BY <2>3, <2>5, <3>1
      <4> QED
        BY <3>1, <4>1, <4>2
    <3>3. CASE i # 1
      <4>1. t[i] = s[i - 1] /\ i - 1 \in 1..n - 1 /\ i - 1 < j - 1
        BY <2>3, <2>10, <3>3
      <4>2. s[i - 1] < s[j - 1]
        BY <2>9, <3>1, <4>1 DEF Increasing
      <4> QED
        BY <3>1, <4>1, <4>2
    <3> QED
      BY <3>2, <3>3
  <2>13. Range(t) = T
    <3>1. Range(t) \subseteq T
      BY <2>11 DEF Range
    <3>2. ASSUME NEW x \in T PROVE \E i \in 1..n : t[i] = x
      <4>1. CASE x = m
        <5>1. 1 \in 1..n /\ t[1] = m
          BY <2>7, <2>3
        <5> QED
          BY <4>1, <5>1
      <4>2. CASE x # m
        <5>1. x \in U
          BY <4>2
        <5>2. PICK k \in 1..n - 1 : s[k] = x
          BY <2>9, <5>1 DEF Range
        <5>3. k + 1 \in 1..n /\ k + 1 # 1 /\ k + 1 - 1 = k
          BY <2>3, <2>7
        <5>4. t[k + 1] = x
          BY <5>2, <5>3
        <5> QED
          BY <5>3, <5>4
      <4> QED
        BY <4>1, <4>2
    <3>3. T \subseteq Range(t)
      BY <3>2 DEF Range
    <3> QED
      BY <3>1, <3>3
  <2> HIDE DEF t
  <2>14. Ordered(T, t)
    BY <2>2, <2>11, <2>12, <2>13 DEF Ordered
  <2> QED
    BY <2>2, <2>14
<1>3. Cardinality(S) \in Nat /\ \E s : Ordered(S, s)
  BY <1>1, <1>2
<1>4. \E s \in [1..Cardinality(S) -> S] : Increasing(s) /\ Range(s) = S
  BY <1>3 DEF Ordered
<1>5. /\ InOrder(S) \in [1..Cardinality(S) -> S]
      /\ Increasing(InOrder(S)) /\ Range(InOrder(S)) = S
  BY <1>4 DEF InOrder
<1> QED
  BY <1>3, <1>5 DEF Ordered

(* What has been seen in order, and is all below a bound, is a prefix of   *)
(* all in order; what has been seen is all if it is everything there is.   *)
LEMMA PrefixInOrder ==
  ASSUME NEW S \in SUBSET Nat, IsFiniteSet(S), NEW s \in Seq(Nat), Increasing(s),
         Range(s) \subseteq S,
         \A x \in S, y \in Range(s) : x < y => x \in Range(s)
  PROVE  /\ IsPrefix(s, InOrder(S))
         /\ Range(s) = S => s = InOrder(S)
<1> DEFINE c == InOrder(S)
           k == Cardinality(S)
           l == Len(s)
<1>1. c \in [1..k -> S] /\ Increasing(c) /\ Range(c) = S /\ k \in Nat
  BY InOrderIs DEF Ordered
<1> HIDE DEF c, k
<1>2. c \in Seq(Nat) /\ Len(c) = k
  <2>1. c \in [1..k -> Nat]
    BY <1>1
  <2> QED
    BY <1>1, <2>1
<1>3. l \in Nat /\ DOMAIN s = 1..l /\ \A i \in 1..l : s[i] \in Nat /\ s[i] \in S
  BY LenProperties, ElementOfSeq DEF Range
<1>4. \A i, j \in 1..l : i < j => s[i] < s[j]
  BY <1>3 DEF Increasing
<1>5. \A i, j \in 1..k : (i < j => c[i] < c[j]) /\ c[i] \in Nat /\ c[i] \in S
  BY <1>1 DEF Increasing
<1>6. \A x \in S : \E i \in 1..k : c[i] = x
  BY <1>1 DEF Range
<1>7. \A x \in Range(s) : \E i \in 1..l : s[i] = x
  BY <1>3 DEF Range
<1>8. \A i \in 1..l : s[i] \in Range(s)
  BY <1>3 DEF Range
<1> HIDE DEF l
<1> DEFINE Bad == {i \in 1..l : ~(i <= k /\ s[i] = c[i])}
<1>9. Bad = {}
  <2> SUFFICES ASSUME Bad # {} PROVE FALSE
    OBVIOUS
  <2>1. Bad \in SUBSET Nat
    BY <1>3
  <2>2. PICK i \in Bad : \A j \in Bad : i <= j
    BY <2>1, LeastNat
  <2>3. i \in 1..l /\ i \in Nat /\ \A j \in 1..l : j < i => j <= k /\ s[j] = c[j]
    BY <1>3, <2>2
  <2>4. PICK m \in 1..k : c[m] = s[i]
    BY <1>3, <1>6, <2>3
  <2>5. ~(m < i)
    <3> SUFFICES ASSUME m < i PROVE FALSE
      OBVIOUS
    <3>1. m \in 1..l /\ s[m] = c[m] /\ s[m] < s[i]
      BY <1>3, <1>4, <2>3
    <3> QED
      BY <1>3, <2>3, <2>4, <3>1
  <2>6. i \in 1..k
    BY <1>1, <2>3, <2>5
  <2>7. m # i
    BY <2>2, <2>4, <2>6
  <2>8. i < m
    BY <2>3, <2>5, <2>7
  <2>9. c[i] < s[i] /\ c[i] \in S
    BY <1>5, <2>4, <2>6, <2>8
  <2>10. PICK j \in 1..l : s[j] = c[i]
    BY <1>7, <1>8, <2>3, <2>9
  <2>11. j < i
    <3> SUFFICES ASSUME ~(j < i) PROVE FALSE
      OBVIOUS
    <3>1. j = i \/ i < j
      BY <2>3
    <3>2. s[i] <= s[j] /\ s[i] \in Nat /\ s[j] \in Nat
      BY <1>3, <1>4, <2>3, <3>1
    <3> QED
      BY <2>9, <2>10, <3>2
  <2>12. s[j] = c[j] /\ j \in 1..k
    BY <2>3, <2>11
  <2>13. c[j] < c[i] /\ c[j] \in Nat
    BY <1>5, <2>6, <2>11, <2>12
  <2> QED
    BY <2>10, <2>12, <2>13
<1>10. \A i \in 1..l : i <= k /\ s[i] = c[i]
  BY <1>9
<1>11. l <= k
  BY <1>1, <1>3, <1>10
<1>12. IsPrefix(s, c) <=> Len(s) <= Len(c) /\ \A i \in 1..Len(s) : s[i] = c[i]
  BY <1>2, NumbersPrefix
<1>13. IsPrefix(s, c)
  BY <1>2, <1>10, <1>11, <1>12 DEF l
<1>14. ASSUME Range(s) = S PROVE s = c
  <2>1. ~(l < k)
    <3> SUFFICES ASSUME l < k PROVE FALSE
      OBVIOUS
    <3>1. l + 1 \in 1..k
      BY <1>1, <1>3
    <3>2. PICK j \in 1..l : s[j] = c[l + 1]
      BY <1>5, <1>7, <1>14, <3>1
    <3>3. j \in 1..k /\ j < l + 1 /\ s[j] = c[j]
      BY <1>1, <1>3, <1>10
    <3>4. c[j] < c[l + 1] /\ c[j] \in Nat
      BY <1>5, <3>1, <3>3
    <3> QED
      BY <3>2, <3>3, <3>4
  <2>2. l = k
    BY <1>1, <1>3, <1>11, <2>1
  <2>3. Len(s) = Len(c) /\ \A i \in 1..Len(s) : s[i] = c[i]
    BY <1>2, <1>10, <2>2 DEF l
  <2> QED
    BY <1>2, <2>3, SeqEqual
<1> QED
  BY <1>13, <1>14 DEF c

-----------------------------------------------------------------------------
(* Readers.                                                                *)

(***************************************************************************)
(* How far the holder of a descriptor is.  In a directory: it has seen all *)
(* entries before its position and there are more; or it has not started;  *)
(* or it was told that it has seen all.  In a file: the bytes before its   *)
(* position.                                                               *)
(***************************************************************************)
DirectoryWalk(b, w) ==
  /\ Increasing(w.seen)
  /\ \/ /\ w.position > START /\ ~w.ended
        /\ Range(w.seen) = {a \in Entries(b) : a < w.position}
        /\ \E a \in Entries(b) : a >= w.position
     \/ w.position = 0 /\ ~w.ended /\ w.seen = <<>>
     \/ w.position = 0 /\ w.ended /\ Range(w.seen) = Entries(b)
FileWalk(b, w) ==
  /\ w.seen = [i \in 1..w.position |-> i]
  /\ w.position <= Entry(b).size
  /\ w.ended => w.position = Entry(b).size
WalkOk(b, w) == IF Type(b) = "directory" THEN DirectoryWalk(b, w) ELSE FileWalk(b, w)
WalksInv == BaseInv /\ \A b \in held : WalkOk(b, walks[b])

(* Inodes are addresses, and what was seen in a directory is in it. *)
InodesInv ==
  /\ BaseInv
  /\ \A b \in held : /\ walks[b].inode \in {NULL, b}
                     /\ Type(b) = "directory" => Range(walks[b].seen) \subseteq Entries(b)

(* A sequence with one more number. *)
LEMMA Appended ==
  ASSUME NEW s \in Seq(Nat), NEW a \in Nat
  PROVE  /\ s \o <<a>> \in Seq(Nat)
         /\ DOMAIN (s \o <<a>>) = 1..Len(s) + 1
         /\ \A i \in 1..Len(s) : (s \o <<a>>)[i] = s[i]
         /\ (s \o <<a>>)[Len(s) + 1] = a
<1> DEFINE u == <<a>>
           t == s \o u
           l == Len(s)
<1>1. u \in Seq(Nat) /\ Len(u) = 1 /\ u[1] = a
  OBVIOUS
<1> HIDE DEF u
<1>2. /\ t \in Seq(Nat) /\ Len(t) = Len(s) + Len(u)
      /\ \A i \in 1..Len(s) + Len(u) : t[i] = IF i <= Len(s) THEN s[i] ELSE u[i - Len(s)]
  BY <1>1, ConcatProperties
<1>3. l \in Nat
  BY LenProperties
<1> HIDE DEF t
<1>4. DOMAIN t = 1..Len(t)
  BY <1>2, LenProperties
<1>5. \A i \in 1..l + 1 : t[i] = IF i <= l THEN s[i] ELSE u[i - l]
  BY <1>1, <1>2
<1>6. Len(t) = l + 1
  BY <1>1, <1>2
<1> HIDE DEF l
<1>7. l + 1 \in 1..l + 1 /\ ~(l + 1 <= l) /\ (l + 1) - l = 1
  BY <1>3
<1>8. t[l + 1] = a
  <2>1. t[l + 1] = u[(l + 1) - l]
    BY <1>5, <1>7
  <2> QED
    BY <1>1, <1>7, <2>1
<1>9. \A i \in 1..l : t[i] = s[i]
  BY <1>3, <1>5
<1> QED
  BY <1>2, <1>4, <1>6, <1>8, <1>9 DEF t, u, l

(* A number that is larger than those before it is put behind them. *)
LEMMA AppendInOrder ==
  ASSUME NEW s \in Seq(Nat), Increasing(s), NEW a \in Nat, \A x \in Range(s) : x < a
  PROVE  Increasing(s \o <<a>>) /\ Range(s \o <<a>>) = Range(s) \cup {a}
<1> DEFINE t == s \o <<a>>
           l == Len(s)
<1>1. l \in Nat /\ DOMAIN s = 1..l /\ \A i \in 1..l : s[i] \in Nat
  BY LenProperties, ElementOfSeq
<1>2. a \in Nat
  OBVIOUS
<1>3. /\ DOMAIN t = 1..l + 1
      /\ \A i \in 1..l : t[i] = s[i]
      /\ t[l + 1] = a
  BY <1>2, Appended
<1> HIDE DEF t, l
<1>4. \A i \in 1..l : s[i] < a
  BY <1>1 DEF Range
<1>5. Increasing(t)
  <2> SUFFICES ASSUME NEW i \in 1..l + 1, NEW j \in 1..l + 1, i < j PROVE t[i] < t[j]
    BY <1>3 DEF Increasing
  <2>1. i \in 1..l /\ t[i] = s[i] /\ s[i] \in Nat
    BY <1>1, <1>3
  <2>2. CASE j = l + 1
    <3>1. t[j] = a /\ s[i] < a
      BY <1>3, <1>4, <2>1, <2>2
    <3> QED
      BY <2>1, <3>1
  <2>3. CASE j # l + 1
    <3>1. j \in 1..l
      BY <1>1, <2>3
    <3> QED
      BY <1>1, <1>3, <2>1, <3>1 DEF Increasing
  <2> QED
    BY <2>2, <2>3
<1>6. Range(t) = Range(s) \cup {a}
  <2>1. Range(t) = {t[i] : i \in 1..l + 1} /\ Range(s) = {s[i] : i \in 1..l}
    BY <1>1, <1>3 DEF Range
  <2>2. \A i \in 1..l + 1 : i \in 1..l \/ i = l + 1
    BY <1>1
  <2>3. \A i \in 1..l : i \in 1..l + 1
    BY <1>1
  <2>4. l + 1 \in 1..l + 1
    BY <1>1
  <2>5. {t[i] : i \in 1..l + 1} \subseteq {s[i] : i \in 1..l} \cup {a}
    BY <1>3, <2>2
  <2>6. {s[i] : i \in 1..l} \cup {a} \subseteq {t[i] : i \in 1..l + 1}
    BY <1>3, <2>3, <2>4
  <2> QED
    BY <2>1, <2>5, <2>6
<1> QED
  BY <1>5, <1>6 DEF t

(* A read of a directory takes its reader one entry further, or to the end. *)
LEMMA DirectoryWalks ==
  ASSUME BaseInv, AllSeen, NEW b \in held, Type(b) = "directory", NEW position \in Nat, NEW asked \in Nat,
         position = walks[b].position \/ position = 0,
         DirectoryWalk(b, walks[b]), NEW w \in Walk, Progressed(b, position, asked, w)
  PROVE  DirectoryWalk(b, w)
<1> DEFINE v == walks[b]
           E == Entries(b)
           from == From(b, position)
           in == FilesInDir(b, from)
           r == read_directory(b, position, asked)
           sofar == IF position = 0 THEN <<>> ELSE v.seen
<1>1. IsArchive(archive) /\ b \in Addresses \cup {ROOT} /\ v \in Walk
  BY DEF BaseInv
<1>2. E \in SUBSET Nat /\ \A a \in E : a >= START /\ a > b
  BY <1>1, TreeIs DEF Entries
<1>3. v.seen \in Seq(Nat) /\ v.position \in Nat
  BY <1>1 DEF Walk
<1>4. w.seen = sofar \o r.data /\ w.position = r.next /\ (w.ended <=> r.next = 0)
  BY DEF Progressed, handle_read
<1>5. in = {a \in E : a >= from}
  BY <1>1, FilesAre
<1>6. IF from < START \/ in = {}
      THEN r.data = <<>> /\ r.next = 0
      ELSE /\ Min(in) \in in /\ \A c \in in : Min(in) <= c
           /\ r.data = <<Min(in)>>
           /\ r.next = IF FilesInDir(b, Min(in) + 1) = {} THEN 0 ELSE Min(in) + 1
  BY <1>1, DirectoryRead
<1>7. \A a \in E : FilesInDir(b, a + 1) = {x \in E : x >= a + 1}
  BY <1>1, FilesAre
<1> HIDE DEF E, in, r, v
<1>8. <<>> \in Seq(Nat) /\ Increasing(<<>>) /\ Range(<<>>) = {}
  BY EmptySeq DEF Increasing, Range
<1>9. /\ sofar \in Seq(Nat) /\ from \in Nat /\ from >= START
      /\ Increasing(sofar) /\ Range(sofar) = {a \in E : a < from}
      /\ position # 0 => in # {}
      /\ in = {} => sofar = <<>>
  <2>1. CASE position = 0
    <3>1. sofar = <<>> /\ from = IF b = ROOT THEN START ELSE b
      BY <2>1 DEF From
    <3>2. from \in Nat /\ from >= START /\ \A a \in E : a >= from
      BY <1>1, <1>2, <3>1, TreeIs DEF START, MAGIC
    <3> HIDE DEF from, sofar
    <3>3. {a \in E : a < from} = {}
      <4>1. \A a \in E : ~(a < from)
        BY <1>2, <3>2
      <4> QED
        BY <4>1
    <3> QED
      BY <1>8, <2>1, <3>1, <3>2, <3>3
  <2>2. CASE position # 0
    <3>1. sofar = v.seen /\ from = v.position /\ v.position # 0
      BY <2>2 DEF From, v
    <3>2. /\ Increasing(v.seen) /\ v.position > START
          /\ Range(v.seen) = {a \in E : a < v.position}
          /\ \E a \in E : a >= v.position
      BY <3>1 DEF DirectoryWalk, v, E
    <3> HIDE DEF from, sofar
    <3>3. in # {}
      BY <1>5, <3>1, <3>2
    <3> QED
      BY <1>3, <3>1, <3>2, <3>3 DEF START, MAGIC
  <2> QED
    BY <2>1, <2>2
<1> HIDE DEF from, sofar
<1>10. CASE in = {}
  <2>1. r.data = <<>> /\ r.next = 0 /\ sofar = <<>>
    BY <1>6, <1>9, <1>10
  <2>2. w.seen = <<>> /\ w.position = 0 /\ w.ended
    <3>1. <<>> \o <<>> = <<>>
      BY <1>8, ConcatEmptySeq
    <3> QED
      BY <1>4, <2>1, <3>1
  <2>3. E = {}
    <3>1. {a \in E : a < from} = {} /\ {a \in E : a >= from} = {}
      BY <1>5, <1>8, <1>9, <1>10, <2>1
    <3> QED
      BY <1>2, <1>9, <3>1
  <2> QED
    BY <1>8, <2>2, <2>3 DEF DirectoryWalk, E
<1>11. CASE in # {}
  <2> DEFINE a == Min(in)
  <2>1. /\ a \in in /\ \A c \in in : a <= c
        /\ r.data = <<a>>
        /\ r.next = IF FilesInDir(b, a + 1) = {} THEN 0 ELSE a + 1
    BY <1>6, <1>9, <1>11 DEF START, MAGIC
  <2> HIDE DEF a
  <2>2. a \in E /\ a >= from /\ \A x \in E : x >= from => a <= x
    BY <1>5, <2>1
  <2>3. a \in Nat /\ a + 1 > START
    <3>1. a \in Nat /\ a >= START
      BY <1>2, <2>2
    <3> QED
      BY <3>1 DEF START, MAGIC
  <2>4. Increasing(sofar \o <<a>>) /\ Range(sofar \o <<a>>) = {x \in E : x < a + 1}
    <3>1. \A x \in Range(sofar) : x < a
      <4>1. \A x \in {y \in E : y < from} : x \in E /\ x < from
        OBVIOUS
      <4>2. \A x \in Range(sofar) : x \in Nat /\ x < from
        BY <1>2, <1>9, <4>1
      <4>3. from \in Nat /\ a \in Nat /\ a >= from
        BY <1>9, <2>2, <2>3
      <4> QED
        BY <4>2, <4>3
    <3>2. Increasing(sofar \o <<a>>) /\ Range(sofar \o <<a>>) = Range(sofar) \cup {a}
      <4>1. sofar \in Seq(Nat) /\ Increasing(sofar)
        BY <1>9
      <4> HIDE DEF a
      <4> QED
        BY <2>3, <3>1, <4>1, AppendInOrder
    <3>3. \A x \in E : x < a + 1 <=> x < from \/ x = a
      BY <1>2, <1>9, <2>2, <2>3
    <3>4. {x \in E : x < a + 1} = {x \in E : x < from} \cup {a}
      BY <2>2, <3>3
    <3> QED
      BY <1>9, <3>2, <3>4
  <2>5. Increasing(w.seen) /\ Range(w.seen) = {x \in E : x < a + 1}
    BY <1>4, <2>1, <2>4
  <2>6. FilesInDir(b, a + 1) = {x \in E : x >= a + 1}
    BY <1>7, <2>2
  <2>7. CASE FilesInDir(b, a + 1) = {}
    <3>1. w.position = 0 /\ w.ended
      BY <1>4, <2>1, <2>7
    <3>2. {x \in E : x < a + 1} = E
      <4>1. \A x \in E : ~(x >= a + 1) /\ x \in Nat
        BY <1>2, <2>6, <2>7
      <4>2. \A x \in E : x < a + 1
        BY <2>3, <4>1
      <4> QED
        BY <4>2
    <3> QED
      BY <2>5, <3>1, <3>2 DEF DirectoryWalk, E
  <2>8. CASE FilesInDir(b, a + 1) # {}
    <3>1. w.position = a + 1 /\ ~w.ended
      BY <1>4, <2>1, <2>3, <2>8
    <3>2. \E x \in E : x >= a + 1
      BY <2>6, <2>8
    <3> QED
      BY <2>3, <2>5, <3>1, <3>2 DEF DirectoryWalk, E
  <2> QED
    BY <2>7, <2>8
<1> QED
  BY <1>10, <1>11

(* A read of a file at its reader's position takes the reader on. *)
LEMMA FileWalks ==
  ASSUME BaseInv, NEW b \in held, Type(b) # "directory", NEW asked \in Nat,
         FileWalk(b, walks[b]), NEW w \in Walk, Progressed(b, walks[b].position, asked, w)
  PROVE  FileWalk(b, w)
<1> DEFINE v == walks[b]
           p == v.position
           r == read_file(b, p, asked)
           n == r.bytes
           size == Entry(b).size
<1>1. IsArchive(archive) /\ b \in Addresses /\ v \in Walk
  BY DEF BaseInv, Type
<1>2. p \in Nat /\ v.seen \in Seq(Nat)
  BY <1>1 DEF Walk
<1>3. w.seen = v.seen \o r.data /\ w.position = p + n /\ (w.ended <=> n = 0 /\ asked > 0)
  BY DEF Progressed, handle_read
<1>4. /\ n \in Nat /\ r.data \in Seq(Nat)
      /\ r.data = [i \in 1..n |-> p + i]
      /\ n = 0 \/ p + n <= size
      /\ n = 0 /\ asked > 0 => p >= size
  BY <1>1, <1>2, FileRead
<1>5. v.seen = [i \in 1..p |-> i] /\ p <= size
  BY DEF FileWalk
<1>6. size \in Nat
  BY <1>1, TreeIs
<1> DEFINE s == v.seen
           d == r.data
<1> HIDE DEF p, n, r, v, size, s, d
<1>7. Len(s) = p /\ Len(d) = n /\ s \in Seq(Nat) /\ d \in Seq(Nat)
      /\ (\A i \in 1..p : s[i] = i) /\ \A i \in 1..n : d[i] = p + i
  BY <1>2, <1>4, <1>5 DEF s, d
<1>8. /\ s \o d \in Seq(Nat) /\ Len(s \o d) = Len(s) + Len(d)
      /\ \A i \in 1..Len(s) + Len(d) : (s \o d)[i] = IF i <= Len(s) THEN s[i] ELSE d[i - Len(s)]
  BY <1>7, ConcatProperties
<1> DEFINE q == [i \in 1..p + n |-> i]
<1>9. q \in Seq(Nat) /\ Len(q) = p + n /\ \A i \in 1..p + n : q[i] = i
  BY <1>2, <1>4
<1> HIDE DEF q
<1>10. \A i \in 1..p + n : (s \o d)[i] = i
  <2> TAKE i \in 1..p + n
  <2>1. CASE i <= p
    <3>1. i \in 1..p
      BY <1>2, <1>4, <2>1
    <3> QED
      BY <1>7, <1>8, <2>1, <3>1
  <2>2. CASE ~(i <= p)
    <3>1. i - p \in 1..n /\ p + (i - p) = i
      BY <1>2, <1>4, <2>2
    <3>2. (s \o d)[i] = d[i - p] /\ d[i - p] = p + (i - p)
      BY <1>7, <1>8, <2>2, <3>1
    <3> QED
      BY <3>1, <3>2
  <2> QED
    BY <2>1, <2>2
<1>11. s \o d = q
  <2>1. Len(s \o d) = Len(q) /\ \A i \in 1..Len(s \o d) : (s \o d)[i] = q[i]
    BY <1>7, <1>8, <1>9, <1>10
  <2> QED
    BY <1>8, <1>9, <2>1, SeqEqual
<1>12. w.seen = [i \in 1..w.position |-> i]
  BY <1>3, <1>11 DEF q, s, d
<1>13. w.position <= size /\ (w.ended => w.position = size)
  BY <1>2, <1>3, <1>4, <1>5, <1>6
<1> QED
  BY <1>12, <1>13 DEF FileWalk, size


(* When clients take what they are sent, a message leaves nothing. *)
LEMMA ServedEmpties ==
  ASSUME "refused" \notin Calls, NodeEmpty, NEW message, NEW reply, NEW taken,
         NEW received \in SUBSET (0..IPC_CAPABILITY_SLOTS),
         Served(message, received, reply, taken)
  PROVE  NodeEmpty'
<1> DEFINE rest == IF taken \/ reply.fd = {} THEN {} ELSE {TEMPORARY}
<1>1. node' = (node \cup received \cup rest) \ 0..IPC_CAPABILITY_SLOTS /\ (~taken => "refused" \in Calls)
  BY DEF Served, Cleanup
<1>2. rest = {}
  BY <1>1
<1> HIDE DEF rest
<1>3. node = {}
  BY DEF NodeEmpty
<1>4. node \cup received \cup rest \subseteq 0..IPC_CAPABILITY_SLOTS
  BY <1>2, <1>3
<1> QED
  BY <1>1, <1>4 DEF NodeEmpty

(***************************************************************************)
(* The node for received and temporary capabilities is empty whenever the  *)
(* server waits for a message, so nothing keeps out what the next one      *)
(* brings: for every archive and every sequence of messages, if clients    *)
(* take the descriptors that are sent to them.  (If one does not, the slot *)
(* that main_loop leaves out keeps it, which the run with "refused" shows.)*)
(***************************************************************************)
THEOREM NodeEmptyCorrect ==
  ASSUME "refused" \notin Calls
  PROVE  Spec => []NodeEmpty
<1>1. Init => NodeEmpty
  BY DEF Init, NodeEmpty
<1>2. ASSUME NodeEmpty, Next PROVE NodeEmpty'
  <2>1. PICK b \in held :
          \/ \E position \in Positions(b), size \in Size :
               \/ FdReadFast(b, position, size)
               \/ \E capacity \in Capacity : FdRead(b, position, size, capacity)
               \/ FdReadNoBuffer(b, position, size)
          \/ FdStat(b)
          \/ \E names, name, flags, mode, taken : FdOpen(b, names, name, flags, mode, taken)
          \/ \E call : \E received \in MaySend : Unsupported(b, call, received)
    BY <1>2 DEF Next
  <2>2. {0} \subseteq 0..IPC_CAPABILITY_SLOTS /\ {0, 1} \subseteq 0..IPC_CAPABILITY_SLOTS
    BY DEF IPC_CAPABILITY_SLOTS
  <2>3. CASE \E position, size : FdReadFast(b, position, size)
    <3>1. \E m, r : Served(m, {0}, r, TRUE)
      BY <2>3 DEF FdReadFast, Reading
    <3> QED
      BY <1>2, <2>2, <3>1, ServedEmpties
  <2>4. CASE \E position, size, capacity : FdRead(b, position, size, capacity)
    <3>1. \E m, r : Served(m, {0, 1}, r, TRUE)
      BY <2>4 DEF FdRead, Reading
    <3> QED
      BY <1>2, <2>2, <3>1, ServedEmpties
  <2>5. CASE FdStat(b) \/ \E position, size : FdReadNoBuffer(b, position, size)
    <3>1. \E m, r : Served(m, {0}, r, TRUE)
      BY <2>5 DEF FdReadNoBuffer, FdStat
    <3> QED
      BY <1>2, <2>2, <3>1, ServedEmpties
  <2>6. CASE \E names, name, flags, mode, taken : FdOpen(b, names, name, flags, mode, taken)
    <3>1. PICK names, name, flags, mode, taken : FdOpen(b, names, name, flags, mode, taken)
      BY <2>6
    <3> DEFINE received == {0} \cup (IF names = {} THEN {} ELSE {1})
    <3>2. \E m, r : Served(m, received, r, taken)
      BY <3>1 DEF FdOpen
    <3>3. received \subseteq 0..IPC_CAPABILITY_SLOTS
      BY <2>2
    <3> HIDE DEF received
    <3> QED
      BY <1>2, <3>2, <3>3, ServedEmpties
  <2>7. CASE \E call : \E received \in MaySend : Unsupported(b, call, received)
    <3>1. PICK received \in MaySend : \E call : Unsupported(b, call, received)
      BY <2>7
    <3>2. \E m, r : Served(m, received, r, TRUE)
      BY <3>1 DEF Unsupported
    <3>3. received \subseteq 0..IPC_CAPABILITY_SLOTS
      BY DEF MaySend, IPC_CAPABILITY_SLOTS
    <3> QED
      BY <1>2, <3>2, <3>3, ServedEmpties
  <2> QED
    BY <2>1, <2>3, <2>4, <2>5, <2>6, <2>7
<1>3. NodeEmpty /\ UNCHANGED vars => NodeEmpty'
  BY DEF NodeEmpty, vars
<1> QED
  BY <1>1, <1>2, <1>3, PTL DEF Spec


(* Every state has what BaseInv says. *)
LEMMA BaseCorrect == Spec => []BaseInv
<1>1. Init => BaseInv
  BY BaseInitially
<1>2. BaseInv /\ [Next]_vars => BaseInv'
  BY BaseKept
<1> QED
  BY <1>1, <1>2, PTL DEF Spec

(* A descriptor that was not read has seen nothing. *)
LEMMA NotReadIs ==
  /\ NotRead \in Walk /\ NotRead.inode = NULL /\ NotRead.position = 0
  /\ NotRead.seen = <<>> /\ ~NotRead.ended
  /\ Range(<<>>) = {} /\ Increasing(<<>>)
  /\ \A b : Type(b) = "directory" => DirectoryWalk(b, NotRead)
<1>1. NotRead \in Walk /\ NotRead.inode = NULL /\ NotRead.position = 0
  /\ NotRead.seen = <<>> /\ ~NotRead.ended
  BY EmptySeq DEF NotRead, Walk, NULL
<1>2. Range(<<>>) = {} /\ Increasing(<<>>)
  BY EmptySeq DEF Range, Increasing
<1> HIDE DEF NotRead
<1> QED
  BY <1>1, <1>2 DEF DirectoryWalk


(* What a message can do to the walk of one descriptor. *)
Changed(c) ==
  \/ c \in held /\ walks'[c] = walks[c]
  \/ c \in Addresses \ held /\ walks'[c] = NotRead
  \/ /\ c \in held /\ (c = ROOT => "root_stat" \in Calls)
     /\ walks'[c] = [walks[c] EXCEPT !.inode = IF c = ROOT THEN START ELSE c]
  \/ /\ c \in held /\ walks'[c] \in Walk
     /\ \E position, asked \in Nat :
          /\ position = walks[c].position \/ (Type(c) = "directory" /\ position = 0)
          /\ Progressed(c, position, asked, walks'[c])

(* Every message does one of these to each walk. *)
LEMMA WalkSteps ==
  ASSUME BaseInv, Next
  PROVE  archive' = archive /\ \A c \in held' : Changed(c)
<1>0. walks \in [held -> Walk]
  BY DEF BaseInv
<1>1. CASE \E b, position, asked : ReadStep(b, position, asked)
  <2>1. PICK b, position, asked : ReadStep(b, position, asked)
    BY <1>1
  <2>2. b \in held /\ position \in Positions(b) /\ asked \in Nat
    BY <2>1 DEF ReadStep
  <2>3. position \in Nat
    BY <2>2, ReadTypes
  <2>4. /\ archive' = archive
        /\ \/ walks' = walks
           \/ /\ position = walks[b].position \/ (Type(b) = "directory" /\ position = 0)
              /\ \E w \in Walk : walks' = [walks EXCEPT ![b] = w] /\ Progressed(b, position, asked, w)
    BY <2>1, ReadEffect
  <2>5. CASE walks' = walks
    BY <2>4, <2>5 DEF held, Changed
  <2>6. CASE walks' # walks
    <3>1. PICK w \in Walk : walks' = [walks EXCEPT ![b] = w] /\ Progressed(b, position, asked, w)
      BY <2>4, <2>6
    <3>2. held' = held /\ walks'[b] = w /\ \A c \in held : c # b => walks'[c] = walks[c]
      BY <1>0, <2>2, <3>1 DEF held
    <3>3. Changed(b)
      BY <2>2, <2>3, <2>4, <2>6, <3>1, <3>2 DEF Changed
    <3>4. \A c \in held : c # b => Changed(c)
      BY <3>2 DEF Changed
    <3> QED
      BY <2>4, <3>2, <3>3, <3>4
  <2> QED
    BY <2>5, <2>6
<1>2. CASE \E b : StatStep(b)
  <2>1. PICK b : StatStep(b)
    BY <1>2
  <2>2. /\ b \in held /\ (b = ROOT => "root_stat" \in Calls) /\ archive' = archive
        /\ walks' = [walks EXCEPT ![b] = [@ EXCEPT !.inode = IF b = ROOT THEN START ELSE b]]
    BY <2>1 DEF StatStep
  <2>3. /\ held' = held /\ \A c \in held : c # b => walks'[c] = walks[c]
        /\ walks'[b] = [walks[b] EXCEPT !.inode = IF b = ROOT THEN START ELSE b]
    BY <1>0, <2>2 DEF held
  <2>4. Changed(b)
    BY <2>2, <2>3 DEF Changed
  <2>5. \A c \in held : c # b => Changed(c)
    BY <2>3 DEF Changed
  <2> QED
    BY <2>2, <2>3, <2>4, <2>5
<1>3. CASE \E b, names, name, flags, mode, taken : OpenStep(b, names, name, flags, mode, taken)
  <2>1. /\ archive' = archive
        /\ \E G \in SUBSET Addresses :
             walks' = [f \in held \cup G |-> IF f \in held THEN walks[f] ELSE NotRead]
    BY <1>3, OpenEffect
  <2>2. PICK G \in SUBSET Addresses :
          walks' = [f \in held \cup G |-> IF f \in held THEN walks[f] ELSE NotRead]
    BY <2>1
  <2>3. held' = held \cup G
    BY <2>2 DEF held
  <2>4. \A c \in held \cup G : walks'[c] = IF c \in held THEN walks[c] ELSE NotRead
    BY <2>2
  <2>5. ASSUME NEW c \in held \cup G PROVE Changed(c)
    <3>1. c \in held \/ c \in Addresses \ held
      OBVIOUS
    <3> QED
      BY <2>4, <3>1 DEF Changed
  <2> QED
    BY <2>1, <2>3, <2>5
<1>4. CASE QuietStep
  BY <1>4 DEF QuietStep, held, Changed
<1> QED
  BY <1>1, <1>2, <1>3, <1>4, Steps


(* Inodes are not part of what WalkOk is about. *)
LEMMA StatKeepsWalk ==
  ASSUME NEW v \in Walk, NEW inode
  PROVE  LET w == [v EXCEPT !.inode = inode]
         IN  w.seen = v.seen /\ w.position = v.position /\ w.ended = v.ended /\ w.inode = inode
BY DEF Walk

(* None of them makes a walk wrong. *)
LEMMA WalkOkKept ==
  ASSUME BaseInv, AllSeen, NEW c, c \in held => WalkOk(c, walks[c]), Changed(c)
  PROVE  WalkOk(c, walks'[c])
<1>1. c \in held => walks[c] \in Walk
  BY DEF BaseInv
<1>2. CASE c \in held /\ walks'[c] = walks[c]
  BY <1>2
<1>3. CASE c \in Addresses \ held /\ walks'[c] = NotRead
  <2>1. CASE Type(c) = "directory"
    BY <1>3, <2>1, NotReadIs DEF WalkOk
  <2>2. CASE Type(c) # "directory"
    <3>1. Entry(c).size \in Nat
      BY <1>3, TreeIs DEF BaseInv
    <3>2. NotRead.seen = [i \in 1..NotRead.position |-> i]
      BY NotReadIs
    <3>3. FileWalk(c, NotRead)
      BY <3>1, <3>2, NotReadIs DEF FileWalk
    <3> QED
      BY <1>3, <2>2, <3>3 DEF WalkOk
  <2> QED
    BY <2>1, <2>2
<1>4. CASE c \in held /\ \E i : walks'[c] = [walks[c] EXCEPT !.inode = i]
  <2>1. /\ walks'[c].seen = walks[c].seen /\ walks'[c].position = walks[c].position
        /\ walks'[c].ended = walks[c].ended
    BY <1>1, <1>4, StatKeepsWalk
  <2> QED
    BY <1>4, <2>1 DEF WalkOk, DirectoryWalk, FileWalk
<1>5. CASE /\ c \in held /\ walks'[c] \in Walk
           /\ \E position, asked \in Nat :
                /\ position = walks[c].position \/ (Type(c) = "directory" /\ position = 0)
                /\ Progressed(c, position, asked, walks'[c])
  <2>1. PICK position \in Nat, asked \in Nat :
                /\ position = walks[c].position \/ (Type(c) = "directory" /\ position = 0)
                /\ Progressed(c, position, asked, walks'[c])
    BY <1>5
  <2> DEFINE w == walks'[c]
  <2>2. w \in Walk /\ c \in held
    BY <1>5
  <2>3. Progressed(c, position, asked, w)
    BY <2>1
  <2> HIDE DEF w
  <2>4. CASE Type(c) = "directory"
    <3>1. DirectoryWalk(c, walks[c])
      BY <2>2, <2>4 DEF WalkOk
    <3>2. position = walks[c].position \/ position = 0
      BY <2>1
    <3>3. DirectoryWalk(c, w)
      BY <2>2, <2>3, <2>4, <3>1, <3>2, DirectoryWalks
    <3> QED
      BY <2>4, <3>3 DEF WalkOk, w
  <2>5. CASE Type(c) # "directory"
    <3>1. FileWalk(c, walks[c])
      BY <2>2, <2>5 DEF WalkOk
    <3>2. Progressed(c, walks[c].position, asked, w)
      BY <2>1, <2>3, <2>5
    <3>3. FileWalk(c, w)
      BY <2>2, <2>5, <3>1, <3>2, FileWalks
    <3> QED
      BY <2>5, <3>3 DEF WalkOk, w
  <2> QED
    BY <2>4, <2>5
<1> QED
  BY <1>2, <1>3, <1>4, <1>5 DEF Changed

(* The archive stays, so WalkOk says of the next state what it says of the *)
(* walk there.                                                             *)
LEMMA WalkOkPrimed ==
  ASSUME archive' = archive, NEW c
  PROVE  WalkOk(c, walks'[c]) => WalkOk(c, walks[c])'
<1>1. Type(c)' = Type(c) /\ Entries(c)' = Entries(c) /\ Entry(c)' = Entry(c)
  BY ArchiveKept
<1>2. DirectoryWalk(c, walks'[c]) => DirectoryWalk(c, walks[c])'
  BY <1>1 DEF DirectoryWalk, Increasing, START, MAGIC, Range
<1>3. FileWalk(c, walks'[c]) => FileWalk(c, walks[c])'
  BY <1>1 DEF FileWalk
<1> QED
  BY <1>1, <1>2, <1>3 DEF WalkOk

(* Nothing was read when the server starts. *)
LEMMA WalksInitially == ASSUME Init PROVE WalksInv
<1>1. BaseInv
  BY BaseInitially
<1>2. held = {ROOT} /\ walks[ROOT] = NotRead
  BY DEF Init, held
<1>3. Type(ROOT) = "directory"
  BY DEF Type
<1> QED
  BY <1>1, <1>2, <1>3, NotReadIs DEF WalksInv, WalkOk

(* Every message keeps every walk right. *)
LEMMA WalksKept ==
  ASSUME "empty_last" \notin Calls, WalksInv, [Next]_vars
  PROVE  WalksInv'
<1>1. BaseInv /\ AllSeen /\ \A b \in held : WalkOk(b, walks[b])
  BY DEF WalksInv, BaseInv
<1>2. BaseInv'
  BY <1>1, BaseKept
<1>3. archive' = archive /\ \A c \in held' : (c \in held => WalkOk(c, walks[c])) /\ Changed(c)
  <2>1. CASE Next
    BY <1>1, <2>1, WalkSteps
  <2>2. CASE UNCHANGED vars
    BY <1>1, <2>2 DEF vars, held, Changed
  <2> QED
    BY <2>1, <2>2
<1>4. ASSUME NEW c \in held' PROVE WalkOk(c, walks[c])'
  <2>1. WalkOk(c, walks'[c])
    BY <1>1, <1>3, WalkOkKept
  <2> QED
    BY <1>3, <2>1, WalkOkPrimed
<1> QED
  BY <1>2, <1>4 DEF WalksInv


(* A directory has finitely many entries. *)
LEMMA EntriesFinite ==
  ASSUME IsArchive(archive)
  PROVE  \A b : Entries(b) \in SUBSET Nat /\ IsFiniteSet(Entries(b))
<1>1. Addresses \subseteq Nat /\ Len(archive) \in Nat
  BY TreeIs
<1>2. START \in Int /\ START + Len(archive) - 1 \in Int
  BY <1>1 DEF START, MAGIC
<1>3. IsFiniteSet(Addresses)
  BY <1>2, FS_Interval DEF Addresses
<1>4. \A b : Entries(b) \subseteq Addresses
  BY DEF Entries
<1> QED
  BY <1>1, <1>3, <1>4, FS_Subset

(* What was seen is the beginning of what there is. *)
LEMMA WalkExact ==
  ASSUME WalksInv, NEW b \in held
  PROVE  /\ IsPrefix(walks[b].seen, Contents(b))
         /\ walks[b].ended => walks[b].seen = Contents(b)
<1> DEFINE w == walks[b]
           s == w.seen
           E == Entries(b)
<1>1. IsArchive(archive) /\ b \in Addresses \cup {ROOT} /\ w \in Walk /\ WalkOk(b, w)
  BY DEF WalksInv, BaseInv
<1>2. s \in Seq(Nat) /\ w.position \in Nat
  BY <1>1 DEF Walk
<1>3. CASE Type(b) = "directory"
  <2>1. Contents(b) = InOrder(E)
    BY <1>3 DEF Contents, Entries
  <2>2. E \in SUBSET Nat /\ IsFiniteSet(E)
    BY <1>1, EntriesFinite
  <2>3. /\ Increasing(s)
        /\ \/ Range(s) = {a \in E : a < w.position} /\ ~w.ended
           \/ s = <<>> /\ ~w.ended
           \/ Range(s) = E
    BY <1>1, <1>3 DEF WalkOk, DirectoryWalk
  <2> HIDE DEF E, s
  <2>4. Range(s) \subseteq E /\ \A x \in E, y \in Range(s) : x < y => x \in Range(s)
    <3>1. CASE Range(s) = {a \in E : a < w.position}
      <4>1. \A y \in Range(s) : y \in E /\ y < w.position
        BY <3>1
      <4>2. ASSUME NEW x \in E, NEW y \in Range(s), x < y PROVE x \in Range(s)
        <5>1. x \in Nat /\ y \in Nat /\ w.position \in Nat /\ y < w.position
          BY <1>2, <2>2, <4>1
        <5>2. x < w.position
          BY <4>2, <5>1
        <5> QED
          BY <3>1, <5>2
      <4> QED
        BY <4>1, <4>2
    <3>2. CASE s = <<>>
      BY <3>2, NotReadIs
    <3>3. CASE Range(s) = E
      BY <3>3
    <3> QED
      BY <2>3, <3>1, <3>2, <3>3
  <2>5. IsPrefix(s, InOrder(E)) /\ (Range(s) = E => s = InOrder(E))
    BY <1>2, <2>2, <2>3, <2>4, PrefixInOrder DEF s
  <2>6. w.ended => Range(s) = E
    BY <2>3
  <2> QED
    BY <2>1, <2>5, <2>6 DEF s
<1>4. CASE Type(b) # "directory"
  <2> DEFINE size == Entry(b).size
             q == [i \in 1..size |-> i]
             p == w.position
  <2>1. Contents(b) = q
    BY <1>4 DEF Contents
  <2>2. size \in Nat
    BY <1>1, <1>4, TreeIs DEF Type
  <2>3. s = [i \in 1..p |-> i] /\ p <= size /\ (w.ended => p = size)
    BY <1>1, <1>4 DEF WalkOk, FileWalk
  <2> HIDE DEF size, s, p, w
  <2>4. q \in Seq(Nat) /\ Len(q) = size /\ \A i \in 1..size : q[i] = i
    BY <2>2
  <2>5. Len(s) = p /\ \A i \in 1..p : s[i] = i
    BY <1>2, <2>3 DEF p, s
  <2> HIDE DEF q
  <2>6. IsPrefix(s, q)
    <3>1. s \in Seq(Nat)
      BY <1>2
    <3>2. p \in Nat
      BY <1>2 DEF p
    <3>3. Len(s) <= Len(q) /\ \A i \in 1..Len(s) : s[i] = q[i]
      BY <2>2, <2>3, <2>4, <2>5, <3>2
    <3> QED
      BY <2>4, <3>1, <3>3, NumbersPrefix
  <2>7. w.ended => s = q
    BY <2>3 DEF q
  <2> QED
    BY <2>1, <2>6, <2>7 DEF s, w
<1> QED
  BY <1>3, <1>4

(***************************************************************************)
(* Whoever follows next_entry_position through a directory sees each entry *)
(* of that directory once, in the archive's order, and nothing else, and   *)
(* whoever reads a file on and on sees each byte once; the end is reported *)
(* when all was seen and not earlier.  For every archive that utils/jax    *)
(* can write and that ends with data, any number of descriptors that are   *)
(* read at once, and any interleaving of the messages about them.          *)
(***************************************************************************)
THEOREM WalksCorrect ==
  ASSUME "empty_last" \notin Calls
  PROVE  Spec => []WalksExact
<1>1. Init => WalksInv
  BY WalksInitially
<1>2. WalksInv /\ [Next]_vars => WalksInv'
  BY WalksKept
<1>3. WalksInv => WalksExact
  BY WalkExact DEF WalksExact
<1> QED
  BY <1>1, <1>2, <1>3, PTL DEF Spec


(* A read of a directory adds entries of it only. *)
LEMMA SeenInDirectory ==
  ASSUME BaseInv, NEW c \in held, Type(c) = "directory", NEW position \in Nat, NEW asked \in Nat,
         Range(walks[c].seen) \subseteq Entries(c),
         NEW w, Progressed(c, position, asked, w)
  PROVE  Range(w.seen) \subseteq Entries(c)
<1> DEFINE r == read_directory(c, position, asked)
           in == FilesInDir(c, From(c, position))
           sofar == IF position = 0 THEN <<>> ELSE walks[c].seen
           E == Entries(c)
<1>1. IsArchive(archive) /\ c \in Addresses \cup {ROOT} /\ walks[c].seen \in Seq(Nat)
  BY DEF BaseInv, Walk
<1>2. E \in SUBSET Nat
  BY <1>1, EntriesFinite
<1>3. w.seen = sofar \o r.data
  BY DEF Progressed, handle_read
<1>4. r.data = <<>> \/ (Min(in) \in in /\ r.data = <<Min(in)>>)
  BY <1>1, DirectoryRead
<1>5. in \subseteq E
  BY <1>1, FilesAre
<1>6. sofar \in Seq(Nat) /\ Range(sofar) \subseteq E
  BY <1>1, NotReadIs, EmptySeq
<1> HIDE DEF r, in, sofar, E
<1>7. CASE r.data = <<>>
  <2>1. sofar \o <<>> = sofar
    BY <1>6, ConcatEmptySeq
  <2> QED
    BY <1>3, <1>6, <1>7, <2>1 DEF E
<1>8. CASE Min(in) \in in /\ r.data = <<Min(in)>>
  <2> DEFINE a == Min(in)
             t == sofar \o <<a>>
             l == Len(sofar)
  <2>1. a \in E /\ a \in Nat
    BY <1>2, <1>5, <1>8
  <2> HIDE DEF a
  <2>2. DOMAIN t = 1..l + 1 /\ (\A i \in 1..l : t[i] = sofar[i]) /\ t[l + 1] = a
    BY <1>6, <2>1, Appended
  <2>3. l \in Nat /\ DOMAIN sofar = 1..l
    BY <1>6, LenProperties
  <2>4. w.seen = t
    BY <1>3, <1>8 DEF a
  <2> HIDE DEF t, l
  <2>5. \A i \in 1..l : sofar[i] \in E
    BY <1>6, <2>3 DEF Range
  <2>6. \A i \in 1..l + 1 : i \in 1..l \/ i = l + 1
    BY <2>3
  <2>7. \A i \in 1..l + 1 : t[i] \in E
    BY <2>1, <2>2, <2>5, <2>6
  <2>8. Range(t) \subseteq E
    BY <2>2, <2>7 DEF Range
  <2> QED
    BY <2>4, <2>8 DEF E
<1> QED
  BY <1>4, <1>7, <1>8

(* No inode is known when the server starts. *)
LEMMA InodesInitially == ASSUME Init PROVE InodesInv
<1>1. BaseInv
  BY BaseInitially
<1>2. held = {ROOT} /\ walks[ROOT] = NotRead
  BY DEF Init, held
<1> QED
  BY <1>1, <1>2, NotReadIs DEF InodesInv

(* Every message keeps what InodesInv says. *)
LEMMA InodesKept ==
  ASSUME "root_stat" \notin Calls, InodesInv, [Next]_vars
  PROVE  InodesInv'
<1> DEFINE Ok(b, w) == /\ w.inode \in {NULL, b}
                       /\ Type(b) = "directory" => Range(w.seen) \subseteq Entries(b)
<1>1. BaseInv /\ \A b \in held : Ok(b, walks[b])
  BY DEF InodesInv
<1>2. BaseInv'
  BY <1>1, BaseKept
<1>3. archive' = archive /\ \A c \in held' : Changed(c)
  <2>1. CASE Next
    BY <1>1, <2>1, WalkSteps
  <2>2. CASE UNCHANGED vars
    BY <2>2 DEF vars, held, Changed
  <2> QED
    BY <2>1, <2>2
<1>4. ASSUME NEW c \in held' PROVE Ok(c, walks'[c])
  <2>1. Changed(c) /\ (c \in held => walks[c] \in Walk /\ Ok(c, walks[c]))
    BY <1>1, <1>3 DEF BaseInv
  <2>2. CASE c \in held /\ walks'[c] = walks[c]
    BY <2>1, <2>2
  <2>3. CASE walks'[c] = NotRead
    BY <2>3, NotReadIs
  <2>4. CASE c \in held /\ (c = ROOT => "root_stat" \in Calls)
             /\ walks'[c] = [walks[c] EXCEPT !.inode = IF c = ROOT THEN START ELSE c]
    <3>1. walks'[c] = [walks[c] EXCEPT !.inode = c]
      BY <2>4
    <3>2. walks'[c].inode = c /\ walks'[c].seen = walks[c].seen
      BY <2>1, <2>4, <3>1, StatKeepsWalk
    <3> QED
      BY <2>1, <2>4, <3>2
  <2>5. CASE /\ c \in held /\ walks'[c] \in Walk
             /\ \E position, asked \in Nat : Progressed(c, position, asked, walks'[c])
    <3>1. PICK position \in Nat, asked \in Nat : Progressed(c, position, asked, walks'[c])
      BY <2>5
    <3>2. walks'[c].inode = walks[c].inode
      BY <3>1 DEF Progressed
    <3>3. Type(c) = "directory" => Range(walks'[c].seen) \subseteq Entries(c)
      BY <1>1, <2>1, <2>5, <3>1, SeenInDirectory
    <3> QED
      BY <2>1, <2>5, <3>2, <3>3
  <2> QED
    BY <2>1, <2>2, <2>3, <2>4, <2>5 DEF Changed
<1>5. \A c : Type(c)' = Type(c) /\ Entries(c)' = Entries(c)
  BY <1>3, ArchiveKept
<1> QED
  BY <1>2, <1>4, <1>5 DEF InodesInv, Range, NULL

(***************************************************************************)
(* Two descriptors of different files never report the same inode, and an  *)
(* opened file reports the inode that its directory entry has: for every   *)
(* archive, also those with a last entry without data, if the root         *)
(* directory's inode is not asked for.                                     *)
(***************************************************************************)
THEOREM InodesCorrect ==
  ASSUME "root_stat" \notin Calls
  PROVE  Spec => []InodesIdentify
<1>1. Init => InodesInv
  BY InodesInitially
<1>2. InodesInv /\ [Next]_vars => InodesInv'
  BY InodesKept
<1>3. ASSUME InodesInv PROVE InodesIdentify
  <2>1. \A b \in held : walks[b].inode \in {NULL, b}
    BY <1>3 DEF InodesInv
  <2>2. \A b, c \in held : walks[b].inode = walks[c].inode /\ walks[b].inode # NULL => b = c
    BY <2>1
  <2>3. ASSUME NEW b \in held, NEW c \in held, Type(c) = "directory",
               walks[b].inode \in Range(walks[c].seen)
        PROVE  DirectoryOf(b) = c
    <3>1. walks[b].inode \in Addresses /\ DirectoryOf(walks[b].inode) = c
      BY <1>3, <2>3 DEF InodesInv, Entries
    <3>2. walks[b].inode # NULL
      BY <1>3, <3>1, TreeIs DEF InodesInv, BaseInv, NULL, ROOT
    <3> QED
      BY <2>1, <3>1, <3>2
  <2> QED
    BY <2>2, <2>3 DEF InodesIdentify
<1> QED
  BY <1>1, <1>2, <1>3, PTL DEF Spec


(* The search for a name in a directory finds the entries that have it. *)
LEMMA FoundIsNamed ==
  ASSUME IsArchive(archive), AllSeen, NEW b \in Addresses \cup {ROOT}, Type(b) = "directory",
         NEW n \in Name
  PROVE  Found(b, n) = Named(b, {n})
<1> DEFINE from == IF b = ROOT THEN START ELSE next_file(b)
<1>1. n \in Seq(Chars) /\ \A k \in 1..Len(n) : n[k] # "nul"
  <2>1. n \in Seq(STRING) /\ \A k \in DOMAIN n : n[k] # "nul"
    BY InitrdAssumption
  <2>2. Len(n) \in Nat /\ DOMAIN n = 1..Len(n) /\ \A k \in 1..Len(n) : n[k] \in STRING
    BY <2>1, LenProperties, ElementOfSeq
  <2>3. \A k \in 1..Len(n) : n[k] \in Chars
    BY <2>2 DEF Chars
  <2>4. n \in Seq(Chars)
    BY <2>1, <2>2, <2>3
  <2> QED
    BY <2>1, <2>2, <2>4
<1>2. from # NULL /\ \A a \in Entries(b) : a >= from
  <2>1. CASE b = ROOT
    BY <2>1, TreeIs DEF Entries, START, MAGIC, NULL
  <2>2. CASE b # ROOT
    <3>1. b \in Addresses
      BY <2>2
    <3>2. b \in Nat /\ from = b + 1
      BY <2>2, <3>1, TreeIs DEF AllSeen, next_file
    <3>3. \A a \in Entries(b) : a \in Nat /\ b < a
      BY TreeIs DEF Entries
    <3> HIDE DEF from
    <3> QED
      BY <3>2, <3>3 DEF NULL
  <2> QED
    BY <2>1, <2>2
<1> HIDE DEF from
<1>3. FilesInDir(b, from) = Entries(b)
  <2>1. FilesInDir(b, from) = {a \in Entries(b) : a >= from}
    BY FilesAre
  <2> QED
    BY <1>2, <2>1
<1>4. ASSUME NEW a \in Entries(b) PROVE Matches(Path(b), a, n) <=> Entry(a).name = n
  <2>1. a \in Addresses /\ DirectoryOf(a) = b
    BY DEF Entries
  <2>2. Matches(Path(DirectoryOf(a)), a, n) <=> Entry(a).name = n
    BY <1>1, <2>1, MatchesName
  <2> QED
    BY <2>1, <2>2
<1>5. Found(b, n) = {a \in FilesInDir(b, from) : from # NULL /\ Matches(Path(b), a, n)}
  BY DEF Found, from
<1>6. Found(b, n) = {a \in Entries(b) : Matches(Path(b), a, n)}
  BY <1>2, <1>3, <1>5
<1>7. Named(b, {n}) = {a \in Entries(b) : Entry(a).name = n}
  BY DEF Named, Entries
<1> QED
  BY <1>4, <1>6, <1>7

(* What an open answers, in terms of the tree. *)
LEMMA OpenNamed ==
  ASSUME BaseInv, AllSeen, NodeEmpty, NEW b \in held, NEW n \in Name, NEW flags, NEW mode
  PROVE  LET reply == handle_open(b, n, flags, mode)
             named == IF Type(b) = "directory" THEN Named(b, {n}) ELSE {}
         IN  /\ reply.fd \subseteq named
             /\ reply.status = "ok" => reply.fd # {}
             /\ reply.status = "ENOENT" => named = {}
             /\ reply.status \in {"ok", "ENOENT", "EROFS", "ENOTSUP"}
<1> DEFINE r == handle_open(b, n, flags, mode)
           found == Found(b, n)
<1>1. IsArchive(archive) /\ b \in Addresses \cup {ROOT}
  BY DEF BaseInv
<1>2. /\ r.fd = {} \/ (Type(b) = "directory" /\ r.fd = {Min(found)} /\ Min(found) \in found)
      /\ r.status = "ok" => r.fd # {}
      /\ r.status = "ENOENT" => Type(b) = "directory" /\ found = {}
      /\ \/ r.status \in {"ok", "ENOENT", "EROFS", "ENOTSUP"}
         \/ TEMPORARY \in node
  BY <1>1, OpenReply
<1>3. TEMPORARY \notin node
  BY DEF NodeEmpty
<1>4. Type(b) = "directory" => found = Named(b, {n})
  BY <1>1, FoundIsNamed
<1> HIDE DEF r, found
<1> QED
  BY <1>2, <1>3, <1>4 DEF r

(***************************************************************************)
(* FD_OPEN gives a descriptor of the entry that has the name and is in the *)
(* directory, says there is none only if there is none, and with a name    *)
(* and without a wish to write never fails otherwise.  For every archive   *)
(* that ends with data and every sequence of messages, if clients take the *)
(* descriptors that are sent to them: the answer of one message does not   *)
(* depend on what earlier ones left behind.                                *)
(***************************************************************************)
THEOREM OpenCorrect ==
  ASSUME "refused" \notin Calls, "empty_last" \notin Calls
  PROVE  Spec => OpenExact
<1> DEFINE Exact ==
  (last'.message.call = "FD_OPEN" /\ last'.message.names # {})
    => LET b == last'.message.badge
           named == IF Type(b) = "directory" THEN Named(b, last'.message.names) ELSE {}
           reply == last'.reply
       IN  /\ reply.fd \subseteq named
           /\ reply.status = "ok" => reply.fd # {}
           /\ reply.status = "ENOENT" => named = {}
           /\ reply.status \in {"ok", "ENOENT", "EROFS", "ENOTSUP"}
<1>1. ASSUME BaseInv, NodeEmpty, Next PROVE Exact
  <2> SUFFICES ASSUME last'.message.call = "FD_OPEN", last'.message.names # {} PROVE Exact
    OBVIOUS
  <2>1. AllSeen
    BY <1>1 DEF BaseInv
  <2>2. \E b, names, name, flags, mode, taken : OpenStep(b, names, name, flags, mode, taken)
    BY <1>1, Steps DEF ReadStep, StatStep, QuietStep
  <2>3. PICK b, names, n, flags, mode, taken : OpenStep(b, names, n, flags, mode, taken)
    BY <2>2
  <2>4. b \in held /\ n \in Name
    BY <2>3 DEF OpenStep
  <2>5. /\ last'.message.badge = b /\ last'.message.names = names
        /\ last'.reply = handle_open(b, n, flags, mode)
    BY <2>3 DEF OpenStep, FdOpen, Served, Message
  <2>6. names = {n}
    BY <2>3, <2>5 DEF OpenStep, FdOpen
  <2> DEFINE reply == handle_open(b, n, flags, mode)
             named == IF Type(b) = "directory" THEN Named(b, {n}) ELSE {}
  <2>7. /\ reply.fd \subseteq named
        /\ reply.status = "ok" => reply.fd # {}
        /\ reply.status = "ENOENT" => named = {}
        /\ reply.status \in {"ok", "ENOENT", "EROFS", "ENOTSUP"}
    BY <1>1, <2>1, <2>4, OpenNamed
  <2>8. /\ last'.message.badge = b /\ last'.message.names = {n} /\ last'.reply = reply
    BY <2>5, <2>6
  <2> HIDE DEF reply
  <2> QED
    BY <2>7, <2>8
<1>2. BaseInv /\ NodeEmpty /\ [Next]_vars => [Exact]_vars
  BY <1>1
<1>3. Spec => []NodeEmpty
  BY NodeEmptyCorrect
<1> QED
  BY <1>2, <1>3, BaseCorrect, PTL DEF Spec, OpenExact
=============================================================================
