--------------------------- MODULE PublicApiProofs ---------------------------
(***************************************************************************)
(* Proofs about PublicApi: for any gateways, Workers, routes and values,   *)
(* what a gateway publishes is what it serves.                             *)
(***************************************************************************)
EXTENDS PublicApi, SequenceTheorems, WellFoundedInduction, TLAPS

-----------------------------------------------------------------------------
(* Paths. *)

Path == Seq(Pieces)

LEMMA PathLength ==
  ASSUME NEW p \in Path
  PROVE  Len(p) \in Nat /\ DOMAIN p = 1 .. Len(p)
BY LenProperties DEF Path

LEMMA Joined ==
  ASSUME NEW a \in Path, NEW b \in Path
  PROVE  /\ a \o b \in Path /\ Len(a \o b) = Len(a) + Len(b)
         /\ \A k \in 1 .. Len(a) : (a \o b)[k] = a[k]
         /\ \A k \in 1 .. Len(b) : (a \o b)[Len(a) + k] = b[k]
<1>1. /\ a \o b \in Seq(Pieces) /\ Len(a \o b) = Len(a) + Len(b)
      /\ \A i \in 1 .. Len(a) + Len(b) : (a \o b)[i] = IF i <= Len(a) THEN a[i] ELSE b[i - Len(a)]
  BY ConcatProperties DEF Path
<1>2. Len(a) \in Nat /\ Len(b) \in Nat
  BY PathLength
<1>3. ASSUME NEW k \in 1 .. Len(a) PROVE (a \o b)[k] = a[k]
  BY <1>1, <1>2
<1>4. ASSUME NEW k \in 1 .. Len(b) PROVE (a \o b)[Len(a) + k] = b[k]
  <2>1. Len(a) + k \in 1 .. Len(a) + Len(b) /\ ~(Len(a) + k <= Len(a)) /\ (Len(a) + k) - Len(a) = k
    BY <1>2
  <2> QED
    BY <2>1, <1>1
<1> QED
  BY <1>1, <1>3, <1>4 DEF Path

LEMMA SamePath ==
  ASSUME NEW a \in Path, NEW b \in Path, Len(a) = Len(b), \A k \in 1 .. Len(a) : a[k] = b[k]
  PROVE  a = b
BY SeqEqual DEF Path

LEMMA PartOfPath ==
  ASSUME NEW p \in Path, NEW m \in Nat, NEW n \in Nat, 1 <= m, n <= Len(p)
  PROVE  /\ SubSeq(p, m, n) \in Path
         /\ Len(SubSeq(p, m, n)) = IF m <= n THEN n - m + 1 ELSE 0
         /\ \A k \in 1 .. n - m + 1 : SubSeq(p, m, n)[k] = p[m + k - 1]
<1>1. \A k \in m .. n : p[k] \in Pieces
  <2>1. \A k \in 1 .. Len(p) : p[k] \in Pieces
    BY ElementOfSeq DEF Path
  <2> QED
    BY <2>1, PathLength
<1> QED
  BY <1>1, SubSeqProperties DEF Path

LEMMA Associated ==
  ASSUME NEW a \in Path, NEW b \in Path, NEW c \in Path
  PROVE  a \o (b \o c) = (a \o b) \o c
BY ConcatAssociative DEF Path

\* startsWith().
LEMMA PrefixMeans ==
  ASSUME NEW a \in Path, NEW b \in Path
  PROVE  IsPrefix(a, b) <=> Len(a) <= Len(b) /\ \A k \in 1 .. Len(a) : b[k] = a[k]
<1>1. Len(a) \in Nat /\ Len(b) \in Nat
  BY PathLength
<1>2. SubSeq(a, 1, Len(a)) = a
  BY SubSeqFull DEF Path
<1>3. CASE Len(a) <= Len(b)
  <2>1. /\ SubSeq(b, 1, Len(a)) \in Path
        /\ Len(SubSeq(b, 1, Len(a))) = IF 1 <= Len(a) THEN Len(a) - 1 + 1 ELSE 0
        /\ \A k \in 1 .. Len(a) - 1 + 1 : SubSeq(b, 1, Len(a))[k] = b[1 + k - 1]
    BY <1>1, <1>3, PartOfPath
  <2>2. Len(SubSeq(b, 1, Len(a))) = Len(a)
    BY <2>1, <1>1
  <2>3. \A k \in 1 .. Len(a) : SubSeq(b, 1, Len(a))[k] = b[k]
    BY <2>1, <1>1
  <2> DEFINE start == SubSeq(b, 1, Len(a))
  <2>4. start \in Path /\ Len(start) = Len(a) /\ \A k \in 1 .. Len(a) : start[k] = b[k]
    BY <2>1, <2>2, <2>3
  <2>5. IsPrefix(a, b) <=> a = start
    BY <1>2, <1>3 DEF IsPrefix
  <2> HIDE DEF start
  <2>6. (\A k \in 1 .. Len(a) : b[k] = a[k]) => a = start
    <3> SUFFICES ASSUME \A k \in 1 .. Len(a) : b[k] = a[k] PROVE a = start
      OBVIOUS
    <3>1. \A k \in 1 .. Len(a) : a[k] = start[k]
      BY <2>4
    <3> QED
      BY <3>1, <2>4, SamePath
  <2> QED
    BY <1>3, <2>4, <2>5, <2>6
<1> QED
  BY <1>3 DEF IsPrefix

\* slice().
LEMMA Rest ==
  ASSUME NEW a \in Path, NEW b \in Path
  PROVE  /\ SubSeq(a \o b, Len(a) + 1, Len(a \o b)) = b
         /\ IsPrefix(a, a \o b)
<1>1. Len(a) \in Nat /\ Len(b) \in Nat
  BY PathLength
<1>2. /\ a \o b \in Path /\ Len(a \o b) = Len(a) + Len(b)
      /\ \A k \in 1 .. Len(a) : (a \o b)[k] = a[k]
      /\ \A k \in 1 .. Len(b) : (a \o b)[Len(a) + k] = b[k]
  BY Joined
<1> DEFINE whole == a \o b
           left  == SubSeq(whole, Len(a) + 1, Len(whole))
<1>3. /\ whole \in Path /\ Len(whole) = Len(a) + Len(b)
      /\ \A k \in 1 .. Len(a) : whole[k] = a[k]
      /\ \A k \in 1 .. Len(b) : whole[Len(a) + k] = b[k]
  BY <1>2
<1> SUFFICES left = b /\ IsPrefix(a, whole)
  OBVIOUS
<1> HIDE DEF whole
<1>4. /\ left \in Path
      /\ Len(left) = IF Len(a) + 1 <= Len(whole) THEN Len(whole) - (Len(a) + 1) + 1 ELSE 0
      /\ \A k \in 1 .. Len(whole) - (Len(a) + 1) + 1 : left[k] = whole[(Len(a) + 1) + k - 1]
  BY <1>1, <1>3, PartOfPath
<1>5. Len(left) = Len(b)
  BY <1>1, <1>3, <1>4
<1>6. ASSUME NEW k \in 1 .. Len(b) PROVE left[k] = b[k]
  <2>1. k \in 1 .. Len(whole) - (Len(a) + 1) + 1 /\ (Len(a) + 1) + k - 1 = Len(a) + k
    BY <1>1, <1>3
  <2> QED
    BY <2>1, <1>3, <1>4
<1> HIDE DEF left
<1>7. left = b
  BY <1>4, <1>5, <1>6, SamePath
<1>8. IsPrefix(a, whole)
  BY <1>1, <1>3, PrefixMeans
<1> QED
  BY <1>7, <1>8

LEMMA Split ==
  ASSUME NEW a \in Path, NEW p \in Path, IsPrefix(a, p)
  PROVE  /\ SubSeq(p, Len(a) + 1, Len(p)) \in Path
         /\ p = a \o SubSeq(p, Len(a) + 1, Len(p))
<1>1. Len(a) \in Nat /\ Len(p) \in Nat /\ Len(a) <= Len(p)
  BY PathLength, PrefixMeans
<1> DEFINE rest == SubSeq(p, Len(a) + 1, Len(p))
<1>2. /\ rest \in Path
      /\ Len(rest) = IF Len(a) + 1 <= Len(p) THEN Len(p) - (Len(a) + 1) + 1 ELSE 0
      /\ \A k \in 1 .. Len(p) - (Len(a) + 1) + 1 : rest[k] = p[(Len(a) + 1) + k - 1]
  BY <1>1, PartOfPath
<1> SUFFICES rest \in Path /\ p = a \o rest
  OBVIOUS
<1> HIDE DEF rest
<1>3. Len(rest) = Len(p) - Len(a)
  BY <1>1, <1>2
<1> DEFINE whole == a \o rest
<1>4. /\ whole \in Path /\ Len(whole) = Len(a) + Len(rest)
      /\ \A k \in 1 .. Len(a) : whole[k] = a[k]
      /\ \A k \in 1 .. Len(rest) : whole[Len(a) + k] = rest[k]
  BY <1>2, Joined
<1> SUFFICES rest \in Path /\ p = whole
  OBVIOUS
<1> HIDE DEF whole
<1>5. Len(whole) = Len(p)
  BY <1>1, <1>3, <1>4
<1>6. ASSUME NEW k \in 1 .. Len(p) PROVE p[k] = whole[k]
  <2>1. CASE k <= Len(a)
    <3>1. p[k] = a[k]
      BY <2>1, <1>1, PrefixMeans
    <3> QED
      BY <3>1, <2>1, <1>1, <1>4
  <2>2. CASE Len(a) < k
    <3> DEFINE l == k - Len(a)
    <3>1. l \in 1 .. Len(rest) /\ k = Len(a) + l /\ l \in 1 .. Len(p) - (Len(a) + 1) + 1
          /\ (Len(a) + 1) + l - 1 = k
      BY <2>2, <1>1, <1>3
    <3> HIDE DEF l
    <3>2. rest[l] = p[k]
      BY <3>1, <1>2
    <3>3. whole[k] = rest[l]
      BY <3>1, <1>4
    <3> QED
      BY <3>2, <3>3
  <2> QED
    BY <2>1, <2>2, <1>1
<1> QED
  BY <1>2, <1>4, <1>5, <1>6, SamePath

-----------------------------------------------------------------------------
(* Mounts. *)

LEMMA FixedPaths ==
  /\ <<>> \in Path /\ Len(<<>>) = 0
  /\ Slash \in Path /\ Len(Slash) = 1 /\ Slash[1] = "/"
  /\ Internal \in Path /\ Len(Internal) = 3
  /\ Internal[1] = "/" /\ Internal[2] = "__gmode" /\ Internal[3] = "/"
  /\ InternalRoot \in Path /\ Len(InternalRoot) = 2 /\ InternalRoot[2] = "__gmode"
  /\ DocumentPath \in Path /\ Len(DocumentPath) = 4 /\ IsPrefix(Internal, DocumentPath)
  /\ DocumentPath[1] = "/"
  /\ HealthPath \in Path /\ Len(HealthPath) = 4 /\ HealthPath[1] = "/"
  /\ Alias \in Path /\ Len(Alias) = 2 /\ Alias[1] = "/" /\ Alias[2] = "openapi.json"
<1>1. /\ Slash \in Path /\ Len(Slash) = 1 /\ Slash[1] = "/" /\ <<>> \in Path /\ Len(<<>>) = 0
  BY PiecesAssumption DEF Slash, Path
<1>2. /\ Internal \in Path /\ Len(Internal) = 3
      /\ Internal[1] = "/" /\ Internal[2] = "__gmode" /\ Internal[3] = "/"
  BY PiecesAssumption DEF Internal, Path
<1>3. InternalRoot \in Path /\ Len(InternalRoot) = 2 /\ InternalRoot[2] = "__gmode"
  BY PiecesAssumption DEF InternalRoot, Path
<1>4. Alias \in Path /\ Len(Alias) = 2 /\ Alias[1] = "/" /\ Alias[2] = "openapi.json"
  BY PiecesAssumption DEF Alias, Path
<1> DEFINE document == <<"openapi.json">>
           health   == <<"health">>
<1>5. document \in Path /\ Len(document) = 1 /\ health \in Path /\ Len(health) = 1
  BY PiecesAssumption DEF Path
<1>6. DocumentPath = Internal \o document /\ HealthPath = Internal \o health
  BY DEF DocumentPath, HealthPath
<1> HIDE DEF document, health
<1>0. 1 \in 1 .. Len(Internal)
  BY <1>2
<1>7. DocumentPath \in Path /\ Len(DocumentPath) = 4 /\ DocumentPath[1] = "/"
  <2>1. /\ Internal \o document \in Path /\ Len(Internal \o document) = Len(Internal) + Len(document)
        /\ \A k \in 1 .. Len(Internal) : (Internal \o document)[k] = Internal[k]
    BY <1>2, <1>5, Joined
  <2> QED
    BY <2>1, <1>0, <1>2, <1>5, <1>6
<1>8. HealthPath \in Path /\ Len(HealthPath) = 4 /\ HealthPath[1] = "/"
  <2>1. /\ Internal \o health \in Path /\ Len(Internal \o health) = Len(Internal) + Len(health)
        /\ \A k \in 1 .. Len(Internal) : (Internal \o health)[k] = Internal[k]
    BY <1>2, <1>5, Joined
  <2> QED
    BY <2>1, <1>0, <1>2, <1>5, <1>6
<1>9. IsPrefix(Internal, DocumentPath)
  BY <1>2, <1>5, <1>6, Rest
<1> QED
  BY <1>1, <1>2, <1>3, <1>4, <1>7, <1>8, <1>9

LEMMA SinglePiece ==
  ASSUME NEW p \in Path, Len(p) = 1, p[1] = "/"
  PROVE  p = Slash
<1>1. \A k \in 1 .. Len(p) : p[k] = Slash[k]
  BY FixedPaths
<1> QED
  BY <1>1, FixedPaths, SamePath

LEMMA MountFacts ==
  ASSUME NEW m \in Path, ValidMount(m)
  PROVE  /\ Len(m) \in Nat /\ Len(m) >= 1 /\ m[1] = "/"
         /\ NormalizeMount(m) = m
         /\ m # Slash => Len(m) >= 2 /\ m[Len(m)] # "/" /\ WithoutTrailingSlash(m) = m
<1>1. Len(m) \in Nat /\ m # <<>> /\ m[1] = "/"
  BY PathLength DEF ValidMount
<1>2. Len(m) # 0
  <2>1. Len(m) = 0 => m = <<>>
    BY EmptySeq DEF Path
  <2> QED
    BY <2>1, <1>1
<1>3. m # Slash => Len(m) >= 2
  BY <1>1, <1>2, SinglePiece
<1>4. m # Slash => m[Len(m)] # "/" /\ WithoutTrailingSlash(m) = m
  BY <1>3, <1>1 DEF ValidMount, WithoutTrailingSlash, Last
<1>5. NormalizeMount(m) = m
  BY <1>4, <1>1 DEF NormalizeMount
<1> QED
  BY <1>1, <1>2, <1>3, <1>4, <1>5

\* What a mount puts before a path.
Before(m) == IF m = Slash THEN <<>> ELSE m

LEMMA BeforeFacts ==
  ASSUME NEW m \in Path, ValidMount(m)
  PROVE  /\ Before(m) \in Path
         /\ JoinPrefix(m, Slash) = Before(m)
         /\ \A a \in Path : JoinPrefix(m, a) = Before(m) \o Before(a)
         /\ \A p \in Path : PublicPath(m, p) = IF m # Slash /\ p = Slash THEN m ELSE Before(m) \o p
         /\ ToSet(Before(m)) \subseteq ToSet(m)
<1>1. Before(m) \in Path
  BY FixedPaths DEF Before
<1>2. \A p \in Path : <<>> \o p = p /\ p \o <<>> = p
  BY ConcatEmptySeq DEF Path
<1>3. ASSUME NEW a \in Path PROVE JoinPrefix(m, a) = Before(m) \o Before(a)
  BY MountFacts DEF JoinPrefix, Before
<1>4. JoinPrefix(m, Slash) = Before(m)
  BY <1>1, <1>2, <1>3, FixedPaths DEF Before
<1>5. ASSUME NEW p \in Path
      PROVE PublicPath(m, p) = IF m # Slash /\ p = Slash THEN m ELSE Before(m) \o p
  BY <1>2, MountFacts DEF PublicPath, Before
<1>6. ToSet(Before(m)) \subseteq ToSet(m)
  BY DEF ToSet, Before
<1> QED
  BY <1>1, <1>3, <1>4, <1>5, <1>6

LEMMA UnderMeans ==
  ASSUME NEW m \in Path, ValidMount(m), NEW p \in Path
  PROVE  Under(p, m) <=> m = Slash \/ p = m \/ IsPrefix(m \o Slash, p)
<1>1. Append(m, "/") = m \o Slash
  BY PiecesAssumption, AppendIsConcat DEF Path, Slash
<1> QED
  BY <1>1 DEF Under

\* The pieces of a path and of its parts.
LEMMA PiecesJoined ==
  ASSUME NEW a \in Path, NEW b \in Path
  PROVE  ToSet(a \o b) = ToSet(a) \union ToSet(b)
<1>1. /\ a \o b \in Path /\ Len(a \o b) = Len(a) + Len(b)
      /\ \A k \in 1 .. Len(a) : (a \o b)[k] = a[k]
      /\ \A k \in 1 .. Len(b) : (a \o b)[Len(a) + k] = b[k]
  BY Joined
<1> DEFINE whole == a \o b
<1>2. Len(a) \in Nat /\ Len(b) \in Nat /\ DOMAIN a = 1 .. Len(a) /\ DOMAIN b = 1 .. Len(b)
      /\ DOMAIN whole = 1 .. Len(a) + Len(b)
  BY <1>1, PathLength
<1>3. /\ \A k \in 1 .. Len(a) : whole[k] = a[k]
      /\ \A k \in 1 .. Len(b) : whole[Len(a) + k] = b[k]
  BY <1>1
<1> HIDE DEF whole
<1>4. ASSUME NEW k \in DOMAIN whole PROVE whole[k] \in ToSet(a) \union ToSet(b)
  <2>1. CASE k <= Len(a)
    BY <2>1, <1>2, <1>3 DEF ToSet
  <2>2. CASE Len(a) < k
    <3> DEFINE l == k - Len(a)
    <3>1. l \in 1 .. Len(b) /\ k = Len(a) + l
      BY <2>2, <1>2
    <3> HIDE DEF l
    <3> QED
      BY <3>1, <1>2, <1>3 DEF ToSet
  <2> QED
    BY <2>1, <2>2, <1>2
<1>5. ASSUME NEW k \in DOMAIN a PROVE a[k] \in ToSet(whole)
  <2>1. k \in DOMAIN whole /\ whole[k] = a[k]
    BY <1>2, <1>3
  <2> QED
    BY <2>1 DEF ToSet
<1>6. ASSUME NEW k \in DOMAIN b PROVE b[k] \in ToSet(whole)
  <2>1. Len(a) + k \in DOMAIN whole /\ whole[Len(a) + k] = b[k]
    BY <1>2, <1>3
  <2> QED
    BY <2>1 DEF ToSet
<1>7. ToSet(whole) = ToSet(a) \union ToSet(b)
  BY <1>4, <1>5, <1>6 DEF ToSet
<1> QED
  BY <1>7 DEF whole

\* Two mounts in a row are a mount.
LEMMA JoinedMount ==
  ASSUME NEW b \in Path, ValidMount(b), NEW a \in Path, ValidMount(a),
         NEW m, m = IF JoinPrefix(b, a) = <<>> THEN Slash ELSE JoinPrefix(b, a)
  PROVE  /\ m \in Path /\ ValidMount(m)
         /\ Before(m) = JoinPrefix(b, a)
         /\ m = Slash <=> b = Slash /\ a = Slash
         /\ ToSet(m) \subseteq ToSet(b) \union ToSet(a) \union {"/"}
         /\ a = Slash => m = b
<1>1. JoinPrefix(b, a) = Before(b) \o Before(a) /\ Before(b) \in Path /\ Before(a) \in Path
  BY BeforeFacts
<1>2. \A p \in Path : <<>> \o p = p /\ p \o <<>> = p
  BY ConcatEmptySeq DEF Path
<1>3. Slash # <<>> /\ ToSet(Slash) = {"/"}
  <2>1. DOMAIN Slash = {1} /\ Slash[1] = "/"
    BY DEF Slash
  <2>2. ToSet(Slash) = {Slash[1]}
    BY <2>1 DEF ToSet
  <2> QED
    BY <2>1, <2>2, FixedPaths
<1>4. CASE a = Slash
  <2>1. JoinPrefix(b, a) = Before(b)
    BY <1>1, <1>2, <1>4, FixedPaths DEF Before
  <2>2. m = b
    BY <2>1, MountFacts DEF Before, ValidMount
  <2> QED
    BY <2>1, <2>2, <1>4, MountFacts DEF Before
<1>5. CASE a # Slash /\ b = Slash
  <2>1. JoinPrefix(b, a) = a
    BY <1>1, <1>2, <1>5 DEF Before
  <2>2. m = a
    BY <2>1 DEF ValidMount
  <2> QED
    BY <2>1, <2>2, <1>5 DEF Before
<1>6. CASE a # Slash /\ b # Slash
  <2>1. JoinPrefix(b, a) = b \o a
    BY <1>1, <1>6 DEF Before
  <2>2. /\ b \o a \in Path /\ Len(b \o a) = Len(b) + Len(a)
        /\ \A k \in 1 .. Len(b) : (b \o a)[k] = b[k]
        /\ \A k \in 1 .. Len(a) : (b \o a)[Len(b) + k] = a[k]
    BY Joined
  <2>3. /\ Len(b) \in Nat /\ Len(b) >= 2 /\ b[1] = "/"
        /\ Len(a) \in Nat /\ Len(a) >= 2 /\ a[Len(a)] # "/"
    BY <1>6, MountFacts
  <2>4. ToSet(b \o a) = ToSet(b) \union ToSet(a)
    BY PiecesJoined
  <2> DEFINE whole == b \o a
  <2>5. /\ whole \in Path /\ Len(whole) >= 4 /\ whole[1] = "/" /\ whole[Len(whole)] # "/"
    <3>1. 1 \in 1 .. Len(b) /\ Len(a) \in 1 .. Len(a)
      BY <2>3
    <3> QED
      BY <3>1, <2>2, <2>3
  <2>6. JoinPrefix(b, a) = whole /\ ToSet(whole) = ToSet(b) \union ToSet(a)
    BY <2>1, <2>4
  <2> HIDE DEF whole
  <2>7. whole # <<>> /\ whole # Slash
    BY <2>5, FixedPaths
  <2>8. m = whole
    BY <2>6, <2>7
  <2>9. ValidMount(whole)
    BY <2>5, <2>7 DEF ValidMount, Last
  <2> QED
    BY <2>5, <2>6, <2>7, <2>8, <2>9, <1>6 DEF Before
<1> QED
  BY <1>4, <1>5, <1>6

-----------------------------------------------------------------------------
(* Parameters and the values in their place. *)

LEMMA Induction ==
  ASSUME NEW good, 0 \in good, \A n \in Nat : n \in good => n + 1 \in good
  PROVE  \A n \in Nat : n \in good
<1> DEFINE bad  == {n \in Nat : n \notin good}
           less == {p \in Nat \X Nat : p[1] < p[2]}
<1> SUFFICES ASSUME bad # {} PROVE FALSE
  OBVIOUS
<1>1. IsWellFoundedOn(less, Nat)
  BY NatLessThanWellFounded DEF OpToRel
<1>2. \E m \in bad : \A k \in bad : <<k, m>> \notin less
  <2> HIDE DEF less
  <2>1. bad \in SUBSET Nat
    OBVIOUS
  <2> HIDE DEF bad
  <2> QED
    BY <1>1, <2>1, WFMin
<1>3. PICK m \in bad : \A k \in bad : <<k, m>> \notin less
  BY <1>2
<1>4. m # 0
  OBVIOUS
<1>5. m - 1 \in Nat /\ <<m - 1, m>> \in less
  BY <1>4
<1>6. m - 1 \in good
  BY <1>3, <1>5
<1> QED
  BY <1>5, <1>6

LEMMA SubstitutedDef ==
  ASSUME NEW path, NEW pieces, Len(path) \in Nat
  PROVE  Substituted(path, pieces) =
           [n \in 0 .. Len(path) |->
              IF n = 0 THEN <<>>
              ELSE Substituted(path, pieces)[n - 1]
                     \o (IF path[n] \in Parameters THEN pieces ELSE <<path[n]>>)]
<1> DEFINE next(acc, n) == acc \o (IF path[n] \in Parameters THEN pieces ELSE <<path[n]>>)
           solves(f, m) == f = [n \in 0 .. m |-> IF n = 0 THEN <<>> ELSE next(f[n - 1], n)]
           good == {m \in Nat : \E f : solves(f, m)}
<1>1. 0 \in good
  <2>1. solves([n \in 0 .. 0 |-> <<>>], 0)
    OBVIOUS
  <2> QED
    BY <2>1
<1>2. ASSUME NEW m \in Nat, m \in good PROVE m + 1 \in good
  <2>1. PICK f : solves(f, m)
    BY <1>2
  <2> DEFINE g == [n \in 0 .. m + 1 |-> IF n = m + 1 THEN next(f[m], m + 1) ELSE f[n]]
  <2> HIDE DEF next
  <2>2. solves(g, m + 1)
    BY <2>1
  <2> HIDE DEF solves, g
  <2> QED
    BY <2>2
<1>3. Len(path) \in good
  <2> HIDE DEF good
  <2> QED
    BY <1>1, <1>2, Induction
<1> QED
  BY <1>3 DEF Substituted

\* A path with one piece in the place of each parameter.
Piece(p, x) == IF p \in Parameters THEN x ELSE p

Filled(path, full, x) ==
  /\ full \in Path /\ Len(full) = Len(path)
  /\ \A k \in 1 .. Len(path) : full[k] = Piece(path[k], x)

LEMMA SubstitutedFacts ==
  ASSUME NEW path \in Path, NEW x \in Pieces, NEW pieces,
         \A k \in 1 .. Len(path) : path[k] \in Parameters => pieces = <<x>>
  PROVE  Filled(path, Substituted(path, pieces)[Len(path)], x)
<1> DEFINE after == Substituted(path, pieces)
           good == {n \in Nat : n <= Len(path) =>
                      /\ after[n] \in Path /\ Len(after[n]) = n
                      /\ \A k \in 1 .. n : after[n][k] = Piece(path[k], x)}
<1>1. Len(path) \in Nat /\ \A k \in 1 .. Len(path) : path[k] \in Pieces
  BY PathLength, ElementOfSeq DEF Path
<1>2. after = [n \in 0 .. Len(path) |->
                 IF n = 0 THEN <<>>
                 ELSE after[n - 1] \o (IF path[n] \in Parameters THEN pieces ELSE <<path[n]>>)]
  BY <1>1, SubstitutedDef
<1>3. 0 \in good
  <2>1. after[0] = <<>>
    <3>1. 0 \in 0 .. Len(path)
      BY <1>1
    <3> HIDE DEF after
    <3> QED
      BY <3>1, <1>2
  <2> HIDE DEF after
  <2> QED
    BY <2>1, FixedPaths
<1>4. ASSUME NEW n \in Nat, n \in good PROVE n + 1 \in good
  <2> SUFFICES ASSUME n + 1 <= Len(path)
               PROVE  /\ after[n + 1] \in Path /\ Len(after[n + 1]) = n + 1
                      /\ \A k \in 1 .. n + 1 : after[n + 1][k] = Piece(path[k], x)
    OBVIOUS
  <2>1. /\ after[n] \in Path /\ Len(after[n]) = n
        /\ \A k \in 1 .. n : after[n][k] = Piece(path[k], x)
    BY <1>1, <1>4
  <2> DEFINE last == <<Piece(path[n + 1], x)>>
             old  == after[n]
  <2>2. Piece(path[n + 1], x) \in Pieces
    BY <1>1 DEF Piece
  <2>3. last \in Path /\ Len(last) = 1 /\ last[1] = Piece(path[n + 1], x)
    BY <2>2 DEF Path
  <2>4. after[n + 1] = old \o last
    <3>1. n + 1 \in 0 .. Len(path) /\ n + 1 # 0 /\ (n + 1) - 1 = n
      BY <1>1
    <3>2. after[n + 1] = after[n] \o (IF path[n + 1] \in Parameters THEN pieces ELSE <<path[n + 1]>>)
      <4> HIDE DEF after
      <4> QED
        BY <3>1, <1>2
    <3>3. (IF path[n + 1] \in Parameters THEN pieces ELSE <<path[n + 1]>>) = last
      BY <3>1 DEF Piece
    <3> QED
      BY <3>2, <3>3
  <2>5. /\ old \in Path /\ Len(old) = n /\ \A k \in 1 .. n : old[k] = Piece(path[k], x)
    BY <2>1
  <2> HIDE DEF last, old, after
  <2>6. /\ old \o last \in Path /\ Len(old \o last) = Len(old) + Len(last)
        /\ \A k \in 1 .. Len(old) : (old \o last)[k] = old[k]
        /\ \A k \in 1 .. Len(last) : (old \o last)[Len(old) + k] = last[k]
    BY <2>3, <2>5, Joined
  <2> DEFINE new == old \o last
  <2>7. /\ new \in Path /\ Len(new) = n + 1
        /\ \A k \in 1 .. n : new[k] = old[k]
        /\ new[n + 1] = last[1]
    BY <2>3, <2>5, <2>6
  <2>8. after[n + 1] = new
    BY <2>4
  <2> HIDE DEF new
  <2>9. ASSUME NEW k \in 1 .. n + 1 PROVE new[k] = Piece(path[k], x)
    <3>1. CASE k = n + 1
      BY <3>1, <2>3, <2>7
    <3>2. CASE k \in 1 .. n
      BY <3>2, <2>5, <2>7
    <3> QED
      BY <3>1, <3>2
  <2> QED
    BY <2>7, <2>8, <2>9
<1>5. Len(path) \in good
  <2> HIDE DEF good
  <2> QED
    BY <1>1, <1>3, <1>4, Induction
<1> HIDE DEF after
<1> QED
  BY <1>1, <1>5 DEF Filled, after

\* Nothing is filled in where there is no parameter.
LEMMA FilledPlainly ==
  ASSUME NEW path \in Path, ToSet(path) \intersect Parameters = {}, NEW full, NEW x, Filled(path, full, x)
  PROVE  full = path
<1>1. ASSUME NEW k \in 1 .. Len(path) PROVE full[k] = path[k]
  <2>1. path[k] \in ToSet(path)
    BY PathLength DEF ToSet
  <2> QED
    BY <2>1 DEF Filled, Piece
<1> QED
  BY <1>1, SamePath DEF Filled

-----------------------------------------------------------------------------
(* What lies below a mount. *)

\* A path begins with a slash.
Rooted(path) == path \in Path /\ Len(path) >= 1 /\ path[1] = "/"

LEMMA BelowFacts ==
  ASSUME NEW m \in Path, ValidMount(m), NEW inner, Rooted(inner), NEW path, path = PublicPath(m, inner)
  PROVE  /\ path \in Path /\ Under(path, m) /\ Rooted(path)
         /\ m = Slash => path = inner
         /\ m # Slash => /\ path = m <=> inner = Slash
                         /\ path # m => path = m \o inner /\ SubSeq(path, Len(m) + 1, Len(path)) = inner
<1>1. inner \in Path /\ Len(inner) >= 1 /\ inner[1] = "/" /\ Len(inner) \in Nat
  BY PathLength DEF Rooted
<1>2. PublicPath(m, inner) = IF m # Slash /\ inner = Slash THEN m ELSE Before(m) \o inner
  BY <1>1, BeforeFacts
<1>3. CASE m = Slash
  <2>1. path = <<>> \o inner
    BY <1>2, <1>3 DEF Before
  <2>2. path = inner
    BY <2>1, <1>1, ConcatEmptySeq DEF Path
  <2> QED
    BY <2>2, <1>1, <1>3, UnderMeans DEF Rooted
<1>4. CASE m # Slash /\ inner = Slash
  <2>1. path = m
    BY <1>2, <1>4
  <2> QED
    BY <2>1, <1>4, UnderMeans, MountFacts DEF Rooted
<1>5. CASE m # Slash /\ inner # Slash
  <2>1. path = m \o inner
    BY <1>2, <1>5 DEF Before
  <2>2. m \o inner \in Path /\ Len(m \o inner) = Len(m) + Len(inner)
        /\ (\A k \in 1 .. Len(m) : (m \o inner)[k] = m[k])
        /\ (\A k \in 1 .. Len(inner) : (m \o inner)[Len(m) + k] = inner[k])
    BY <1>1, Joined
  <2>3. SubSeq(m \o inner, Len(m) + 1, Len(m \o inner)) = inner
    BY <1>1, Rest
  <2>4. Len(m) \in Nat /\ Len(m) >= 2 /\ m[1] = "/"
    BY <1>5, MountFacts
  <2>5. path \in Path /\ Len(path) = Len(m) + Len(inner)
        /\ (\A k \in 1 .. Len(m) : path[k] = m[k])
        /\ (\A k \in 1 .. Len(inner) : path[Len(m) + k] = inner[k])
        /\ SubSeq(path, Len(m) + 1, Len(path)) = inner
    BY <2>1, <2>2, <2>3
  <2>6. path # m /\ Rooted(path)
    BY <1>1, <2>4, <2>5 DEF Rooted
  <2>7. IsPrefix(m \o Slash, path)
    <3> DEFINE open == m \o Slash
    <3>1. open \in Path /\ Len(open) = Len(m) + 1
          /\ (\A k \in 1 .. Len(m) : open[k] = m[k]) /\ open[Len(m) + 1] = "/"
      <4>1. /\ m \o Slash \in Path /\ Len(m \o Slash) = Len(m) + Len(Slash)
            /\ \A k \in 1 .. Len(m) : (m \o Slash)[k] = m[k]
            /\ \A k \in 1 .. Len(Slash) : (m \o Slash)[Len(m) + k] = Slash[k]
        BY FixedPaths, Joined
      <4> QED
        BY <4>1, FixedPaths
    <3> SUFFICES IsPrefix(open, path)
      OBVIOUS
    <3> HIDE DEF open
    <3>2. ASSUME NEW k \in 1 .. Len(open) PROVE path[k] = open[k]
      <4>1. CASE k \in 1 .. Len(m)
        BY <4>1, <3>1, <2>5
      <4>2. CASE k = Len(m) + 1
        <5>1. 1 \in 1 .. Len(inner)
          BY <1>1
        <5> QED
          BY <5>1, <4>2, <3>1, <2>5, <1>1
      <4> QED
        BY <4>1, <4>2, <3>1, <2>4
    <3>3. Len(open) <= Len(path)
      BY <3>1, <2>5, <2>4, <1>1
    <3> QED
      BY <3>1, <3>2, <3>3, <2>5, PrefixMeans
  <2>8. Under(path, m)
    BY <2>5, <2>7, UnderMeans
  <2> QED
    BY <2>1, <2>5, <2>6, <2>8, <1>5
<1> QED
  BY <1>3, <1>4, <1>5

LEMMA OnlyTheRoot ==
  ASSUME NEW path, Rooted(path)
  PROVE  Len(path) \in Nat /\ (path = Slash <=> Len(path) = 1)
BY SinglePiece, FixedPaths, PathLength DEF Rooted

\* What is filled in below a mount is filled in the same way at it.
LEMMA FilledBelow ==
  ASSUME NEW m \in Path, ValidMount(m), ToSet(m) \intersect Parameters = {},
         NEW template, Rooted(template), NEW x, x # "/",
         NEW url, Filled(PublicPath(m, template), url, x)
  PROVE  \E inner : Rooted(inner) /\ Filled(template, inner, x) /\ url = PublicPath(m, inner)
<1>1. "/" \notin Parameters
  BY PiecesAssumption
<1>2. template \in Path /\ Len(template) \in Nat /\ Len(template) >= 1 /\ template[1] = "/"
  BY PathLength DEF Rooted
<1>3. PublicPath(m, template) = IF m # Slash /\ template = Slash THEN m ELSE Before(m) \o template
  BY <1>2, BeforeFacts
<1>4. CASE m # Slash /\ template = Slash
  <2>1. url = m
    BY <1>3, <1>4, FilledPlainly
  <2>2. Filled(Slash, Slash, x)
    BY <1>1, FixedPaths DEF Filled, Piece
  <2>3. PublicPath(m, Slash) = m
    BY <1>4, FixedPaths, BeforeFacts
  <2>4. Rooted(Slash)
    BY FixedPaths DEF Rooted
  <2> QED
    BY <1>4, <2>1, <2>2, <2>3, <2>4
<1>5. CASE ~(m # Slash /\ template = Slash)
  <2> DEFINE b == Before(m)
             whole == b \o template
             inner == SubSeq(url, Len(b) + 1, Len(url))
  <2>1. b \in Path /\ Len(b) \in Nat /\ (ToSet(b) \subseteq ToSet(m))
    BY BeforeFacts, PathLength
  <2>2. /\ whole \in Path /\ Len(whole) = Len(b) + Len(template)
        /\ \A k \in 1 .. Len(b) : whole[k] = b[k]
        /\ \A k \in 1 .. Len(template) : whole[Len(b) + k] = template[k]
    BY <1>2, <2>1, Joined
  <2>3. Filled(whole, url, x)
    BY <1>3, <1>5
  <2> HIDE DEF whole
  <2>4. /\ url \in Path /\ Len(url) = Len(b) + Len(template)
        /\ \A k \in 1 .. Len(whole) : url[k] = Piece(whole[k], x)
    BY <2>2, <2>3 DEF Filled
  <2>5. \A k \in 1 .. Len(b) : url[k] = b[k]
    <3> SUFFICES ASSUME NEW k \in 1 .. Len(b) PROVE url[k] = b[k]
      OBVIOUS
    <3>1. b[k] \in ToSet(b)
      BY <2>1, PathLength DEF ToSet
    <3>2. b[k] \notin Parameters
      BY <3>1, <2>1
    <3>3. k \in 1 .. Len(whole)
      BY <2>1, <2>2, <1>2
    <3> QED
      BY <3>2, <3>3, <2>2, <2>4 DEF Piece
  <2>6. IsPrefix(b, url)
    BY <2>1, <2>4, <2>5, <1>2, PrefixMeans
  <2>7. inner \in Path /\ url = b \o inner
    BY <2>1, <2>4, <2>6, Split
  <2> HIDE DEF inner, b
  <2>8. /\ Len(b \o inner) = Len(b) + Len(inner)
        /\ \A k \in 1 .. Len(inner) : (b \o inner)[Len(b) + k] = inner[k]
    BY <2>1, <2>7, Joined
  <2>9. Len(inner) = Len(template)
    <3>1. Len(inner) \in Nat
      BY <2>7, PathLength
    <3> QED
      BY <3>1, <2>1, <2>4, <2>7, <2>8, <1>2
  <2>10. ASSUME NEW k \in 1 .. Len(template) PROVE inner[k] = Piece(template[k], x)
    <3>1. Len(b) + k \in 1 .. Len(whole)
      BY <2>1, <2>2, <1>2
    <3>2. url[Len(b) + k] = Piece(whole[Len(b) + k], x)
      BY <3>1, <2>4
    <3>3. url[Len(b) + k] = inner[k]
      BY <2>7, <2>8, <2>9
    <3> QED
      BY <3>2, <3>3, <2>2
  <2>11. Filled(template, inner, x)
    BY <2>7, <2>9, <2>10 DEF Filled
  <2>12. Rooted(inner)
    <3>1. inner[1] = Piece(template[1], x)
      BY <2>10, <1>2
    <3> QED
      BY <3>1, <2>7, <2>9, <1>1, <1>2 DEF Rooted, Piece
  <2>13. inner = Slash <=> template = Slash
    <3>1. template = Slash <=> Len(template) = 1
      BY OnlyTheRoot
    <3>2. inner = Slash <=> Len(inner) = 1
      BY <2>12, OnlyTheRoot
    <3> QED
      BY <3>1, <3>2, <2>9
  <2>14. PublicPath(m, inner) = b \o inner
    BY <2>7, <2>13, <1>5, BeforeFacts DEF b
  <2> QED
    BY <2>7, <2>11, <2>12, <2>14
<1> QED
  BY <1>4, <1>5

\* A template that matches below a mount matches at it.
LEMMA MatchesBelow ==
  ASSUME NEW m \in Path, ValidMount(m), NEW template, Rooted(template), NEW inner, Rooted(inner),
         MatchesTemplate(template, inner)
  PROVE  MatchesTemplate(PublicPath(m, template), PublicPath(m, inner))
<1>1. /\ template \in Path /\ Len(template) \in Nat /\ Len(template) >= 1 /\ template[1] = "/"
      /\ inner \in Path /\ Len(inner) \in Nat /\ DOMAIN inner = 1 .. Len(inner)
  BY PathLength DEF Rooted
<1>2. /\ Len(template) = Len(inner)
      /\ \A k \in 1 .. Len(inner) :
           template[k] = inner[k] \/ (template[k] \in Parameters /\ inner[k] # "/")
  BY <1>1 DEF MatchesTemplate
<1>3. template = Slash <=> inner = Slash
  <2>1. template = Slash <=> Len(template) = 1
    BY OnlyTheRoot
  <2>2. inner = Slash <=> Len(inner) = 1
    BY OnlyTheRoot
  <2> QED
    BY <2>1, <2>2, <1>2
<1>4. /\ PublicPath(m, template) = IF m # Slash /\ template = Slash THEN m ELSE Before(m) \o template
      /\ PublicPath(m, inner) = IF m # Slash /\ inner = Slash THEN m ELSE Before(m) \o inner
  BY <1>1, BeforeFacts
<1>5. CASE m # Slash /\ inner = Slash
  <2>1. PublicPath(m, template) = m /\ PublicPath(m, inner) = m
    BY <1>3, <1>4, <1>5
  <2>2. MatchesTemplate(m, m)
    BY DEF MatchesTemplate
  <2> QED
    BY <2>1, <2>2
<1>6. CASE ~(m # Slash /\ inner = Slash)
  <2> DEFINE b == Before(m)
             one == b \o template
             two == b \o inner
  <2>1. b \in Path /\ Len(b) \in Nat
    BY BeforeFacts, PathLength
  <2>2. /\ one \in Path /\ Len(one) = Len(b) + Len(template)
        /\ \A k \in 1 .. Len(b) : one[k] = b[k]
        /\ \A k \in 1 .. Len(template) : one[Len(b) + k] = template[k]
    BY <1>1, <2>1, Joined
  <2>3. /\ two \in Path /\ Len(two) = Len(b) + Len(inner)
        /\ \A k \in 1 .. Len(b) : two[k] = b[k]
        /\ \A k \in 1 .. Len(inner) : two[Len(b) + k] = inner[k]
    BY <1>1, <2>1, Joined
  <2>4. PublicPath(m, template) = one /\ PublicPath(m, inner) = two
    BY <1>3, <1>4, <1>6
  <2> HIDE DEF b, one, two
  <2>5. Len(two) \in Nat /\ DOMAIN two = 1 .. Len(two)
    BY <2>3, PathLength
  <2>6. ASSUME NEW k \in 1 .. Len(two)
        PROVE  one[k] = two[k] \/ (one[k] \in Parameters /\ two[k] # "/")
    <3>1. CASE k <= Len(b)
      BY <3>1, <2>1, <2>2, <2>3
    <3>2. CASE Len(b) < k
      <4> DEFINE l == k - Len(b)
      <4>1. l \in 1 .. Len(inner) /\ k = Len(b) + l
        BY <3>2, <2>1, <2>3, <2>5, <1>1
      <4> HIDE DEF l
      <4>2. one[k] = template[l] /\ two[k] = inner[l]
        BY <4>1, <2>2, <2>3, <1>2
      <4> QED
        BY <4>1, <4>2, <1>2
    <3> QED
      BY <3>1, <3>2, <2>1, <2>5
  <2>7. Len(one) = Len(two)
    BY <1>2, <2>2, <2>3
  <2> QED
    BY <2>4, <2>5, <2>6, <2>7 DEF MatchesTemplate
<1> QED
  BY <1>5, <1>6

LEMMA FilledMatches ==
  ASSUME NEW template, NEW inner, NEW x, x # "/", Filled(template, inner, x)
  PROVE  MatchesTemplate(template, inner)
<1>1. DOMAIN inner = 1 .. Len(inner) /\ Len(inner) = Len(template)
  BY PathLength DEF Filled
<1>2. ASSUME NEW k \in 1 .. Len(inner)
      PROVE  template[k] = inner[k] \/ (template[k] \in Parameters /\ inner[k] # "/")
  BY <1>1 DEF Filled, Piece
<1> QED
  BY <1>1, <1>2 DEF MatchesTemplate

-----------------------------------------------------------------------------
(* A service. *)

\* The route that is filled in answers, where no other route matches.
LEMMA ServiceServes ==
  ASSUME NEW service, DOMAIN service.routes \subseteq Nat, NEW k \in DOMAIN service.routes,
         NEW inner, NEW x, x # "/", Filled(Registered(service, k), inner, x),
         inner # service.document, inner # HealthPath,
         \A l \in DOMAIN service.routes \ {k} :
           service.routes[l].method = service.routes[k].method =>
             ~MatchesTemplate(Registered(service, l), inner)
  PROVE  ServiceFetch(service, service.routes[k].method, inner) = Handle(service, k, inner)
<1> DEFINE method == service.routes[k].method
           hits == {i \in DOMAIN service.routes :
                      service.routes[i].method = method /\ MatchesTemplate(Registered(service, i), inner)}
<1>1. MatchesTemplate(Registered(service, k), inner)
  BY FilledMatches
<1>2. hits = {k}
  BY <1>1
<1>3. (CHOOSE i \in hits : \A j \in hits : i <= j) = k
  BY <1>2
<1>4. ServiceFetch(service, method, inner) = Handle(service, CHOOSE i \in hits : \A j \in hits : i <= j, inner)
  BY <1>2 DEF ServiceFetch
<1> QED
  BY <1>3, <1>4

\* A mount has no parameter, so that a published path has those of its route.
LEMMA PublishedParameters ==
  ASSUME NEW m \in Path, ValidMount(m), ToSet(m) \intersect Parameters = {},
         NEW template, Rooted(template)
  PROVE  ToSet(PublicPath(m, template)) \intersect Parameters = ToSet(template) \intersect Parameters
<1>1. PublicPath(m, template) = IF m # Slash /\ template = Slash THEN m ELSE Before(m) \o template
  BY BeforeFacts DEF Rooted
<1>2. CASE m # Slash /\ template = Slash
  <2>1. ToSet(Slash) = {"/"}
    <3>1. DOMAIN Slash = {1} /\ Slash[1] = "/"
      BY DEF Slash
    <3> QED
      BY <3>1 DEF ToSet
  <2> QED
    BY <1>1, <1>2, <2>1, PiecesAssumption
<1>3. CASE ~(m # Slash /\ template = Slash)
  <2>1. ToSet(Before(m) \o template) = ToSet(Before(m)) \union ToSet(template)
    BY BeforeFacts, PiecesJoined DEF Rooted
  <2> QED
    BY <1>1, <1>3, <2>1, BeforeFacts
<1> QED
  BY <1>2, <1>3

\* What a handler is passed is accepted if the caller's value is.
LEMMA PassedAgree ==
  ASSUME NEW template \in Path, NEW inner, NEW x, Filled(template, inner, x), NEW accepts,
         NEW path, ToSet(path) \intersect Parameters = ToSet(template) \intersect Parameters,
         NEW op, op.path = path, NEW value,
         ToSet(path) \intersect Parameters # {} => Encode[value] = <<x>>
  PROVE  {inner[k] : k \in {k \in DOMAIN inner : template[k] \in Parameters}} \subseteq accepts
           <=> \A p \in Passed(op, value) : ToSet(p) \subseteq accepts
<1> DEFINE passed == {inner[k] : k \in {k \in DOMAIN inner : template[k] \in Parameters}}
<1>1. /\ DOMAIN inner = 1 .. Len(template) /\ DOMAIN template = 1 .. Len(template)
      /\ \A k \in 1 .. Len(template) : inner[k] = Piece(template[k], x)
  BY PathLength DEF Filled
<1>2. CASE ToSet(path) \intersect Parameters = {}
  <2>1. \A k \in DOMAIN inner : template[k] \notin Parameters
    BY <1>1, <1>2 DEF ToSet
  <2>2. Passed(op, value) = {<<>>}
    BY <1>2 DEF Passed
  <2>3. ToSet(<<>>) = {}
    BY DEF ToSet
  <2> QED
    BY <2>1, <2>2, <2>3
<1>3. CASE ToSet(path) \intersect Parameters # {}
  <2>1. PICK k \in DOMAIN template : template[k] \in Parameters
    BY <1>3 DEF ToSet
  <2>2. passed = {x}
    BY <1>1, <2>1 DEF Piece
  <2>3. Passed(op, value) = {<<x>>}
    BY <1>3 DEF Passed
  <2>4. ToSet(<<x>>) = {x}
    <3>1. DOMAIN <<x>> = {1} /\ <<x>>[1] = x
      OBVIOUS
    <3> QED
      BY <3>1 DEF ToSet
  <2> QED
    BY <2>2, <2>3, <2>4
<1> QED
  BY <1>2, <1>3

LEMMA HandleTells ==
  ASSUME NEW service, NEW k, NEW inner, NEW valid,
         {inner[j] : j \in {j \in DOMAIN inner : Registered(service, k)[j] \in Parameters}}
           \subseteq service.routes[k].accepts <=> valid
  PROVE  LET answer == Handle(service, k, inner)
         IN  /\ answer.by = "route" /\ answer.worker = service.name /\ answer.route = k
             /\ answer.code = IF valid THEN service.routes[k].result ELSE "VALIDATION_ERROR"
             /\ answer.ok <=> answer.code = "none"
BY DEF Handle, Answer

-----------------------------------------------------------------------------
(* The gateway. *)

LEMMA EntryFacts ==
  ASSUME site \in Sites, NEW i \in DOMAIN Entries
  PROVE  /\ i \in Nat /\ Entries[i].kind \in {"service", "web"}
         /\ Entries[i].mount \in Path /\ ValidMount(Entries[i].mount)
         /\ "api" \in DOMAIN Entries[i] => Entries[i].api \in Path
BY SitesAssumption DEF Entries, Register, Path

\* The innermost mount is the one that matchService() finds.
LEMMA InnermostMatches ==
  ASSUME site \in Sites, NEW i \in DOMAIN Entries, NEW path, Innermost(i, path)
  PROVE  MatchService(path, Entries) = {i}
<1> DEFINE hits == {j \in DOMAIN Entries : Under(path, NormalizeMount(Entries[j].mount))}
           Longer(j, k) == Len(Entries[j].mount) > Len(Entries[k].mount)
<1>1. \A j \in DOMAIN Entries : NormalizeMount(Entries[j].mount) = Entries[j].mount
  BY EntryFacts, MountFacts
<1>2. i \in hits
  BY <1>1 DEF Innermost
<1>3. \A j \in hits \ {i} : Longer(i, j) /\ ~Longer(j, i)
  <2> SUFFICES ASSUME NEW j \in hits, j # i PROVE Longer(i, j) /\ ~Longer(j, i)
    OBVIOUS
  <2>1. Len(Entries[j].mount) < Len(Entries[i].mount)
    BY <1>1 DEF Innermost
  <2>2. Len(Entries[j].mount) \in Nat /\ Len(Entries[i].mount) \in Nat
    BY EntryFacts, MountFacts
  <2> QED
    BY <2>1, <2>2
<1>4. i \in Nat /\ ~Longer(i, i)
  BY EntryFacts, MountFacts
<1>5. MatchService(path, Entries)
        = {k \in hits : \A j \in hits : Longer(k, j) \/ (~Longer(j, k) /\ k <= j)}
  BY DEF MatchService
<1> HIDE DEF hits, Longer
<1> QED
  BY <1>2, <1>3, <1>4, <1>5

Redirects(i, path) ==
  Entries[i].kind = "web" /\ Entries[i].mount # Slash /\ path = Entries[i].mount

LEMMA Routed ==
  ASSUME site \in Sites, NEW i \in DOMAIN Entries, NEW path,
         NEW stripped, stripped = StripBase(path, Options.basePath), Innermost(i, stripped)
  PROVE  Route(path) = IF Redirects(i, stripped) THEN [to |-> "redirect", path |-> path \o Slash]
                       ELSE [to |-> "worker", worker |-> Entries[i].name,
                             path |-> RewrittenPath(stripped, Entries[i])]
<1>1. MatchService(stripped, Entries) = {i}
  BY InnermostMatches
<1>2. stripped \notin BuiltIns
  BY DEF Innermost
<1>3. (CHOOSE j \in {i} : TRUE) = i
  OBVIOUS
<1> QED
  BY <1>1, <1>2, <1>3 DEF Route, Redirects

\* A slash at the end puts a path below no other mount.
LEMMA UnderSlash ==
  ASSUME NEW m \in Path, ValidMount(m), NEW path \in Path, ValidMount(path), path # Slash
  PROVE  Under(path \o Slash, m) <=> Under(path, m)
<1> DEFINE open == path \o Slash
           door == m \o Slash
<1>1. Len(path) \in Nat /\ Len(path) >= 2 /\ path[Len(path)] # "/"
  BY MountFacts
<1>2. /\ open \in Path /\ Len(open) = Len(path) + 1 /\ (\A k \in 1 .. Len(path) : open[k] = path[k])
      /\ open[Len(path) + 1] = "/"
  <2>1. /\ path \o Slash \in Path /\ Len(path \o Slash) = Len(path) + Len(Slash)
        /\ \A k \in 1 .. Len(path) : (path \o Slash)[k] = path[k]
        /\ \A k \in 1 .. Len(Slash) : (path \o Slash)[Len(path) + k] = Slash[k]
    BY FixedPaths, Joined
  <2> QED
    BY <2>1, FixedPaths
<1>3. /\ door \in Path /\ Len(door) = Len(m) + 1 /\ (\A k \in 1 .. Len(m) : door[k] = m[k])
      /\ door[Len(m) + 1] = "/"
  <2>1. /\ m \o Slash \in Path /\ Len(m \o Slash) = Len(m) + Len(Slash)
        /\ \A k \in 1 .. Len(m) : (m \o Slash)[k] = m[k]
        /\ \A k \in 1 .. Len(Slash) : (m \o Slash)[Len(m) + k] = Slash[k]
    BY FixedPaths, Joined
  <2> QED
    BY <2>1, FixedPaths
<1>4. /\ Under(path, m) <=> m = Slash \/ path = m \/ IsPrefix(door, path)
      /\ Under(open, m) <=> m = Slash \/ open = m \/ IsPrefix(door, open)
  BY <1>2, UnderMeans
<1> SUFFICES Under(open, m) <=> Under(path, m)
  OBVIOUS
<1>5. m # Slash => Len(m) \in Nat /\ Len(m) >= 2 /\ m[Len(m)] # "/"
  BY MountFacts
<1> HIDE DEF open, door
<1>6. m # Slash => open # m
  BY <1>1, <1>2, <1>5
<1>7. ASSUME m # Slash, IsPrefix(door, open) PROVE path = m \/ IsPrefix(door, path)
  <2>1. Len(door) <= Len(open) /\ \A k \in 1 .. Len(door) : open[k] = door[k]
    BY <1>2, <1>3, <1>7, PrefixMeans
  <2>2. CASE Len(m) = Len(path)
    <3>1. \A k \in 1 .. Len(m) : m[k] = path[k]
      BY <2>1, <2>2, <1>1, <1>2, <1>3
    <3> QED
      BY <3>1, <2>2, SamePath
  <2>3. CASE Len(m) < Len(path)
    <3>1. Len(door) <= Len(path)
      BY <2>3, <1>1, <1>3, <1>5, <1>7
    <3>2. \A k \in 1 .. Len(door) : path[k] = door[k]
      BY <3>1, <2>1, <1>1, <1>2, <1>3, <1>5, <1>7
    <3> QED
      BY <3>1, <3>2, <1>3, PrefixMeans
  <2> QED
    BY <2>1, <2>2, <2>3, <1>1, <1>2, <1>3, <1>5, <1>7
<1>8. ASSUME m # Slash, path = m PROVE IsPrefix(door, open)
  BY <1>2, <1>3, <1>8, PrefixMeans DEF open, door
<1>9. ASSUME m # Slash, IsPrefix(door, path) PROVE IsPrefix(door, open)
  <2>1. Len(door) <= Len(path) /\ \A k \in 1 .. Len(door) : path[k] = door[k]
    BY <1>3, <1>9, PrefixMeans
  <2>2. \A k \in 1 .. Len(door) : open[k] = door[k]
    BY <2>1, <1>1, <1>2, <1>3, <1>5, <1>9
  <2>3. Len(door) <= Len(open)
    BY <2>1, <1>1, <1>2, <1>3, <1>5, <1>9
  <2> QED
    BY <2>2, <2>3, <1>2, <1>3, PrefixMeans
<1> QED
  BY <1>4, <1>6, <1>7, <1>8, <1>9

LEMMA StripsToPath ==
  ASSUME NEW base \in Path, NEW path \in Path
  PROVE  StripBase(path, base) \in Path
<1>1. CASE IsPrefix(base, path)
  BY <1>1, Split, FixedPaths DEF StripBase
<1>2. CASE ~IsPrefix(base, path)
  BY <1>2 DEF StripBase
<1> QED
  BY <1>1, <1>2

\* A slash at the end of a path ends up at the end of what is below basePath.
LEMMA StripsBeforeSlash ==
  ASSUME NEW base \in Path, base = Unset \/ ValidMount(base), NEW path \in Path,
         NEW m \in Path, ValidMount(m), m # Slash, StripBase(path, base) = m
  PROVE  path \o Slash \in Path /\ StripBase(path \o Slash, base) = m \o Slash
<1>1. /\ path \o Slash \in Path /\ Len(path \o Slash) = Len(path) + Len(Slash)
      /\ \A k \in 1 .. Len(path) : (path \o Slash)[k] = path[k]
      /\ \A k \in 1 .. Len(Slash) : (path \o Slash)[Len(path) + k] = Slash[k]
  BY FixedPaths, Joined
<1> DEFINE open == path \o Slash
<1>2. /\ open \in Path /\ Len(open) = Len(path) + 1 /\ (\A k \in 1 .. Len(path) : open[k] = path[k])
      /\ open[Len(path) + 1] = "/"
  BY <1>1, FixedPaths
<1>3. Len(path) \in Nat /\ Len(m) >= 2 /\ Len(m) \in Nat
  BY PathLength, MountFacts
<1>4. CASE base = <<>>
  BY <1>1, <1>4 DEF StripBase
<1>5. CASE base # <<>> /\ IsPrefix(base, path)
  <2>1. path # base
    BY <1>5 DEF StripBase
  <2>2. m = SubSeq(path, Len(base) + 1, Len(path)) /\ path = base \o m
    BY <1>5, <2>1, Split DEF StripBase
  <2>3. open = base \o (m \o Slash)
    <3>1. base \o (m \o Slash) = (base \o m) \o Slash
      BY FixedPaths, Associated
    <3> QED
      BY <2>2, <3>1
  <2>4. /\ m \o Slash \in Path /\ Len(m \o Slash) = Len(m) + Len(Slash)
    BY FixedPaths, Joined
  <2> DEFINE left == m \o Slash
  <2>5. left \in Path /\ Len(left) >= 3 /\ open = base \o left /\ left = m \o Slash
    BY <2>3, <2>4, <1>3, FixedPaths
  <2> HIDE DEF left, open
  <2>6. SubSeq(open, Len(base) + 1, Len(open)) = left /\ IsPrefix(base, open)
    BY <2>5, Rest
  <2>7. Len(open) = Len(base) + Len(left) /\ Len(base) \in Nat /\ Len(left) \in Nat
    BY <2>5, Joined, PathLength
  <2>8. open # base
    BY <2>5, <2>7
  <2>9. StripBase(open, base) = left
    BY <1>5, <2>6, <2>8 DEF StripBase
  <2> QED
    BY <1>2, <2>5, <2>9 DEF open
<1>6. CASE base # <<>> /\ ~IsPrefix(base, path)
  <2>1. path = m
    BY <1>6 DEF StripBase
  <2>2. ~IsPrefix(base, open)
    <3> HIDE DEF open
    <3> SUFFICES ASSUME IsPrefix(base, open) PROVE FALSE
      OBVIOUS
    <3>1. Len(base) \in Nat /\ Len(base) <= Len(open) /\ \A k \in 1 .. Len(base) : open[k] = base[k]
      BY <1>2, PrefixMeans, PathLength
    <3>2. ~(Len(base) <= Len(path))
      <4> SUFFICES ASSUME Len(base) <= Len(path) PROVE FALSE
        OBVIOUS
      <4>1. \A k \in 1 .. Len(base) : path[k] = base[k]
        BY <1>2, <1>3, <3>1
      <4> QED
        BY <4>1, <1>6, PrefixMeans
    <3>3. Len(base) = Len(path) + 1 /\ Len(base) \in 1 .. Len(base)
      BY <1>2, <1>3, <3>1, <3>2
    <3>4. base[Len(base)] = "/"
      BY <1>2, <3>1, <3>3
    <3>5. base = Slash
      BY <1>6, <3>4, MountFacts DEF Unset
    <3>6. Len(base) = 1 /\ Len(path) = Len(m)
      BY <2>1, <3>5, FixedPaths
    <3>7. Len(path) = 0 /\ Len(path) >= 2
      BY <1>3, <3>3, <3>6
    <3> QED
      BY <3>7
  <2> QED
    BY <1>1, <2>1, <2>2 DEF StripBase
<1> QED
  BY <1>4, <1>5, <1>6

\* The redirect to the root of an app leads to the app.
LEMMA Redirected ==
  ASSUME site \in Sites, NEW i \in DOMAIN Entries, NEW path \in Path,
         Options.basePath \in Path, Options.basePath = Unset \/ ValidMount(Options.basePath),
         NEW stripped, stripped = StripBase(path, Options.basePath),
         Innermost(i, stripped), Redirects(i, stripped)
  PROVE  LET landing == Landing(i, stripped)
         IN  /\ landing = Entries[i].mount \o Slash /\ landing \in Path
             /\ path \o Slash \in Path /\ StripBase(path \o Slash, Options.basePath) = landing
             /\ Innermost(i, landing) /\ ~Redirects(i, landing)
<1> DEFINE m == Entries[i].mount
           landing == Landing(i, stripped)
<1>1. m \in Path /\ ValidMount(m) /\ m # Slash /\ stripped = m /\ Entries[i].kind = "web"
  BY EntryFacts DEF Redirects
<1>2. landing = m \o Slash
  BY <1>1 DEF Landing
<1>3. path \o Slash \in Path /\ StripBase(path \o Slash, Options.basePath) = m \o Slash
  <2>1. StripBase(path, Options.basePath) = m
    BY <1>1
  <2> QED
    BY <1>1, <2>1, StripsBeforeSlash
<1>4. m \o Slash \in Path /\ Len(m \o Slash) = Len(m) + Len(Slash)
  BY <1>1, FixedPaths, Joined
<1>5. m \o Slash # m
  <2>1. Len(m) \in Nat
    BY <1>1, MountFacts
  <2> QED
    BY <2>1, <1>4, FixedPaths
<1>6. ~Redirects(i, landing)
  BY <1>2, <1>5 DEF Redirects
<1>7. Landing(i, landing) = landing
  BY <1>2, <1>5 DEF Landing
<1>8. \A j \in DOMAIN Entries : Under(landing, Entries[j].mount) <=> Under(stripped, Entries[j].mount)
  <2> SUFFICES ASSUME NEW j \in DOMAIN Entries
               PROVE  Under(landing, Entries[j].mount) <=> Under(stripped, Entries[j].mount)
    OBVIOUS
  <2>1. Entries[j].mount \in Path /\ ValidMount(Entries[j].mount)
    BY EntryFacts
  <2>2. Under(m \o Slash, Entries[j].mount) <=> Under(m, Entries[j].mount)
    BY <1>1, <2>1, UnderSlash
  <2> QED
    BY <2>2, <1>1, <1>2
<1>9. Innermost(i, landing)
  <2> HIDE DEF landing
  <2>1. landing \notin BuiltIns
    BY DEF Innermost, landing
  <2> QED
    BY <2>1, <1>7, <1>8 DEF Innermost
<1> QED
  BY <1>2, <1>3, <1>4, <1>6, <1>9

-----------------------------------------------------------------------------
(* A web app. *)

\* The Worker of an entry, and where its routes are published.
AppOf(i)   == Worker(Entries[i].name)
MountOf(i) == PublicMount(Entries[i])

LEMMA InternalPieces ==
  ASSUME NEW base \in Path, ValidMount(base), NEW path \in Path, IsInternalPath(path, base)
  PROVE  "__gmode" \in ToSet(path)
<1> DEFINE left == JoinPrefix(base, Slash)
<1>1. left \in Path
  BY BeforeFacts
<1>2. /\ "__gmode" \in ToSet(Internal) /\ "__gmode" \in ToSet(InternalRoot)
  BY FixedPaths, PathLength DEF ToSet
<1>3. ASSUME NEW a \in Path, NEW b \in Path, NEW c \in Path, "__gmode" \in ToSet(b)
      PROVE  "__gmode" \in ToSet(a \o b) /\ "__gmode" \in ToSet(b \o c)
  BY <1>3, PiecesJoined
<1> HIDE DEF left
<1>4. CASE IsPrefix(Internal, path)
  <2>1. path = Internal \o SubSeq(path, Len(Internal) + 1, Len(path))
        /\ SubSeq(path, Len(Internal) + 1, Len(path)) \in Path
    BY <1>4, FixedPaths, Split
  <2> QED
    BY <2>1, <1>2, <1>3, FixedPaths
<1>5. CASE path = left \o InternalRoot
  BY <1>1, <1>2, <1>3, <1>5, FixedPaths
<1>6. CASE IsPrefix(left \o Internal, path)
  <2> DEFINE whole == left \o Internal
  <2>1. whole \in Path /\ "__gmode" \in ToSet(whole)
    BY <1>1, <1>2, <1>3, FixedPaths, Joined
  <2>2. IsPrefix(whole, path)
    BY <1>6
  <2> HIDE DEF whole
  <2>3. path = whole \o SubSeq(path, Len(whole) + 1, Len(path))
        /\ SubSeq(path, Len(whole) + 1, Len(path)) \in Path
    BY <2>1, <2>2, Split
  <2> QED
    BY <2>1, <2>3, <1>3, FixedPaths
<1> QED
  BY <1>4, <1>5, <1>6 DEF IsInternalPath, left

\* A path without the internal piece is the app's own.
LEMMA PlainPath ==
  ASSUME NEW base \in Path, ValidMount(base), NEW path \in Path, "__gmode" \notin ToSet(path), NEW worker
  PROVE  ~IsInternalPath(path, base) /\ ~Refuses(worker, path)
BY InternalPieces DEF Refuses

LEMMA PlainPieces ==
  /\ "__gmode" \notin ToSet(Slash) /\ "__gmode" \notin ToSet(Alias)
  /\ ToSet(Slash) \intersect Parameters = {} /\ ToSet(Slash) = {"/"}
<1>1. DOMAIN Slash = {1} /\ Slash[1] = "/"
  BY DEF Slash
<1>2. ToSet(Slash) = {"/"}
  BY <1>1 DEF ToSet
<1>3. DOMAIN Alias = {1, 2} /\ Alias[1] = "/" /\ Alias[2] = "openapi.json"
  BY DEF Alias
<1>4. ToSet(Alias) = {"/", "openapi.json"}
  BY <1>3 DEF ToSet
<1> QED
  BY <1>2, <1>4, PiecesAssumption

\* The mount of the API of an app.
LEMMA ApiOfApp ==
  ASSUME site \in Sites, NEW i \in DOMAIN Entries, Entries[i].kind = "web", Agrees(i),
         "api" \in DOMAIN AppOf(i)
  PROVE  LET entry  == Entries[i]
             worker == AppOf(i)
             m      == MountOf(i)
         IN  /\ IsApp(worker) /\ worker.base = entry.mount
             /\ ApiMount(entry) \in Path /\ ValidMount(ApiMount(entry))
             /\ m \in Path /\ ValidMount(m)
             /\ ToSet(m) \intersect (Parameters \union {"__gmode"}) = {}
             /\ JoinPrefix(worker.base, worker.api) = Before(m)
             /\ JoinPrefix(entry.mount, ApiMount(entry)) = Before(m)
             /\ m = Slash <=> entry.mount = Slash /\ ApiMount(entry) = Slash
             /\ ApiMount(entry) = Slash => m = entry.mount
             /\ Routes(worker).document = DocumentPath /\ Routes(worker) = worker.service
             /\ HasRoutes(worker)
<1> DEFINE entry  == Entries[i]
           worker == AppOf(i)
           b == entry.mount
           a == ApiMount(entry)
           m == MountOf(i)
<1>1. /\ IsApp(worker) /\ worker.base = b /\ worker.api = a /\ Plainly(a) /\ Plainly(b)
  BY DEF Agrees, AppOf
<1>2. HasRoutes(worker) /\ Routes(worker) = worker.service /\ Routes(worker).document = DocumentPath
  BY <1>1 DEF Agrees, AppOf, HasRoutes, Routes, Suffix
<1>3. b \in Path /\ ValidMount(b)
  BY EntryFacts
<1>4. a \in Path
  <2>1. CASE "api" \in DOMAIN entry
    BY <2>1, EntryFacts DEF ApiMount
  <2>2. CASE "api" \notin DOMAIN entry
    <3>1. <<"/", "api">> \in Path
      BY PiecesAssumption DEF Path
    <3> QED
      BY <2>2, <3>1 DEF ApiMount
  <2> QED
    BY <2>1, <2>2
<1>5. ValidMount(a)
  BY <1>1 DEF Plainly
<1>6. m = IF JoinPrefix(b, a) = <<>> THEN Slash ELSE JoinPrefix(b, a)
  BY DEF PublicMount, MountOf
<1>7. JoinPrefix(worker.base, worker.api) = JoinPrefix(b, a)
  BY <1>1
<1> HIDE DEF worker, a, b, m
<1>8. /\ m \in Path /\ ValidMount(m)
      /\ Before(m) = JoinPrefix(b, a)
      /\ m = Slash <=> b = Slash /\ a = Slash
      /\ ToSet(m) \subseteq ToSet(b) \union ToSet(a) \union {"/"}
      /\ a = Slash => m = b
  BY <1>3, <1>4, <1>5, <1>6, JoinedMount
<1>9. ToSet(m) \intersect (Parameters \union {"__gmode"}) = {}
  <2>1. ToSet(b) \intersect (Parameters \union {"__gmode"}) = {} /\ ToSet(a) \intersect (Parameters \union {"__gmode"}) = {}
    BY <1>1 DEF Plainly
  <2>2. {"/"} \intersect (Parameters \union {"__gmode"}) = {}
    BY PiecesAssumption
  <2> QED
    BY <2>1, <2>2, <1>8
<1>10. /\ IsApp(worker) /\ worker.base = b /\ a \in Path /\ ValidMount(a) /\ m \in Path /\ ValidMount(m)
       /\ ToSet(m) \intersect (Parameters \union {"__gmode"}) = {}
       /\ JoinPrefix(worker.base, worker.api) = Before(m) /\ JoinPrefix(b, a) = Before(m)
       /\ m = Slash <=> b = Slash /\ a = Slash
       /\ a = Slash => m = b
       /\ Routes(worker).document = DocumentPath /\ Routes(worker) = worker.service
       /\ HasRoutes(worker)
  BY <1>1, <1>2, <1>4, <1>5, <1>7, <1>8, <1>9
<1> QED
  BY <1>10 DEF worker, a, b, m

\* What an app leaves to its framework, and what it hands to its service.
LEMMA AppAnswers ==
  ASSUME site \in Sites, NEW i \in DOMAIN Entries, Entries[i].kind = "web", Agrees(i),
         NEW path \in Path, NEW method,
         ~IsInternalPath(path, Entries[i].mount), ~Refuses(AppOf(i), path)
  PROVE  /\ ("api" \in DOMAIN AppOf(i) => ~Under(path, MountOf(i)))
              => WorkerFetch(AppOf(i), method, path) = Framework(AppOf(i), path)
         /\ ("api" \in DOMAIN AppOf(i) /\ MountOf(i) # Slash /\ path = MountOf(i) \o Alias)
              => WorkerFetch(AppOf(i), method, path) = ServiceFetch(AppOf(i).service, method, DocumentPath)
         /\ ("api" \in DOMAIN AppOf(i) /\ MountOf(i) # Slash /\ path # MountOf(i) \o Alias /\ Under(path, MountOf(i)))
              => WorkerFetch(AppOf(i), method, path) =
                   ServiceFetch(AppOf(i).service, method,
                     IF path = MountOf(i) THEN Slash ELSE SubSeq(path, Len(MountOf(i)) + 1, Len(path)))
<1> DEFINE m == MountOf(i)
           worker == AppOf(i)
           prefix == JoinPrefix(worker.base, worker.api)
<1>1. IsApp(worker) /\ worker.base = Entries[i].mount
  BY DEF Agrees, AppOf
<1>2. WorkerFetch(worker, method, path) = WithGmode(worker, method, path)
  BY <1>1 DEF WorkerFetch
<1>3. ~IsInternalPath(path, worker.base)
  BY <1>1
<1>4. CASE "api" \notin DOMAIN worker
  <2>1. ~HasApi(worker)
    BY <1>4 DEF HasApi
  <2>2. WithGmode(worker, method, path) = Framework(worker, path)
    BY <1>3, <2>1 DEF WithGmode
  <2> QED
    BY <1>2, <1>4, <2>2
<1>5. CASE "api" \in DOMAIN worker
  <2>1. m \in Path /\ ValidMount(m) /\ prefix = Before(m)
    BY <1>5, ApiOfApp
  <2>2. HasApi(worker) <=> m # Slash
    BY <1>5, <2>1 DEF HasApi, Before, ValidMount
  <2>3. m # Slash => prefix = m /\ (InApi(worker, path) <=> Under(path, m))
    BY <2>1, UnderMeans DEF Before, InApi
  <2>4. m # Slash => Under(m \o Alias, m)
    <3>1. Rooted(Alias) /\ Alias # Slash
      BY FixedPaths DEF Rooted
    <3>2. m # Slash => PublicPath(m, Alias) = m \o Alias
      BY <2>1, <3>1, FixedPaths, BeforeFacts DEF Before
    <3>3. Under(PublicPath(m, Alias), m)
      BY <2>1, <3>1, BelowFacts
    <3> QED
      BY <3>2, <3>3
  <2>5. Under(path, Slash)
    BY DEF Under
  <2> HIDE DEF prefix
  <2>6. ~HasApi(worker) => WithGmode(worker, method, path) = Framework(worker, path)
    BY <1>3 DEF WithGmode
  <2>7. ASSUME m # Slash
        PROVE  WithGmode(worker, method, path) =
                 IF path = m \o Alias THEN ServiceFetch(worker.service, method, DocumentPath)
                 ELSE IF Under(path, m)
                   THEN ServiceFetch(worker.service, method,
                          IF path = m THEN Slash ELSE SubSeq(path, Len(m) + 1, Len(path)))
                 ELSE Framework(worker, path)
    <3>1. HasApi(worker) /\ JoinPrefix(worker.base, worker.api) = m /\ (InApi(worker, path) <=> Under(path, m))
      BY <2>2, <2>3, <2>7 DEF prefix
    <3> QED
      BY <1>3, <3>1 DEF WithGmode
  <2> QED
    BY <1>2, <1>5, <2>2, <2>4, <2>5, <2>6, <2>7
<1> QED
  BY <1>4, <1>5

LEMMA LandingFacts ==
  ASSUME site \in Sites, NEW i \in DOMAIN Entries, Entries[i].kind = "web", Plainly(Entries[i].mount),
         NEW path \in Path, ~IsInternalPath(path, Entries[i].mount),
         NEW worker, ~Refuses(worker, path)
  PROVE  LET landing == Landing(i, path)
         IN  /\ landing \in Path
             /\ ~IsInternalPath(landing, Entries[i].mount) /\ ~Refuses(worker, landing)
             /\ landing = path \/ (path = Entries[i].mount /\ path # Slash /\ landing = path \o Slash)
<1> DEFINE m == Entries[i].mount
<1>1. CASE path = m /\ path # Slash
  <2>1. Landing(i, path) = path \o Slash
    BY <1>1 DEF Landing
  <2>2. path \o Slash \in Path /\ ToSet(path \o Slash) = ToSet(path) \union ToSet(Slash)
    BY FixedPaths, Joined, PiecesJoined
  <2>3. "__gmode" \notin ToSet(path \o Slash)
    BY <2>2, <1>1, PlainPieces DEF Plainly
  <2>4. m \in Path /\ ValidMount(m)
    BY EntryFacts
  <2>5. ~IsInternalPath(path \o Slash, m) /\ ~Refuses(worker, path \o Slash)
    BY <2>2, <2>3, <2>4, PlainPath
  <2> QED
    BY <2>1, <2>2, <2>5, <1>1
<1>2. CASE ~(path = m /\ path # Slash)
  BY <1>2 DEF Landing
<1> QED
  BY <1>1, <1>2

\* A page outside the API of an app comes from its framework.
LEMMA AppPages ==
  ASSUME site \in Sites, NEW i \in DOMAIN Entries, Entries[i].kind = "web", Agrees(i),
         NEW path \in Path, OwnPath(i, path), NEW method,
         "api" \in DOMAIN AppOf(i) => ~Under(path, MountOf(i))
  PROVE  WorkerFetch(AppOf(i), method, Landing(i, path))
           = Framework(AppOf(i), Landing(i, path))
<1> DEFINE worker == AppOf(i)
           m == MountOf(i)
           landing == Landing(i, path)
<1>1. Plainly(Entries[i].mount) /\ ~IsInternalPath(path, Entries[i].mount) /\ ~Refuses(worker, path)
  BY DEF Agrees, OwnPath, AppOf, MountOf
<1>2. /\ landing \in Path
      /\ ~IsInternalPath(landing, Entries[i].mount) /\ ~Refuses(worker, landing)
      /\ landing = path \/ (path = Entries[i].mount /\ path # Slash /\ landing = path \o Slash)
  BY <1>1, LandingFacts
<1>3. "api" \in DOMAIN worker => ~Under(landing, m)
  <2> HIDE DEF landing
  <2> SUFFICES ASSUME "api" \in DOMAIN worker PROVE ~Under(landing, m)
    OBVIOUS
  <2>1. m \in Path /\ ValidMount(m) /\ ~Under(path, m)
    BY ApiOfApp
  <2>2. CASE landing = path
    BY <2>1, <2>2
  <2>3. CASE path = Entries[i].mount /\ path # Slash /\ landing = path \o Slash
    <3>1. ValidMount(path)
      BY <2>3, <1>1 DEF Plainly
    <3>2. Under(path \o Slash, m) <=> Under(path, m)
      BY <3>1, <2>1, <2>3, UnderSlash
    <3> QED
      BY <3>2, <2>1, <2>3
  <2> QED
    BY <2>2, <2>3, <1>2
<1> HIDE DEF landing
<1>4. WorkerFetch(worker, method, landing) = Framework(worker, landing)
  <2>1. ~IsInternalPath(landing, Entries[i].mount)
    BY <1>2
  <2>2. ~Refuses(worker, landing)
    BY <1>2
  <2>3. landing \in Path
    BY <1>2
  <2> QED
    BY <2>1, <2>2, <2>3, <1>3, AppAnswers
<1> QED
  BY <1>4 DEF landing

\* What is asked below the public mount of an entry is asked of its service.
LEMMA EntryServes ==
  ASSUME site \in Sites, NEW i \in DOMAIN Entries, Agrees(i),
         Entries[i].kind = "web" => /\ "api" \in DOMAIN AppOf(i)
                                    /\ MountOf(i) # Slash,
         NEW inner, Rooted(inner),
         NEW path, path = PublicPath(MountOf(i), inner), OwnPath(i, path), NEW method
  PROVE  WorkerFetch(AppOf(i), method, RewrittenPath(Landing(i, path), Entries[i]))
           = ServiceFetch(ServiceOf(Entries[i]), method, inner)
<1> DEFINE entry  == Entries[i]
           worker == AppOf(i)
           m == MountOf(i)
<1>1. entry.mount \in Path /\ ValidMount(entry.mount) /\ NormalizeMount(entry.mount) = entry.mount
      /\ entry.kind \in {"service", "web"}
  BY EntryFacts, MountFacts
<1>2. CASE entry.kind = "service"
  <2>1. m = entry.mount /\ entry.strip /\ ~IsApp(worker) /\ Landing(i, path) = path
    BY <1>2 DEF Agrees, PublicMount, Landing, AppOf, MountOf
  <2>2. /\ m = Slash => path = inner
        /\ m # Slash => /\ path = m <=> inner = Slash
                        /\ path # m => SubSeq(path, Len(m) + 1, Len(path)) = inner
    <3>1. m \in Path /\ ValidMount(m) /\ path = PublicPath(m, inner)
      BY <2>1, <1>1
    <3> HIDE DEF m
    <3> QED
      BY <3>1, BelowFacts
  <2>3. RewrittenPath(path, entry) = inner
    BY <2>1, <2>2, <1>1 DEF RewrittenPath
  <2>4. ServiceOf(entry) = worker
    BY <2>1 DEF ServiceOf, Routes, AppOf
  <2>5. WorkerFetch(worker, method, inner) = ServiceFetch(worker, method, inner)
    BY <2>1 DEF WorkerFetch, Refuses
  <2> QED
    BY <2>1, <2>3, <2>4, <2>5
<1>3. CASE entry.kind = "web"
  <2> DEFINE landing == Landing(i, path)
  <2>1. "api" \in DOMAIN worker /\ m # Slash /\ HasRoutes(worker)
        /\ m \in Path /\ ValidMount(m) /\ Routes(worker) = worker.service
    BY <1>3, ApiOfApp
  <2>2. ServiceOf(entry) = worker.service
    BY <2>1 DEF ServiceOf, AppOf
  <2>3. RewrittenPath(landing, entry) = landing
    BY <1>3 DEF Agrees, RewrittenPath, AppOf
  <2>4. /\ path \in Path /\ Under(path, m)
        /\ path = m <=> inner = Slash
        /\ path # m => SubSeq(path, Len(m) + 1, Len(path)) = inner
    BY <2>1, BelowFacts
  <2>5. Plainly(entry.mount) /\ ~IsInternalPath(path, entry.mount) /\ ~Refuses(worker, path)
        /\ path # PublicPath(m, Alias)
    BY <1>3, <2>1 DEF Agrees, OwnPath, AppOf, MountOf
  <2>6. PublicPath(m, Alias) = m \o Alias
    <3>1. Alias # Slash /\ Alias \in Path
      BY FixedPaths
    <3>2. PublicPath(m, Alias) = IF m # Slash /\ Alias = Slash THEN m ELSE Before(m) \o Alias
      BY <3>1, <2>1, BeforeFacts
    <3> QED
      BY <3>1, <3>2, <2>1 DEF Before
  <2>7. /\ landing \in Path
        /\ ~IsInternalPath(landing, entry.mount) /\ ~Refuses(worker, landing)
        /\ landing = path \/ (path = entry.mount /\ path # Slash /\ landing = path \o Slash)
    BY <1>3, <2>4, <2>5, LandingFacts
  <2> HIDE DEF landing
  <2>8. CASE landing = path
    <3>1. WorkerFetch(worker, method, path) =
            ServiceFetch(worker.service, method,
              IF path = m THEN Slash ELSE SubSeq(path, Len(m) + 1, Len(path)))
      <4>1. path # m \o Alias
        BY <2>5, <2>6
      <4> QED
        BY <1>3, <2>1, <2>4, <2>5, <4>1, AppAnswers
    <3>2. (IF path = m THEN Slash ELSE SubSeq(path, Len(m) + 1, Len(path))) = inner
      BY <2>4
    <3>3. WorkerFetch(worker, method, landing) = ServiceFetch(worker.service, method, inner)
      BY <3>1, <3>2, <2>8
    <3> QED
      BY <3>3, <2>2, <2>3 DEF landing
  <2>9. CASE path = entry.mount /\ path # Slash /\ landing = path \o Slash
    <3>1. m = path
      <4>1. /\ JoinPrefix(path, ApiMount(entry)) = m /\ ApiMount(entry) \in Path
            /\ ValidMount(ApiMount(entry)) /\ (ApiMount(entry) = Slash => m = path)
        BY <2>1, <2>9, <1>3, ApiOfApp DEF Before
      <4>2. ASSUME ApiMount(entry) # Slash PROVE FALSE
        <5>1. m = path \o ApiMount(entry)
          BY <4>1, <4>2, <2>9, <1>1, BeforeFacts DEF Before
        <5>2. Len(m) = Len(path) + Len(ApiMount(entry))
          BY <5>1, <4>1, <2>4, Joined
        <5>3. Len(m) \in Nat /\ Len(path) \in Nat /\ Len(ApiMount(entry)) \in Nat
              /\ Len(ApiMount(entry)) >= 2
          BY <4>1, <4>2, <2>1, <2>4, MountFacts, PathLength
        <5>4. path = m \/ Len(m) <= Len(path)
          <6>1. path = m \/ IsPrefix(m \o Slash, path)
            BY <2>1, <2>4, UnderMeans
          <6>2. m \o Slash \in Path /\ Len(m \o Slash) = Len(m) + Len(Slash)
            BY <2>1, FixedPaths, Joined
          <6>3. IsPrefix(m \o Slash, path) => Len(m \o Slash) <= Len(path)
            BY <6>2, <2>4, PrefixMeans
          <6> QED
            BY <6>1, <6>2, <6>3, <5>3, FixedPaths
        <5> QED
          BY <5>2, <5>3, <5>4
      <4> QED
        BY <4>1, <4>2
    <3>2. inner = Slash
      BY <3>1, <2>4
    <3>3. /\ m \o Slash \in Path /\ Len(m \o Slash) = Len(m) + Len(Slash)
          /\ m \o Alias \in Path /\ Len(m \o Alias) = Len(m) + Len(Alias)
      BY <2>1, FixedPaths, Joined
    <3>4. Len(m) \in Nat
      BY <2>1, PathLength
    <3>5. landing # m \o Alias /\ landing # m
      BY <3>1, <3>3, <3>4, <2>9, FixedPaths
    <3>6. Under(landing, m) /\ SubSeq(landing, Len(m) + 1, Len(landing)) = Slash
      <4>1. Slash \in Path /\ landing = m \o Slash
        BY <3>1, <2>9, FixedPaths
      <4> HIDE DEF m
      <4>2. SubSeq(m \o Slash, Len(m) + 1, Len(m \o Slash)) = Slash
        BY <4>1, <2>1, Rest
      <4>3. m \o Slash \o <<>> = m \o Slash /\ IsPrefix(m \o Slash, m \o Slash \o <<>>)
        BY <3>3, FixedPaths, Rest, ConcatEmptySeq DEF Path
      <4>4. Under(m \o Slash, m)
        BY <4>3, <3>3, <2>1, UnderMeans
      <4> QED
        BY <4>1, <4>2, <4>4
    <3>7. WorkerFetch(worker, method, landing) =
            ServiceFetch(worker.service, method,
              IF landing = m THEN Slash ELSE SubSeq(landing, Len(m) + 1, Len(landing)))
      BY <3>5, <3>6, <1>3, <2>1, <2>7, AppAnswers
    <3>8. WorkerFetch(worker, method, landing) = ServiceFetch(worker.service, method, inner)
      BY <3>2, <3>5, <3>6, <3>7
    <3> QED
      BY <3>8, <2>2, <2>3 DEF landing
  <2> QED
    BY <2>7, <2>8, <2>9
<1> QED
  BY <1>1, <1>2, <1>3

-----------------------------------------------------------------------------
(* The documents. *)

FoundBy(answer) == answer.ok = TRUE /\ answer.by = "document"

LEMMA DocumentServed ==
  ASSUME NEW service
  PROVE  FoundBy(ServiceFetch(service, "GET", service.document))
BY DEF ServiceFetch, Answer, FoundBy

\* The one path that a service is asked for.
LEMMA ServiceDocument ==
  ASSUME site \in Sites, NEW i \in DOMAIN Entries, Entries[i].kind = "service", Agrees(i)
  PROVE  FoundBy(WorkerFetch(AppOf(i), "GET", Suffix(Entries[i])))
<1>1. ~IsApp(AppOf(i)) /\ AppOf(i).document = Suffix(Entries[i])
  BY DEF Agrees, AppOf, HasRoutes, Routes
<1>2. WorkerFetch(AppOf(i), "GET", Suffix(Entries[i])) = ServiceFetch(AppOf(i), "GET", AppOf(i).document)
  BY <1>1 DEF WorkerFetch, Refuses
<1> QED
  BY <1>2, DocumentServed

\* The internal path of an app: its document, unless its server refuses it.
LEMMA InternalDocument ==
  ASSUME site \in Sites, NEW i \in DOMAIN Entries, Entries[i].kind = "web", Agrees(i),
         "api" \in DOMAIN AppOf(i),
         NEW answer,
         answer = WorkerFetch(AppOf(i), "GET", JoinPrefix(Entries[i].mount, Slash) \o DocumentPath)
  PROVE  FoundBy(answer) \/ answer.ok = FALSE
<1> DEFINE worker == AppOf(i)
           m == Entries[i].mount
           left == JoinPrefix(m, Slash)
           path == left \o DocumentPath
<1>1. m \in Path /\ ValidMount(m) /\ Plainly(m) /\ left = Before(m) /\ left \in Path
  BY EntryFacts, BeforeFacts DEF Agrees
<1>2. IsApp(worker) /\ worker.base = m /\ worker.service.document = DocumentPath
  BY ApiOfApp
<1>3. path \in Path
  BY <1>1, FixedPaths, Joined
<1>4. CASE Refuses(worker, path)
  <2>1. answer = NotFound
    BY <1>4 DEF WorkerFetch
  <2> QED
    BY <2>1 DEF NotFound, Answer
<1>5. CASE ~Refuses(worker, path)
  <2>1. IsInternalPath(path, m) /\ ToInternalPath(path, m) = DocumentPath
    <3>1. CASE m = Slash
      <4>1. path = DocumentPath
        <5>1. left = <<>>
          BY <1>1, <3>1 DEF Before
        <5> QED
          BY <5>1, FixedPaths, ConcatEmptySeq DEF Path
      <4> QED
        BY <4>1, FixedPaths DEF IsInternalPath, ToInternalPath
    <3>2. CASE m # Slash
      <4>1. left = m /\ Len(m) >= 2 /\ Len(m) \in Nat
        BY <1>1, <3>2, MountFacts DEF Before
      <4>2. Len(path) = Len(m) + 4 /\ \A k \in 1 .. Len(m) : path[k] = m[k]
        <5>1. DocumentPath \in Path /\ Len(DocumentPath) = 4
          BY FixedPaths
        <5>2. /\ Len(m \o DocumentPath) = Len(m) + Len(DocumentPath)
              /\ \A k \in 1 .. Len(m) : (m \o DocumentPath)[k] = m[k]
          BY <5>1, <1>1, Joined
        <5> QED
          BY <4>1, <5>1, <5>2
      <4>3. ~IsPrefix(Internal, path)
        <5> HIDE DEF path, m
        <5> SUFFICES ASSUME IsPrefix(Internal, path) PROVE FALSE
          OBVIOUS
        <5>1. path[2] = "__gmode"
          <6>1. 2 \in 1 .. Len(Internal)
            BY FixedPaths
          <6> QED
            BY <6>1, <1>3, FixedPaths, PrefixMeans
        <5>2. m[2] = "__gmode" /\ 2 \in DOMAIN m
          <6>1. 2 \in 1 .. Len(m)
            BY <4>1
          <6> QED
            BY <6>1, <5>1, <4>2, <1>1, PathLength
        <5> QED
          BY <5>2, <1>1 DEF Plainly, ToSet
      <4>4. SubSeq(path, Len(left) + 1, Len(path)) = DocumentPath
        BY <1>1, FixedPaths, Rest
      <4>5. IsPrefix(left \o Internal, path)
        <5> DEFINE rest == SubSeq(DocumentPath, Len(Internal) + 1, Len(DocumentPath))
        <5>1. rest \in Path /\ DocumentPath = Internal \o rest
          BY FixedPaths, Split
        <5> HIDE DEF rest
        <5>2. left \o (Internal \o rest) = (left \o Internal) \o rest
          <6>1. Internal \in Path
            BY FixedPaths
          <6> HIDE DEF left
          <6> QED
            BY <5>1, <6>1, <1>1, Associated
        <5>3. left \o Internal \in Path
          BY <1>1, FixedPaths, Joined
        <5>4. IsPrefix(left \o Internal, (left \o Internal) \o rest)
          BY <5>1, <5>3, Rest
        <5> QED
          BY <5>1, <5>2, <5>4
      <4>6. IsInternalPath(path, m)
        BY <3>2, <4>5 DEF IsInternalPath
      <4>7. ToInternalPath(path, m) = SubSeq(path, Len(left) + 1, Len(path))
        BY <4>3 DEF ToInternalPath
      <4> QED
        BY <4>4, <4>6, <4>7
    <3> QED
      BY <3>1, <3>2
  <2>2. answer = WithGmode(worker, "GET", path)
    BY <1>2, <1>5 DEF WorkerFetch
  <2> HIDE DEF path, m, worker
  <2>3. WithGmode(worker, "GET", path) = InternalAnswer(worker, "GET", DocumentPath)
    BY <1>2, <2>1 DEF WithGmode
  <2>4. "api" \in DOMAIN worker
    BY DEF worker
  <2>5. InternalAnswer(worker, "GET", DocumentPath) = ServiceFetch(worker.service, "GET", worker.service.document)
    BY <2>4, <1>2 DEF InternalAnswer
  <2> QED
    BY <2>2, <2>3, <2>5, DocumentServed
<1> QED
  BY <1>4, <1>5

\* The alias of the document of an app, below the mount of its API.
LEMMA AliasFacts ==
  ASSUME site \in Sites, NEW i \in DOMAIN Entries, Entries[i].kind = "web", Agrees(i),
         "api" \in DOMAIN AppOf(i), MountOf(i) # Slash,
         NEW alias, alias = JoinPrefix(Entries[i].mount, ApiMount(Entries[i])) \o Alias
  PROVE  /\ alias \in Path
         /\ alias = PublicPath(MountOf(i), Alias)
         /\ FoundBy(WorkerFetch(AppOf(i), "GET", alias))
         /\ ~Redirects(i, alias)
<1> DEFINE m == MountOf(i)
<1>1. /\ m \in Path /\ ValidMount(m) /\ JoinPrefix(Entries[i].mount, ApiMount(Entries[i])) = m
      /\ ToSet(m) \intersect (Parameters \union {"__gmode"}) = {}
      /\ AppOf(i).service.document = DocumentPath
      /\ ApiMount(Entries[i]) \in Path
  BY ApiOfApp DEF Before
<1>2. alias = m \o Alias
  BY <1>1
<1>3. alias \in Path /\ "__gmode" \notin ToSet(alias) /\ Len(alias) = Len(m) + 2
  <2>1. Alias \in Path /\ Len(Alias) = 2
    BY FixedPaths
  <2>2. m \o Alias \in Path /\ Len(m \o Alias) = Len(m) + Len(Alias)
    BY <2>1, <1>1, Joined
  <2>3. ToSet(m \o Alias) = ToSet(m) \union ToSet(Alias)
    BY <2>1, <1>1, PiecesJoined
  <2> QED
    BY <2>1, <2>2, <2>3, <1>1, <1>2, PlainPieces
<1>4. Entries[i].mount \in Path /\ ValidMount(Entries[i].mount)
  BY EntryFacts
<1>5. ~IsInternalPath(alias, Entries[i].mount) /\ ~Refuses(AppOf(i), alias)
  BY <1>3, <1>4, PlainPath
<1>6. WorkerFetch(AppOf(i), "GET", alias) = ServiceFetch(AppOf(i).service, "GET", DocumentPath)
  BY <1>2, <1>3, <1>5, AppAnswers
<1>7. FoundBy(WorkerFetch(AppOf(i), "GET", alias))
  BY <1>1, <1>6, DocumentServed
<1>8. PublicPath(m, Alias) = m \o Alias
  <2>1. Alias # Slash /\ Alias \in Path
    BY FixedPaths
  <2>2. PublicPath(m, Alias) = IF m # Slash /\ Alias = Slash THEN m ELSE Before(m) \o Alias
    BY <2>1, <1>1, BeforeFacts
  <2> QED
    BY <2>1, <2>2 DEF Before
<1>9. ~Redirects(i, alias)
  <2> SUFFICES ASSUME Entries[i].mount # Slash PROVE alias # Entries[i].mount
    BY DEF Redirects
  <2> DEFINE b == Entries[i].mount
             a == Before(ApiMount(Entries[i]))
  <2>1. m = b \o a
    BY <1>1, <1>4, BeforeFacts DEF Before
  <2>2. a \in Path
    BY <1>1, FixedPaths DEF Before
  <2>3. Len(m) = Len(b) + Len(a)
    BY <2>1, <2>2, <1>4, Joined
  <2>4. Len(b) \in Nat /\ Len(a) \in Nat
    BY <2>2, <1>4, PathLength
  <2> QED
    BY <2>3, <2>4, <1>3
<1> QED
  BY <1>2, <1>3, <1>7, <1>8, <1>9

\* The alias through the gateway, where its routing leads there.
LEMMA PublicDocument ==
  ASSUME site \in Sites, NEW i \in DOMAIN Entries, Entries[i].kind = "web", Agrees(i),
         "api" \in DOMAIN AppOf(i), MountOf(i) # Slash,
         NEW alias, alias = JoinPrefix(Entries[i].mount, ApiMount(Entries[i])) \o Alias,
         StripBase(alias, Options.basePath) = alias, Innermost(i, alias)
  PROVE  FoundBy(GatewayFetch("GET", alias))
<1>1. ~Redirects(i, alias) /\ FoundBy(WorkerFetch(AppOf(i), "GET", alias))
  BY AliasFacts
<1>2. Route(alias) = [to |-> "worker", worker |-> Entries[i].name, path |-> RewrittenPath(alias, Entries[i])]
  BY <1>1, Routed
<1>3. RewrittenPath(alias, Entries[i]) = alias
  BY DEF Agrees, RewrittenPath
<1>4. GatewayFetch("GET", alias) = WorkerFetch(AppOf(i), "GET", alias)
  BY <1>2, <1>3 DEF GatewayFetch, AppOf
<1> QED
  BY <1>1, <1>4

-----------------------------------------------------------------------------
(* The invariant. *)

\* No app has both itself and its API at the root: such an app would serve its
\* API under the internal paths only.
NoRootApi ==
  \A s \in Sites : \A i \in DOMAIN s.registrations :
    LET entry == Entry(s.registrations[i])
    IN  entry.kind = "web" /\ "api" \in DOMAIN entry => ~(entry.mount = Slash /\ entry.api = Slash)

BasePathOk == Options.basePath = Unset \/ ValidMount(Options.basePath)

\* An entry whose document the gateway can find.
Findable(i) ==
  LET alias == PublicPath(PublicMount(Entries[i]), Alias)
  IN  /\ Agrees(i) /\ probes[i].state # "off"
      /\ "devUrl" \in DOMAIN Entries[i] =>
           StripBase(alias, Options.basePath) = alias /\ Innermost(i, alias)

\* A document is found at the first path, or at the second if the first is
\* refused, so that no other is ever asked for.
ProbesKept ==
  /\ DOMAIN probes = DOMAIN Entries
  /\ \A i \in DOMAIN Entries :
       /\ probes[i].state # "off" => Listed(Entries[i])
       /\ Findable(i) =>
            /\ probes[i].state \in {"pending", "found"}
            /\ probes[i].state = "pending" =>
                 probes[i].tried = 0 \/ (probes[i].tried = 1 /\ Entries[i].kind = "web")

KnownRequest ==
  LET request == passage.request
  IN  \/ /\ request.by = "client" /\ request.op \in Document /\ request.value \in Values
         /\ request.method = request.op.method /\ request.url = Fill(request.op.path, request.value)
      \/ request.by = "browser" /\ request.method = "GET" /\ request.url \in Pages

Outcome(answer) ==
  IF answer.ok THEN "resolved" ELSE IF answer.code = "none" THEN "HTTP_ERROR" ELSE answer.code

\* What an entry is asked, and what its Worker says to that.
Rewritten(i) == RewrittenPath(Landing(i, Asked), Entries[i])
Said(i) == WorkerFetch(AppOf(i), passage.request.method, Rewritten(i))

\* A request stays with the entry that its path belongs to.
OnItsWay(i) ==
  (BasePathOk /\ passage.request.url \in Path /\ Innermost(i, Asked)) =>
    /\ passage.stage = "sent" =>
         \/ passage.path = passage.request.url
         \/ Redirects(i, Asked) /\ passage.path = passage.request.url \o Slash
    /\ passage.stage = "forwarded" => passage.worker = Entries[i].name /\ passage.path = Rewritten(i)
    /\ passage.stage \in {"answered", "settled"} => passage.answer = Said(i)

PassageKept ==
  passage.stage # "idle" =>
    /\ AllProbed /\ KnownRequest
    /\ \A i \in DOMAIN Entries : OnItsWay(i)
    /\ passage.stage = "settled" => passage.request.by = "client" /\ passage.outcome = Outcome(passage.answer)

PublicInv == site \in Sites /\ ProbesKept /\ PassageKept

LEMMA OptionsFacts ==
  ASSUME site \in Sites
  PROVE  Options.basePath \in Path
BY SitesAssumption DEF Options, BuildDefaults, Path

\* What depends on the gateway alone does not change.
LEMMA SameSite ==
  ASSUME site' = site
  PROVE  /\ Entries' = Entries /\ Options' = Options /\ BasePathOk' = BasePathOk
         /\ \A i : AppOf(i)' = AppOf(i) /\ (Agrees(i)' <=> Agrees(i))
         /\ \A i, path : /\ Innermost(i, path)' <=> Innermost(i, path)
                         /\ Landing(i, path)' = Landing(i, path)
                         /\ Redirects(i, path)' <=> Redirects(i, path)
         /\ \A entry : ServiceOf(entry)' = ServiceOf(entry)
<1>1. Entries' = Entries /\ Options' = Options
  BY DEF Entries, Options
<1>2. BasePathOk' = BasePathOk
  BY <1>1 DEF BasePathOk
<1>3. \A i : AppOf(i)' = AppOf(i)
  BY <1>1 DEF AppOf, Worker
<1>4. \A i, path : Landing(i, path)' = Landing(i, path) /\ (Redirects(i, path)' <=> Redirects(i, path))
  BY <1>1 DEF Landing, Redirects
<1>5. BuiltIns' = BuiltIns
  BY <1>1 DEF BuiltIns
<1>6. \A i, path : Innermost(i, path)' <=> Innermost(i, path)
  BY <1>1, <1>4, <1>5 DEF Innermost
<1>7. \A i : Agrees(i)' <=> Agrees(i)
  BY <1>1 DEF Agrees, Worker
<1>8. \A entry : ServiceOf(entry)' = ServiceOf(entry)
  BY DEF ServiceOf, Worker
<1> QED
  BY <1>1, <1>2, <1>3, <1>4, <1>6, <1>7, <1>8

LEMMA PublicInitKeeps ==
  PublicInit => PublicInv
<1> SUFFICES ASSUME PublicInit PROVE PublicInv
  OBVIOUS
<1>1. site \in Sites /\ passage.stage = "idle"
  BY DEF PublicInit, Idle
<1>2. DOMAIN probes = DOMAIN Entries
  BY DEF PublicInit, Entries, Register
<1>3. ASSUME NEW i \in DOMAIN Entries
      PROVE  /\ probes[i].state = IF Listed(Entries[i]) THEN "pending" ELSE "off"
             /\ probes[i].tried = 0
  BY <1>2, <1>3 DEF PublicInit
<1>4. ProbesKept
  BY <1>2, <1>3 DEF ProbesKept, Findable
<1> QED
  BY <1>1, <1>4 DEF PublicInv, PassageKept

-----------------------------------------------------------------------------
(* Every step keeps it: the documents. *)

LEMMA ProbedTells ==
  ASSUME NEW i \in DOMAIN probes, NEW answer, NEW last, Probed(i, answer, last)
  PROVE  /\ DOMAIN probes' = DOMAIN probes
         /\ \A j \in DOMAIN probes \ {i} : probes'[j] = probes[j]
         /\ probes'[i].tried = probes[i].tried + 1
         /\ FoundBy(answer) => probes'[i].state = "found"
         /\ (answer.ok = FALSE /\ last = FALSE) => probes'[i].state = "pending"
BY DEF Probed, FoundBy

\* The three paths at which the document of an app is looked for.
LEMMA WebProbes ==
  ASSUME site \in Sites, NEW i \in DOMAIN Entries, Entries[i].kind = "web"
  PROVE  LET paths == BindingProbePaths(Entries[i])
             used  == IF "devUrl" \in DOMAIN Entries[i] THEN <<paths[1]>> ELSE paths
         IN  /\ Len(used) = IF "devUrl" \in DOMAIN Entries[i] THEN 1 ELSE 3
             /\ used[1] = JoinPrefix(Entries[i].mount, Slash) \o DocumentPath
             /\ "devUrl" \notin DOMAIN Entries[i] =>
                  used[2] = JoinPrefix(Entries[i].mount, ApiMount(Entries[i])) \o Alias
<1> DEFINE paths == BindingProbePaths(Entries[i])
           own   == JoinPrefix(Entries[i].mount, Slash) \o DocumentPath
           alias == JoinPrefix(Entries[i].mount, ApiMount(Entries[i])) \o Alias
<1>1. Suffix(Entries[i]) = DocumentPath
  BY DEF Suffix
<1>2. InternalPathForEntry(Entries[i], DocumentPath) = own
  BY DEF InternalPathForEntry
<1>3. paths = <<own, alias, DocumentPath>>
  BY <1>1, <1>2 DEF BindingProbePaths
<1> HIDE DEF paths, own, alias
<1>4. Len(paths) = 3 /\ paths[1] = own /\ paths[2] = alias
  BY <1>3
<1>5. Len(<<paths[1]>>) = 1 /\ <<paths[1]>>[1] = own
  BY <1>4
<1> QED
  BY <1>4, <1>5 DEF paths, own, alias

LEMMA ServiceProbes ==
  ASSUME site \in Sites, NEW i \in DOMAIN Entries, Entries[i].kind = "service"
  PROVE  LET paths == BindingProbePaths(Entries[i])
             used  == IF "devUrl" \in DOMAIN Entries[i] THEN <<paths[1]>> ELSE paths
         IN  used[1] = Suffix(Entries[i])
<1>1. BindingProbePaths(Entries[i]) = <<Suffix(Entries[i])>>
  BY DEF BindingProbePaths, InternalPathForEntry
<1> QED
  BY <1>1

\* An app that gets into the document, and what is known of it.
LEMMA FindableApp ==
  ASSUME NoRootApi, site \in Sites, ProbesKept, NEW i \in DOMAIN Entries, Findable(i), Entries[i].kind = "web"
  PROVE  /\ Agrees(i) /\ "api" \in DOMAIN AppOf(i) /\ MountOf(i) # Slash
         /\ "devUrl" \in DOMAIN Entries[i] =>
              LET alias == JoinPrefix(Entries[i].mount, ApiMount(Entries[i])) \o Alias
              IN  StripBase(alias, Options.basePath) = alias /\ Innermost(i, alias)
<1>1. Agrees(i) /\ "api" \in DOMAIN Entries[i]
  BY DEF Findable, ProbesKept, Listed
<1>2. "api" \in DOMAIN AppOf(i)
  BY <1>1 DEF Agrees, AppOf
<1>3. ~(Entries[i].mount = Slash /\ ApiMount(Entries[i]) = Slash)
  BY <1>1 DEF NoRootApi, Entries, Register, ApiMount
<1>4. MountOf(i) # Slash
  BY <1>1, <1>2, <1>3, ApiOfApp
<1>5. PublicPath(PublicMount(Entries[i]), Alias) = JoinPrefix(Entries[i].mount, ApiMount(Entries[i])) \o Alias
  BY <1>1, <1>2, <1>4, AliasFacts DEF MountOf
<1> QED
  BY <1>1, <1>2, <1>4, <1>5 DEF Findable

LEMMA ProbesKeep ==
  ASSUME NoRootApi, PublicInv, NEW i \in DOMAIN probes, ProbeBinding(i) \/ ProbePublic(i)
  PROVE  PublicInv'
<1> DEFINE entry == Entries[i]
           alias == JoinPrefix(entry.mount, ApiMount(entry)) \o Alias
           own   == JoinPrefix(entry.mount, Slash) \o DocumentPath
<1>1. site \in Sites /\ site' = site /\ passage' = passage /\ i \in DOMAIN Entries
  BY DEF PublicInv, ProbesKept, ProbeBinding, ProbePublic
<1>2. passage.stage = "idle"
  BY DEF PublicInv, PassageKept, AllProbed, ProbeBinding, ProbePublic
<1>3. probes[i].state = "pending" /\ Listed(entry)
  BY <1>1 DEF PublicInv, ProbesKept, ProbeBinding, ProbePublic
<1>4. PICK answer, last : Probed(i, answer, last)
  BY DEF ProbeBinding, ProbePublic
<1>5. /\ DOMAIN probes' = DOMAIN probes
      /\ \A j \in DOMAIN probes \ {i} : probes'[j] = probes[j]
      /\ probes'[i].tried = probes[i].tried + 1
  BY <1>4, ProbedTells
<1>6. ASSUME Findable(i)
      PROVE  probes'[i].state = "found"
               \/ (probes'[i].state = "pending" /\ probes'[i].tried = 1 /\ entry.kind = "web")
  <2>1. entry.kind \in {"service", "web"}
    BY <1>1, EntryFacts
  <2>2. Agrees(i) /\ (probes[i].tried = 0 \/ (probes[i].tried = 1 /\ entry.kind = "web"))
    BY <1>1, <1>3, <1>6 DEF PublicInv, ProbesKept, Findable
  <2>3. CASE entry.kind = "service"
    <3>1. probes[i].tried = 0 /\ probes[i].tried + 1 = 1
      BY <2>2, <2>3
    <3>2. \E l : Probed(i, WorkerFetch(AppOf(i), "GET", Suffix(entry)), l)
      BY <3>1, <1>1, <2>3, ServiceProbes DEF ProbeBinding, ProbePublic, AppOf
    <3>3. FoundBy(WorkerFetch(AppOf(i), "GET", Suffix(entry)))
      BY <1>1, <2>2, <2>3, ServiceDocument
    <3> QED
      BY <3>2, <3>3, ProbedTells
  <2>4. CASE entry.kind = "web"
    <3>1. /\ "api" \in DOMAIN AppOf(i) /\ MountOf(i) # Slash
          /\ "devUrl" \in DOMAIN entry => StripBase(alias, Options.basePath) = alias /\ Innermost(i, alias)
      BY <1>1, <1>6, <2>4, FindableApp DEF PublicInv
    <3>2. FoundBy(WorkerFetch(AppOf(i), "GET", alias))
      BY <1>1, <2>2, <2>4, <3>1, AliasFacts
    <3>3. CASE probes[i].tried = 0
      <4>1. ProbeBinding(i) /\ probes[i].tried + 1 = 1
        BY <3>3 DEF ProbePublic
      <4>2. Probed(i, WorkerFetch(AppOf(i), "GET", own), FALSE)
        BY <4>1, <1>1, <2>4, WebProbes DEF ProbeBinding, AppOf
      <4>3. FoundBy(WorkerFetch(AppOf(i), "GET", own)) \/ WorkerFetch(AppOf(i), "GET", own).ok = FALSE
        BY <1>1, <2>2, <2>4, <3>1, InternalDocument
      <4> QED
        BY <4>1, <4>2, <4>3, <1>5, <2>4, ProbedTells
    <3>4. CASE probes[i].tried = 1 /\ ProbeBinding(i)
      <4>1. probes[i].tried + 1 = 2
        BY <3>4
      <4>2. "devUrl" \notin DOMAIN entry
        BY <3>4, <1>1, <2>4, WebProbes DEF ProbeBinding
      <4>3. Probed(i, WorkerFetch(AppOf(i), "GET", alias), FALSE)
        BY <4>1, <4>2, <3>4, <1>1, <2>4, WebProbes DEF ProbeBinding, AppOf
      <4> QED
        BY <4>3, <3>2, ProbedTells
    <3>5. CASE probes[i].tried = 1 /\ ProbePublic(i)
      <4>1. "devUrl" \in DOMAIN entry
        BY <3>5 DEF ProbePublic
      <4>2. FoundBy(GatewayFetch("GET", alias))
        BY <4>1, <1>1, <2>2, <2>4, <3>1, PublicDocument
      <4>3. Probed(i, GatewayFetch("GET", alias), TRUE)
        BY <3>5 DEF ProbePublic
      <4> QED
        BY <4>2, <4>3, ProbedTells
    <3> QED
      BY <2>2, <3>3, <3>4, <3>5
  <2> QED
    BY <2>1, <2>3, <2>4
<1>7. \A j \in DOMAIN Entries : Findable(j)' =>
        /\ probes[j].state # "off" => Findable(j)
        /\ probes'[j].state # "off"
  BY <1>1, SameSite DEF Findable
<1>8. ProbesKept'
  <2>1. DOMAIN probes' = DOMAIN Entries'
    BY <1>1, <1>5, SameSite DEF PublicInv, ProbesKept
  <2>2. ASSUME NEW j \in DOMAIN Entries
        PROVE  /\ probes'[j].state # "off" => Listed(Entries[j])
               /\ Findable(j)' =>
                    /\ probes'[j].state \in {"pending", "found"}
                    /\ probes'[j].state = "pending" =>
                         probes'[j].tried = 0 \/ (probes'[j].tried = 1 /\ Entries[j].kind = "web")
    <3>1. CASE j = i
      BY <3>1, <1>3, <1>6, <1>7
    <3>2. CASE j # i
      <4>1. probes'[j] = probes[j]
        BY <3>2, <1>5, <2>2 DEF PublicInv, ProbesKept
      <4> QED
        BY <4>1, <1>7, <2>2 DEF PublicInv, ProbesKept
    <3> QED
      BY <3>1, <3>2
  <2> QED
    BY <2>1, <2>2, <1>1, SameSite DEF ProbesKept
<1>9. PassageKept'
  BY <1>1, <1>2 DEF PassageKept
<1> QED
  BY <1>1, <1>8, <1>9 DEF PublicInv

-----------------------------------------------------------------------------
(* Every step keeps it: a request. *)

\* While a request is on its way the documents are known.
LEMMA SameDocuments ==
  ASSUME site' = site, probes' = probes
  PROVE  /\ AllProbed' = AllProbed /\ Document' = Document
         /\ ProbesKept => ProbesKept'
<1>1. /\ Entries' = Entries /\ Options' = Options
      /\ \A i : Agrees(i)' <=> Agrees(i)
      /\ \A i, path : Innermost(i, path)' <=> Innermost(i, path)
      /\ \A entry : ServiceOf(entry)' = ServiceOf(entry)
  BY SameSite
<1>2. \A i : Findable(i)' <=> Findable(i)
  BY <1>1 DEF Findable
<1> QED
  BY <1>1, <1>2 DEF AllProbed, Document, ProbesKept

\* What a step has to show of the passage.
LEMMA PassageMoves ==
  ASSUME PublicInv, site' = site, probes' = probes, passage'.stage # "idle",
         AllProbed, KnownRequest',
         \A i \in DOMAIN Entries : OnItsWay(i)',
         passage'.stage = "settled" =>
           passage'.request.by = "client" /\ passage'.outcome = Outcome(passage'.answer)
  PROVE  PublicInv'
<1>1. site' \in Sites /\ Entries' = Entries /\ AllProbed' /\ ProbesKept'
  BY SameSite, SameDocuments DEF PublicInv
<1> QED
  BY <1>1 DEF PublicInv, PassageKept

\* Of a request that is kept, only the stage is new.
LEMMA SameRequest ==
  ASSUME site' = site, probes' = probes, passage'.request = passage.request
  PROVE  /\ KnownRequest => KnownRequest'
         /\ Asked' = Asked
         /\ \A i : Rewritten(i)' = Rewritten(i) /\ Said(i)' = Said(i)
<1>1. /\ Entries' = Entries /\ Options' = Options
      /\ \A i : AppOf(i)' = AppOf(i)
      /\ \A i, path : Landing(i, path)' = Landing(i, path)
  BY SameSite
<1>2. Asked' = Asked
  BY <1>1 DEF Asked
<1>3. KnownRequest => KnownRequest'
  BY SameDocuments DEF KnownRequest
<1>4. \A i : Rewritten(i)' = Rewritten(i)
  BY <1>1, <1>2 DEF Rewritten
<1>5. \A i : Said(i)' = Said(i)
  BY <1>1, <1>4 DEF Said
<1> QED
  BY <1>2, <1>3, <1>4, <1>5

LEMMA SendsKeep ==
  ASSUME PublicInv,
         \/ \E op \in Document, value \in Values : PerformRequest(op, value)
         \/ \E path \in Pages : Browse(path)
  PROVE  PublicInv'
<1>1. site' = site /\ probes' = probes /\ AllProbed
  BY DEF PerformRequest, Browse
<1>2. Document' = Document
  BY <1>1, SameDocuments
<1>3. passage'.stage = "sent" /\ passage'.path = passage'.request.url /\ KnownRequest'
  <2>1. CASE \E op \in Document, value \in Values : PerformRequest(op, value)
    <3>1. PICK op \in Document, value \in Values : PerformRequest(op, value)
      BY <2>1
    <3>2. /\ passage'.stage = "sent" /\ passage'.path = passage'.request.url
          /\ passage'.request.by = "client" /\ passage'.request.op = op
          /\ passage'.request.value = value /\ passage'.request.method = op.method
          /\ passage'.request.url = Fill(op.path, value)
      BY <3>1 DEF PerformRequest, Sent
    <3> QED
      BY <3>2, <1>2 DEF KnownRequest
  <2>2. CASE \E path \in Pages : Browse(path)
    <3>1. PICK path \in Pages : Browse(path)
      BY <2>2
    <3>2. /\ passage'.stage = "sent" /\ passage'.path = passage'.request.url
          /\ passage'.request.by = "browser" /\ passage'.request.method = "GET"
          /\ passage'.request.url = path
      BY <3>1 DEF Browse, Sent
    <3> QED
      BY <3>2 DEF KnownRequest
  <2> QED
    BY <2>1, <2>2
<1>4. \A i \in DOMAIN Entries : OnItsWay(i)'
  BY <1>3 DEF OnItsWay
<1> QED
  BY <1>1, <1>3, <1>4, PassageMoves

\* The gateway's part, with and without its redirect.
LEMMA DispatchKeeps ==
  ASSUME PublicInv, Dispatch
  PROVE  PublicInv'
<1> DEFINE r == Route(passage.path)
<1>1. site \in Sites /\ site' = site /\ probes' = probes /\ passage.stage = "sent"
      /\ AllProbed /\ KnownRequest /\ \A i \in DOMAIN Entries : OnItsWay(i)
  BY DEF PublicInv, PassageKept, Dispatch
<1>2. \/ /\ r.to = "redirect" /\ passage'.stage = "sent" /\ passage'.request = passage.request
         /\ passage'.path = r.path
      \/ /\ r.to = "worker" /\ passage'.stage = "forwarded" /\ passage'.request = passage.request
         /\ passage'.worker = r.worker /\ passage'.path = r.path
      \/ r.to = "gateway" /\ passage'.stage = "answered" /\ passage'.request = passage.request
  BY DEF Dispatch, Sent, Answered
<1>3. passage'.request = passage.request /\ passage'.stage \in {"sent", "forwarded", "answered"}
  BY <1>2
<1>4. KnownRequest' /\ Asked' = Asked /\ \A i : Rewritten(i)' = Rewritten(i)
  BY <1>1, <1>3, SameRequest
<1>5. ASSUME NEW i \in DOMAIN Entries,
             BasePathOk, passage.request.url \in Path, Innermost(i, Asked)
      PROVE  /\ passage'.stage = "sent" =>
                  Redirects(i, Asked) /\ passage'.path = passage.request.url \o Slash
             /\ passage'.stage = "forwarded" =>
                  passage'.worker = Entries[i].name /\ passage'.path = Rewritten(i)
             /\ passage'.stage # "answered"
  <2> DEFINE url == passage.request.url
  <2>1. \/ passage.path = url
        \/ Redirects(i, Asked) /\ passage.path = url \o Slash
    BY <1>1, <1>5 DEF OnItsWay
  <2>2. CASE passage.path = url
    <3>1. Asked = StripBase(passage.path, Options.basePath)
      BY <2>2 DEF Asked
    <3>2. r = IF Redirects(i, Asked) THEN [to |-> "redirect", path |-> passage.path \o Slash]
              ELSE [to |-> "worker", worker |-> Entries[i].name,
                    path |-> RewrittenPath(Asked, Entries[i])]
      BY <3>1, <1>1, <1>5, Routed
    <3>3. CASE Redirects(i, Asked)
      <4>1. r.to = "redirect" /\ r.path = url \o Slash
        BY <3>2, <3>3, <2>2
      <4> HIDE DEF r
      <4> QED
        BY <4>1, <1>2, <3>3
    <3>4. CASE ~Redirects(i, Asked)
      <4>1. Landing(i, Asked) = Asked
        BY <3>4 DEF Landing, Redirects
      <4>2. r.to = "worker" /\ r.worker = Entries[i].name /\ r.path = Rewritten(i)
        BY <3>2, <3>4, <4>1 DEF Rewritten
      <4> HIDE DEF r
      <4> QED
        BY <4>2, <1>2
    <3> QED
      BY <3>3, <3>4
  <2>3. CASE Redirects(i, Asked) /\ passage.path = url \o Slash
    <3>1. LET landing == Landing(i, Asked)
          IN  /\ StripBase(url \o Slash, Options.basePath) = landing
              /\ Innermost(i, landing) /\ ~Redirects(i, landing)
      <4>1. Asked = StripBase(url, Options.basePath)
        BY DEF Asked
      <4> HIDE DEF url
      <4> QED
        BY <4>1, <1>1, <1>5, <2>3, OptionsFacts, Redirected DEF BasePathOk, url
    <3>2. r = [to |-> "worker", worker |-> Entries[i].name,
               path |-> RewrittenPath(Landing(i, Asked), Entries[i])]
      BY <3>1, <2>3, <1>1, Routed
    <3>3. r.to = "worker" /\ r.worker = Entries[i].name /\ r.path = Rewritten(i)
      BY <3>2 DEF Rewritten
    <3> HIDE DEF r
    <3> QED
      BY <3>3, <1>2
  <2> QED
    BY <2>1, <2>2, <2>3
<1>6. ASSUME NEW i \in DOMAIN Entries PROVE OnItsWay(i)'
  <2> SUFFICES ASSUME BasePathOk', (passage.request.url \in Path)', Innermost(i, Asked)'
               PROVE  /\ passage'.stage = "sent" =>
                           \/ passage'.path = passage'.request.url
                           \/ Redirects(i, Asked)' /\ passage'.path = passage'.request.url \o Slash
                      /\ passage'.stage = "forwarded" =>
                           passage'.worker = Entries'[i].name /\ passage'.path = Rewritten(i)'
                      /\ passage'.stage \notin {"answered", "settled"}
    BY DEF OnItsWay
  <2>1. BasePathOk /\ passage.request.url \in Path /\ Innermost(i, Asked)
        /\ Entries' = Entries /\ (Redirects(i, Asked)' <=> Redirects(i, Asked))
    BY <1>1, <1>3, <1>4, SameSite
  <2> QED
    BY <2>1, <1>3, <1>4, <1>5
<1> QED
  BY <1>1, <1>3, <1>4, <1>6, PassageMoves

LEMMA AnswersKeep ==
  ASSUME PublicInv, Serve \/ SettlePromise
  PROVE  PublicInv'
<1>1. site \in Sites /\ site' = site /\ probes' = probes /\ passage.stage \in {"forwarded", "answered"}
      /\ AllProbed /\ KnownRequest /\ \A i \in DOMAIN Entries : OnItsWay(i)
  BY DEF PublicInv, PassageKept, Serve, SettlePromise
<1>2. \/ /\ passage.stage = "forwarded" /\ passage'.stage = "answered"
         /\ passage'.request = passage.request
         /\ passage'.answer = WorkerFetch(Worker(passage.worker), passage.request.method, passage.path)
      \/ /\ passage.stage = "answered" /\ passage'.stage = "settled"
         /\ passage'.request = passage.request /\ passage.request.by = "client"
         /\ passage'.answer = passage.answer /\ passage'.outcome = Outcome(passage.answer)
  BY DEF Serve, Answered, SettlePromise, Outcome
<1>3. passage'.request = passage.request /\ passage'.stage \in {"answered", "settled"}
  BY <1>2
<1>4. KnownRequest' /\ Asked' = Asked /\ \A i : Said(i)' = Said(i)
  BY <1>1, <1>3, SameRequest
<1>5. passage'.stage = "settled" =>
        passage'.request.by = "client" /\ passage'.outcome = Outcome(passage'.answer)
  BY <1>2
<1>6. ASSUME NEW i \in DOMAIN Entries PROVE OnItsWay(i)'
  <2> SUFFICES ASSUME BasePathOk', (passage.request.url \in Path)', Innermost(i, Asked)'
               PROVE  passage'.answer = Said(i)'
    BY <1>3 DEF OnItsWay
  <2>1. BasePathOk /\ passage.request.url \in Path /\ Innermost(i, Asked)
    BY <1>1, <1>3, <1>4, SameSite
  <2>2. CASE passage.stage = "forwarded"
    <3>1. passage.worker = Entries[i].name /\ passage.path = Rewritten(i)
      BY <1>1, <2>1, <2>2 DEF OnItsWay
    <3> QED
      BY <3>1, <1>2, <1>4, <2>2 DEF Said, AppOf
  <2>3. CASE passage.stage = "answered"
    <3>1. passage.answer = Said(i)
      BY <1>1, <2>1, <2>3 DEF OnItsWay
    <3> QED
      BY <3>1, <1>2, <1>4, <2>3
  <2> QED
    BY <1>1, <2>2, <2>3
<1> QED
  BY <1>1, <1>3, <1>4, <1>5, <1>6, PassageMoves

LEMMA PublicNextKeeps ==
  ASSUME NoRootApi, PublicInv, [PublicNext]_publicVars
  PROVE  PublicInv'
<1>1. CASE \E i \in DOMAIN probes : ProbeBinding(i) \/ ProbePublic(i)
  BY <1>1, ProbesKeep
<1>2. CASE \/ \E op \in Document, value \in Values : PerformRequest(op, value)
           \/ \E path \in Pages : Browse(path)
  BY <1>2, SendsKeep
<1>3. CASE Dispatch
  BY <1>3, DispatchKeeps
<1>4. CASE Serve \/ SettlePromise
  BY <1>4, AnswersKeep
<1>5. CASE UNCHANGED publicVars
  <2>1. site' = site /\ probes' = probes /\ passage' = passage
    BY <1>5 DEF publicVars
  <2>2. /\ AllProbed' = AllProbed /\ ProbesKept' /\ Entries' = Entries
        /\ BasePathOk' = BasePathOk /\ Asked' = Asked
        /\ KnownRequest => KnownRequest'
        /\ \A i : Rewritten(i)' = Rewritten(i) /\ Said(i)' = Said(i)
        /\ \A i, path : (Innermost(i, path)' <=> Innermost(i, path)) /\ (Redirects(i, path)' <=> Redirects(i, path))
    BY <2>1, SameSite, SameDocuments, SameRequest DEF PublicInv
  <2>3. \A i \in DOMAIN Entries : OnItsWay(i) => OnItsWay(i)'
    BY <2>1, <2>2 DEF OnItsWay
  <2> QED
    BY <2>1, <2>2, <2>3 DEF PublicInv, PassageKept
<1> QED
  BY <1>1, <1>2, <1>3, <1>4, <1>5 DEF PublicNext

-----------------------------------------------------------------------------
(* What the invariant says of the public surface. *)

LEMMA FindsDocuments ==
  PublicInv => DocumentsFound
<1> SUFFICES ASSUME PublicInv, NEW i \in DOMAIN probes, Findable(i)
             PROVE  /\ probes[i].state # "unavailable"
                    /\ AllProbed => probes[i].state = "found"
  BY DEF DocumentsFound, Findable
<1>1. probes[i].state \in {"pending", "found"}
  BY DEF PublicInv, ProbesKept
<1> QED
  BY <1>1 DEF AllProbed

LEMMA AsksPath ==
  ASSUME site \in Sites, passage.request.url \in Path
  PROVE  Asked \in Path
BY OptionsFacts, StripsToPath DEF Asked

LEMMA FindsPages ==
  PublicInv => PagesReachTheApp
<1> SUFFICES ASSUME PublicInv, passage.stage = "answered", passage.request.by = "browser",
                    NEW i \in DOMAIN Entries, Entries[i].kind = "web", Agrees(i), OwnPath(i, Asked),
                    "api" \in DOMAIN AppOf(i) => ~Under(Asked, MountOf(i))
             PROVE  passage.answer.by = "page" /\ passage.answer.path = Landing(i, Asked)
  BY DEF PagesReachTheApp, AppOf, MountOf
<1>1. site \in Sites /\ KnownRequest /\ OnItsWay(i)
  BY DEF PublicInv, PassageKept
<1>2. passage.request.url \in Path
  BY <1>1, PiecesAssumption DEF KnownRequest, Path
<1>3. Innermost(i, Asked) /\ BasePathOk
  BY DEF OwnPath, Agrees, BasePathOk
<1>4. passage.answer = Said(i)
  BY <1>1, <1>2, <1>3 DEF OnItsWay
<1>5. Rewritten(i) = Landing(i, Asked)
  BY DEF Rewritten, RewrittenPath, Agrees
<1>6. Said(i) = Framework(AppOf(i), Landing(i, Asked))
  BY <1>1, <1>2, <1>5, AsksPath, AppPages DEF Said
<1>7. Framework(AppOf(i), Landing(i, Asked)).by = "page"
      /\ Framework(AppOf(i), Landing(i, Asked)).path = Landing(i, Asked)
  BY DEF Framework, Answer
<1> QED
  BY <1>4, <1>6, <1>7

\* The mount under which the operations of an entry are published.
LEMMA PublishedMount ==
  ASSUME NoRootApi, PublicInv, NEW i \in DOMAIN Entries, Agrees(i), probes[i].state = "found"
  PROVE  /\ MountOf(i) \in Path /\ ValidMount(MountOf(i)) /\ ToSet(MountOf(i)) \intersect Parameters = {}
         /\ Entries[i].kind = "web" => "api" \in DOMAIN AppOf(i) /\ MountOf(i) # Slash
         /\ HasRoutes(AppOf(i)) /\ Routes(AppOf(i)) = ServiceOf(Entries[i])
<1>1. site \in Sites /\ Listed(Entries[i]) /\ Entries[i].kind \in {"service", "web"}
  BY EntryFacts DEF PublicInv, ProbesKept
<1>2. CASE Entries[i].kind = "service"
  <2>1. MountOf(i) = Entries[i].mount
    BY <1>2 DEF MountOf, PublicMount
  <2>2. ToSet(Entries[i].mount) \intersect Parameters = {} /\ ~IsApp(AppOf(i))
    BY <1>2 DEF Agrees, Plainly, AppOf
  <2> QED
    BY <2>1, <2>2, <1>1, <1>2, EntryFacts DEF HasRoutes, ServiceOf, AppOf
<1>3. CASE Entries[i].kind = "web"
  <2>1. "api" \in DOMAIN Entries[i]
    BY <1>1, <1>3 DEF Listed
  <2>2. "api" \in DOMAIN AppOf(i)
    BY <2>1, <1>3 DEF Agrees, AppOf
  <2>3. ~(Entries[i].mount = Slash /\ ApiMount(Entries[i]) = Slash)
    BY <1>1, <1>3, <2>1 DEF NoRootApi, Entries, Register, ApiMount
  <2>4. /\ MountOf(i) \in Path /\ ValidMount(MountOf(i)) /\ ToSet(MountOf(i)) \intersect Parameters = {}
        /\ MountOf(i) # Slash /\ HasRoutes(AppOf(i))
    BY <1>1, <1>3, <2>2, <2>3, ApiOfApp
  <2> QED
    BY <2>2, <2>4 DEF ServiceOf, AppOf
<1> QED
  BY <1>1, <1>2, <1>3

LEMMA RoutesFacts ==
  ASSUME site \in Sites, NEW name \in DOMAIN site.workers, HasRoutes(site.workers[name]),
         NEW routes, routes = Routes(site.workers[name]).routes, NEW service, service = Routes(site.workers[name]),
         NEW l \in DOMAIN routes
  PROVE  l \in Nat /\ Rooted(Registered(service, l))
<1>1. l \in Nat /\ Registered(service, l) \in Path /\ Registered(service, l) # <<>>
      /\ Registered(service, l)[1] = "/"
  BY SitesAssumption DEF Path
<1>2. \A p \in Path : p # <<>> => Len(p) >= 1
  <2> SUFFICES ASSUME NEW p \in Path, p # <<>> PROVE Len(p) >= 1
    OBVIOUS
  <2> QED
    BY PathLength, EmptySeq DEF Path
<1> QED
  BY <1>1, <1>2 DEF Rooted

LEMMA InDocument ==
  ASSUME NEW i \in DOMAIN probes, probes[i].state = "found",
         NEW service, service = ServiceOf(Entries[i]), NEW l \in DOMAIN service.routes
  PROVE  [entry |-> i, route |-> l, method |-> service.routes[l].method,
          path |-> PublicPath(MountOf(i), Registered(service, l))] \in Document
<1> DEFINE found == {j \in DOMAIN probes : probes[j].state = "found"}
           published(j) ==
             {[entry |-> j, route |-> k, method |-> ServiceOf(Entries[j]).routes[k].method,
               path |-> PublicPath(MountOf(j), Registered(ServiceOf(Entries[j]), k))] :
                k \in DOMAIN ServiceOf(Entries[j]).routes}
<1>1. Document = UNION {published(j) : j \in found}
  BY DEF Document, MountOf
<1>2. i \in found
  OBVIOUS
<1>3. [entry |-> i, route |-> l, method |-> service.routes[l].method,
       path |-> PublicPath(MountOf(i), Registered(service, l))] \in published(i)
  OBVIOUS
<1> HIDE DEF found, published
<1> QED
  BY <1>1, <1>2, <1>3

LEMMA OnePiece ==
  ASSUME NEW S, NEW e \in Seq(S), e # <<>>, Len(e) <= 1
  PROVE  \E x \in S : e = <<x>>
<1>1. Len(e) \in Nat /\ Len(e) # 0
  BY EmptySeq, LenProperties
<1>2. Len(e) = 1 /\ 1 \in 1 .. Len(e)
  <2>1. \A n \in Nat : n # 0 /\ n <= 1 => n = 1
    OBVIOUS
  <2>2. Len(e) = 1
    BY ONLY <2>1, <1>1, Len(e) <= 1
  <2> QED
    BY <2>2
<1>3. e[1] \in S
  BY <1>2, ElementOfSeq
<1> DEFINE x == e[1]
<1>4. <<x>> \in Seq(S) /\ Len(<<x>>) = 1 /\ <<x>>[1] = x
  BY <1>3
<1>5. e = <<x>>
  BY <1>2, <1>4, SeqEqual
<1> QED
  BY <1>3, <1>5

LEMMA RunsOperations ==
  ASSUME NoRootApi
  PROVE  PublicInv => OperationsReachTheirRoute
<1> SUFFICES ASSUME PublicInv, passage.stage = "settled",
                    NEW op, op = passage.request.op, NEW value, value = passage.request.value,
                    Agrees(op.entry), Asked = passage.request.url,
                    ToSet(op.path) \intersect Parameters # {} => Encode[value] # <<>>,
                    OwnPath(op.entry, Asked), Unambiguous(op, Asked)
             PROVE  OperationServed
  BY DEF OperationsReachTheirRoute
<1> DEFINE i == op.entry
           k == op.route
           service == ServiceOf(Entries[i])
           template == Registered(service, k)
           url == passage.request.url
<1>1. /\ site \in Sites /\ passage.request.by = "client" /\ passage.outcome = Outcome(passage.answer)
      /\ op \in Document /\ value \in Values /\ passage.request.method = op.method
      /\ url = Fill(op.path, value)
  BY DEF PublicInv, PassageKept, KnownRequest
<1>2. /\ i \in DOMAIN probes /\ probes[i].state = "found" /\ k \in DOMAIN service.routes
      /\ op = [entry |-> i, route |-> k, method |-> service.routes[k].method,
               path |-> PublicPath(MountOf(i), template)]
  BY <1>1 DEF Document, MountOf
<1>3. i \in DOMAIN Entries
  BY <1>2 DEF PublicInv, ProbesKept
<1> DEFINE m == MountOf(i)
<1>4. /\ m \in Path /\ ValidMount(m) /\ ToSet(m) \intersect Parameters = {}
      /\ Entries[i].kind = "web" => "api" \in DOMAIN AppOf(i) /\ m # Slash
      /\ HasRoutes(AppOf(i)) /\ Routes(AppOf(i)) = service
  BY <1>2, <1>3, PublishedMount
<1>5. /\ DOMAIN service.routes \subseteq Nat
      /\ \A l \in DOMAIN service.routes : Rooted(Registered(service, l))
  <2>1. Entries[i].name \in DOMAIN site.workers /\ AppOf(i) = site.workers[Entries[i].name]
    BY DEF Agrees, AppOf, Worker
  <2> HIDE DEF service
  <2>2. \A l \in DOMAIN service.routes : l \in Nat /\ Rooted(Registered(service, l))
    BY <2>1, <1>1, <1>4, RoutesFacts
  <2> QED
    BY <2>2
<1> HIDE DEF service, template
<1>6. op.path = PublicPath(m, template) /\ op.method = service.routes[k].method /\ Rooted(template)
  BY <1>2, <1>5 DEF template
<1>7. op.path \in Path
  BY <1>4, <1>6, BelowFacts
<1>8. \E x \in Pieces : /\ x # "/"
                        /\ ToSet(op.path) \intersect Parameters # {} => Encode[value] = <<x>>
  <2>1. CASE ToSet(op.path) \intersect Parameters = {}
    BY <2>1, PiecesAssumption
  <2>2. CASE ToSet(op.path) \intersect Parameters # {}
    <3> DEFINE e == Encode[value]
    <3>1. e \in Seq(Pieces \ {"/"}) /\ Len(e) <= 1 /\ e # <<>>
      BY <2>2, <1>1, PiecesAssumption
    <3> HIDE DEF e
    <3>2. \E x \in Pieces \ {"/"} : e = <<x>>
      BY <3>1, OnePiece
    <3> QED
      BY <3>2 DEF e
  <2> QED
    BY <2>1, <2>2
<1>9. PICK x \in Pieces : /\ x # "/"
                          /\ ToSet(op.path) \intersect Parameters # {} => Encode[value] = <<x>>
  BY <1>8
<1>10. Filled(op.path, url, x)
  <2>1. \A n \in 1 .. Len(op.path) : op.path[n] \in Parameters => Encode[value] = <<x>>
    BY <1>7, <1>9, PathLength DEF ToSet
  <2>2. Filled(op.path, Substituted(op.path, Encode[value])[Len(op.path)], x)
    BY <2>1, <1>7, SubstitutedFacts
  <2> QED
    BY <2>2, <1>1 DEF Fill
<1>11. PICK inner : Rooted(inner) /\ Filled(template, inner, x) /\ url = PublicPath(m, inner)
  BY <1>4, <1>6, <1>9, <1>10, FilledBelow
<1>12. inner # service.document /\ inner # HealthPath
  BY <1>4, <1>11 DEF OwnPath, AppOf, MountOf
<1>13. \A l \in DOMAIN service.routes \ {k} :
         service.routes[l].method = service.routes[k].method => ~MatchesTemplate(Registered(service, l), inner)
  <2> SUFFICES ASSUME NEW l \in DOMAIN service.routes, l # k,
                      service.routes[l].method = service.routes[k].method,
                      MatchesTemplate(Registered(service, l), inner)
               PROVE  FALSE
    OBVIOUS
  <2> DEFINE other == [entry |-> i, route |-> l, method |-> service.routes[l].method,
                       path |-> PublicPath(m, Registered(service, l))]
  <2>1. other \in Document
    BY <1>2, InDocument DEF service
  <2>2. other # op /\ other.method = op.method
    BY <1>6
  <2>3. MatchesTemplate(other.path, url)
    BY <1>4, <1>5, <1>11, MatchesBelow
  <2> QED
    BY <2>1, <2>2, <2>3 DEF Unambiguous
<1>14. ServiceFetch(service, op.method, inner) = Handle(service, k, inner)
  BY <1>2, <1>5, <1>6, <1>9, <1>11, <1>12, <1>13, ServiceServes DEF template
<1>15. passage.answer = Handle(service, k, inner)
  <2>1. passage.answer = Said(i)
    <3>1. BasePathOk /\ url \in Path /\ Innermost(i, Asked)
      BY <1>10 DEF Agrees, BasePathOk, Filled, OwnPath
    <3> QED
      BY <3>1, <1>3 DEF PublicInv, PassageKept, OnItsWay
  <2>2. Said(i) = ServiceFetch(service, op.method, inner)
    <3>1. WorkerFetch(AppOf(i), op.method, RewrittenPath(Landing(i, Asked), Entries[i])) = ServiceFetch(service, op.method, inner)
      BY <1>1, <1>3, <1>4, <1>11, EntryServes DEF service
    <3> QED
      BY <3>1, <1>1 DEF Said, Rewritten
  <2> QED
    BY <2>1, <2>2, <1>14
<1> DEFINE valid == \A p \in Passed(op, value) : ToSet(p) \subseteq service.routes[k].accepts
<1>16. {inner[j] : j \in {j \in DOMAIN inner : template[j] \in Parameters}} \subseteq service.routes[k].accepts
         <=> valid
  <2>1. ToSet(op.path) \intersect Parameters = ToSet(template) \intersect Parameters
    BY <1>4, <1>6, PublishedParameters
  <2>2. template \in Path /\ Filled(template, inner, x)
    BY <1>6, <1>11 DEF Rooted
  <2> DEFINE accepts == service.routes[k].accepts
  <2> HIDE DEF accepts
  <2>3. {inner[j] : j \in {j \in DOMAIN inner : template[j] \in Parameters}} \subseteq accepts
          <=> \A p \in Passed(op, value) : ToSet(p) \subseteq accepts
    BY <2>1, <2>2, <1>9, PassedAgree
  <2> QED
    BY <2>3 DEF accepts
<1> HIDE DEF valid
<1>17. LET answer == Handle(service, k, inner)
       IN  /\ answer.by = "route" /\ answer.worker = service.name /\ answer.route = k
           /\ answer.code = IF valid THEN service.routes[k].result ELSE "VALIDATION_ERROR"
           /\ answer.ok <=> answer.code = "none"
  BY <1>16, HandleTells DEF template
<1>18. passage.outcome = IF ~valid THEN "VALIDATION_ERROR"
                         ELSE IF service.routes[k].result = "none" THEN "resolved"
                         ELSE service.routes[k].result
  BY <1>1, <1>15, <1>17 DEF Outcome
<1> QED
  BY <1>15, <1>17, <1>18 DEF OperationServed, service, valid

\* Every document of a Worker that agrees with its registration is found, every
\* published operation runs the route that published it and tells its caller how
\* that ended, and every other path of an app is left to its framework: for any
\* gateway that has no app with both itself and its API at the root.
THEOREM PublicSurfaceHolds ==
  ASSUME NoRootApi
  PROVE  PublicSpec => []ServedAsDocumented
<1>1. PublicInit => PublicInv
  BY PublicInitKeeps
<1>2. PublicInv /\ [PublicNext]_publicVars => PublicInv'
  BY PublicNextKeeps
<1>3. PublicInv => ServedAsDocumented
  BY FindsDocuments, FindsPages, RunsOperations DEF ServedAsDocumented
<1> QED
  BY <1>1, <1>2, <1>3, PTL DEF PublicSpec

=============================================================================
