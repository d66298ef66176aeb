------------------------ MODULE ChunkBoundaries_proofs ------------------------
(***************************************************************************)
(* Proofs about ChunkBoundaries, for all documents, all ways planning may  *)
(* divide them into chunks, and every limit.                               *)
(***************************************************************************)
EXTENDS ChunkBoundaries, SequenceTheorems, FiniteSetTheorems, Induction, TLAPS

-----------------------------------------------------------------------------
(* What the folds make *)

Item == [unit : Nat, rows : Seq(Nat \ {0})]
Key == Nat \X Nat

\* The step of Pieces.
PutPiece(s, cuts, ps, i) ==
    IF ps = <<>> \/ i \in cuts THEN Append(ps, <<s[i]>>)
    ELSE Append(Front(ps), Append(Last(ps), s[i]))

LEMMA LastPart ==
    ASSUME NEW S, NEW gs \in Seq(S), gs # <<>>
    PROVE  /\ Front(gs) \in Seq(S) /\ Last(gs) \in S /\ Len(Front(gs)) = Len(gs) - 1
           /\ Len(gs) \in Nat \ {0} /\ gs = Append(Front(gs), Last(gs))
           /\ gs = Front(gs) \o <<Last(gs)>>
<1>1. Len(gs) \in Nat \ {0}
  BY EmptySeq
<1>2. PICK t \in Seq(S), e \in S : gs = Append(t, e)
  BY SequenceEmptyOrAppend
<1>3. Len(gs) = Len(t) + 1 /\ gs[Len(t) + 1] = e /\ SubSeq(gs, 1, Len(t)) = t /\ Len(t) \in Nat
  BY <1>2
<1>4. Front(gs) = t /\ Last(gs) = e
  BY <1>1, <1>3 DEF Front, Last
<1> QED BY <1>1, <1>2, <1>3, <1>4

MakesPieces(p, S, s, cuts) ==
    /\ p \in [0..Len(s) -> Seq(Seq(S))]
    /\ p[0] = <<>>
    /\ \A k \in 1..Len(s) : p[k] = PutPiece(s, cuts, p[k - 1], k)
    /\ Pieces(s, cuts) = p[Len(s)]

LEMMA PiecesSteps ==
    ASSUME NEW S, NEW s \in Seq(S), NEW cuts
    PROVE  \E p : MakesPieces(p, S, s, cuts)
<1> DEFINE n == Len(s)  V == Seq(Seq(S))
           step == [k \in 1..n |-> [ps \in V |-> PutPiece(s, cuts, ps, k)]]
<1>0. n \in Nat /\ DOMAIN s = 1..n /\ \A k \in 1..n : s[k] \in S
  OBVIOUS
<1>1. ASSUME NEW k \in 1..n, NEW ps \in V PROVE PutPiece(s, cuts, ps, k) \in V
  <2>1. <<s[k]>> \in Seq(S) /\ s[k] \in S
    BY <1>0
  <2>2. CASE ps = <<>> \/ k \in cuts
    BY <2>1, <2>2, AppendProperties DEF PutPiece
  <2>3. CASE ~(ps = <<>> \/ k \in cuts)
    <3>1. Front(ps) \in Seq(Seq(S)) /\ Last(ps) \in Seq(S)
      BY <2>3, LastPart
    <3>2. Append(Last(ps), s[k]) \in Seq(S)
      BY <2>1, <3>1, AppendProperties
    <3>3. Append(Front(ps), Append(Last(ps), s[k])) \in Seq(Seq(S))
      BY <3>1, <3>2, AppendProperties
    <3> QED BY <2>3, <3>3 DEF PutPiece
  <2> QED BY <2>2, <2>3
<1>2. <<>> \in V /\ step \in FoldSteps(n, V)
  BY <1>1 DEF FoldSteps
<1>3. PICK f : FoldsSets(f, n, V, <<>>, step)
  <2> HIDE DEF step, n, V
  <2> QED BY <1>0, <1>2, SetsFold
<1> DEFINE ix == [i \in DOMAIN s |-> i]
           eq(h) == [t \in SUBSET (DOMAIN ix) |->
                        IF t = {} THEN <<>> ELSE PutPiece(s, cuts, h[t \ {Max(t)}], ix[Max(t)])]
           h == CHOOSE h : h = eq(h)
<1>4. DOMAIN ix = 1..n /\ \A i \in 1..n : ix[i] = i
  BY <1>0
<1>5. Pieces(s, cuts) = h[DOMAIN ix]
  BY DEF Pieces, FoldLeftDomain, FoldLeft, MapThenFoldSet, PutPiece
<1> HIDE DEF ix
<1>6. f = eq(f)
  <2>1. f \in [SUBSET (1..n) -> V]
    BY <1>3 DEF FoldsSets
  <2>2. ASSUME NEW t \in SUBSET (1..n), t # {}
        PROVE  step[Max(t)][f[t \ {Max(t)}]] = PutPiece(s, cuts, f[t \ {Max(t)}], ix[Max(t)])
    <3>1. Max(t) \in 1..n
      <4> HIDE DEF n
      <4> QED BY <1>0, <2>2, MaxIn
    <3>2. f[t \ {Max(t)}] \in V
      BY <2>1
    <3> QED BY <1>4, <3>1, <3>2
  <2>3. f = [t \in SUBSET (1..n) |-> IF t = {} THEN <<>> ELSE step[Max(t)][f[t \ {Max(t)}]]]
    BY <1>3 DEF FoldsSets
  <2> HIDE DEF step, n, V
  <2> QED BY <1>4, <2>2, <2>3
<1>7. h = eq(h)
  <2> HIDE DEF eq
  <2> QED BY <1>6
<1> HIDE DEF h
<1>8. \A t \in SUBSET (1..n) : h[t] = IF t = {} THEN <<>> ELSE PutPiece(s, cuts, h[t \ {Max(t)}], ix[Max(t)])
  <2> HIDE DEF n
  <2> QED BY <1>4, <1>7
<1>9. h[{}] = <<>>
  <2>1. {} \in SUBSET (1..n)
    OBVIOUS
  <2> QED BY <1>8, <2>1
<1>10. ASSUME NEW k \in 1..n, h[1..k - 1] \in V
       PROVE  /\ h[1..k] = PutPiece(s, cuts, h[1..k - 1], k)
              /\ h[1..k] = step[k][h[1..k - 1]]
  <2>1. 1..k \in SUBSET (1..n) /\ 1..k # {} /\ 1..k \ {k} = 1..k - 1 /\ Max(1..k) = k
    <3> HIDE DEF n, V, h
    <3> QED BY <1>0, UptoLast
  <2>3. h[1..k] = PutPiece(s, cuts, h[1..k - 1], k)
    <3> HIDE DEF n
    <3> QED BY <1>4, <1>8, <2>1
  <2>4. step[k][h[1..k - 1]] = PutPiece(s, cuts, h[1..k - 1], k)
    <3> HIDE DEF n, V
    <3> QED BY <1>10
  <2> QED BY <2>3, <2>4
<1> DEFINE p == [k \in 0..n |-> h[1..k]]
<1>11. FoldTrace(p, n, V, <<>>, step)
  <2> HIDE DEF step, n, V
  <2>1. PrefixFold(h, n, V, <<>>, step)
    BY <1>0, <1>2, <1>9, <1>10 DEF PrefixFold
  <2> QED BY ONLY <2>1, FoldPrefixes
<1>12. p \in [0..n -> V] /\ p[0] = <<>>
  <2> HIDE DEF p, n, V, step
  <2> QED BY <1>11 DEF FoldTrace
<1>13. ASSUME NEW k \in 1..n PROVE p[k] = PutPiece(s, cuts, p[k - 1], k)
  <2>1. k \in 0..n /\ k - 1 \in 0..n
    BY <1>0
  <2>2. h[1..k - 1] \in V /\ p[k] = h[1..k] /\ p[k - 1] = h[1..k - 1]
    <3> HIDE DEF n, V
    <3> QED BY <1>12, <2>1
  <2> QED BY <1>10, <2>2
<1>14. p[n] = h[DOMAIN ix]
  BY <1>0, <1>4
<1> HIDE DEF p
<1> QED BY <1>5, <1>12, <1>13, <1>14 DEF MakesPieces

-----------------------------------------------------------------------------
(* Evidence as sequences of keys *)

Chunk ==
    [items : Seq(Item), wrote : Seq(Key), notes : SUBSET Nat,
     oversize : BOOLEAN, fallback : BOOLEAN, flagged : BOOLEAN]
ItemKeys == [item \in Item |-> Keys(item)]
ChunkKeys == [c \in Chunk |-> KeysOf(c.items)]

LEMMA KeysOfItem ==
    ASSUME NEW item \in Item
    PROVE  /\ Keys(item) \in Seq(Key) /\ Keys(item) # <<>>
           /\ item.rows = <<>> => Keys(item) = << <<item.unit, 0>> >>
           /\ item.rows # <<>> => /\ Len(Keys(item)) = Len(item.rows)
                                  /\ \A i \in 1..Len(item.rows) : Keys(item)[i] = <<item.unit, item.rows[i]>>
<1> DEFINE rows == item.rows  u == item.unit
<1>1. rows \in Seq(Nat \ {0}) /\ u \in Nat
  BY DEF Item
<1>2. CASE rows = <<>>
  <2>1. <<u, 0>> \in Nat \X Nat
    BY <1>1
  <2>2. << <<u, 0>> >> \in Seq(Key)
    BY <2>1 DEF Key
  <2> QED BY <1>2, <2>2 DEF Keys
<1>3. CASE rows # <<>>
  <2> DEFINE ks == [i \in DOMAIN rows |-> <<u, rows[i]>>]
  <2>1. Keys(item) = ks
    BY <1>3 DEF Keys
  <2>2. Len(rows) \in Nat \ {0} /\ DOMAIN rows = 1..Len(rows) /\ \A i \in 1..Len(rows) : rows[i] \in Nat
    BY <1>1, <1>3
  <2> HIDE DEF rows, u
  <2>3. \A i \in 1..Len(rows) : <<u, rows[i]>> \in Nat \X Nat
    BY <1>1, <2>2
  <2>4. ks \in Seq(Nat \X Nat) /\ Len(ks) = Len(rows) /\ \A i \in 1..Len(rows) : ks[i] = <<u, rows[i]>>
    BY <2>2, <2>3
  <2>5. ks # <<>>
    BY <2>2, <2>4
  <2> HIDE DEF ks
  <2> QED BY <1>3, <2>1, <2>4, <2>5 DEF Key, rows, u
<1> QED BY <1>2, <1>3

LEMMA KeysFlat ==
    /\ ItemKeys \in SequenceMaps(Item, Key)
    /\ \A held \in Seq(Item) : KeysOf(held) = MapFlat(ItemKeys, held) /\ KeysOf(held) \in Seq(Key)
<1>1. ItemKeys \in SequenceMaps(Item, Key) /\ \A item \in Item : ItemKeys[item] = Keys(item)
  BY KeysOfItem DEF ItemKeys, SequenceMaps
<1>2. ASSUME NEW held \in Seq(Item)
      PROVE  KeysOf(held) = MapFlat(ItemKeys, held) /\ KeysOf(held) \in Seq(Key)
  <2>1. \A i \in DOMAIN held : held[i] \in Item
    OBVIOUS
  <2>2. [i \in DOMAIN held |-> Keys(held[i])] = [i \in DOMAIN held |-> ItemKeys[held[i]]]
    BY <1>1, <2>1
  <2>3. KeysOf(held) = MapFlat(ItemKeys, held)
    BY <2>2 DEF KeysOf, MapFlat
  <2>4. \A s \in Seq(Item) : MapFlat(ItemKeys, s) \in Seq(Key)
    BY <1>1, MapFlatAppends
  <2> QED BY <2>3, <2>4
<1> QED BY <1>1, <1>2

LEMMA ChunkKeysFlat ==
    /\ ChunkKeys \in SequenceMaps(Chunk, Key) /\ \A c \in Chunk : ChunkKeys[c] = KeysOf(c.items)
    /\ \A cs \in Seq(Chunk) : AllKeys(cs) = MapFlat(ChunkKeys, cs) /\ AllKeys(cs) \in Seq(Key)
<1>1. ChunkKeys \in SequenceMaps(Chunk, Key) /\ \A c \in Chunk : ChunkKeys[c] = KeysOf(c.items)
  <2>1. \A c \in Chunk : c.items \in Seq(Item)
    BY DEF Chunk
  <2>2. \A c \in Chunk : KeysOf(c.items) \in Seq(Key)
    BY <2>1, KeysFlat
  <2> QED BY <2>2 DEF ChunkKeys, SequenceMaps
<1>2. ASSUME NEW cs \in Seq(Chunk)
      PROVE  AllKeys(cs) = MapFlat(ChunkKeys, cs) /\ AllKeys(cs) \in Seq(Key)
  <2>1. \A i \in DOMAIN cs : cs[i] \in Chunk
    OBVIOUS
  <2>2. [i \in DOMAIN cs |-> KeysOf(cs[i].items)] = [i \in DOMAIN cs |-> ChunkKeys[cs[i]]]
    BY <1>1, <2>1
  <2>3. AllKeys(cs) = MapFlat(ChunkKeys, cs)
    BY <2>2 DEF AllKeys, MapFlat
  <2>4. \A s \in Seq(Chunk) : MapFlat(ChunkKeys, s) \in Seq(Key)
    BY <1>1, MapFlatAppends
  <2> QED BY <2>3, <2>4
<1> QED BY <1>1, <1>2

\* Keys of one, of two after each other, and of none.
LEMMA KeysJoin ==
    /\ KeysOf(<<>>) = <<>>
    /\ \A a \in Item : KeysOf(<<a>>) = Keys(a)
    /\ \A s, t \in Seq(Item) : s \o t \in Seq(Item) /\ KeysOf(s \o t) = KeysOf(s) \o KeysOf(t)
    /\ \A s \in Seq(Item) : ToSet(KeysOf(s)) = UNION {ToSet(Keys(a)) : a \in ToSet(s)}
<1>0. /\ ItemKeys \in SequenceMaps(Item, Key)
      /\ \A held \in Seq(Item) : KeysOf(held) = MapFlat(ItemKeys, held)
      /\ \A a \in Item : ItemKeys[a] = Keys(a)
  BY KeysFlat DEF ItemKeys
<1>1. KeysOf(<<>>) = <<>>
  <2>1. MapFlat(ItemKeys, <<>>) = <<>>
    BY <1>0, MapFlatAppends
  <2>2. <<>> \in Seq(Item)
    OBVIOUS
  <2> QED BY <1>0, <2>1, <2>2
<1>2. ASSUME NEW a \in Item PROVE KeysOf(<<a>>) = Keys(a)
  <2>1. MapFlat(ItemKeys, <<a>>) = ItemKeys[a]
    BY <1>0, MapFlatOne
  <2>2. <<a>> \in Seq(Item)
    OBVIOUS
  <2> QED BY <1>0, <2>1, <2>2
<1>3. ASSUME NEW s \in Seq(Item), NEW t \in Seq(Item)
      PROVE  s \o t \in Seq(Item) /\ KeysOf(s \o t) = KeysOf(s) \o KeysOf(t)
  <2>0. ItemKeys \in SequenceMaps(Item, Key)
    BY <1>0
  <2>1. MapFlat(ItemKeys, s \o t) = MapFlat(ItemKeys, s) \o MapFlat(ItemKeys, t)
    BY <2>0, MapFlatConcat
  <2>2. s \o t \in Seq(Item)
    OBVIOUS
  <2> QED BY <1>0, <2>1, <2>2
<1>4. ASSUME NEW s \in Seq(Item) PROVE ToSet(KeysOf(s)) = UNION {ToSet(Keys(a)) : a \in ToSet(s)}
  <2>0. ItemKeys \in SequenceMaps(Item, Key)
    BY <1>0
  <2>1. ToSet(MapFlat(ItemKeys, s)) = UNION {ToSet(ItemKeys[a]) : a \in ToSet(s)}
    BY <2>0, MapFlatHolds
  <2>2. \A a \in ToSet(s) : a \in Item
    BY DEF ToSet
  <2> QED BY <1>0, <2>1, <2>2
<1> QED BY <1>1, <1>2, <1>3, <1>4

LEMMA AllKeysJoin ==
    /\ AllKeys(<<>>) = <<>>
    /\ \A c \in Chunk : AllKeys(<<c>>) = KeysOf(c.items)
    /\ \A s, t \in Seq(Chunk) : s \o t \in Seq(Chunk) /\ AllKeys(s \o t) = AllKeys(s) \o AllKeys(t)
    /\ \A s \in Seq(Chunk) : ToSet(AllKeys(s)) = UNION {ToSet(KeysOf(c.items)) : c \in ToSet(s)}
<1>0. /\ ChunkKeys \in SequenceMaps(Chunk, Key)
      /\ \A cs \in Seq(Chunk) : AllKeys(cs) = MapFlat(ChunkKeys, cs)
      /\ \A c \in Chunk : ChunkKeys[c] = KeysOf(c.items)
  BY ChunkKeysFlat
<1>1. AllKeys(<<>>) = <<>>
  <2>1. MapFlat(ChunkKeys, <<>>) = <<>>
    BY <1>0, MapFlatAppends
  <2>2. <<>> \in Seq(Chunk)
    OBVIOUS
  <2> QED BY <1>0, <2>1, <2>2
<1>2. ASSUME NEW c \in Chunk PROVE AllKeys(<<c>>) = KeysOf(c.items)
  <2>1. MapFlat(ChunkKeys, <<c>>) = ChunkKeys[c]
    BY <1>0, MapFlatOne
  <2>2. <<c>> \in Seq(Chunk)
    OBVIOUS
  <2> QED BY <1>0, <2>1, <2>2
<1>3. ASSUME NEW s \in Seq(Chunk), NEW t \in Seq(Chunk)
      PROVE  s \o t \in Seq(Chunk) /\ AllKeys(s \o t) = AllKeys(s) \o AllKeys(t)
  <2>0. ChunkKeys \in SequenceMaps(Chunk, Key)
    BY <1>0
  <2>1. MapFlat(ChunkKeys, s \o t) = MapFlat(ChunkKeys, s) \o MapFlat(ChunkKeys, t)
    BY <2>0, MapFlatConcat
  <2>2. s \o t \in Seq(Chunk)
    OBVIOUS
  <2> QED BY <1>0, <2>1, <2>2
<1>4. ASSUME NEW s \in Seq(Chunk)
      PROVE  ToSet(AllKeys(s)) = UNION {ToSet(KeysOf(c.items)) : c \in ToSet(s)}
  <2>0. ChunkKeys \in SequenceMaps(Chunk, Key)
    BY <1>0
  <2>1. ToSet(MapFlat(ChunkKeys, s)) = UNION {ToSet(ChunkKeys[c]) : c \in ToSet(s)}
    BY <2>0, MapFlatHolds
  <2>2. \A c \in ToSet(s) : c \in Chunk
    BY DEF ToSet
  <2> QED BY <1>0, <2>1, <2>2
<1> QED BY <1>1, <1>2, <1>3, <1>4

-----------------------------------------------------------------------------
(* Folds over items and chunks *)

\* The step of Groups.
PutInGroup(gs, item) ==
    IF gs = <<>> THEN << <<item>> >>
    ELSE IF CutsBefore(Last(gs), item) THEN Append(gs, <<item>>)
    ELSE Append(Front(gs), Append(Last(gs), item))

LEMMA GroupsSteps ==
    ASSUME NEW held \in Seq(Item)
    PROVE  \E p : /\ p \in [0..Len(held) -> Seq(Seq(Item))]
                  /\ p[0] = <<>>
                  /\ \A k \in 1..Len(held) : p[k] = PutInGroup(p[k - 1], held[k])
                  /\ Groups(held) = p[Len(held)]
<1> DEFINE n == Len(held)  V == Seq(Seq(Item))
           step == [k \in 1..n |-> [v \in V |-> PutInGroup(v, held[k])]]
           eq(h) == [t \in SUBSET (DOMAIN held) |->
                        IF t = {} THEN <<>> ELSE PutInGroup(h[t \ {Max(t)}], held[Max(t)])]
           h == CHOOSE h : h = eq(h)
           p == [k \in 0..n |-> h[1..k]]
<1>0. n \in Nat /\ DOMAIN held = 1..n
  OBVIOUS
<1>1. ASSUME NEW k \in 1..n, NEW v \in V PROVE PutInGroup(v, held[k]) \in V
  <2> DEFINE item == held[k]
  <2>1. item \in Item
    OBVIOUS
  <2> HIDE DEF item
  <2>2. <<item>> \in Seq(Item)
    BY <2>1
  <2>3. CASE v = <<>> \/ CutsBefore(Last(v), item)
    <3>1. Append(v, <<item>>) \in V /\ << <<item>> >> \in V
      BY <2>2, AppendProperties
    <3> QED BY <2>3, <3>1 DEF PutInGroup, item
  <2>4. CASE ~(v = <<>> \/ CutsBefore(Last(v), item))
    <3>1. Front(v) \in Seq(Seq(Item)) /\ Last(v) \in Seq(Item)
      BY <2>4, LastPart
    <3>2. Append(Last(v), item) \in Seq(Item)
      BY <2>1, <3>1, AppendProperties
    <3>3. Append(Front(v), Append(Last(v), item)) \in Seq(Seq(Item))
      BY <3>1, <3>2, AppendProperties
    <3> QED BY <2>4, <3>3 DEF PutInGroup, item
  <2> QED BY <2>3, <2>4
<1>2. <<>> \in V /\ step \in FoldSteps(n, V)
  BY <1>1 DEF FoldSteps
<1>3. PICK f : FoldsSets(f, n, V, <<>>, step)
  <2> HIDE DEF step, n, V
  <2> QED BY <1>0, <1>2, SetsFold
<1>4. Groups(held) = h[DOMAIN held]
  BY DEF Groups, FoldLeft, MapThenFoldSet, PutInGroup
<1>5. f = eq(f)
  <2>1. f \in [SUBSET (1..n) -> V]
    BY <1>3 DEF FoldsSets
  <2>2. ASSUME NEW t \in SUBSET (1..n), t # {}
        PROVE  step[Max(t)][f[t \ {Max(t)}]] = PutInGroup(f[t \ {Max(t)}], held[Max(t)])
    <3>1. Max(t) \in 1..n
      <4> HIDE DEF n
      <4> QED BY <1>0, <2>2, MaxIn
    <3>2. f[t \ {Max(t)}] \in V
      BY <2>1
    <3> QED BY <3>1, <3>2
  <2>3. f = [t \in SUBSET (1..n) |-> IF t = {} THEN <<>> ELSE step[Max(t)][f[t \ {Max(t)}]]]
    BY <1>3 DEF FoldsSets
  <2> HIDE DEF step, n, V
  <2> QED BY <1>0, <2>2, <2>3
<1>6. h = eq(h)
  <2> HIDE DEF eq
  <2> QED BY <1>5
<1> HIDE DEF h
<1>7. \A t \in SUBSET (1..n) :
          h[t] = IF t = {} THEN <<>> ELSE PutInGroup(h[t \ {Max(t)}], held[Max(t)])
  <2> HIDE DEF n
  <2> QED BY <1>0, <1>6
<1>8. h[{}] = <<>>
  <2>1. {} \in SUBSET (1..n)
    OBVIOUS
  <2> QED BY <1>7, <2>1
<1>9. ASSUME NEW k \in 1..n, h[1..k - 1] \in V
      PROVE  /\ h[1..k] = PutInGroup(h[1..k - 1], held[k])
             /\ h[1..k] = step[k][h[1..k - 1]]
  <2>1. 1..k \in SUBSET (1..n) /\ 1..k # {} /\ 1..k \ {k} = 1..k - 1 /\ Max(1..k) = k
    <3> HIDE DEF n, V, h
    <3> QED BY <1>0, UptoLast
  <2>2. h[1..k] = PutInGroup(h[1..k - 1], held[k])
    <3> HIDE DEF n
    <3> QED BY <1>7, <2>1
  <2>3. step[k][h[1..k - 1]] = PutInGroup(h[1..k - 1], held[k])
    <3> HIDE DEF n, V
    <3> QED BY <1>9
  <2> QED BY <2>2, <2>3
<1>10. FoldTrace(p, n, V, <<>>, step)
  <2> HIDE DEF step, n, V
  <2>1. PrefixFold(h, n, V, <<>>, step)
    BY <1>0, <1>2, <1>8, <1>9 DEF PrefixFold
  <2> QED BY ONLY <2>1, FoldPrefixes
<1>11. p \in [0..n -> V] /\ p[0] = <<>>
  <2> HIDE DEF p, n, V, step
  <2> QED BY <1>10 DEF FoldTrace
<1>12. ASSUME NEW k \in 1..n PROVE p[k] = PutInGroup(p[k - 1], held[k])
  <2>1. k \in 0..n /\ k - 1 \in 0..n
    BY <1>0
  <2>2. h[1..k - 1] \in V /\ p[k] = h[1..k] /\ p[k - 1] = h[1..k - 1]
    <3> HIDE DEF n, V
    <3> QED BY <1>11, <2>1
  <2> QED BY <1>9, <2>2
<1>13. p[n] = h[DOMAIN held]
  BY <1>0
<1> HIDE DEF p
<1> QED BY <1>4, <1>11, <1>12, <1>13

LEMMA MergedIs ==
    ASSUME NEW c \in Chunk, NEW d \in Chunk
    PROVE  /\ c.items \in Seq(Item) /\ d.items \in Seq(Item) /\ c.items \o d.items \in Seq(Item)
           /\ Merged(c, d) \in Chunk
<1>1. c.items \in Seq(Item) /\ d.items \in Seq(Item)
  BY DEF Chunk
<1>2. c.items \o d.items \in Seq(Item)
  BY <1>1
<1>3. KeysOf(c.items \o d.items) \in Seq(Key)
  BY <1>2, KeysFlat
<1>4. TooMany(c.items \o d.items) \in BOOLEAN
  BY DEF TooMany
<1> QED BY <1>1, <1>2, <1>3, <1>4 DEF Merged, Chunk

\* The step of Flushed.
Join(cs, c) ==
    IF cs = <<>> THEN <<c>>
    ELSE LET held == Last(cs).items \o c.items
         IN  IF TooMany(held) \/ Tokens(held) > Target THEN Append(cs, c)
             ELSE Append(Front(cs), Merged(Last(cs), c))

LEMMA JoinSteps ==
    ASSUME NEW cs \in Seq(Chunk)
    PROVE  \E p : /\ p \in [0..Len(cs) -> Seq(Chunk)]
                  /\ p[0] = <<>>
                  /\ \A k \in 1..Len(cs) : p[k] = Join(p[k - 1], cs[k])
                  /\ FoldLeft(Join, <<>>, cs) = p[Len(cs)]
<1> DEFINE n == Len(cs)  V == Seq(Chunk)
           step == [k \in 1..n |-> [v \in V |-> Join(v, cs[k])]]
           eq(h) == [t \in SUBSET (DOMAIN cs) |->
                        IF t = {} THEN <<>> ELSE Join(h[t \ {Max(t)}], cs[Max(t)])]
           h == CHOOSE h : h = eq(h)
           p == [k \in 0..n |-> h[1..k]]
<1>0. n \in Nat /\ DOMAIN cs = 1..n
  OBVIOUS
<1>1. ASSUME NEW k \in 1..n, NEW v \in V PROVE Join(v, cs[k]) \in V
  <2> DEFINE c == cs[k]
  <2>1. c \in Chunk
    OBVIOUS
  <2> HIDE DEF c
  <2>2. CASE v = <<>>
    BY <2>1, <2>2 DEF Join, c
  <2>3. CASE v # <<>>
    <3>1. Front(v) \in Seq(Chunk) /\ Last(v) \in Chunk
      BY <2>3, LastPart
    <3>2. Append(Front(v), Merged(Last(v), c)) \in Seq(Chunk) /\ Append(v, c) \in Seq(Chunk)
      BY <2>1, <3>1, MergedIs
    <3> QED BY <2>3, <3>2 DEF Join, c
  <2> QED BY <2>2, <2>3
<1>2. <<>> \in V /\ step \in FoldSteps(n, V)
  BY <1>1 DEF FoldSteps
<1>3. PICK f : FoldsSets(f, n, V, <<>>, step)
  <2> HIDE DEF step, n, V
  <2> QED BY <1>0, <1>2, SetsFold
<1>4. FoldLeft(Join, <<>>, cs) = h[DOMAIN cs]
  BY DEF FoldLeft, MapThenFoldSet, Join
<1>5. f = eq(f)
  <2>1. f \in [SUBSET (1..n) -> V]
    BY <1>3 DEF FoldsSets
  <2>2. ASSUME NEW t \in SUBSET (1..n), t # {}
        PROVE  step[Max(t)][f[t \ {Max(t)}]] = Join(f[t \ {Max(t)}], cs[Max(t)])
    <3>1. Max(t) \in 1..n
      <4> HIDE DEF n
      <4> QED BY <1>0, <2>2, MaxIn
    <3>2. f[t \ {Max(t)}] \in V
      BY <2>1
    <3> QED BY <3>1, <3>2
  <2>3. f = [t \in SUBSET (1..n) |-> IF t = {} THEN <<>> ELSE step[Max(t)][f[t \ {Max(t)}]]]
    BY <1>3 DEF FoldsSets
  <2> HIDE DEF step, n, V
  <2> QED BY <1>0, <2>2, <2>3
<1>6. h = eq(h)
  <2> HIDE DEF eq
  <2> QED BY <1>5
<1> HIDE DEF h
<1>7. \A t \in SUBSET (1..n) :
          h[t] = IF t = {} THEN <<>> ELSE Join(h[t \ {Max(t)}], cs[Max(t)])
  <2> HIDE DEF n
  <2> QED BY <1>0, <1>6
<1>8. h[{}] = <<>>
  <2>1. {} \in SUBSET (1..n)
    OBVIOUS
  <2> QED BY <1>7, <2>1
<1>9. ASSUME NEW k \in 1..n, h[1..k - 1] \in V
      PROVE  /\ h[1..k] = Join(h[1..k - 1], cs[k])
             /\ h[1..k] = step[k][h[1..k - 1]]
  <2>1. 1..k \in SUBSET (1..n) /\ 1..k # {} /\ 1..k \ {k} = 1..k - 1 /\ Max(1..k) = k
    <3> HIDE DEF n, V, h
    <3> QED BY <1>0, UptoLast
  <2>2. h[1..k] = Join(h[1..k - 1], cs[k])
    <3> HIDE DEF n
    <3> QED BY <1>7, <2>1
  <2>3. step[k][h[1..k - 1]] = Join(h[1..k - 1], cs[k])
    <3> HIDE DEF n, V
    <3> QED BY <1>9
  <2> QED BY <2>2, <2>3
<1>10. FoldTrace(p, n, V, <<>>, step)
  <2> HIDE DEF step, n, V
  <2>1. PrefixFold(h, n, V, <<>>, step)
    BY <1>0, <1>2, <1>8, <1>9 DEF PrefixFold
  <2> QED BY ONLY <2>1, FoldPrefixes
<1>11. p \in [0..n -> V] /\ p[0] = <<>>
  <2> HIDE DEF p, n, V, step
  <2> QED BY <1>10 DEF FoldTrace
<1>12. ASSUME NEW k \in 1..n PROVE p[k] = Join(p[k - 1], cs[k])
  <2>1. k \in 0..n /\ k - 1 \in 0..n
    BY <1>0
  <2>2. h[1..k - 1] \in V /\ p[k] = h[1..k] /\ p[k - 1] = h[1..k - 1]
    <3> HIDE DEF n, V
    <3> QED BY <1>11, <2>1
  <2> QED BY <1>9, <2>2
<1>13. p[n] = h[DOMAIN cs]
  BY <1>0
<1> HIDE DEF p
<1> QED BY <1>4, <1>11, <1>12, <1>13

-----------------------------------------------------------------------------
(* What is cut and put together again *)

\* The last of the parts grows by an element.
LEMMA Grown ==
    ASSUME NEW S, NEW gs \in Seq(Seq(S)), gs # <<>>, NEW e \in S
    PROVE  /\ Append(Front(gs), Append(Last(gs), e)) \in Seq(Seq(S))
           /\ FlattenSeq(Append(Front(gs), Append(Last(gs), e))) = FlattenSeq(gs) \o <<e>>
           /\ \A i \in 1..Len(gs) - 1 : Append(Front(gs), Append(Last(gs), e))[i] = gs[i]
           /\ Append(Front(gs), Append(Last(gs), e))[Len(gs)] = Append(Last(gs), e)
           /\ Len(Append(Front(gs), Append(Last(gs), e))) = Len(gs)
<1> DEFINE f == Front(gs)  l == Last(gs)
<1>1. /\ f \in Seq(Seq(S)) /\ l \in Seq(S) /\ Len(f) = Len(gs) - 1
      /\ Len(gs) \in Nat \ {0} /\ gs = Append(f, l)
  BY LastPart
<1>2. \A i \in 1..Len(gs) - 1 : f[i] = gs[i]
  BY <1>1 DEF Front
<1> HIDE DEF f, l
<1>3. Append(l, e) \in Seq(S) /\ Append(l, e) = l \o <<e>>
  BY <1>1
<1> DEFINE le == Append(l, e)
<1> HIDE DEF le
<1>4. /\ Append(f, le) \in Seq(Seq(S)) /\ Len(Append(f, le)) = Len(gs)
      /\ Append(f, le)[Len(gs)] = le
      /\ \A i \in 1..Len(gs) - 1 : Append(f, le)[i] = gs[i]
  BY <1>1, <1>2, <1>3 DEF le
<1>5. FlattenSeq(Append(f, le)) = FlattenSeq(gs) \o <<e>>
  <2>1. FlattenSeq(gs) = FlattenSeq(f) \o l /\ FlattenSeq(f) \in Seq(S)
    BY <1>1, FlattenAppend
  <2>2. FlattenSeq(Append(f, le)) = FlattenSeq(f) \o le
    BY <1>1, <1>3, FlattenAppend DEF le
  <2> DEFINE x == FlattenSeq(f)  z == <<e>>
  <2>3. x \in Seq(S) /\ z \in Seq(S) /\ l \in Seq(S)
    BY <1>1, <2>1
  <2>4. le = l \o z
    BY <1>3 DEF le
  <2> HIDE DEF x, z
  <2>5. (x \o l) \o z = x \o (l \o z)
    BY ONLY <2>3, ConcatAssociative, SMTT(30)
  <2> QED BY <2>1, <2>2, <2>4, <2>5 DEF x, z
<1> QED BY <1>4, <1>5 DEF f, l, le

\* Groups without a cut in them.
Parted(gs) ==
    \A i \in DOMAIN gs : /\ gs[i] # <<>>
                         /\ \A j \in 2..Len(gs[i]) : ~CutsBefore(SubSeq(gs[i], 1, j - 1), gs[i][j])

LEMMA PutInGroupRight ==
    ASSUME NEW gs \in Seq(Seq(Item)), Parted(gs), NEW item \in Item
    PROVE  /\ Parted(PutInGroup(gs, item))
           /\ FlattenSeq(PutInGroup(gs, item)) = FlattenSeq(gs) \o <<item>>
<1>1. <<item>> \in Seq(Item) /\ <<item>> # <<>> /\ Len(<<item>>) = 1
  OBVIOUS
<1>2. CASE gs = <<>> \/ CutsBefore(Last(gs), item)
  <2> DEFINE one == <<item>>
  <2>1. PutInGroup(gs, item) = Append(gs, one)
    <3>1. CASE gs = <<>>
      BY <3>1 DEF PutInGroup
    <3>2. CASE gs # <<>>
      BY <1>2, <3>2 DEF PutInGroup
    <3> QED BY <3>1, <3>2
  <2>2. one \in Seq(Item) /\ one # <<>> /\ Len(one) = 1
    BY <1>1
  <2> HIDE DEF one
  <2>3. /\ Len(Append(gs, one)) = Len(gs) + 1 /\ Append(gs, one)[Len(gs) + 1] = one
        /\ DOMAIN Append(gs, one) = 1..Len(gs) + 1 /\ DOMAIN gs = 1..Len(gs) /\ Len(gs) \in Nat
        /\ \A i \in 1..Len(gs) : Append(gs, one)[i] = gs[i]
    BY <2>2
  <2>4. FlattenSeq(Append(gs, one)) = FlattenSeq(gs) \o one
    BY <2>2, FlattenAppend
  <2> DEFINE tt == Append(gs, one)
  <2> HIDE DEF tt
  <2>5. ASSUME NEW i \in DOMAIN tt
        PROVE  /\ tt[i] # <<>>
               /\ \A j \in 2..Len(tt[i]) : ~CutsBefore(SubSeq(tt[i], 1, j - 1), tt[i][j])
    <3>1. CASE i \in 1..Len(gs)
      BY <2>3, <3>1 DEF Parted, tt
    <3>2. CASE i = Len(gs) + 1
      <4>1. tt[i] = one /\ 2..Len(one) = {}
        BY <2>2, <2>3, <3>2 DEF tt
      <4> QED BY <2>2, <4>1
    <3> QED BY <2>3, <3>1, <3>2 DEF tt
  <2> QED BY <2>1, <2>4, <2>5 DEF Parted, tt, one
<1>3. CASE ~(gs = <<>> \/ CutsBefore(Last(gs), item))
  <2> DEFINE l == Last(gs)  le == Append(l, item)  tt == Append(Front(gs), le)
  <2>1. PutInGroup(gs, item) = tt
    BY <1>3 DEF PutInGroup
  <2>2. /\ tt \in Seq(Seq(Item)) /\ FlattenSeq(tt) = FlattenSeq(gs) \o <<item>>
        /\ \A i \in 1..Len(gs) - 1 : tt[i] = gs[i]
        /\ tt[Len(gs)] = le /\ Len(tt) = Len(gs)
    BY <1>3, Grown
  <2>3. l \in Seq(Item) /\ Len(gs) \in Nat \ {0} /\ l = gs[Len(gs)] /\ ~CutsBefore(l, item)
    BY <1>3, LastPart DEF Last
  <2>4. DOMAIN tt = 1..Len(gs) /\ DOMAIN gs = 1..Len(gs)
    <3> HIDE DEF tt
    <3> QED BY <2>2
  <2> HIDE DEF l
  <2>5. /\ le # <<>> /\ Len(le) = Len(l) + 1 /\ le[Len(l) + 1] = item /\ SubSeq(le, 1, Len(l)) = l
        /\ Len(l) \in Nat
        /\ \A j \in 1..Len(l) : le[j] = l[j] /\ SubSeq(le, 1, j - 1) = SubSeq(l, 1, j - 1)
    <3>1. le = l \o <<item>> /\ le \in Seq(Item) /\ le # <<>> /\ Len(le) = Len(l) + 1 /\ le[Len(l) + 1] = item /\ Len(l) \in Nat
      BY <2>3, AppendProperties, AppendIsConcat
    <3>2. SubSeq(le, 1, Len(l)) = l
      BY <2>3
    <3>3. ASSUME NEW j \in 1..Len(l) PROVE le[j] = l[j] /\ SubSeq(le, 1, j - 1) = SubSeq(l, 1, j - 1)
      BY <2>3, <3>3
    <3> QED BY <3>1, <3>2, <3>3
  <2> HIDE DEF tt, le
  <2>6. ASSUME NEW i \in DOMAIN tt
        PROVE  /\ tt[i] # <<>>
               /\ \A j \in 2..Len(tt[i]) : ~CutsBefore(SubSeq(tt[i], 1, j - 1), tt[i][j])
    <3>1. CASE i \in 1..Len(gs) - 1
      BY <2>2, <2>3, <2>4, <3>1 DEF Parted
    <3>2. CASE i = Len(gs)
      <4>1. \A j \in 2..Len(l) : ~CutsBefore(SubSeq(l, 1, j - 1), l[j])
        BY <2>3, <2>4, <3>2 DEF Parted
      <4>2. ASSUME NEW j \in 2..Len(le) PROVE ~CutsBefore(SubSeq(le, 1, j - 1), le[j])
        <5>1. CASE j \in 1..Len(l)
          <6>1. j \in 2..Len(l)
            BY <5>1
          <6> QED BY <2>5, <4>1, <5>1, <6>1
        <5>2. CASE j = Len(l) + 1
          <6>1. j - 1 = Len(l)
            BY <2>5, <5>2
          <6> QED BY <2>3, <2>5, <5>2, <6>1
        <5> QED BY <2>5, <5>1, <5>2
      <4> QED BY <2>2, <2>5, <3>2, <4>2
    <3> QED BY <2>3, <2>4, <3>1, <3>2
  <2> QED BY <2>1, <2>2, <2>6 DEF Parted
<1> QED BY <1>2, <1>3

\* Groups cut the items where they are told to, and lose none.
LEMMA GroupsRight ==
    ASSUME NEW held \in Seq(Item)
    PROVE  /\ Groups(held) \in Seq(Seq(Item))
           /\ FlattenSeq(Groups(held)) = held
           /\ Parted(Groups(held))
<1> DEFINE n == Len(held)
<1>0. n \in Nat /\ \A k \in 1..n : held[k] \in Item
  OBVIOUS
<1>1. PICK p : /\ p \in [0..n -> Seq(Seq(Item))] /\ p[0] = <<>>
               /\ \A k \in 1..n : p[k] = PutInGroup(p[k - 1], held[k])
               /\ Groups(held) = p[n]
  BY GroupsSteps
<1> DEFINE T == {k \in 0..n : FlattenSeq(p[k]) = SubSeq(held, 1, k) /\ Parted(p[k])}
<1>2. 0 \in T
  <2>1. FlattenSeq(<<>>) = <<>> /\ SubSeq(held, 1, 0) = <<>> /\ Parted(<<>>) /\ 0 \in 0..n
    BY <1>0 DEF FlattenSeq, Parted
  <2> QED BY <1>1, <2>1
<1>3. ASSUME NEW k \in 0..n - 1, k \in T PROVE k + 1 \in T
  <2>1. k + 1 \in 1..n /\ k + 1 \in 0..n /\ (k + 1) - 1 = k /\ k \in 0..n /\ held[k + 1] \in Item
    BY <1>0
  <2>2. p[k] \in Seq(Seq(Item)) /\ p[k + 1] = PutInGroup(p[k], held[k + 1])
    <3> HIDE DEF n, T
    <3> QED BY <1>1, <2>1
  <2>3. Parted(p[k + 1]) /\ FlattenSeq(p[k + 1]) = SubSeq(held, 1, k) \o <<held[k + 1]>>
    <3>1. Parted(p[k]) /\ FlattenSeq(p[k]) = SubSeq(held, 1, k)
      BY <1>3
    <3> HIDE DEF n, T
    <3> QED BY <2>1, <2>2, <3>1, PutInGroupRight
  <2>4. SubSeq(held, 1, k + 1) = SubSeq(held, 1, k) \o <<held[k + 1]>>
    BY <2>1, SubSeqRecursiveSecond
  <2> QED BY <2>1, <2>3, <2>4
<1>4. n \in T
  <2>1. 0 \in Int /\ n \in Int /\ n \in 0..n
    BY <1>0
  <2>2. 0..n \subseteq T
    <3> HIDE DEF T, n
    <3> QED BY <1>2, <1>3, <2>1, IntervalInduction
  <2> QED BY <2>1, <2>2
<1>5. SubSeq(held, 1, n) = held /\ n \in 0..n
  BY <1>0, SubSeqFull
<1> HIDE DEF n
<1> QED BY <1>1, <1>4, <1>5

\* A piece of s: its elements stand in s one after the other, with no cut between.
PieceAt(g, s, cuts, o) ==
    /\ o \in Nat
    /\ \A j \in 1..Len(g) : /\ o + j \in 1..Len(s) /\ g[j] = s[o + j]
                            /\ j >= 2 => o + j \notin cuts

\* The first k elements of s in pieces.
InPieces(ps, s, cuts, k) ==
    /\ FlattenSeq(ps) = SubSeq(s, 1, k)
    /\ \A i \in DOMAIN ps : ps[i] # <<>> /\ \E o : PieceAt(ps[i], s, cuts, o)
    /\ ps # <<>> => \E o : PieceAt(Last(ps), s, cuts, o) /\ o + Len(Last(ps)) = k

LEMMA PutPieceRight ==
    ASSUME NEW S, NEW s \in Seq(S), NEW cuts, NEW k \in 1..Len(s), NEW ps \in Seq(Seq(S)),
           InPieces(ps, s, cuts, k - 1)
    PROVE  InPieces(PutPiece(s, cuts, ps, k), s, cuts, k)
<1> DEFINE e == s[k]  tt == PutPiece(s, cuts, ps, k)
<1>0. /\ k \in Nat /\ k - 1 \in Nat /\ (k - 1) + 1 = k /\ Len(s) \in Nat /\ e \in S
      /\ SubSeq(s, 1, k) = SubSeq(s, 1, k - 1) \o <<e>>
  <2>1. k \in Nat /\ k - 1 \in Nat /\ (k - 1) + 1 = k /\ Len(s) \in Nat /\ e \in S
    OBVIOUS
  <2>2. SubSeq(s, 1, k) = SubSeq(s, 1, k - 1) \o <<s[k]>>
    BY <2>1, SubSeqRecursiveSecond
  <2> QED BY <2>1, <2>2
<1> DEFINE one == <<e>>
<1>1. one \in Seq(S) /\ one # <<>> /\ Len(one) = 1 /\ one[1] = e
  BY <1>0
<1>2. CASE ps = <<>> \/ k \in cuts
  <2>1. tt = Append(ps, one)
    <3>1. CASE ps = <<>>
      BY <3>1 DEF PutPiece
    <3>2. CASE ps # <<>>
      BY <1>2, <3>2 DEF PutPiece
    <3> QED BY <3>1, <3>2
  <2>2. PieceAt(one, s, cuts, k - 1)
    <3> HIDE DEF one
    <3> QED BY <1>0, <1>1 DEF PieceAt
  <2> HIDE DEF one, tt
  <2>3. /\ Len(tt) = Len(ps) + 1 /\ tt[Len(ps) + 1] = one
        /\ DOMAIN tt = 1..Len(ps) + 1 /\ DOMAIN ps = 1..Len(ps) /\ Len(ps) \in Nat
        /\ \A i \in 1..Len(ps) : tt[i] = ps[i]
    BY <1>1, <2>1
  <2>4. FlattenSeq(tt) = FlattenSeq(ps) \o one
    BY <1>1, <2>1, FlattenAppend
  <2>5. Last(tt) = one
    BY <2>3 DEF Last
  <2>6. ASSUME NEW i \in DOMAIN tt PROVE tt[i] # <<>> /\ \E o : PieceAt(tt[i], s, cuts, o)
    <3>1. CASE i \in 1..Len(ps)
      BY <2>3, <3>1 DEF InPieces
    <3>2. CASE i = Len(ps) + 1
      BY <1>1, <2>2, <2>3, <3>2
    <3> QED BY <2>3, <3>1, <3>2
  <2>7. FlattenSeq(tt) = SubSeq(s, 1, k)
    BY <1>0, <2>4 DEF InPieces, one
  <2>8. (k - 1) + Len(Last(tt)) = k
    BY <1>0, <1>1, <2>5
  <2> QED BY <2>2, <2>5, <2>6, <2>7, <2>8 DEF InPieces, tt
<1>3. CASE ~(ps = <<>> \/ k \in cuts)
  <2> DEFINE l == Last(ps)  le == Append(l, e)
  <2>1. tt = Append(Front(ps), le)
    BY <1>3 DEF PutPiece
  <2>2. /\ tt \in Seq(Seq(S)) /\ FlattenSeq(tt) = FlattenSeq(ps) \o one
        /\ \A i \in 1..Len(ps) - 1 : tt[i] = ps[i]
        /\ tt[Len(ps)] = le /\ Len(tt) = Len(ps)
    <3> DEFINE uu == Append(Front(ps), Append(Last(ps), e))
    <3>1. /\ uu \in Seq(Seq(S)) /\ FlattenSeq(uu) = FlattenSeq(ps) \o <<e>>
          /\ \A i \in 1..Len(ps) - 1 : uu[i] = ps[i]
          /\ uu[Len(ps)] = Append(Last(ps), e) /\ Len(uu) = Len(ps)
      <4> HIDE DEF e
      <4>1. ps \in Seq(Seq(S)) /\ ps # <<>> /\ e \in S
        BY <1>0, <1>3
      <4> QED BY ONLY <4>1, Grown
    <3> HIDE DEF uu, tt, one
    <3>2. tt = uu
      BY <2>1 DEF uu
    <3> QED BY <3>1, <3>2 DEF one
  <2>3. l \in Seq(S) /\ Len(ps) \in Nat \ {0} /\ l = ps[Len(ps)]
    BY <1>3, LastPart DEF Last
  <2> HIDE DEF tt, one, l, e
  <2>4. DOMAIN tt = 1..Len(ps) /\ DOMAIN ps = 1..Len(ps)
    BY <2>2
  <2>5. /\ le # <<>> /\ Len(le) = Len(l) + 1 /\ le[Len(l) + 1] = e /\ Len(l) \in Nat
        /\ \A j \in 1..Len(l) : le[j] = l[j]
    <3>1. l \in Seq(S) /\ e \in S
      BY <1>0, <2>3
    <3>2. /\ Append(l, e) # <<>> /\ Len(Append(l, e)) = Len(l) + 1 /\ Append(l, e)[Len(l) + 1] = e
          /\ \A j \in 1..Len(l) : Append(l, e)[j] = l[j]
      BY <3>1, AppendProperties
    <3>3. Len(l) \in Nat
      BY <3>1
    <3> QED BY <3>2, <3>3
  <2> HIDE DEF le
  <2>6. PICK o : PieceAt(l, s, cuts, o) /\ o + Len(l) = k - 1
    BY <1>3 DEF InPieces, l
  <2>7. PieceAt(le, s, cuts, o) /\ o + Len(le) = k
    <3>1. o \in Nat
      BY <2>6 DEF PieceAt
    <3>2. ASSUME NEW j \in 1..Len(le)
          PROVE  o + j \in 1..Len(s) /\ le[j] = s[o + j] /\ (j >= 2 => o + j \notin cuts)
      <4>1. CASE j \in 1..Len(l)
        BY <2>5, <2>6, <4>1 DEF PieceAt
      <4>2. CASE j = Len(l) + 1
        <5>1. o + j = k
          BY <1>0, <2>5, <2>6, <3>1, <4>2
        <5> QED BY <1>3, <2>5, <4>2, <5>1 DEF e
      <4> QED BY <2>5, <4>1, <4>2
    <3>3. o + Len(le) = k
      BY <1>0, <2>5, <2>6, <3>1
    <3> QED BY <3>1, <3>2, <3>3 DEF PieceAt
  <2>8. Last(tt) = le
    BY <2>2 DEF Last
  <2>9. ASSUME NEW i \in DOMAIN tt PROVE tt[i] # <<>> /\ \E q : PieceAt(tt[i], s, cuts, q)
    <3>1. CASE i \in 1..Len(ps) - 1
      BY <2>2, <2>3, <2>4, <3>1 DEF InPieces
    <3>2. CASE i = Len(ps)
      BY <2>2, <2>5, <2>7, <3>2
    <3> QED BY <2>3, <2>4, <3>1, <3>2
  <2>10. FlattenSeq(tt) = SubSeq(s, 1, k)
    BY <1>0, <2>2 DEF InPieces, one
  <2> QED BY <2>7, <2>8, <2>9, <2>10 DEF InPieces, tt
<1> QED BY <1>2, <1>3

LEMMA PiecesRight ==
    ASSUME NEW S, NEW s \in Seq(S), NEW cuts
    PROVE  /\ Pieces(s, cuts) \in Seq(Seq(S))
           /\ InPieces(Pieces(s, cuts), s, cuts, Len(s))
           /\ FlattenSeq(Pieces(s, cuts)) = s
<1> DEFINE n == Len(s)
<1>0. n \in Nat
  OBVIOUS
<1>a. PICK p : MakesPieces(p, S, s, cuts)
  BY PiecesSteps
<1>1. /\ p \in [0..n -> Seq(Seq(S))] /\ p[0] = <<>>
      /\ \A k \in 1..n : p[k] = PutPiece(s, cuts, p[k - 1], k)
      /\ Pieces(s, cuts) = p[n]
  BY <1>a DEF MakesPieces
<1> DEFINE T == {k \in 0..n : InPieces(p[k], s, cuts, k)}
<1>2. 0 \in T
  <2>1. FlattenSeq(<<>>) = <<>> /\ SubSeq(s, 1, 0) = <<>> /\ DOMAIN <<>> = {} /\ 0 \in 0..n
    BY <1>0 DEF FlattenSeq
  <2>2. InPieces(<<>>, s, cuts, 0)
    BY <2>1 DEF InPieces
  <2> QED BY <1>1, <2>1, <2>2
<1>3. ASSUME NEW k \in 0..n - 1, k \in T PROVE k + 1 \in T
  <2>1. k + 1 \in 1..n /\ k + 1 \in 0..n /\ (k + 1) - 1 = k /\ k \in 0..n
    BY <1>0
  <2>2. p[k] \in Seq(Seq(S)) /\ p[k + 1] = PutPiece(s, cuts, p[k], k + 1) /\ InPieces(p[k], s, cuts, k)
    <3>1. InPieces(p[k], s, cuts, k)
      BY <1>3
    <3> HIDE DEF n, T
    <3> QED BY <1>1, <2>1, <3>1
  <2>3. InPieces(PutPiece(s, cuts, p[k], k + 1), s, cuts, k + 1)
    <3> DEFINE i == k + 1
    <3>1. i \in 1..Len(s) /\ i - 1 = k
      BY <2>1
    <3> HIDE DEF i, T, n
    <3>2. InPieces(PutPiece(s, cuts, p[k], i), s, cuts, i)
      BY <2>2, <3>1, PutPieceRight
    <3> QED BY <3>2 DEF i
  <2> QED BY <2>1, <2>2, <2>3
<1>4. n \in T
  <2>1. 0 \in Int /\ n \in Int /\ n \in 0..n
    BY <1>0
  <2>2. 0..n \subseteq T
    <3> HIDE DEF T, n
    <3> QED BY <1>2, <1>3, <2>1, IntervalInduction
  <2> QED BY <2>1, <2>2
<1>5. SubSeq(s, 1, n) = s /\ n \in 0..n
  BY <1>0, SubSeqFull
<1> HIDE DEF n
<1> QED BY <1>1, <1>4, <1>5 DEF InPieces, n

-----------------------------------------------------------------------------
(* The evidence of a document *)

\* A key that a document has: a row of a unit, or a unit without rows.
KeyRight(d, k) ==
    /\ k \in Key /\ k[1] \in DOMAIN d
    /\ k[2] = 0 => d[k[1]].rows = <<>>
    /\ k[2] # 0 => k[2] \in ToSet(d[k[1]].rows)

\* A unit without rows is there once.
UnitsOnce(ks) == \A i, j \in 1..Len(ks) : ks[i] = ks[j] /\ ks[i][2] = 0 => i = j

LEMMA UnitRight ==
    ASSUME NEW d \in Documents, NEW u \in DOMAIN d
    PROVE  /\ d \in Seq(UnitShape) /\ Len(d) \in Nat \ {0} /\ DOMAIN d = 1..Len(d) /\ u \in Nat
           /\ d[u].rows \in Seq(Nat \ {0}) /\ [unit |-> u, rows |-> d[u].rows] \in Item
           /\ RowKeys(d, u) = Keys([unit |-> u, rows |-> d[u].rows])
           /\ d[u].heading => d[u].rows = <<>>
<1>1. d \in Seq(UnitShape) /\ d # <<>> /\ (d[u].heading => d[u].rows = <<>>)
  BY DocumentsAssumption
<1>2. Len(d) \in Nat \ {0} /\ DOMAIN d = 1..Len(d) /\ u \in Nat /\ d[u] \in UnitShape
  BY <1>1
<1>3. d[u].rows \in Seq(Nat \ {0})
  BY <1>2 DEF UnitShape
<1>4. RowKeys(d, u) = Keys([unit |-> u, rows |-> d[u].rows])
  BY DEF RowKeys, Keys
<1> QED BY <1>1, <1>2, <1>3, <1>4 DEF Item

LEMMA RowKeysRight ==
    ASSUME NEW d \in Documents, NEW u \in DOMAIN d
    PROVE  /\ RowKeys(d, u) \in Seq(Key) /\ UnitsOnce(RowKeys(d, u))
           /\ \A i \in 1..Len(RowKeys(d, u)) :
                  RowKeys(d, u)[i][1] = u /\ KeyRight(d, RowKeys(d, u)[i])
<1> DEFINE rows == d[u].rows  item == [unit |-> u, rows |-> rows]  ks == RowKeys(d, u)
<1>1. u \in Nat /\ rows \in Seq(Nat \ {0}) /\ item \in Item /\ ks = Keys(item)
  BY UnitRight
<1>2. /\ ks \in Seq(Key)
      /\ rows = <<>> => ks = << <<u, 0>> >>
      /\ rows # <<>> => /\ Len(ks) = Len(rows)
                        /\ \A i \in 1..Len(rows) : ks[i] = <<u, rows[i]>>
  <2>1. item.unit = u /\ item.rows = rows
    OBVIOUS
  <2> HIDE DEF item, ks, rows
  <2> QED BY <1>1, <2>1, KeysOfItem
<1>3. \A i \in 1..Len(rows) : rows[i] \in Nat \ {0} /\ rows[i] \in ToSet(rows)
  BY <1>1 DEF ToSet
<1>4. CASE rows = <<>>
  <2>1. /\ ks = << <<u, 0>> >> /\ <<u, 0>> \in Key
    BY <1>1, <1>2, <1>4 DEF Key
  <2>2. Len(ks) = 1 /\ ks[1] = <<u, 0>>
    <3> HIDE DEF ks
    <3> QED BY <2>1
  <2>3. KeyRight(d, ks[1]) /\ ks[1][1] = u
    <3> HIDE DEF ks
    <3> QED BY <1>4, <2>1, <2>2 DEF KeyRight
  <2>4. \A i \in 1..Len(ks) : i = 1
    BY <2>2
  <2> HIDE DEF ks
  <2> QED BY <1>2, <2>3, <2>4 DEF UnitsOnce, ks
<1>5. CASE rows # <<>>
  <2>1. ASSUME NEW i \in 1..Len(ks) PROVE ks[i][1] = u /\ KeyRight(d, ks[i]) /\ ks[i][2] # 0
    <3>1. i \in 1..Len(rows) /\ ks[i] = <<u, rows[i]>> /\ rows[i] \in Nat \ {0} /\ rows[i] \in ToSet(rows)
      <4> HIDE DEF ks, rows
      <4> QED BY <1>2, <1>3, <1>5
    <3> HIDE DEF ks
    <3>2. ks[i] \in Key
      BY <1>2
    <3> QED BY <3>1, <3>2 DEF KeyRight
  <2> HIDE DEF ks
  <2> QED BY <1>2, <2>1 DEF UnitsOnce, ks
<1> QED BY <1>4, <1>5

LEMMA DocKeysRight ==
    ASSUME NEW d \in Documents
    PROVE  /\ DocKeys(d) \in Seq(Key) /\ UnitsOnce(DocKeys(d))
           /\ \A i \in 1..Len(DocKeys(d)) : KeyRight(d, DocKeys(d)[i])
<1> DEFINE n == Len(d)  ss == [u \in DOMAIN d |-> RowKeys(d, u)]
<1>0. n \in Nat /\ DOMAIN d = 1..n
  BY DocumentsAssumption
<1>1. ss \in Seq(Seq(Key)) /\ Len(ss) = n /\ \A u \in 1..n : ss[u] = RowKeys(d, u)
  <2>1. \A u \in 1..n : RowKeys(d, u) \in Seq(Key)
    BY <1>0, RowKeysRight
  <2> HIDE DEF n
  <2> QED BY <1>0, <2>1
<1>2. DocKeys(d) = FlattenSeq(ss)
  BY DEF DocKeys
<1> HIDE DEF ss
<1>3. PICK f : Flattens(f, ss, Key)
  BY <1>1, FlattenIs
<1>4. /\ f \in [0..n -> Seq(Key)] /\ f[0] = <<>> /\ DocKeys(d) = f[n]
      /\ \A u \in 1..n : f[u] = f[u - 1] \o RowKeys(d, u)
  BY <1>1, <1>2, <1>3 DEF Flattens
<1> DEFINE T == {u \in 0..n : /\ \A i \in 1..Len(f[u]) : f[u][i][1] \in 1..u /\ KeyRight(d, f[u][i])
                              /\ UnitsOnce(f[u])}
<1>5. 0 \in T
  <2>1. Len(f[0]) = 0 /\ 0 \in 0..n
    BY <1>0, <1>4
  <2> QED BY <2>1 DEF UnitsOnce
<1>6. ASSUME NEW v \in 0..n - 1, v \in T PROVE v + 1 \in T
  <2> DEFINE u == v + 1  a == f[v]  b == RowKeys(d, u)  c == f[u]
  <2>1. u \in 1..n /\ u \in 0..n /\ u - 1 = v /\ u \in DOMAIN d /\ v \in Nat
    BY <1>0
  <2>2. c = a \o b /\ a \in Seq(Key) /\ b \in Seq(Key)
    <3>1. b \in Seq(Key) /\ v \in 0..n
      BY <1>0, <2>1, RowKeysRight
    <3> HIDE DEF n, u
    <3> QED BY <1>4, <2>1, <3>1
  <2>3. /\ \A i \in 1..Len(a) : a[i][1] \in 1..v /\ KeyRight(d, a[i])
        /\ UnitsOnce(a)
    BY <1>6
  <2>4. /\ \A i \in 1..Len(b) : b[i][1] = u /\ KeyRight(d, b[i])
        /\ UnitsOnce(b)
    <3> HIDE DEF u
    <3> QED BY <2>1, RowKeysRight
  <2> HIDE DEF a, b, c
  <2> DEFINE m == Len(a)  q == Len(b)
  <2>5. /\ m \in Nat /\ q \in Nat /\ Len(c) = m + q
        /\ \A i \in 1..m : c[i] = a[i]
        /\ \A i \in m + 1..m + q : i - m \in 1..q /\ c[i] = b[i - m]
    BY <2>2
  <2> HIDE DEF m, q
  <2>6. \A i \in 1..m + q : i \in 1..m \/ i \in m + 1..m + q
    BY <2>5
  <2>7. ASSUME NEW i \in 1..Len(c) PROVE c[i][1] \in 1..u /\ KeyRight(d, c[i])
    <3>1. CASE i \in 1..m
      BY <2>1, <2>3, <2>5, <3>1 DEF m
    <3>2. CASE i \in m + 1..m + q
      BY <2>1, <2>4, <2>5, <3>2 DEF q
    <3> QED BY <2>5, <2>6, <3>1, <3>2
  <2>8. ASSUME NEW i \in 1..Len(c), NEW j \in 1..Len(c), c[i] = c[j], c[i][2] = 0 PROVE i = j
    <3>1. CASE i \in 1..m /\ j \in 1..m
      BY <2>3, <2>5, <2>8, <3>1 DEF UnitsOnce, m
    <3>2. CASE i \in m + 1..m + q /\ j \in m + 1..m + q
      <4>1. i - m = j - m
        BY <2>4, <2>5, <2>8, <3>2, SMTT(30) DEF UnitsOnce, q
      <4> QED BY <2>5, <3>2, <4>1
    <3>3. ASSUME NEW x \in 1..m, NEW y \in m + 1..m + q PROVE c[x] # c[y]
      <4>1. c[x][1] \in 1..v
        BY <2>3, <2>5 DEF m
      <4>2. c[y][1] = u
        <5>1. PICK k \in 1..q : y = m + k
          <6>1. y - m \in 1..q /\ y = m + (y - m)
            BY ONLY <2>5, <3>3
          <6> QED BY ONLY <6>1
        <5>2. c[m + k] = b[k]
          BY ONLY <2>5, <5>1
        <5> QED BY <2>4, <5>1, <5>2 DEF q
      <4> QED BY <2>1, <4>1, <4>2
    <3> QED BY <2>5, <2>6, <2>8, <3>1, <3>2, <3>3
  <2>9. UnitsOnce(c)
    BY <2>8 DEF UnitsOnce
  <2> QED BY <2>1, <2>7, <2>9 DEF c
<1>7. n \in T
  <2>1. 0 \in Int /\ n \in Int /\ n \in 0..n
    BY <1>0
  <2>2. 0..n \subseteq T
    <3> HIDE DEF T, n
    <3> QED BY <1>5, <1>6, <2>1, IntervalInduction
  <2> QED BY <2>1, <2>2
<1>8. f[n] \in Seq(Key)
  BY <1>0, <1>4
<1> HIDE DEF n
<1> QED BY <1>4, <1>7, <1>8

\* A piece of the evidence that does not go on into another unit is an item.
LEMMA PieceKeys ==
    ASSUME NEW d \in Documents, NEW cuts,
           \A i \in 2..Len(DocKeys(d)) : DocKeys(d)[i][1] # DocKeys(d)[i - 1][1] => i \in cuts,
           NEW g \in Seq(Key), g # <<>>, NEW o, PieceAt(g, DocKeys(d), cuts, o)
    PROVE  ItemOf(g) \in Item /\ Keys(ItemOf(g)) = g
<1> DEFINE ks == DocKeys(d)  u == g[1][1]  n == Len(g)
<1>0. /\ ks \in Seq(Key) /\ UnitsOnce(ks) /\ Len(ks) \in Nat
      /\ \A i \in 1..Len(ks) : KeyRight(d, ks[i])
  BY DocKeysRight
<1>1. n \in Nat \ {0} /\ 1 \in 1..n /\ o \in Nat /\ \A j \in 1..n : o + j \in 1..Len(ks) /\ g[j] = ks[o + j]
  BY DEF PieceAt
<1> HIDE DEF ks
<1>2. \A j \in 1..n : g[j] \in Key /\ KeyRight(d, g[j])
  BY <1>0, <1>1
<1> DEFINE T == {j \in 1..n : g[j][1] = u}
<1>3. 1..n \subseteq T
  <2>1. 1 <= n => 1 \in T
    BY <1>1
  <2>2. ASSUME NEW j \in 1..n - 1, j \in T PROVE j + 1 \in T
    <3>1. j \in 1..n /\ j + 1 \in 1..n /\ j + 1 >= 2
      BY <1>1
    <3>2. o + j \in 1..Len(ks) /\ o + (j + 1) \in 1..Len(ks) /\ g[j] = ks[o + j] /\ g[j + 1] = ks[o + (j + 1)]
      BY <1>1, <3>1
    <3>3. o + (j + 1) \notin cuts
      BY <3>1 DEF PieceAt
    <3>4. o + (j + 1) \in 2..Len(ks) /\ (o + (j + 1)) - 1 = o + j
      BY <1>0, <1>1, <3>2
    <3>5. ks[o + (j + 1)][1] = ks[o + j][1]
      BY <3>3, <3>4 DEF ks
    <3> QED BY <2>2, <3>1, <3>2, <3>5
  <2>3. 1 \in Int /\ n \in Int
    BY <1>1
  <2> HIDE DEF T, n
  <2> QED BY <2>1, <2>2, <2>3, IntervalInduction
<1>4. g[1] \in Key /\ KeyRight(d, g[1]) /\ \A j \in 1..n : g[j][1] = u
  BY <1>1, <1>2, <1>3
<1>5. u \in Nat
  BY <1>4 DEF Key
<1>6. CASE g[1][2] = 0
  <2>1. d[u].rows = <<>>
    BY <1>4, <1>6 DEF KeyRight
  <2>2. \A j \in 1..n : g[j] = <<u, 0>>
    <3> SUFFICES ASSUME NEW j \in 1..n PROVE g[j] = <<u, 0>>
      OBVIOUS
    <3>1. KeyRight(d, g[j]) /\ g[j] \in Key /\ g[j][1] = u
      BY <1>2, <1>4
    <3>2. g[j][2] = 0
      BY <2>1, <3>1 DEF KeyRight, ToSet
    <3> QED BY <3>1, <3>2 DEF Key
  <2>3. \A j \in 1..n : j = 1
    <3> SUFFICES ASSUME NEW j \in 1..n PROVE j = 1
      OBVIOUS
    <3>1. o + j \in 1..Len(ks) /\ o + 1 \in 1..Len(ks) /\ ks[o + j] = <<u, 0>> /\ ks[o + 1] = <<u, 0>>
      BY <1>1, <2>2
    <3>2. o + j = o + 1
      <4> DEFINE x == o + j  y == o + 1
      <4>1. x \in 1..Len(ks) /\ y \in 1..Len(ks) /\ ks[x] = ks[y] /\ ks[x] = <<u, 0>>
        BY <3>1
      <4>2. ks[x][2] = 0
        BY <4>1
      <4> HIDE DEF x, y
      <4>3. x = y
        BY <1>0, <4>1, <4>2 DEF UnitsOnce
      <4> QED BY <4>3 DEF x, y
    <3> QED BY <1>1, <3>2
  <2>4. n = 1
    <3>1. n \in 1..n
      BY <1>1
    <3> QED BY <2>3, <3>1
  <2>5. g = << <<u, 0>> >>
    <3> DEFINE k == <<u, 0>>
    <3>1. g[1] = k
      BY <1>1, <2>2
    <3> HIDE DEF k, u
    <3>2. g = <<k>>
      BY <2>4, <3>1
    <3> QED BY <3>2 DEF k
  <2>6. ItemOf(g) = [unit |-> u, rows |-> <<>>]
    BY <1>6 DEF ItemOf
  <2> HIDE DEF u
  <2> QED BY <1>5, <2>5, <2>6 DEF Keys, Item
<1>7. CASE g[1][2] # 0
  <2> DEFINE rows == [i \in DOMAIN g |-> g[i][2]]
  <2>1. d[u].rows # <<>>
    BY <1>4, <1>7 DEF KeyRight, ToSet
  <2>2. \A j \in 1..n : g[j][2] \in Nat \ {0} /\ g[j] = <<u, g[j][2]>>
    <3> SUFFICES ASSUME NEW j \in 1..n PROVE g[j][2] \in Nat \ {0} /\ g[j] = <<u, g[j][2]>>
      OBVIOUS
    <3>1. KeyRight(d, g[j]) /\ g[j] \in Key /\ g[j][1] = u
      BY <1>2, <1>4
    <3>2. g[j][2] # 0
      BY <2>1, <3>1 DEF KeyRight
    <3> QED BY <3>1, <3>2 DEF Key
  <2>3. DOMAIN g = 1..n
    OBVIOUS
  <2>4. rows \in Seq(Nat \ {0}) /\ Len(rows) = n /\ rows # <<>> /\ DOMAIN rows = 1..n
    <3>1. rows \in [1..n -> Nat \ {0}]
      BY <2>2, <2>3
    <3>2. n \in Nat \ {0}
      BY <1>1
    <3> HIDE DEF rows, n
    <3> QED BY ONLY <3>1, <3>2
  <2>5. ItemOf(g) = [unit |-> u, rows |-> rows]
    BY <1>7 DEF ItemOf
  <2>6. \A i \in 1..n : <<u, rows[i]>> = g[i]
    BY <2>2, <2>3
  <2> HIDE DEF u, rows
  <2>7. Keys(ItemOf(g)) = [i \in 1..n |-> <<u, rows[i]>>]
    BY <2>4, <2>5 DEF Keys
  <2>8. [i \in 1..n |-> <<u, rows[i]>>] = [i \in 1..n |-> g[i]]
    BY <2>6
  <2>9. g = [i \in 1..n |-> g[i]]
    BY <2>3
  <2>10. ItemOf(g) \in Item
    BY <1>5, <2>4, <2>5 DEF Item
  <2> QED BY <2>7, <2>8, <2>9, <2>10
<1> QED BY <1>6, <1>7

\* However a document is cut into items, they are its evidence in order.
LEMMA ItemCutsRight ==
    ASSUME NEW d \in Documents, NEW held \in ItemCuts(d)
    PROVE  held \in Seq(Item) /\ KeysOf(held) = DocKeys(d)
<1> DEFINE ks == DocKeys(d)
           units == {i \in 2..Len(ks) : ks[i][1] # ks[i - 1][1]}
<1>0. ks \in Seq(Key)
  BY DocKeysRight
<1>1. PICK more \in SUBSET (2..Len(ks)) :
          held = [i \in DOMAIN Pieces(ks, units \cup more) |-> ItemOf(Pieces(ks, units \cup more)[i])]
  BY DEF ItemCuts
<1> DEFINE cuts == units \cup more  ps == Pieces(ks, cuts)
<1>2. \A i \in 2..Len(ks) : ks[i][1] # ks[i - 1][1] => i \in cuts
  OBVIOUS
<1> HIDE DEF ks, cuts, units
<1>3. ps \in Seq(Seq(Key)) /\ InPieces(ps, ks, cuts, Len(ks)) /\ FlattenSeq(ps) = ks
  BY <1>0, PiecesRight
<1>4. held = [i \in DOMAIN ps |-> ItemOf(ps[i])]
  BY <1>1 DEF cuts
<1> HIDE DEF ps
<1>5. Len(ps) \in Nat /\ DOMAIN ps = 1..Len(ps)
  BY <1>3
<1>6. ASSUME NEW i \in 1..Len(ps) PROVE ItemOf(ps[i]) \in Item /\ Keys(ItemOf(ps[i])) = ps[i]
  <2>1. ps[i] \in Seq(Key) /\ ps[i] # <<>>
    <3>1. ps[i] \in Seq(Key)
      BY <1>3
    <3>2. ps[i] # <<>>
      BY <1>3, <1>5 DEF InPieces
    <3> QED BY <3>1, <3>2
  <2>2. PICK o : PieceAt(ps[i], ks, cuts, o)
    BY <1>3, <1>5 DEF InPieces
  <2> DEFINE g == ps[i]
  <2> HIDE DEF g
  <2>3. ItemOf(g) \in Item /\ Keys(ItemOf(g)) = g
    BY <1>2, <2>1, <2>2, PieceKeys DEF g, ks
  <2> QED BY <2>3 DEF g
<1>7. held \in Seq(Item) /\ DOMAIN held = 1..Len(ps) /\ \A i \in 1..Len(ps) : Keys(held[i]) = ps[i]
  BY <1>4, <1>5, <1>6
<1>8. [i \in DOMAIN held |-> Keys(held[i])] = [i \in 1..Len(ps) |-> ps[i]]
  BY <1>7
<1>9. ps = [i \in 1..Len(ps) |-> ps[i]]
  BY <1>3, <1>5
<1>10. KeysOf(held) = FlattenSeq(ps)
  BY <1>8, <1>9 DEF KeysOf
<1> QED BY <1>3, <1>7, <1>10 DEF ks

LEMMA PartsKeys ==
    ASSUME NEW parts \in Seq(Seq(Item))
    PROVE  FlattenSeq([i \in DOMAIN parts |-> KeysOf(parts[i])]) = KeysOf(FlattenSeq(parts))
<1>1. ItemKeys \in SequenceMaps(Item, Key) /\ \A s \in Seq(Item) : KeysOf(s) = MapFlat(ItemKeys, s)
  BY KeysFlat
<1>2. MapFlat(ItemKeys, FlattenSeq(parts)) = MapFlat(MapsFlat(ItemKeys, Item), parts)
  BY <1>1, MapFlatNested
<1>3. \A i \in DOMAIN parts : parts[i] \in Seq(Item)
  OBVIOUS
<1>4. [i \in DOMAIN parts |-> MapsFlat(ItemKeys, Item)[parts[i]]] = [i \in DOMAIN parts |-> KeysOf(parts[i])]
  BY <1>1, <1>3 DEF MapsFlat
<1>5. MapFlat(MapsFlat(ItemKeys, Item), parts) = FlattenSeq([i \in DOMAIN parts |-> KeysOf(parts[i])])
  BY <1>4 DEF MapFlat
<1>6. FlattenSeq(parts) \in Seq(Item)
  BY FlattenIn
<1> QED BY <1>1, <1>2, <1>5, <1>6

\* However the items are put into chunks, the chunks hold them in order.
LEMMA ChunkCutsRight ==
    ASSUME NEW held \in Seq(Item), NEW parts \in ChunkCuts(held)
    PROVE  /\ parts \in Seq(Seq(Item)) /\ FlattenSeq(parts) = held
           /\ \A i \in DOMAIN parts : parts[i] # <<>>
           /\ FlattenSeq([i \in DOMAIN parts |-> KeysOf(parts[i])]) = KeysOf(held)
<1>1. PICK cuts : parts = Pieces(held, cuts)
  BY DEF ChunkCuts
<1>2. parts \in Seq(Seq(Item)) /\ InPieces(parts, held, cuts, Len(held)) /\ FlattenSeq(parts) = held
  BY <1>1, PiecesRight
<1>3. \A i \in DOMAIN parts : parts[i] # <<>>
  BY <1>2 DEF InPieces
<1> QED BY <1>2, <1>3, PartsKeys

-----------------------------------------------------------------------------
(* Lists of chunks that a pass may make of others *)

\* A chunk of document d whose warnings are from s: its evidence and that of its
\* summary are from the document, a summary for other evidence is flagged, and the
\* warning of its size is there.
ChunkRight(c, d, s) ==
    /\ c \in Chunk /\ c.items # <<>>
    /\ ToSet(KeysOf(c.items)) \subseteq ToSet(DocKeys(d))
    /\ ToSet(c.wrote) \subseteq ToSet(DocKeys(d))
    /\ c.notes \subseteq DOMAIN s
    /\ c.wrote # KeysOf(c.items) => c.flagged
    /\ TooMany(c.items) => c.oversize
ListRight(cs, d, s) == cs \in Seq(Chunk) /\ \A c \in ToSet(cs) : ChunkRight(c, d, s)

\* A chunk with the warnings of planned chunk n has the evidence k.
Bears(cs, n, k) == \E c \in ToSet(cs) : n \in c.notes /\ k \in ToSet(KeysOf(c.items))

\* The chunks have the same evidence, and no evidence has lost its warnings.
Reworked(old, new, d, s) ==
    /\ ListRight(old, d, s) /\ ListRight(new, d, s)
    /\ AllKeys(new) = AllKeys(old)
    /\ \A n, k : Bears(old, n, k) => Bears(new, n, k)

LEMMA ReworkedSame ==
    ASSUME NEW cs, NEW d, NEW s, ListRight(cs, d, s)
    PROVE  Reworked(cs, cs, d, s)
BY DEF Reworked

LEMMA ReworkedTwice ==
    ASSUME NEW a, NEW b, NEW c, NEW d, NEW s, Reworked(a, b, d, s), Reworked(b, c, d, s)
    PROVE  Reworked(a, c, d, s)
BY DEF Reworked

LEMMA ListsJoin ==
    ASSUME NEW a, NEW b, NEW d, NEW s, a \in Seq(Chunk), b \in Seq(Chunk)
    PROVE  /\ ListRight(a \o b, d, s) <=> ListRight(a, d, s) /\ ListRight(b, d, s)
           /\ \A n, k : Bears(a \o b, n, k) <=> Bears(a, n, k) \/ Bears(b, n, k)
<1>1. ToSet(a \o b) = ToSet(a) \cup ToSet(b)
  BY ToSetConcat
<1>2. a \o b \in Seq(Chunk)
  OBVIOUS
<1> QED BY <1>1, <1>2 DEF ListRight, Bears

LEMMA ReworkedJoin ==
    ASSUME NEW a, NEW b, NEW x, NEW y, NEW d, NEW s, Reworked(a, b, d, s), Reworked(x, y, d, s)
    PROVE  Reworked(a \o x, b \o y, d, s)
<1>1. a \in Seq(Chunk) /\ b \in Seq(Chunk) /\ x \in Seq(Chunk) /\ y \in Seq(Chunk)
  BY DEF Reworked, ListRight
<1>2. AllKeys(a \o x) = AllKeys(a) \o AllKeys(x) /\ AllKeys(b \o y) = AllKeys(b) \o AllKeys(y)
  BY <1>1, AllKeysJoin
<1>3. ListRight(a \o x, d, s) /\ ListRight(b \o y, d, s)
  BY <1>1, ListsJoin DEF Reworked
<1>4. ASSUME NEW n, NEW k, Bears(a \o x, n, k) PROVE Bears(b \o y, n, k)
  <2>1. Bears(a, n, k) \/ Bears(x, n, k)
    BY <1>1, <1>4, ListsJoin
  <2>2. Bears(b, n, k) \/ Bears(y, n, k)
    BY <2>1 DEF Reworked
  <2> QED BY <1>1, <2>2, ListsJoin
<1>5. AllKeys(b) = AllKeys(a) /\ AllKeys(y) = AllKeys(x)
  BY DEF Reworked
<1> QED BY <1>2, <1>3, <1>4, <1>5 DEF Reworked

LEMMA One ==
    ASSUME NEW c, NEW d, NEW s
    PROVE  /\ ToSet(<<c>>) = {c}
           /\ ChunkRight(c, d, s) => ListRight(<<c>>, d, s)
           /\ \A n, k : Bears(<<c>>, n, k) <=> n \in c.notes /\ k \in ToSet(KeysOf(c.items))
<1>1. ToSet(<<c>>) = {c}
  BY DEF ToSet
<1>2. c \in Chunk => <<c>> \in Seq(Chunk)
  OBVIOUS
<1> QED BY <1>1, <1>2 DEF ListRight, ChunkRight, Bears

\* Two chunks are joined: the summary is made new, and the warnings stay.
LEMMA MergeRight ==
    ASSUME NEW d, NEW s, NEW l, NEW r, ChunkRight(l, d, s), ChunkRight(r, d, s)
    PROVE  /\ ChunkRight(Merged(l, r), d, s)
           /\ Reworked(<<l>> \o <<r>>, <<Merged(l, r)>>, d, s)
<1> DEFINE m == Merged(l, r)
<1>1. l \in Chunk /\ r \in Chunk
  BY DEF ChunkRight
<1>2. /\ l.items \in Seq(Item) /\ r.items \in Seq(Item) /\ m \in Chunk
      /\ m.items = l.items \o r.items /\ m.wrote = KeysOf(m.items) /\ m.notes = l.notes \cup r.notes
      /\ TooMany(m.items) => m.oversize
  BY <1>1, MergedIs DEF Merged
<1>3. KeysOf(m.items) = KeysOf(l.items) \o KeysOf(r.items)
  <2>1. KeysOf(l.items \o r.items) = KeysOf(l.items) \o KeysOf(r.items)
    BY ONLY <1>2, KeysJoin
  <2> QED BY ONLY <1>2, <2>1
<1>4. KeysOf(l.items) \in Seq(Key) /\ KeysOf(r.items) \in Seq(Key)
  BY <1>2, KeysFlat
<1>5. ToSet(KeysOf(m.items)) = ToSet(KeysOf(l.items)) \cup ToSet(KeysOf(r.items))
  BY <1>3, <1>4, ToSetConcat
<1>6. m.items # <<>>
  <2>1. l.items # <<>>
    BY DEF ChunkRight
  <2> QED BY <1>2, <2>1
<1> HIDE DEF m
<1>7. ChunkRight(m, d, s)
  BY <1>2, <1>5, <1>6 DEF ChunkRight
<1>8. Reworked(<<l>> \o <<r>>, <<m>>, d, s)
  <2>1. <<l>> \in Seq(Chunk) /\ <<r>> \in Seq(Chunk)
    BY <1>1
  <2>2. AllKeys(<<l>> \o <<r>>) = AllKeys(<<l>>) \o AllKeys(<<r>>)
    BY <2>1, AllKeysJoin
  <2>3. AllKeys(<<l>>) = KeysOf(l.items) /\ AllKeys(<<r>>) = KeysOf(r.items) /\ AllKeys(<<m>>) = KeysOf(m.items)
    BY <1>1, <1>2, AllKeysJoin
  <2>4. ListRight(<<l>> \o <<r>>, d, s) /\ ListRight(<<m>>, d, s)
    BY <1>7, <2>1, ListsJoin, One
  <2>5. ASSUME NEW n, NEW k, Bears(<<l>> \o <<r>>, n, k) PROVE Bears(<<m>>, n, k)
    <3>1. Bears(<<l>>, n, k) \/ Bears(<<r>>, n, k)
      BY <2>1, <2>5, ListsJoin
    <3> QED BY <1>2, <1>5, <3>1, One
  <2> QED BY <1>3, <2>2, <2>3, <2>4, <2>5 DEF Reworked
<1> QED BY <1>7, <1>8 DEF m

LEMMA JoinRight ==
    ASSUME NEW d, NEW s, NEW cs, ListRight(cs, d, s), NEW c, ChunkRight(c, d, s)
    PROVE  Reworked(cs \o <<c>>, Join(cs, c), d, s)
<1>1. cs \in Seq(Chunk) /\ c \in Chunk /\ <<c>> \in Seq(Chunk) /\ ListRight(<<c>>, d, s)
  <2>1. cs \in Seq(Chunk) /\ c \in Chunk
    BY DEF ListRight, ChunkRight
  <2> QED BY <2>1, One
<1>2. Reworked(cs \o <<c>>, cs \o <<c>>, d, s)
  BY <1>1, ListsJoin, ReworkedSame
<1> DEFINE l == Last(cs)  held == l.items \o c.items
<1>3. CASE cs = <<>>
  <2>1. Join(cs, c) = <<c>> /\ cs \o <<c>> = <<c>>
    BY <1>1, <1>3 DEF Join
  <2> QED BY <1>2, <2>1
<1>4. CASE cs # <<>> /\ (TooMany(held) \/ Tokens(held) > Target)
  <2>1. Join(cs, c) = Append(cs, c)
    BY <1>4 DEF Join
  <2>2. Append(cs, c) = cs \o <<c>>
    BY <1>1, AppendIsConcat
  <2> QED BY <1>2, <2>1, <2>2
<1>5. CASE cs # <<>> /\ ~(TooMany(held) \/ Tokens(held) > Target)
  <2> DEFINE f == Front(cs)  m == Merged(l, c)
  <2>1. f \in Seq(Chunk) /\ l \in Chunk /\ cs = f \o <<l>>
    BY <1>1, <1>5, LastPart
  <2>2. Join(cs, c) = Append(f, m)
    BY <1>5 DEF Join
  <2> HIDE DEF f, l
  <2>3. <<l>> \in Seq(Chunk)
    BY <2>1
  <2>4. ListRight(f, d, s) /\ ListRight(<<l>>, d, s)
    BY <2>1, <2>3, ListsJoin
  <2>5. ChunkRight(l, d, s)
    BY <2>4, One DEF ListRight
  <2>6. ChunkRight(m, d, s) /\ Reworked(<<l>> \o <<c>>, <<m>>, d, s)
    BY <2>5, MergeRight
  <2> HIDE DEF m
  <2>7. m \in Chunk /\ Append(f, m) = f \o <<m>>
    BY <2>1, <2>6 DEF ChunkRight
  <2>8. Reworked(f \o (<<l>> \o <<c>>), f \o <<m>>, d, s)
    BY <2>4, <2>6, ReworkedSame, ReworkedJoin
  <2>9. (f \o <<l>>) \o <<c>> = f \o (<<l>> \o <<c>>)
    <3> DEFINE x == <<l>>  y == <<c>>
    <3>1. x \in Seq(Chunk) /\ y \in Seq(Chunk)
      BY <1>1, <2>3
    <3> HIDE DEF x, y
    <3>2. (f \o x) \o y = f \o (x \o y)
      BY ONLY <2>1, <3>1, ConcatAssociative, SMTT(30)
    <3> QED BY <3>2 DEF x, y
  <2>10. cs \o <<c>> = f \o (<<l>> \o <<c>>)
    BY <2>1, <2>9
  <2>11. Join(cs, c) = f \o <<m>>
    BY <2>2, <2>7
  <2> QED BY <2>8, <2>10, <2>11
<1> QED BY <1>3, <1>4, <1>5

LEMMA JoinAllRight ==
    ASSUME NEW d, NEW s, NEW cs, ListRight(cs, d, s)
    PROVE  Reworked(cs, FoldLeft(Join, <<>>, cs), d, s)
<1> DEFINE n == Len(cs)  out == FoldLeft(Join, <<>>, cs)
<1>0. cs \in Seq(Chunk) /\ n \in Nat /\ \A k \in 1..n : cs[k] \in ToSet(cs) /\ cs[k] \in Chunk
  BY DEF ListRight, ToSet
<1>1. PICK p : /\ p \in [0..n -> Seq(Chunk)] /\ p[0] = <<>>
               /\ \A k \in 1..n : p[k] = Join(p[k - 1], cs[k])
               /\ out = p[n]
  BY <1>0, JoinSteps
<1> HIDE DEF out
<1> DEFINE T == {k \in 0..n : Reworked(SubSeq(cs, 1, k), p[k], d, s)}
<1>2. 0 \in T
  <2>1. SubSeq(cs, 1, 0) = <<>> /\ 0 \in 0..n /\ <<>> \in Seq(Chunk) /\ ToSet(<<>>) = {}
    BY <1>0 DEF ToSet
  <2>2. ListRight(<<>>, d, s)
    BY <2>1 DEF ListRight
  <2> QED BY <1>1, <2>1, <2>2, ReworkedSame
<1>3. ASSUME NEW k \in 0..n - 1, k \in T PROVE k + 1 \in T
  <2> DEFINE c == cs[k + 1]  a == SubSeq(cs, 1, k)  b == p[k]
  <2>1. k + 1 \in 1..n /\ k + 1 \in 0..n /\ (k + 1) - 1 = k /\ k \in 0..n /\ c \in ToSet(cs)
    BY <1>0
  <2>2. p[k + 1] = Join(b, c)
    <3> HIDE DEF n, T
    <3> QED BY <1>1, <2>1
  <2>3. SubSeq(cs, 1, k + 1) = a \o <<c>>
    BY <1>0, <2>1, SubSeqRecursiveSecond
  <2>4. Reworked(a, b, d, s)
    BY <1>3
  <2>5. ChunkRight(c, d, s)
    BY <2>1 DEF ListRight
  <2> HIDE DEF a, b, c
  <2>6. Reworked(<<c>>, <<c>>, d, s)
    BY <2>5, One, ReworkedSame
  <2>7. Reworked(a \o <<c>>, b \o <<c>>, d, s)
    BY <2>4, <2>6, ReworkedJoin
  <2>8. Reworked(b \o <<c>>, Join(b, c), d, s)
    BY <2>4, <2>5, JoinRight DEF Reworked
  <2>9. Reworked(a \o <<c>>, Join(b, c), d, s)
    BY <2>7, <2>8, ReworkedTwice
  <2> QED BY <2>1, <2>2, <2>3, <2>9
<1>4. n \in T
  <2>1. 0 \in Int /\ n \in Int /\ n \in 0..n
    BY <1>0
  <2>2. 0..n \subseteq T
    <3> HIDE DEF T, n
    <3> QED BY <1>2, <1>3, <2>1, IntervalInduction
  <2> QED BY <2>1, <2>2
<1>5. SubSeq(cs, 1, n) = cs
  BY <1>0, SubSeqFull
<1> HIDE DEF n
<1> QED BY <1>1, <1>4, <1>5 DEF out

LEMMA FlushedRight ==
    ASSUME NEW d, NEW s, ListRight(run, d, s)
    PROVE  Reworked(run, Flushed, d, s)
<1>1. Flushed = run \/ Flushed = FoldLeft(Join, <<>>, run)
  BY DEF Flushed, FoldLeft, MapThenFoldSet, Join
<1>2. Reworked(run, run, d, s)
  BY ReworkedSame
<1>3. Reworked(run, FoldLeft(Join, <<>>, run), d, s)
  BY JoinAllRight
<1> QED BY <1>1, <1>2, <1>3

-----------------------------------------------------------------------------
(* Chunks that a pass makes new *)

HeldRight(held, d) ==
    held \in Seq(Item) /\ held # <<>> /\ ToSet(KeysOf(held)) \subseteq ToSet(DocKeys(d))
Renewed(c, held) == Rebuilt(c, held, TRUE)
Regrouped(c, held) == Rebuilt(c, held, FALSE)

\* A chunk with other items and a new text keeps its warnings.
LEMMA RebuiltNew ==
    ASSUME NEW d, NEW s, NEW c, ChunkRight(c, d, s), NEW held, HeldRight(held, d)
    PROVE  /\ ChunkRight(Renewed(c, held), d, s)
           /\ Renewed(c, held).items = held
           /\ Renewed(c, held).notes = c.notes
<1> DEFINE new == Renewed(c, held)
<1>1. c \in Chunk /\ KeysOf(held) \in Seq(Key) /\ TooMany(held) \in BOOLEAN
  BY KeysFlat DEF ChunkRight, TooMany, HeldRight
<1>2. /\ new.items = held /\ new.notes = c.notes /\ new.oversize = TooMany(held)
      /\ new.wrote = KeysOf(held) /\ new.fallback = c.fallback
  BY <1>1 DEF Renewed, Rebuilt, Chunk
<1>3. new.flagged = TRUE
  BY <1>1 DEF Renewed, Rebuilt, Chunk
<1>4. new \in Chunk
  BY <1>1, <1>2, <1>3 DEF HeldRight, Chunk, Renewed, Rebuilt
<1> HIDE DEF new
<1>5. ToSet(new.wrote) \subseteq ToSet(DocKeys(d)) /\ new.notes \subseteq DOMAIN s
  BY <1>2 DEF ChunkRight, HeldRight
<1>6. ChunkRight(new, d, s)
  BY <1>2, <1>3, <1>4, <1>5 DEF ChunkRight, HeldRight
<1> QED BY <1>2, <1>3, <1>6 DEF new

\* A chunk with other units keeps its warnings, and its text is flagged.
LEMMA RebuiltFlagged ==
    ASSUME NEW d, NEW s, NEW c, ChunkRight(c, d, s), NEW held, HeldRight(held, d),
           UnitsOf(held) # UnitsOf(c.items)
    PROVE  /\ ChunkRight(Regrouped(c, held), d, s)
           /\ Regrouped(c, held).items = held
           /\ Regrouped(c, held).notes = c.notes
<1> DEFINE new == Regrouped(c, held)
<1>1. c \in Chunk /\ KeysOf(held) \in Seq(Key) /\ TooMany(held) \in BOOLEAN
  BY KeysFlat DEF ChunkRight, TooMany, HeldRight
<1>2. /\ new.items = held /\ new.notes = c.notes /\ new.oversize = TooMany(held)
      /\ new.wrote = c.wrote /\ new.fallback = c.fallback
  BY <1>1 DEF Regrouped, Rebuilt, Chunk
<1>3. new.flagged = TRUE
  BY <1>1 DEF Regrouped, Rebuilt, Chunk
<1>4. new \in Chunk
  BY <1>1, <1>2, <1>3 DEF HeldRight, Chunk, Regrouped, Rebuilt
<1> HIDE DEF new
<1>5. ToSet(new.wrote) \subseteq ToSet(DocKeys(d)) /\ new.notes \subseteq DOMAIN s
  BY <1>2 DEF ChunkRight, HeldRight
<1>6. ChunkRight(new, d, s)
  BY <1>2, <1>3, <1>4, <1>5 DEF ChunkRight, HeldRight
<1> QED BY <1>2, <1>3, <1>6 DEF new

\* A chunk is split into groups of its items.
LEMMA SplitRight ==
    ASSUME NEW d, NEW s, NEW c, ChunkRight(c, d, s)
    PROVE  LET gs == Groups(c.items)
           IN  Reworked(<<c>>, [i \in DOMAIN gs |-> Rebuilt(c, gs[i], TRUE)], d, s)
<1> DEFINE gs == Groups(c.items)  new == [i \in DOMAIN gs |-> Rebuilt(c, gs[i], TRUE)]
<1>1. c \in Chunk /\ c.items \in Seq(Item)
  BY DEF ChunkRight, Chunk
<1>2. gs \in Seq(Seq(Item)) /\ FlattenSeq(gs) = c.items /\ \A i \in DOMAIN gs : gs[i] # <<>>
  BY <1>1, GroupsRight DEF Parted
<1>3. FlattenSeq([i \in DOMAIN gs |-> KeysOf(gs[i])]) = KeysOf(c.items)
  BY <1>2, PartsKeys
<1>4. Len(gs) \in Nat /\ DOMAIN gs = 1..Len(gs) /\ \A i \in DOMAIN gs : gs[i] \in Seq(Item)
  BY <1>2
<1> HIDE DEF gs
<1>5. ASSUME NEW i \in DOMAIN gs PROVE ToSet(KeysOf(gs[i])) \subseteq ToSet(KeysOf(c.items))
  <2> DEFINE all == [j \in DOMAIN gs |-> KeysOf(gs[j])]
  <2>1. all \in Seq(Seq(Key)) /\ all[i] = KeysOf(gs[i]) /\ i \in DOMAIN all
    <3>1. \A j \in DOMAIN gs : KeysOf(gs[j]) \in Seq(Key)
      BY <1>4, KeysFlat
    <3> QED BY <1>4, <3>1
  <2>2. FlattenSeq(all) = KeysOf(c.items)
    BY <1>3
  <2> HIDE DEF all
  <2>3. ToSet(FlattenSeq(all)) = UNION {ToSet(x) : x \in ToSet(all)}
    BY <2>1, FlattenHolds
  <2>4. all[i] \in ToSet(all)
    BY <2>1 DEF ToSet
  <2> QED BY <2>1, <2>2, <2>3, <2>4
<1>6. ASSUME NEW i \in DOMAIN gs
      PROVE  /\ ChunkRight(Rebuilt(c, gs[i], TRUE), d, s)
             /\ Rebuilt(c, gs[i], TRUE).items = gs[i]
             /\ Rebuilt(c, gs[i], TRUE).notes = c.notes
  <2>1. gs[i] \in Seq(Item) /\ gs[i] # <<>> /\ ToSet(KeysOf(gs[i])) \subseteq ToSet(DocKeys(d))
    BY <1>2, <1>4, <1>5 DEF ChunkRight
  <2> DEFINE g == gs[i]
  <2>2. HeldRight(g, d)
    BY <2>1 DEF HeldRight
  <2> HIDE DEF g
  <2>3. ChunkRight(Renewed(c, g), d, s) /\ Renewed(c, g).items = g /\ Renewed(c, g).notes = c.notes
    BY <2>2, RebuiltNew
  <2> QED BY <2>3 DEF g, Renewed
<1>7. new \in Seq(Chunk) /\ DOMAIN new = DOMAIN gs
  <2>1. \A i \in DOMAIN gs : Rebuilt(c, gs[i], TRUE) \in Chunk
    BY <1>6 DEF ChunkRight
  <2>2. new \in [1..Len(gs) -> Chunk]
    BY <1>4, <2>1
  <2> HIDE DEF new
  <2>3. DOMAIN new = DOMAIN gs
    BY <1>4, <2>2
  <2> QED BY <1>4, <2>2, <2>3
<1>8. [i \in DOMAIN new |-> KeysOf(new[i].items)] = [i \in DOMAIN gs |-> KeysOf(gs[i])]
  BY <1>6, <1>7
<1>9. AllKeys(new) = KeysOf(c.items)
  BY <1>3, <1>8 DEF AllKeys
<1>10. \A x \in ToSet(new) : ChunkRight(x, d, s) /\ x.notes = c.notes
  BY <1>6, <1>7 DEF ToSet
<1> HIDE DEF new
<1>11. ListRight(<<c>>, d, s) /\ ListRight(new, d, s) /\ AllKeys(<<c>>) = KeysOf(c.items)
  BY <1>1, <1>7, <1>10, One, AllKeysJoin DEF ListRight
<1>12. ASSUME NEW n, NEW k, Bears(<<c>>, n, k) PROVE Bears(new, n, k)
  <2>1. n \in c.notes /\ k \in ToSet(KeysOf(c.items))
    BY <1>12, One
  <2>2. k \in UNION {ToSet(KeysOf(x.items)) : x \in ToSet(new)}
    BY <1>7, <1>9, <2>1, AllKeysJoin
  <2> QED BY <1>10, <2>1, <2>2 DEF Bears
<1> QED BY <1>9, <1>11, <1>12 DEF Reworked, new, gs

\* Two chunks are joined inside a table: the rows that meet become one item.
LEMMA JoinedRight ==
    ASSUME NEW d, NEW s, NEW l, NEW r, ChunkRight(l, d, s), ChunkRight(r, d, s), MayJoin(l, r)
    PROVE  Reworked(<<l>> \o <<r>>, <<Joined(l, r)>>, d, s)
<1> DEFINE a == Last(l.items)  b == r.items[1]  f == Front(l.items)  t == Tail(r.items)
           both == [a EXCEPT !.rows = @ \o b.rows]
           held == Append(f, both) \o t  m == Merged(l, r)
<1>1. /\ l \in Chunk /\ r \in Chunk /\ l.items \in Seq(Item) /\ r.items \in Seq(Item)
      /\ l.items # <<>> /\ r.items # <<>>
  BY DEF ChunkRight, Chunk
<1>2. f \in Seq(Item) /\ a \in Item /\ l.items = f \o <<a>>
  BY <1>1, LastPart
<1>3. t \in Seq(Item) /\ b \in Item /\ r.items = <<b>> \o t
  <2>1. Len(r.items) \in Nat \ {0} /\ t \in Seq(Item) /\ b \in Item /\ Head(r.items) = b
    BY <1>1
  <2>2. SubSeq(r.items, 1, Len(r.items)) = <<r.items[1]>> \o SubSeq(r.items, 2, Len(r.items))
    BY <1>1, <2>1, SubSeqRecursiveFirst
  <2>3. SubSeq(r.items, 1, Len(r.items)) = r.items /\ t = SubSeq(r.items, 2, Len(r.items))
    BY <1>1, SubSeqFull, TailIsSubSeq
  <2> QED BY <2>1, <2>2, <2>3
<1>4. a.unit = b.unit /\ a.rows # <<>> /\ b.rows # <<>>
  BY DEF MayJoin, Cuts
<1> HIDE DEF a, b, f, t
<1>5. both \in Item /\ both.unit = a.unit /\ both.rows = a.rows \o b.rows
  <2>1. a.rows \in Seq(Nat \ {0}) /\ b.rows \in Seq(Nat \ {0})
    BY <1>2, <1>3 DEF Item
  <2>2. a.rows \o b.rows \in Seq(Nat \ {0})
    BY <2>1
  <2> QED BY <1>2, <2>2 DEF Item
<1>6. Keys(both) = Keys(a) \o Keys(b)
  <2> DEFINE x == a.rows  y == b.rows  u == a.unit  z == both.rows
  <2>1. x \in Seq(Nat \ {0}) /\ y \in Seq(Nat \ {0}) /\ x # <<>> /\ y # <<>> /\ b.unit = u
    BY <1>2, <1>3, <1>4 DEF Item
  <2>2. /\ Len(x) \in Nat /\ Len(y) \in Nat /\ z = x \o y /\ z # <<>> /\ Len(z) = Len(x) + Len(y)
        /\ \A i \in 1..Len(x) : z[i] = x[i]
        /\ \A i \in 1..Len(y) : z[Len(x) + i] = y[i]
    <3> HIDE DEF x, y
    <3>1. x \o y # <<>> /\ Len(x \o y) = Len(x) + Len(y) /\ Len(x) \in Nat /\ Len(y) \in Nat
      BY <2>1
    <3>2. \A i \in 1..Len(x) : (x \o y)[i] = x[i]
      BY <2>1
    <3>3. \A i \in 1..Len(y) : (x \o y)[Len(x) + i] = y[i]
      BY <2>1
    <3>4. z = x \o y
      BY <1>5 DEF x, y
    <3> QED BY <3>1, <3>2, <3>3, <3>4
  <2>3. /\ Keys(a) \in Seq(Key) /\ Len(Keys(a)) = Len(x) /\ \A i \in 1..Len(x) : Keys(a)[i] = <<u, x[i]>>
    BY <1>2, <2>1, KeysOfItem
  <2>4. /\ Keys(b) \in Seq(Key) /\ Len(Keys(b)) = Len(y) /\ \A i \in 1..Len(y) : Keys(b)[i] = <<u, y[i]>>
    BY <1>3, <2>1, KeysOfItem
  <2>5. /\ Keys(both) \in Seq(Key) /\ Len(Keys(both)) = Len(z)
        /\ \A i \in 1..Len(z) : Keys(both)[i] = <<u, z[i]>>
    <3> HIDE DEF both
    <3> QED BY <1>5, <2>2, KeysOfItem
  <2> DEFINE p == Keys(a)  q == Keys(b)  w == Keys(both)
  <2> HIDE DEF x, y, u, z, p, q, w, both
  <2>6. p \o q \in Seq(Key) /\ Len(p \o q) = Len(x) + Len(y)
    <3>1. p \in Seq(Key) /\ q \in Seq(Key) /\ Len(p) = Len(x) /\ Len(q) = Len(y)
      BY <2>3, <2>4 DEF p, q
    <3>2. p \o q \in Seq(Key) /\ Len(p \o q) = Len(p) + Len(q)
      BY <3>1, ConcatProperties
    <3> QED BY <3>1, <3>2
  <2>7. \A i \in 1..Len(x) : (p \o q)[i] = <<u, x[i]>>
    BY <2>2, <2>3, <2>4 DEF p, q
  <2>8. \A i \in 1..Len(y) : (p \o q)[Len(x) + i] = <<u, y[i]>>
    BY <2>2, <2>3, <2>4 DEF p, q
  <2>9. \A i \in 1..Len(w) : w[i] = (p \o q)[i]
    <3> SUFFICES ASSUME NEW i \in 1..Len(w) PROVE w[i] = (p \o q)[i]
      OBVIOUS
    <3>1. CASE i \in 1..Len(x)
      BY <2>2, <2>5, <2>7, <3>1 DEF w
    <3>2. CASE i \notin 1..Len(x)
      <4>1. i - Len(x) \in 1..Len(y) /\ i = Len(x) + (i - Len(x))
        BY <2>2, <2>5, <3>2 DEF w
      <4>2. PICK j \in 1..Len(y) : i = Len(x) + j
        BY <4>1
      <4> QED BY <2>2, <2>5, <2>8, <4>2 DEF w
    <3> QED BY <3>1, <3>2
  <2>10. Len(w) = Len(p \o q) /\ w \in Seq(Key)
    BY <2>2, <2>5, <2>6 DEF w
  <2>11. w = p \o q
    BY <2>6, <2>9, <2>10, SeqEqual
  <2> QED BY <2>11 DEF w, p, q
<1> HIDE DEF both
<1>7. /\ <<a>> \in Seq(Item) /\ <<b>> \in Seq(Item) /\ <<both>> \in Seq(Item)
      /\ Append(f, both) = f \o <<both>> /\ f \o <<both>> \in Seq(Item)
      /\ held \in Seq(Item) /\ held # <<>>
  BY <1>2, <1>3, <1>5, SMTT(30)
<1>8. KeysOf(held) = KeysOf(l.items) \o KeysOf(r.items)
  <2> DEFINE fb == f \o <<both>>
  <2>1. KeysOf(held) = KeysOf(fb) \o KeysOf(t)
    <3>1. fb \in Seq(Item) /\ t \in Seq(Item) /\ held = fb \o t
      BY <1>3, <1>7
    <3> HIDE DEF fb, t, held
    <3> QED BY ONLY <3>1, KeysJoin
  <2>2. KeysOf(f \o <<both>>) = KeysOf(f) \o KeysOf(<<both>>)
    BY <1>2, <1>7, KeysJoin
  <2>3. KeysOf(f \o <<a>>) = KeysOf(f) \o KeysOf(<<a>>) /\ KeysOf(<<b>> \o t) = KeysOf(<<b>>) \o KeysOf(t)
    BY <1>2, <1>3, <1>7, KeysJoin
  <2>4. KeysOf(<<a>>) = Keys(a) /\ KeysOf(<<b>>) = Keys(b) /\ KeysOf(<<both>>) = Keys(both)
    BY <1>2, <1>3, <1>5, KeysJoin
  <2> DEFINE kf == KeysOf(f)  ka == Keys(a)  kb == Keys(b)  kt == KeysOf(t)
  <2>5. kf \in Seq(Key) /\ ka \in Seq(Key) /\ kb \in Seq(Key) /\ kt \in Seq(Key)
    BY <1>2, <1>3, KeysFlat, KeysOfItem
  <2>6. /\ KeysOf(held) = (kf \o (ka \o kb)) \o kt
        /\ KeysOf(l.items) = kf \o ka /\ KeysOf(r.items) = kb \o kt
    BY <1>2, <1>3, <1>6, <2>1, <2>2, <2>3, <2>4
  <2> HIDE DEF kf, ka, kb, kt, held
  <2>7. (kf \o ka) \o kb = kf \o (ka \o kb)
    BY ONLY <2>5, ConcatAssociative
  <2>8. kf \o ka \in Seq(Key)
    BY <2>5
  <2>9. ((kf \o ka) \o kb) \o kt = (kf \o ka) \o (kb \o kt)
    <3> DEFINE fa == kf \o ka
    <3> HIDE DEF fa
    <3>1. fa \in Seq(Key)
      BY <2>8 DEF fa
    <3>2. (fa \o kb) \o kt = fa \o (kb \o kt)
      BY ONLY <2>5, <3>1, ConcatAssociative, SMTT(30)
    <3> QED BY <3>2 DEF fa
  <2> QED BY <2>6, <2>7, <2>9
<1>9. ChunkRight(m, d, s) /\ Reworked(<<l>> \o <<r>>, <<m>>, d, s)
  BY MergeRight
<1>10. KeysOf(m.items) = KeysOf(held) /\ ToSet(KeysOf(held)) \subseteq ToSet(DocKeys(d))
  <2>1. m.items = l.items \o r.items
    BY DEF Merged
  <2>2. KeysOf(m.items) = KeysOf(l.items) \o KeysOf(r.items)
    BY <1>1, <2>1, KeysJoin
  <2>3. ToSet(KeysOf(m.items)) \subseteq ToSet(DocKeys(d))
    BY <1>9 DEF ChunkRight
  <2> QED BY <1>8, <2>2, <2>3
<1> DEFINE new == Renewed(m, held)
<1>11. Joined(l, r) = new
  BY DEF Joined, Renewed, a, b, f, t, both
<1> HIDE DEF held, m
<1>12. ChunkRight(new, d, s) /\ new.items = held /\ new.notes = m.notes
  <2>1. HeldRight(held, d)
    BY <1>7, <1>10 DEF HeldRight
  <2> QED BY <1>9, <2>1, RebuiltNew
<1> HIDE DEF new
<1>13. Reworked(<<m>>, <<new>>, d, s)
  <2>1. m \in Chunk /\ new \in Chunk
    BY <1>9, <1>12 DEF ChunkRight
  <2>2. AllKeys(<<m>>) = KeysOf(m.items) /\ AllKeys(<<new>>) = KeysOf(new.items)
    BY <2>1, AllKeysJoin
  <2>3. ListRight(<<m>>, d, s) /\ ListRight(<<new>>, d, s)
    BY <1>9, <1>12, One
  <2>4. \A n, k : Bears(<<m>>, n, k) => Bears(<<new>>, n, k)
    BY <1>10, <1>12, One
  <2> QED BY <1>10, <1>12, <2>2, <2>3, <2>4 DEF Reworked
<1>14. Reworked(<<l>> \o <<r>>, <<new>>, d, s)
  BY <1>9, <1>13, ReworkedTwice
<1> QED BY <1>11, <1>14

\* What the keys of an item say of it.
LEMMA ItemRight ==
    ASSUME NEW d \in Documents, NEW item \in Item, ToSet(Keys(item)) \subseteq ToSet(DocKeys(d))
    PROVE  /\ item.unit \in DOMAIN d
           /\ ToSet(item.rows) \subseteq ToSet(d[item.unit].rows)
           /\ d[item.unit].rows = <<>> => Keys(item) = << <<item.unit, 0>> >>
<1> DEFINE u == item.unit  rows == item.rows  ks == Keys(item)
<1>1. u \in Nat /\ rows \in Seq(Nat \ {0})
  BY DEF Item
<1>2. /\ ks \in Seq(Key) /\ ks # <<>>
      /\ rows = <<>> => ks = << <<u, 0>> >>
      /\ rows # <<>> => Len(ks) = Len(rows) /\ \A i \in 1..Len(rows) : ks[i] = <<u, rows[i]>>
  BY KeysOfItem
<1>3. \A i \in 1..Len(ks) : KeyRight(d, ks[i])
  <2> SUFFICES ASSUME NEW i \in 1..Len(ks) PROVE KeyRight(d, ks[i])
    OBVIOUS
  <2>1. ks[i] \in ToSet(DocKeys(d))
    <3>1. ks[i] \in ToSet(ks)
      BY <1>2 DEF ToSet
    <3> QED BY <3>1
  <2>2. DocKeys(d) \in Seq(Key) /\ \A j \in 1..Len(DocKeys(d)) : KeyRight(d, DocKeys(d)[j])
    BY DocKeysRight
  <2> HIDE DEF ks
  <2> QED BY <2>1, <2>2 DEF ToSet
<1> HIDE DEF ks, u, rows
<1>4. CASE rows = <<>>
  <2>1. ks[1] = <<u, 0>> /\ 1 \in 1..Len(ks)
    BY <1>2, <1>4
  <2>2. KeyRight(d, <<u, 0>>)
    BY <1>3, <2>1
  <2>3. u \in DOMAIN d /\ ToSet(rows) = {}
    BY <1>4, <2>2 DEF KeyRight, ToSet
  <2> QED BY <1>2, <1>4, <2>3 DEF ks, u, rows
<1>5. CASE rows # <<>>
  <2>1. ASSUME NEW i \in 1..Len(rows) PROVE u \in DOMAIN d /\ rows[i] \in ToSet(d[u].rows)
    <3>1. ks[i] = <<u, rows[i]>> /\ i \in 1..Len(ks) /\ rows[i] # 0
      BY <1>1, <1>2, <1>5
    <3>2. KeyRight(d, <<u, rows[i]>>)
      BY <1>3, <3>1
    <3> QED BY <3>1, <3>2 DEF KeyRight
  <2>2. 1 \in 1..Len(rows) /\ DOMAIN rows = 1..Len(rows)
    BY <1>1, <1>5
  <2>3. ToSet(rows) \subseteq ToSet(d[u].rows) /\ u \in DOMAIN d /\ rows[1] \in ToSet(d[u].rows)
    BY <2>1, <2>2 DEF ToSet
  <2>4. d[u].rows # <<>>
    <3>1. ToSet(<<>>) = {}
      BY DEF ToSet
    <3> QED BY <2>3, <3>1
  <2> QED BY <2>3, <2>4 DEF u, rows
<1> QED BY <1>4, <1>5

LEMMA UnitsOnceParts ==
    ASSUME NEW a \in Seq(Key), NEW b \in Seq(Key), UnitsOnce(a \o b)
    PROVE  /\ UnitsOnce(a) /\ UnitsOnce(b)
           /\ \A k \in ToSet(a) : k[2] = 0 => k \notin ToSet(b)
<1> DEFINE c == a \o b  m == Len(a)  n == Len(b)
<1>1. /\ m \in Nat /\ n \in Nat /\ Len(c) = m + n
      /\ \A i \in 1..m : c[i] = a[i]
      /\ \A i \in 1..n : c[m + i] = b[i]
  BY DEF c
<1>2. \A i \in 1..m : i \in 1..m + n
  BY <1>1
<1>3. \A i \in 1..n : m + i \in 1..m + n
  BY <1>1
<1>4. DOMAIN a = 1..m /\ DOMAIN b = 1..n
  OBVIOUS
<1> HIDE DEF c, m, n
<1>5. \A i, j \in 1..m + n : c[i] = c[j] /\ c[i][2] = 0 => i = j
  BY <1>1 DEF UnitsOnce, c
<1>6. ASSUME NEW i \in 1..m, NEW j \in 1..m, a[i] = a[j], a[i][2] = 0 PROVE i = j
  BY <1>1, <1>2, <1>5, <1>6
<1>7. ASSUME NEW i \in 1..n, NEW j \in 1..n, b[i] = b[j], b[i][2] = 0 PROVE i = j
  <2>1. m + i = m + j
    <3> DEFINE x == m + i  y == m + j
    <3>1. x \in 1..m + n /\ y \in 1..m + n /\ c[x] = b[i] /\ c[y] = b[j]
      BY <1>1, <1>3
    <3> HIDE DEF x, y
    <3>2. x = y
      BY <1>5, <1>7, <3>1
    <3> QED BY <3>2 DEF x, y
  <2> QED BY <1>1, <2>1
<1>8. ASSUME NEW k \in ToSet(a), k[2] = 0, k \in ToSet(b) PROVE FALSE
  <2>1. PICK i \in 1..m : a[i] = k
    BY <1>4, <1>8 DEF ToSet
  <2>2. PICK j \in 1..n : b[j] = k
    BY <1>4, <1>8 DEF ToSet
  <2> DEFINE y == m + j
  <2>3. i \in 1..m + n /\ y \in 1..m + n /\ c[i] = k /\ c[y] = k /\ i # y
    BY <1>1, <1>2, <1>3, <2>1, <2>2
  <2> HIDE DEF y
  <2> QED BY <1>5, <1>8, <2>3
<1> QED BY <1>6, <1>7, <1>8 DEF UnitsOnce, m, n

\* The items that Trailing counts are headings.
LEMMA TrailingRight ==
    ASSUME NEW l, NEW r, l.items \in Seq(Item)
    PROVE  /\ Trailing(l, r) \in 0..Len(l.items)
           /\ \A i \in Len(l.items) - Trailing(l, r) + 1..Len(l.items) : doc[l.items[i].unit].heading
<1> DEFINE n == Len(l.items)
           Stays(i) == ~Shape(l.items[i]).heading \/ DifferentSections(l.items[i], r.items[1])
           last == {i \in DOMAIN l.items : Stays(i)}
           most == CHOOSE i \in last : \A j \in last : j <= i
<1>1. n \in Nat /\ DOMAIN l.items = 1..n
  OBVIOUS
<1>2. Trailing(l, r) = IF last = {} THEN n ELSE n - most
  BY DEF Trailing
<1>3. \A i \in 1..n : i \notin last => doc[l.items[i].unit].heading
  BY <1>1 DEF Shape
<1> HIDE DEF n, last
<1>4. CASE last = {}
  BY <1>1, <1>2, <1>3, <1>4 DEF n
<1>5. CASE last # {}
  <2>1. last \in SUBSET (1..n)
    BY <1>1 DEF last
  <2>3. \E i \in last : \A j \in last : j <= i
    <3>1. \E x \in last : \A y \in last : x >= y
      BY <1>1, <1>5, <2>1, MaxExists
    <3> QED BY <2>1, <3>1
  <2>4. most \in last /\ \A j \in last : j <= most
    BY <2>3
  <2>5. most \in 1..n
    BY <2>1, <2>4
  <2> HIDE DEF most
  <2>6. Trailing(l, r) = n - most
    BY <1>2, <1>5
  <2>7. n - most \in 0..n /\ n - (n - most) = most
    BY <1>1, <2>5
  <2>8. \A i \in most + 1..n : i \in 1..n /\ i \notin last
    BY <1>1, <2>1, <2>4, <2>5
  <2> QED BY <1>3, <2>6, <2>7, <2>8 DEF n
<1> QED BY <1>4, <1>5

\* A unit without rows is in items only with its key.
LEMMA UnitKey ==
    ASSUME NEW d \in Documents, NEW u, u \in DOMAIN d => d[u].rows = <<>>,
           NEW held \in Seq(Item), ToSet(KeysOf(held)) \subseteq ToSet(DocKeys(d)),
           <<u, 0>> \notin ToSet(KeysOf(held))
    PROVE  u \notin UnitsOf(held)
<1> SUFFICES ASSUME NEW i \in DOMAIN held, held[i].unit = u PROVE FALSE
  BY DEF UnitsOf
<1> DEFINE item == held[i]
<1>1. item \in Item /\ item \in ToSet(held)
  BY DEF ToSet
<1>2. ToSet(KeysOf(held)) = UNION {ToSet(Keys(a)) : a \in ToSet(held)}
  BY KeysJoin
<1>3. ToSet(Keys(item)) \subseteq ToSet(KeysOf(held))
  BY <1>1, <1>2
<1>4. item.unit = u
  OBVIOUS
<1> HIDE DEF item
<1>5. ToSet(Keys(item)) \subseteq ToSet(DocKeys(d))
  BY <1>3
<1>6. Keys(item) = << <<u, 0>> >>
  BY <1>1, <1>4, <1>5, ItemRight
<1>7. <<u, 0>> \in ToSet(Keys(item))
  BY <1>6 DEF ToSet
<1> QED BY <1>3, <1>7

\* What becomes of two chunks when the last items of the first are moved.
Remains(l, left) == IF left = <<>> THEN <<>> ELSE <<Regrouped(l, left)>>
Receives(l, r, tail) ==
    [Regrouped(r, tail \o r.items) EXCEPT !.notes = @ \cup l.notes, !.oversize = @ \/ l.oversize]

LEMMA MoveRight ==
    ASSUME doc \in Documents, NEW s, NEW l, NEW r, ChunkRight(l, doc, s), ChunkRight(r, doc, s),
           UnitsOnce(KeysOf(l.items) \o KeysOf(r.items)),
           NEW left \in Seq(Item), NEW tail \in Seq(Item), l.items = left \o tail, tail # <<>>,
           \A h \in ToSet(tail) : doc[h.unit].heading
    PROVE  Reworked(<<l>> \o <<r>>, Remains(l, left) \o <<Receives(l, r, tail)>>, doc, s)
<1> DEFINE ks == ToSet(DocKeys(doc))  held == tail \o r.items
           kl == KeysOf(left)  kt == KeysOf(tail)  kr == KeysOf(r.items)
<1>1. /\ l \in Chunk /\ r \in Chunk /\ r.items \in Seq(Item) /\ r.items # <<>>
      /\ ToSet(KeysOf(l.items)) \subseteq ks /\ ToSet(kr) \subseteq ks
  BY DEF ChunkRight, Chunk
<1>2. kl \in Seq(Key) /\ kt \in Seq(Key) /\ kr \in Seq(Key) /\ KeysOf(l.items) = kl \o kt
  BY <1>1, KeysFlat, KeysJoin, SMTT(30)
<1>3. held \in Seq(Item) /\ held # <<>> /\ KeysOf(held) = kt \o kr
  <2>1. held \in Seq(Item) /\ KeysOf(held) = kt \o kr
    BY <1>1, KeysJoin
  <2>2. held # <<>>
    BY <1>1
  <2> QED BY <2>1, <2>2
<1> HIDE DEF held, kl, kt, kr
<1>4. ToSet(KeysOf(l.items)) = ToSet(kl) \cup ToSet(kt) /\ ToSet(KeysOf(held)) = ToSet(kt) \cup ToSet(kr)
  BY <1>2, <1>3, ToSetConcat
<1> DEFINE h == tail[1]  u == h.unit  k == <<u, 0>>
<1>5. h \in Item /\ h \in ToSet(tail)
  BY DEF ToSet
<1>6. ToSet(Keys(h)) \subseteq ToSet(kt)
  BY <1>5, KeysJoin DEF kt
<1>7. ToSet(Keys(h)) \subseteq ToSet(DocKeys(doc))
  BY <1>1, <1>4, <1>6
<1>8. u \in DOMAIN doc /\ doc[u].rows = <<>>
  <2>1. u \in DOMAIN doc
    BY <1>5, <1>7, ItemRight
  <2>2. doc[u].heading
    BY <1>5
  <2> HIDE DEF u
  <2> QED BY <2>1, <2>2, UnitRight
<1>9. k \in ToSet(kt) /\ k[2] = 0
  <2>1. Keys(h) = << <<h.unit, 0>> >>
    BY <1>5, <1>7, <1>8, ItemRight
  <2>2. k \in ToSet(Keys(h))
    BY <2>1 DEF ToSet
  <2> QED BY <1>6, <2>2
<1> HIDE DEF h, u
<1>10. k \notin ToSet(kl) /\ k \notin ToSet(kr)
  <2>1. UnitsOnce((kl \o kt) \o kr)
    BY <1>2 DEF kr
  <2> DEFINE kk == kl \o kt
  <2>2. kk \in Seq(Key) /\ ToSet(kk) = ToSet(kl) \cup ToSet(kt)
    BY <1>2, ToSetConcat
  <2> HIDE DEF kk
  <2>3. UnitsOnce(kk) /\ \A x \in ToSet(kk) : x[2] = 0 => x \notin ToSet(kr)
    BY <1>2, <2>1, <2>2, UnitsOnceParts DEF kk
  <2>4. \A x \in ToSet(kl) : x[2] = 0 => x \notin ToSet(kt)
    BY <1>2, <2>3, UnitsOnceParts DEF kk
  <2> HIDE DEF k
  <2> QED BY <1>9, <2>2, <2>3, <2>4
<1>11. u \notin UnitsOf(left) /\ u \notin UnitsOf(r.items)
  <2>1. ToSet(KeysOf(left)) \subseteq ToSet(DocKeys(doc)) /\ <<u, 0>> \notin ToSet(KeysOf(left))
    BY <1>1, <1>4, <1>10 DEF kl
  <2>2. ToSet(KeysOf(r.items)) \subseteq ToSet(DocKeys(doc)) /\ <<u, 0>> \notin ToSet(KeysOf(r.items))
    BY <1>1, <1>10 DEF kr
  <2> HIDE DEF ks
  <2> QED BY <1>1, <1>8, <2>1, <2>2, UnitKey
<1>12. u \in UnitsOf(l.items) /\ u \in UnitsOf(held)
  <2>1. 1 \in DOMAIN tail /\ tail[1].unit = u
    BY DEF u, h
  <2>2. Len(left) \in Nat /\ Len(left) + 1 \in DOMAIN l.items /\ l.items[Len(left) + 1] = tail[1]
    BY <2>1
  <2>3. 1 \in DOMAIN held /\ held[1] = tail[1]
    BY <1>1, <2>1 DEF held
  <2> QED BY <2>1, <2>2, <2>3 DEF UnitsOf
<1>13. HeldRight(held, doc) /\ (left # <<>> => HeldRight(left, doc))
  BY <1>1, <1>3, <1>4 DEF HeldRight, kl
<1> DEFINE a == Regrouped(l, left)  b == Regrouped(r, held)  new == Receives(l, r, tail)
           kept == Remains(l, left)
<1>14. left # <<>> => ChunkRight(a, doc, s) /\ a.items = left /\ a.notes = l.notes
  <2>1. UnitsOf(left) # UnitsOf(l.items)
    BY <1>11, <1>12
  <2> SUFFICES ASSUME left # <<>> PROVE ChunkRight(a, doc, s) /\ a.items = left /\ a.notes = l.notes
    OBVIOUS
  <2>2. HeldRight(left, doc)
    BY <1>13
  <2> HIDE DEF a
  <2>3. ChunkRight(l, doc, s)
    OBVIOUS
  <2>4. ChunkRight(a, doc, s)
    BY ONLY <2>1, <2>2, <2>3, RebuiltFlagged DEF a
  <2>5. a.items = left /\ a.notes = l.notes
    BY ONLY <2>1, <2>2, <2>3, RebuiltFlagged DEF a
  <2> QED BY ONLY <2>4, <2>5
<1>15. ChunkRight(b, doc, s) /\ b.items = held /\ b.notes = r.notes
  <2>1. UnitsOf(held) # UnitsOf(r.items)
    BY <1>11, <1>12
  <2> QED BY <1>13, <2>1, RebuiltFlagged
<1>16. /\ new.items = held /\ new.notes = r.notes \cup l.notes /\ ChunkRight(new, doc, s)
  <2>1. new = [b EXCEPT !.notes = b.notes \cup l.notes, !.oversize = b.oversize \/ l.oversize]
    BY DEF Receives, held
  <2> HIDE DEF b, new
  <2>2. b \in Chunk /\ l.notes \in SUBSET Nat
    BY <1>1, <1>15 DEF ChunkRight, Chunk
  <2>3. /\ new \in Chunk /\ new.items = b.items /\ new.wrote = b.wrote /\ new.flagged = b.flagged
        /\ new.notes = b.notes \cup l.notes /\ (b.oversize => new.oversize)
    BY <2>1, <2>2 DEF Chunk
  <2>4. l.notes \subseteq DOMAIN s
    BY DEF ChunkRight
  <2> QED BY <1>15, <2>3, <2>4 DEF ChunkRight
<1> HIDE DEF a, b, new
<1>17. kept \in Seq(Chunk) /\ ListRight(kept, doc, s) /\ AllKeys(kept) = kl
  <2>1. CASE left = <<>>
    <3>1. kept = <<>> /\ <<>> \in Seq(Chunk) /\ ToSet(<<>>) = {}
      BY <2>1 DEF Remains, ToSet
    <3>2. kl = <<>>
      BY <2>1, KeysJoin DEF kl
    <3> QED BY <3>1, <3>2, AllKeysJoin DEF ListRight
  <2>2. CASE left # <<>>
    <3>1. kept = <<a>>
      BY <2>2 DEF Remains, a
    <3>2. ChunkRight(a, doc, s) /\ a.items = left /\ a \in Chunk
      BY <1>14, <2>2 DEF ChunkRight
    <3> HIDE DEF kept
    <3> QED BY <3>1, <3>2, One, AllKeysJoin DEF kl, ListRight
  <2> QED BY <2>1, <2>2
<1>18. ASSUME NEW n, NEW x, n \in l.notes, x \in ToSet(kl) PROVE Bears(kept, n, x)
  <2>1. left # <<>>
    <3>1. kl = <<>> => ToSet(kl) = {}
      BY DEF ToSet
    <3> QED BY <1>18, <3>1, KeysJoin DEF kl
  <2>2. kept = <<a>> /\ a.items = left /\ a.notes = l.notes
    BY <1>14, <2>1 DEF Remains, a
  <2> HIDE DEF kept
  <2> QED BY <1>18, <2>2, One DEF kl
<1> HIDE DEF kept
<1>19. <<l>> \in Seq(Chunk) /\ <<r>> \in Seq(Chunk) /\ <<new>> \in Seq(Chunk) /\ new \in Chunk
  BY <1>1, <1>16 DEF ChunkRight
<1>20. AllKeys(kept \o <<new>>) = AllKeys(<<l>> \o <<r>>)
  <2>1. AllKeys(kept \o <<new>>) = kl \o (kt \o kr)
    <3>1. AllKeys(<<new>>) = kt \o kr
      BY <1>3, <1>16, <1>19, AllKeysJoin
    <3> DEFINE one == <<new>>
    <3>2. kept \in Seq(Chunk) /\ one \in Seq(Chunk) /\ AllKeys(one) = kt \o kr /\ AllKeys(kept) = kl
      BY <1>17, <1>19, <3>1
    <3> HIDE DEF one
    <3>3. AllKeys(kept \o one) = AllKeys(kept) \o AllKeys(one)
      BY <3>2, AllKeysJoin
    <3>4. AllKeys(kept \o one) = kl \o (kt \o kr)
      BY <3>2, <3>3
    <3> QED BY <3>4 DEF one
  <2>2. AllKeys(<<l>> \o <<r>>) = (kl \o kt) \o kr
    <3>1. AllKeys(<<l>>) = kl \o kt /\ AllKeys(<<r>>) = kr
      BY <1>1, <1>2, AllKeysJoin DEF kr
    <3> QED BY <1>19, <3>1, AllKeysJoin
  <2>3. (kl \o kt) \o kr = kl \o (kt \o kr)
    <3>1. kl \in Seq(Key) /\ kt \in Seq(Key) /\ kr \in Seq(Key)
      BY <1>2
    <3> HIDE DEF kl, kt, kr
    <3> QED BY ONLY <3>1, ConcatAssociative, SMTT(30)
  <2> QED BY <2>1, <2>2, <2>3
<1>21. ListRight(<<l>> \o <<r>>, doc, s) /\ ListRight(kept \o <<new>>, doc, s)
  BY <1>16, <1>17, <1>19, One, ListsJoin
<1>22. ASSUME NEW n, NEW x, Bears(<<l>> \o <<r>>, n, x) PROVE Bears(kept \o <<new>>, n, x)
  <2>1. Bears(<<l>>, n, x) \/ Bears(<<r>>, n, x)
    BY <1>19, <1>22, ListsJoin
  <2>2. Bears(kept, n, x) \/ Bears(<<new>>, n, x)
    <3>1. CASE Bears(<<l>>, n, x)
      <4>1. n \in l.notes /\ x \in ToSet(kl) \cup ToSet(kt)
        BY <1>4, <3>1, One
      <4> QED BY <1>4, <1>16, <1>18, <4>1, One
    <3>2. CASE Bears(<<r>>, n, x)
      <4>1. n \in r.notes /\ x \in ToSet(kr)
        BY <3>2, One DEF kr
      <4> QED BY <1>4, <1>16, <4>1, One
    <3> QED BY <2>1, <3>1, <3>2
  <2> QED BY <1>17, <1>19, <2>2, ListsJoin
<1>23. Reworked(<<l>> \o <<r>>, kept \o <<new>>, doc, s)
  BY <1>20, <1>21, <1>22 DEF Reworked
<1> QED BY <1>23 DEF kept, new

-----------------------------------------------------------------------------
(* The invariant *)

\* The chunks hold the evidence of the document, and every planned chunk's warnings
\* are borne by some evidence it had.
Faithful(cs, d, s) ==
    /\ ListRight(cs, d, s)
    /\ AllKeys(cs) = DocKeys(d)
    /\ \A n \in DOMAIN s : \E k \in ToSet(KeysOf(s[n].items)) : Bears(cs, n, k)

StateType ==
    /\ doc \in Documents /\ start \in Seq(Chunk) /\ pass \in ToSet(Passes)
    /\ result \in Seq(Chunk) /\ run \in Seq(Chunk) /\ todo \in Seq(Chunk)
    /\ run # <<>> => pass = "coalesce"

IInv == StateType /\ Faithful(List, doc, start)

LEMMA Associative ==
    ASSUME NEW x \in Seq(Chunk), NEW y \in Seq(Chunk), NEW z \in Seq(Chunk)
    PROVE  (x \o y) \o z = x \o (y \o z)
BY ConcatAssociative

\* Part of a list may be reworked.
LEMMA FaithfulRework ==
    ASSUME NEW d, NEW s, NEW a \in Seq(Chunk), NEW old, NEW new, NEW b \in Seq(Chunk),
           Reworked(old, new, d, s), Faithful((a \o old) \o b, d, s)
    PROVE  Faithful((a \o new) \o b, d, s)
<1>1. old \in Seq(Chunk) /\ new \in Seq(Chunk)
  BY DEF Reworked, ListRight
<1> DEFINE l == a \o old  m == a \o new
<1>2. l \in Seq(Chunk) /\ m \in Seq(Chunk)
  BY <1>1, ConcatProperties
<1>3. ListRight(l, d, s) /\ ListRight(b, d, s)
  <2> HIDE DEF l
  <2> QED BY <1>2, ListsJoin DEF Faithful, l
<1>4. ListRight(a, d, s)
  BY <1>1, <1>3, ListsJoin
<1>5. Reworked(a, a, d, s) /\ Reworked(b, b, d, s)
  BY <1>3, <1>4, ReworkedSame
<1>6. Reworked(l, m, d, s)
  BY <1>5, ReworkedJoin
<1>7. Reworked(l \o b, m \o b, d, s)
  <2> HIDE DEF l, m
  <2> QED BY <1>5, <1>6, ReworkedJoin
<1> QED BY <1>7 DEF Faithful, Reworked

\* What is in a list of chunks that is right.
LEMMA PartsRight ==
    ASSUME NEW d, NEW s, NEW a \in Seq(Chunk), NEW old \in Seq(Chunk), NEW b \in Seq(Chunk),
           Faithful((a \o old) \o b, d, s)
    PROVE  ListRight(a, d, s) /\ ListRight(old, d, s) /\ ListRight(b, d, s)
<1> DEFINE l == a \o old
<1>1. l \in Seq(Chunk)
  BY ConcatProperties
<1>2. ListRight(l, d, s) /\ ListRight(b, d, s)
  <2> HIDE DEF l
  <2> QED BY <1>1, ListsJoin DEF Faithful, l
<1> QED BY <1>2, ListsJoin

LEMMA FirstOf ==
    ASSUME NEW s \in Seq(Chunk), s # <<>>
    PROVE  /\ Head(s) \in Chunk /\ Tail(s) \in Seq(Chunk) /\ <<Head(s)>> \in Seq(Chunk)
           /\ s = <<Head(s)>> \o Tail(s)
<1>1. Head(s) \in Chunk /\ Tail(s) \in Seq(Chunk)
  BY HeadTailProperties
<1>2. Len(s) \in Nat \ {0}
  BY EmptySeq
<1>3. s = <<Head(s)>> \o Tail(s)
  BY <1>2
<1> QED BY <1>1, <1>3

LEMMA PassFollows ==
    ASSUME pass \in ToSet(Passes), pass # "done"
    PROVE  NextPass \in ToSet(Passes)
<1> DEFINE I == {i \in 1..Len(Passes) : Passes[i] = pass}
<1>1. DOMAIN Passes = 1..7 /\ Len(Passes) = 7 /\ Passes[7] = "done"
  BY DEF Passes
<1>2. PICK i \in 1..7 : Passes[i] = pass
  BY <1>1 DEF ToSet
<1>3. I \in SUBSET (1..7) /\ I # {}
  BY <1>1, <1>2
<1>4. \E x \in I : \A y \in I : x =< y
  <2>1. \A T \in SUBSET (1..7) : T # {} => \E x \in T : \A y \in T : x =< y
    <3> SUFFICES ASSUME NEW T \in SUBSET (1..7), T # {} PROVE \E x \in T : \A y \in T : x =< y
      OBVIOUS
    <3>1. CASE 1 \in T
      BY <3>1
    <3>2. CASE 1 \notin T /\ 2 \in T
      BY <3>2
    <3>3. CASE 1 \notin T /\ 2 \notin T /\ 3 \in T
      BY <3>3
    <3>4. CASE 1 \notin T /\ 2 \notin T /\ 3 \notin T /\ 4 \in T
      BY <3>4
    <3>5. CASE 1 \notin T /\ 2 \notin T /\ 3 \notin T /\ 4 \notin T /\ 5 \in T
      BY <3>5
    <3>6. CASE T \in SUBSET {6, 7}
      <4>1. CASE 6 \in T
        BY <3>6, <4>1
      <4>2. CASE 6 \notin T
        <5>1. PICK x \in T : TRUE
          OBVIOUS
        <5>2. \A y \in T : y = 7
          BY <3>6, <4>2
        <5> QED BY <5>1, <5>2
      <4> QED BY <4>1, <4>2
    <3>7. 1 \in T \/ 2 \in T \/ 3 \in T \/ 4 \in T \/ 5 \in T \/ T \in SUBSET {6, 7}
      OBVIOUS
    <3> QED BY <3>1, <3>2, <3>3, <3>4, <3>5, <3>6, <3>7
  <2> HIDE DEF I
  <2> QED BY <1>3, <2>1
<1>5. Min(I) \in I
  BY <1>4 DEF Min
<1>6. SelectInSeq(Passes, LAMBDA p : p = pass) = Min(I)
  BY <1>3 DEF SelectInSeq
<1>7. Min(I) \in 1..7 /\ Passes[Min(I)] = pass
  BY <1>5, <1>1
<1>8. Min(I) + 1 \in 1..7
  <2>1. Min(I) # 7
    BY <1>1, <1>7
  <2> HIDE DEF I
  <2> QED BY <1>7, <2>1
<1>9. NextPass = Passes[Min(I) + 1]
  BY <1>6 DEF NextPass
<1> QED BY <1>1, <1>8, <1>9 DEF ToSet

LEMMA SomeKey ==
    ASSUME NEW held \in Seq(Item), held # <<>>
    PROVE  ToSet(KeysOf(held)) # {}
<1>1. 1 \in DOMAIN held /\ held[1] \in Item /\ held[1] \in ToSet(held)
  <2>1. Len(held) \in Nat \ {0}
    BY EmptySeq
  <2> QED BY <2>1 DEF ToSet
<1>2. Keys(held[1]) \in Seq(Key) /\ Keys(held[1]) # <<>>
  BY <1>1, KeysOfItem
<1>3. ToSet(Keys(held[1])) # {}
  <2> DEFINE ks == Keys(held[1])
  <2>1. Len(ks) \in Nat \ {0}
    BY <1>2, EmptySeq
  <2>2. 1 \in DOMAIN ks
    BY <1>2, <2>1
  <2> HIDE DEF ks
  <2> QED BY <2>2 DEF ToSet, ks
<1>4. ToSet(KeysOf(held)) = UNION {ToSet(Keys(a)) : a \in ToSet(held)}
  BY KeysJoin
<1>5. PICK k : k \in ToSet(Keys(held[1]))
  BY <1>3
<1>6. k \in ToSet(KeysOf(held))
  BY <1>1, <1>4, <1>5
<1> QED BY <1>6

\* The chunks that planning makes.
LEMMA PlannedRight ==
    ASSUME NEW d \in Documents, NEW held \in ItemCuts(d), NEW parts \in ChunkCuts(held), NEW failed,
           NEW s, s = [i \in DOMAIN parts |-> PlannedChunk(i, parts[i], i \in failed)]
    PROVE  s \in Seq(Chunk) /\ Faithful(s, d, s)
<1>1. held \in Seq(Item) /\ KeysOf(held) = DocKeys(d)
  BY ItemCutsRight
<1>2. /\ parts \in Seq(Seq(Item)) /\ \A i \in DOMAIN parts : parts[i] # <<>>
      /\ FlattenSeq([i \in DOMAIN parts |-> KeysOf(parts[i])]) = DocKeys(d)
  BY <1>1, ChunkCutsRight
<1>3. Len(parts) \in Nat /\ DOMAIN parts = 1..Len(parts) /\ \A i \in DOMAIN parts : parts[i] \in Seq(Item)
  BY <1>2
<1>4. ASSUME NEW i \in DOMAIN parts
      PROVE  /\ s[i] \in Chunk /\ s[i].items = parts[i] /\ s[i].wrote = KeysOf(parts[i])
             /\ s[i].notes = {i} /\ s[i].oversize = TooMany(parts[i])
  <2>1. i \in Nat /\ parts[i] \in Seq(Item) /\ KeysOf(parts[i]) \in Seq(Key)
    BY <1>3, KeysFlat
  <2>2. TooMany(parts[i]) \in BOOLEAN /\ (i \in failed) \in BOOLEAN
    BY DEF TooMany
  <2>3. s[i] = PlannedChunk(i, parts[i], i \in failed)
    OBVIOUS
  <2> QED BY <2>1, <2>2, <2>3 DEF PlannedChunk, Chunk
<1>5. DOMAIN s = DOMAIN parts
  OBVIOUS
<1>6. s \in Seq(Chunk)
  <2>1. s \in [1..Len(parts) -> Chunk]
    <3>1. \A i \in DOMAIN parts : PlannedChunk(i, parts[i], i \in failed) \in Chunk
      BY <1>4
    <3> QED BY <1>3, <3>1
  <2> QED BY <1>3, <2>1
<1>7. AllKeys(s) = DocKeys(d)
  <2>1. [i \in DOMAIN s |-> KeysOf(s[i].items)] = [i \in DOMAIN parts |-> KeysOf(parts[i])]
    BY <1>4, <1>5
  <2> QED BY <1>2, <2>1 DEF AllKeys
<1>8. ASSUME NEW c \in ToSet(s) PROVE ChunkRight(c, d, s)
  <2>1. PICK i \in DOMAIN parts : c = s[i]
    BY <1>5 DEF ToSet
  <2>2. ToSet(KeysOf(c.items)) \subseteq ToSet(DocKeys(d))
    BY <1>6, <1>7, AllKeysJoin
  <2> QED BY <1>2, <1>4, <1>5, <2>1, <2>2 DEF ChunkRight
<1>9. ASSUME NEW n \in DOMAIN s PROVE \E k \in ToSet(KeysOf(s[n].items)) : Bears(s, n, k)
  <2>1. s[n] \in ToSet(s) /\ n \in s[n].notes
    BY <1>4, <1>5 DEF ToSet
  <2>2. ToSet(KeysOf(s[n].items)) # {}
    <3>1. n \in DOMAIN parts /\ parts[n] \in Seq(Item) /\ parts[n] # <<>> /\ s[n].items = parts[n]
      BY <1>2, <1>3, <1>4, <1>5
    <3> QED BY ONLY <3>1, SomeKey
  <2> QED BY <2>1, <2>2 DEF Bears
<1> QED BY <1>6, <1>7, <1>8, <1>9 DEF Faithful, ListRight

LEMMA InitIInv ==
    Init => IInv
<1> SUFFICES ASSUME Init PROVE IInv
  OBVIOUS
<1>1. doc \in Documents /\ pass = "coalesce" /\ todo = start /\ run = <<>> /\ result = <<>>
  BY DEF Init
<1>2. start \in Seq(Chunk) /\ Faithful(start, doc, start)
  <2>1. PICK held \in ItemCuts(doc) : \E parts \in ChunkCuts(held) : \E failed \in SUBSET {i \in DOMAIN parts : ~TooMany(parts[i])} :
                start = [i \in DOMAIN parts |-> PlannedChunk(i, parts[i], i \in failed)]
    BY DEF Init
  <2> QED BY <1>1, <2>1, PlannedRight
<1>3. List = start
  BY <1>1, <1>2, ConcatEmptySeq DEF List
<1>4. "coalesce" \in ToSet(Passes)
  BY DEF Passes, ToSet
<1> QED BY <1>1, <1>2, <1>3, <1>4 DEF IInv, StateType

-----------------------------------------------------------------------------
(* The steps *)

\* What every step of a pass may use.
LEMMA ListIs ==
    ASSUME StateType
    PROVE  /\ result \o run \in Seq(Chunk) /\ (result \o run) \o todo \in Seq(Chunk)
           /\ run = <<>> => List = result \o todo
<1>1. result \in Seq(Chunk) /\ run \in Seq(Chunk) /\ todo \in Seq(Chunk)
  BY DEF StateType
<1> DEFINE l == result \o run
<1>2. l \in Seq(Chunk) /\ (run = <<>> => l = result)
  BY <1>1
<1>3. l \o todo \in Seq(Chunk) /\ List = l \o todo
  <2>1. List = l \o todo
    BY DEF List
  <2> HIDE DEF l
  <2> QED BY <1>1, <1>2, <2>1
<1> QED BY <1>2, <1>3

LEMMA CoalesceStep ==
    ASSUME IInv, Coalesce
    PROVE  IInv'
<1> USE DEF IInv, StateType
<1> DEFINE c == Head(todo)  t == Tail(todo)  one == <<c>>  fl == Flushed
<1>1. c \in Chunk /\ t \in Seq(Chunk) /\ one \in Seq(Chunk) /\ todo = one \o t
  BY FirstOf DEF Coalesce
<1>2. /\ todo' = t /\ doc' = doc /\ start' = start /\ pass' = pass /\ pass = "coalesce"
      /\ \/ result' = result \o fl /\ run' = one
         \/ result' = result /\ run' = Append(run, c)
         \/ result' = Append(result \o fl, c) /\ run' = <<>>
  BY DEF Coalesce
<1>3. ListRight(run, doc, start)
  BY PartsRight DEF List
<1>4. Reworked(run, fl, doc, start)
  BY <1>3, FlushedRight
<1>5. fl \in Seq(Chunk)
  BY <1>4 DEF Reworked, ListRight
<1> HIDE DEF c, one, t, fl
<1>6. Faithful((result \o fl) \o todo, doc, start)
  BY <1>4, FaithfulRework DEF List
<1> DEFINE rf == result \o fl
<1>7. rf \in Seq(Chunk)
  BY <1>5, ConcatProperties
<1>8. CASE result' = rf /\ run' = one
  <2>1. List' = (rf \o one) \o t
    BY <1>2, <1>8 DEF List
  <2> HIDE DEF rf
  <2>2. List' = rf \o todo
    BY ONLY <1>1, <1>7, <2>1, Associative
  <2>3. Faithful(List, doc, start)'
    BY <1>2, <1>6, <2>2 DEF rf
  <2> QED BY <1>1, <1>2, <1>7, <1>8, <2>3
<1>9. CASE result' = result /\ run' = Append(run, c)
  <2> DEFINE ro == run \o one  rr == result \o run
  <2>1. run' = ro /\ ro \in Seq(Chunk) /\ rr \in Seq(Chunk)
    BY <1>1, <1>9 DEF one
  <2>2. List' = (result \o ro) \o t
    BY <1>2, <1>9, <2>1 DEF List
  <2>3. result \o ro = rr \o one
    BY ONLY <1>1, Associative
  <2>4. List = rr \o (one \o t)
    BY <1>1 DEF List
  <2> HIDE DEF ro, rr
  <2>5. (rr \o one) \o t = rr \o (one \o t)
    <3>1. rr \in Seq(Chunk) /\ one \in Seq(Chunk) /\ t \in Seq(Chunk)
      BY <1>1, <2>1
    <3> QED BY ONLY <3>1, Associative
  <2>7. List' = List
    BY ONLY <2>2, <2>3, <2>4, <2>5
  <2>6. Faithful(List, doc, start)'
    BY <1>2, <2>7
  <2> QED BY <1>1, <1>2, <1>9, <2>1, <2>6
<1>10. CASE result' = Append(rf, c) /\ run' = <<>>
  <2> HIDE DEF rf
  <2> DEFINE ro == rf \o one
  <2>1. result' = ro /\ ro \in Seq(Chunk)
    BY <1>1, <1>7, <1>10 DEF one
  <2>2. List' = (ro \o <<>>) \o t
    BY <1>2, <1>10, <2>1 DEF List
  <2>3. ro \o t = rf \o (one \o t)
    BY ONLY <1>1, <1>7, Associative
  <2> HIDE DEF ro
  <2>4. List' = rf \o todo
    BY <1>1, <2>1, <2>2, <2>3, ConcatEmptySeq
  <2>5. Faithful(List, doc, start)'
    BY <1>2, <1>6, <2>4 DEF rf
  <2> QED BY <1>1, <1>2, <1>10, <2>1, <2>5
<1> QED BY <1>2, <1>8, <1>9, <1>10

LEMMA EndCoalesceStep ==
    ASSUME IInv, EndCoalesce
    PROVE  IInv'
<1> USE DEF IInv, StateType
<1> DEFINE fl == Flushed
<1>1. /\ todo' = result \o fl /\ run' = <<>> /\ result' = <<>> /\ doc' = doc /\ start' = start
      /\ todo = <<>> /\ pass = "coalesce" /\ pass' = NextPass
  BY DEF EndCoalesce
<1>2. ListRight(run, doc, start)
  BY PartsRight DEF List
<1>3. Reworked(run, fl, doc, start)
  BY <1>2, FlushedRight
<1>4. fl \in Seq(Chunk)
  BY <1>3 DEF Reworked, ListRight
<1> HIDE DEF fl
<1>5. Faithful((result \o fl) \o todo, doc, start)
  BY <1>3, FaithfulRework DEF List
<1> DEFINE rf == result \o fl
<1>6. rf \in Seq(Chunk)
  BY <1>4, ConcatProperties
<1>7. List' = (<<>> \o <<>>) \o rf
  BY <1>1 DEF List
<1> HIDE DEF rf
<1>8. List' = rf /\ rf \o todo = rf
  BY <1>1, <1>6, <1>7
<1>9. Faithful(List, doc, start)'
  BY <1>1, <1>5, <1>8 DEF rf
<1>10. pass' \in ToSet(Passes)
  BY <1>1, PassFollows
<1>11. todo' \in Seq(Chunk) /\ run' \in Seq(Chunk) /\ result' \in Seq(Chunk)
  BY <1>1, <1>6 DEF rf
<1> QED BY <1>1, <1>9, <1>10, <1>11

LEMMA EndPassStep ==
    ASSUME IInv, EndPass
    PROVE  IInv'
<1> USE DEF IInv, StateType
<1>1. /\ todo' = result /\ run' = run /\ result' = <<>> /\ doc' = doc /\ start' = start
      /\ todo = <<>> /\ run = <<>> /\ pass # "done" /\ pass' = NextPass
  BY DEF EndPass
<1>2. List = result /\ List' = result
  <2>1. List = (result \o <<>>) \o <<>> /\ List' = (<<>> \o <<>>) \o result
    BY <1>1 DEF List
  <2> QED BY <2>1
<1>3. Faithful(List, doc, start)'
  BY <1>1, <1>2
<1>4. pass' \in ToSet(Passes)
  BY <1>1, PassFollows
<1> QED BY <1>1, <1>3, <1>4

\* A step that leaves the list as it is.
LEMMA ListStays ==
    ASSUME IInv, todo # <<>>, run = <<>>, todo' = Tail(todo), result' = Append(result, Head(todo)),
           UNCHANGED <<doc, start, pass, run>>
    PROVE  IInv'
<1> USE DEF IInv, StateType
<1> DEFINE c == Head(todo)  t == Tail(todo)  one == <<c>>  ro == result \o one
<1>1. c \in Chunk /\ t \in Seq(Chunk) /\ one \in Seq(Chunk) /\ todo = one \o t
  BY FirstOf
<1>2. result' = ro /\ ro \in Seq(Chunk)
  BY <1>1
<1>3. List' = (ro \o <<>>) \o t /\ List = result \o (one \o t)
  <2>1. List' = (ro \o <<>>) \o t
    BY <1>2 DEF List
  <2>2. List = result \o todo
    BY ListIs
  <2> QED BY <1>1, <2>1, <2>2
<1>4. ro \o t = result \o (one \o t)
  BY ONLY <1>1, Associative
<1> HIDE DEF c, t, one, ro
<1>5. List' = List
  <2>1. ro \o <<>> = ro
    BY ONLY <1>2, ConcatEmptySeq
  <2> QED BY ONLY <1>3, <1>4, <2>1
<1>6. Faithful(List, doc, start)'
  BY <1>5
<1>7. todo' \in Seq(Chunk) /\ run' \in Seq(Chunk) /\ result' \in Seq(Chunk)
  BY <1>1, <1>2 DEF t
<1> QED BY <1>6, <1>7

\* A step that makes new chunks of the last of result and the first of todo.
LEMMA ListReworked ==
    ASSUME IInv, run = <<>>, UNCHANGED <<doc, start, pass, run>>,
           NEW a \in Seq(Chunk), NEW old, NEW b \in Seq(Chunk),
           result \o todo = (a \o old) \o b,
           NEW new, Reworked(old, new, doc, start),
           result' \in Seq(Chunk), todo' \in Seq(Chunk), result' \o todo' = (a \o new) \o b
    PROVE  IInv'
<1> USE DEF IInv, StateType
<1>1. List = (a \o old) \o b
  BY ListIs
<1>2. Faithful((a \o new) \o b, doc, start)
  BY <1>1, FaithfulRework
<1>3. List' = (a \o new) \o b
  <2>1. List' = (result' \o <<>>) \o todo'
    BY DEF List
  <2>2. result' \o <<>> = result'
    BY ConcatEmptySeq
  <2> QED BY <2>1, <2>2
<1>4. Faithful(List, doc, start)'
  BY <1>2, <1>3
<1> QED BY <1>4

LEMMA KeepHeadingsStep ==
    ASSUME IInv, KeepHeadings
    PROVE  IInv'
<1>1. run = <<>>
  BY DEF IInv, StateType, KeepHeadings
<1> QED BY <1>1, ListStays DEF KeepHeadings

LEMMA SplitStep ==
    ASSUME IInv, Split
    PROVE  IInv'
<1> DEFINE c == Head(todo)  t == Tail(todo)  gs == Groups(c.items)
           new == [i \in DOMAIN gs |-> Rebuilt(c, gs[i], TRUE)]
<1>1. /\ run = <<>> /\ todo # <<>> /\ todo' = t /\ UNCHANGED <<doc, start, pass, run>>
      /\ result' = result \o new \/ result' = Append(result, c)
  BY DEF IInv, StateType, Split
<1>2. CASE result' = Append(result, c)
  BY <1>1, <1>2, ListStays
<1>3. CASE result' = result \o new
  <2> DEFINE one == <<c>>
  <2>1. c \in Chunk /\ t \in Seq(Chunk) /\ one \in Seq(Chunk) /\ todo = one \o t
    BY <1>1, FirstOf DEF IInv, StateType
  <2>2. result \in Seq(Chunk) /\ todo \in Seq(Chunk)
    BY DEF IInv, StateType
  <2>3. ListRight(todo, doc, start)
    BY PartsRight DEF IInv, List, StateType
  <2>4. ChunkRight(c, doc, start)
    <3> HIDE DEF c, one, t
    <3>1. ListRight(one, doc, start)
      BY <2>1, <2>3, ListsJoin
    <3> QED BY <3>1, One DEF ListRight, one
  <2>5. Reworked(one, new, doc, start)
    BY <2>4, SplitRight
  <2>6. new \in Seq(Chunk)
    BY <2>5 DEF Reworked, ListRight
  <2> HIDE DEF new, c, one
  <2>7. result' \in Seq(Chunk) /\ todo' \in Seq(Chunk)
    BY <1>1, <1>3, <2>1, <2>2, <2>6
  <2>8. result \o todo = (result \o one) \o t
    <3>1. (result \o one) \o t = result \o (one \o t)
      BY ONLY <2>1, <2>2, Associative
    <3> HIDE DEF t
    <3> QED BY ONLY <2>1, <3>1
  <2>9. result' \o todo' = (result \o new) \o t
    BY <1>1, <1>3
  <2> QED BY <1>1, <2>1, <2>2, <2>5, <2>7, <2>8, <2>9, ListReworked
<1> QED BY <1>1, <1>2, <1>3

LEMMA JoinRowsStep ==
    ASSUME IInv, JoinRows
    PROVE  IInv'
<1> DEFINE r == Head(todo)  t == Tail(todo)  l == Last(result)  f == Front(result)
           j == Joined(l, r)  onel == <<l>>  oner == <<r>>  new == <<j>>  two == onel \o oner
<1>1. /\ run = <<>> /\ todo # <<>> /\ todo' = t /\ UNCHANGED <<doc, start, pass, run>>
      /\ \/ result # <<>> /\ MayJoin(l, r) /\ result' = Append(f, j)
         \/ result' = Append(result, r)
  BY DEF IInv, StateType, JoinRows
<1>2. CASE result' = Append(result, r)
  BY <1>1, <1>2, ListStays
<1>3. CASE result # <<>> /\ MayJoin(l, r) /\ result' = Append(f, j)
  <2>1. result \in Seq(Chunk) /\ todo \in Seq(Chunk)
    BY DEF IInv, StateType
  <2>2. r \in Chunk /\ t \in Seq(Chunk) /\ oner \in Seq(Chunk) /\ todo = oner \o t
    BY <1>1, <2>1, FirstOf
  <2>3. l \in Chunk /\ f \in Seq(Chunk) /\ onel \in Seq(Chunk) /\ result = f \o onel
    <3>1. Front(result) \in Seq(Chunk) /\ Last(result) \in Chunk /\ result = Front(result) \o <<Last(result)>>
      BY <1>3, <2>1, LastPart
    <3> QED BY <3>1
  <2>4. ListRight(result, doc, start) /\ ListRight(todo, doc, start)
    BY PartsRight DEF IInv, List, StateType
  <2> HIDE DEF r, t, l, f
  <2>5. ChunkRight(l, doc, start) /\ ChunkRight(r, doc, start)
    <3> HIDE DEF onel, oner
    <3>1. ListRight(onel, doc, start) /\ ListRight(oner, doc, start)
      BY <2>2, <2>3, <2>4, ListsJoin
    <3> QED BY <3>1, One DEF ListRight, onel, oner
  <2>6. Reworked(two, new, doc, start)
    BY <1>3, <2>5, JoinedRight
  <2>7. new \in Seq(Chunk) /\ two \in Seq(Chunk)
    BY <2>6 DEF Reworked, ListRight
  <2>8. result' = f \o new
    <3>1. Append(f, j) = f \o <<j>>
      BY <2>3
    <3> QED BY <1>3, <3>1
  <2> HIDE DEF new
  <2>9. result' \in Seq(Chunk) /\ todo' \in Seq(Chunk)
    BY <1>1, <2>2, <2>3, <2>7, <2>8
  <2>10. result \o todo = (f \o two) \o t
    <3> HIDE DEF onel, oner
    <3> DEFINE rt == oner \o t  fl == f \o onel
    <3>1. rt \in Seq(Chunk) /\ fl \in Seq(Chunk)
      BY <2>2, <2>3
    <3>2. f \o two = fl \o oner
      <4>1. f \in Seq(Chunk) /\ onel \in Seq(Chunk) /\ oner \in Seq(Chunk) /\ two = onel \o oner
        BY <2>2, <2>3
      <4> HIDE DEF two
      <4> QED BY ONLY <4>1, Associative
    <3>3. result \o todo = fl \o (oner \o t)
      BY <2>2, <2>3
    <3> HIDE DEF two, fl, rt
    <3>4. (fl \o oner) \o t = fl \o (oner \o t)
      BY ONLY <2>2, <3>1, Associative, SMTT(30)
    <3> QED BY ONLY <3>2, <3>3, <3>4
  <2>11. result' \o todo' = (f \o new) \o t
    BY <1>1, <2>8
  <2> HIDE DEF two
  <2> QED BY <1>1, <2>2, <2>3, <2>6, <2>9, <2>10, <2>11, ListReworked
<1> QED BY <1>1, <1>2, <1>3

\* Two neighbours hold the heading units they hold once.
LEMMA NeighboursOnce ==
    ASSUME NEW d \in Documents, NEW s, NEW a \in Seq(Chunk), NEW l \in Chunk, NEW r \in Chunk,
           NEW b \in Seq(Chunk), Faithful((a \o (<<l>> \o <<r>>)) \o b, d, s)
    PROVE  UnitsOnce(KeysOf(l.items) \o KeysOf(r.items))
<1> DEFINE onel == <<l>>  oner == <<r>>  two == onel \o oner  at == a \o two  ks == KeysOf(l.items) \o KeysOf(r.items)
<1>1. onel \in Seq(Chunk) /\ oner \in Seq(Chunk) /\ two \in Seq(Chunk) /\ at \in Seq(Chunk)
  <2>1. onel \in Seq(Chunk) /\ oner \in Seq(Chunk)
    OBVIOUS
  <2> HIDE DEF onel, oner
  <2>2. two \in Seq(Chunk)
    BY <2>1, ConcatProperties
  <2> QED BY <2>1, <2>2, ConcatProperties
<1>2. AllKeys(two) = ks
  <2>1. AllKeys(onel) = KeysOf(l.items) /\ AllKeys(oner) = KeysOf(r.items)
    BY AllKeysJoin
  <2> HIDE DEF onel, oner
  <2> QED BY <1>1, <2>1, AllKeysJoin
<1>3. UnitsOnce(AllKeys(at \o b))
  BY DocKeysRight DEF Faithful
<1> HIDE DEF two, at, ks, onel, oner
<1>4. AllKeys(at \o b) = AllKeys(at) \o AllKeys(b)
  BY <1>1, AllKeysJoin
<1>5. AllKeys(at) = AllKeys(a) \o AllKeys(two)
  BY <1>1, AllKeysJoin DEF at
<1>6. /\ AllKeys(at) \in Seq(Key) /\ AllKeys(b) \in Seq(Key)
      /\ AllKeys(a) \in Seq(Key) /\ AllKeys(two) \in Seq(Key)
  BY <1>1, ChunkKeysFlat
<1>7. UnitsOnce(AllKeys(at))
  BY <1>3, <1>4, <1>6, UnitsOnceParts
<1>8. UnitsOnce(AllKeys(two))
  BY <1>5, <1>6, <1>7, UnitsOnceParts
<1> QED BY <1>2, <1>8 DEF ks

LEMMA MoveHeadingsStep ==
    ASSUME IInv, MoveHeadings
    PROVE  IInv'
<1> DEFINE l == todo[1]  r == todo[2]  n == Trailing(l, r)
           left == SubSeq(l.items, 1, Len(l.items) - n)
           tail == SubSeq(l.items, Len(left) + 1, Len(l.items))
           rest == SubSeq(todo, 3, Len(todo))
           onel == <<l>>  oner == <<r>>  two == onel \o oner
           stay == Remains(l, left)  get == <<Receives(l, r, tail)>>  new == stay \o get
<1>1. /\ run = <<>> /\ UNCHANGED <<doc, start, pass, run>> /\ n > 0 /\ Len(todo) >= 2
      /\ todo \in Seq(Chunk) /\ result \in Seq(Chunk) /\ doc \in Documents
  BY DEF IInv, StateType, MoveHeadings
<1>2. todo' = get \o rest
  BY DEF MoveHeadings, Receives, Regrouped
<1>3. result' = IF left = <<>> THEN result ELSE Append(result, Rebuilt(l, left, FALSE))
  BY DEF MoveHeadings
<1>4. l \in Chunk /\ r \in Chunk /\ rest \in Seq(Chunk) /\ todo = two \o rest
  <2>1. Len(todo) \in Nat /\ 1 \in DOMAIN todo /\ 2 \in DOMAIN todo
    BY <1>1
  <2>2. l \in Chunk /\ r \in Chunk /\ rest \in Seq(Chunk)
    BY <1>1, <2>1
  <2>3. todo = two \o rest
    BY <1>1, <2>1, <2>2
  <2> QED BY <2>2, <2>3
<1>5. l.items \in Seq(Item) /\ Len(l.items) \in Nat
  BY <1>4 DEF Chunk
<1>6. n \in 1..Len(l.items) /\ \A i \in Len(l.items) - n + 1..Len(l.items) : doc[l.items[i].unit].heading
  <2>1. /\ Trailing(l, r) \in 0..Len(l.items)
        /\ \A i \in Len(l.items) - Trailing(l, r) + 1..Len(l.items) : doc[l.items[i].unit].heading
    <3> HIDE DEF l, r
    <3> QED BY <1>5, TrailingRight, SMTT(30)
  <2> QED BY <1>1, <1>5, <2>1
<1>7. /\ left \in Seq(Item) /\ tail \in Seq(Item) /\ l.items = left \o tail /\ tail # <<>>
      /\ \A h \in ToSet(tail) : doc[h.unit].heading
  <2> DEFINE held == l.items  k == Len(held) - n
  <2>1. held \in Seq(Item) /\ n \in 1..Len(held) /\ Len(held) \in Nat /\ k \in 0..Len(held) - 1
    BY <1>5, <1>6
  <2> HIDE DEF held, n
  <2>2. left = SubSeq(held, 1, k) /\ left \in Seq(Item) /\ Len(left) = k
    BY <2>1 DEF held
  <2>3. tail = SubSeq(held, k + 1, Len(held))
    BY <2>2 DEF held
  <2> HIDE DEF left, tail
  <2>4. tail \in Seq(Item) /\ Len(tail) = n /\ \A i \in 1..n : tail[i] = held[k + i]
    BY <2>1, <2>3
  <2>5. held = left \o tail
    <3>1. SubSeq(held, 1, k) \o SubSeq(held, k + 1, Len(held)) = SubSeq(held, 1, Len(held))
      <4>1. /\ 1 \in 1..Len(held) + 1 /\ k \in 1 - 1..Len(held) /\ Len(held) \in k..Len(held)
        BY <2>1
      <4> HIDE DEF k
      <4> QED BY ONLY <2>1, <4>1, ConcatAdjacentSubSeq
    <3>2. SubSeq(held, 1, Len(held)) = held
      BY <2>1
    <3> QED BY ONLY <2>2, <2>3, <3>1, <3>2
  <2>6. \A i \in 1..n : doc[tail[i].unit].heading
    <3>1. \A i \in Len(held) - n + 1..Len(held) : doc[held[i].unit].heading
      BY <1>6 DEF held
    <3> SUFFICES ASSUME NEW i \in 1..n PROVE doc[tail[i].unit].heading
      OBVIOUS
    <3>2. k + i \in Len(held) - n + 1..Len(held)
      BY <2>1
    <3> QED BY ONLY <2>4, <3>1, <3>2
  <2>7. tail # <<>> /\ \A h \in ToSet(tail) : doc[h.unit].heading
    BY <2>1, <2>4, <2>6 DEF ToSet
  <2> QED BY <2>2, <2>4, <2>5, <2>7 DEF held
<1> HIDE DEF l, r, n, left, tail, rest
<1>8. onel \in Seq(Chunk) /\ oner \in Seq(Chunk) /\ two \in Seq(Chunk)
  BY <1>4
<1>9. result \o todo = (result \o two) \o rest
  <2>1. result \in Seq(Chunk) /\ two \in Seq(Chunk) /\ rest \in Seq(Chunk) /\ todo = two \o rest
    BY <1>1, <1>4, <1>8
  <2> HIDE DEF two
  <2> QED BY ONLY <2>1, Associative
<1>10. Faithful((result \o two) \o rest, doc, start)
  BY <1>1, <1>9, ListIs DEF IInv
<1>11. ChunkRight(l, doc, start) /\ ChunkRight(r, doc, start)
  <2>1. ListRight(two, doc, start)
    <3> HIDE DEF two
    <3> QED BY <1>1, <1>4, <1>8, <1>10, PartsRight
  <2>2. ListRight(onel, doc, start) /\ ListRight(oner, doc, start)
    <3> HIDE DEF onel, oner
    <3> QED BY <1>8, <2>1, ListsJoin
  <2> QED BY <2>2, One DEF ListRight
<1>12. UnitsOnce(KeysOf(l.items) \o KeysOf(r.items))
  BY <1>1, <1>4, <1>10, NeighboursOnce
<1>13. Reworked(two, new, doc, start)
  BY <1>1, <1>7, <1>11, <1>12, MoveRight
<1>14. stay \in Seq(Chunk) /\ get \in Seq(Chunk)
  <2>1. new \in Seq(Chunk)
    BY <1>13 DEF Reworked, ListRight
  <2> DEFINE m == Len(stay)
  <2>2. stay = <<>> \/ \E e : stay = <<e>>
    BY DEF Remains
  <2>3. CASE stay = <<>>
    <3>1. new = get
      BY <2>3
    <3> QED BY <2>1, <2>3, <3>1
  <2>4. CASE \E e : stay = <<e>>
    <3>1. PICK e : stay = <<e>>
      BY <2>4
    <3> HIDE DEF stay
    <3>2. new[1] = e /\ new[2] = Receives(l, r, tail) /\ Len(new) = 2
      BY <3>1
    <3> HIDE DEF new
    <3>3. new[1] \in Chunk /\ new[2] \in Chunk
      BY <2>1, <3>2
    <3> QED BY <3>1, <3>2, <3>3
  <2> QED BY <2>2, <2>3, <2>4
<1>15. result' = result \o stay
  <2>1. CASE left = <<>>
    <3>1. stay = <<>>
      BY <2>1 DEF Remains
    <3> QED BY <1>1, <1>3, <2>1, <3>1
  <2>2. CASE left # <<>>
    <3>1. stay = <<Regrouped(l, left)>> /\ result' = Append(result, Regrouped(l, left))
      BY <1>3, <2>2 DEF Remains, Regrouped
    <3> HIDE DEF stay
    <3> QED BY <1>1, <3>1
  <2> QED BY <2>1, <2>2
<1> HIDE DEF stay, get, two
<1>16. result' \in Seq(Chunk) /\ todo' \in Seq(Chunk)
  BY <1>1, <1>2, <1>4, <1>14, <1>15
<1>17. result' \o todo' = (result \o new) \o rest
  <2> DEFINE rs == result \o stay
  <2>1. rs \in Seq(Chunk)
    BY <1>1, <1>14
  <2>2. result \o new = rs \o get
    BY ONLY <1>1, <1>14, Associative
  <2> HIDE DEF new, rs
  <2>3. rs \o (get \o rest) = (rs \o get) \o rest
    BY ONLY <1>4, <1>14, <2>1, Associative
  <2> QED BY <1>2, <1>15, <2>2, <2>3 DEF rs
<1> HIDE DEF new
<1> QED BY <1>1, <1>4, <1>9, <1>13, <1>16, <1>17, ListReworked

LEMMA NextIInv ==
    IInv /\ [Next]_vars => IInv'
<1> SUFFICES ASSUME IInv, [Next]_vars PROVE IInv'
  OBVIOUS
<1>1. CASE Coalesce
  BY <1>1, CoalesceStep
<1>2. CASE EndCoalesce
  BY <1>2, EndCoalesceStep
<1>3. CASE MoveHeadings
  BY <1>3, MoveHeadingsStep
<1>4. CASE KeepHeadings
  BY <1>4, KeepHeadingsStep
<1>5. CASE JoinRows
  BY <1>5, JoinRowsStep
<1>6. CASE Split
  BY <1>6, SplitStep
<1>7. CASE EndPass
  BY <1>7, EndPassStep
<1>8. CASE UNCHANGED vars
  BY <1>8 DEF vars, IInv, StateType, List
<1> QED BY <1>1, <1>2, <1>3, <1>4, <1>5, <1>6, <1>7, <1>8 DEF Next

LEMMA InSequence ==
    ASSUME NEW s \in Seq(Chunk), NEW i \in DOMAIN s
    PROVE  s[i] \in ToSet(s) /\ s[i] \in Chunk
BY DEF ToSet

LEMMA ChunkTyped ==
    ASSUME NEW c, doc \in Documents, ChunkRight(c, doc, start)
    PROVE  ChunkType(c)
<1>1. c \in Chunk /\ c.items \in Seq(Item)
  BY DEF ChunkRight, Chunk
<1>2. ASSUME NEW i \in DOMAIN c.items PROVE ItemType(c.items[i])
  <2>1. c.items[i] \in Item /\ c.items[i] \in ToSet(c.items)
    BY <1>1 DEF ToSet
  <2>2. ToSet(Keys(c.items[i])) \subseteq ToSet(KeysOf(c.items))
    BY <1>1, <2>1, KeysJoin
  <2>3. ToSet(Keys(c.items[i])) \subseteq ToSet(DocKeys(doc))
    BY <2>2 DEF ChunkRight
  <2> QED BY <2>1, <2>3, ItemRight DEF ItemType
<1>3. {c.oversize, c.fallback, c.flagged} \subseteq BOOLEAN
  BY <1>1 DEF Chunk
<1> QED BY <1>2, <1>3 DEF ChunkType, ChunkRight

LEMMA IInvKeepsEvidence ==
    IInv => EvidenceAndNotesKept
<1> SUFFICES ASSUME IInv PROVE EvidenceAndNotesKept
  OBVIOUS
<1>1. /\ doc \in Documents /\ List \in Seq(Chunk) /\ \A c \in ToSet(List) : ChunkRight(c, doc, start)
      /\ AllKeys(List) = DocKeys(doc)
  BY DEF IInv, StateType, Faithful, ListRight
<1>2. TypeOK
  <2>1. \A i \in DOMAIN List : ChunkType(List[i])
    BY <1>1, InSequence, ChunkTyped
  <2> QED BY <2>1 DEF TypeOK, IInv, StateType
<1>3. ASSUME NEW n \in DOMAIN start
      PROVE  \E i \in DOMAIN List :
                 /\ n \in List[i].notes
                 /\ ToSet(KeysOf(List[i].items)) \cap ToSet(KeysOf(start[n].items)) # {}
  <2>1. PICK k \in ToSet(KeysOf(start[n].items)) : Bears(List, n, k)
    BY DEF IInv, Faithful
  <2>2. PICK c \in ToSet(List) : n \in c.notes /\ k \in ToSet(KeysOf(c.items))
    BY <2>1 DEF Bears
  <2>3. PICK i \in DOMAIN List : List[i] = c
    BY <2>2 DEF ToSet
  <2>4. k \in ToSet(KeysOf(List[i].items)) \cap ToSet(KeysOf(start[n].items))
    BY <2>1, <2>2, <2>3
  <2> QED BY <2>2, <2>3, <2>4
<1> QED BY <1>1, <1>2, <1>3 DEF EvidenceAndNotesKept, EvidenceKept, NotesKept

LEMMA Invariant ==
    Spec => []IInv
<1>1. Init => IInv
  BY InitIInv
<1>2. IInv /\ [Next]_vars => IInv'
  BY NextIInv
<1> QED BY <1>1, <1>2, PTL DEF Spec

-----------------------------------------------------------------------------
(* The order of the passes *)

LEMMA PassAt ==
    ASSUME NEW i \in 1..7
    PROVE  /\ {k \in 1..Len(Passes) : Passes[k] = Passes[i]} # {}
           /\ Min({k \in 1..Len(Passes) : Passes[k] = Passes[i]}) = i
<1> DEFINE I == {k \in 1..Len(Passes) : Passes[k] = Passes[i]}
<1>1. /\ Len(Passes) = 7 /\ Passes[1] = "coalesce" /\ Passes[2] = "headings" /\ Passes[3] = "rows"
      /\ Passes[4] = "cases" /\ Passes[5] = "forms" /\ Passes[6] = "sizes" /\ Passes[7] = "done"
  BY DEF Passes
<1>2. i = 1 \/ i = 2 \/ i = 3 \/ i = 4 \/ i = 5 \/ i = 6 \/ i = 7
  OBVIOUS
<1>3. \A k \in 1..7 : Passes[k] = Passes[i] => k = i
  <2> SUFFICES ASSUME NEW k \in 1..7, Passes[k] = Passes[i] PROVE k = i
    OBVIOUS
  <2>1. k = 1 \/ k = 2 \/ k = 3 \/ k = 4 \/ k = 5 \/ k = 6 \/ k = 7
    OBVIOUS
  <2> QED BY <1>1, <1>2, <2>1
<1>4. I = {i}
  BY <1>1, <1>3
<1>5. Min({i}) = i
  <2>1. \E x \in {i} : \A y \in {i} : x =< y
    OBVIOUS
  <2> QED BY <2>1 DEF Min
<1> QED BY <1>4, <1>5

LEMMA PassOrder ==
    ASSUME pass \in ToSet(Passes)
    PROVE  /\ pass = "coalesce" => NextPass = "headings"
           /\ pass = "headings" => NextPass = "rows"
           /\ pass = "rows" => NextPass = "cases"
           /\ pass = "cases" => NextPass = "forms"
           /\ pass = "forms" => NextPass = "sizes"
           /\ pass = "sizes" => NextPass = "done"
           /\ Behind("cases") <=> pass \in {"forms", "sizes", "done"}
           /\ Behind("forms") <=> pass \in {"sizes", "done"}
<1>1. /\ DOMAIN Passes = 1..7 /\ Passes[1] = "coalesce" /\ Passes[2] = "headings" /\ Passes[3] = "rows"
      /\ Passes[4] = "cases" /\ Passes[5] = "forms" /\ Passes[6] = "sizes" /\ Passes[7] = "done"
  BY DEF Passes
<1>2. PICK i \in 1..7 : pass = Passes[i]
  BY <1>1 DEF ToSet
<1>3. SelectInSeq(Passes, LAMBDA q : q = pass) = i
  <2> DEFINE I == {k \in 1..Len(Passes) : Passes[k] = pass}
  <2>1. I # {} /\ Min(I) = i
    <3>1. I = {k \in 1..Len(Passes) : Passes[k] = Passes[i]}
      BY <1>2
    <3>2. {k \in 1..Len(Passes) : Passes[k] = Passes[i]} # {} /\ Min({k \in 1..Len(Passes) : Passes[k] = Passes[i]}) = i
      BY <1>2, PassAt
    <3> QED BY ONLY <3>1, <3>2
  <2>2. SelectInSeq(Passes, LAMBDA q : q = pass) = IF I # {} THEN Min(I) ELSE 0
    BY DEF SelectInSeq
  <2> QED BY ONLY <2>1, <2>2
<1>4. NextPass = Passes[i + 1]
  BY <1>3 DEF NextPass
<1>5. SelectInSeq(Passes, LAMBDA q : q = "cases") = 4 /\ SelectInSeq(Passes, LAMBDA q : q = "forms") = 5
  <2>1. 4 \in 1..7 /\ 5 \in 1..7
    OBVIOUS
  <2>2. SelectInSeq(Passes, LAMBDA q : q = "cases") = 4
    BY <1>1, <2>1, PassAt DEF SelectInSeq
  <2>3. SelectInSeq(Passes, LAMBDA q : q = "forms") = 5
    BY <1>1, <2>1, PassAt DEF SelectInSeq
  <2> QED BY <2>2, <2>3
<1>6. (Behind("cases") <=> 4 < i) /\ (Behind("forms") <=> 5 < i)
  BY <1>3, <1>5 DEF Behind
<1>7. i = 1 \/ i = 2 \/ i = 3 \/ i = 4 \/ i = 5 \/ i = 6 \/ i = 7
  OBVIOUS
<1> QED BY <1>1, <1>2, <1>4, <1>6, <1>7

-----------------------------------------------------------------------------
(* Parts of sequences *)

\* g is a part of held without a gap.
PartOf(g, held) ==
    \E o \in 0..Len(held) : /\ o + Len(g) <= Len(held)
                            /\ \A j \in 1..Len(g) : g[j] = held[o + j]

LEMMA FlattenedParts ==
    ASSUME NEW S, NEW ss \in Seq(Seq(S)), NEW i \in DOMAIN ss
    PROVE  PartOf(ss[i], FlattenSeq(ss))
<1> DEFINE T == {x \in Seq(Seq(S)) : \A k \in DOMAIN x : PartOf(x[k], FlattenSeq(x))}
<1>1. <<>> \in T
  OBVIOUS
<1>2. ASSUME NEW x \in Seq(Seq(S)), x \in T, NEW e \in Seq(S) PROVE Append(x, e) \in T
  <2> DEFINE f == FlattenSeq(x)  y == Append(x, e)
  <2>1. f \in Seq(S) /\ FlattenSeq(y) = f \o e
    BY FlattenAppend
  <2>2. y \in Seq(Seq(S)) /\ Len(y) = Len(x) + 1 /\ Len(x) \in Nat /\ DOMAIN y = 1..Len(x) + 1
    OBVIOUS
  <2>3. ASSUME NEW k \in DOMAIN y PROVE PartOf(y[k], f \o e)
    <3>1. CASE k = Len(x) + 1
      <4>1. y[k] = e
        BY <2>2, <3>1
      <4> HIDE DEF f, y
      <4>2. /\ Len(f) \in Nat /\ Len(e) \in Nat /\ Len(f \o e) = Len(f) + Len(e)
            /\ \A j \in 1..Len(e) : (f \o e)[Len(f) + j] = e[j]
        BY <2>1
      <4>3. PartOf(e, f \o e)
        <5>1. Len(f) \in 0..Len(f \o e) /\ Len(f) + Len(e) <= Len(f \o e)
          BY <4>2
        <5> QED BY <4>2, <5>1 DEF PartOf
      <4> QED BY <4>1, <4>3
    <3>2. CASE k \in 1..Len(x)
      <4>1. y[k] = x[k] /\ k \in DOMAIN x
        BY <2>2, <3>2
      <4>2. PartOf(x[k], f)
        BY <1>2, <4>1
      <4>3. x[k] \in Seq(S)
        BY <4>1
      <4> DEFINE g == x[k]
      <4> HIDE DEF f, y, g
      <4>4. /\ Len(f) \in Nat /\ Len(e) \in Nat /\ Len(f \o e) = Len(f) + Len(e)
            /\ \A j \in 1..Len(f) : (f \o e)[j] = f[j]
        BY <2>1
      <4>5. g \in Seq(S) /\ Len(g) \in Nat
        BY <4>3 DEF g
      <4>6. PICK o \in 0..Len(f) : o + Len(g) <= Len(f) /\ \A j \in 1..Len(g) : g[j] = f[o + j]
        BY <4>2 DEF PartOf, g
      <4>7. /\ o \in 0..Len(f \o e) /\ o + Len(g) <= Len(f \o e)
            /\ \A j \in 1..Len(g) : o + j \in 1..Len(f)
        BY <4>4, <4>5, <4>6
      <4>8. \A j \in 1..Len(g) : g[j] = (f \o e)[o + j]
        BY <4>4, <4>6, <4>7
      <4>9. PartOf(g, f \o e)
        BY <4>7, <4>8 DEF PartOf
      <4> QED BY <4>1, <4>9 DEF g
    <3>3. k = Len(x) + 1 \/ k \in 1..Len(x)
      BY <2>2
    <3> QED BY <3>1, <3>2, <3>3
  <2> QED BY <2>1, <2>2, <2>3
<1>3. Seq(Seq(S)) \subseteq T
  <2> HIDE DEF T
  <2> QED BY <1>1, <1>2, SequenceInduction
<1> QED BY <1>3

LEMMA PartFront ==
    ASSUME NEW S, NEW held \in Seq(S), NEW left \in Seq(S), NEW tail \in Seq(S), held = left \o tail
    PROVE  PartOf(left, held) /\ PartOf(tail, held)
<1>1. /\ Len(left) \in Nat /\ Len(tail) \in Nat /\ Len(held) = Len(left) + Len(tail)
      /\ \A j \in 1..Len(left) : held[j] = left[j]
      /\ \A j \in 1..Len(tail) : held[Len(left) + j] = tail[j]
  OBVIOUS
<1>2. PartOf(left, held)
  <2>1. 0 \in 0..Len(held) /\ 0 + Len(left) <= Len(held) /\ \A j \in 1..Len(left) : left[j] = held[0 + j]
    BY <1>1
  <2> QED BY <2>1 DEF PartOf
<1>3. PartOf(tail, held)
  <2>1. Len(left) \in 0..Len(held) /\ Len(left) + Len(tail) <= Len(held)
    BY <1>1
  <2> QED BY <1>1, <2>1 DEF PartOf
<1> QED BY <1>2, <1>3

LEMMA UnitsFinite ==
    ASSUME NEW held \in Seq(Item)
    PROVE  IsFiniteSet(UnitsOf(held)) /\ Cardinality(UnitsOf(held)) \in Nat
<1> DEFINE U == {held[i].unit : i \in 1..Len(held)}
<1>1. UnitsOf(held) = U
  BY DEF UnitsOf
<1>2. Len(held) \in Nat /\ IsFiniteSet(1..Len(held))
  BY FS_Interval
<1>3. IsFiniteSet(U)
  <2> DEFINE f == [i \in 1..Len(held) |-> held[i].unit]
  <2>1. f \in Surjection(1..Len(held), U)
    BY DEF Surjection
  <2> HIDE DEF f, U
  <2> QED BY <1>2, <2>1, FS_Surjection
<1> QED BY <1>1, <1>3, FS_CardinalityType

LEMMA FewerUnits ==
    ASSUME NEW g \in Seq(Item), NEW held \in Seq(Item), UnitsOf(g) \subseteq UnitsOf(held)
    PROVE  Cardinality(UnitsOf(g)) <= Cardinality(UnitsOf(held))
BY UnitsFinite, FS_Subset

LEMMA PartUnits ==
    ASSUME NEW g \in Seq(Item), NEW held \in Seq(Item), PartOf(g, held)
    PROVE  /\ UnitsOf(g) \subseteq UnitsOf(held)
           /\ Cardinality(UnitsOf(g)) <= Cardinality(UnitsOf(held))
<1>1. PICK o \in 0..Len(held) : o + Len(g) <= Len(held) /\ \A j \in 1..Len(g) : g[j] = held[o + j]
  BY DEF PartOf
<1>2. Len(g) \in Nat /\ Len(held) \in Nat /\ DOMAIN g = 1..Len(g) /\ DOMAIN held = 1..Len(held)
  OBVIOUS
<1>3. \A j \in 1..Len(g) : o + j \in 1..Len(held)
  BY <1>1, <1>2
<1>4. UnitsOf(g) \subseteq UnitsOf(held)
  BY <1>1, <1>2, <1>3 DEF UnitsOf
<1> QED BY <1>4, FewerUnits

LEMMA UnitsJoin ==
    ASSUME NEW a \in Seq(Item), NEW b \in Seq(Item)
    PROVE  UnitsOf(a \o b) = UnitsOf(a) \cup UnitsOf(b)
<1>1. UnitsOf(a) = {h.unit : h \in ToSet(a)} /\ UnitsOf(b) = {h.unit : h \in ToSet(b)}
      /\ UnitsOf(a \o b) = {h.unit : h \in ToSet(a \o b)}
  BY DEF UnitsOf, ToSet
<1>2. ToSet(a \o b) = ToSet(a) \cup ToSet(b)
  BY ToSetConcat
<1> HIDE DEF UnitsOf
<1> QED BY <1>1, <1>2

-----------------------------------------------------------------------------
(* What a chunk is in the end *)

Several(held) == Cardinality(UnitsOf(held)) > 1
Differ(d, l, r) ==
    /\ d[l.unit].section # 0 /\ d[r.unit].section # 0
    /\ d[l.unit].section # d[r.unit].section

\* Both were in one chunk when planning ended.
Planned(a, b, s) == \E n \in DOMAIN s : {a.unit, b.unit} \subseteq UnitsOf(s[n].items)

\* What SectionsApart, CasesAndFormsApart and SizesFit say of one chunk.
Sections(held, d, s) ==
    \A j \in 2..Len(held) : Differ(d, held[j - 1], held[j]) => Planned(held[j - 1], held[j], s)
Cased(held, d) == Several(held) => \A j \in 2..Len(held) : ~d[held[j].unit].case
Formed(held, d) ==
    Several(held) =>
        \A j \in 2..Len(held) :
            /\ d[held[j].unit].form => \A i \in 1..j - 1 : ~d[held[i].unit].body
            /\ ~(d[held[j - 1].unit].ends /\ d[held[j].unit].opens)

\* The chunk as it is when k of the splitting passes are behind it.
Drawn(held, k, d, s) ==
    /\ Sections(held, d, s)
    /\ k >= 1 => Cased(held, d)
    /\ k >= 2 => Formed(held, d)
    /\ k >= 3 => ~TooMany(held)
AllDrawn(cs, k, d, s) == \A c \in ToSet(cs) : Drawn(c.items, k, d, s)

\* Two items lists one after the other, with or without the last unit of the one
\* being the first unit of the other.
LEMMA SectionsJoin ==
    ASSUME NEW d, NEW s, NEW a \in Seq(Item), NEW b \in Seq(Item), a # <<>>, b # <<>>,
           Sections(a, d, s), Sections(b, d, s), ~Differ(d, Last(a), b[1])
    PROVE  Sections(a \o b, d, s)
<1> DEFINE h == a \o b  m == Len(a)  n == Len(b)
<1>1. m \in Nat \ {0} /\ n \in Nat \ {0} /\ Last(a) = a[m]
  BY EmptySeq DEF Last
<1>2. Len(h) = m + n /\ (\A i \in 1..m : h[i] = a[i]) /\ (\A i \in 1..n : h[m + i] = b[i])
  OBVIOUS
<1> HIDE DEF h, m, n
<1>3. ASSUME NEW j \in 2..Len(h) PROVE Differ(d, h[j - 1], h[j]) => Planned(h[j - 1], h[j], s)
  <2>1. CASE j <= m
    <3>1. j \in 2..m /\ j \in 1..m /\ j - 1 \in 1..m
      BY <1>1, <2>1
    <3> QED BY <1>2, <3>1 DEF Sections, m
  <2>2. CASE j = m + 1
    <3>1. m \in 1..m /\ 1 \in 1..n /\ j - 1 = m
      BY <1>1, <2>2
    <3>2. h[j - 1] = Last(a) /\ h[j] = b[1]
      BY <1>1, <1>2, <2>2, <3>1
    <3> QED BY <3>2
  <2>3. CASE j > m + 1
    <3> DEFINE k == j - m
    <3>1. k \in 2..n /\ k \in 1..n /\ k - 1 \in 1..n /\ m + k = j /\ m + (k - 1) = j - 1
      BY <1>1, <1>2, <2>3
    <3> HIDE DEF k
    <3>2. h[j] = b[k] /\ h[j - 1] = b[k - 1]
      BY <1>2, <3>1
    <3> QED BY <3>1, <3>2 DEF Sections, n
  <2> QED BY <1>1, <2>1, <2>2, <2>3
<1> QED BY <1>3 DEF Sections, h

LEMMA SectionsOverlap ==
    ASSUME NEW d, NEW s, NEW a \in Seq(Item), NEW b \in Seq(Item), NEW h \in Seq(Item),
           a # <<>>, b # <<>>, Len(h) = Len(a) + Len(b) - 1,
           \A i \in 1..Len(a) : h[i].unit = a[i].unit,
           \A i \in 1..Len(b) : h[(Len(a) - 1) + i].unit = b[i].unit,
           Sections(a, d, s), Sections(b, d, s)
    PROVE  Sections(h, d, s)
<1> DEFINE m == Len(a)  n == Len(b)
<1>1. m \in Nat \ {0} /\ n \in Nat \ {0}
  BY EmptySeq
<1>2. /\ Len(h) = m + n - 1
      /\ \A i \in 1..m : h[i].unit = a[i].unit
      /\ \A i \in 1..n : h[(m - 1) + i].unit = b[i].unit
  OBVIOUS
<1> HIDE DEF m, n
<1>3. ASSUME NEW j \in 2..Len(h) PROVE Differ(d, h[j - 1], h[j]) => Planned(h[j - 1], h[j], s)
  <2>1. CASE j <= m
    <3>1. j \in 2..m /\ j \in 1..m /\ j - 1 \in 1..m
      BY <1>1, <2>1
    <3>2. h[j].unit = a[j].unit /\ h[j - 1].unit = a[j - 1].unit
      BY <1>2, <3>1
    <3>3. Differ(d, a[j - 1], a[j]) => Planned(a[j - 1], a[j], s)
      BY <3>1 DEF Sections, m
    <3> QED BY ONLY <3>2, <3>3 DEF Differ, Planned
  <2>2. CASE j > m
    <3> DEFINE k == j - (m - 1)
    <3>1. k \in 2..n /\ k \in 1..n /\ k - 1 \in 1..n /\ (m - 1) + k = j /\ (m - 1) + (k - 1) = j - 1
      BY <1>1, <1>2, <2>2
    <3> HIDE DEF k
    <3>2. h[j].unit = b[k].unit /\ h[j - 1].unit = b[k - 1].unit
      BY <1>2, <3>1
    <3>3. Differ(d, b[k - 1], b[k]) => Planned(b[k - 1], b[k], s)
      BY <3>1 DEF Sections, n
    <3> QED BY ONLY <3>2, <3>3 DEF Differ, Planned
  <2> QED BY <1>1, <2>1, <2>2
<1> QED BY <1>3 DEF Sections

\* What a chunk is, a part of it is.
LEMMA DrawnPart ==
    ASSUME NEW d, NEW s, NEW k \in 0..3, NEW g \in Seq(Item), NEW held \in Seq(Item),
           PartOf(g, held), Drawn(held, k, d, s)
    PROVE  Drawn(g, k, d, s)
<1> DEFINE m == Len(g)  n == Len(held)
<1>1. PICK o \in 0..n : o + m <= n /\ \A j \in 1..m : g[j] = held[o + j]
  BY DEF PartOf
<1>2. m \in Nat /\ n \in Nat
  OBVIOUS
<1> HIDE DEF m, n
<1>3. ASSUME NEW j \in 2..m
      PROVE  /\ o + j \in 2..n /\ (o + j) - 1 = o + (j - 1)
             /\ g[j] = held[o + j] /\ g[j - 1] = held[(o + j) - 1]
  <2>1. j \in 1..m /\ j - 1 \in 1..m /\ o + j \in 2..n /\ (o + j) - 1 = o + (j - 1)
    BY <1>1, <1>2
  <2> QED BY <1>1, <2>1
<1>4. Sections(g, d, s)
  BY <1>3 DEF Sections, Drawn, m, n
<1>5. Several(g) => Several(held)
  <2>1. Cardinality(UnitsOf(g)) <= Cardinality(UnitsOf(held))
    BY PartUnits
  <2>2. Cardinality(UnitsOf(g)) \in Nat /\ Cardinality(UnitsOf(held)) \in Nat
    BY UnitsFinite
  <2> QED BY <2>1, <2>2 DEF Several
<1>6. k >= 1 => Cased(g, d)
  BY <1>3, <1>5 DEF Cased, Drawn, m, n
<1>7. k >= 2 => Formed(g, d)
  <2> SUFFICES ASSUME k >= 2, Several(g), NEW j \in 2..m
               PROVE  /\ d[g[j].unit].form => \A i \in 1..j - 1 : ~d[g[i].unit].body
                      /\ ~(d[g[j - 1].unit].ends /\ d[g[j].unit].opens)
    BY DEF Formed, m
  <2>1. /\ d[held[o + j].unit].form => \A i \in 1..(o + j) - 1 : ~d[held[i].unit].body
        /\ ~(d[held[(o + j) - 1].unit].ends /\ d[held[o + j].unit].opens)
    BY <1>3, <1>5 DEF Formed, Drawn, n
  <2>2. ASSUME NEW i \in 1..j - 1 PROVE o + i \in 1..(o + j) - 1 /\ g[i] = held[o + i]
    <3>1. i \in 1..m /\ o + i \in 1..(o + j) - 1
      BY <1>1, <1>2
    <3> QED BY <1>1, <3>1
  <2> QED BY <1>3, <2>1, <2>2
<1>8. k >= 3 => ~TooMany(g)
  <2>1. Cardinality(UnitsOf(g)) <= Cardinality(UnitsOf(held))
    BY PartUnits
  <2>2. Cardinality(UnitsOf(g)) \in Nat /\ Cardinality(UnitsOf(held)) \in Nat
    BY UnitsFinite
  <2>3. MaxUnits \in Nat
    BY LimitAssumption
  <2> QED BY <2>1, <2>2, <2>3 DEF TooMany, Drawn
<1> QED BY <1>4, <1>6, <1>7, <1>8 DEF Drawn

LEMMA AllDrawnJoin ==
    ASSUME NEW d, NEW s, NEW k, NEW a \in Seq(Chunk), NEW b \in Seq(Chunk)
    PROVE  AllDrawn(a \o b, k, d, s) <=> AllDrawn(a, k, d, s) /\ AllDrawn(b, k, d, s)
<1>1. ToSet(a \o b) = ToSet(a) \cup ToSet(b)
  BY ToSetConcat
<1> QED BY <1>1 DEF AllDrawn

LEMMA AllDrawnOne ==
    ASSUME NEW d, NEW s, NEW k, NEW c
    PROVE  AllDrawn(<<c>>, k, d, s) <=> Drawn(c.items, k, d, s)
<1>1. ToSet(<<c>>) = {c}
  BY DEF ToSet
<1> QED BY <1>1 DEF AllDrawn

LEMMA AllDrawnNone ==
    ASSUME NEW d, NEW s, NEW k
    PROVE  AllDrawn(<<>>, k, d, s)
<1>1. ToSet(<<>>) = {}
  BY DEF ToSet
<1> QED BY <1>1 DEF AllDrawn

\* One chunk more at the end of a list.
LEMMA NewNeighbour ==
    ASSUME NEW cs \in Seq(Chunk), NEW c \in Chunk, NEW i \in 1..Len(Append(cs, c)) - 1
    PROVE  \/ i \in 1..Len(cs) - 1 /\ Append(cs, c)[i] = cs[i] /\ Append(cs, c)[i + 1] = cs[i + 1]
           \/ cs # <<>> /\ i = Len(cs) /\ Append(cs, c)[i] = Last(cs) /\ Append(cs, c)[i + 1] = c
<1> DEFINE new == Append(cs, c)  n == Len(cs)
<1>1. /\ n \in Nat /\ Len(new) = n + 1 /\ new[n + 1] = c
      /\ \A k \in 1..n : new[k] = cs[k]
  OBVIOUS
<1>2. i \in 1..n
  BY <1>1
<1>3. cs # <<>> /\ Last(cs) = cs[n]
  <2>1. n # 0
    BY <1>1, <1>2
  <2> QED BY <2>1 DEF Last
<1> HIDE DEF new, n
<1>4. CASE i = n
  BY <1>1, <1>2, <1>3, <1>4 DEF new, n
<1>5. CASE i # n
  <2>1. i \in 1..n - 1 /\ i + 1 \in 1..n
    BY <1>1, <1>2, <1>5
  <2> QED BY <1>1, <1>2, <2>1 DEF new, n
<1> QED BY <1>4, <1>5

-----------------------------------------------------------------------------
(* The short texts that are joined *)

\* No two neighbours in a run are of different sections.
Linked(cs, d) == \A i \in 2..Len(cs) : ~Differ(d, Last(cs[i - 1].items), cs[i].items[1])

\* Every chunk holds something.
AllHold(cs) == \A i \in DOMAIN cs : cs[i].items \in Seq(Item) /\ cs[i].items # <<>>

LEMMA LastOfJoin ==
    ASSUME NEW a \in Seq(Item), NEW b \in Seq(Item), b # <<>>
    PROVE  Last(a \o b) = Last(b) /\ a \o b # <<>>
<1>1. Len(a) \in Nat /\ Len(b) \in Nat \ {0}
  BY EmptySeq
<1>2. Len(a \o b) = Len(a) + Len(b) /\ (a \o b)[Len(a) + Len(b)] = b[Len(b)]
  BY <1>1
<1> QED BY <1>1, <1>2 DEF Last

LEMMA FirstOfJoin ==
    ASSUME NEW a \in Seq(Item), NEW b \in Seq(Item), a # <<>>
    PROVE  (a \o b)[1] = a[1] /\ a \o b # <<>>
<1>1. Len(a) \in Nat \ {0} /\ Len(b) \in Nat
  BY EmptySeq
<1>2. Len(a \o b) = Len(a) + Len(b) /\ (a \o b)[1] = a[1]
  BY <1>1
<1> QED BY <1>1, <1>2

LEMMA JoinDrawn ==
    ASSUME NEW d, NEW s, NEW cs \in Seq(Chunk), AllDrawn(cs, 0, d, s), AllHold(cs),
           NEW c \in Chunk, c.items # <<>>, Drawn(c.items, 0, d, s),
           cs # <<>> => ~Differ(d, Last(Last(cs).items), c.items[1])
    PROVE  /\ AllDrawn(Join(cs, c), 0, d, s) /\ AllHold(Join(cs, c)) /\ Join(cs, c) # <<>>
           /\ Last(Last(Join(cs, c)).items) = Last(c.items)
<1>1. c.items \in Seq(Item)
  BY DEF Chunk
<1> DEFINE one == <<c>>
<1>2. one \in Seq(Chunk) /\ AllDrawn(one, 0, d, s) /\ Len(one) = 1 /\ one[1] = c /\ DOMAIN one = {1}
  BY AllDrawnOne
<1>3. CASE cs = <<>>
  <2>1. Join(cs, c) = one
    BY <1>3 DEF Join
  <2>2. one[1].items \in Seq(Item) /\ one[1].items # <<>> /\ Last(one) = c /\ one # <<>>
    BY <1>1 DEF Last
  <2> HIDE DEF one
  <2>3. AllHold(one)
    BY <1>2, <2>2 DEF AllHold
  <2> QED BY <1>2, <2>1, <2>2, <2>3
<1> DEFINE held == Last(cs).items \o c.items
<1>4. CASE cs # <<>> /\ (TooMany(held) \/ Tokens(held) > Target)
  <2>1. Join(cs, c) = Append(cs, c)
    BY <1>4 DEF Join
  <2>2. Append(cs, c) = cs \o one
    OBVIOUS
  <2>3. AllDrawn(Append(cs, c), 0, d, s)
    <3> HIDE DEF one
    <3> QED BY <1>2, <2>2, AllDrawnJoin
  <2>4. /\ Len(cs) \in Nat /\ Len(Append(cs, c)) = Len(cs) + 1 /\ Append(cs, c)[Len(cs) + 1] = c
        /\ \A i \in 1..Len(cs) : Append(cs, c)[i] = cs[i]
    OBVIOUS
  <2>5. Last(Append(cs, c)) = c /\ Append(cs, c) # <<>>
    BY <2>4 DEF Last
  <2>6. AllHold(Append(cs, c))
    BY <1>1, <2>4 DEF AllHold
  <2> QED BY <2>1, <2>3, <2>5, <2>6
<1>5. CASE cs # <<>> /\ ~(TooMany(held) \/ Tokens(held) > Target)
  <2> DEFINE f == Front(cs)  l == Last(cs)  m == Merged(l, c)  onel == <<l>>  onem == <<m>>
  <2>1. Join(cs, c) = Append(f, m)
    BY <1>5 DEF Join
  <2>2. f \in Seq(Chunk) /\ l \in Chunk /\ cs = f \o onel /\ Len(f) = Len(cs) - 1 /\ Len(cs) \in Nat \ {0}
    BY <1>5, LastPart
  <2>3. m \in Chunk /\ m.items = l.items \o c.items /\ l.items \in Seq(Item)
    BY <2>2, MergedIs DEF Merged
  <2>4. l.items # <<>> /\ \A i \in 1..Len(f) : f[i] = cs[i]
    <3>1. l = cs[Len(cs)] /\ Len(cs) \in DOMAIN cs
      BY <2>2 DEF Last
    <3>2. \A i \in 1..Len(f) : f[i] = cs[i]
      <4> HIDE DEF m, l
      <4>1. f = SubSeq(cs, 1, Len(cs) - 1) /\ Len(cs) \in Nat \ {0}
        BY <2>2 DEF Front
      <4> HIDE DEF f
      <4> QED BY ONLY <4>1, cs \in Seq(Chunk), SMTT(30)
    <3> QED BY <3>1, <3>2 DEF AllHold
  <2> HIDE DEF f, l, m
  <2>5. AllDrawn(f, 0, d, s) /\ Sections(l.items, d, s)
    <3>1. onel \in Seq(Chunk)
      BY <2>2
    <3>2. AllDrawn(f, 0, d, s) /\ AllDrawn(onel, 0, d, s)
      <4> HIDE DEF onel
      <4> QED BY <2>2, <3>1, AllDrawnJoin
    <3> QED BY <3>2, AllDrawnOne DEF Drawn
  <2>6. Sections(m.items, d, s) /\ Last(m.items) = Last(c.items) /\ m.items # <<>>
    <3>1. ~Differ(d, Last(l.items), c.items[1])
      BY <1>5 DEF l
    <3> QED BY <1>1, <2>3, <2>4, <2>5, <3>1, SectionsJoin, LastOfJoin DEF Drawn
  <2>7. AllDrawn(onem, 0, d, s) /\ onem \in Seq(Chunk)
    <3>1. Drawn(m.items, 0, d, s)
      BY <2>6 DEF Drawn
    <3>2. AllDrawn(<<m>>, 0, d, s)
      BY ONLY <3>1, AllDrawnOne
    <3> QED BY <2>3, <3>2
  <2>8. Append(f, m) = f \o onem
    BY <2>2, <2>3
  <2>9. AllDrawn(Append(f, m), 0, d, s)
    <3> HIDE DEF onem
    <3> QED BY <2>2, <2>5, <2>7, <2>8, AllDrawnJoin
  <2>10. /\ Len(f) \in Nat /\ Len(Append(f, m)) = Len(f) + 1 /\ Append(f, m)[Len(f) + 1] = m
         /\ \A i \in 1..Len(f) : Append(f, m)[i] = f[i]
    BY <2>2, <2>3
  <2>11. Last(Append(f, m)) = m /\ Append(f, m) # <<>>
    BY <2>10 DEF Last
  <2>12. AllHold(Append(f, m))
    <3>1. m.items \in Seq(Item)
      BY <1>1, <2>3
    <3>2. \A i \in 1..Len(f) : i \in DOMAIN cs
      BY <2>2
    <3> QED BY <2>4, <2>6, <2>10, <3>1, <3>2 DEF AllHold
  <2> QED BY <2>1, <2>6, <2>9, <2>11, <2>12
<1> QED BY <1>3, <1>4, <1>5

LEMMA FlushedDrawn ==
    ASSUME NEW d, NEW s, run \in Seq(Chunk), AllDrawn(run, 0, d, s), AllHold(run), Linked(run, d)
    PROVE  AllDrawn(Flushed, 0, d, s)
<1> DEFINE n == Len(run)  out == FoldLeft(Join, <<>>, run)
<1>0. n \in Nat /\ (\A k \in 1..n : run[k] \in ToSet(run) /\ run[k] \in Chunk) /\ DOMAIN run = 1..n
  BY DEF ToSet
<1>1. PICK p : /\ p \in [0..n -> Seq(Chunk)] /\ p[0] = <<>>
               /\ \A k \in 1..n : p[k] = Join(p[k - 1], run[k])
               /\ out = p[n]
  BY JoinSteps
<1> HIDE DEF out
<1> DEFINE T == {k \in 0..n : /\ AllDrawn(p[k], 0, d, s) /\ AllHold(p[k])
                              /\ (k = 0) = (p[k] = <<>>)
                              /\ k # 0 => Last(Last(p[k]).items) = Last(run[k].items)}
<1>2. 0 \in T
  <2>1. AllDrawn(<<>>, 0, d, s) /\ AllHold(<<>>) /\ 0 \in 0..n
    BY <1>0, AllDrawnNone DEF AllHold
  <2>2. p[0] = <<>>
    BY <1>1
  <2> QED BY ONLY <2>1, <2>2
<1>3. ASSUME NEW k \in 0..n - 1, k \in T PROVE k + 1 \in T
  <2> DEFINE c == run[k + 1]  b == p[k]
  <2>1. k + 1 \in 1..n /\ k + 1 \in 0..n /\ (k + 1) - 1 = k /\ k \in 0..n /\ k + 1 # 0
    BY <1>0
  <2>2. p[k + 1] = Join(b, c) /\ b \in Seq(Chunk)
    <3> HIDE DEF n, T
    <3> QED BY <1>1, <2>1
  <2>3. AllDrawn(b, 0, d, s) /\ AllHold(b)
    BY <1>3
  <2>4. c \in Chunk /\ c.items # <<>> /\ Drawn(c.items, 0, d, s)
    BY <1>0, <2>1 DEF AllHold, AllDrawn
  <2>5. b # <<>> => ~Differ(d, Last(Last(b).items), c.items[1])
    <3>1. b # <<>> => k # 0 /\ Last(Last(b).items) = Last(run[k].items)
      BY <1>3
    <3>2. k # 0 => k + 1 \in 2..n
      BY <1>0, <2>1
    <3> QED BY <2>1, <3>1, <3>2 DEF Linked
  <2> HIDE DEF b, c
  <2>6. /\ AllDrawn(Join(b, c), 0, d, s) /\ AllHold(Join(b, c)) /\ Join(b, c) # <<>>
        /\ Last(Last(Join(b, c)).items) = Last(c.items)
    BY ONLY <2>2, <2>3, <2>4, <2>5, JoinDrawn
  <2> QED BY <2>1, <2>2, <2>6 DEF c
<1>4. n \in T
  <2>1. 0 \in Int /\ n \in Int /\ n \in 0..n
    BY <1>0
  <2>2. 0..n \subseteq T
    <3> HIDE DEF T, n
    <3> QED BY <1>2, <1>3, <2>1, IntervalInduction
  <2> QED BY <2>1, <2>2
<1>5. AllDrawn(out, 0, d, s)
  BY <1>1, <1>4
<1>6. Flushed = run \/ Flushed = out
  BY DEF Flushed, FoldLeft, MapThenFoldSet, Join, out
<1> QED BY <1>5, <1>6

\* A short text that comes to the run.
LEMMA LinkedGrows ==
    ASSUME NEW d, NEW cs \in Seq(Chunk), Linked(cs, d), NEW c \in Chunk,
           cs # <<>> => ~Differ(d, Last(Last(cs).items), c.items[1])
    PROVE  Linked(Append(cs, c), d)
<1> DEFINE new == Append(cs, c)
<1>1. new \in Seq(Chunk) /\ Len(new) \in Nat
  OBVIOUS
<1>2. ASSUME NEW i \in 2..Len(new) PROVE ~Differ(d, Last(new[i - 1].items), new[i].items[1])
  <2>1. i - 1 \in 1..Len(new) - 1 /\ (i - 1) + 1 = i
    BY <1>1
  <2> DEFINE k == i - 1
  <2>2. \/ k \in 1..Len(cs) - 1 /\ new[k] = cs[k] /\ new[k + 1] = cs[k + 1]
        \/ cs # <<>> /\ k = Len(cs) /\ new[k] = Last(cs) /\ new[k + 1] = c
    <3> HIDE DEF k
    <3> QED BY <2>1, NewNeighbour DEF k
  <2>3. CASE k \in 1..Len(cs) - 1 /\ new[k] = cs[k] /\ new[k + 1] = cs[k + 1]
    <3>1. i \in 2..Len(cs) /\ new[i - 1] = cs[i - 1] /\ new[i] = cs[i]
      <4>1. Len(cs) \in Nat
        OBVIOUS
      <4> HIDE DEF new
      <4> QED BY <2>1, <2>3, <4>1
    <3> QED BY <3>1 DEF Linked
  <2>4. CASE cs # <<>> /\ new[k] = Last(cs) /\ new[k + 1] = c
    <3> HIDE DEF new
    <3> QED BY <2>1, <2>4
  <2> QED BY <2>2, <2>3, <2>4
<1> QED BY <1>2 DEF Linked

-----------------------------------------------------------------------------
(* Headings before other sections *)

\* If item h is a heading, the items held after it come to one of another section
\* with nothing but headings of that section before it.
Leading(h, held, d) ==
    d[h.unit].heading =>
        \E j \in DOMAIN held :
            /\ Differ(d, h, held[j])
            /\ \A i \in 1..j - 1 : d[held[i].unit].heading /\ ~Differ(d, held[i], held[j])

LEMMA LeadingMore ==
    ASSUME NEW d, NEW h, NEW a \in Seq(Item), NEW b \in Seq(Item), Leading(h, a, d)
    PROVE  Leading(h, a \o b, d)
<1> DEFINE ab == a \o b
<1>1. /\ Len(a) \in Nat /\ Len(ab) >= Len(a) /\ Len(ab) \in Nat
      /\ DOMAIN ab = 1..Len(ab) /\ DOMAIN a = 1..Len(a)
      /\ \A i \in 1..Len(a) : ab[i] = a[i]
  OBVIOUS
<1> HIDE DEF ab
<1>2. ASSUME d[h.unit].heading
      PROVE  \E j \in DOMAIN ab :
                 /\ Differ(d, h, ab[j])
                 /\ \A i \in 1..j - 1 : d[ab[i].unit].heading /\ ~Differ(d, ab[i], ab[j])
  <2>1. PICK j \in DOMAIN a :
            /\ Differ(d, h, a[j])
            /\ \A i \in 1..j - 1 : d[a[i].unit].heading /\ ~Differ(d, a[i], a[j])
    BY <1>2 DEF Leading
  <2>2. j \in DOMAIN ab /\ ab[j] = a[j] /\ \A i \in 1..j - 1 : ab[i] = a[i]
    BY <1>1, <2>1
  <2> QED BY <2>1, <2>2
<1> QED BY <1>2 DEF Leading, ab

\* The headings at the end of the items go to the next chunk, which starts with r.
LEMMA LeadingLess ==
    ASSUME NEW d, NEW h, NEW r, NEW a \in Seq(Item), NEW b \in Seq(Item), a # <<>>,
           Leading(h, a \o b, d),
           \A i \in 1..Len(b) : ~Differ(d, b[i], r),
           d[Last(a).unit].heading => Differ(d, Last(a), r)
    PROVE  Leading(h, a, d)
<1> DEFINE ab == a \o b  m == Len(a)
<1>1. /\ m \in Nat \ {0} /\ Len(b) \in Nat /\ Len(ab) = m + Len(b)
      /\ DOMAIN ab = 1..m + Len(b) /\ DOMAIN a = 1..m
      /\ \A i \in 1..m : ab[i] = a[i]
      /\ \A i \in 1..Len(b) : ab[m + i] = b[i]
  BY EmptySeq
<1>2. Last(a) = a[m] /\ m \in 1..m
  BY <1>1 DEF Last
<1> HIDE DEF ab, m
<1>3. ASSUME d[h.unit].heading
      PROVE  \E j \in DOMAIN a :
                 /\ Differ(d, h, a[j])
                 /\ \A i \in 1..j - 1 : d[a[i].unit].heading /\ ~Differ(d, a[i], a[j])
  <2>1. PICK j \in DOMAIN ab :
            /\ Differ(d, h, ab[j])
            /\ \A i \in 1..j - 1 : d[ab[i].unit].heading /\ ~Differ(d, ab[i], ab[j])
    BY <1>3 DEF Leading, ab
  <2>2. CASE j \in 1..m
    <3>1. ab[j] = a[j] /\ \A i \in 1..j - 1 : ab[i] = a[i]
      BY <1>1, <2>2
    <3> QED BY <1>1, <2>1, <2>2, <3>1
  <2>3. CASE j \notin 1..m
    <3>1. j \in m + 1..m + Len(b) /\ m \in 1..j - 1
      BY <1>1, <2>1, <2>3
    <3>2. d[Last(a).unit].heading /\ ~Differ(d, Last(a), ab[j])
      BY <1>1, <1>2, <2>1, <3>1
    <3>3. ~Differ(d, ab[j], r)
      <4> DEFINE k == j - m
      <4>1. k \in 1..Len(b) /\ m + k = j
        BY <1>1, <3>1
      <4> HIDE DEF k
      <4> QED BY <1>1, <4>1
    <3>4. Differ(d, Last(a), r) /\ Differ(d, h, ab[j])
      BY <2>1, <3>2
    <3>5. FALSE
      BY ONLY <3>2, <3>3, <3>4 DEF Differ
    <3> QED BY <3>5
  <2> QED BY <2>2, <2>3
<1> QED BY <1>3 DEF Leading

LEMMA LeadingMoved ==
    ASSUME NEW d, NEW h, NEW b \in Seq(Item), NEW r \in Seq(Item), r # <<>>,
           \A i \in 1..Len(b) : d[b[i].unit].heading /\ ~Differ(d, b[i], r[1]),
           d[h.unit].heading => Differ(d, h, r[1])
    PROVE  Leading(h, b \o r, d)
<1> DEFINE br == b \o r  j == Len(b) + 1
<1>1. /\ Len(b) \in Nat /\ Len(r) \in Nat \ {0} /\ j \in DOMAIN br /\ br[j] = r[1]
      /\ \A i \in 1..Len(b) : br[i] = b[i]
  <2>1. Len(b) \in Nat /\ Len(r) \in Nat \ {0}
    BY EmptySeq
  <2>2. Len(br) = Len(b) + Len(r) /\ DOMAIN br = 1..Len(b) + Len(r) /\ br[Len(b) + 1] = r[1]
    BY <2>1
  <2> QED BY <2>1, <2>2
<1>2. \A i \in 1..j - 1 : i \in 1..Len(b)
  BY <1>1
<1> HIDE DEF br, j
<1> QED BY <1>1, <1>2 DEF Leading, br

\* The headings at the end of l that Trailing counts, and the item before them.
LEMMA TrailingStays ==
    ASSUME NEW l, NEW r, l.items \in Seq(Item), l.items # <<>>
    PROVE  LET n == Trailing(l, r)
               m == Len(l.items)
           IN  /\ \A i \in m - n + 1..m : ~Differ(doc, l.items[i], r.items[1])
               /\ n # m /\ doc[l.items[m - n].unit].heading =>
                      Differ(doc, l.items[m - n], r.items[1])
<1> DEFINE n == Len(l.items)
           Stays(i) == ~Shape(l.items[i]).heading \/ DifferentSections(l.items[i], r.items[1])
           last == {i \in DOMAIN l.items : Stays(i)}
           most == CHOOSE i \in last : \A j \in last : j <= i
<1>1. n \in Nat \ {0} /\ DOMAIN l.items = 1..n
  BY EmptySeq
<1>2. Trailing(l, r) = IF last = {} THEN n ELSE n - most
  BY DEF Trailing
<1>3. \A i \in 1..n : i \notin last => ~Differ(doc, l.items[i], r.items[1])
  BY <1>1 DEF Shape, DifferentSections, Differ
<1>4. \A i \in last : doc[l.items[i].unit].heading => Differ(doc, l.items[i], r.items[1])
  BY DEF Shape, DifferentSections, Differ
<1> HIDE DEF n, last
<1>5. CASE last = {}
  <2>1. Trailing(l, r) = n
    BY <1>2, <1>5
  <2>2. \A i \in n - n + 1..n : i \in 1..n
    BY <1>1
  <2> QED BY <1>3, <1>5, <2>1, <2>2 DEF n
<1>6. CASE last # {}
  <2>1. last \in SUBSET (1..n)
    BY <1>1 DEF last
  <2>3. \E i \in last : \A j \in last : j <= i
    <3>1. \E x \in last : \A y \in last : x >= y
      BY <1>1, <1>6, <2>1, MaxExists
    <3> QED BY <2>1, <3>1
  <2>4. most \in last /\ \A j \in last : j <= most
    BY <2>3
  <2>5. most \in 1..n
    BY <2>1, <2>4
  <2> HIDE DEF most
  <2>6. Trailing(l, r) = n - most
    BY <1>2, <1>6
  <2>7. n - (n - most) = most /\ n - (n - most) + 1 = most + 1
    BY <1>1, <2>5
  <2>8. \A i \in most + 1..n : i \in 1..n /\ i \notin last
    BY <1>1, <2>1, <2>4, <2>5
  <2>9. \A i \in most + 1..n : ~Differ(doc, l.items[i], r.items[1])
    BY <1>3, <2>8
  <2>10. doc[l.items[most].unit].heading => Differ(doc, l.items[most], r.items[1])
    BY <1>4, <2>4
  <2> QED BY <2>6, <2>7, <2>9, <2>10 DEF n
<1> QED BY <1>5, <1>6

-----------------------------------------------------------------------------
(* Groups of rows that need not be cut *)

\* MayJoin, for document d.
Joinable(l, r, d) ==
    LET tail == Last(l.items)
        head == r.items[1]
    IN  /\ tail.unit = head.unit
        /\ tail.rows # <<>> /\ head.rows # <<>>
        /\ \E g \in d[tail.unit].groups : Last(tail.rows) \in g /\ head.rows[1] \in g
        /\ ~l.fallback /\ ~r.fallback
        /\ ~TooMany(l.items \o r.items)
        /\ Last(tail.rows) \notin d[tail.unit].heavy

LEMMA JoinableIs ==
    ASSUME NEW l, NEW r
    PROVE  MayJoin(l, r) <=> Joinable(l, r, doc)
BY DEF MayJoin, Joinable, Cuts, SameGroup

\* What Joined makes of two chunks.
LEMMA JoinedItems ==
    ASSUME NEW l \in Chunk, NEW r \in Chunk, l.items # <<>>, r.items # <<>>,
           Last(l.items).unit = r.items[1].unit, Last(l.items).rows # <<>>
    PROVE  LET held == Joined(l, r).items
               m == Len(l.items)
           IN  /\ Joined(l, r).fallback = (l.fallback \/ r.fallback)
               /\ held \in Seq(Item) /\ held # <<>>
               /\ Len(held) = m + Len(r.items) - 1
               /\ \A i \in 1..m : held[i].unit = l.items[i].unit
               /\ \A i \in 1..Len(r.items) : held[(m - 1) + i].unit = r.items[i].unit
               /\ held[1].rows # <<>> <=> l.items[1].rows # <<>>
               /\ l.items[1].rows # <<>> => held[1].rows[1] = l.items[1].rows[1]
               /\ UnitsOf(l.items) \subseteq UnitsOf(held)
<1> DEFINE a == Last(l.items)  b == r.items[1]  f == Front(l.items)  t == Tail(r.items)
           rows == a.rows \o b.rows
           both == [unit |-> a.unit, rows |-> rows]
           held == Append(f, both) \o t  m == Len(l.items)  q == Len(r.items)
<1>1. /\ l.items \in Seq(Item) /\ r.items \in Seq(Item)
  BY DEF Chunk
<1>2. /\ f \in Seq(Item) /\ a \in Item /\ Len(f) = m - 1 /\ m \in Nat \ {0} /\ l.items = Append(f, a)
  BY <1>1, LastPart
<1>3. /\ t \in Seq(Item) /\ b \in Item /\ q \in Nat \ {0} /\ Len(t) = q - 1
      /\ \A i \in 1..q - 1 : t[i] = r.items[i + 1]
  <2>1. q \in Nat \ {0}
    BY <1>1, EmptySeq
  <2> QED BY <1>1, <2>1
<1>4. /\ a.rows \in Seq(Nat \ {0}) /\ b.rows \in Seq(Nat \ {0}) /\ a.unit \in Nat /\ b.unit = a.unit
      /\ a = [unit |-> a.unit, rows |-> a.rows]
  BY <1>2, <1>3 DEF Item
<1>5. rows \in Seq(Nat \ {0}) /\ rows # <<>> /\ rows[1] = a.rows[1]
  <2> DEFINE x == a.rows  y == b.rows
  <2>1. x \in Seq(Nat \ {0}) /\ y \in Seq(Nat \ {0}) /\ x # <<>>
    BY <1>4
  <2> HIDE DEF x, y
  <2>2. Len(x) \in Nat \ {0} /\ Len(y) \in Nat
    BY ONLY <2>1, EmptySeq
  <2>3. x \o y \in Seq(Nat \ {0}) /\ Len(x \o y) = Len(x) + Len(y) /\ (x \o y)[1] = x[1]
    BY ONLY <2>1, <2>2
  <2>4. x \o y # <<>>
    BY ONLY <2>2, <2>3
  <2> QED BY <2>3, <2>4 DEF x, y
<1> HIDE DEF rows
<1>6. both \in Item /\ both.unit = a.unit /\ both.rows = rows
  BY <1>4, <1>5 DEF Item
<1>7. Joined(l, r).items = held /\ Joined(l, r).fallback = (l.fallback \/ r.fallback)
  <2>1. [a EXCEPT !.rows = @ \o b.rows] = both
    <3> DEFINE new == a.rows \o b.rows
    <3> HIDE DEF a, new
    <3>1. [a EXCEPT !.rows = new] = [unit |-> a.unit, rows |-> new]
      BY ONLY <1>2 DEF Item
    <3> QED BY <3>1 DEF rows, new
  <2> HIDE DEF both
  <2>2. held = Append(Front(l.items), [a EXCEPT !.rows = @ \o b.rows]) \o Tail(r.items)
    BY <2>1
  <2> HIDE DEF held
  <2> QED BY <2>2 DEF Joined, Rebuilt, Merged
<1> HIDE DEF f, a, b, t, both
<1> DEFINE fb == Append(f, both)
<1>8. /\ fb \in Seq(Item) /\ Len(fb) = m /\ fb[m] = both
      /\ \A i \in 1..m - 1 : fb[i] = f[i]
  BY <1>2, <1>6
<1> HIDE DEF fb
<1>9. /\ held \in Seq(Item) /\ Len(held) = m + (q - 1)
      /\ \A i \in 1..m : held[i] = fb[i]
      /\ \A i \in 1..q - 1 : held[m + i] = t[i]
  <2>1. held = fb \o t
    BY DEF fb
  <2> HIDE DEF held, m, q
  <2>2. /\ held \in Seq(Item) /\ Len(held) = Len(fb) + Len(t)
        /\ \A i \in 1..Len(fb) : held[i] = fb[i]
        /\ \A i \in 1..Len(t) : held[Len(fb) + i] = t[i]
    <3>1. fb \in Seq(Item) /\ t \in Seq(Item)
      BY <1>3, <1>8
    <3> QED BY ONLY <2>1, <3>1
  <2> QED BY ONLY <1>3, <1>8, <2>2
<1>10. /\ \A i \in 1..m - 1 : l.items[i] = f[i]
       /\ l.items[m] = a
  BY <1>2
<1> HIDE DEF held
<1>11. \A i \in 1..m : held[i].unit = l.items[i].unit
  <2> SUFFICES ASSUME NEW i \in 1..m PROVE held[i].unit = l.items[i].unit
    OBVIOUS
  <2>1. CASE i = m
    BY <1>6, <1>8, <1>9, <1>10, <2>1
  <2>2. CASE i # m
    <3>1. i \in 1..m - 1
      BY <1>2, <2>2
    <3> QED BY <1>8, <1>9, <1>10, <3>1
  <2> QED BY <2>1, <2>2
<1>12. \A i \in 1..q : held[(m - 1) + i].unit = r.items[i].unit
  <2> SUFFICES ASSUME NEW i \in 1..q PROVE held[(m - 1) + i].unit = r.items[i].unit
    OBVIOUS
  <2>1. CASE i = 1
    <3>1. (m - 1) + i = m /\ m \in 1..m
      BY <1>2, <2>1
    <3>2. held[m] = both /\ r.items[i].unit = a.unit
      BY <1>4, <1>8, <1>9, <2>1, <3>1 DEF b
    <3> QED BY <1>6, <3>1, <3>2
  <2>2. CASE i # 1
    <3> DEFINE k == i - 1
    <3>1. k \in 1..q - 1 /\ (m - 1) + i = m + k /\ k + 1 = i
      BY <1>2, <1>3, <2>2
    <3> HIDE DEF k
    <3>2. held[m + k] = r.items[k + 1]
      BY <1>3, <1>9, <3>1
    <3> QED BY <3>1, <3>2
  <2> QED BY <2>1, <2>2
<1>13. /\ held[1].rows # <<>> <=> l.items[1].rows # <<>>
       /\ l.items[1].rows # <<>> => held[1].rows[1] = l.items[1].rows[1]
  <2>1. CASE m = 1
    BY <1>5, <1>6, <1>8, <1>9, <1>10, <2>1 DEF a
  <2>2. CASE m # 1
    <3>1. 1 \in 1..m - 1 /\ 1 \in 1..m
      BY <1>2, <2>2
    <3>2. held[1] = l.items[1]
      BY <1>8, <1>9, <1>10, <3>1
    <3> QED BY <3>2
  <2> QED BY <2>1, <2>2
<1>14. UnitsOf(l.items) \subseteq UnitsOf(held)
  <2>1. DOMAIN l.items = 1..m /\ DOMAIN held = 1..Len(held)
    <3>1. l.items \in Seq(Item) /\ held \in Seq(Item)
      BY <1>1, <1>9
    <3> QED BY ONLY <3>1
  <2>2. \A i \in 1..m : i \in 1..Len(held)
    <3> HIDE DEF m, q
    <3> QED BY ONLY <1>2, <1>3, <1>9
  <2> QED BY <1>11, <2>1, <2>2 DEF UnitsOf
<1>15. held # <<>> /\ Len(held) = m + q - 1
  <2> HIDE DEF m, q
  <2>1. Len(held) = m + q - 1 /\ Len(held) # 0
    BY ONLY <1>2, <1>3, <1>9
  <2> QED BY <2>1
<1> QED BY <1>7, <1>9, <1>11, <1>12, <1>13, <1>14, <1>15

\* A chunk that could not be joined with the one before it cannot be when it has
\* been joined with the one behind it.
LEMMA StaysApart ==
    ASSUME NEW d, NEW p \in Chunk, NEW l \in Chunk, NEW r \in Chunk,
           l.items # <<>>, r.items # <<>>,
           ~Joinable(p, l, d), Joinable(l, r, d)
    PROVE  ~Joinable(p, Joined(l, r), d)
<1> DEFINE j == Joined(l, r)
<1>1. Last(l.items).unit = r.items[1].unit /\ Last(l.items).rows # <<>> /\ ~l.fallback
  BY DEF Joinable
<1>2. /\ j.fallback = (l.fallback \/ r.fallback) /\ j.items \in Seq(Item)
      /\ \A i \in 1..Len(l.items) : j.items[i].unit = l.items[i].unit
      /\ j.items[1].rows # <<>> <=> l.items[1].rows # <<>>
      /\ l.items[1].rows # <<>> => j.items[1].rows[1] = l.items[1].rows[1]
      /\ UnitsOf(l.items) \subseteq UnitsOf(j.items)
  BY <1>1, JoinedItems
<1> HIDE DEF j
<1>3. j.items[1].unit = l.items[1].unit
  <2>1. 1 \in 1..Len(l.items)
    <3>1. l.items \in Seq(Item)
      BY DEF Chunk
    <3> QED BY <3>1, EmptySeq
  <2> QED BY <1>2, <2>1
<1>4. TooMany(p.items \o l.items) => TooMany(p.items \o j.items)
  <2> DEFINE x == p.items \o l.items  y == p.items \o j.items
  <2>1. p.items \in Seq(Item) /\ l.items \in Seq(Item)
    BY DEF Chunk
  <2>2. x \in Seq(Item) /\ y \in Seq(Item)
    BY <1>2, <2>1
  <2>3. UnitsOf(x) \subseteq UnitsOf(y)
    <3>1. UnitsOf(x) = UnitsOf(p.items) \cup UnitsOf(l.items)
      BY <2>1, UnitsJoin
    <3>2. UnitsOf(y) = UnitsOf(p.items) \cup UnitsOf(j.items)
      BY <1>2, <2>1, UnitsJoin
    <3> QED BY <1>2, <3>1, <3>2
  <2> HIDE DEF x, y
  <2>4. /\ Cardinality(UnitsOf(x)) <= Cardinality(UnitsOf(y))
        /\ Cardinality(UnitsOf(x)) \in Nat /\ Cardinality(UnitsOf(y)) \in Nat
    BY <2>2, <2>3, FewerUnits, UnitsFinite
  <2>5. MaxUnits \in Nat
    BY LimitAssumption
  <2> QED BY <2>4, <2>5 DEF TooMany, x, y
<1>5. ASSUME Joinable(p, j, d) PROVE FALSE
  <2>1. Joinable(p, l, d)
    BY <1>1, <1>2, <1>3, <1>4, <1>5 DEF Joinable
  <2> QED BY <2>1
<1> QED BY <1>5 DEF j

-----------------------------------------------------------------------------
(* How far the boundaries are drawn *)

\* The splitting passes that are behind the chunks a pass has to visit, and behind
\* those it has made.
Visited(p) == CASE p = "forms" -> 1 [] p = "sizes" -> 2 [] p = "done" -> 3 [] OTHER -> 0
Made(p) == CASE p = "cases" -> 1 [] p = "forms" -> 2 [] p \in {"sizes", "done"} -> 3 [] OTHER -> 0

\* What one pass says of the items it has put in a group.
GroupDrawn(g, p, d) ==
    /\ p = "cases" => Cased(g, d)
    /\ p = "forms" => Formed(g, d)
    /\ p = "sizes" => ~TooMany(g)

LEMMA PassDraws ==
    ASSUME NEW d, NEW s, NEW p \in {"cases", "forms", "sizes"}, NEW g,
           Drawn(g, Visited(p), d, s), GroupDrawn(g, p, d)
    PROVE  Drawn(g, Made(p), d, s)
<1>1. CASE p = "cases"
  <2>1. Made(p) = 1
    BY <1>1 DEF Made
  <2> QED BY <1>1, <2>1 DEF Drawn, GroupDrawn
<1>2. CASE p = "forms"
  <2>1. Made(p) = 2 /\ Visited(p) = 1
    BY <1>2 DEF Made, Visited
  <2> QED BY <1>2, <2>1 DEF Drawn, GroupDrawn
<1>3. CASE p = "sizes"
  <2>1. Made(p) = 3 /\ Visited(p) = 2
    BY <1>3 DEF Made, Visited
  <2> QED BY <1>3, <2>1 DEF Drawn, GroupDrawn
<1> QED BY <1>1, <1>2, <1>3

\* The items before item j of a group.
LEMMA Before ==
    ASSUME NEW g \in Seq(Item), NEW j \in 2..Len(g)
    PROVE  LET held == SubSeq(g, 1, j - 1)
           IN  /\ held \in Seq(Item) /\ held # <<>> /\ Last(held) = g[j - 1]
               /\ HasBody(held) <=> \E i \in 1..j - 1 : doc[g[i].unit].body
               /\ Append(held, g[j]) = SubSeq(g, 1, j)
<1> DEFINE held == SubSeq(g, 1, j - 1)
<1>1. /\ held \in Seq(Item) /\ Len(held) = j - 1 /\ DOMAIN held = 1..j - 1
      /\ \A i \in 1..j - 1 : held[i] = g[i]
  OBVIOUS
<1>2. held # <<>> /\ Last(held) = g[j - 1]
  BY <1>1 DEF Last
<1>3. HasBody(held) <=> \E i \in 1..j - 1 : doc[g[i].unit].body
  <2> HIDE DEF held
  <2> QED BY <1>1 DEF HasBody, Shape
<1>4. SubSeq(g, 1, j) = held \o <<g[j]>>
  <2>1. Len(g) \in Nat /\ 1 \in 1..Len(g) /\ j \in 1..Len(g)
    OBVIOUS
  <2> QED BY <2>1, SubSeqRecursiveSecond
<1>5. Append(held, g[j]) = SubSeq(g, 1, j)
  <2>1. g[j] \in Item
    OBVIOUS
  <2> HIDE DEF held
  <2> QED BY <1>1, <1>4, <2>1
<1> QED BY <1>1, <1>2, <1>3, <1>5

LEMMA OneUnit ==
    ASSUME NEW g \in Seq(Item), Len(g) = 1
    PROVE  ~TooMany(g)
<1>1. DOMAIN g = {1}
  OBVIOUS
<1>2. UnitsOf(g) = {g[1].unit}
  BY <1>1 DEF UnitsOf
<1>3. Cardinality(UnitsOf(g)) = 1
  BY <1>2, FS_Singleton
<1>4. MaxUnits \in Nat \ {0}
  BY LimitAssumption
<1> QED BY <1>3, <1>4 DEF TooMany

LEMMA UncutDrawn ==
    ASSUME NEW g \in Seq(Item), g # <<>>,
           \A j \in 2..Len(g) : ~CutsBefore(SubSeq(g, 1, j - 1), g[j])
    PROVE  GroupDrawn(g, pass, doc)
<1>1. CASE pass = "cases"
  <2>1. \A j \in 2..Len(g) : ~doc[g[j].unit].case
    BY <1>1 DEF CutsBefore, Shape
  <2> QED BY <1>1, <2>1 DEF GroupDrawn, Cased
<1>2. CASE pass = "forms"
  <2>1. ASSUME NEW j \in 2..Len(g)
        PROVE  /\ doc[g[j].unit].form => \A i \in 1..j - 1 : ~doc[g[i].unit].body
               /\ ~(doc[g[j - 1].unit].ends /\ doc[g[j].unit].opens)
    <3> DEFINE held == SubSeq(g, 1, j - 1)
    <3>1. /\ ~(Shape(g[j]).form /\ HasBody(held))
          /\ ~(Shape(Last(held)).ends /\ Shape(g[j]).opens)
      BY <1>2 DEF CutsBefore
    <3>2. /\ Last(held) = g[j - 1]
          /\ HasBody(held) <=> \E i \in 1..j - 1 : doc[g[i].unit].body
      BY Before
    <3> HIDE DEF held
    <3> QED BY <3>1, <3>2 DEF Shape
  <2> QED BY <1>2, <2>1 DEF GroupDrawn, Formed
<1>3. CASE pass = "sizes"
  <2>1. Len(g) \in Nat \ {0}
    BY EmptySeq
  <2>2. CASE Len(g) = 1
    BY <1>3, <2>2, OneUnit, SMTT(30) DEF GroupDrawn
  <2>3. CASE Len(g) # 1
    <3> DEFINE j == Len(g)
    <3>1. j \in 2..Len(g) /\ SubSeq(g, 1, j) = g
      <4>1. j \in 2..Len(g)
        BY <2>1, <2>3
      <4>2. SubSeq(g, 1, Len(g)) = g
        BY SubSeqFull
      <4> QED BY <4>1, <4>2
    <3>2. ~TooMany(Append(SubSeq(g, 1, j - 1), g[j]))
      BY <1>3, <3>1 DEF CutsBefore
    <3>3. Append(SubSeq(g, 1, j - 1), g[j]) = SubSeq(g, 1, j)
      <4> HIDE DEF j
      <4> QED BY <3>1, Before
    <3> QED BY <1>3, <3>1, <3>2, <3>3 DEF GroupDrawn
  <2> QED BY <2>2, <2>3
<1> QED BY <1>1, <1>2, <1>3 DEF GroupDrawn

LEMMA VisitedIn ==
    ASSUME NEW p
    PROVE  Visited(p) \in 0..3 /\ Made(p) \in 0..3
BY DEF Visited, Made

\* The groups of a chunk are as the pass is to make them.
LEMMA GroupsDrawn ==
    ASSUME pass \in {"cases", "forms", "sizes"}, NEW held \in Seq(Item), NEW s,
           Drawn(held, Visited(pass), doc, s), NEW i \in DOMAIN Groups(held)
    PROVE  /\ Groups(held)[i] \in Seq(Item)
           /\ Drawn(Groups(held)[i], Made(pass), doc, s)
<1> DEFINE gs == Groups(held)  g == gs[i]
<1>1. gs \in Seq(Seq(Item)) /\ FlattenSeq(gs) = held /\ Parted(gs)
  BY GroupsRight
<1>2. i \in DOMAIN gs
  OBVIOUS
<1> HIDE DEF gs
<1>3. g \in Seq(Item) /\ g # <<>> /\ \A j \in 2..Len(g) : ~CutsBefore(SubSeq(g, 1, j - 1), g[j])
  BY <1>1, <1>2 DEF Parted
<1>4. PartOf(g, held)
  BY <1>1, <1>2, FlattenedParts
<1> HIDE DEF g
<1>5. Drawn(g, Visited(pass), doc, s)
  BY <1>3, <1>4, DrawnPart, VisitedIn
<1>6. GroupDrawn(g, pass, doc)
  BY ONLY <1>3, UncutDrawn
<1> QED BY <1>3, <1>5, <1>6, PassDraws DEF g, gs

\* A chunk that is not split need not be.
LEMMA UnsplitDrawn ==
    ASSUME pass \in {"cases", "forms", "sizes"}, NEW c \in Chunk, c.items # <<>>, NEW s,
           Drawn(c.items, Visited(pass), doc, s), ~(MaySplit(c) /\ Len(Groups(c.items)) > 1)
    PROVE  Drawn(c.items, Made(pass), doc, s)
<1>0. c.items \in Seq(Item)
  BY DEF Chunk
<1>1. CASE ~MaySplit(c)
  <2>1. GroupDrawn(c.items, pass, doc)
    BY <1>1 DEF MaySplit, GroupDrawn, Cased, Formed, Several
  <2> QED BY <2>1, PassDraws
<1>2. CASE ~(Len(Groups(c.items)) > 1)
  <2> DEFINE gs == Groups(c.items)
  <2>1. gs \in Seq(Seq(Item)) /\ FlattenSeq(gs) = c.items /\ Len(gs) \in Nat
    BY <1>0, GroupsRight
  <2>2. gs # <<>>
    <3>1. FlattenSeq(<<>>) = <<>>
      BY DEF FlattenSeq
    <3> QED BY <2>1, <3>1
  <2> HIDE DEF gs
  <2>3. Len(gs) = 1 /\ 1 \in DOMAIN gs
    <3>1. Len(gs) # 0
      BY <2>1, <2>2, EmptySeq
    <3>2. ~(Len(gs) > 1)
      BY <1>2 DEF gs
    <3>3. Len(gs) = 1
      <4> DEFINE n == Len(gs)
      <4>1. n \in Nat /\ n # 0 /\ ~(n > 1)
        BY <2>1, <3>1, <3>2
      <4> HIDE DEF n
      <4>2. n = 1
        BY ONLY <4>1
      <4> QED BY <4>2 DEF n
    <3>4. DOMAIN gs = 1..Len(gs)
      BY ONLY <2>1
    <3> QED BY ONLY <3>3, <3>4
  <2> DEFINE g == gs[1]
  <2>4. g \in Seq(Item) /\ Drawn(g, Made(pass), doc, s)
    BY <1>0, <2>3, GroupsDrawn DEF gs
  <2>5. FlattenSeq(gs) = g
    <3>1. gs = Append(<<>>, g) /\ <<>> \in Seq(Seq(Item))
      <4>1. gs = <<g>>
        BY <2>1, <2>3
      <4> QED BY <4>1
    <3> HIDE DEF g
    <3>2. FlattenSeq(gs) = FlattenSeq(<<>>) \o g
      BY <2>4, <3>1, FlattenAppend
    <3>3. FlattenSeq(<<>>) = <<>>
      BY DEF FlattenSeq
    <3> QED BY <2>4, <3>2, <3>3
  <2> QED BY <2>1, <2>4, <2>5
<1> QED BY <1>1, <1>2

-----------------------------------------------------------------------------
(* The boundaries, at every point of every pass *)

AllLed(cs, d) == \A i \in 1..Len(cs) - 1 : Leading(Last(cs[i].items), cs[i + 1].items, d)
AllWhole(cs, d) == \A i \in 1..Len(cs) - 1 : ~Joinable(cs[i], cs[i + 1], d)

DrawnInv ==
    /\ AllDrawn(todo, Visited(pass), doc, start)
    /\ AllDrawn(result, Made(pass), doc, start)
    /\ AllDrawn(run, 0, doc, start)
    /\ Linked(run, doc)
LedInv ==
    /\ pass = "headings" =>
           /\ AllLed(result, doc)
           /\ result # <<>> /\ todo # <<>> => Leading(Last(Last(result).items), todo[1].items, doc)
    /\ pass = "rows" /\ result = <<>> => AllLed(todo, doc)
WholeInv ==
    /\ pass = "rows" => AllWhole(result, doc)
    /\ pass = "cases" /\ result = <<>> => AllWhole(todo, doc)
BInv == DrawnInv /\ LedInv /\ WholeInv /\ (pass = "done" => result = <<>>)

LEMMA Lists ==
    ASSUME IInv
    PROVE  /\ result \in Seq(Chunk) /\ run \in Seq(Chunk) /\ todo \in Seq(Chunk)
           /\ AllHold(result) /\ AllHold(run) /\ AllHold(todo)
<1>1. result \in Seq(Chunk) /\ run \in Seq(Chunk) /\ todo \in Seq(Chunk)
  BY DEF IInv, StateType
<1>2. ListRight(result, doc, start) /\ ListRight(run, doc, start) /\ ListRight(todo, doc, start)
  BY <1>1, PartsRight DEF IInv, List
<1>3. ASSUME NEW cs \in Seq(Chunk), ListRight(cs, doc, start) PROVE AllHold(cs)
  <2>1. \A i \in DOMAIN cs : ChunkRight(cs[i], doc, start)
    BY <1>3, InSequence DEF ListRight
  <2> QED BY <2>1 DEF AllHold, ChunkRight, Chunk
<1> QED BY <1>1, <1>2, <1>3

LEMMA Empty ==
    ASSUME NEW d
    PROVE  AllLed(<<>>, d) /\ AllWhole(<<>>, d) /\ Linked(<<>>, d)
BY DEF AllLed, AllWhole, Linked

LEMMA HeadDrawn ==
    ASSUME IInv, BInv, todo # <<>>
    PROVE  /\ Head(todo) \in Chunk /\ Head(todo).items \in Seq(Item) /\ Head(todo).items # <<>>
           /\ Head(todo) = todo[1] /\ Tail(todo) \in Seq(Chunk)
           /\ Drawn(Head(todo).items, Visited(pass), doc, start)
           /\ AllDrawn(Tail(todo), Visited(pass), doc, start)
<1> DEFINE c == Head(todo)  t == Tail(todo)  one == <<c>>
<1>1. todo \in Seq(Chunk) /\ AllHold(todo) /\ AllDrawn(todo, Visited(pass), doc, start)
  BY Lists DEF BInv, DrawnInv
<1>2. c \in Chunk /\ t \in Seq(Chunk) /\ one \in Seq(Chunk) /\ todo = one \o t
  BY <1>1, FirstOf
<1>3. c = todo[1] /\ 1 \in DOMAIN todo
  BY <1>1, EmptySeq
<1>4. c.items \in Seq(Item) /\ c.items # <<>>
  BY <1>1, <1>3 DEF AllHold
<1> HIDE DEF c, t, one
<1>5. AllDrawn(one, Visited(pass), doc, start) /\ AllDrawn(t, Visited(pass), doc, start)
  BY <1>1, <1>2, AllDrawnJoin
<1>6. Drawn(c.items, Visited(pass), doc, start)
  BY <1>5, AllDrawnOne DEF one
<1> QED BY <1>2, <1>3, <1>4, <1>5, <1>6 DEF c, t

LEMMA FlushDrawn ==
    ASSUME IInv, BInv, pass = "coalesce"
    PROVE  /\ Flushed \in Seq(Chunk) /\ result \o Flushed \in Seq(Chunk)
           /\ AllDrawn(result \o Flushed, 0, doc, start)
<1>1. /\ result \in Seq(Chunk) /\ run \in Seq(Chunk) /\ AllHold(run) /\ Made(pass) = 0
      /\ AllDrawn(result, 0, doc, start) /\ AllDrawn(run, 0, doc, start) /\ Linked(run, doc)
  BY Lists DEF BInv, DrawnInv, Made
<1>2. Flushed \in Seq(Chunk)
  <2>1. ListRight(run, doc, start)
    BY PartsRight DEF List, IInv, StateType
  <2> QED BY <2>1, FlushedRight DEF Reworked, ListRight
<1>3. AllDrawn(Flushed, 0, doc, start)
  BY <1>1, FlushedDrawn
<1> DEFINE fl == Flushed
<1> HIDE DEF fl
<1>4. AllDrawn(result \o fl, 0, doc, start) /\ result \o fl \in Seq(Chunk)
  BY <1>1, <1>2, <1>3, AllDrawnJoin DEF fl
<1> QED BY <1>2, <1>4 DEF fl

LEMMA AppendDrawn ==
    ASSUME NEW d, NEW s, NEW k, NEW cs \in Seq(Chunk), NEW c \in Chunk,
           AllDrawn(cs, k, d, s), Drawn(c.items, k, d, s)
    PROVE  AllDrawn(Append(cs, c), k, d, s)
<1> DEFINE one == <<c>>
<1>1. one \in Seq(Chunk) /\ Append(cs, c) = cs \o one
  OBVIOUS
<1>2. AllDrawn(one, k, d, s)
  BY AllDrawnOne
<1> HIDE DEF one
<1> QED BY <1>1, <1>2, AllDrawnJoin

LEMMA CoalesceDraws ==
    ASSUME IInv, BInv, Coalesce
    PROVE  BInv'
<1> DEFINE c == Head(todo)  fl == Flushed  rf == result \o fl  one == <<c>>
<1>1. /\ pass = "coalesce" /\ todo # <<>> /\ todo' = Tail(todo) /\ UNCHANGED <<doc, start, pass>>
      /\ \/ result' = rf /\ run' = one
         \/ result' = result /\ run' = Append(run, c) /\ ~Separates(c.items[1])
         \/ result' = Append(rf, c) /\ run' = <<>>
  BY DEF Coalesce
<1>2. /\ c \in Chunk /\ c.items \in Seq(Item) /\ c.items # <<>>
      /\ Drawn(c.items, 0, doc, start) /\ AllDrawn(Tail(todo), 0, doc, start)
      /\ Visited(pass) = 0 /\ Made(pass) = 0
  <2>1. Visited(pass) = 0 /\ Made(pass) = 0
    BY <1>1 DEF Visited, Made
  <2> QED BY <1>1, <2>1, HeadDrawn
<1>3. rf \in Seq(Chunk) /\ AllDrawn(rf, 0, doc, start)
  BY <1>1, FlushDrawn
<1>4. /\ run \in Seq(Chunk) /\ result \in Seq(Chunk) /\ AllDrawn(run, 0, doc, start)
      /\ AllDrawn(result, 0, doc, start) /\ Linked(run, doc)
  BY <1>2, Lists DEF BInv, DrawnInv
<1> HIDE DEF c, fl, rf
<1>5. AllDrawn(one, 0, doc, start) /\ Linked(one, doc)
  <2>1. Len(one) = 1
    OBVIOUS
  <2>2. Linked(one, doc)
    BY <2>1 DEF Linked
  <2> QED BY <1>2, <2>2, AllDrawnOne
<1> HIDE DEF one
<1>6. /\ AllDrawn(result', 0, doc, start) /\ AllDrawn(run', 0, doc, start) /\ Linked(run', doc)
  <2>1. CASE result' = rf /\ run' = one
    BY <1>3, <1>5, <2>1
  <2>2. CASE result' = result /\ run' = Append(run, c) /\ ~Separates(c.items[1])
    <3>1. run # <<>> => ~Differ(doc, Last(Last(run).items), c.items[1])
      BY <2>2 DEF Separates, DifferentSections, Shape, Differ
    <3>2. Linked(Append(run, c), doc)
      BY <1>2, <1>4, <3>1, LinkedGrows
    <3>3. AllDrawn(Append(run, c), 0, doc, start)
      BY <1>2, <1>4, AppendDrawn
    <3> QED BY <1>4, <2>2, <3>2, <3>3
  <2>3. CASE result' = Append(rf, c) /\ run' = <<>>
    BY <1>2, <1>3, <2>3, AppendDrawn, AllDrawnNone, Empty
  <2> QED BY <1>1, <2>1, <2>2, <2>3
<1>7. DrawnInv'
  <2>1. Visited(pass') = 0 /\ Made(pass') = 0
    BY <1>1, <1>2
  <2> QED BY <1>1, <1>2, <1>6, <2>1 DEF DrawnInv
<1>8. LedInv' /\ WholeInv' /\ (pass = "done" => result = <<>>)'
  BY <1>1 DEF LedInv, WholeInv
<1> QED BY <1>7, <1>8 DEF BInv

LEMMA EndCoalesceDraws ==
    ASSUME IInv, BInv, EndCoalesce
    PROVE  BInv'
<1> DEFINE rf == result \o Flushed
<1>1. /\ pass = "coalesce" /\ pass' = NextPass /\ todo' = rf /\ run' = <<>> /\ result' = <<>>
      /\ UNCHANGED <<doc, start>>
  BY DEF EndCoalesce
<1>2. pass' = "headings"
  BY <1>1, PassOrder DEF IInv, StateType
<1>3. AllDrawn(rf, 0, doc, start)
  BY <1>1, FlushDrawn
<1> HIDE DEF rf
<1>4. DrawnInv'
  <2>1. Visited(pass') = 0 /\ Made(pass') = 0
    BY <1>2 DEF Visited, Made
  <2> QED BY <1>1, <1>3, <2>1, AllDrawnNone, Empty DEF DrawnInv
<1>5. LedInv' /\ WholeInv' /\ (pass = "done" => result = <<>>)'
  BY <1>1, <1>2, Empty DEF LedInv, WholeInv
<1> QED BY <1>4, <1>5 DEF BInv

LEMMA EndPassDraws ==
    ASSUME IInv, BInv, EndPass
    PROVE  BInv'
<1>1. /\ pass \notin {"coalesce", "done"} /\ pass' = NextPass /\ todo' = result /\ result' = <<>>
      /\ UNCHANGED <<doc, start, run>> /\ run = <<>> /\ pass \in ToSet(Passes)
  BY DEF EndPass, IInv, StateType
<1>2. /\ AllDrawn(result, Made(pass), doc, start)
      /\ pass = "headings" => AllLed(result, doc)
      /\ pass = "rows" => AllWhole(result, doc)
  BY DEF BInv, DrawnInv, LedInv, WholeInv
<1>3. \/ pass = "headings" /\ pass' = "rows"
      \/ pass = "rows" /\ pass' = "cases"
      \/ pass = "cases" /\ pass' = "forms"
      \/ pass = "forms" /\ pass' = "sizes"
      \/ pass = "sizes" /\ pass' = "done"
  <2>1. pass \in {"headings", "rows", "cases", "forms", "sizes"}
    BY <1>1 DEF Passes, ToSet
  <2> QED BY <1>1, <2>1, PassOrder
<1>4. Visited(pass') = Made(pass)
  BY <1>3 DEF Visited, Made
<1>5. DrawnInv'
  <2>1. run' = <<>> /\ todo' = result /\ result' = <<>> /\ doc' = doc /\ start' = start
    BY <1>1
  <2> QED BY <1>2, <1>4, <2>1, AllDrawnNone, Empty DEF DrawnInv
<1>6. LedInv' /\ WholeInv' /\ (pass = "done" => result = <<>>)'
  BY <1>1, <1>2, <1>3, Empty DEF LedInv, WholeInv
<1> QED BY <1>5, <1>6 DEF BInv

LEMMA AppendHolds ==
    ASSUME NEW cs \in Seq(Chunk), NEW c \in Chunk
    PROVE  Append(cs, c) # <<>>
<1>1. Len(Append(cs, c)) = Len(cs) + 1 /\ Len(cs) \in Nat
  OBVIOUS
<1> QED BY <1>1

LEMMA SplitDraws ==
    ASSUME IInv, BInv, Split
    PROVE  BInv'
<1> DEFINE c == Head(todo)  gs == Groups(c.items)
           new == [i \in DOMAIN gs |-> Rebuilt(c, gs[i], TRUE)]
<1>1. /\ pass \in {"cases", "forms", "sizes"} /\ todo # <<>> /\ todo' = Tail(todo)
      /\ UNCHANGED <<doc, start, pass, run>> /\ run = <<>>
      /\ \/ MaySplit(c) /\ Len(gs) > 1 /\ result' = result \o new
         \/ ~(MaySplit(c) /\ Len(gs) > 1) /\ result' = Append(result, c)
  BY DEF Split, IInv, StateType
<1>2. /\ c \in Chunk /\ c.items \in Seq(Item) /\ c.items # <<>>
      /\ Drawn(c.items, Visited(pass), doc, start) /\ AllDrawn(Tail(todo), Visited(pass), doc, start)
  BY <1>1, HeadDrawn
<1>3. result \in Seq(Chunk) /\ AllDrawn(result, Made(pass), doc, start)
  BY Lists DEF BInv, DrawnInv
<1>4. ChunkRight(c, doc, start)
  <2>1. ListRight(todo, doc, start) /\ todo \in Seq(Chunk)
    BY PartsRight DEF IInv, StateType, List
  <2>2. c = todo[1] /\ 1 \in DOMAIN todo
    BY <1>1, <2>1, EmptySeq
  <2> QED BY <2>1, <2>2, InSequence DEF ListRight
<1> HIDE DEF c
<1>5. new \in Seq(Chunk)
  BY <1>4, SplitRight DEF Reworked, ListRight
<1>6. AllDrawn(new, Made(pass), doc, start)
  <2>1. \A i \in DOMAIN gs : Drawn(gs[i], Made(pass), doc, start)
    BY <1>1, <1>2, GroupsDrawn
  <2>2. DOMAIN new = DOMAIN gs /\ \A i \in DOMAIN gs : new[i].items = gs[i]
    <3> HIDE DEF gs
    <3>1. \A i \in DOMAIN gs : Rebuilt(c, gs[i], TRUE).items = gs[i]
      BY <1>2 DEF Rebuilt, Chunk
    <3> QED BY <3>1
  <2> HIDE DEF new, gs
  <2> QED BY <2>1, <2>2 DEF AllDrawn, ToSet
<1>7. AllDrawn(result', Made(pass), doc, start) /\ result' # <<>>
  <2>1. CASE Len(gs) > 1 /\ result' = result \o new
    <3>1. Len(new) = Len(gs) /\ Len(gs) \in Nat
      <4>1. gs \in Seq(Seq(Item))
        BY <1>2, GroupsRight
      <4> HIDE DEF gs
      <4> QED BY <4>1
    <3> HIDE DEF gs, new
    <3>2. result \o new # <<>>
      <4>1. Len(result \o new) = Len(result) + Len(new) /\ Len(result) \in Nat
        BY <1>3, <1>5
      <4> QED BY <2>1, <3>1, <4>1
    <3> QED BY <1>3, <1>5, <1>6, <2>1, <3>2, AllDrawnJoin
  <2>2. CASE ~(MaySplit(c) /\ Len(gs) > 1) /\ result' = Append(result, c)
    <3>1. Drawn(c.items, Made(pass), doc, start)
      BY <1>1, <1>2, <2>2, UnsplitDrawn
    <3>2. Append(result, c) # <<>>
      BY <1>2, <1>3, AppendHolds
    <3> QED BY <1>2, <1>3, <2>2, <3>1, <3>2, AppendDrawn
  <2> QED BY <1>1, <2>1, <2>2
<1> HIDE DEF new, gs
<1>8. DrawnInv'
  BY <1>1, <1>2, <1>7, AllDrawnNone, Empty DEF DrawnInv
<1>9. LedInv' /\ WholeInv' /\ (pass = "done" => result = <<>>)'
  BY <1>1, <1>7 DEF LedInv, WholeInv
<1> QED BY <1>8, <1>9 DEF BInv

\* A list of which every pair of neighbours is led, or cannot be joined, and one
\* chunk more.
LEMMA LedGrows ==
    ASSUME NEW d, NEW cs \in Seq(Chunk), NEW c \in Chunk, AllLed(cs, d),
           cs # <<>> => Leading(Last(Last(cs).items), c.items, d)
    PROVE  AllLed(Append(cs, c), d)
<1> DEFINE new == Append(cs, c)
<1>1. ASSUME NEW i \in 1..Len(new) - 1 PROVE Leading(Last(new[i].items), new[i + 1].items, d)
  <2>1. \/ i \in 1..Len(cs) - 1 /\ new[i] = cs[i] /\ new[i + 1] = cs[i + 1]
        \/ cs # <<>> /\ i = Len(cs) /\ new[i] = Last(cs) /\ new[i + 1] = c
    BY NewNeighbour
  <2> HIDE DEF new
  <2>2. CASE i \in 1..Len(cs) - 1 /\ new[i] = cs[i] /\ new[i + 1] = cs[i + 1]
    <3>1. Leading(Last(cs[i].items), cs[i + 1].items, d)
      BY <2>2 DEF AllLed
    <3> QED BY <2>2, <3>1
  <2>3. CASE cs # <<>> /\ new[i] = Last(cs) /\ new[i + 1] = c
    BY <2>3
  <2> QED BY <2>1, <2>2, <2>3
<1> QED BY <1>1 DEF AllLed

LEMMA WholeGrows ==
    ASSUME NEW d, NEW cs \in Seq(Chunk), NEW c \in Chunk, AllWhole(cs, d),
           cs # <<>> => ~Joinable(Last(cs), c, d)
    PROVE  AllWhole(Append(cs, c), d)
<1> DEFINE new == Append(cs, c)
<1>1. ASSUME NEW i \in 1..Len(new) - 1 PROVE ~Joinable(new[i], new[i + 1], d)
  <2>1. \/ i \in 1..Len(cs) - 1 /\ new[i] = cs[i] /\ new[i + 1] = cs[i + 1]
        \/ cs # <<>> /\ i = Len(cs) /\ new[i] = Last(cs) /\ new[i + 1] = c
    BY NewNeighbour
  <2> HIDE DEF new
  <2>2. CASE i \in 1..Len(cs) - 1 /\ new[i] = cs[i] /\ new[i + 1] = cs[i + 1]
    <3>1. ~Joinable(cs[i], cs[i + 1], d)
      BY <2>2 DEF AllWhole
    <3> QED BY <2>2, <3>1
  <2>3. CASE cs # <<>> /\ new[i] = Last(cs) /\ new[i + 1] = c
    BY <2>3
  <2> QED BY <2>1, <2>2, <2>3
<1> QED BY <1>1 DEF AllWhole

\* The list without its last chunk, and the chunk before that one.
LEMMA WholeFront ==
    ASSUME NEW d, NEW cs \in Seq(Chunk), cs # <<>>, AllWhole(cs, d)
    PROVE  /\ AllWhole(Front(cs), d)
           /\ Front(cs) # <<>> => ~Joinable(Last(Front(cs)), Last(cs), d)
<1> DEFINE f == Front(cs)  n == Len(cs)
<1>1. /\ f \in Seq(Chunk) /\ Len(f) = n - 1 /\ n \in Nat \ {0} /\ Last(cs) = cs[n]
      /\ \A i \in 1..n - 1 : f[i] = cs[i]
  <2>1. f \in Seq(Chunk) /\ Len(f) = n - 1 /\ n \in Nat \ {0}
    BY LastPart
  <2>2. f = SubSeq(cs, 1, n - 1) /\ Last(cs) = cs[n]
    BY DEF Front, Last
  <2> QED BY <2>1, <2>2
<1> HIDE DEF f, n
<1>2. \A i \in 1..n - 1 : ~Joinable(cs[i], cs[i + 1], d)
  BY DEF AllWhole, n
<1>3. AllWhole(f, d)
  <2> SUFFICES ASSUME NEW i \in 1..Len(f) - 1 PROVE ~Joinable(f[i], f[i + 1], d)
    BY DEF AllWhole
  <2>1. i \in 1..n - 1 /\ i + 1 \in 1..n - 1
    BY <1>1
  <2> QED BY <1>1, <1>2, <2>1
<1>4. ASSUME f # <<>> PROVE ~Joinable(Last(f), Last(cs), d)
  <2>1. Len(f) # 0
    BY <1>1, <1>4, EmptySeq
  <2>2. n - 1 \in 1..n - 1 /\ (n - 1) + 1 = n
    BY <1>1, <2>1
  <2>3. Last(f) = cs[n - 1]
    BY <1>1, <2>2 DEF Last
  <2>4. ~Joinable(cs[n - 1], cs[(n - 1) + 1], d)
    BY <1>2, <2>2
  <2> QED BY <1>1, <2>2, <2>3, <2>4
<1> QED BY <1>3, <1>4 DEF f

LEMMA JoinRowsDraws ==
    ASSUME IInv, BInv, JoinRows
    PROVE  BInv'
<1> DEFINE r == Head(todo)  l == Last(result)  f == Front(result)  j == Joined(l, r)
<1>1. /\ pass = "rows" /\ todo # <<>> /\ todo' = Tail(todo)
      /\ UNCHANGED <<doc, start, pass, run>> /\ run = <<>>
      /\ \/ result # <<>> /\ Joinable(l, r, doc) /\ result' = Append(f, j)
         \/ (result # <<>> => ~Joinable(l, r, doc)) /\ result' = Append(result, r)
  BY JoinableIs DEF JoinRows, IInv, StateType
<1>2. Visited(pass) = 0 /\ Made(pass) = 0
  BY <1>1 DEF Visited, Made
<1>3. /\ r \in Chunk /\ r.items \in Seq(Item) /\ r.items # <<>>
      /\ Drawn(r.items, 0, doc, start) /\ AllDrawn(Tail(todo), 0, doc, start)
  BY <1>1, <1>2, HeadDrawn
<1>4. result \in Seq(Chunk) /\ AllHold(result) /\ AllDrawn(result, 0, doc, start) /\ AllWhole(result, doc)
  BY <1>1, <1>2, Lists DEF BInv, DrawnInv, WholeInv
<1> HIDE DEF r
<1>5. /\ AllDrawn(result', 0, doc, start) /\ AllWhole(result', doc) /\ result' # <<>>
  <2>1. CASE (result # <<>> => ~Joinable(l, r, doc)) /\ result' = Append(result, r)
    <3>1. Append(result, r) # <<>>
      BY <1>3, <1>4, AppendHolds
    <3>2. AllWhole(Append(result, r), doc)
      BY <1>3, <1>4, <2>1, WholeGrows
    <3>3. AllDrawn(Append(result, r), 0, doc, start)
      BY <1>3, <1>4, AppendDrawn
    <3> QED BY <2>1, <3>1, <3>2, <3>3
  <2>2. CASE result # <<>> /\ Joinable(l, r, doc) /\ result' = Append(f, j)
    <3> DEFINE one == <<l>>
    <3>1. f \in Seq(Chunk) /\ l \in Chunk /\ one \in Seq(Chunk) /\ result = f \o one
      <4>1. Front(result) \in Seq(Chunk) /\ Last(result) \in Chunk /\ result = Front(result) \o <<Last(result)>>
        BY <1>4, <2>2, LastPart
      <4> QED BY <4>1
    <3>2. l.items \in Seq(Item) /\ l.items # <<>>
      <4>1. Len(result) \in DOMAIN result /\ l = result[Len(result)]
        BY <1>4, <2>2, EmptySeq DEF Last
      <4> HIDE DEF l
      <4> QED BY <1>4, <4>1 DEF AllHold
    <3>3. AllWhole(f, doc) /\ (f # <<>> => ~Joinable(Last(f), l, doc))
      BY <1>4, <2>2, WholeFront
    <3> HIDE DEF f, l
    <3>4. AllDrawn(f, 0, doc, start) /\ Drawn(l.items, 0, doc, start)
      <4>1. AllDrawn(one, 0, doc, start) <=> Drawn(l.items, 0, doc, start)
        BY AllDrawnOne
      <4> HIDE DEF one
      <4> QED BY <1>4, <3>1, <4>1, AllDrawnJoin
    <3>5. Last(l.items).unit = r.items[1].unit /\ Last(l.items).rows # <<>>
      BY <2>2 DEF Joinable
    <3>6. /\ j.items \in Seq(Item) /\ Len(j.items) = Len(l.items) + Len(r.items) - 1
          /\ \A i \in 1..Len(l.items) : j.items[i].unit = l.items[i].unit
          /\ \A i \in 1..Len(r.items) : j.items[(Len(l.items) - 1) + i].unit = r.items[i].unit
      BY <1>3, <3>1, <3>2, <3>5, JoinedItems
    <3>7. j \in Chunk
      <4>1. ChunkRight(l, doc, start) /\ ChunkRight(r, doc, start)
        <5>1. ListRight(result, doc, start) /\ ListRight(todo, doc, start) /\ todo \in Seq(Chunk)
          BY PartsRight DEF IInv, StateType, List
        <5>2. r = todo[1] /\ 1 \in DOMAIN todo
          BY <1>1, <5>1, EmptySeq DEF r
        <5>3. l = result[Len(result)] /\ Len(result) \in DOMAIN result
          BY <1>4, <2>2, EmptySeq DEF l, Last
        <5> QED BY <1>4, <5>1, <5>2, <5>3, InSequence DEF ListRight
      <4>2. Reworked(<<l>> \o <<r>>, <<j>>, doc, start)
        BY <2>2, <4>1, JoinedRight, JoinableIs
      <4> HIDE DEF j
      <4>3. <<j>> \in Seq(Chunk)
        BY <4>2 DEF Reworked, ListRight
      <4> QED BY <4>3
    <3>8. \A p \in Chunk : ~Joinable(p, l, doc) => ~Joinable(p, j, doc)
      BY <1>3, <2>2, <3>1, <3>2, StaysApart
    <3> HIDE DEF j, one
    <3>9. Drawn(j.items, 0, doc, start)
      <4>1. Sections(l.items, doc, start) /\ Sections(r.items, doc, start)
        BY <1>3, <3>4 DEF Drawn
      <4> DEFINE a == l.items  b == r.items  h == j.items
      <4>2. /\ a \in Seq(Item) /\ b \in Seq(Item) /\ h \in Seq(Item) /\ a # <<>> /\ b # <<>>
            /\ Len(h) = Len(a) + Len(b) - 1
            /\ \A i \in 1..Len(a) : h[i].unit = a[i].unit
            /\ \A i \in 1..Len(b) : h[(Len(a) - 1) + i].unit = b[i].unit
            /\ Sections(a, doc, start) /\ Sections(b, doc, start)
        BY <1>3, <3>2, <3>6, <4>1
      <4> HIDE DEF a, b, h
      <4>3. Sections(h, doc, start)
        BY ONLY <4>2, SectionsOverlap
      <4> QED BY <4>3 DEF Drawn, h
    <3>10. f # <<>> => ~Joinable(Last(f), j, doc)
      <4> SUFFICES ASSUME f # <<>> PROVE ~Joinable(Last(f), j, doc)
        OBVIOUS
      <4>1. Last(f) \in Chunk
        BY <3>1, LastPart
      <4> QED BY <3>3, <3>8, <4>1
    <3>11. AllDrawn(Append(f, j), 0, doc, start) /\ AllWhole(Append(f, j), doc)
      BY <3>1, <3>3, <3>4, <3>7, <3>9, <3>10, AppendDrawn, WholeGrows
    <3>12. Append(f, j) # <<>>
      BY <3>1, <3>7, AppendHolds
    <3> QED BY <2>2, <3>11, <3>12
  <2> QED BY <1>1, <2>1, <2>2
<1> HIDE DEF f, l, j
<1>6. DrawnInv'
  BY <1>1, <1>2, <1>3, <1>5, AllDrawnNone, Empty DEF DrawnInv
<1>7. LedInv' /\ WholeInv' /\ (pass = "done" => result = <<>>)'
  BY <1>1, <1>5 DEF LedInv, WholeInv
<1> QED BY <1>6, <1>7 DEF BInv

LEMMA LeadingFirst ==
    ASSUME NEW d, NEW h, NEW r \in Seq(Item), r # <<>>, d[h.unit].heading => Differ(d, h, r[1])
    PROVE  Leading(h, r, d)
<1>1. 1 \in DOMAIN r
  BY EmptySeq
<1> QED BY <1>1 DEF Leading

LEMMA KeepHeadingsDraws ==
    ASSUME IInv, BInv, KeepHeadings
    PROVE  BInv'
<1> DEFINE h == Head(todo)  t == Tail(todo)
<1>1. /\ pass = "headings" /\ todo # <<>> /\ todo' = t /\ result' = Append(result, h)
      /\ UNCHANGED <<doc, start, pass, run>> /\ run = <<>>
      /\ Len(todo) >= 2 => Trailing(todo[1], todo[2]) = 0
  BY DEF KeepHeadings, IInv, StateType
<1>2. Visited(pass) = 0 /\ Made(pass) = 0
  BY <1>1 DEF Visited, Made
<1>3. /\ h \in Chunk /\ h.items \in Seq(Item) /\ h.items # <<>> /\ h = todo[1] /\ t \in Seq(Chunk)
      /\ Drawn(h.items, 0, doc, start) /\ AllDrawn(t, 0, doc, start)
  BY <1>1, <1>2, HeadDrawn
<1>4. /\ result \in Seq(Chunk) /\ todo \in Seq(Chunk) /\ AllHold(todo)
      /\ AllDrawn(result, 0, doc, start) /\ AllLed(result, doc)
      /\ result # <<>> => Leading(Last(Last(result).items), h.items, doc)
  BY <1>1, <1>2, <1>3, Lists DEF BInv, DrawnInv, LedInv
<1>5. AllDrawn(result', 0, doc, start)
  BY <1>1, <1>3, <1>4, AppendDrawn
<1>6. AllLed(result', doc)
  BY <1>1, <1>3, <1>4, LedGrows
<1>7. ASSUME t # <<>> PROVE Leading(Last(h.items), t[1].items, doc)
  <2> DEFINE r == todo[2]
  <2>1. Len(todo) >= 2 /\ t[1] = r /\ 2 \in DOMAIN todo
    <3>1. Len(t) \in Nat \ {0} /\ Len(todo) = Len(t) + 1 /\ DOMAIN todo = 1..Len(todo)
      <4>1. t \in Seq(Chunk) /\ t # <<>> /\ todo \in Seq(Chunk) /\ todo # <<>> /\ t = Tail(todo)
        BY <1>1, <1>3, <1>4, <1>7
      <4> HIDE DEF t
      <4>2. Len(t) \in Nat /\ Len(t) # 0 /\ Len(todo) \in Nat /\ Len(todo) # 0
        BY ONLY <4>1, EmptySeq
      <4>3. Len(t) = Len(todo) - 1 /\ DOMAIN todo = 1..Len(todo)
        BY ONLY <4>1, <4>2
      <4> QED BY ONLY <4>2, <4>3
    <3>2. Len(todo) >= 2 /\ 2 \in DOMAIN todo
      <4> HIDE DEF t
      <4> QED BY ONLY <3>1
    <3> QED BY <1>1, <1>4, <3>2
  <2>2. r.items \in Seq(Item) /\ r.items # <<>>
    BY <1>4, <2>1 DEF AllHold
  <2>3. Trailing(h, r) = 0
    BY <1>1, <1>3, <2>1
  <2>4. Len(h.items) \in Nat \ {0} /\ Last(h.items) = h.items[Len(h.items)]
    BY <1>3, EmptySeq DEF Last
  <2> DEFINE m == Len(h.items)
  <2> HIDE DEF h, r
  <2>5. 0 # m /\ doc[h.items[m - 0].unit].heading => Differ(doc, h.items[m - 0], r.items[1])
    BY <1>3, <2>3, TrailingStays
  <2>6. m - 0 = m /\ m # 0
    BY <2>4
  <2>7. doc[Last(h.items).unit].heading => Differ(doc, Last(h.items), r.items[1])
    BY <2>4, <2>5, <2>6
  <2> QED BY <2>1, <2>2, <2>7, LeadingFirst
<1>8. Last(result') = h /\ result' # <<>>
  <2>1. Len(Append(result, h)) = Len(result) + 1 /\ Append(result, h)[Len(result) + 1] = h
    BY <1>3, <1>4
  <2> QED BY <1>1, <1>3, <1>4, <2>1, AppendHolds DEF Last
<1> HIDE DEF h, t
<1>9. DrawnInv'
  BY <1>1, <1>2, <1>3, <1>5, AllDrawnNone, Empty DEF DrawnInv
<1>10. LedInv' /\ WholeInv' /\ (pass = "done" => result = <<>>)'
  BY <1>1, <1>6, <1>7, <1>8 DEF LedInv, WholeInv
<1> QED BY <1>9, <1>10 DEF BInv

LEMMA EndOf ==
    ASSUME NEW S, NEW s \in Seq(S), NEW k \in Nat, NEW n \in Nat, Len(s) = k + n
    PROVE  LET t == SubSeq(s, k + 1, k + n)
           IN  t \in Seq(S) /\ Len(t) = n /\ \A i \in 1..n : t[i] = s[k + i]
<1>1. k + 1 \in Int /\ k + n \in Int /\ \A i \in k + 1..k + n : s[i] \in S
  OBVIOUS
<1> DEFINE t == SubSeq(s, k + 1, k + n)
<1>2. /\ t \in Seq(S)
      /\ Len(t) = IF k + 1 <= k + n THEN (k + n) - (k + 1) + 1 ELSE 0
      /\ \A i \in 1..(k + n) - (k + 1) + 1 : t[i] = s[(k + 1) + i - 1]
  BY ONLY <1>1, SubSeqProperties
<1> HIDE DEF t
<1>3. (k + n) - (k + 1) + 1 = n /\ (k + 1 <= k + n \/ n = 0) /\ \A i \in 1..n : (k + 1) + i - 1 = k + i
  OBVIOUS
<1> QED BY ONLY <1>2, <1>3 DEF t

LEMMA MoveHeadingsDraws ==
    ASSUME IInv, BInv, MoveHeadings
    PROVE  BInv'
<1> DEFINE l == todo[1]  r == todo[2]  m == Len(l.items)  n == Trailing(l, r)
           left == SubSeq(l.items, 1, m - n)
           tail == SubSeq(l.items, Len(left) + 1, m)
           rest == SubSeq(todo, 3, Len(todo))
           get == Receives(l, r, tail)  stay == Regrouped(l, left)  one == <<get>>
<1>1. /\ run = <<>> /\ UNCHANGED <<doc, start, pass, run>> /\ pass = "headings"
      /\ n > 0 /\ Len(todo) >= 2 /\ todo' = one \o rest
      /\ result' = IF left = <<>> THEN result ELSE Append(result, stay)
  BY DEF IInv, StateType, MoveHeadings, Receives, Regrouped
<1>2. Visited(pass) = 0 /\ Made(pass) = 0
  BY <1>1 DEF Visited, Made
<1>3. /\ result \in Seq(Chunk) /\ todo \in Seq(Chunk) /\ AllHold(todo)
      /\ AllDrawn(result, 0, doc, start) /\ AllDrawn(todo, 0, doc, start) /\ AllLed(result, doc)
      /\ result # <<>> => Leading(Last(Last(result).items), l.items, doc)
  BY <1>1, <1>2, EmptySeq, Lists DEF BInv, DrawnInv, LedInv
<1>4. /\ l \in Chunk /\ r \in Chunk /\ rest \in Seq(Chunk)
      /\ l.items \in Seq(Item) /\ r.items \in Seq(Item) /\ l.items # <<>> /\ r.items # <<>>
      /\ Drawn(l.items, 0, doc, start) /\ Drawn(r.items, 0, doc, start)
      /\ AllDrawn(rest, 0, doc, start)
  <2>1. Len(todo) \in Nat /\ 1 \in DOMAIN todo /\ 2 \in DOMAIN todo
    <3>1. todo \in Seq(Chunk) /\ Len(todo) >= 2
      BY <1>1, <1>3
    <3> QED BY ONLY <3>1
  <2>2. l \in ToSet(todo) /\ r \in ToSet(todo) /\ l \in Chunk /\ r \in Chunk
    BY <1>3, <2>1, InSequence
  <2>3. rest \in Seq(Chunk) /\ ToSet(rest) \subseteq ToSet(todo)
    <3>1. /\ rest \in Seq(Chunk) /\ DOMAIN rest = 1..Len(todo) - 2
          /\ \A i \in 1..Len(todo) - 2 : rest[i] = todo[i + 2] /\ i + 2 \in DOMAIN todo
      BY <1>1, <1>3, <2>1
    <3> HIDE DEF rest
    <3> QED BY <3>1 DEF ToSet
  <2> QED BY <1>3, <2>1, <2>2, <2>3 DEF AllDrawn, AllHold
<1>5. /\ n \in 1..m /\ m \in Nat \ {0}
      /\ \A i \in m - n + 1..m : doc[l.items[i].unit].heading /\ ~Differ(doc, l.items[i], r.items[1])
      /\ n # m /\ doc[l.items[m - n].unit].heading => Differ(doc, l.items[m - n], r.items[1])
  <2>1. m \in Nat \ {0}
    BY <1>4, EmptySeq
  <2>2. n \in 0..m /\ \A i \in m - n + 1..m : doc[l.items[i].unit].heading
    BY <1>4, TrailingRight
  <2>3. /\ \A i \in m - n + 1..m : ~Differ(doc, l.items[i], r.items[1])
        /\ n # m /\ doc[l.items[m - n].unit].heading => Differ(doc, l.items[m - n], r.items[1])
    BY <1>4, TrailingStays
  <2>4. n > 0
    BY <1>1
  <2> HIDE DEF n, m
  <2>5. n \in 1..m
    BY ONLY <2>1, <2>2, <2>4
  <2> QED BY ONLY <2>1, <2>2, <2>3, <2>5
<1> DEFINE held == l.items
<1>6. held \in Seq(Item) /\ m = Len(held)
  BY <1>4
<1> HIDE DEF l, r, n, rest, m, held
<1>7. left = SubSeq(held, 1, m - n) /\ tail = SubSeq(held, Len(left) + 1, m)
  BY DEF held
<1>8. /\ left \in Seq(Item) /\ Len(left) = m - n /\ tail \in Seq(Item) /\ Len(tail) = n
      /\ (\A i \in 1..m - n : left[i] = held[i]) /\ (\A i \in 1..n : tail[i] = held[m - n + i])
      /\ held = left \o tail
  <2> HIDE DEF left, tail
  <2>1. left \in Seq(Item) /\ Len(left) = m - n /\ \A i \in 1..m - n : left[i] = held[i]
    BY <1>5, <1>6, <1>7
  <2>2. tail = SubSeq(held, (m - n) + 1, m)
    BY <1>7, <2>1
  <2>3. tail \in Seq(Item) /\ Len(tail) = n /\ \A i \in 1..n : tail[i] = held[m - n + i]
    <3> DEFINE k == m - n
    <3>1. k \in Nat /\ m = k + n /\ n \in Nat /\ m = Len(held) /\ held \in Seq(Item) /\ tail = SubSeq(held, k + 1, m)
      BY <1>5, <1>6, <2>2
    <3> HIDE DEF k
    <3>2. tail \in Seq(Item) /\ Len(tail) = n /\ \A i \in 1..n : tail[i] = held[k + i]
      BY ONLY <3>1, EndOf
    <3> QED BY ONLY <3>2 DEF k
  <2>4. SubSeq(held, 1, m - n) \o SubSeq(held, (m - n) + 1, m) = SubSeq(held, 1, m)
    <3> DEFINE k == m - n
    <3>1. 1 \in 1..Len(held) + 1 /\ k \in 1 - 1..Len(held) /\ m \in k..Len(held)
      BY <1>5, <1>6
    <3> HIDE DEF k
    <3>2. SubSeq(held, 1, k) \o SubSeq(held, k + 1, m) = SubSeq(held, 1, m)
      BY ONLY <1>6, <3>1, ConcatAdjacentSubSeq
    <3> QED BY <3>2 DEF k
  <2>5. SubSeq(held, 1, m) = held
    BY <1>6, SubSeqFull
  <2> QED BY ONLY <1>7, <2>1, <2>2, <2>3, <2>4, <2>5
<1> HIDE DEF left, tail
<1>9. \A i \in 1..Len(tail) : doc[tail[i].unit].heading /\ ~Differ(doc, tail[i], r.items[1])
  <2> SUFFICES ASSUME NEW i \in 1..n
               PROVE  doc[tail[i].unit].heading /\ ~Differ(doc, tail[i], r.items[1])
    BY <1>8
  <2>1. m - n + i \in m - n + 1..m
    BY <1>5
  <2>2. tail[i] = held[m - n + i]
    BY <1>8
  <2> QED BY ONLY <1>5, <2>1, <2>2 DEF held
<1>10. tail # <<>> /\ ~Differ(doc, Last(tail), r.items[1])
  <2>1. tail # <<>> /\ Last(tail) = tail[Len(tail)] /\ Len(tail) \in 1..Len(tail)
    BY <1>5, <1>8 DEF Last
  <2> QED BY <1>9, <2>1
<1>11. ASSUME left # <<>>
       PROVE  doc[Last(left).unit].heading => Differ(doc, Last(left), r.items[1])
  <2>1. n # m /\ m - n \in 1..m - n /\ Last(left) = left[m - n]
    <3>1. Len(left) # 0
      BY <1>8, <1>11, EmptySeq
    <3> QED BY <1>5, <1>8, <3>1 DEF Last
  <2>2. Last(left) = held[m - n]
    BY <1>8, <2>1
  <2> QED BY ONLY <1>5, <2>1, <2>2 DEF held
<1> DEFINE moved == tail \o r.items
<1>12. get.items = moved /\ stay.items = left /\ moved \in Seq(Item)
  <2>1. moved \in Seq(Item)
    BY <1>4, <1>8
  <2>2. stay.items = left
    BY <1>4 DEF Regrouped, Rebuilt, Chunk
  <2>3. get.items = moved
    <3> DEFINE g == Regrouped(r, moved)
    <3>1. g.items = moved
      BY <1>4 DEF Regrouped, Rebuilt, Chunk
    <3>2. get = [g EXCEPT !.notes = @ \cup l.notes, !.oversize = @ \/ l.oversize]
      BY DEF Receives
    <3>3. DOMAIN g = {"items", "wrote", "notes", "oversize", "fallback", "flagged"}
      BY <1>4 DEF Regrouped, Rebuilt, Chunk
    <3> HIDE DEF g
    <3> QED BY <3>1, <3>2, <3>3
  <2> QED BY <2>1, <2>2, <2>3
<1>13. result' \in Seq(Chunk) /\ todo' \in Seq(Chunk)
  <2>1. IInv'
    BY MoveHeadingsStep
  <2> QED BY <2>1 DEF IInv, StateType
<1> HIDE DEF get, stay, moved
<1>14. todo'[1] = get /\ get \in Chunk /\ one \in Seq(Chunk) /\ todo' # <<>>
  <2>1. todo'[1] = get /\ Len(todo') = 1 + Len(rest) /\ Len(rest) \in Nat
    BY <1>1, <1>4
  <2>2. todo' # <<>> /\ 1 \in DOMAIN todo'
    BY <1>13, <2>1
  <2>3. get \in Chunk
    BY <1>13, <2>1, <2>2
  <2> QED BY <2>1, <2>2, <2>3
<1> HIDE DEF one
<1>15. Drawn(left, 0, doc, start) /\ Drawn(tail, 0, doc, start)
  <2>1. PartOf(left, held) /\ PartOf(tail, held)
    BY <1>6, <1>8, PartFront
  <2>2. Drawn(held, 0, doc, start) /\ 0 \in 0..3
    BY <1>4 DEF held
  <2> QED BY <1>6, <1>8, <2>1, <2>2, DrawnPart
<1>16. Drawn(moved, 0, doc, start)
  <2> DEFINE b == r.items
  <2>1. /\ b \in Seq(Item) /\ b # <<>> /\ Sections(b, doc, start) /\ Sections(tail, doc, start)
        /\ tail \in Seq(Item) /\ tail # <<>> /\ ~Differ(doc, Last(tail), b[1])
    BY <1>4, <1>8, <1>10, <1>15 DEF Drawn
  <2> HIDE DEF b
  <2>2. Sections(tail \o b, doc, start)
    BY ONLY <2>1, SectionsJoin
  <2> QED BY <2>2 DEF Drawn, moved, b
<1>17. AllDrawn(todo', 0, doc, start)
  <2>1. AllDrawn(one, 0, doc, start)
    BY <1>12, <1>16, AllDrawnOne DEF one
  <2> QED BY <1>1, <1>4, <1>14, <2>1, AllDrawnJoin
<1>18. Leading(Last(Last(result).items), held, doc) \/ result = <<>>
  BY <1>3 DEF held
<1>19. /\ AllDrawn(result', 0, doc, start) /\ AllLed(result', doc)
       /\ result' # <<>> => Leading(Last(Last(result').items), moved, doc)
  <2>1. CASE left = <<>>
    <3>1. held = tail /\ result' = result
      BY <1>1, <1>8, <2>1
    <3>2. result # <<>> => Leading(Last(Last(result).items), moved, doc)
      BY <1>4, <1>8, <1>18, <3>1, LeadingMore DEF moved
    <3> QED BY <1>3, <3>1, <3>2
  <2>2. CASE left # <<>>
    <3>1. result' = Append(result, stay)
      BY <1>1, <2>2
    <3>2. stay \in Chunk /\ Last(result') = stay
      <4> DEFINE e == Len(result) + 1  new == Append(result, stay)
      <4>1. Len(result) \in Nat /\ Len(new) = e /\ new[e] = stay /\ e \in 1..Len(new)
        BY <1>3
      <4>2. new \in Seq(Chunk)
        BY <1>13, <3>1
      <4> HIDE DEF new, e
      <4>3. new[e] \in Chunk
        BY <4>1, <4>2
      <4> QED BY <3>1, <4>1, <4>3 DEF Last, new
    <3>3. AllDrawn(result', 0, doc, start)
      BY <1>3, <1>12, <1>15, <3>1, <3>2, AppendDrawn
    <3>4. ASSUME result # <<>> PROVE Leading(Last(Last(result).items), left, doc)
      <4> DEFINE h == Last(Last(result).items)  x == r.items[1]
      <4>1. /\ Leading(h, left \o tail, doc) /\ \A i \in 1..Len(tail) : ~Differ(doc, tail[i], x)
            /\ doc[Last(left).unit].heading => Differ(doc, Last(left), x)
        BY <1>8, <1>9, <1>11, <1>18, <2>2, <3>4
      <4> HIDE DEF h, x
      <4> QED BY <1>8, <2>2, <4>1, LeadingLess DEF h
    <3>5. AllLed(result', doc)
      BY <1>3, <1>12, <3>1, <3>2, <3>4, LedGrows
    <3>6. Leading(Last(left), moved, doc)
      <4> DEFINE h == Last(left)
      <4>1. doc[h.unit].heading => Differ(doc, h, r.items[1])
        BY <1>11, <2>2
      <4> HIDE DEF h
      <4> QED BY <1>4, <1>8, <1>9, <4>1, LeadingMoved DEF moved, h
    <3> QED BY <1>12, <3>2, <3>3, <3>5, <3>6
  <2> QED BY <2>1, <2>2
<1>20. DrawnInv'
  BY <1>1, <1>2, <1>17, <1>19, AllDrawnNone, Empty DEF DrawnInv
<1>21. LedInv' /\ WholeInv' /\ (pass = "done" => result = <<>>)'
  BY <1>1, <1>12, <1>14, <1>19 DEF LedInv, WholeInv
<1> QED BY <1>20, <1>21 DEF BInv

LEMMA InitBInv ==
    Init => BInv
<1> SUFFICES ASSUME Init PROVE BInv
  OBVIOUS
<1>1. pass = "coalesce" /\ todo = start /\ run = <<>> /\ result = <<>>
  BY DEF Init
<1>2. Visited(pass) = 0
  BY <1>1 DEF Visited
<1>3. start \in Seq(Chunk)
  BY InitIInv DEF IInv, StateType
<1>4. AllDrawn(start, 0, doc, start)
  <2> SUFFICES ASSUME NEW n \in DOMAIN start PROVE Sections(start[n].items, doc, start)
    BY DEF AllDrawn, Drawn, ToSet
  <2> DEFINE held == start[n].items
  <2>1. held \in Seq(Item)
    <3>1. start[n] \in Chunk
      BY <1>3
    <3> QED BY <3>1 DEF Chunk
  <2> HIDE DEF held
  <2>2. ASSUME NEW j \in 2..Len(held) PROVE {held[j - 1].unit, held[j].unit} \subseteq UnitsOf(held)
    <3>1. j \in DOMAIN held /\ j - 1 \in DOMAIN held
      BY <2>1
    <3> QED BY <3>1 DEF UnitsOf
  <2>3. \A j \in 2..Len(held) : Planned(held[j - 1], held[j], start)
    BY <2>2 DEF Planned, held
  <2>4. Sections(held, doc, start)
    BY <2>3 DEF Sections
  <2> QED BY <2>4 DEF held
<1>5. DrawnInv
  BY <1>1, <1>2, <1>4, AllDrawnNone, Empty DEF DrawnInv
<1> QED BY <1>1, <1>5 DEF BInv, LedInv, WholeInv

LEMMA NextBInv ==
    IInv /\ BInv /\ [Next]_vars => BInv'
<1> SUFFICES ASSUME IInv, BInv, [Next]_vars PROVE BInv'
  OBVIOUS
<1>1. CASE Coalesce
  BY <1>1, CoalesceDraws
<1>2. CASE EndCoalesce
  BY <1>2, EndCoalesceDraws
<1>3. CASE MoveHeadings
  BY <1>3, MoveHeadingsDraws
<1>4. CASE KeepHeadings
  BY <1>4, KeepHeadingsDraws
<1>5. CASE JoinRows
  BY <1>5, JoinRowsDraws
<1>6. CASE Split
  BY <1>6, SplitDraws
<1>7. CASE EndPass
  BY <1>7, EndPassDraws
<1>8. CASE UNCHANGED vars
  BY <1>8 DEF vars, BInv, DrawnInv, LedInv, WholeInv
<1> QED BY <1>1, <1>2, <1>3, <1>4, <1>5, <1>6, <1>7, <1>8 DEF Next

\* What the invariant says of any chunk of the list.
LEMMA ListDrawn ==
    ASSUME IInv, BInv, NEW i \in DOMAIN List
    PROVE  /\ List[i].items \in Seq(Item)
           /\ Sections(List[i].items, doc, start)
           /\ Behind("cases") => Cased(List[i].items, doc)
           /\ Behind("forms") => Formed(List[i].items, doc)
           /\ pass = "done" => ~TooMany(List[i].items)
<1> DEFINE c == List[i]
<1>1. /\ result \in Seq(Chunk) /\ run \in Seq(Chunk) /\ todo \in Seq(Chunk) /\ List \in Seq(Chunk)
      /\ (run # <<>> => pass = "coalesce") /\ pass \in ToSet(Passes)
  <2>1. result \in Seq(Chunk) /\ run \in Seq(Chunk) /\ todo \in Seq(Chunk)
    BY DEF IInv, StateType
  <2>2. List \in Seq(Chunk)
    BY DEF IInv, Faithful, ListRight
  <2> QED BY <2>1, <2>2 DEF IInv, StateType
<1>2. c \in ToSet(List) /\ c \in Chunk
  BY <1>1, InSequence
<1>3. c \in ToSet(result) \/ c \in ToSet(run) \/ c \in ToSet(todo)
  <2> DEFINE rr == result \o run
  <2>1. rr \in Seq(Chunk) /\ ToSet(rr) = ToSet(result) \cup ToSet(run)
    BY <1>1, ToSetConcat
  <2> HIDE DEF rr
  <2>2. ToSet(rr \o todo) = ToSet(rr) \cup ToSet(todo)
    BY <1>1, <2>1, ToSetConcat
  <2>3. List = rr \o todo
    BY DEF List, rr
  <2> HIDE DEF c
  <2> QED BY <1>2, <2>1, <2>2, <2>3
<1>4. c.items \in Seq(Item)
  BY <1>2 DEF Chunk
<1> HIDE DEF c
<1>5. \/ Drawn(c.items, Made(pass), doc, start) /\ pass # "done"
      \/ Drawn(c.items, 0, doc, start) /\ pass = "coalesce"
      \/ Drawn(c.items, Visited(pass), doc, start)
  <2>1. CASE c \in ToSet(result)
    <3>1. result # <<>>
      <4>1. ToSet(<<>>) = {}
        BY DEF ToSet
      <4> QED BY <2>1, <4>1
    <3> QED BY <2>1, <3>1 DEF BInv, DrawnInv, AllDrawn
  <2>2. CASE c \in ToSet(run)
    <3>1. run # <<>>
      <4>1. ToSet(<<>>) = {}
        BY DEF ToSet
      <4> QED BY <2>2, <4>1
    <3> QED BY <1>1, <2>2, <3>1 DEF BInv, DrawnInv, AllDrawn
  <2>3. CASE c \in ToSet(todo)
    BY <2>3 DEF BInv, DrawnInv, AllDrawn
  <2> QED BY <1>3, <2>1, <2>2, <2>3
<1>6. /\ Behind("cases") <=> pass \in {"forms", "sizes", "done"}
      /\ Behind("forms") <=> pass \in {"sizes", "done"}
  BY <1>1, PassOrder
<1>7. \/ pass = "forms" /\ Made(pass) = 2 /\ Visited(pass) = 1
      \/ pass = "sizes" /\ Made(pass) = 3 /\ Visited(pass) = 2
      \/ pass = "done" /\ Visited(pass) = 3
      \/ pass \notin {"forms", "sizes", "done"}
  BY DEF Made, Visited
<1>8. /\ Sections(c.items, doc, start)
      /\ pass \in {"forms", "sizes", "done"} => Cased(c.items, doc)
      /\ pass \in {"sizes", "done"} => Formed(c.items, doc)
      /\ pass = "done" => ~TooMany(c.items)
  BY <1>5, <1>7 DEF Drawn
<1> QED BY <1>4, <1>6, <1>8 DEF c

LEMMA ApartInv ==
    ASSUME IInv, BInv
    PROVE  SectionsApart /\ CasesAndFormsApart
<1>1. ASSUME NEW i \in DOMAIN List, NEW j \in 2..Len(List[i].items)
      PROVE  DifferentSections(List[i].items[j - 1], List[i].items[j]) =>
                 \E n \in DOMAIN start :
                     {List[i].items[j - 1].unit, List[i].items[j].unit} \subseteq UnitsOf(start[n].items)
  <2>1. Sections(List[i].items, doc, start)
    BY ListDrawn
  <2> DEFINE held == List[i].items
  <2> HIDE DEF held
  <2>2. Differ(doc, held[j - 1], held[j]) => Planned(held[j - 1], held[j], start)
    BY <2>1 DEF Sections, held
  <2>3. DifferentSections(held[j - 1], held[j]) => Planned(held[j - 1], held[j], start)
    BY <2>2 DEF DifferentSections, Shape, Differ
  <2> QED BY <2>3 DEF Planned, held
<1>2. ASSUME NEW i \in DOMAIN List, NEW j \in 2..Len(List[i].items),
             Cardinality(UnitsOf(List[i].items)) > 1
      PROVE  LET item == List[i].items[j]
                 before == SubSeq(List[i].items, 1, j - 1)
             IN  /\ Behind("cases") => ~Shape(item).case
                 /\ Behind("forms") => /\ ~(Shape(item).form /\ HasBody(before))
                                       /\ ~(Shape(Last(before)).ends /\ Shape(item).opens)
  <2> DEFINE g == List[i].items  before == SubSeq(g, 1, j - 1)
  <2>1. g \in Seq(Item) /\ (Behind("cases") => Cased(g, doc)) /\ (Behind("forms") => Formed(g, doc))
    BY ListDrawn
  <2>2. Several(g) /\ j \in 2..Len(g)
    BY <1>2 DEF Several
  <2> HIDE DEF g
  <2>3. /\ Last(before) = g[j - 1]
        /\ HasBody(before) <=> \E k \in 1..j - 1 : doc[g[k].unit].body
    BY <2>1, <2>2, Before
  <2> HIDE DEF before
  <2>4. Behind("cases") => ~doc[g[j].unit].case
    BY <2>1, <2>2 DEF Cased
  <2>5. Behind("forms") => /\ ~(doc[g[j].unit].form /\ HasBody(before))
                           /\ ~(doc[Last(before).unit].ends /\ doc[g[j].unit].opens)
    BY <2>1, <2>2, <2>3 DEF Formed
  <2> QED BY <2>4, <2>5 DEF Shape, before, g
<1>3. SectionsApart
  BY <1>1 DEF SectionsApart
<1>4. CasesAndFormsApart
  BY <1>2 DEF CasesAndFormsApart
<1> QED BY <1>3, <1>4

LEMMA BInvDraws ==
    ASSUME IInv, BInv
    PROVE  BoundariesDrawn
<1>1. OversizeReported
  <2>1. List \in Seq(Chunk) /\ \A c \in ToSet(List) : ChunkRight(c, doc, start)
    BY DEF IInv, Faithful, ListRight
  <2> QED BY <2>1, InSequence DEF OversizeReported, ChunkRight
<1>2. SizesFit
  BY ListDrawn DEF SizesFit
<1>3. HeadingsLead
  <2> SUFFICES ASSUME Between("rows"), NEW i \in 1..Len(todo) - 1, Shape(Last(todo[i].items)).heading
               PROVE  \E j \in Leads(todo[i + 1]) :
                          DifferentSections(Last(todo[i].items), todo[i + 1].items[j])
    BY DEF HeadingsLead
  <2> DEFINE h == Last(todo[i].items)  held == todo[i + 1].items
  <2>1. Leading(h, held, doc)
    BY DEF BInv, LedInv, AllLed, Between
  <2> HIDE DEF h
  <2>2. PICK j \in DOMAIN held :
            /\ Differ(doc, h, held[j])
            /\ \A k \in 1..j - 1 : doc[held[k].unit].heading /\ ~Differ(doc, held[k], held[j])
    BY <2>1 DEF Leading, Shape, h
  <2>3. j \in Leads(todo[i + 1])
    BY <2>2, SMTT(30) DEF Leads, Shape
  <2>4. DifferentSections(h, todo[i + 1].items[j])
    BY <2>2 DEF DifferentSections, Shape, Differ
  <2> QED BY <2>3, <2>4 DEF h
<1>4. RowGroupsWhole
  <2> SUFFICES ASSUME Between("cases"), NEW i \in 1..Len(todo) - 1, Cuts(todo[i], todo[i + 1])
               PROVE  \/ todo[i].fallback \/ todo[i + 1].fallback
                      \/ TooMany(todo[i].items \o todo[i + 1].items)
                      \/ Last(Last(todo[i].items).rows) \in doc[Last(todo[i].items).unit].heavy
    BY DEF RowGroupsWhole
  <2>1. ~Joinable(todo[i], todo[i + 1], doc)
    BY DEF BInv, WholeInv, AllWhole, Between
  <2>2. ~MayJoin(todo[i], todo[i + 1])
    BY <2>1, JoinableIs
  <2> QED BY <2>2 DEF MayJoin
<1> QED BY <1>1, <1>2, <1>3, <1>4, ApartInv DEF BoundariesDrawn

-----------------------------------------------------------------------------
(* Theorems *)

\* _improve_chunk_boundaries: at every point of every pass the chunks hold the
\* evidence of the document once, in order, and the warnings of every planned chunk
\* are on a chunk with some of the evidence they are about, for all documents, all
\* chunks planning may make of them and every limit.
THEOREM KeepsEvidenceAndNotes ==
    Spec => []EvidenceAndNotesKept
<1>1. IInv => EvidenceAndNotesKept
  BY IInvKeepsEvidence
<1> QED BY <1>1, Invariant, PTL

\* _rebuild_chunk_from_items and _merge_adjacent_chunks: a chunk whose summary was
\* written for other evidence is always flagged for enrichment.
THEOREM FlagsStaleTexts ==
    Spec => []StaleTextFlagged
<1>1. IInv => StaleTextFlagged
  <2> SUFFICES ASSUME IInv PROVE StaleTextFlagged
    OBVIOUS
  <2>1. List \in Seq(Chunk) /\ \A c \in ToSet(List) : ChunkRight(c, doc, start)
    BY DEF IInv, Faithful, ListRight
  <2> QED BY <2>1, InSequence DEF StaleTextFlagged, ChunkRight
<1> QED BY <1>1, Invariant, PTL

\* _improve_chunk_boundaries: at every point of every pass a chunk over the limit
\* says so, no pass has brought two sections together, and the chunks keep to the
\* cases, forms, heading and row boundaries of the passes that are behind them; in
\* the end no chunk is over the limit.
THEOREM DrawsBoundaries ==
    Spec => []BoundariesDrawn
<1>1. Init => IInv /\ BInv
  BY InitIInv, InitBInv
<1>2. (IInv /\ BInv) /\ [Next]_vars => (IInv /\ BInv)'
  BY NextIInv, NextBInv
<1>3. IInv /\ BInv => BoundariesDrawn
  BY BInvDraws
<1> QED BY <1>1, <1>2, <1>3, PTL DEF Spec

=============================================================================
