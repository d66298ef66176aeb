--------------------------- MODULE Uploads_proofs ---------------------------
(***************************************************************************)
(* Proofs about Uploads, for any documents, stores, faults and bounds.     *)
(* Uploading assets: what a result names is in the store and stays there,  *)
(* however many calls store at once, fail, die and start again. Validating *)
(* sizes: a report agrees with its files and the bucket, also after        *)
(* crashes. Scanning samples: no content is sampled twice and no browser   *)
(* outlives its screenshots. Each has its invariant.                       *)
(***************************************************************************)
EXTENDS Uploads, Induction

-----------------------------------------------------------------------------
(* The invariant of uploading assets *)

Phases == {"idle", "uploading", "returned", "raised"}
Assets == [id : Ids, key : Keys, sha : Contents]
CallRecords ==
    [phase : Phases, doc : Docs \cup {None}, uploaded : Seq(Assets), refs : SUBSET (Ids \X Keys),
     tries : 0..MaxTries]

\* What the i-th asset that a call has put is, and that store b has it.
PutOK(r, b, i) ==
    /\ r.uploaded[i] = Asset(r.doc, AssetsOf[r.doc][i])
    /\ b[Key(r.doc, AssetsOf[r.doc][i])] = Bytes[r.doc][AssetsOf[r.doc][i]]

\* A call r beside a store b: what it put is there in every phase, not only in
\* the last, and a result has resolved its references with it.
Good(r, b) ==
    /\ r.phase = "idle" => r.uploaded = <<>>
    /\ r.phase # "idle" =>
          /\ r.doc \in Docs
          /\ Len(r.uploaded) <= Len(AssetsOf[r.doc])
          /\ \A i \in 1..Len(r.uploaded) : PutOK(r, b, i)
    /\ r.phase = "returned" =>
          /\ r.refs = {<<id, Key(r.doc, id)>> : id \in RefsOf[r.doc]}
          /\ \A id \in RefsOf[r.doc] : \E i \in 1..Len(r.uploaded) : AssetsOf[r.doc][i] = id

\* A key is of one document and one of its assets: whoever writes there writes
\* the same bytes.
BucketOK ==
    /\ bucket \in [Keys -> Contents \cup {None}]
    /\ \A d \in Docs, id \in Ids : bucket[<<d, id>>] \in {None, Bytes[d][id]}

UploadInv ==
    /\ hasStore \in BOOLEAN
    /\ BucketOK
    /\ call \in [Calls -> CallRecords]
    /\ \A c \in Calls : Good(call[c], bucket)

-----------------------------------------------------------------------------

LEMMA AssetTypes ==
    ASSUME NEW d \in Docs, NEW i \in 1..Len(AssetsOf[d])
    PROVE  /\ AssetsOf[d][i] \in Ids
           /\ Key(d, AssetsOf[d][i]) \in Keys
           /\ Bytes[d][AssetsOf[d][i]] \in Contents
           /\ Asset(d, AssetsOf[d][i]) \in Assets
<1>1. AssetsOf[d] \in Seq(Ids)
  BY AssetsAssumption
<1>2. AssetsOf[d][i] \in Ids
  BY <1>1, ElementOfSeq
<1> QED BY <1>2 DEF Key, Keys, Contents, Asset, Assets

LEMMA AssetFields ==
    ASSUME NEW a, NEW d, NEW id, a = Asset(d, id)
    PROVE  a.id = id /\ a.key = Key(d, id) /\ a.sha = Bytes[d][id]
BY DEF Asset

\* A store that only gets what belongs under its keys keeps a call good.
LEMMA GoodStays ==
    ASSUME NEW r \in CallRecords, NEW b, NEW b2, Good(r, b),
           \A d \in Docs, id \in Ids : b2[<<d, id>>] \in {b[<<d, id>>], Bytes[d][id]}
    PROVE  Good(r, b2)
<1>1. ASSUME r.phase # "idle", NEW i \in 1..Len(r.uploaded) PROVE PutOK(r, b2, i)
  <2>1. r.doc \in Docs /\ Len(r.uploaded) <= Len(AssetsOf[r.doc]) /\ PutOK(r, b, i)
    BY <1>1 DEF Good
  <2>2. Len(r.uploaded) \in Nat /\ Len(AssetsOf[r.doc]) \in Nat
    BY <2>1, AssetsAssumption, LenProperties DEF CallRecords
  <2>3. i \in 1..Len(AssetsOf[r.doc])
    BY <2>1, <2>2
  <2>4. AssetsOf[r.doc][i] \in Ids
    BY <2>1, <2>3, AssetTypes
  <2> QED BY <2>1, <2>4 DEF PutOK, Key
<1> QED BY <1>1 DEF Good

LEMMA UploadBegins == Init => UploadInv
<1> SUFFICES ASSUME Init PROVE UploadInv
  OBVIOUS
<1>1. BucketOK
  BY DEF Init, BucketOK, Keys
<1>2. Idle \in CallRecords
  BY TriesAssumption, EmptySeq DEF Idle, CallRecords, Phases
<1>3. Good(Idle, bucket)
  BY DEF Idle, Good
<1> QED BY <1>1, <1>2, <1>3 DEF Init, UploadInv

\* A step of one call that leaves the others alone.
LEMMA OneCall ==
    ASSUME UploadInv, NEW c \in Calls, NEW r \in CallRecords,
           call' = [call EXCEPT ![c] = r], hasStore' = hasStore, BucketOK',
           \A d \in Docs, id \in Ids : bucket'[<<d, id>>] \in {bucket[<<d, id>>], Bytes[d][id]},
           Good(r, bucket')
    PROVE  UploadInv'
<1>1. call' \in [Calls -> CallRecords] /\ call'[c] = r
  BY DEF UploadInv
<1>2. ASSUME NEW x \in Calls, x # c PROVE Good(call'[x], bucket')
  <2>1. call'[x] = call[x] /\ call[x] \in CallRecords /\ Good(call[x], bucket)
    BY <1>2 DEF UploadInv
  <2> QED BY <2>1, GoodStays
<1>3. \A x \in Calls : Good(call'[x], bucket')
  BY <1>1, <1>2
<1> QED BY <1>1, <1>3 DEF UploadInv

\* The store is left alone, or gets the next asset of a call.
LEMMA BucketStays ==
    ASSUME UploadInv, bucket' = bucket
    PROVE  /\ BucketOK'
           /\ \A d \in Docs, id \in Ids : bucket'[<<d, id>>] \in {bucket[<<d, id>>], Bytes[d][id]}
BY DEF UploadInv, BucketOK

LEMMA NextAsset ==
    ASSUME UploadInv, NEW c \in Calls, Uploading(c)
    PROVE  /\ call[c].doc \in Docs
           /\ Len(call[c].uploaded) + 1 \in 1..Len(AssetsOf[call[c].doc])
           /\ Len(call[c].uploaded) \in Nat
           /\ NextId(c) \in Ids
           /\ NextId(c) = AssetsOf[call[c].doc][Len(call[c].uploaded) + 1]
           /\ Bytes[call[c].doc][NextId(c)] \in Contents
           /\ Asset(call[c].doc, NextId(c)) \in Assets
<1>1. call[c] \in CallRecords /\ Good(call[c], bucket) /\ call[c].phase = "uploading"
      /\ Len(call[c].uploaded) < Len(AssetsOf[call[c].doc])
  BY DEF UploadInv, Uploading
<1>2. call[c].doc \in Docs
  BY <1>1 DEF Good
<1>3. Len(call[c].uploaded) \in Nat /\ Len(AssetsOf[call[c].doc]) \in Nat
  BY <1>1, <1>2, AssetsAssumption, LenProperties DEF CallRecords
<1>4. Len(call[c].uploaded) + 1 \in 1..Len(AssetsOf[call[c].doc])
  BY <1>1, <1>3
<1> QED BY <1>2, <1>3, <1>4, AssetTypes DEF NextId

LEMMA BucketPut ==
    ASSUME UploadInv, NEW c \in Calls, Uploading(c),
           bucket' = [bucket EXCEPT ![Key(call[c].doc, NextId(c))] = Bytes[call[c].doc][NextId(c)]]
    PROVE  /\ BucketOK'
           /\ \A d \in Docs, id \in Ids : bucket'[<<d, id>>] \in {bucket[<<d, id>>], Bytes[d][id]}
           /\ bucket'[Key(call[c].doc, NextId(c))] = Bytes[call[c].doc][NextId(c)]
<1> DEFINE k == <<call[c].doc, NextId(c)>>
           v == Bytes[call[c].doc][NextId(c)]
<1>1. k \in Keys /\ v \in Contents /\ Key(call[c].doc, NextId(c)) = k
  BY NextAsset DEF Keys, Key
<1>2. bucket \in [Keys -> Contents \cup {None}] /\ bucket' = [bucket EXCEPT ![k] = v]
  BY <1>1 DEF UploadInv, BucketOK
<1>3. bucket' \in [Keys -> Contents \cup {None}] /\ bucket'[k] = v
  BY <1>1, <1>2
<1>4. ASSUME NEW d \in Docs, NEW id \in Ids
      PROVE  bucket'[<<d, id>>] \in {bucket[<<d, id>>], Bytes[d][id]}
  <2>1. <<d, id>> \in Keys
    BY DEF Keys
  <2>2. CASE <<d, id>> = k
    <3>1. d = call[c].doc /\ id = NextId(c)
      BY <2>2
    <3> QED BY <1>3, <2>2, <3>1
  <2>3. CASE <<d, id>> # k
    BY <1>2, <2>1, <2>3
  <2> QED BY <2>2, <2>3
<1>5. \A d \in Docs, id \in Ids : bucket'[<<d, id>>] \in {None, Bytes[d][id]}
  BY <1>4 DEF UploadInv, BucketOK
<1> QED BY <1>1, <1>3, <1>4, <1>5 DEF BucketOK

-----------------------------------------------------------------------------
(* The actions *)

LEMMA StartInv ==
    ASSUME UploadInv, NEW c \in Calls, NEW d \in Docs, Start(c, d)
    PROVE  UploadInv'
<1> DEFINE r == [phase |-> IF AssetsOf[d] # <<>> /\ ~hasStore THEN "raised" ELSE "uploading",
                 doc |-> d, uploaded |-> <<>>, refs |-> {}, tries |-> call[c].tries + 1]
<1>1. call' = [call EXCEPT ![c] = r] /\ hasStore' = hasStore /\ bucket' = bucket
  BY DEF Start
<1>2. call[c].tries \in 0..MaxTries /\ call[c].tries < MaxTries
  BY DEF UploadInv, CallRecords, Start
<1>3. r \in CallRecords
  <2>1. call[c].tries + 1 \in 0..MaxTries
    BY <1>2, TriesAssumption
  <2>2. <<>> \in Seq(Assets)
    BY EmptySeq
  <2> QED BY <2>1, <2>2 DEF CallRecords, Phases
<1>4. Good(r, bucket')
  <2>1. AssetsOf[d] \in Seq(Ids)
    BY AssetsAssumption
  <2>2. Len(AssetsOf[d]) \in Nat /\ Len(r.uploaded) = 0 /\ r.doc = d /\ r.phase \in {"raised", "uploading"}
    BY <2>1, LenProperties, EmptySeq
  <2> HIDE DEF r
  <2> QED BY <2>2 DEF Good
<1> HIDE DEF r
<1> QED BY <1>1, <1>3, <1>4, BucketStays, OneCall

LEMMA PutSucceedsInv ==
    ASSUME UploadInv, NEW c \in Calls, PutSucceeds(c)
    PROVE  UploadInv'
<1> DEFINE d == call[c].doc
           n == Len(call[c].uploaded)
           a == Asset(d, NextId(c))
           r == [call[c] EXCEPT !.uploaded = Append(call[c].uploaded, a)]
<1>1. /\ Uploading(c) /\ hasStore' = hasStore
      /\ bucket' = [bucket EXCEPT ![Key(call[c].doc, NextId(c))] = Bytes[call[c].doc][NextId(c)]]
      /\ call' = [call EXCEPT ![c] = r]
  BY DEF PutSucceeds, UploadInv
<1>2. call[c] \in CallRecords /\ Good(call[c], bucket) /\ call[c].phase = "uploading"
  BY <1>1 DEF UploadInv, Uploading
<1>3. /\ d \in Docs /\ n \in Nat /\ n + 1 \in 1..Len(AssetsOf[d]) /\ a \in Assets
      /\ NextId(c) = AssetsOf[d][n + 1]
  BY <1>1, NextAsset
<1>4. call[c].uploaded \in Seq(Assets)
  BY <1>2 DEF CallRecords
<1>5. /\ Append(call[c].uploaded, a) \in Seq(Assets)
      /\ Len(Append(call[c].uploaded, a)) = n + 1
      /\ \A i \in 1..n : Append(call[c].uploaded, a)[i] = call[c].uploaded[i]
      /\ Append(call[c].uploaded, a)[n + 1] = a
  BY <1>3, <1>4, AppendProperties
<1>6. r \in CallRecords
  BY <1>2, <1>5 DEF CallRecords
<1>7. /\ r.phase = "uploading" /\ r.doc = d
      /\ r.uploaded = Append(call[c].uploaded, a)
  BY <1>2 DEF CallRecords
<1>8. Good(call[c], bucket')
  <2>1. \A e \in Docs, id \in Ids : bucket'[<<e, id>>] \in {bucket[<<e, id>>], Bytes[e][id]}
    BY <1>1, BucketPut
  <2> QED BY ONLY <1>2, <2>1, GoodStays
<1>9. ASSUME NEW i \in 1..n + 1 PROVE PutOK(r, bucket', i)
  <2>1. CASE i = n + 1
    <3>1. bucket'[Key(d, AssetsOf[d][n + 1])] = Bytes[d][AssetsOf[d][n + 1]]
      BY <1>1, <1>3, BucketPut
    <3>2. r.uploaded[i] = Asset(d, AssetsOf[d][n + 1])
      BY <1>3, <1>5, <1>7, <2>1
    <3> HIDE DEF r, d, n, a
    <3> QED BY <1>7, <2>1, <3>1, <3>2, SMTT(30) DEF PutOK
  <2>2. CASE i # n + 1
    <3>1. i \in 1..n
      <4>1. n \in Nat
        BY <1>3
      <4> HIDE DEF n
      <4> QED BY ONLY <1>9, <2>2, <4>1
    <3>2. PutOK(call[c], bucket', i)
      BY <1>2, <1>8, <3>1 DEF Good
    <3>3. r.uploaded[i] = call[c].uploaded[i]
      BY <1>5, <1>7, <3>1
    <3> HIDE DEF r, n, a
    <3> QED BY <1>7, <3>2, <3>3 DEF PutOK
  <2> QED BY <2>1, <2>2
<1>10. Good(r, bucket')
  <2>1. Len(r.uploaded) = n + 1 /\ n + 1 <= Len(AssetsOf[d])
    BY <1>3, <1>5, <1>7
  <2> HIDE DEF r, d, n, a
  <2> QED BY <1>3, <1>7, <1>9, <2>1 DEF Good
<1> HIDE DEF r, d, n, a
<1> QED BY <1>1, <1>6, <1>10, BucketPut, OneCall

\* Only the phase changes, and not to "returned" or "idle".
LEMMA RaiseInv ==
    ASSUME UploadInv, NEW c \in Calls, call[c].phase # "idle", Enter(c, "raised"), hasStore' = hasStore, BucketOK',
           \A d \in Docs, id \in Ids : bucket'[<<d, id>>] \in {bucket[<<d, id>>], Bytes[d][id]}
    PROVE  UploadInv'
<1> DEFINE r == [call[c] EXCEPT !.phase = "raised"]
<1>1. call' = [call EXCEPT ![c] = r] /\ call[c] \in CallRecords /\ Good(call[c], bucket)
  BY DEF Enter, UploadInv
<1>2. r \in CallRecords /\ r.phase = "raised" /\ r.doc = call[c].doc /\ r.uploaded = call[c].uploaded
  BY <1>1 DEF CallRecords, Phases
<1>3. Good(call[c], bucket')
  BY <1>1, GoodStays
<1>4. Good(r, bucket')
  <2> HIDE DEF r
  <2> QED BY <1>2, <1>3 DEF Good, PutOK
<1> HIDE DEF r
<1> QED BY <1>1, <1>2, <1>4, OneCall

LEMMA PutFailsInv ==
    ASSUME UploadInv, NEW c \in Calls, NEW reached \in BOOLEAN, PutFails(c, reached)
    PROVE  UploadInv'
<1>1. Uploading(c) /\ call[c].phase # "idle" /\ Enter(c, "raised") /\ hasStore' = hasStore
  BY DEF PutFails, Uploading
<1>2. CASE bucket' = bucket
  BY <1>1, <1>2, BucketStays, RaiseInv
<1>3. CASE bucket' = [bucket EXCEPT ![Key(call[c].doc, NextId(c))] = Bytes[call[c].doc][NextId(c)]]
  BY <1>1, <1>3, BucketPut, RaiseInv
<1> QED BY <1>2, <1>3 DEF PutFails

\* The asset that answers to an id is the one of that id.
LEMMA AssetFound ==
    ASSUME UploadInv, NEW c \in Calls, call[c].phase = "uploading", NEW id \in UploadedIds(c)
    PROVE  /\ AssetWithId(c, id).key = Key(call[c].doc, id)
           /\ \E i \in 1..Len(call[c].uploaded) : AssetsOf[call[c].doc][i] = id
<1> DEFINE S == {call[c].uploaded[i] : i \in DOMAIN call[c].uploaded}
<1>1. call[c].uploaded \in Seq(Assets) /\ Good(call[c], bucket)
  BY DEF UploadInv, CallRecords
<1>2. DOMAIN call[c].uploaded = 1..Len(call[c].uploaded)
  BY <1>1, LenProperties
<1>3. \A i \in 1..Len(call[c].uploaded) :
          call[c].uploaded[i] = Asset(call[c].doc, AssetsOf[call[c].doc][i])
  BY <1>1 DEF Good, PutOK
<1>4. \A x \in S : x.key = Key(call[c].doc, x.id)
  <2> SUFFICES ASSUME NEW x \in S PROVE x.key = Key(call[c].doc, x.id)
    OBVIOUS
  <2>1. PICK i \in 1..Len(call[c].uploaded) : x = call[c].uploaded[i]
    BY <1>2
  <2>2. x = Asset(call[c].doc, AssetsOf[call[c].doc][i])
    BY <1>3, <2>1
  <2> HIDE DEF S
  <2> QED BY <2>2, AssetFields
<1>5. PICK i \in 1..Len(call[c].uploaded) : call[c].uploaded[i].id = id
  BY <1>2 DEF UploadedIds
<1>6. \E x \in S : x.id = id
  BY <1>2, <1>5
<1>7. AssetWithId(c, id) \in S /\ AssetWithId(c, id).id = id
  <2> DEFINE found == CHOOSE x \in S : x.id = id
  <2>1. found \in S /\ found.id = id
    BY <1>6
  <2>2. AssetWithId(c, id) = found
    BY DEF AssetWithId
  <2> HIDE DEF S, found
  <2> QED BY <2>1, <2>2
<1>8. AssetsOf[call[c].doc][i] = id
  <2>1. call[c].uploaded[i] = Asset(call[c].doc, AssetsOf[call[c].doc][i])
    BY <1>3
  <2> QED BY <1>5, <2>1, AssetFields
<1> HIDE DEF S
<1> QED BY <1>4, <1>7, <1>8

LEMMA ResolveInv ==
    ASSUME UploadInv, NEW c \in Calls, Resolve(c)
    PROVE  UploadInv'
<1>1. call[c].phase = "uploading" /\ hasStore' = hasStore /\ bucket' = bucket
  BY DEF Resolve
<1>2. CASE ~(RefsOf[call[c].doc] \subseteq UploadedIds(c))
  BY <1>1, <1>2, BucketStays, RaiseInv DEF Resolve
<1>3. CASE RefsOf[call[c].doc] \subseteq UploadedIds(c)
  <2> DEFINE d == call[c].doc
             refs == {<<id, AssetWithId(c, id).key>> : id \in RefsOf[d]}
             r == [call[c] EXCEPT !.phase = "returned", !.refs = refs]
  <2>1. call' = [call EXCEPT ![c] = r] /\ call[c] \in CallRecords /\ Good(call[c], bucket)
    BY <1>3 DEF Resolve, UploadInv
  <2>2. d \in Docs /\ RefsOf[d] \subseteq Ids
    BY <1>1, <2>1, AssetsAssumption DEF Good
  <2>3. \A id \in RefsOf[d] : /\ AssetWithId(c, id).key = Key(d, id)
                              /\ \E i \in 1..Len(call[c].uploaded) : AssetsOf[d][i] = id
    BY <1>1, <1>3, AssetFound
  <2>4. refs = {<<id, Key(d, id)>> : id \in RefsOf[d]}
    BY <2>3
  <2>5. refs \in SUBSET (Ids \X Keys)
    BY <2>2, <2>4 DEF Key, Keys
  <2>6. /\ r \in CallRecords
        /\ r.phase = "returned" /\ r.refs = refs /\ r.doc = d /\ r.uploaded = call[c].uploaded
    BY <2>1, <2>5 DEF CallRecords, Phases
  <2>7. Good(r, bucket')
    <3> HIDE DEF r, refs
    <3> QED BY <1>1, <2>1, <2>3, <2>4, <2>6 DEF Good, PutOK
  <2> HIDE DEF r
  <2> QED BY <1>1, <2>1, <2>6, <2>7, BucketStays, OneCall
<1> QED BY <1>2, <1>3

LEMMA CrashInv ==
    ASSUME UploadInv, NEW c \in Calls, Crash(c)
    PROVE  UploadInv'
<1> DEFINE r == [Idle EXCEPT !.tries = call[c].tries]
<1>1. call' = [call EXCEPT ![c] = r] /\ hasStore' = hasStore /\ bucket' = bucket
  BY DEF Crash
<1>2. <<>> \in Seq(Assets) /\ call[c].tries \in 0..MaxTries
  BY EmptySeq DEF UploadInv, CallRecords
<1>3. r \in CallRecords /\ r.phase = "idle" /\ r.uploaded = <<>>
  BY <1>2 DEF CallRecords, Phases, Idle
<1>4. Good(r, bucket')
  <2> HIDE DEF r
  <2> QED BY <1>3 DEF Good
<1> HIDE DEF r
<1> QED BY <1>1, <1>3, <1>4, BucketStays, OneCall

LEMMA UploadKeeps == UploadInv /\ [Next]_vars => UploadInv'
<1> SUFFICES ASSUME UploadInv, [Next]_vars PROVE UploadInv'
  OBVIOUS
<1>1. ASSUME NEW c \in Calls, NEW d \in Docs, Start(c, d) PROVE UploadInv'
  BY <1>1, StartInv
<1>2. ASSUME NEW c \in Calls, PutSucceeds(c) PROVE UploadInv'
  BY <1>2, PutSucceedsInv
<1>3. ASSUME NEW c \in Calls, NEW reached \in BOOLEAN, PutFails(c, reached) PROVE UploadInv'
  BY <1>3, PutFailsInv
<1>4. ASSUME NEW c \in Calls, Resolve(c) PROVE UploadInv'
  BY <1>4, ResolveInv
<1>5. ASSUME NEW c \in Calls, Crash(c) PROVE UploadInv'
  BY <1>5, CrashInv
<1>6. CASE UNCHANGED vars
  BY <1>6 DEF vars, UploadInv, BucketOK
<1> QED BY <1>1, <1>2, <1>3, <1>4, <1>5, <1>6 DEF Next

LEMMA UploadAlone == [UploadsNext]_allVars => [Next]_vars
BY DEF UploadsNext, UploadStep, PdfStep, ScanStep, allVars

LEMMA UploadHolds == UploadsSpec => []UploadInv
<1>1. UploadsInit => UploadInv
  BY UploadBegins DEF UploadsInit
<1>2. UploadInv /\ [UploadsNext]_allVars => UploadInv'
  BY UploadKeeps, UploadAlone
<1> QED BY <1>1, <1>2, PTL DEF UploadsSpec

LEMMA GivesType == UploadInv => TypeOK
<1> SUFFICES ASSUME UploadInv PROVE TypeOK
  OBVIOUS
<1>1. ASSUME NEW c \in Calls
      PROVE  /\ call[c].phase \in {"idle", "uploading", "returned", "raised"}
             /\ call[c].tries \in 0..MaxTries
             /\ call[c].phase = "idle" => call[c].uploaded = <<>>
             /\ call[c].phase # "idle" =>
                   /\ call[c].doc \in Docs
                   /\ Len(call[c].uploaded) <= Len(AssetsOf[call[c].doc])
                   /\ \A i \in DOMAIN call[c].uploaded :
                         call[c].uploaded[i] = Asset(call[c].doc, AssetsOf[call[c].doc][i])
  <2>1. call[c] \in CallRecords /\ Good(call[c], bucket)
    BY DEF UploadInv
  <2>2. DOMAIN call[c].uploaded = 1..Len(call[c].uploaded)
    BY <2>1, LenProperties DEF CallRecords
  <2> QED BY <2>1, <2>2 DEF CallRecords, Phases, Good, PutOK
<1> QED BY <1>1 DEF UploadInv, BucketOK, TypeOK

\* Every state has its type: a call knows what it has put, in order.
THEOREM TypeCorrect == UploadsSpec => []TypeOK
BY UploadHolds, GivesType, PTL

LEMMA GivesStored == UploadInv => AssetsRight
<1> SUFFICES ASSUME UploadInv PROVE AssetsRight
  OBVIOUS
<1>1. ASSUME NEW c \in Calls, call[c].phase = "returned"
      PROVE  /\ \A i \in DOMAIN call[c].uploaded :
                    bucket[call[c].uploaded[i].key] = call[c].uploaded[i].sha
             /\ {x[1] : x \in call[c].refs} = RefsOf[call[c].doc]
             /\ \A x \in call[c].refs : x[2] \in Keys /\ x[2][1] = call[c].doc /\ x[2][2] = x[1]
                                         /\ bucket[x[2]] = Bytes[call[c].doc][x[1]]
  <2> DEFINE d == call[c].doc
  <2>1. call[c] \in CallRecords /\ Good(call[c], bucket) /\ d \in Docs
    BY <1>1 DEF UploadInv, Good
  <2>2. DOMAIN call[c].uploaded = 1..Len(call[c].uploaded)
    BY <2>1, LenProperties DEF CallRecords
  <2>3. \A i \in 1..Len(call[c].uploaded) : PutOK(call[c], bucket, i)
    BY <1>1, <2>1 DEF Good
  <2>4. /\ call[c].refs = {<<id, Key(d, id)>> : id \in RefsOf[d]}
        /\ \A id \in RefsOf[d] : \E i \in 1..Len(call[c].uploaded) : AssetsOf[d][i] = id
        /\ RefsOf[d] \subseteq Ids
    BY <1>1, <2>1, AssetsAssumption DEF Good
  <2>5. \A i \in DOMAIN call[c].uploaded : bucket[call[c].uploaded[i].key] = call[c].uploaded[i].sha
    <3> SUFFICES ASSUME NEW i \in 1..Len(call[c].uploaded)
                 PROVE  bucket[call[c].uploaded[i].key] = call[c].uploaded[i].sha
      BY <2>2
    <3>1. PutOK(call[c], bucket, i)
      BY <2>3
    <3> QED BY <3>1, AssetFields DEF PutOK
  <2>6. {x[1] : x \in call[c].refs} = RefsOf[d]
    <3>1. \A x \in call[c].refs : x[1] \in RefsOf[d]
      BY <2>4
    <3>2. ASSUME NEW id \in RefsOf[d] PROVE \E x \in call[c].refs : x[1] = id
      <4>1. <<id, Key(d, id)>> \in call[c].refs /\ <<id, Key(d, id)>>[1] = id
        BY <2>4
      <4> QED BY <4>1
    <3> QED BY <3>1, <3>2
  <2>7. ASSUME NEW id \in RefsOf[d] PROVE bucket[Key(d, id)] = Bytes[d][id]
    BY <2>3, <2>4 DEF PutOK
  <2>8. ASSUME NEW x \in call[c].refs
        PROVE  x[2] \in Keys /\ x[2][1] = d /\ x[2][2] = x[1] /\ bucket[x[2]] = Bytes[d][x[1]]
    <3>1. PICK id \in RefsOf[d] : x = <<id, Key(d, id)>>
      BY <2>4
    <3>2. x[1] = id /\ x[2] = <<d, id>> /\ <<d, id>> \in Keys /\ Key(d, id) = <<d, id>>
      BY <2>1, <2>4, <3>1 DEF Key, Keys
    <3> QED BY <2>7, <3>2
  <2> QED BY <2>5, <2>6, <2>8
<1> QED BY <1>1, GivesType DEF AssetsRight, ResultsStored, RefsResolved

\* What a result names is stored, with the bytes its digest is of, and every
\* reference of its units is to an asset of its own document, whatever other
\* calls stored, failed to store or left behind.
THEOREM ResultsNameStoredAssets == UploadsSpec => []AssetsRight
BY UploadHolds, GivesStored, PTL

\* No step changes an object that is there.
LEMMA StepKeeps == UploadInv /\ [Next]_vars => [\A k \in Keys : bucket[k] # None => bucket'[k] = bucket[k]]_vars
<1> SUFFICES ASSUME UploadInv, Next, NEW k \in Keys, bucket[k] # None PROVE bucket'[k] = bucket[k]
  OBVIOUS
<1>1. PICK d \in Docs, id \in Ids : k = <<d, id>>
  BY DEF Keys
<1>2. bucket[k] = Bytes[d][id]
  BY <1>1 DEF UploadInv, BucketOK
<1>3. bucket'[k] \in {bucket[k], Bytes[d][id]}
  <2>1. CASE bucket' = bucket
    BY <2>1
  <2>2. ASSUME NEW c \in Calls, Uploading(c),
               bucket' = [bucket EXCEPT ![Key(call[c].doc, NextId(c))] = Bytes[call[c].doc][NextId(c)]]
        PROVE  bucket'[k] \in {bucket[k], Bytes[d][id]}
    BY <1>1, <2>2, BucketPut
  <2> QED BY <2>1, <2>2 DEF Next, Start, PutSucceeds, PutFails, Resolve, Crash
<1> QED BY <1>2, <1>3

\* Storing again never changes an object: neither another call at the same time
\* nor a try after a failure or a crash.
THEOREM ObjectsStay == UploadsSpec => StoredOnceForAll
<1>1. UploadInv /\ [Next]_vars => [\A k \in Keys : bucket[k] # None => bucket'[k] = bucket[k]]_vars
  BY StepKeeps
<1> QED BY <1>1, UploadHolds, UploadAlone, PTL DEF UploadsSpec, StoredOnceForAll

-----------------------------------------------------------------------------
(* The invariant of a size validation *)

\* What a file, an output and a result may hold.
Files == DOMAIN Size \cup {0}
Statuses == {"none", "ok", "parse_error", "timeout"}
Slots == [source : Files, evidence : Files, html : Files, metrics : Statuses]
Listing == [key : Objects, size : Nat]
Samples == [band : DOMAIN Bands, index : DOMAIN Tenths, key : Objects, size : Nat]

PdfTypes ==
    /\ remote \in [Objects -> DOMAIN Size]
    /\ fixture \in [Pdf!Fixtures -> Files]
    /\ documents \in [Pdf!Fixtures -> Slots]
    /\ outputs \in [Pdf!Fixtures -> [run : Nat, status : Statuses]]
    /\ run \in 1..MaxRuns
    /\ stage \in {"list", "select", "download", "validate", "failed", "done"}
    /\ listed \in Seq(Listing)
    /\ samples \in Seq(Samples)
    /\ at \in 1..Len(samples) + 1
    /\ results \in Seq([id : Pdf!Fixtures, status : Statuses, run : Nat])
    /\ work \in {"off", "parse", "source", "evidence", "html", "metrics", "record", "exit", "failed"}
    /\ parsed \in Statuses
    /\ report \in {"none", "parse_error", "timeout"}

\* Samples are of the listing, each object and each name once; while a band is
\* sampled, its samples are numbered as far as there are.
Used == {samples[i].key : i \in {i \in DOMAIN samples : samples[i].band = at}}
SamplesPicked ==
    /\ \A i, j \in DOMAIN listed : listed[i].key = listed[j].key => i = j
    /\ \A i \in DOMAIN samples :
          /\ Pdf!InBand(samples[i], samples[i].band)
          /\ \E k \in DOMAIN listed : listed[k].key = samples[i].key /\ listed[k].size = samples[i].size
    /\ \A i, j \in DOMAIN samples : i # j =>
          /\ samples[i].key # samples[j].key
          /\ samples[i].band # samples[j].band \/ samples[i].index # samples[j].index
    /\ stage = "list" => samples = <<>>
    /\ stage = "select" =>
          /\ at \in DOMAIN Bands
          /\ \A i \in DOMAIN samples :
                /\ samples[i].band <= at
                /\ samples[i].band = at => samples[i].index <= Cardinality(Used) /\ at <= Len(samples)

\* What is downloaded stays as long as the run, which no worker is about before.
Downloaded ==
    /\ stage \in {"list", "select", "download"} => results = <<>>
    /\ stage = "download" => \A i \in 1..at - 1 :
          Size[fixture[Pdf!IdOf(samples[i])]] = samples[i].size
    /\ Pdf!FixturesRight

\* How far the worker has come with the sample the parent waits for.
AtWork ==
    /\ work # "off" \/ report # "none" => stage = "validate" /\ at <= Len(samples)
    /\ work = "off" \/ report = "none"
    /\ work \in {"evidence", "html"} => parsed = "ok"
    /\ work \in {"evidence", "html", "metrics", "record", "exit"} =>
          documents[Pdf!Id].source = fixture[Pdf!Id]
    /\ work = "html" => documents[Pdf!Id].evidence = fixture[Pdf!Id]
    /\ work \in {"metrics", "record", "exit"} /\ parsed = "ok" =>
          documents[Pdf!Id].evidence = fixture[Pdf!Id] /\ documents[Pdf!Id].html = fixture[Pdf!Id]
    /\ work \in {"record", "exit"} => documents[Pdf!Id].metrics = parsed
    /\ work = "exit" => outputs[Pdf!Id] = [run |-> run, status |-> parsed]

Reported ==
    /\ Len(results) <= Len(samples)
    /\ stage \in {"validate", "done"} => Len(results) = at - 1
    /\ stage = "done" => at = Len(samples) + 1
    /\ Pdf!ResultsRight

PdfInv == PdfTypes /\ SamplesPicked /\ Downloaded /\ AtWork /\ Reported

-----------------------------------------------------------------------------
(* Parameters, names and listings *)

LEMMA Sources ==
    /\ Objects \subseteq Nat /\ IsFiniteSet(Objects) /\ Objects \subseteq DOMAIN Folder
    /\ Size \in [DOMAIN Size -> Nat] /\ 0 \notin DOMAIN Size /\ Torn \in DOMAIN Size
    /\ Remotes \subseteq [Objects -> DOMAIN Size]
    /\ \A c \in DOMAIN Size : Size[c] \in Nat
<1>1. /\ Objects \subseteq Nat /\ Pdf!IsFiniteSet(Objects) /\ Objects \subseteq DOMAIN Folder
      /\ Size \in [DOMAIN Size -> Nat] /\ 0 \notin DOMAIN Size /\ Torn \in DOMAIN Size
      /\ Remotes \subseteq [Objects -> DOMAIN Size]
  BY PdfAssumption DEF Pdf!SourcesAssumption
<1>2. IsFiniteSet(Objects)
  BY <1>1 DEF IsFiniteSet, Pdf!IsFiniteSet
<1> HIDE DEF Pdf!IsFiniteSet
<1> QED BY <1>1, <1>2

LEMMA Sampling ==
    /\ Bands \in Seq([lower : Nat, upper : Nat]) /\ Bands # <<>>
    /\ \A a, b \in DOMAIN Bands : a < b => Bands[a].upper <= Bands[b].lower
    /\ Tenths \in Seq(0..10) /\ Tenths # <<>>
    /\ Reach \in Nat /\ MaxRuns \in Nat \ {0}
    /\ Len(Bands) \in Nat /\ DOMAIN Bands = 1..Len(Bands) /\ 1 \in DOMAIN Bands
    /\ Len(Tenths) \in Nat \ {0} /\ DOMAIN Tenths = 1..Len(Tenths)
    /\ \A b \in DOMAIN Bands : Bands[b].lower \in Nat /\ Bands[b].upper \in Nat
    /\ \A n \in DOMAIN Tenths : Tenths[n] \in 0..10
<1>1. /\ Bands \in Seq([lower : Nat, upper : Nat]) /\ Bands # <<>>
      /\ \A a, b \in DOMAIN Bands : a < b => Bands[a].upper <= Bands[b].lower
      /\ Tenths \in Seq(0..10) /\ Tenths # <<>>
      /\ Reach \in Nat /\ MaxRuns \in Nat \ {0}
  BY PdfAssumption DEF Pdf!SamplesAssumption
<1>2. /\ Len(Bands) \in Nat /\ DOMAIN Bands = 1..Len(Bands)
      /\ Len(Tenths) \in Nat /\ DOMAIN Tenths = 1..Len(Tenths)
      /\ Len(Bands) # 0 /\ Len(Tenths) # 0
  BY <1>1, EmptySeq
<1>3. ASSUME NEW b \in DOMAIN Bands PROVE Bands[b].lower \in Nat /\ Bands[b].upper \in Nat
  <2>1. Bands[b] \in [lower : Nat, upper : Nat]
    BY <1>1, ElementOfSeq, <1>2
  <2> QED BY <2>1
<1>4. \A n \in DOMAIN Tenths : Tenths[n] \in 0..10
  BY <1>1
<1> QED BY <1>1, <1>2, <1>3, <1>4

\* The operators of the instance are those of the libraries.
LEMMA SameOperators ==
    /\ \A S : Pdf!Cardinality(S) = Cardinality(S)
    /\ \A s : Pdf!FlattenSeq(s) = FlattenSeq(s)
    /\ \A S : Pdf!SetToSeqs(S) = SetToSeqs(S)
BY DEF Pdf!Cardinality, Cardinality, Pdf!FlattenSeq, FlattenSeq, Pdf!SetToSeqs, SetToSeqs

\* A sample has a file of its own.
LEMMA SampleIds ==
    ASSUME PdfTypes, SamplesPicked
    PROVE  /\ Len(samples) \in Nat /\ DOMAIN samples = 1..Len(samples)
           /\ \A i \in DOMAIN samples :
                 samples[i] \in Samples /\ Pdf!IdOf(samples[i]) \in Pdf!Fixtures
           /\ \A i, j \in DOMAIN samples : Pdf!IdOf(samples[i]) = Pdf!IdOf(samples[j]) => i = j
<1>1. /\ Len(samples) \in Nat /\ DOMAIN samples = 1..Len(samples)
      /\ \A i \in DOMAIN samples : samples[i] \in Samples
  BY DEF PdfTypes
<1>2. ASSUME NEW i \in DOMAIN samples PROVE Pdf!IdOf(samples[i]) \in Pdf!Fixtures
  BY <1>1 DEF Samples, Pdf!IdOf, Pdf!Fixtures
<1>3. ASSUME NEW i \in DOMAIN samples, NEW j \in DOMAIN samples, Pdf!IdOf(samples[i]) = Pdf!IdOf(samples[j])
      PROVE  i = j
  BY <1>3 DEF SamplesPicked, Pdf!IdOf
<1> QED BY <1>1, <1>2, <1>3

\* The listed objects of a band.
Within(b) == {o \in Listing : Pdf!InBand(o, b)}
LEMMA BandObjectsAre ==
    ASSUME PdfTypes, SamplesPicked, NEW b \in DOMAIN Bands
    PROVE  LET objects == Pdf!BandObjects(b) IN
           /\ objects \in Seq(Listing)
           /\ \A i \in DOMAIN objects : Pdf!InBand(objects[i], b) /\ \E k \in DOMAIN listed : objects[i] = listed[k]
           /\ \A i, j \in DOMAIN objects : objects[i].key = objects[j].key => i = j
<1> DEFINE objects == Pdf!BandObjects(b)  p == Picked(listed, Within(b))
<1>1. listed \in Seq(Listing) /\ \A i \in DOMAIN listed : listed[i] \in Listing
  BY DEF PdfTypes
<1>2. objects = p
  <2>1. [i \in DOMAIN listed |-> IF Pdf!InBand(listed[i], b) THEN <<listed[i]>> ELSE <<>>]
          = [i \in DOMAIN listed |-> IF listed[i] \in Within(b) THEN <<listed[i]>> ELSE <<>>]
    BY <1>1 DEF Within
  <2> QED BY <2>1, SameOperators DEF Pdf!BandObjects, Picked
<1>3. \A i, j \in DOMAIN listed : listed[i] = listed[j] => i = j
  BY DEF SamplesPicked
<1>4. /\ p \in Seq(Listing \cap Within(b))
      /\ ToSet(p) = ToSet(listed) \cap Within(b)
      /\ \A i, j \in DOMAIN p : p[i] = p[j] => i = j
  BY <1>1, <1>3, PickedIs
<1> HIDE DEF objects, p
<1>5. p \in Seq(Listing)
  BY <1>4 DEF Within
<1>6. ASSUME NEW i \in DOMAIN p PROVE Pdf!InBand(p[i], b) /\ \E k \in DOMAIN listed : p[i] = listed[k]
  <2>1. p[i] \in ToSet(listed) \cap Within(b)
    BY <1>4 DEF ToSet
  <2> QED BY <2>1 DEF ToSet, Within
<1>7. ASSUME NEW i \in DOMAIN p, NEW j \in DOMAIN p, p[i].key = p[j].key PROVE i = j
  <2>1. PICK k \in DOMAIN listed : p[i] = listed[k]
    BY <1>6
  <2>2. PICK l \in DOMAIN listed : p[j] = listed[l]
    BY <1>6
  <2>3. k = l
    BY <1>7, <2>1, <2>2 DEF SamplesPicked
  <2> QED BY <1>4, <2>1, <2>2, <2>3
<1> QED BY <1>2, <1>5, <1>6, <1>7 DEF objects

\* The search for a sample around a quantile finds an object that is not used,
\* when there is one.
LEMMA NearQuantileFinds ==
    ASSUME NEW objects \in Seq(Listing), NEW t \in 0..10, NEW used,
           NEW u \in DOMAIN objects, objects[u].key \notin used
    PROVE  \E i \in DOMAIN objects :
              Pdf!NearQuantile(objects, t, used) = objects[i] /\ objects[i].key \notin used
<1> DEFINE n == Len(objects)
           index == Pdf!Rounded(n - 1, t) + 1
           near == {i \in {i \in DOMAIN objects : Pdf!Distance(i, index) <= Reach} : objects[i].key \notin used}
           free == {i \in DOMAIN objects : objects[i].key \notin used}
           generic == [i \in 1..n |-> IF objects[i].key \in Generic THEN 1 ELSE 0]
           distance == [i \in 1..n |-> Pdf!Distance(i, index)]
           key == [i \in 1..n |-> objects[i].key]
           score(i) == <<IF objects[i].key \in Generic THEN 1 ELSE 0,
                         Pdf!Distance(i, index), objects[i].key>>
           before(s, q) == \/ s[1] < q[1]
                           \/ s[1] = q[1] /\ s[2] < q[2]
                           \/ s[1] = q[1] /\ s[2] = q[2] /\ s[3] <= q[3]
           first == CHOOSE i \in near : \A j \in near : before(score(i), score(j))
<1>1. /\ n \in Nat /\ DOMAIN objects = 1..n
      /\ \A i \in 1..n : objects[i].key \in Nat
  <2>1. n \in Nat /\ DOMAIN objects = 1..n
    OBVIOUS
  <2>2. ASSUME NEW i \in 1..n PROVE objects[i].key \in Nat
    <3>1. objects[i] \in Listing
      BY ElementOfSeq, <2>1
    <3> QED BY <3>1, Sources DEF Listing
  <2> QED BY <2>1, <2>2
<1>2. index \in Int
  BY <1>1 DEF Pdf!Rounded
<1>3. Pdf!NearQuantile(objects, t, used) = IF near # {} THEN objects[first] ELSE objects[Pdf!Smallest(free)]
  BY DEF Pdf!NearQuantile
<1>4. /\ generic \in [1..n -> Int]
      /\ distance \in [1..n -> Int]
      /\ key \in [1..n -> Int]
  <2> HIDE DEF index
  <2>1. \A i \in 1..n : Pdf!Distance(i, index) \in Int
    BY <1>2 DEF Pdf!Distance
  <2> QED BY <1>1, <2>1
<1>5. ASSUME near # {} PROVE first \in near
  <2>1. near \in SUBSET (1..n)
    BY <1>1
  <2>2. \A i \in near : i \in 1..n
    BY <2>1
  <2>3. PICK x \in near : \A y \in near :
           \/ generic[x] < generic[y]
           \/ generic[x] = generic[y] /\ distance[x] < distance[y]
           \/ generic[x] = generic[y] /\ distance[x] = distance[y] /\ key[x] <= key[y]
    <3>1. n \in Nat /\ near # {}
      BY <1>1, <1>5
    <3> HIDE DEF near, generic, distance, key, n
    <3>2. \E x \in near : FirstPicked(x, near, generic, distance, key)
      BY ONLY <3>1, <1>4, <2>1, LeastOfThree
    <3> QED BY <3>2 DEF FirstPicked
  <2>4. \A i \in 1..n : score(i) = <<generic[i], distance[i], key[i]>>
    OBVIOUS
  <2> HIDE DEF near, generic, distance, key, n, score
  <2>5. \A y \in near : before(score(x), score(y))
    BY <2>2, <2>3, <2>4
  <2> HIDE DEF before
  <2> QED BY <2>5
<1>6. Pdf!Smallest(free) \in free
  <2>1. free \subseteq Nat /\ u \in free
    BY <1>1
  <2> HIDE DEF free
  <2>2. \E x \in free : \A y \in free : x <= y
    BY <2>1, SmallestIn
  <2> QED BY <2>2 DEF Pdf!Smallest
<1>7. CASE near # {}
  <2>1. first \in near
    BY <1>5, <1>7
  <2> HIDE DEF first
  <2>2. first \in DOMAIN objects /\ objects[first].key \notin used
    BY <2>1
  <2> HIDE DEF near
  <2> QED BY <1>3, <1>7, <2>2
<1>8. CASE near = {}
  <2> HIDE DEF near, first
  <2> QED BY <1>3, <1>6, <1>8
<1> QED BY <1>7, <1>8

-----------------------------------------------------------------------------
(* A size validation, step by step *)

\* What a step that is not about samples, files or results leaves.
LEMMA SamplesStay ==
    ASSUME SamplesPicked, UNCHANGED <<listed, samples>>, stage' \notin {"list", "select"}
    PROVE  SamplesPicked'
BY DEF SamplesPicked, Used, Pdf!InBand

LEMMA PdfStays ==
    ASSUME PdfInv, UNCHANGED pdfVars
    PROVE  PdfInv'
<1>1. UNCHANGED <<remote, fixture, results, outputs, run, stage, listed, samples, manifest, at,
                  documents, work, parsed, report, faults>>
  BY DEF pdfVars
<1>2. PdfTypes'
  BY <1>1 DEF PdfInv, PdfTypes, Pdf!Fixtures
<1>3. SamplesPicked'
  <2>1. Used' = Used
    BY <1>1 DEF Used
  <2> QED BY <1>1, <2>1 DEF PdfInv, SamplesPicked, Pdf!InBand
<1>4. Downloaded'
  BY <1>1 DEF PdfInv, Downloaded, Pdf!FixturesRight, Pdf!IdOf
<1>5. AtWork'
  BY <1>1 DEF PdfInv, AtWork, Pdf!Id, Pdf!IdOf
<1>6. Reported'
  BY <1>1 DEF PdfInv, Reported, Pdf!ResultsRight, Pdf!IdOf
<1> QED BY <1>2, <1>3, <1>4, <1>5, <1>6 DEF PdfInv

LEMMA PdfBegins == Pdf!Init => PdfInv
<1> SUFFICES ASSUME Pdf!Init PROVE PdfInv
  OBVIOUS
<1>1. /\ remote \in [Objects -> DOMAIN Size]
      /\ fixture = [f \in Pdf!Fixtures |-> 0] /\ documents = [f \in Pdf!Fixtures |-> Pdf!Nothing]
      /\ outputs = [f \in Pdf!Fixtures |-> [run |-> 0, status |-> "none"]]
      /\ run = 1 /\ stage = "list" /\ listed = <<>> /\ samples = <<>> /\ manifest = <<>>
      /\ at = 1 /\ results = <<>> /\ work = "off" /\ parsed = "none" /\ report = "none"
  BY Sources DEF Pdf!Init
<1>2. PdfTypes
  <2>1. Pdf!Nothing \in Slots /\ 0 \in Files /\ 1 \in 1..MaxRuns
    BY Sampling DEF Pdf!Nothing, Slots, Files, Statuses
  <2>2. /\ fixture \in [Pdf!Fixtures -> Files]
        /\ documents \in [Pdf!Fixtures -> Slots]
        /\ outputs \in [Pdf!Fixtures -> [run : Nat, status : Statuses]]
    BY <1>1, <2>1 DEF Statuses
  <2>3. /\ listed \in Seq(Listing) /\ samples \in Seq(Samples) /\ at \in 1..Len(samples) + 1
        /\ results \in Seq([id : Pdf!Fixtures, status : Statuses, run : Nat])
    BY <1>1
  <2> QED BY <1>1, <2>1, <2>2, <2>3 DEF PdfTypes, Statuses
<1>3. SamplesPicked
  BY <1>1 DEF SamplesPicked
<1>4. Downloaded
  BY <1>1 DEF Downloaded, Pdf!FixturesRight
<1>5. AtWork
  BY <1>1 DEF AtWork
<1>6. Reported
  BY <1>1 DEF Reported, Pdf!ResultsRight
<1> QED BY <1>2, <1>3, <1>4, <1>5, <1>6 DEF PdfInv

LEMMA StartAgainKeeps ==
    ASSUME PdfInv, Pdf!StartAgain PROVE PdfInv'
<1>1. /\ run < MaxRuns /\ run' = run + 1 /\ stage' = "list"
      /\ listed' = <<>> /\ samples' = <<>> /\ manifest' = <<>> /\ at' = 1 /\ results' = <<>>
      /\ work' = "off" /\ parsed' = "none" /\ report' = "none"
      /\ UNCHANGED <<remote, fixture, documents, outputs, faults>>
  BY DEF Pdf!StartAgain
<1>2. PdfTypes'
  <2>1. run' \in 1..MaxRuns
    BY <1>1, Sampling DEF PdfInv, PdfTypes
  <2>2. /\ listed' \in Seq(Listing) /\ samples' \in Seq(Samples) /\ at' \in 1..Len(samples') + 1
        /\ results' \in Seq([id : Pdf!Fixtures, status : Statuses, run : Nat])
    BY <1>1
  <2> QED BY <1>1, <2>1, <2>2 DEF PdfInv, PdfTypes, Statuses
<1>3. SamplesPicked'
  BY <1>1 DEF SamplesPicked
<1>4. Downloaded'
  BY <1>1 DEF Downloaded, Pdf!FixturesRight
<1>5. AtWork'
  BY <1>1 DEF AtWork
<1>6. Reported'
  BY <1>1 DEF Reported, Pdf!ResultsRight
<1> QED BY <1>2, <1>3, <1>4, <1>5, <1>6 DEF PdfInv

LEMMA ListPdfsKeeps ==
    ASSUME PdfInv, Pdf!ListPdfs PROVE PdfInv'
<1>1. /\ stage = "list" /\ stage' = "select" /\ at' = 1
      /\ UNCHANGED <<remote, fixture, documents, outputs, run, samples, manifest, results, work,
                     parsed, report, faults>>
  BY DEF Pdf!ListPdfs
<1>2. PICK order \in SetToSeqs(Objects) :
         listed' = [i \in DOMAIN order |-> [key |-> order[i], size |-> Size[remote[order[i]]]]]
  BY SameOperators DEF Pdf!ListPdfs
<1>3. samples = <<>> /\ results = <<>> /\ work = "off" /\ report = "none"
  BY <1>1 DEF PdfInv, SamplesPicked, Downloaded, AtWork
<1> DEFINE n == Cardinality(Objects)
<1>4. /\ n \in Nat /\ order \in [1..n -> Objects]
      /\ \A i, j \in 1..n : order[i] = order[j] => i = j
  <2>1. n \in Nat
    BY Sources, FS_CardinalityType
  <2> QED BY <2>1 DEF SetToSeqs
<1> HIDE DEF n
<1>5. \A i \in 1..n : [key |-> order[i], size |-> Size[remote[order[i]]]] \in Listing
  BY <1>4, Sources DEF PdfInv, PdfTypes, Listing
<1>6. /\ listed' \in Seq(Listing) /\ DOMAIN listed' = 1..n
      /\ \A i \in 1..n : listed'[i].key = order[i]
  BY <1>2, <1>4, <1>5
<1>7. PdfTypes'
  <2>1. at' \in 1..Len(samples') + 1 /\ samples' \in Seq(Samples)
    BY <1>1, <1>3
  <2> QED BY <1>1, <1>6, <2>1 DEF PdfInv, PdfTypes
<1>8. SamplesPicked'
  <2>1. \A i, j \in DOMAIN listed' : listed'[i].key = listed'[j].key => i = j
    BY <1>4, <1>6
  <2> QED BY <1>1, <1>3, <2>1, Sampling DEF SamplesPicked
<1>9. Downloaded'
  BY <1>1, <1>3 DEF Downloaded, Pdf!FixturesRight
<1>10. AtWork'
  BY <1>1, <1>3 DEF AtWork
<1>11. Reported'
  BY <1>1, <1>3 DEF Reported, Pdf!ResultsRight
<1> QED BY <1>7, <1>8, <1>9, <1>10, <1>11 DEF PdfInv

\* One more sample of the band that is sampled.
LEMMA SampleAdded ==
    ASSUME PdfInv, stage = "select", Cardinality(Used) < Len(Tenths),
           NEW o, \E k \in DOMAIN listed : o = listed[k],
           Pdf!InBand(o, at), o.key \notin Used,
           samples' = Append(samples, [band |-> at, index |-> Cardinality(Used) + 1,
                                       key |-> o.key, size |-> o.size]),
           UNCHANGED <<listed, stage, at>>
    PROVE  SamplesPicked' /\ samples' \in Seq(Samples) /\ at' \in 1..Len(samples') + 1
<1> DEFINE m == Len(samples)
           n == Cardinality(Used)
           s == [band |-> at, index |-> n + 1, key |-> o.key, size |-> o.size]
<1>1. /\ m \in Nat /\ DOMAIN samples = 1..m /\ samples \in Seq(Samples)
      /\ \A i \in 1..m : samples[i] \in Samples
      /\ at \in DOMAIN Bands /\ at \in 1..m + 1 /\ o \in Listing
  BY SampleIds DEF PdfInv, PdfTypes, SamplesPicked
<1>2. IsFiniteSet(Used) /\ n \in Nat
  <2> DEFINE f == [i \in DOMAIN samples |-> samples[i].key]
             I == {i \in DOMAIN samples : samples[i].band = at}
  <2>1. I \in SUBSET (1..m) /\ Used = {f[i] : i \in I}
    BY <1>1 DEF Used
  <2> HIDE DEF f, I, m
  <2>2. IsFiniteSet(Used)
    BY <1>1, <2>1, ImageFinite
  <2> QED BY <2>2, FS_CardinalityType
<1>3. s \in Samples
  BY <1>1, <1>2, Sampling, SMTT(30) DEF Samples, Listing
<1> HIDE DEF s
<1>4. /\ samples' \in Seq(Samples) /\ Len(samples') = m + 1 /\ DOMAIN samples' = 1..m + 1
      /\ samples'[m + 1] = s
      /\ \A i \in 1..m : samples'[i] = samples[i]
  <2>1. samples' = Append(samples, s)
    BY DEF s
  <2> QED BY <1>1, <1>3, <2>1
<1>5. /\ s.band = at /\ s.index = n + 1 /\ s.key = o.key /\ s.size = o.size
  BY DEF s
<1> HIDE DEF m, n
<1>6. \A i \in 1..m + 1 : i \in 1..m \/ i = m + 1
  BY <1>1
<1>7. \A i \in 1..m : i \in 1..m + 1 /\ i # m + 1
  BY <1>1
<1>8. ASSUME NEW i \in 1..m
      PROVE  samples[i].key # s.key /\ (samples[i].band # s.band \/ samples[i].index # s.index)
  <2>1. CASE samples[i].band = at
    <3>1. samples[i].key \in Used
      BY <1>1, <2>1 DEF Used
    <3>2. samples[i].index <= n /\ samples[i].index \in Nat
      <4>1. samples[i].index \in Nat
        BY <1>1, Sampling DEF Samples
      <4>2. i \in DOMAIN samples
        BY <1>1
      <4>3. samples[i].index <= n
        BY <2>1, <4>2 DEF PdfInv, SamplesPicked, n
      <4> QED BY <4>1, <4>3
    <3> QED BY <1>2, <1>5, <3>1, <3>2
  <2>2. CASE samples[i].band # at
    <3> DEFINE b == samples[i].band
    <3>1. b \in DOMAIN Bands /\ b <= at
      BY <1>1 DEF PdfInv, SamplesPicked, Samples
    <3>2. b < at
      BY <1>1, <2>2, <3>1, Sampling, SMTT(30)
    <3>3. Bands[b].upper <= Bands[at].lower /\ Bands[b].upper \in Nat /\ Bands[at].lower \in Nat
      BY <1>1, <3>1, <3>2, Sampling
    <3>4. samples[i].size <= Bands[b].upper /\ samples[i].size \in Nat
      BY <1>1 DEF PdfInv, SamplesPicked, Pdf!InBand, Samples
    <3>5. Bands[at].lower < o.size /\ o.size \in Nat
      BY <1>1 DEF Pdf!InBand, Listing
    <3>6. PICK k \in DOMAIN listed : o = listed[k]
      OBVIOUS
    <3>7. PICK l \in DOMAIN listed : listed[l].key = samples[i].key /\ listed[l].size = samples[i].size
      BY <1>1 DEF PdfInv, SamplesPicked
    <3>8. ASSUME samples[i].key = s.key PROVE FALSE
      <4>1. k = l
        BY <1>5, <3>6, <3>7, <3>8 DEF PdfInv, SamplesPicked
      <4>2. o.size = samples[i].size
        BY <3>6, <3>7, <4>1
      <4> HIDE DEF b
      <4> QED BY <3>3, <3>4, <3>5, <4>2
    <3> QED BY <1>5, <2>2, <3>8
  <2> QED BY <2>1, <2>2
<1>9. Used' = Used \cup {o.key}
  <2>1. \A x : x \in Used <=> \E i \in 1..m : samples[i].band = at /\ x = samples[i].key
    BY <1>1 DEF Used
  <2>2. \A x : x \in Used' <=> \E i \in 1..m + 1 : samples'[i].band = at /\ x = samples'[i].key
    BY <1>4 DEF Used
  <2>3. ASSUME NEW x PROVE x \in Used' <=> x \in Used \/ x = o.key
    <3>1. ASSUME x \in Used PROVE x \in Used'
      <4>1. PICK i \in 1..m : samples[i].band = at /\ x = samples[i].key
        BY <2>1, <3>1
      <4> QED BY <1>4, <1>7, <2>2, <4>1
    <3>2. o.key \in Used'
      <4>1. m + 1 \in 1..m + 1
        BY <1>1
      <4> QED BY <1>4, <1>5, <2>2, <4>1
    <3>3. ASSUME x \in Used', x # o.key PROVE x \in Used
      <4>1. PICK i \in 1..m + 1 : samples'[i].band = at /\ x = samples'[i].key
        BY <2>2, <3>3
      <4>2. i \in 1..m
        BY <1>4, <1>5, <1>6, <3>3, <4>1
      <4> QED BY <1>4, <2>1, <4>1, <4>2
    <3> QED BY <3>1, <3>2, <3>3
  <2> QED BY <2>3
<1>10. Cardinality(Used') = n + 1
  BY <1>2, <1>9, FS_AddElement DEF n
<1>11. at' = at /\ at \in 1..m + 2 /\ at <= m + 1
  BY <1>1, Sampling
<1>12. SamplesPicked'
  <2>1. \A i, j \in DOMAIN listed' : listed'[i].key = listed'[j].key => i = j
    BY DEF PdfInv, SamplesPicked
  <2>2. ASSUME NEW i \in 1..m + 1
        PROVE  /\ Pdf!InBand(samples'[i], samples'[i].band)
               /\ \E k \in DOMAIN listed' : listed'[k].key = samples'[i].key /\ listed'[k].size = samples'[i].size
               /\ samples'[i].band <= at
               /\ samples'[i].band = at => samples'[i].index <= n + 1
    <3>1. CASE i \in 1..m
      <4>1. /\ Pdf!InBand(samples[i], samples[i].band)
            /\ \E k \in DOMAIN listed : listed[k].key = samples[i].key /\ listed[k].size = samples[i].size
            /\ samples[i].band <= at
            /\ samples[i].band = at => samples[i].index <= n
        BY <1>1, <3>1 DEF PdfInv, SamplesPicked, n
      <4>2. samples[i].index \in Nat
        BY <1>1, <3>1, Sampling DEF Samples
      <4>3. samples[i].index <= n => samples[i].index <= n + 1
        BY <1>2, <4>2 DEF n
      <4> QED BY <1>4, <3>1, <4>1, <4>3 DEF Pdf!InBand
    <3>2. CASE i = m + 1
      <4>1. Pdf!InBand(s, s.band)
        BY <1>5 DEF Pdf!InBand
      <4>2. s.band <= at /\ n + 1 <= n + 1
        BY <1>1, <1>2, <1>5, Sampling, SMTT(30) DEF n
      <4> QED BY <1>4, <1>5, <3>2, <4>1, <4>2
    <3> QED BY <1>6, <3>1, <3>2
  <2>3. ASSUME NEW i \in 1..m + 1, NEW j \in 1..m + 1, i # j
        PROVE  /\ samples'[i].key # samples'[j].key
               /\ samples'[i].band # samples'[j].band \/ samples'[i].index # samples'[j].index
    <3>1. CASE i \in 1..m /\ j \in 1..m
      <4>1. i \in DOMAIN samples /\ j \in DOMAIN samples
        BY <1>1, <3>1
      <4>2. /\ samples[i].key # samples[j].key
            /\ samples[i].band # samples[j].band \/ samples[i].index # samples[j].index
        BY <2>3, <4>1 DEF PdfInv, SamplesPicked
      <4>3. samples'[i] = samples[i] /\ samples'[j] = samples[j]
        BY <1>4, <3>1
      <4> QED BY <4>2, <4>3
    <3>2. CASE i \in 1..m /\ j = m + 1
      BY <1>4, <1>8, <3>2
    <3>3. CASE i = m + 1 /\ j \in 1..m
      BY <1>4, <1>8, <3>3
    <3> QED BY <1>6, <2>3, <3>1, <3>2, <3>3
  <2>4. /\ stage' = "select" /\ at' \in DOMAIN Bands /\ at' <= Len(samples')
    BY <1>1, <1>4, <1>11
  <2> QED BY <1>4, <1>10, <1>11, <2>1, <2>2, <2>3, <2>4, SMTT(30) DEF SamplesPicked
<1>13. at' \in 1..Len(samples') + 1
  BY <1>1, <1>4, <1>11
<1> QED BY <1>4, <1>12, <1>13

LEMMA SelectSampleKeeps ==
    ASSUME PdfInv, Pdf!SelectSample PROVE PdfInv'
<1> DEFINE objects == Pdf!BandObjects(at)
           n == Cardinality(Used)
           o == Pdf!NearQuantile(objects, Tenths[n + 1], Used)
           Raises == Len(objects) < Len(Tenths) /\ stage' = "failed" /\ UNCHANGED <<samples, at>>
           Adds == /\ ~(Len(objects) < Len(Tenths)) /\ n < Len(Tenths)
                   /\ samples' = Append(samples, [band |-> at, index |-> n + 1, key |-> o.key, size |-> o.size])
                   /\ UNCHANGED <<stage, at>>
           Turns == /\ ~(n < Len(Tenths))
                    /\ at' = IF at < Len(Bands) THEN at + 1 ELSE 1
                    /\ stage' = IF at < Len(Bands) THEN stage ELSE "download"
                    /\ UNCHANGED samples
<1>1. /\ stage = "select"
      /\ UNCHANGED <<remote, fixture, documents, outputs, run, listed, manifest, results, work,
                     parsed, report, faults>>
  BY DEF Pdf!SelectSample
<1>2. Raises \/ Adds \/ Turns
  <2>1. Pdf!Cardinality(Used) = n
    BY SameOperators
  <2>2. {samples[i].key : i \in {i \in DOMAIN samples : samples[i].band = at}} = Used
    BY DEF Used
  <2> HIDE DEF objects
  <2> QED BY <2>1, <2>2 DEF Pdf!SelectSample, objects
<1>3. /\ at \in DOMAIN Bands /\ Len(samples) \in Nat /\ DOMAIN samples = 1..Len(samples)
      /\ results = <<>> /\ work = "off" /\ report = "none"
  BY <1>1, SampleIds DEF PdfInv, SamplesPicked, Downloaded, AtWork
<1> HIDE DEF objects, n
<1>4. CASE Raises
  BY <1>1, <1>3, <1>4, SamplesStay DEF PdfInv, PdfTypes, Downloaded, Pdf!FixturesRight, AtWork, Reported, Pdf!ResultsRight
<1>5. CASE Adds
  <2>1. /\ objects \in Seq(Listing)
        /\ \A i \in DOMAIN objects : Pdf!InBand(objects[i], at) /\ \E k \in DOMAIN listed : objects[i] = listed[k]
        /\ \A i, j \in DOMAIN objects : objects[i].key = objects[j].key => i = j
    BY <1>3, BandObjectsAre DEF PdfInv, objects
  <2>2. IsFiniteSet(Used) /\ n \in Nat
    <3> DEFINE f == [i \in DOMAIN samples |-> samples[i].key]
               I == {i \in DOMAIN samples : samples[i].band = at}
    <3>1. I \in SUBSET (1..Len(samples)) /\ Used = {f[i] : i \in I}
      BY <1>3 DEF Used
    <3> HIDE DEF f, I
    <3>2. IsFiniteSet(Used)
      BY <1>3, <3>1, ImageFinite
    <3> QED BY <3>2, FS_CardinalityType DEF n
  <2>3. \E u \in DOMAIN objects : objects[u].key \notin Used
    <3> DEFINE f == [i \in DOMAIN objects |-> objects[i].key]
               m == Len(objects)
    <3>1. m \in Nat /\ DOMAIN objects = 1..m /\ Cardinality(Used) < m
      BY <1>5, <2>1, <2>2, Sampling DEF n
    <3>2. \A i, j \in 1..m : f[i] = f[j] => i = j
      BY <2>1, <3>1
    <3>3. \A i \in 1..m : f[i] = objects[i].key
      BY <3>1
    <3> HIDE DEF f, m
    <3>4. \E i \in 1..m : f[i] \notin Used
      BY <2>2, <3>1, <3>2, OneOutside
    <3> QED BY <3>1, <3>3, <3>4
  <2>4. n + 1 \in DOMAIN Tenths
    BY <1>5, <2>2, Sampling
  <2>5. \E i \in DOMAIN objects : o = objects[i] /\ objects[i].key \notin Used
    <3>1. Tenths[n + 1] \in 0..10
      BY <2>4, Sampling
    <3> QED BY <2>1, <2>3, <3>1, NearQuantileFinds
  <2> HIDE DEF o
  <2>6. /\ \E k \in DOMAIN listed : o = listed[k]
        /\ Pdf!InBand(o, at) /\ o.key \notin Used
    BY <2>1, <2>5
  <2>7. SamplesPicked' /\ samples' \in Seq(Samples) /\ at' \in 1..Len(samples') + 1
    BY <1>1, <1>5, <2>6, SampleAdded DEF n
  <2>8. PdfTypes'
    BY <1>1, <1>5, <2>7 DEF PdfInv, PdfTypes, Pdf!Fixtures
  <2>9. Downloaded'
    BY <1>1, <1>3, <1>5 DEF Downloaded, Pdf!FixturesRight
  <2>10. AtWork'
    BY <1>1, <1>3 DEF AtWork
  <2>11. Reported'
    <3>1. Len(samples') \in Nat /\ results' = <<>>
      BY <1>1, <1>3, <2>7
    <3> QED BY <1>1, <1>5, <3>1 DEF Reported, Pdf!ResultsRight
  <2> QED BY <2>7, <2>8, <2>9, <2>10, <2>11 DEF PdfInv
<1>6. CASE Turns
  <2>1. at <= Len(samples)
    <3>1. Used # {}
      <4> SUFFICES ASSUME Used = {} PROVE FALSE
        OBVIOUS
      <4>1. n = 0
        BY FS_EmptySet DEF n
      <4> QED BY <1>6, <4>1, Sampling
    <3>2. PICK i \in DOMAIN samples : samples[i].band = at
      BY <3>1 DEF Used
    <3> QED BY <1>1, <3>2 DEF PdfInv, SamplesPicked
  <2>2. at' \in 1..Len(samples') + 1 /\ (at < Len(Bands) => at' \in DOMAIN Bands)
    BY <1>3, <1>6, <2>1, Sampling, SMTT(30)
  <2>3. PdfTypes'
    BY <1>1, <1>6, <2>2 DEF PdfInv, PdfTypes, Pdf!Fixtures
  <2>4. SamplesPicked'
    <3>1. CASE at < Len(Bands)
      <4>1. stage' = "select" /\ at' = at + 1 /\ at' \in DOMAIN Bands
        BY <1>1, <1>6, <2>2, <3>1
      <4>2. ASSUME NEW i \in DOMAIN samples PROVE samples[i].band <= at + 1 /\ samples[i].band # at + 1
        <5>1. samples[i].band <= at
          BY <1>1 DEF PdfInv, SamplesPicked
        <5>2. samples[i] \in Samples
          BY SampleIds DEF PdfInv
        <5>3. samples[i].band \in Nat /\ at \in Nat
          BY <1>3, <5>2, Sampling, SMTT(30) DEF Samples
        <5> QED BY <5>1, <5>3
      <4> QED BY <1>1, <1>6, <4>1, <4>2 DEF PdfInv, SamplesPicked, Pdf!InBand
    <3>2. CASE ~(at < Len(Bands))
      BY <1>1, <1>6, <3>2, SamplesStay DEF PdfInv
    <3> QED BY <3>1, <3>2
  <2>5. Downloaded'
    <3>1. stage' \in {"select", "download"}
      BY <1>1, <1>6
    <3>2. stage' = "download" => at' = 1
      BY <1>1, <1>6
    <3>3. 1..1 - 1 = {}
      OBVIOUS
    <3> QED BY <1>1, <1>3, <3>1, <3>2, <3>3 DEF Downloaded, Pdf!FixturesRight
  <2>6. AtWork'
    BY <1>1, <1>3 DEF AtWork
  <2>7. Reported'
    <3>1. Len(samples') \in Nat /\ results' = <<>> /\ stage' \in {"select", "download"}
      BY <1>1, <1>3, <1>6
    <3> QED BY <3>1 DEF Reported, Pdf!ResultsRight
  <2> QED BY <2>3, <2>4, <2>5, <2>6, <2>7 DEF PdfInv
<1> QED BY <1>2, <1>4, <1>5, <1>6

\* The file of the sample the script is at.
LEMMA CurrentSample ==
    ASSUME PdfInv, at <= Len(samples)
    PROVE  /\ at \in DOMAIN samples /\ samples[at] \in Samples /\ samples[at].key \in Objects
           /\ Pdf!Id = Pdf!IdOf(samples[at]) /\ Pdf!Id \in Pdf!Fixtures
           /\ \A i \in DOMAIN samples : i # at => Pdf!IdOf(samples[i]) # Pdf!Id
<1>1. at \in DOMAIN samples
  BY SampleIds DEF PdfInv, PdfTypes
<1>2. samples[at] \in Samples /\ samples[at].key \in Objects
  BY <1>1, SampleIds DEF PdfInv, Samples
<1>3. Pdf!Id = Pdf!IdOf(samples[at])
  BY DEF Pdf!Id
<1>4. Pdf!Id \in Pdf!Fixtures /\ \A i \in DOMAIN samples : i # at => Pdf!IdOf(samples[i]) # Pdf!Id
  BY <1>1, <1>3, SampleIds DEF PdfInv
<1> QED BY <1>1, <1>2, <1>3, <1>4

LEMMA DownloadSampleKeeps ==
    ASSUME PdfInv, Pdf!DownloadSample PROVE PdfInv'
<1> DEFINE id == Pdf!Id  s == samples[at]  c == remote[s.key]
           Whole == Pdf!IsComplete(id, s.size)
<1>1. /\ stage = "download" /\ at <= Len(samples)
      /\ fixture' = IF Whole THEN fixture ELSE [fixture EXCEPT ![id] = c]
      /\ IF Whole \/ Size[c] = s.size
         THEN at' = at + 1 /\ stage' = stage
         ELSE at' = at /\ stage' = "failed"
      /\ UNCHANGED <<remote, documents, outputs, run, listed, samples, manifest, results, work,
                     parsed, report, faults>>
  BY DEF Pdf!DownloadSample
<1>2. /\ at \in DOMAIN samples /\ s \in Samples /\ s.key \in Objects
      /\ id = Pdf!IdOf(s) /\ id \in Pdf!Fixtures
      /\ \A i \in DOMAIN samples : i # at => Pdf!IdOf(samples[i]) # id
  BY <1>1, CurrentSample
<1>3. /\ results = <<>> /\ work = "off" /\ report = "none"
      /\ DOMAIN samples = 1..Len(samples) /\ Len(samples) \in Nat /\ at \in Nat
      /\ c \in DOMAIN Size /\ fixture \in [Pdf!Fixtures -> Files]
  BY <1>1, <1>2, SampleIds DEF PdfInv, PdfTypes, Downloaded, AtWork
<1> HIDE DEF id, s, c
<1>4. /\ fixture' \in [Pdf!Fixtures -> Files]
      /\ \A f \in Pdf!Fixtures : f # id => fixture'[f] = fixture[f]
      /\ fixture'[id] = IF Whole THEN fixture[id] ELSE c
  <2> HIDE DEF Whole
  <2>1. c \in Files
    BY <1>3 DEF Files
  <2> QED BY <1>1, <1>2, <1>3, <2>1
<1>5. stage' = "download" => Size[fixture'[id]] = s.size
  BY <1>1, <1>4 DEF Pdf!IsComplete
<1> HIDE DEF Whole
<1>6. at' \in 1..Len(samples') + 1 /\ stage' \in {"download", "failed"}
      /\ (stage' = "download" => at' = at + 1)
  BY <1>1, <1>3, <1>2
<1>7. PdfTypes'
  BY <1>1, <1>4, <1>6 DEF PdfInv, PdfTypes, Pdf!Fixtures
<1>8. SamplesPicked'
  BY <1>1, <1>6, SamplesStay DEF PdfInv
<1>9. Downloaded'
  <2>1. ASSUME stage' = "download", NEW i \in 1..at' - 1
        PROVE  Size[fixture'[Pdf!IdOf(samples[i])]] = samples[i].size
    <3>1. i \in 1..at /\ i \in DOMAIN samples
      BY <1>2, <1>3, <1>6, <2>1
    <3>2. CASE i = at
      BY <1>2, <1>5, <2>1, <3>2 DEF s
    <3>3. CASE i # at
      <4>1. i \in 1..at - 1
        BY <1>3, <3>1, <3>3
      <4>2. Size[fixture[Pdf!IdOf(samples[i])]] = samples[i].size
        BY <1>1, <4>1 DEF PdfInv, Downloaded
      <4>3. Pdf!IdOf(samples[i]) \in Pdf!Fixtures /\ Pdf!IdOf(samples[i]) # id
        BY <1>2, <3>1, <3>3, SampleIds DEF PdfInv
      <4> QED BY <1>4, <4>2, <4>3
    <3> QED BY <3>2, <3>3
  <2> QED BY <1>1, <1>3, <1>6, <2>1 DEF Downloaded, Pdf!FixturesRight, Pdf!IdOf
<1>10. AtWork'
  BY <1>1, <1>3 DEF AtWork
<1>11. Reported'
  <2>1. Len(samples') \in Nat /\ results' = <<>>
    BY <1>1, <1>3
  <2> QED BY <1>6, <2>1 DEF Reported, Pdf!ResultsRight
<1> QED BY <1>7, <1>8, <1>9, <1>10, <1>11 DEF PdfInv

LEMMA WriteManifestKeeps ==
    ASSUME PdfInv, Pdf!WriteManifest PROVE PdfInv'
<1>1. /\ stage = "download" /\ at > Len(samples)
      /\ manifest' = [i \in DOMAIN samples |->
                        [id |-> Pdf!IdOf(samples[i]), bytes |-> Size[fixture[Pdf!IdOf(samples[i])]],
                         sha256 |-> fixture[Pdf!IdOf(samples[i])]]]
      /\ stage' = "validate" /\ at' = 1
      /\ UNCHANGED <<remote, fixture, documents, outputs, run, listed, samples, results, work,
                     parsed, report, faults>>
  BY DEF Pdf!WriteManifest
<1>2. /\ results = <<>> /\ work = "off" /\ report = "none"
      /\ DOMAIN samples = 1..Len(samples) /\ Len(samples) \in Nat /\ at \in 1..Len(samples) + 1
  BY <1>1, SampleIds DEF PdfInv, PdfTypes, Downloaded, AtWork
<1>3. \A i \in DOMAIN samples : Size[fixture[Pdf!IdOf(samples[i])]] = samples[i].size
  <2>1. DOMAIN samples = 1..at - 1
    BY <1>1, <1>2
  <2> QED BY <1>1, <2>1 DEF PdfInv, Downloaded
<1>4. at' \in 1..Len(samples') + 1
  BY <1>1, <1>2
<1>5. PdfTypes'
  BY <1>1, <1>4 DEF PdfInv, PdfTypes, Pdf!Fixtures
<1>6. SamplesPicked'
  BY <1>1, SamplesStay DEF PdfInv
<1>7. Downloaded'
  <2>1. \A i \in DOMAIN samples : /\ manifest'[i].sha256 = fixture[Pdf!IdOf(samples[i])]
                                  /\ manifest'[i].bytes = Size[fixture[Pdf!IdOf(samples[i])]]
    BY <1>1
  <2> QED BY <1>1, <1>3, <2>1 DEF Downloaded, Pdf!FixturesRight, Pdf!IdOf
<1>8. AtWork'
  BY <1>1, <1>2 DEF AtWork
<1>9. Reported'
  <2>1. Len(samples') \in Nat /\ results' = <<>> /\ Len(results') = at' - 1
    BY <1>1, <1>2
  <2> QED BY <1>1, <2>1 DEF Reported, Pdf!ResultsRight
<1> QED BY <1>5, <1>6, <1>7, <1>8, <1>9 DEF PdfInv

LEMMA InterruptedKeeps ==
    ASSUME PdfInv, NEW torn \in BOOLEAN, Pdf!Interrupted(torn) PROVE PdfInv'
<1>1. /\ stage' = "failed" /\ work' = "off" /\ report' = "none"
      /\ torn => stage = "download" /\ at <= Len(samples)
      /\ fixture' = IF torn THEN [fixture EXCEPT ![Pdf!Id] = Torn] ELSE fixture
      /\ UNCHANGED <<remote, documents, outputs, run, listed, samples, manifest, at, results, parsed>>
  BY DEF Pdf!Interrupted
<1>2. PdfTypes'
  <2>1. fixture' \in [Pdf!Fixtures -> Files]
    <3>1. Torn \in Files /\ fixture \in [Pdf!Fixtures -> Files]
      BY Sources DEF PdfInv, PdfTypes, Files
    <3> QED BY <1>1, <3>1
  <2> QED BY <1>1, <2>1 DEF PdfInv, PdfTypes, Pdf!Fixtures
<1>3. SamplesPicked'
  BY <1>1, SamplesStay DEF PdfInv
<1>4. Downloaded'
  BY <1>1 DEF Downloaded, Pdf!FixturesRight
<1>5. AtWork'
  BY <1>1 DEF AtWork
<1>6. Reported'
  <2>1. CASE torn
    <3>1. results' = <<>>
      BY <1>1, <2>1 DEF PdfInv, Downloaded
    <3>2. Len(results') <= Len(samples')
      BY <1>1 DEF PdfInv, Reported
    <3> QED BY <1>1, <3>1, <3>2 DEF Reported, Pdf!ResultsRight
  <2>2. CASE ~torn
    <3>1. fixture' = fixture
      BY <1>1, <2>2
    <3> QED BY <1>1, <3>1 DEF PdfInv, Reported, Pdf!ResultsRight, Pdf!IdOf
  <2> QED BY <2>1, <2>2
<1> QED BY <1>2, <1>3, <1>4, <1>5, <1>6 DEF PdfInv

LEMMA ReplacedKeeps ==
    ASSUME PdfInv, NEW k \in Objects, NEW c \in DOMAIN Size \ {Torn}, Pdf!Replaced(k, c) PROVE PdfInv'
<1>1. /\ remote' = [remote EXCEPT ![k] = c]
      /\ UNCHANGED <<fixture, documents, outputs, run, stage, listed, samples, manifest, at,
                     results, work, parsed, report>>
  BY DEF Pdf!Replaced
<1>2. PdfTypes'
  <2>1. remote' \in [Objects -> DOMAIN Size]
    BY <1>1 DEF PdfInv, PdfTypes
  <2> QED BY <1>1, <2>1 DEF PdfInv, PdfTypes, Pdf!Fixtures
<1>3. SamplesPicked'
  <2>1. Used' = Used
    BY <1>1 DEF Used
  <2> QED BY <1>1, <2>1 DEF PdfInv, SamplesPicked, Pdf!InBand
<1>4. Downloaded'
  BY <1>1 DEF PdfInv, Downloaded, Pdf!FixturesRight, Pdf!IdOf
<1>5. AtWork'
  BY <1>1 DEF PdfInv, AtWork, Pdf!Id, Pdf!IdOf
<1>6. Reported'
  BY <1>1 DEF PdfInv, Reported, Pdf!ResultsRight, Pdf!IdOf
<1> QED BY <1>2, <1>3, <1>4, <1>5, <1>6 DEF PdfInv

\* While workers run, the samples and their files are what they were.
LEMMA FilesStay ==
    ASSUME PdfInv, stage = "validate",
           UNCHANGED <<remote, fixture, run, stage, listed, samples, manifest>>
    PROVE  SamplesPicked' /\ Downloaded'
<1>1. SamplesPicked'
  BY SamplesStay DEF PdfInv
<1>2. Pdf!FixturesRight'
  BY DEF PdfInv, Downloaded, Pdf!FixturesRight, Pdf!IdOf
<1> QED BY <1>1, <1>2 DEF Downloaded

LEMMA StartWorkerKeeps ==
    ASSUME PdfInv, Pdf!StartWorker PROVE PdfInv'
<1>1. /\ stage = "validate" /\ at <= Len(samples) /\ work = "off" /\ report = "none"
      /\ work' = "parse" /\ parsed' = "none"
      /\ UNCHANGED <<remote, fixture, documents, outputs, run, stage, listed, samples, manifest,
                     at, results, report, faults>>
  BY DEF Pdf!StartWorker
<1>2. PdfTypes'
  BY <1>1 DEF PdfInv, PdfTypes, Pdf!Fixtures, Statuses
<1>3. SamplesPicked' /\ Downloaded'
  BY <1>1, FilesStay
<1>4. AtWork'
  BY <1>1 DEF AtWork
<1>5. Reported'
  BY <1>1 DEF PdfInv, Reported, Pdf!ResultsRight, Pdf!IdOf
<1> QED BY <1>2, <1>3, <1>4, <1>5 DEF PdfInv

LEMMA WorkerParseKeeps ==
    ASSUME PdfInv, Pdf!WorkerParse PROVE PdfInv'
<1>1. /\ work = "parse" /\ work' = "source" /\ parsed' \in {"parse_error", "ok"}
      /\ UNCHANGED <<remote, fixture, documents, outputs, run, stage, listed, samples, manifest,
                     at, results, report, faults>>
  BY DEF Pdf!WorkerParse
<1>2. stage = "validate" /\ at <= Len(samples) /\ report = "none"
  BY <1>1 DEF PdfInv, AtWork
<1>3. PdfTypes'
  BY <1>1 DEF PdfInv, PdfTypes, Pdf!Fixtures, Statuses
<1>4. SamplesPicked' /\ Downloaded'
  BY <1>1, <1>2, FilesStay
<1>5. AtWork'
  BY <1>1, <1>2 DEF AtWork
<1>6. Reported'
  BY <1>1 DEF PdfInv, Reported, Pdf!ResultsRight, Pdf!IdOf
<1> QED BY <1>3, <1>4, <1>5, <1>6 DEF PdfInv

\* The results before the current sample are of other samples: what is put for
\* the current one does not disturb them.
LEMMA ResultsStay ==
    ASSUME PdfInv, stage = "validate", at <= Len(samples),
           UNCHANGED <<fixture, run, stage, samples, at, results>>,
           \A f \in Pdf!Fixtures : f # Pdf!Id => documents'[f] = documents[f]
    PROVE  Reported'
<1>1. /\ Len(results) = at - 1 /\ Len(results) \in Nat /\ DOMAIN results = 1..Len(results)
      /\ at \in DOMAIN samples /\ DOMAIN samples = 1..Len(samples) /\ Len(samples) \in Nat
  BY CurrentSample, SampleIds DEF PdfInv, PdfTypes, Reported
<1>2. ASSUME NEW i \in DOMAIN results
      PROVE  i \in DOMAIN samples /\ results[i].id = Pdf!IdOf(samples[i])
             /\ documents'[results[i].id] = documents[results[i].id]
  <2>1. i \in DOMAIN samples /\ i # at
    BY <1>1
  <2>2. results[i].id = Pdf!IdOf(samples[i])
    BY DEF PdfInv, Reported, Pdf!ResultsRight
  <2>3. results[i].id \in Pdf!Fixtures /\ results[i].id # Pdf!Id
    BY <2>1, <2>2, CurrentSample, SampleIds DEF PdfInv
  <2> QED BY <2>1, <2>2, <2>3
<1>3. Pdf!ResultsRight'
  BY <1>2 DEF PdfInv, Reported, Pdf!ResultsRight, Pdf!IdOf
<1> QED BY <1>3 DEF PdfInv, Reported

\* What a worker puts.
LEMMA StoredIs ==
    ASSUME PdfInv, at <= Len(samples), work \in {"source", "evidence", "html", "metrics"}
    PROVE  LET b == Pdf!Stored(work)  id == Pdf!Id IN
           /\ b \in [Pdf!Fixtures -> Slots]
           /\ \A f \in Pdf!Fixtures : f # id => b[f] = documents[f]
           /\ b[id].source = IF work = "source" THEN fixture[id] ELSE documents[id].source
           /\ b[id].evidence = IF work = "evidence" THEN fixture[id] ELSE documents[id].evidence
           /\ b[id].html = IF work = "html" THEN fixture[id] ELSE documents[id].html
           /\ b[id].metrics = IF work = "metrics" THEN parsed ELSE documents[id].metrics
<1> DEFINE id == Pdf!Id  d == documents[id]
           v == CASE work = "source" -> [d EXCEPT !.source = fixture[id]]
                  [] work = "evidence" -> [d EXCEPT !.evidence = fixture[id]]
                  [] work = "html" -> [d EXCEPT !.html = fixture[id]]
                  [] work = "metrics" -> [d EXCEPT !.metrics = parsed]
<1>1. id \in Pdf!Fixtures
  BY CurrentSample
<1>2. d \in Slots /\ fixture[id] \in Files /\ parsed \in Statuses /\ documents \in [Pdf!Fixtures -> Slots]
  BY <1>1 DEF PdfInv, PdfTypes
<1>3. Pdf!Stored(work) = [documents EXCEPT ![id] = v]
  BY DEF Pdf!Stored
<1> DEFINE file == fixture[id]
<1> HIDE DEF id, d, file
<1>4. /\ v \in Slots
      /\ v.source = IF work = "source" THEN fixture[id] ELSE d.source
      /\ v.evidence = IF work = "evidence" THEN fixture[id] ELSE d.evidence
      /\ v.html = IF work = "html" THEN fixture[id] ELSE d.html
      /\ v.metrics = IF work = "metrics" THEN parsed ELSE d.metrics
  <2>1. CASE work = "source"
    <3>1. v = [d EXCEPT !.source = fixture[id]]
      BY <2>1
    <3> HIDE DEF v
    <3> QED BY <1>2, <2>1, <3>1 DEF Slots
  <2>2. CASE work = "evidence"
    <3>1. v = [d EXCEPT !.evidence = fixture[id]]
      BY <2>2
    <3> HIDE DEF v
    <3> QED BY <1>2, <2>2, <3>1 DEF Slots
  <2>3. CASE work = "html"
    <3>1. v = [d EXCEPT !.html = fixture[id]]
      BY <2>3
    <3> HIDE DEF v
    <3> QED BY <1>2, <2>3, <3>1 DEF Slots
  <2>4. CASE work = "metrics"
    <3>1. v = [d EXCEPT !.metrics = parsed]
      BY <2>4
    <3> HIDE DEF v
    <3> QED BY <1>2, <2>4, <3>1 DEF Slots
  <2> QED BY <2>1, <2>2, <2>3, <2>4
<1> HIDE DEF v
<1>5. /\ [documents EXCEPT ![id] = v] \in [Pdf!Fixtures -> Slots]
      /\ [documents EXCEPT ![id] = v][id] = v
      /\ \A f \in Pdf!Fixtures : f # id => [documents EXCEPT ![id] = v][f] = documents[f]
  BY <1>1, <1>2, <1>4
<1> QED BY <1>3, <1>4, <1>5 DEF id, d

LEMMA WorkerPutKeeps ==
    ASSUME PdfInv, Pdf!WorkerPut PROVE PdfInv'
<1> DEFINE id == Pdf!Id
<1>1. /\ work \in {"source", "evidence", "html", "metrics"}
      /\ documents' = Pdf!Stored(work)
      /\ work' = Pdf!After(work)
      /\ UNCHANGED <<remote, fixture, outputs, run, stage, listed, samples, manifest, at, results,
                     parsed, report, faults>>
  BY DEF Pdf!WorkerPut
<1>2. stage = "validate" /\ at <= Len(samples) /\ report = "none"
  BY <1>1 DEF PdfInv, AtWork
<1>3. /\ documents' \in [Pdf!Fixtures -> Slots]
      /\ \A f \in Pdf!Fixtures : f # id => documents'[f] = documents[f]
      /\ documents'[id].source = IF work = "source" THEN fixture[id] ELSE documents[id].source
      /\ documents'[id].evidence = IF work = "evidence" THEN fixture[id] ELSE documents[id].evidence
      /\ documents'[id].html = IF work = "html" THEN fixture[id] ELSE documents[id].html
      /\ documents'[id].metrics = IF work = "metrics" THEN parsed ELSE documents[id].metrics
  BY <1>1, <1>2, StoredIs
<1>4. \/ work = "source" /\ parsed = "ok" /\ work' = "evidence"
      \/ work = "source" /\ parsed # "ok" /\ work' = "metrics"
      \/ work = "evidence" /\ work' = "html"
      \/ work = "html" /\ work' = "metrics"
      \/ work = "metrics" /\ work' = "record"
  BY <1>1 DEF Pdf!After
<1>5. PdfTypes'
  BY <1>1, <1>3, <1>4 DEF PdfInv, PdfTypes, Pdf!Fixtures
<1>6. SamplesPicked' /\ Downloaded'
  BY <1>1, <1>2, FilesStay
<1>7. Pdf!Id' = id /\ fixture' = fixture /\ parsed' = parsed
  BY <1>1 DEF Pdf!Id, Pdf!IdOf
<1>8. /\ work \in {"evidence", "html"} => parsed = "ok"
      /\ work \in {"evidence", "html", "metrics"} => documents[id].source = fixture[id]
      /\ work = "html" => documents[id].evidence = fixture[id]
      /\ work = "metrics" /\ parsed = "ok" =>
            documents[id].evidence = fixture[id] /\ documents[id].html = fixture[id]
  BY DEF PdfInv, AtWork
<1> HIDE DEF id
<1>9. AtWork'
  BY <1>1, <1>2, <1>3, <1>4, <1>7, <1>8 DEF AtWork
<1>10. Reported'
  BY <1>1, <1>2, <1>3, ResultsStay DEF id
<1> QED BY <1>5, <1>6, <1>9, <1>10 DEF PdfInv

LEMMA WorkerPutFailsKeeps ==
    ASSUME PdfInv, NEW served \in BOOLEAN, Pdf!WorkerPutFails(served) PROVE PdfInv'
<1>1. /\ work \in {"source", "evidence", "html", "metrics"}
      /\ documents' = IF served THEN Pdf!Stored(work) ELSE documents
      /\ work' = "failed"
      /\ UNCHANGED <<remote, fixture, outputs, run, stage, listed, samples, manifest, at, results,
                     parsed, report>>
  BY DEF Pdf!WorkerPutFails
<1>2. stage = "validate" /\ at <= Len(samples) /\ report = "none"
  BY <1>1 DEF PdfInv, AtWork
<1>3. /\ documents' \in [Pdf!Fixtures -> Slots]
      /\ \A f \in Pdf!Fixtures : f # Pdf!Id => documents'[f] = documents[f]
  BY <1>1, <1>2, StoredIs DEF PdfInv, PdfTypes
<1>4. PdfTypes'
  BY <1>1, <1>3 DEF PdfInv, PdfTypes, Pdf!Fixtures
<1>5. SamplesPicked' /\ Downloaded'
  BY <1>1, <1>2, FilesStay
<1>6. AtWork'
  BY <1>1, <1>2 DEF AtWork
<1>7. Reported'
  BY <1>1, <1>2, <1>3, ResultsStay
<1> QED BY <1>4, <1>5, <1>6, <1>7 DEF PdfInv

LEMMA WorkerRecordKeeps ==
    ASSUME PdfInv, Pdf!WorkerRecord PROVE PdfInv'
<1> DEFINE id == Pdf!Id
<1>1. /\ work = "record"
      /\ outputs' = [outputs EXCEPT ![id] = [run |-> run, status |-> parsed]]
      /\ work' = "exit"
      /\ UNCHANGED <<remote, fixture, documents, run, stage, listed, samples, manifest, at, results,
                     parsed, report, faults>>
  BY DEF Pdf!WorkerRecord
<1>2. stage = "validate" /\ at <= Len(samples) /\ report = "none"
  BY <1>1 DEF PdfInv, AtWork
<1>3. id \in Pdf!Fixtures
  BY <1>2, CurrentSample
<1>4. Pdf!Id' = id /\ fixture' = fixture /\ parsed' = parsed /\ documents' = documents
  BY <1>1 DEF Pdf!Id, Pdf!IdOf
<1>5. /\ documents[id].source = fixture[id] /\ documents[id].metrics = parsed
      /\ parsed = "ok" => documents[id].evidence = fixture[id] /\ documents[id].html = fixture[id]
  BY <1>1 DEF PdfInv, AtWork
<1> HIDE DEF id
<1>6. outputs' \in [Pdf!Fixtures -> [run : Nat, status : Statuses]] /\ outputs'[id] = [run |-> run, status |-> parsed]
  BY <1>1, <1>3, Sampling DEF PdfInv, PdfTypes
<1>7. PdfTypes'
  BY <1>1, <1>6 DEF PdfInv, PdfTypes, Pdf!Fixtures
<1>8. SamplesPicked' /\ Downloaded'
  BY <1>1, <1>2, FilesStay
<1>9. AtWork'
  BY <1>1, <1>2, <1>4, <1>5, <1>6 DEF AtWork
<1>10. Reported'
  BY <1>1, <1>2, ResultsStay
<1> QED BY <1>7, <1>8, <1>9, <1>10 DEF PdfInv

\* One more result, that of the current sample, with which the bucket agrees.
LEMMA ResultAdded ==
    ASSUME PdfInv, stage = "validate", at <= Len(samples),
           NEW status \in Statuses, results' = Append(results, [id |-> Pdf!Id, status |-> status, run |-> run]),
           at' = at + 1, UNCHANGED <<fixture, run, stage, samples>>,
           \A f \in Pdf!Fixtures : f # Pdf!Id => documents'[f] = documents[f],
           documents'[Pdf!Id].source = fixture[Pdf!Id], documents'[Pdf!Id].metrics = status,
           status = "ok" => /\ documents'[Pdf!Id].evidence = fixture[Pdf!Id]
                            /\ documents'[Pdf!Id].html = fixture[Pdf!Id]
    PROVE  /\ results' \in Seq([id : Pdf!Fixtures, status : Statuses, run : Nat])
           /\ at' \in 1..Len(samples') + 1
           /\ Reported'
<1> DEFINE r == [id |-> Pdf!Id, status |-> status, run |-> run]
           Results == [id : Pdf!Fixtures, status : Statuses, run : Nat]
           m == Len(results)
<1>1. /\ m = at - 1 /\ m \in Nat /\ DOMAIN results = 1..m /\ results \in Seq(Results)
      /\ at \in DOMAIN samples /\ DOMAIN samples = 1..Len(samples) /\ Len(samples) \in Nat
  BY CurrentSample, SampleIds DEF PdfInv, PdfTypes, Reported
<1>2. r \in Results
  BY CurrentSample, Sampling, SMTT(30) DEF PdfInv, PdfTypes
<1>3. r.id = Pdf!Id /\ r.status = status /\ r.run = run /\ Pdf!Id = Pdf!IdOf(samples[at])
  BY CurrentSample
<1> HIDE DEF r, Results
<1>4. /\ results' \in Seq(Results) /\ Len(results') = m + 1 /\ DOMAIN results' = 1..m + 1
      /\ results'[m + 1] = r
      /\ \A i \in 1..m : results'[i] = results[i]
  <2>1. results' = Append(results, r)
    BY DEF r
  <2> QED BY <1>1, <1>2, <2>1
<1> HIDE DEF m
<1>5. at = m + 1 /\ at' = at + 1 /\ samples' = samples
  BY <1>1
<1>6. \A i \in 1..m + 1 : i \in 1..m \/ i = m + 1
  BY <1>1
<1>7. ASSUME NEW i \in 1..m + 1
      PROVE  LET q == results'[i]  b == documents'[q.id] IN
             /\ q.id = Pdf!IdOf(samples[i]) /\ q.run = run
             /\ b.source = fixture[q.id] /\ b.metrics = q.status
             /\ q.status = "ok" => b.evidence = fixture[q.id] /\ b.html = fixture[q.id]
  <2>1. CASE i \in 1..m
    <3>1. results'[i] = results[i] /\ i \in DOMAIN results /\ i \in DOMAIN samples /\ i # at
      BY <1>1, <1>4, <1>5, <2>1
    <3>2. LET q == results[i]  b == documents[q.id] IN
             /\ q.id = Pdf!IdOf(samples[i]) /\ q.run = run
             /\ b.source = fixture[q.id] /\ b.metrics = q.status
             /\ q.status = "ok" => b.evidence = fixture[q.id] /\ b.html = fixture[q.id]
      BY <3>1 DEF PdfInv, Reported, Pdf!ResultsRight
    <3>3. results[i].id \in Pdf!Fixtures /\ results[i].id # Pdf!Id
      BY <3>1, <3>2, CurrentSample, SampleIds DEF PdfInv
    <3>4. documents'[results[i].id] = documents[results[i].id]
      BY <3>3
    <3> QED BY <3>1, <3>2, <3>4
  <2>2. CASE i = m + 1
    BY <1>3, <1>4, <1>5, <2>2
  <2> QED BY <1>6, <2>1, <2>2
<1>8. Pdf!ResultsRight'
  <2>1. fixture' = fixture /\ run' = run /\ samples' = samples
    OBVIOUS
  <2> QED BY <1>4, <1>7, <2>1, SMTT(30) DEF Pdf!ResultsRight, Pdf!IdOf
<1>9. at' \in 1..Len(samples') + 1 /\ Len(results') <= Len(samples') /\ Len(results') = at' - 1
  BY <1>1, <1>4, <1>5
<1> QED BY <1>4, <1>8, <1>9 DEF Reported, Results

LEMMA CollectKeeps ==
    ASSUME PdfInv, Pdf!Collect PROVE PdfInv'
<1> DEFINE id == Pdf!Id
<1>1. /\ work = "exit"
      /\ results' = Append(results, [id |-> id, status |-> outputs[id].status, run |-> outputs[id].run])
      /\ at' = at + 1 /\ work' = "off"
      /\ UNCHANGED <<remote, fixture, documents, outputs, run, stage, listed, samples, manifest,
                     parsed, report, faults>>
  BY DEF Pdf!Collect, Pdf!Result
<1>2. stage = "validate" /\ at <= Len(samples) /\ report = "none"
  BY <1>1 DEF PdfInv, AtWork
<1>3. /\ documents[id].source = fixture[id] /\ documents[id].metrics = parsed
      /\ parsed = "ok" => documents[id].evidence = fixture[id] /\ documents[id].html = fixture[id]
      /\ outputs[id].status = parsed /\ outputs[id].run = run /\ parsed \in Statuses
  BY <1>1 DEF PdfInv, AtWork, PdfTypes
<1>4. /\ results' \in Seq([id : Pdf!Fixtures, status : Statuses, run : Nat])
      /\ at' \in 1..Len(samples') + 1
      /\ Reported'
  BY <1>1, <1>2, <1>3, ResultAdded
<1>5. PdfTypes'
  BY <1>1, <1>4 DEF PdfInv, PdfTypes, Pdf!Fixtures
<1>6. SamplesPicked' /\ Downloaded'
  BY <1>1, <1>2, FilesStay
<1>7. AtWork'
  BY <1>1, <1>2 DEF AtWork
<1> QED BY <1>4, <1>5, <1>6, <1>7 DEF PdfInv

LEMMA ReportFailureKeeps ==
    ASSUME PdfInv, Pdf!ReportFailure PROVE PdfInv'
<1> DEFINE id == Pdf!Id
<1>1. /\ stage = "validate" /\ report # "none"
      /\ documents' = [documents EXCEPT ![id].source = fixture[id], ![id].metrics = report]
      /\ results' = Append(results, [id |-> id, status |-> report, run |-> run])
      /\ at' = at + 1 /\ report' = "none"
      /\ UNCHANGED <<remote, fixture, outputs, run, stage, listed, samples, manifest, work, parsed, faults>>
  BY DEF Pdf!ReportFailure, Pdf!Result
<1>2. at <= Len(samples) /\ work = "off"
  BY <1>1 DEF PdfInv, AtWork
<1>3. id \in Pdf!Fixtures
  BY <1>2, CurrentSample
<1>4. report \in Statuses /\ report # "ok" /\ fixture[id] \in Files /\ documents \in [Pdf!Fixtures -> Slots]
  BY <1>1, <1>3 DEF PdfInv, PdfTypes, Statuses
<1> HIDE DEF id
<1>5. /\ documents' \in [Pdf!Fixtures -> Slots]
      /\ \A f \in Pdf!Fixtures : f # id => documents'[f] = documents[f]
      /\ documents'[id].source = fixture[id] /\ documents'[id].metrics = report
  BY <1>1, <1>3, <1>4 DEF Slots
<1>6. /\ results' \in Seq([id : Pdf!Fixtures, status : Statuses, run : Nat])
      /\ at' \in 1..Len(samples') + 1
      /\ Reported'
  BY <1>1, <1>2, <1>4, <1>5, ResultAdded DEF id
<1>7. PdfTypes'
  BY <1>1, <1>5, <1>6 DEF PdfInv, PdfTypes, Pdf!Fixtures
<1>8. SamplesPicked' /\ Downloaded'
  BY <1>1, FilesStay
<1>9. AtWork'
  BY <1>1, <1>2 DEF AtWork
<1> QED BY <1>6, <1>7, <1>8, <1>9 DEF PdfInv

\* A worker that failed, or that took too long, is off; the parent reports it.
LEMMA WorkerEndsKeeps ==
    ASSUME PdfInv, Pdf!WorkerFailed \/ Pdf!TimesOut PROVE PdfInv'
<1>1. /\ work # "off" /\ work' = "off" /\ report' \in {"parse_error", "timeout"}
      /\ UNCHANGED <<remote, fixture, documents, outputs, run, stage, listed, samples, manifest, at,
                     results, parsed>>
  BY DEF Pdf!WorkerFailed, Pdf!TimesOut
<1>2. stage = "validate" /\ at <= Len(samples)
  BY <1>1 DEF PdfInv, AtWork
<1>3. PdfTypes'
  BY <1>1 DEF PdfInv, PdfTypes, Pdf!Fixtures
<1>4. SamplesPicked' /\ Downloaded'
  BY <1>1, <1>2, FilesStay
<1>5. AtWork'
  BY <1>1, <1>2 DEF AtWork
<1>6. Reported'
  BY <1>1, <1>2, ResultsStay
<1> QED BY <1>3, <1>4, <1>5, <1>6 DEF PdfInv

LEMMA WriteSummaryKeeps ==
    ASSUME PdfInv, Pdf!WriteSummary PROVE PdfInv'
<1>1. /\ stage = "validate" /\ at > Len(samples) /\ stage' = "done"
      /\ UNCHANGED <<remote, fixture, documents, outputs, run, listed, samples, manifest, at, results,
                     work, parsed, report, faults>>
  BY DEF Pdf!WriteSummary
<1>2. /\ Len(samples) \in Nat /\ at \in 1..Len(samples) + 1 /\ Len(results) = at - 1
      /\ work = "off" /\ report = "none"
  <2>1. Len(samples) \in Nat /\ at \in 1..Len(samples) + 1 /\ Len(results) = at - 1
    BY <1>1, SampleIds DEF PdfInv, PdfTypes, Reported
  <2>2. ~(at <= Len(samples))
    BY <1>1, <2>1
  <2> QED BY <2>1, <2>2 DEF PdfInv, AtWork
<1>3. PdfTypes'
  BY <1>1 DEF PdfInv, PdfTypes, Pdf!Fixtures
<1>4. SamplesPicked'
  BY <1>1, SamplesStay DEF PdfInv
<1>5. Downloaded'
  BY <1>1 DEF Downloaded, Pdf!FixturesRight
<1>6. AtWork'
  BY <1>1, <1>2 DEF AtWork
<1>7. Reported'
  <2>1. at = Len(samples) + 1
    BY <1>1, <1>2
  <2> QED BY <1>1, <1>2, <2>1 DEF PdfInv, Reported, Pdf!ResultsRight, Pdf!IdOf
<1> QED BY <1>3, <1>4, <1>5, <1>6, <1>7 DEF PdfInv

LEMMA PdfKeeps == PdfInv /\ [UploadsNext]_allVars => PdfInv'
<1> SUFFICES ASSUME PdfInv, [UploadsNext]_allVars PROVE PdfInv'
  OBVIOUS
<1>1. CASE UNCHANGED pdfVars
  BY <1>1, PdfStays
<1>2. CASE Pdf!Next
  <2>1. CASE Pdf!Progress
    BY <2>1, ListPdfsKeeps, SelectSampleKeeps, DownloadSampleKeeps, WriteManifestKeeps,
       StartWorkerKeeps, WorkerParseKeeps, WorkerPutKeeps, WorkerRecordKeeps, CollectKeeps,
       WorkerEndsKeeps, ReportFailureKeeps, WriteSummaryKeeps DEF Pdf!Progress
  <2>2. CASE Pdf!TimesOut
    BY <2>2, WorkerEndsKeeps
  <2>3. CASE Pdf!StartAgain
    BY <2>3, StartAgainKeeps
  <2>4. CASE \E served \in BOOLEAN : Pdf!WorkerPutFails(served)
    BY <2>4, WorkerPutFailsKeeps
  <2>5. CASE \E torn \in BOOLEAN : Pdf!Interrupted(torn)
    BY <2>5, InterruptedKeeps
  <2>6. CASE \E k \in Objects, c \in DOMAIN Size \ {Torn} : Pdf!Replaced(k, c)
    BY <2>6, ReplacedKeeps
  <2> QED BY <1>2, <2>1, <2>2, <2>3, <2>4, <2>5, <2>6 DEF Pdf!Next
<1> QED BY <1>1, <1>2 DEF UploadsNext, UploadStep, PdfStep, ScanStep, allVars

LEMMA GivesReport == PdfInv => ReportRight
<1> SUFFICES ASSUME PdfInv PROVE ReportRight
  OBVIOUS
<1>1. Pdf!TypeOK
  BY DEF PdfInv, PdfTypes, Pdf!TypeOK, Files
<1>2. Pdf!SamplesDistinct
  BY DEF PdfInv, SamplesPicked, Pdf!SamplesDistinct
<1>3. Pdf!FixturesRight /\ Pdf!ResultsRight
  BY DEF PdfInv, Downloaded, Reported
<1>4. stage = "done" => Len(results) = Len(samples)
  BY SampleIds DEF PdfInv, Reported
<1> QED BY <1>1, <1>2, <1>3, <1>4 DEF ReportRight, Pdf!ReportRight

\* Whatever the objects, the bands and the failures, and however often it is
\* interrupted and started again, the report of a size validation agrees with
\* its files, its workers and the bucket (validate_pdf_clic_size_samples.py).
THEOREM ReportsAreRight == UploadsSpec => []ReportRight
<1>1. UploadsInit => PdfInv
  BY PdfBegins DEF UploadsInit
<1> QED BY <1>1, PdfKeeps, GivesReport, PTL DEF UploadsSpec

-----------------------------------------------------------------------------
(* The invariant of a sample scan *)

Documents == DOMAIN store
Content(d) == store[d].content
\* The samples of a bucket; what is sampled, up to a bucket and in all, and what
\* waits to be.
Got(b) == {i \in DOMAIN sampled : sampled[i].bucket = b}
TakenUpto(b) == {Content(sampled[i].doc) : i \in {i \in DOMAIN sampled : sampled[i].bucket <= b}}
Taken == {Content(sampled[i].doc) : i \in DOMAIN sampled}
Waiting == {Content(chosen[i]) : i \in DOMAIN chosen}
Evaluated == [bucket : 1..3, index : Nat, doc : Documents, ok : BOOLEAN]
Labels == {"diagram", "asset", "table"}
Targeted == [bucket : 1..3, index : Nat, label : Labels, slot : (0..3) \X Labels]

ScanTypes ==
    /\ store \in Seq(ToSet(store))
    /\ step \in {"read", "validate", "screenshots", "report", "done", "failed"}
    /\ size \in 1..3
    /\ candidates \in Seq(Documents)
    /\ chosen \in Seq(Documents)
    /\ sampled \in Seq(Evaluated)
    /\ targets \in Seq(Targeted)
    /\ shots \in Seq([doc : Documents, label : Labels])
    /\ driver \in {"off", "starting", "up"} /\ session \in BOOLEAN

\* No content is sampled twice, and those seen are sampled or wait to be.
Unique ==
    /\ seen = Taken \cup Waiting
    /\ \A i \in DOMAIN sampled, j \in DOMAIN chosen : Content(sampled[i].doc) # Content(chosen[j])
    /\ \A i, j \in DOMAIN sampled : Content(sampled[i].doc) = Content(sampled[j].doc) => i = j
    /\ \A i, j \in DOMAIN chosen : Content(chosen[i]) = Content(chosen[j]) => i = j

\* The samples of a bucket are numbered.
Numbered ==
    /\ \A i \in DOMAIN sampled :
          /\ sampled[i].bucket <= size
          /\ sampled[i].bucket = size => step # "read" /\ sampled[i].index <= Cardinality(Got(size))
    /\ \A i, j \in DOMAIN sampled :
          sampled[i].bucket = sampled[j].bucket /\ sampled[i].index = sampled[j].index => i = j

\* A bucket has as many samples as wanted, or no content is left.
Filled ==
    /\ step \in {"read", "validate"} => Len(chosen) <= PerBucket
    /\ step \in {"screenshots", "report", "done"} => size = 3 /\ chosen = <<>>
    /\ Len(store) >= PerBucket =>
          /\ step = "read" => \A d \in Documents : d \in ToSet(candidates) \/ Content(d) \in seen
          /\ step = "validate" =>
                \/ Cardinality(Got(size)) + Len(chosen) = PerBucket
                \/ Scan!Contents \subseteq seen
          /\ \A b \in 1..3 : b < size \/ step \in {"screenshots", "report", "done"} =>
                \/ Cardinality(Got(b)) = PerBucket
                \/ Scan!Contents = TakenUpto(b)

\* What a screenshot is to be taken of is a result that shows it.
Aims(t) ==
    \E i \in DOMAIN sampled :
        /\ sampled[i].bucket = t.bucket /\ sampled[i].index = t.index
        /\ sampled[i].ok /\ t.label \in store[sampled[i].doc].kinds
Shots ==
    /\ \A i \in DOMAIN targets : Aims(targets[i])
    /\ \A i \in DOMAIN shots :
          /\ shots[i].label \in store[shots[i].doc].kinds
          /\ \E s \in DOMAIN sampled : sampled[s].doc = shots[i].doc /\ sampled[s].ok
    /\ step # "screenshots" => driver = "off"
    /\ driver # "up" => ~session
    /\ step \in {"read", "validate", "failed"} => targets = <<>> /\ shots = <<>>
    /\ step = "report" /\ targets # <<>> => warned

ScanInv == ScanTypes /\ Unique /\ Numbered /\ Filled /\ Shots

-----------------------------------------------------------------------------
(* The order of the candidates *)

LEMMA ScanOperators ==
    /\ \A s : Scan!Cardinality(s) = Cardinality(s)
    /\ \A s : Scan!ToSet(s) = ToSet(s)
    /\ \A s : Scan!Max(s) = Max(s)
BY DEF Scan!Cardinality, Cardinality, Scan!ToSet, ToSet, Scan!Max, Max

\* What a pass over the documents keeps, and what it makes of one of them.
Lists == [list : Seq(Documents), groups : SUBSET {store[d].group : d \in Documents},
          families : SUBSET {store[d].family : d \in Documents}]
Passed(pass, acc, d) == IF Scan!Wanted(pass, acc, d) THEN Scan!Added(acc, d) ELSE acc
PassSteps(pass, order) == [k \in 1..Len(order) |-> [v \in Lists |-> Passed(pass, v, order[k])]]

LEMMA PassedIn ==
    ASSUME NEW pass, NEW v \in Lists, NEW d \in Documents
    PROVE  /\ Passed(pass, v, d) \in Lists
           /\ ToSet(v.list) \subseteq ToSet(Passed(pass, v, d).list)
           /\ pass = 3 => d \in ToSet(Passed(pass, v, d).list)
<1>1. v.list \in Seq(Documents) /\ Len(v.list) \in Nat /\ DOMAIN v.list = 1..Len(v.list)
  BY DEF Lists
<1> DEFINE l == v.list  m == Len(l)  a == Append(l, d)
<1>2. Scan!Added(v, d) \in Lists /\ Scan!Added(v, d).list = a
  <2>1. a \in Seq(Documents)
    BY <1>1
  <2>2. /\ v.groups \cup {store[d].group} \in SUBSET {store[e].group : e \in Documents}
        /\ v.families \cup {store[d].family} \in SUBSET {store[e].family : e \in Documents}
    BY DEF Lists
  <2> HIDE DEF a
  <2>3. Scan!Added(v, d) = [list |-> a, groups |-> v.groups \cup {store[d].group},
                            families |-> v.families \cup {store[d].family}]
    BY DEF Scan!Added, a
  <2> QED BY <2>1, <2>2, <2>3 DEF Lists
<1>3. ToSet(l) \subseteq ToSet(a) /\ d \in ToSet(a)
  <2>1. /\ DOMAIN a = 1..m + 1 /\ a[m + 1] = d /\ \A i \in 1..m : a[i] = l[i]
        /\ m \in Nat /\ DOMAIN l = 1..m
    BY <1>1
  <2> HIDE DEF a, m, l
  <2>2. m + 1 \in 1..m + 1 /\ \A i \in 1..m : i \in 1..m + 1
    BY <2>1
  <2> QED BY <2>1, <2>2 DEF ToSet
<1>4. pass = 3 /\ ~Scan!Wanted(pass, v, d) => d \in ToSet(l)
  BY DEF Scan!Wanted, ToSet
<1> HIDE DEF a, l
<1>5. CASE Scan!Wanted(pass, v, d)
  BY <1>2, <1>3, <1>5 DEF Passed, l
<1>6. CASE ~Scan!Wanted(pass, v, d)
  BY <1>4, <1>6 DEF Passed, l
<1> QED BY <1>5, <1>6

\* A pass goes through the documents one by one.
LEMMA PassTrace ==
    ASSUME NEW pass, NEW acc \in Lists, NEW order \in Seq(Documents)
    PROVE  \E p : /\ FoldTrace(p, Len(order), Lists, acc, PassSteps(pass, order))
                  /\ Scan!Pass(pass, acc, order) = p[Len(order)]
<1> DEFINE n == Len(order)
           turn == PassSteps(pass, order)
           eq(h) == [t \in SUBSET (DOMAIN order) |->
                        IF t = {} THEN acc ELSE Passed(pass, h[t \ {Scan!Max(t)}], order[Scan!Max(t)])]
           h == CHOOSE h : h = eq(h)
           p == [k \in 0..n |-> h[1..k]]
<1>0. n \in Nat /\ DOMAIN order = 1..n /\ \A k \in 1..n : order[k] \in Documents
  OBVIOUS
<1>1. \A k \in 1..n : \A v \in Lists : Passed(pass, v, order[k]) \in Lists
  BY <1>0, PassedIn
<1>2. turn \in FoldSteps(n, Lists) /\ turn = [k \in 1..n |-> [v \in Lists |-> Passed(pass, v, order[k])]]
  BY <1>1 DEF FoldSteps, PassSteps
<1>3. PICK f : FoldsSets(f, n, Lists, acc, turn)
  <2> HIDE DEF turn, n
  <2> QED BY <1>0, <1>2, SetsFold
<1>4. Scan!Pass(pass, acc, order) = h[DOMAIN order]
  BY DEF Scan!Pass, Scan!FoldLeft, Scan!MapThenFoldSet, Passed
<1>5. f = eq(f)
  <2>1. f \in [SUBSET (1..n) -> Lists]
    BY <1>3 DEF FoldsSets
  <2>2. ASSUME NEW t \in SUBSET (1..n), t # {}
        PROVE  turn[Max(t)][f[t \ {Max(t)}]] = Passed(pass, f[t \ {Scan!Max(t)}], order[Scan!Max(t)])
    <3>1. Max(t) \in 1..n
      <4> HIDE DEF n
      <4> QED BY <1>0, <2>2, MaxIn
    <3>2. f[t \ {Max(t)}] \in Lists
      BY <2>1
    <3> HIDE DEF turn
    <3> QED BY <1>2, <3>1, <3>2, ScanOperators
  <2>3. f = [t \in SUBSET (1..n) |-> IF t = {} THEN acc ELSE turn[Max(t)][f[t \ {Max(t)}]]]
    BY <1>3 DEF FoldsSets
  <2> HIDE DEF turn, n
  <2> QED BY <1>0, <2>2, <2>3
<1>6. h = eq(h)
  <2> HIDE DEF eq
  <2> QED BY <1>5
<1> HIDE DEF h
<1>7. \A t \in SUBSET (1..n) :
          h[t] = IF t = {} THEN acc ELSE Passed(pass, h[t \ {Scan!Max(t)}], order[Scan!Max(t)])
  <2> HIDE DEF n
  <2> QED BY <1>0, <1>6
<1>8. h[{}] = acc
  <2>1. {} \in SUBSET (1..n)
    OBVIOUS
  <2> QED BY <1>7, <2>1
<1>9. ASSUME NEW k \in 1..n, h[1..k - 1] \in Lists PROVE h[1..k] = turn[k][h[1..k - 1]]
  <2>1. 1..k \in SUBSET (1..n) /\ 1..k # {} /\ 1..k \ {k} = 1..k - 1 /\ Scan!Max(1..k) = k
    <3> HIDE DEF n, h
    <3> QED BY <1>0, UptoLast, ScanOperators
  <2>2. h[1..k] = Passed(pass, h[1..k - 1], order[k])
    <3> HIDE DEF n
    <3> QED BY <1>7, <2>1
  <2>3. turn[k][h[1..k - 1]] = Passed(pass, h[1..k - 1], order[k])
    <3> HIDE DEF n, turn
    <3> QED BY <1>2, <1>9
  <2> QED BY <2>2, <2>3
<1>10. FoldTrace(p, n, Lists, acc, turn)
  <2> HIDE DEF turn, n
  <2>1. PrefixFold(h, n, Lists, acc, turn)
    BY <1>0, <1>2, <1>8, <1>9 DEF PrefixFold
  <2> QED BY ONLY <2>1, FoldPrefixes
<1>11. n \in 0..n /\ p[n] = h[DOMAIN order]
  BY <1>0
<1> HIDE DEF p
<1> QED BY <1>4, <1>10, <1>11

\* A pass keeps what is there, and the last one has every document.
LEMMA PassKeeps ==
    ASSUME NEW pass, NEW acc \in Lists, NEW order \in Seq(Documents)
    PROVE  /\ Scan!Pass(pass, acc, order) \in Lists
           /\ pass = 3 => ToSet(order) \subseteq ToSet(Scan!Pass(pass, acc, order).list)
<1> DEFINE n == Len(order)  turn == PassSteps(pass, order)
<1>0. n \in Nat /\ DOMAIN order = 1..n /\ \A k \in 1..n : order[k] \in Documents
  OBVIOUS
<1>1. PICK p : FoldTrace(p, n, Lists, acc, turn) /\ Scan!Pass(pass, acc, order) = p[n]
  BY PassTrace
<1> HIDE DEF n
<1>2. p \in [0..n -> Lists] /\ \A k \in 1..n : p[k] = Passed(pass, p[k - 1], order[k])
  <2>1. p \in [0..n -> Lists] /\ \A k \in 1..n : p[k] = turn[k][p[k - 1]]
    BY <1>1 DEF FoldTrace
  <2>2. ASSUME NEW k \in 1..n PROVE p[k] = Passed(pass, p[k - 1], order[k])
    <3>1. p[k - 1] \in Lists
      BY <1>0, <2>1
    <3> QED BY <2>1, <3>1 DEF PassSteps, n
  <2> QED BY <2>1, <2>2
<1> DEFINE T == {k \in 0..n : pass = 3 => \A i \in 1..k : order[i] \in ToSet(p[k].list)}
<1>3. 0 \in T
  BY <1>0
<1>4. ASSUME NEW k \in 0..n - 1, k \in T PROVE k + 1 \in T
  <2>1. k + 1 \in 1..n /\ k + 1 \in 0..n /\ (k + 1) - 1 = k /\ k \in 0..n
    BY <1>0
  <2>2. p[k + 1] = Passed(pass, p[k], order[k + 1]) /\ p[k] \in Lists /\ order[k + 1] \in Documents
    BY <1>0, <1>2, <2>1
  <2>3. /\ ToSet(p[k].list) \subseteq ToSet(p[k + 1].list)
        /\ pass = 3 => order[k + 1] \in ToSet(p[k + 1].list)
    BY <2>2, PassedIn
  <2>4. \A i \in 1..k + 1 : i \in 1..k \/ i = k + 1
    BY <2>1
  <2> QED BY <1>4, <2>1, <2>3, <2>4
<1>5. 0..n \subseteq T
  <2>1. 0 \in Int /\ n \in Int
    BY <1>0
  <2> HIDE DEF T
  <2> QED BY <1>3, <1>4, <2>1, IntervalInduction
<1>6. n \in 0..n /\ n \in T
  BY <1>0, <1>5
<1>7. ToSet(order) = {order[i] : i \in 1..n}
  BY <1>0 DEF ToSet
<1> QED BY <1>1, <1>2, <1>6, <1>7

\* The candidates of a bucket are documents, and all of them unless there are
\* fewer than a bucket wants.
LEMMA CandidatesAre ==
    ASSUME store \in Seq(ToSet(store)), NEW b \in 1..3
    PROVE  /\ Scan!Candidates(b) \in Seq(Documents)
           /\ Len(store) >= PerBucket => ToSet(Scan!Candidates(b)) = Documents
<1> DEFINE n == Len(store)
           middle == (n - PerBucket) \div 2
           all == Scan!Upto(n)
           turned == SubSeq(all, middle + 1, n) \o Scan!Upto(middle)
           back == [i \in 1..n |-> n + 1 - i]
           none == [list |-> <<>>, groups |-> {}, families |-> {}]
<1>1. n \in Nat /\ Documents = 1..n /\ PerBucket \in Nat
  BY ScanAssumption DEF Documents, Scan!StoresAssumption
<1>2. ASSUME NEW order \in Seq(Documents), Documents \subseteq ToSet(order)
      PROVE  Scan!Bump(order) \in Seq(Documents) /\ ToSet(Scan!Bump(order)) = Documents
  <2>1. none \in Lists
    BY DEF Lists
  <2> DEFINE one == Scan!Pass(1, none, order)  two == Scan!Pass(2, one, order)  three == Scan!Pass(3, two, order)
  <2>2. one \in Lists
    BY <2>1, PassKeeps
  <2> HIDE DEF one
  <2>3. two \in Lists
    BY <2>2, PassKeeps
  <2> HIDE DEF two
  <2>4. three \in Lists /\ ToSet(order) \subseteq ToSet(three.list)
    BY <2>3, PassKeeps
  <2>5. Scan!Bump(order) = three.list
    BY DEF Scan!Bump, one, two
  <2> HIDE DEF three
  <2>6. three.list \in Seq(Documents)
    BY <2>4 DEF Lists
  <2>7. ToSet(three.list) \subseteq Documents
    BY <2>6 DEF ToSet
  <2> QED BY <1>2, <2>4, <2>5, <2>6, <2>7
<1>3. all \in Seq(Documents) /\ Len(all) = n /\ \A i \in 1..n : all[i] = i
  BY <1>1 DEF Scan!Upto
<1>4. Documents \subseteq ToSet(all)
  BY <1>1 DEF Scan!Upto, ToSet
<1>5. back \in Seq(Documents) /\ Documents \subseteq ToSet(back)
  <2>1. \A i \in 1..n : n + 1 - i \in 1..n /\ n + 1 - (n + 1 - i) = i
    BY <1>1
  <2>2. back \in Seq(Documents) /\ DOMAIN back = 1..n /\ \A i \in 1..n : back[i] = n + 1 - i
    BY <1>1, <2>1
  <2> HIDE DEF back
  <2> QED BY <1>1, <2>1, <2>2 DEF ToSet
<1>6. ASSUME n >= PerBucket PROVE turned \in Seq(Documents) /\ Documents \subseteq ToSet(turned)
  <2>1. middle \in 0..n
    BY <1>1, <1>6
  <2> DEFINE late == SubSeq(all, middle + 1, n)  early == Scan!Upto(middle)
  <2>2. early \in Seq(Documents) /\ Len(early) = middle /\ \A i \in 1..middle : early[i] = i
    BY <1>1, <2>1 DEF Scan!Upto
  <2>3. late \in Seq(Documents) /\ Len(late) = n - middle /\ \A i \in 1..n - middle : late[i] = middle + i
    <3> HIDE DEF all, middle
    <3>1. late \in Seq(Documents) /\ Len(late) = n - middle
      BY <1>1, <1>3, <2>1, SMTT(30)
    <3>2. ASSUME NEW i \in 1..n - middle PROVE late[i] = middle + i
      <4>1. late[i] = all[(middle + 1) + i - 1]
        BY <1>1, <1>3, <2>1
      <4>2. (middle + 1) + i - 1 = middle + i /\ middle + i \in 1..n
        BY <1>1, <2>1
      <4> QED BY <1>3, <4>1, <4>2
    <3> QED BY <3>1, <3>2
  <2>6. turned = late \o early
    OBVIOUS
  <2> HIDE DEF late, early, middle, turned
  <2>4. turned \in Seq(Documents) /\ ToSet(turned) = ToSet(late) \cup ToSet(early)
    BY <2>2, <2>3, <2>6, ToSetConcat
  <2>5. ASSUME NEW d \in Documents PROVE d \in ToSet(late) \cup ToSet(early)
    <3>1. CASE d <= middle
      <4>1. d \in DOMAIN early /\ early[d] = d
        BY <1>1, <2>1, <2>2, <3>1
      <4> QED BY <4>1 DEF ToSet
    <3>2. CASE ~(d <= middle)
      <4>1. d - middle \in 1..n - middle /\ middle + (d - middle) = d
        BY <1>1, <2>1, <3>2
      <4>2. d - middle \in DOMAIN late /\ late[d - middle] = d
        BY <2>3, <4>1
      <4> QED BY <4>2 DEF ToSet
    <3> QED BY <3>1, <3>2
  <2> QED BY <2>4, <2>5
<1>7. Scan!Candidates(b) = CASE n < PerBucket -> IF b = 1 THEN all ELSE <<>>
                             [] n >= PerBucket /\ b = 1 -> Scan!Bump(all)
                             [] n >= PerBucket /\ b = 2 -> Scan!Bump(turned)
                             [] OTHER -> Scan!Bump(back)
  BY DEF Scan!Candidates
<1> HIDE DEF all, turned, back
<1>8. CASE n < PerBucket
  <2>1. ~(n >= PerBucket)
    BY <1>1, <1>8
  <2>2. Scan!Candidates(b) = IF b = 1 THEN all ELSE <<>>
    BY <1>7, <1>8, <2>1
  <2>3. Scan!Candidates(b) \in Seq(Documents)
    <3>1. CASE b = 1
      BY <1>3, <2>2, <3>1
    <3>2. CASE b # 1
      <4>1. Scan!Candidates(b) = <<>>
        BY <2>2, <3>2
      <4> QED BY <4>1
    <3> QED BY <3>1, <3>2
  <2> QED BY <2>1, <2>3
<1>9. CASE ~(n < PerBucket)
  <2>1. n >= PerBucket
    BY <1>1, <1>9
  <2>2. \/ b = 1 /\ Scan!Candidates(b) = Scan!Bump(all)
        \/ b = 2 /\ Scan!Candidates(b) = Scan!Bump(turned)
        \/ b = 3 /\ Scan!Candidates(b) = Scan!Bump(back)
    BY <1>7, <1>9, <2>1
  <2> QED BY <1>2, <1>3, <1>4, <1>5, <1>6, <2>1, <2>2
<1> QED BY <1>8, <1>9

-----------------------------------------------------------------------------
(* The targets of the screenshots *)

\* What WithTargets keeps: targets that aim at results.
Aimed == {t \in Targeted : Aims(t)}

LEMMA WithTargetIn ==
    ASSUME ScanTypes, NEW v \in Seq(Aimed), NEW i \in DOMAIN sampled, NEW label \in Labels
    PROVE  Scan!WithTarget(v, sampled[i], label) \in Seq(Aimed)
<1> DEFINE s == sampled[i]
           t == [bucket |-> s.bucket, index |-> s.index, label |-> label, slot |-> Scan!Slot(s, label)]
           Adds == s.ok /\ label \in store[s.doc].kinds /\ \A k \in DOMAIN v : v[k].slot # Scan!Slot(s, label)
<1>1. s \in Evaluated
  BY DEF ScanTypes
<1>2. t \in Targeted
  <2>1. Scan!Slot(s, label) \in (0..3) \X Labels
    <3>1. (IF label = "table" THEN s.bucket ELSE 0) \in 0..3
      BY <1>1 DEF Evaluated
    <3> QED BY <3>1 DEF Scan!Slot
  <2> HIDE DEF s
  <2> QED BY <1>1, <2>1 DEF Targeted, Evaluated
<1>3. Adds => Aims(t)
  BY DEF Aims
<1>4. Scan!WithTarget(v, s, label) = IF Adds THEN Append(v, t) ELSE v
  BY DEF Scan!WithTarget
<1> HIDE DEF s, t, Adds
<1>5. CASE Adds
  <2>1. t \in Aimed
    BY <1>2, <1>3, <1>5 DEF Aimed
  <2>2. Append(v, t) \in Seq(Aimed)
    BY <2>1
  <2> QED BY <1>4, <1>5, <2>2 DEF s
<1>6. CASE ~Adds
  BY <1>4, <1>6 DEF s
<1> QED BY <1>5, <1>6

LEMMA TargetsAim ==
    ASSUME ScanTypes
    PROVE  Scan!Targets(sampled) \in Seq(Aimed)
<1> DEFINE n == Len(sampled)
           V == Seq(Aimed)
           first == <<>>
           turn == [k \in 1..n |-> [v \in V |-> Scan!WithTargets(v, sampled[k])]]
           eq(h) == [t \in SUBSET (DOMAIN sampled) |->
                        IF t = {} THEN first ELSE Scan!WithTargets(h[t \ {Scan!Max(t)}], sampled[Scan!Max(t)])]
           h == CHOOSE h : h = eq(h)
           p == [k \in 0..n |-> h[1..k]]
<1>0. n \in Nat /\ DOMAIN sampled = 1..n /\ first \in V
  BY DEF ScanTypes
<1>1. \A k \in 1..n : \A v \in V : Scan!WithTargets(v, sampled[k]) \in V
  <2> SUFFICES ASSUME NEW k \in 1..n, NEW v \in V PROVE Scan!WithTargets(v, sampled[k]) \in V
    OBVIOUS
  <2> DEFINE s == sampled[k]
             one == Scan!WithTarget(v, s, "diagram")
             two == Scan!WithTarget(one, s, "asset")
             three == Scan!WithTarget(two, s, "table")
  <2>1. one \in V
    BY <1>0, WithTargetIn DEF Labels
  <2> HIDE DEF one
  <2>2. two \in V
    BY <1>0, <2>1, WithTargetIn DEF Labels
  <2> HIDE DEF two
  <2>3. three \in V
    BY <1>0, <2>2, WithTargetIn DEF Labels
  <2>4. Scan!WithTargets(v, s) = three
    BY DEF Scan!WithTargets, one, two
  <2> QED BY <2>3, <2>4
<1>2. turn \in FoldSteps(n, V)
  <2> HIDE DEF n, V
  <2> QED BY <1>1 DEF FoldSteps
<1>3. PICK f : FoldsSets(f, n, V, first, turn)
  <2> HIDE DEF turn, n, V, first
  <2> QED BY <1>0, <1>2, SetsFold
<1>4. Scan!Targets(sampled) = h[DOMAIN sampled]
  BY DEF Scan!Targets, Scan!FoldLeft, Scan!MapThenFoldSet
<1> HIDE DEF V, first
<1>5. f = eq(f)
  <2>1. f \in [SUBSET (1..n) -> V]
    BY <1>3 DEF FoldsSets
  <2>2. ASSUME NEW t \in SUBSET (1..n), t # {}
        PROVE  turn[Max(t)][f[t \ {Max(t)}]] = Scan!WithTargets(f[t \ {Scan!Max(t)}], sampled[Scan!Max(t)])
    <3>1. Max(t) \in 1..n
      <4> HIDE DEF n
      <4> QED BY <1>0, <2>2, MaxIn
    <3>2. f[t \ {Max(t)}] \in V
      BY <2>1
    <3> QED BY <3>1, <3>2, ScanOperators
  <2>3. f = [t \in SUBSET (1..n) |-> IF t = {} THEN first ELSE turn[Max(t)][f[t \ {Max(t)}]]]
    BY <1>3 DEF FoldsSets
  <2> HIDE DEF turn, n
  <2> QED BY <1>0, <2>2, <2>3
<1>6. h = eq(h)
  <2> HIDE DEF eq
  <2> QED BY <1>5
<1> HIDE DEF h
<1>7. \A t \in SUBSET (1..n) :
          h[t] = IF t = {} THEN first ELSE Scan!WithTargets(h[t \ {Scan!Max(t)}], sampled[Scan!Max(t)])
  <2> HIDE DEF n
  <2> QED BY <1>0, <1>6
<1>8. h[{}] = first
  <2>1. {} \in SUBSET (1..n)
    OBVIOUS
  <2> QED BY <1>7, <2>1
<1>9. ASSUME NEW k \in 1..n, h[1..k - 1] \in V PROVE h[1..k] = turn[k][h[1..k - 1]]
  <2>1. 1..k \in SUBSET (1..n) /\ 1..k # {} /\ 1..k \ {k} = 1..k - 1 /\ Scan!Max(1..k) = k
    <3> HIDE DEF n, h
    <3> QED BY <1>0, UptoLast, ScanOperators
  <2>2. h[1..k] = Scan!WithTargets(h[1..k - 1], sampled[k])
    <3> HIDE DEF n
    <3> QED BY <1>7, <2>1
  <2>3. turn[k][h[1..k - 1]] = Scan!WithTargets(h[1..k - 1], sampled[k])
    <3> HIDE DEF n
    <3> QED BY <1>9
  <2> QED BY <2>2, <2>3
<1>10. FoldTrace(p, n, V, first, turn)
  <2> HIDE DEF turn, n
  <2>1. PrefixFold(h, n, V, first, turn)
    BY <1>0, <1>2, <1>8, <1>9 DEF PrefixFold
  <2> QED BY ONLY <2>1, FoldPrefixes
<1>11. p \in [0..n -> V]
  <2> HIDE DEF p, n, turn
  <2> QED BY <1>10 DEF FoldTrace
<1>12. n \in 0..n /\ p[n] = h[DOMAIN sampled]
  BY <1>0
<1> HIDE DEF p, n
<1> QED BY <1>4, <1>11, <1>12 DEF V

-----------------------------------------------------------------------------
(* A sample scan, step by step *)

LEMMA HeadTail ==
    ASSUME NEW A, NEW s \in Seq(A), s # <<>>
    PROVE  /\ Head(s) \in A /\ Tail(s) \in Seq(A) /\ Len(s) \in Nat \ {0} /\ Len(Tail(s)) = Len(s) - 1
           /\ DOMAIN s = 1..Len(s) /\ Head(s) = s[1] /\ DOMAIN Tail(s) = 1..Len(s) - 1
           /\ \A i \in 1..Len(s) - 1 : Tail(s)[i] = s[i + 1]
           /\ ToSet(s) = {Head(s)} \cup ToSet(Tail(s))
<1> DEFINE n == Len(s)  t == Tail(s)
<1>1. /\ n \in Nat \ {0} /\ DOMAIN s = 1..n /\ Head(s) = s[1] /\ s[1] \in A
      /\ t \in Seq(A) /\ Len(t) = n - 1 /\ DOMAIN t = 1..n - 1
      /\ \A i \in 1..n - 1 : t[i] = s[i + 1]
  <2>1. n \in Nat \ {0}
    BY EmptySeq
  <2> QED BY <2>1
<1> HIDE DEF n, t
<1>2. /\ 1 \in 1..n /\ \A i \in 1..n - 1 : i + 1 \in 1..n
      /\ \A i \in 1..n : i = 1 \/ (i - 1 \in 1..n - 1 /\ (i - 1) + 1 = i)
  BY <1>1
<1>3. ToSet(s) = {s[1]} \cup ToSet(t)
  <2>1. ASSUME NEW x \in ToSet(s) PROVE x \in {s[1]} \cup ToSet(t)
    <3>1. PICK i \in 1..n : x = s[i]
      BY <1>1, <2>1 DEF ToSet
    <3>2. CASE i = 1
      BY <3>1, <3>2
    <3>3. CASE i # 1
      <4>1. i - 1 \in DOMAIN t /\ x = t[i - 1]
        BY <1>1, <1>2, <3>1, <3>3
      <4> QED BY <4>1 DEF ToSet
    <3> QED BY <3>2, <3>3
  <2>2. ASSUME NEW x \in {s[1]} \cup ToSet(t) PROVE x \in ToSet(s)
    <3>1. CASE x = s[1]
      BY <1>1, <1>2, <3>1 DEF ToSet
    <3>2. CASE x \in ToSet(t)
      <4>1. PICK i \in 1..n - 1 : x = t[i]
        BY <1>1, <3>2 DEF ToSet
      <4> QED BY <1>1, <1>2, <4>1 DEF ToSet
    <3> QED BY <2>2, <3>1, <3>2
  <2> QED BY <2>1, <2>2
<1> QED BY <1>1, <1>3 DEF n, t

\* What a step leaves that takes no sample.
LEMMA SamplesKept ==
    ASSUME ScanInv, UNCHANGED <<store, size, chosen, seen, sampled>>
    PROVE  /\ Documents' = Documents /\ Taken' = Taken /\ Waiting' = Waiting /\ Scan!Contents' = Scan!Contents
           /\ \A b \in 1..3 : Got(b)' = Got(b) /\ TakenUpto(b)' = TakenUpto(b)
           /\ Unique'
           /\ (step' = "read" => step = "read") => Numbered'
<1>1. /\ Documents' = Documents /\ Taken' = Taken /\ Waiting' = Waiting /\ Scan!Contents' = Scan!Contents
  BY DEF Documents, Taken, Waiting, Content, Scan!Contents
<1>2. \A b \in 1..3 : Got(b)' = Got(b) /\ TakenUpto(b)' = TakenUpto(b)
  BY DEF Got, TakenUpto, Content
<1>3. Unique'
  BY <1>1 DEF ScanInv, Unique, Content
<1>4. (step' = "read" => step = "read") => Numbered'
  <2>1. Got(size)' = Got(size)
    BY <1>2 DEF ScanInv, ScanTypes
  <2> QED BY <2>1 DEF ScanInv, Numbered
<1> QED BY <1>1, <1>2, <1>3, <1>4

LEMMA ScanStays ==
    ASSUME ScanInv, UNCHANGED scanVars PROVE ScanInv'
<1>1. UNCHANGED <<store, step, size, candidates, chosen, seen, skipped, sampled, targets, driver,
                  session, shots, warned>>
  BY DEF scanVars
<1>2. /\ Documents' = Documents /\ Scan!Contents' = Scan!Contents
      /\ \A b \in 1..3 : Got(b)' = Got(b) /\ TakenUpto(b)' = TakenUpto(b)
      /\ Unique' /\ Numbered' /\ size \in 1..3 /\ Got(size)' = Got(size)
  BY <1>1, SamplesKept DEF ScanInv, ScanTypes
<1>3. ScanTypes'
  BY <1>1, <1>2 DEF ScanInv, ScanTypes, Evaluated
<1>4. Filled'
  BY <1>1, <1>2 DEF ScanInv, Filled, Content
<1>5. Shots'
  BY <1>1 DEF ScanInv, Shots, Aims
<1> QED BY <1>2, <1>3, <1>4, <1>5 DEF ScanInv

LEMMA ScanBegins == Scan!Init => ScanInv
<1> SUFFICES ASSUME Scan!Init PROVE ScanInv
  OBVIOUS
<1>1. /\ store \in Stores /\ step = "read" /\ size = 1
      /\ candidates = Scan!Candidates(1)
      /\ chosen = <<>> /\ seen = {} /\ sampled = <<>> /\ targets = <<>>
      /\ driver = "off" /\ session = FALSE /\ shots = <<>> /\ warned = FALSE
  BY DEF Scan!Init
<1>2. store \in Seq(ToSet(store))
  <2>1. store \in Seq(Scan!ToSet(store))
    BY <1>1, ScanAssumption DEF Scan!StoresAssumption
  <2> QED BY <2>1, ScanOperators
<1>3. 1 \in 1..3 /\ PerBucket \in Nat
  BY ScanAssumption DEF Scan!StoresAssumption
<1>4. /\ candidates \in Seq(Documents)
      /\ Len(store) >= PerBucket => ToSet(candidates) = Documents
  BY <1>1, <1>2, <1>3, CandidatesAre
<1>5. ScanTypes
  <2>1. /\ chosen \in Seq(Documents) /\ sampled \in Seq(Evaluated) /\ targets \in Seq(Targeted)
        /\ shots \in Seq([doc : Documents, label : Labels])
    BY <1>1
  <2> QED BY <1>1, <1>2, <1>3, <1>4, <2>1 DEF ScanTypes
<1>6. Unique
  BY <1>1 DEF Unique, Taken, Waiting
<1>7. Numbered
  BY <1>1 DEF Numbered
<1>8. Filled
  <2>1. Len(chosen) <= PerBucket /\ \A b \in 1..3 : ~(b < 1)
    BY <1>1, <1>3
  <2> QED BY <1>1, <1>4, <2>1 DEF Filled
<1>9. Shots
  BY <1>1 DEF Shots
<1> QED BY <1>5, <1>6, <1>7, <1>8, <1>9 DEF ScanInv

\* What the reading of a bucket and what comes after the buckets leave.
LEMMA AfterBuckets ==
    ASSUME ScanInv, step \in {"screenshots", "report"}, step' \in {"screenshots", "report", "done"},
           UNCHANGED <<store, size, candidates, chosen, seen, sampled>>,
           targets' \in Seq(Targeted), shots' \in Seq([doc : Documents, label : Labels]),
           driver' \in {"off", "starting", "up"}, session' \in BOOLEAN, Shots'
    PROVE  ScanInv'
<1>1. /\ Documents' = Documents /\ Scan!Contents' = Scan!Contents
      /\ \A b \in 1..3 : Got(b)' = Got(b) /\ TakenUpto(b)' = TakenUpto(b)
      /\ Unique' /\ Numbered'
  BY SamplesKept
<1>2. ScanTypes'
  BY <1>1 DEF ScanInv, ScanTypes, Evaluated
<1>3. Filled'
  BY <1>1 DEF ScanInv, Filled
<1> QED BY <1>1, <1>2, <1>3 DEF ScanInv

LEMMA ReadRawKeeps ==
    ASSUME ScanInv, Scan!ReadRaw PROVE ScanInv'
<1> DEFINE d == Head(candidates)  c == Content(d)  m == Len(chosen)
<1>1. /\ step = "read" /\ candidates # <<>> /\ m < PerBucket
      /\ \/ c \in seen /\ UNCHANGED <<seen, chosen>>
         \/ c \notin seen /\ seen' = seen \cup {c} /\ chosen' = Append(chosen, d)
      /\ candidates' = Tail(candidates)
      /\ UNCHANGED <<store, step, size, sampled, targets, driver, session, shots, warned>>
  BY DEF Scan!ReadRaw, Scan!IsDuplicate, Scan!Document, Content
<1>2. /\ d \in Documents /\ candidates' \in Seq(Documents)
      /\ ToSet(candidates) = {d} \cup ToSet(candidates')
  BY <1>1, HeadTail DEF ScanInv, ScanTypes
<1>3. m \in Nat /\ DOMAIN chosen = 1..m /\ chosen \in Seq(Documents) /\ PerBucket \in Nat
  BY ScanAssumption DEF ScanInv, ScanTypes, Scan!StoresAssumption
<1>4. /\ Documents' = Documents /\ Scan!Contents' = Scan!Contents /\ Taken' = Taken
      /\ \A b \in 1..3 : Got(b)' = Got(b) /\ TakenUpto(b)' = TakenUpto(b)
      /\ \A e : Content(e)' = Content(e)
  BY <1>1 DEF Documents, Scan!Contents, Taken, Got, TakenUpto, Content
<1>5. Shots'
  BY <1>1 DEF ScanInv, Shots, Aims
<1>6. Numbered'
  <2>1. Got(size)' = Got(size)
    BY <1>1, <1>4 DEF ScanInv, ScanTypes
  <2> QED BY <1>1, <2>1 DEF ScanInv, Numbered
<1> HIDE DEF d, c, m
<1>7. CASE c \in seen /\ UNCHANGED <<seen, chosen>>
  <2>1. ScanTypes'
    BY <1>1, <1>2, <1>4, <1>7 DEF ScanInv, ScanTypes, Evaluated
  <2>2. Unique'
    BY <1>1, <1>7, SamplesKept
  <2>3. Filled'
    <3>1. \A e \in Documents : e \in ToSet(candidates) \/ Content(e) \in seen => e \in ToSet(candidates') \/ Content(e) \in seen
      BY <1>2, <1>7 DEF c
    <3> QED BY <1>1, <1>4, <1>7, <3>1 DEF ScanInv, Filled
  <2> QED BY <1>5, <1>6, <2>1, <2>2, <2>3 DEF ScanInv
<1>8. CASE c \notin seen /\ seen' = seen \cup {c} /\ chosen' = Append(chosen, d)
  <2>1. /\ chosen' \in Seq(Documents) /\ Len(chosen') = m + 1 /\ DOMAIN chosen' = 1..m + 1
        /\ chosen'[m + 1] = d /\ \A i \in 1..m : chosen'[i] = chosen[i]
    BY <1>2, <1>3, <1>8, AppendProperties DEF m
  <2>2. \A i \in 1..m + 1 : i \in 1..m \/ i = m + 1
    BY <1>3
  <2>3. m + 1 \in 1..m + 1 /\ \A i \in 1..m : i \in 1..m + 1
    BY <1>3
  <2>4. Waiting' = Waiting \cup {c}
    <3>1. \A x : x \in Waiting <=> \E i \in 1..m : x = Content(chosen[i])
      BY <1>3 DEF Waiting
    <3>2. \A x : x \in Waiting' <=> \E i \in 1..m + 1 : x = Content(chosen'[i])
      BY <1>4, <2>1 DEF Waiting
    <3>3. ASSUME NEW x PROVE x \in Waiting' <=> x \in Waiting \/ x = c
      <4>1. ASSUME x \in Waiting' PROVE x \in Waiting \/ x = c
        <5>1. PICK i \in 1..m + 1 : x = Content(chosen'[i])
          BY <3>2, <4>1
        <5> QED BY <2>1, <2>2, <3>1, <5>1 DEF c
      <4>2. ASSUME x \in Waiting PROVE x \in Waiting'
        <5>1. PICK i \in 1..m : x = Content(chosen[i])
          BY <3>1, <4>2
        <5> QED BY <2>1, <2>3, <3>2, <5>1
      <4>3. c \in Waiting'
        BY <2>1, <2>3, <3>2 DEF c
      <4> QED BY <4>1, <4>2, <4>3
    <3> QED BY <3>3
  <2>5. /\ \A i \in DOMAIN sampled : Content(sampled[i].doc) # c
        /\ \A i \in 1..m : Content(chosen[i]) # c
    BY <1>3, <1>8 DEF ScanInv, Unique, Taken, Waiting
  <2>6. Unique'
    <3>1. seen' = Taken' \cup Waiting'
      BY <1>4, <1>8, <2>4 DEF ScanInv, Unique
    <3>2. ASSUME NEW i \in DOMAIN sampled, NEW j \in 1..m + 1
          PROVE  Content(sampled[i].doc) # Content(chosen'[j])
      <4>1. CASE j \in 1..m
        BY <1>3, <2>1, <4>1 DEF ScanInv, Unique
      <4>2. CASE j = m + 1
        BY <2>1, <2>5, <4>2 DEF c
      <4> QED BY <2>2, <4>1, <4>2
    <3>3. ASSUME NEW i \in 1..m + 1, NEW j \in 1..m + 1, Content(chosen'[i]) = Content(chosen'[j])
          PROVE  i = j
      <4>1. CASE i \in 1..m /\ j \in 1..m
        <5>1. Content(chosen[i]) = Content(chosen[j])
          BY <2>1, <3>3, <4>1
        <5> QED BY <1>3, <4>1, <5>1 DEF ScanInv, Unique
      <4>2. CASE i = m + 1 /\ j \in 1..m
        BY <2>1, <2>5, <3>3, <4>2 DEF c
      <4>3. CASE i \in 1..m /\ j = m + 1
        BY <2>1, <2>5, <3>3, <4>3 DEF c
      <4> QED BY <2>2, <4>1, <4>2, <4>3
    <3>4. \A i, j \in DOMAIN sampled : Content(sampled[i].doc) = Content(sampled[j].doc) => i = j
      BY DEF ScanInv, Unique
    <3> QED BY <1>1, <1>4, <2>1, <3>1, <3>2, <3>3, <3>4 DEF Unique
  <2>7. ScanTypes'
    BY <1>1, <1>2, <1>4, <2>1 DEF ScanInv, ScanTypes, Evaluated
  <2>8. Filled'
    <3>1. Len(chosen') <= PerBucket
      BY <1>1, <1>3, <2>1
    <3>2. \A e \in Documents : e \in ToSet(candidates) \/ Content(e) \in seen => e \in ToSet(candidates') \/ Content(e) \in seen'
      BY <1>2, <1>8 DEF c
    <3> QED BY <1>1, <1>4, <3>1, <3>2 DEF ScanInv, Filled
  <2> QED BY <1>5, <1>6, <2>6, <2>7, <2>8 DEF ScanInv
<1> QED BY <1>1, <1>7, <1>8

LEMMA ReadFailsKeeps ==
    ASSUME ScanInv, Scan!ReadFails PROVE ScanInv'
<1>1. /\ step = "read" /\ step' = "failed"
      /\ UNCHANGED <<store, size, candidates, chosen, seen, skipped, sampled, targets, driver, session,
                     shots, warned>>
  BY DEF Scan!ReadFails
<1>2. /\ Documents' = Documents /\ Scan!Contents' = Scan!Contents
      /\ \A b \in 1..3 : Got(b)' = Got(b) /\ TakenUpto(b)' = TakenUpto(b)
      /\ Unique' /\ Numbered'
  BY <1>1, SamplesKept
<1>3. ScanTypes'
  BY <1>1, <1>2 DEF ScanInv, ScanTypes, Evaluated
<1>4. Filled'
  BY <1>1, <1>2 DEF ScanInv, Filled
<1>5. Shots'
  BY <1>1 DEF ScanInv, Shots, Aims
<1> QED BY <1>2, <1>3, <1>4, <1>5 DEF ScanInv

LEMMA BucketChosenKeeps ==
    ASSUME ScanInv, Scan!BucketChosen PROVE ScanInv'
<1>1. /\ step = "read" /\ (candidates = <<>> \/ Len(chosen) >= PerBucket) /\ step' = "validate"
      /\ UNCHANGED <<store, size, candidates, chosen, seen, skipped, sampled, targets, driver, session,
                     shots, warned>>
  BY DEF Scan!BucketChosen
<1>2. /\ Documents' = Documents /\ Scan!Contents' = Scan!Contents
      /\ \A b \in 1..3 : Got(b)' = Got(b) /\ TakenUpto(b)' = TakenUpto(b)
      /\ Unique' /\ Numbered' /\ size \in 1..3
  BY <1>1, SamplesKept DEF ScanInv, ScanTypes
<1>3. ScanTypes'
  BY <1>1, <1>2 DEF ScanInv, ScanTypes, Evaluated
<1>4. Len(chosen) <= PerBucket /\ Len(chosen) \in Nat /\ PerBucket \in Nat
  BY <1>1, ScanAssumption DEF ScanInv, ScanTypes, Filled, Scan!StoresAssumption
<1>5. Got(size) = {} /\ Cardinality(Got(size)) = 0
  <2>1. Got(size) = {}
    BY <1>1 DEF ScanInv, Numbered, Got
  <2> QED BY <2>1, FS_EmptySet
<1>6. Len(store) >= PerBucket => Len(chosen) = PerBucket \/ Scan!Contents \subseteq seen
  <2>1. CASE candidates = <<>>
    <3>1. ToSet(candidates) = {}
      BY <2>1 DEF ToSet
    <3>2. Len(store) >= PerBucket => \A d \in Documents : Content(d) \in seen
      BY <1>1, <3>1 DEF ScanInv, Filled
    <3> QED BY <3>2 DEF Scan!Contents, Content, Documents
  <2>2. CASE Len(chosen) >= PerBucket
    BY <1>4, <2>2
  <2> QED BY <1>1, <2>1, <2>2
<1>7. Filled'
  <2>1. Len(store) >= PerBucket => 0 + Len(chosen) = PerBucket \/ Scan!Contents \subseteq seen
    BY <1>4, <1>6
  <2> QED BY <1>1, <1>2, <1>4, <1>5, <2>1 DEF ScanInv, Filled
<1>8. Shots'
  BY <1>1 DEF ScanInv, Shots, Aims
<1> QED BY <1>2, <1>3, <1>7, <1>8 DEF ScanInv

LEMMA SaveAndValidateKeeps ==
    ASSUME ScanInv, NEW ok \in BOOLEAN, Scan!SaveAndValidate(ok) PROVE ScanInv'
<1> DEFINE d == Head(chosen)  c == Content(d)  m == Len(sampled)  l == Len(chosen)
           n == Cardinality(Got(size))
           s == [bucket |-> size, index |-> n + 1, doc |-> d, ok |-> ok]
<1>1. /\ step = "validate" /\ chosen # <<>>
      /\ sampled' = Append(sampled, s) /\ chosen' = Tail(chosen)
      /\ UNCHANGED <<store, step, size, candidates, seen, targets, driver, session, shots, warned>>
  <2>1. Scan!IndexInBucket = n + 1
    BY ScanOperators DEF Scan!IndexInBucket, Got
  <2> QED BY <2>1 DEF Scan!SaveAndValidate
<1>2. /\ d \in Documents /\ chosen' \in Seq(Documents) /\ l \in Nat \ {0} /\ Len(chosen') = l - 1
      /\ DOMAIN chosen = 1..l /\ DOMAIN chosen' = 1..l - 1 /\ d = chosen[1]
      /\ \A i \in 1..l - 1 : chosen'[i] = chosen[i + 1]
  BY <1>1, HeadTail DEF ScanInv, ScanTypes
<1>3. /\ m \in Nat /\ DOMAIN sampled = 1..m /\ sampled \in Seq(Evaluated) /\ size \in 1..3
      /\ \A i \in 1..m : sampled[i] \in Evaluated
  BY DEF ScanInv, ScanTypes
<1>4. IsFiniteSet(Got(size)) /\ n \in Nat
  <2>1. IsFiniteSet(1..m) /\ Got(size) \subseteq 1..m
    BY <1>3, FS_Interval DEF Got
  <2>2. IsFiniteSet(Got(size))
    BY <2>1, FS_Subset
  <2> QED BY <2>2, FS_CardinalityType
<1>5. s \in Evaluated /\ s.bucket = size /\ s.index = n + 1 /\ s.doc = d
  BY <1>2, <1>3, <1>4 DEF Evaluated
<1> HIDE DEF s, d
<1>6. /\ sampled' \in Seq(Evaluated) /\ Len(sampled') = m + 1 /\ DOMAIN sampled' = 1..m + 1
      /\ sampled'[m + 1] = s /\ \A i \in 1..m : sampled'[i] = sampled[i]
  BY <1>1, <1>3, <1>5, AppendProperties
<1>7. /\ Documents' = Documents /\ Scan!Contents' = Scan!Contents
      /\ \A e : Content(e)' = Content(e)
  BY <1>1 DEF Documents, Scan!Contents, Content
<1> HIDE DEF c, m, l, n
<1>8. /\ \A i \in 1..m + 1 : i \in 1..m \/ i = m + 1
      /\ m + 1 \in 1..m + 1 /\ \A i \in 1..m : i \in 1..m + 1 /\ i # m + 1
  BY <1>3
<1>9. /\ 1 \in 1..l /\ \A i \in 1..l - 1 : i + 1 \in 1..l /\ i + 1 # 1
      /\ \A i \in 1..l : i = 1 \/ (i - 1 \in 1..l - 1 /\ (i - 1) + 1 = i)
  BY <1>2
<1>10. /\ \A i \in 1..m : Content(sampled[i].doc) # c
       /\ \A i \in 1..l - 1 : Content(chosen'[i]) # c
  <2>1. \A i \in 1..m : Content(sampled[i].doc) # Content(chosen[1])
    BY <1>2, <1>3, <1>9 DEF ScanInv, Unique
  <2>2. ASSUME NEW i \in 1..l - 1 PROVE Content(chosen'[i]) # c
    <3>1. Content(chosen[i + 1]) # Content(chosen[1])
      BY <1>2, <1>9 DEF ScanInv, Unique
    <3> QED BY <1>2, <3>1 DEF c
  <2> QED BY <1>2, <2>1, <2>2 DEF c
<1>11. Taken' = Taken \cup {c}
  <2>1. \A x : x \in Taken <=> \E i \in 1..m : x = Content(sampled[i].doc)
    BY <1>3 DEF Taken
  <2>2. \A x : x \in Taken' <=> \E i \in 1..m + 1 : x = Content(sampled'[i].doc)
    BY <1>6, <1>7 DEF Taken
  <2>3. ASSUME NEW x PROVE x \in Taken' <=> x \in Taken \/ x = c
    <3>1. ASSUME x \in Taken' PROVE x \in Taken \/ x = c
      <4>1. PICK i \in 1..m + 1 : x = Content(sampled'[i].doc)
        BY <2>2, <3>1
      <4> QED BY <1>5, <1>6, <1>8, <2>1, <4>1 DEF c
    <3>2. ASSUME x \in Taken PROVE x \in Taken'
      <4>1. PICK i \in 1..m : x = Content(sampled[i].doc)
        BY <2>1, <3>2
      <4> QED BY <1>6, <1>8, <2>2, <4>1
    <3>3. c \in Taken'
      BY <1>5, <1>6, <1>8, <2>2 DEF c
    <3> QED BY <3>1, <3>2, <3>3
  <2> QED BY <2>3
<1>12. Waiting = Waiting' \cup {c}
  <2>1. \A x : x \in Waiting <=> \E i \in 1..l : x = Content(chosen[i])
    BY <1>2 DEF Waiting
  <2>2. \A x : x \in Waiting' <=> \E i \in 1..l - 1 : x = Content(chosen'[i])
    BY <1>2, <1>7 DEF Waiting
  <2>3. ASSUME NEW x PROVE x \in Waiting <=> x \in Waiting' \/ x = c
    <3>1. ASSUME x \in Waiting PROVE x \in Waiting' \/ x = c
      <4>1. PICK i \in 1..l : x = Content(chosen[i])
        BY <2>1, <3>1
      <4>2. CASE i = 1
        BY <1>2, <4>1, <4>2 DEF c
      <4>3. CASE i # 1
        <5>1. i - 1 \in 1..l - 1 /\ x = Content(chosen'[i - 1])
          BY <1>2, <1>9, <4>1, <4>3
        <5> QED BY <2>2, <5>1
      <4> QED BY <4>2, <4>3
    <3>2. ASSUME x \in Waiting' PROVE x \in Waiting
      <4>1. PICK i \in 1..l - 1 : x = Content(chosen'[i])
        BY <2>2, <3>2
      <4> QED BY <1>2, <1>9, <2>1, <4>1
    <3>3. c \in Waiting
      BY <1>2, <1>9, <2>1 DEF c
    <3> QED BY <3>1, <3>2, <3>3
  <2> QED BY <2>3
<1>13. Unique'
  <2>1. seen' = Taken' \cup Waiting'
    BY <1>1, <1>11, <1>12 DEF ScanInv, Unique
  <2>2. ASSUME NEW i \in 1..m + 1, NEW j \in 1..l - 1
        PROVE  Content(sampled'[i].doc) # Content(chosen'[j])
    <3>1. CASE i \in 1..m
      <4>1. Content(sampled[i].doc) # Content(chosen[j + 1])
        BY <1>2, <1>3, <1>9, <3>1 DEF ScanInv, Unique
      <4> QED BY <1>2, <1>6, <3>1, <4>1
    <3>2. CASE i = m + 1
      BY <1>5, <1>6, <1>10, <3>2 DEF c
    <3> QED BY <1>8, <3>1, <3>2
  <2>3. ASSUME NEW i \in 1..m + 1, NEW j \in 1..m + 1, Content(sampled'[i].doc) = Content(sampled'[j].doc)
        PROVE  i = j
    <3>1. CASE i \in 1..m /\ j \in 1..m
      <4>1. Content(sampled[i].doc) = Content(sampled[j].doc)
        BY <1>6, <2>3, <3>1
      <4> QED BY <1>3, <3>1, <4>1 DEF ScanInv, Unique
    <3>2. CASE i = m + 1 /\ j \in 1..m
      BY <1>5, <1>6, <1>10, <2>3, <3>2 DEF c
    <3>3. CASE i \in 1..m /\ j = m + 1
      BY <1>5, <1>6, <1>10, <2>3, <3>3 DEF c
    <3> QED BY <1>8, <3>1, <3>2, <3>3
  <2>4. ASSUME NEW i \in 1..l - 1, NEW j \in 1..l - 1, Content(chosen'[i]) = Content(chosen'[j])
        PROVE  i = j
    <3>1. Content(chosen[i + 1]) = Content(chosen[j + 1]) /\ i + 1 \in 1..l /\ j + 1 \in 1..l
      BY <1>2, <1>9, <2>4
    <3>2. i + 1 = j + 1
      BY <1>2, <3>1 DEF ScanInv, Unique
    <3> QED BY <1>2, <3>2
  <2> QED BY <1>2, <1>6, <1>7, <2>1, <2>2, <2>3, <2>4 DEF Unique
<1>14. Got(size)' = Got(size) \cup {m + 1} /\ m + 1 \notin Got(size)
  <2>1. \A i : i \in Got(size) <=> i \in 1..m /\ sampled[i].bucket = size
    BY <1>3 DEF Got
  <2>2. \A i : i \in Got(size)' <=> i \in 1..m + 1 /\ sampled'[i].bucket = size
    BY <1>1, <1>6 DEF Got
  <2>3. ASSUME NEW i PROVE i \in Got(size)' <=> i \in Got(size) \/ i = m + 1
    BY <1>5, <1>6, <1>8, <2>1, <2>2
  <2> QED BY <1>8, <2>1, <2>3
<1>15. Cardinality(Got(size)') = n + 1
  BY <1>4, <1>14, FS_AddElement DEF n
<1>16. ASSUME NEW b \in 1..3, b < size PROVE Got(b)' = Got(b) /\ TakenUpto(b)' = TakenUpto(b)
  <2>1. ~(s.bucket <= b) /\ s.bucket # b
    BY <1>3, <1>5, <1>16
  <2>2. \A i : i \in Got(b)' <=> i \in Got(b)
    <3>1. \A i : i \in Got(b) <=> i \in 1..m /\ sampled[i].bucket = b
      BY <1>3 DEF Got
    <3>2. \A i : i \in Got(b)' <=> i \in 1..m + 1 /\ sampled'[i].bucket = b
      BY <1>6 DEF Got
    <3> QED BY <1>6, <1>8, <2>1, <3>1, <3>2
  <2>3. ASSUME NEW x PROVE x \in TakenUpto(b)' <=> x \in TakenUpto(b)
    <3>1. x \in TakenUpto(b) <=> \E i \in 1..m : sampled[i].bucket <= b /\ x = Content(sampled[i].doc)
      BY <1>3 DEF TakenUpto
    <3>2. x \in TakenUpto(b)' <=> \E i \in 1..m + 1 : sampled'[i].bucket <= b /\ x = Content(sampled'[i].doc)
      BY <1>6, <1>7 DEF TakenUpto
    <3> QED BY <1>6, <1>8, <2>1, <3>1, <3>2
  <2> QED BY <2>2, <2>3
<1>17. ScanTypes'
  BY <1>1, <1>2, <1>6, <1>7 DEF ScanInv, ScanTypes, Evaluated
<1>18. Numbered'
  <2>1. ASSUME NEW i \in 1..m
        PROVE  /\ sampled[i].bucket <= size
               /\ sampled[i].bucket = size => sampled[i].index <= n /\ sampled[i].index \in Nat
    BY <1>3 DEF ScanInv, Numbered, Evaluated, n
  <2>2. ASSUME NEW i \in 1..m + 1
        PROVE  /\ sampled'[i].bucket <= size
               /\ sampled'[i].bucket = size => sampled'[i].index <= n + 1
    <3>1. CASE i \in 1..m
      <4>1. sampled[i].index \in Nat /\ sampled[i].index <= n => sampled[i].index <= n + 1
        BY <1>4
      <4> QED BY <1>6, <2>1, <3>1, <4>1
    <3>2. CASE i = m + 1
      <4>1. size <= size /\ n + 1 <= n + 1
        BY <1>3, <1>4
      <4> QED BY <1>5, <1>6, <3>2, <4>1
    <3> QED BY <1>8, <3>1, <3>2
  <2>3. ASSUME NEW i \in 1..m PROVE ~(sampled[i].bucket = s.bucket /\ sampled[i].index = s.index)
    <3>1. sampled[i].index \in Nat /\ sampled[i].index <= n => sampled[i].index # n + 1
      BY <1>4
    <3> QED BY <1>5, <2>1, <3>1
  <2>4. ASSUME NEW i \in 1..m + 1, NEW j \in 1..m + 1,
               sampled'[i].bucket = sampled'[j].bucket, sampled'[i].index = sampled'[j].index
        PROVE  i = j
    <3>1. CASE i \in 1..m /\ j \in 1..m
      <4>1. sampled[i].bucket = sampled[j].bucket /\ sampled[i].index = sampled[j].index
        BY <1>6, <2>4, <3>1
      <4> QED BY <1>3, <3>1, <4>1 DEF ScanInv, Numbered
    <3>2. CASE i = m + 1 /\ j \in 1..m
      BY <1>6, <2>3, <2>4, <3>2
    <3>3. CASE i \in 1..m /\ j = m + 1
      BY <1>6, <2>3, <2>4, <3>3
    <3> QED BY <1>8, <3>1, <3>2, <3>3
  <2>5. Cardinality(Got(size))' = n + 1 /\ step' = "validate" /\ size' = size
    BY <1>1, <1>15
  <2> QED BY <1>6, <2>2, <2>4, <2>5 DEF Numbered
<1>19. Filled'
  <2>1. PerBucket \in Nat /\ l <= PerBucket
    BY <1>1, ScanAssumption DEF ScanInv, Filled, Scan!StoresAssumption, l
  <2>2. Len(chosen') <= PerBucket
    BY <1>2, <2>1
  <2>3. (n + 1) + (l - 1) = n + l
    BY <1>2, <1>4
  <2>4. Len(store) >= PerBucket => n + l = PerBucket \/ Scan!Contents \subseteq seen
    BY <1>1 DEF ScanInv, Filled, n, l
  <2>5. Len(store) >= PerBucket => \A b \in 1..3 : b < size =>
            Cardinality(Got(b)) = PerBucket \/ Scan!Contents = TakenUpto(b)
    BY <1>1 DEF ScanInv, Filled
  <2>6. Len(store) >= PerBucket => \A b \in 1..3 : b < size =>
            Cardinality(Got(b))' = PerBucket \/ Scan!Contents = TakenUpto(b)'
    BY <1>16, <2>5
  <2>7. Cardinality(Got(size))' = n + 1
    BY <1>1, <1>15
  <2> QED BY <1>1, <1>2, <1>7, <2>2, <2>3, <2>4, <2>6, <2>7 DEF Filled
<1>20. Shots'
  <2>1. targets' = <<>> /\ shots' = <<>>
    BY <1>1 DEF ScanInv, Shots
  <2> QED BY <1>1, <2>1 DEF ScanInv, Shots
<1> QED BY <1>13, <1>17, <1>18, <1>19, <1>20 DEF ScanInv

LEMMA NextBucketKeeps ==
    ASSUME ScanInv, Scan!NextBucket PROVE ScanInv'
<1>1. /\ step = "validate" /\ chosen = <<>>
      /\ \/ /\ size < 3 /\ size' = size + 1 /\ step' = "read"
            /\ candidates' = Scan!Candidates(size + 1) /\ UNCHANGED targets
         \/ /\ ~(size < 3) /\ targets' = Scan!Targets(sampled)
            /\ step' = IF Scan!Targets(sampled) = <<>> THEN "report" ELSE "screenshots"
            /\ UNCHANGED <<size, candidates>>
      /\ UNCHANGED <<store, chosen, seen, skipped, sampled, driver, session, shots, warned>>
  BY DEF Scan!NextBucket
<1>2. /\ store \in Seq(ToSet(store)) /\ size \in 1..3 /\ candidates \in Seq(Documents)
      /\ sampled \in Seq(Evaluated) /\ \A i \in DOMAIN sampled : sampled[i] \in Evaluated
  BY DEF ScanInv, ScanTypes
<1>3. /\ Documents' = Documents /\ Scan!Contents' = Scan!Contents /\ Taken' = Taken /\ Waiting' = Waiting
      /\ \A e : Content(e)' = Content(e)
      /\ \A b \in 1..3 : Got(b)' = Got(b) /\ TakenUpto(b)' = TakenUpto(b)
  BY <1>1 DEF Documents, Scan!Contents, Taken, Waiting, Got, TakenUpto, Content
<1>4. Unique'
  BY <1>1, <1>3 DEF ScanInv, Unique
<1>5. seen = TakenUpto(size) /\ seen \subseteq Scan!Contents
  <2>1. Waiting = {}
    BY <1>1 DEF Waiting
  <2>2. seen = Taken
    BY <2>1 DEF ScanInv, Unique
  <2>3. {i \in DOMAIN sampled : sampled[i].bucket <= size} = DOMAIN sampled
    BY DEF ScanInv, Numbered
  <2>4. Taken = TakenUpto(size)
    BY <2>3 DEF Taken, TakenUpto
  <2>5. Taken \subseteq Scan!Contents
    BY <1>2 DEF Taken, Evaluated, Documents, Content, Scan!Contents
  <2> QED BY <2>2, <2>4, <2>5
<1>6. Len(store) >= PerBucket => Cardinality(Got(size)) = PerBucket \/ Scan!Contents = TakenUpto(size)
  <2>1. Cardinality(Got(size)) \in Nat
    <3>1. Len(sampled) \in Nat /\ DOMAIN sampled = 1..Len(sampled)
      BY <1>2
    <3>2. IsFiniteSet(1..Len(sampled)) /\ Got(size) \subseteq 1..Len(sampled)
      BY <3>1, FS_Interval DEF Got
    <3>3. IsFiniteSet(Got(size))
      BY <3>2, FS_Subset
    <3> QED BY <3>3, FS_CardinalityType
  <2>2. Len(chosen) = 0
    BY <1>1
  <2>3. Len(store) >= PerBucket =>
            Cardinality(Got(size)) + Len(chosen) = PerBucket \/ Scan!Contents \subseteq seen
    BY <1>1 DEF ScanInv, Filled
  <2>4. Cardinality(Got(size)) + Len(chosen) = Cardinality(Got(size))
    BY <2>1, <2>2
  <2> QED BY <1>5, <2>3, <2>4
<1>7. Len(store) >= PerBucket => \A b \in 1..3 : b < size + 1 =>
          Cardinality(Got(b))' = PerBucket \/ Scan!Contents = TakenUpto(b)'
  <2>1. \A b \in 1..3 : b < size + 1 => b < size \/ b = size
    BY <1>2
  <2>2. Len(store) >= PerBucket => \A b \in 1..3 : b < size =>
            Cardinality(Got(b)) = PerBucket \/ Scan!Contents = TakenUpto(b)
    BY <1>1 DEF ScanInv, Filled
  <2> QED BY <1>3, <1>6, <2>1, <2>2
<1>8. Len(chosen) <= PerBucket
  BY <1>1 DEF ScanInv, Filled
<1>9. targets = <<>> /\ shots = <<>> /\ driver = "off" /\ ~session
  BY <1>1 DEF ScanInv, Shots
<1>10. CASE size < 3 /\ size' = size + 1 /\ step' = "read"
            /\ candidates' = Scan!Candidates(size + 1) /\ UNCHANGED targets
  <2>1. size + 1 \in 1..3
    BY <1>2, <1>10
  <2>2. /\ candidates' \in Seq(Documents)
        /\ Len(store) >= PerBucket => ToSet(candidates') = Documents
    BY <1>2, <1>10, <2>1, CandidatesAre
  <2>3. ScanTypes'
    BY <1>1, <1>3, <1>10, <2>1, <2>2 DEF ScanInv, ScanTypes, Evaluated
  <2>4. Numbered'
    <3>1. ASSUME NEW i \in DOMAIN sampled PROVE sampled[i].bucket <= size + 1 /\ sampled[i].bucket # size + 1
      <4>1. sampled[i].bucket \in 1..3 /\ sampled[i].bucket <= size
        BY <1>2 DEF ScanInv, Numbered, Evaluated
      <4> QED BY <1>2, <4>1
    <3>2. \A i, j \in DOMAIN sampled :
              sampled[i].bucket = sampled[j].bucket /\ sampled[i].index = sampled[j].index => i = j
      BY DEF ScanInv, Numbered
    <3> QED BY <1>1, <1>10, <3>1, <3>2 DEF Numbered
  <2>5. Filled'
    BY <1>1, <1>3, <1>7, <1>8, <1>10, <2>2 DEF Filled
  <2>6. Shots'
    BY <1>1, <1>9, <1>10 DEF Shots
  <2> QED BY <1>4, <2>3, <2>4, <2>5, <2>6 DEF ScanInv
<1>11. CASE ~(size < 3) /\ targets' = Scan!Targets(sampled)
            /\ step' = (IF Scan!Targets(sampled) = <<>> THEN "report" ELSE "screenshots")
            /\ UNCHANGED <<size, candidates>>
  <2>1. size = 3 /\ \A b \in 1..3 : b < size + 1
    BY <1>2, <1>11
  <2>2. targets' \in Seq(Aimed)
    BY <1>11, TargetsAim DEF ScanInv
  <2>3. targets' \in Seq(Targeted) /\ \A i \in DOMAIN targets' : Aims(targets'[i])
    BY <2>2 DEF Aimed
  <2>4. step' \in {"screenshots", "report"} /\ (step' = "report" => targets' = <<>>)
    BY <1>11
  <2>5. ScanTypes'
    BY <1>1, <1>3, <1>11, <2>3, <2>4 DEF ScanInv, ScanTypes, Evaluated
  <2>6. Numbered'
    <3>1. Got(size)' = Got(size)
      BY <1>2, <1>3, <1>11
    <3> QED BY <1>1, <1>11, <2>4, <3>1 DEF ScanInv, Numbered
  <2>7. Filled'
    BY <1>1, <1>3, <1>7, <1>8, <1>11, <2>1, <2>4 DEF Filled
  <2>8. Shots'
    <3>1. \A t : Aims(t)' <=> Aims(t)
      BY <1>1 DEF Aims
    <3> QED BY <1>1, <1>9, <2>3, <2>4, <3>1 DEF Shots
  <2> QED BY <1>4, <2>5, <2>6, <2>7, <2>8 DEF ScanInv
<1> QED BY <1>1, <1>10, <1>11

\* The steps of the browser driver that take no picture.
LEMMA DriverKeeps ==
    ASSUME ScanInv,
           \/ Scan!NoDriver \/ Scan!StartDriver \/ Scan!OpenSession \/ Scan!DriverFails
           \/ Scan!CloseDriver \/ Scan!WriteReport
    PROVE  ScanInv'
<1>1. UNCHANGED <<store, size, candidates, chosen, seen, skipped, sampled, targets, shots>>
  BY DEF Scan!NoDriver, Scan!StartDriver, Scan!OpenSession, Scan!DriverFails, Scan!CloseDriver,
         Scan!WriteReport
<1>2. /\ step \in {"screenshots", "report"} /\ step' \in {"screenshots", "report", "done"}
      /\ driver' \in {"off", "starting", "up"} /\ session' \in BOOLEAN
      /\ step' # "screenshots" => driver' = "off"
      /\ driver' # "up" => ~session'
      /\ step' = "report" /\ targets' # <<>> => warned'
  <2>1. /\ driver \in {"off", "starting", "up"} /\ session \in BOOLEAN
        /\ step # "screenshots" => driver = "off"
        /\ driver # "up" => ~session
        /\ step = "report" /\ targets # <<>> => warned
    BY DEF ScanInv, ScanTypes, Shots
  <2>2. CASE Scan!NoDriver
    BY <2>1, <2>2 DEF Scan!NoDriver
  <2>3. CASE Scan!StartDriver
    BY <2>1, <2>3 DEF Scan!StartDriver
  <2>4. CASE Scan!OpenSession
    BY <2>1, <2>4 DEF Scan!OpenSession
  <2>5. CASE Scan!DriverFails
    BY <2>1, <2>5 DEF Scan!DriverFails
  <2>6. CASE Scan!CloseDriver
    BY <2>1, <2>6 DEF Scan!CloseDriver
  <2>7. CASE Scan!WriteReport
    BY <2>1, <2>7 DEF Scan!WriteReport
  <2> QED BY <2>2, <2>3, <2>4, <2>5, <2>6, <2>7
<1>3. Shots'
  <2>1. \A t : Aims(t)' <=> Aims(t)
    BY <1>1 DEF Aims
  <2>2. /\ \A i \in DOMAIN targets : Aims(targets[i])
        /\ \A i \in DOMAIN shots :
              /\ shots[i].label \in store[shots[i].doc].kinds
              /\ \E s \in DOMAIN sampled : sampled[s].doc = shots[i].doc /\ sampled[s].ok
    BY DEF ScanInv, Shots
  <2> QED BY <1>1, <1>2, <2>1, <2>2 DEF Shots
<1>4. targets' \in Seq(Targeted) /\ shots' \in Seq([doc : Documents, label : Labels])
  BY <1>1 DEF ScanInv, ScanTypes
<1> QED BY <1>1, <1>2, <1>3, <1>4, AfterBuckets

\* A picture goes to the one result of that bucket and number.
LEMMA CaptureKeeps ==
    ASSUME ScanInv, Scan!Capture PROVE ScanInv'
<1> DEFINE t == Head(targets)
           match == {i \in DOMAIN sampled : sampled[i].bucket = t.bucket /\ sampled[i].index = t.index}
           e == CHOOSE i \in match : \A j \in match : i <= j
           shot == [doc |-> sampled[e].doc, label |-> t.label]
           n == Len(shots)  m == Len(targets)
<1>1. /\ step = "screenshots" /\ driver = "up" /\ targets # <<>>
      /\ shots' = Append(shots, shot) /\ targets' = Tail(targets)
      /\ UNCHANGED <<store, step, size, candidates, chosen, seen, skipped, sampled, driver, session, warned>>
  BY DEF Scan!Capture, Scan!Attached
<1>2. /\ t \in Targeted /\ targets' \in Seq(Targeted) /\ m \in Nat \ {0}
      /\ DOMAIN targets = 1..m /\ t = targets[1] /\ DOMAIN targets' = 1..m - 1
      /\ \A i \in 1..m - 1 : targets'[i] = targets[i + 1]
  BY <1>1, HeadTail DEF ScanInv, ScanTypes
<1>3. n \in Nat /\ shots \in Seq([doc : Documents, label : Labels]) /\ DOMAIN shots = 1..n
      /\ DOMAIN sampled = 1..Len(sampled) /\ Len(sampled) \in Nat
      /\ \A i \in DOMAIN sampled : sampled[i] \in Evaluated
  BY DEF ScanInv, ScanTypes
<1> HIDE DEF t, n, m
<1>4. Aims(t)
  <2>1. 1 \in 1..m
    BY <1>2
  <2> QED BY <1>2, <2>1 DEF ScanInv, Shots
<1>5. PICK i \in DOMAIN sampled :
          /\ sampled[i].bucket = t.bucket /\ sampled[i].index = t.index
          /\ sampled[i].ok /\ t.label \in store[sampled[i].doc].kinds
  BY <1>4 DEF Aims
<1>6. e = i
  <2>1. match = {i}
    BY <1>5 DEF ScanInv, Numbered
  <2>2. i \in Int /\ i <= i
    BY <1>3
  <2> HIDE DEF match
  <2> QED BY <2>1, <2>2
<1> HIDE DEF e, match
<1>7. /\ shot \in [doc : Documents, label : Labels] /\ shot.label \in store[shot.doc].kinds
      /\ sampled[i].doc = shot.doc /\ sampled[i].ok
  BY <1>2, <1>3, <1>5, <1>6 DEF Evaluated, Targeted
<1> HIDE DEF shot
<1>8. /\ shots' \in Seq([doc : Documents, label : Labels]) /\ DOMAIN shots' = 1..n + 1
      /\ shots'[n + 1] = shot /\ \A k \in 1..n : shots'[k] = shots[k]
      /\ \A k \in 1..n + 1 : k \in 1..n \/ k = n + 1
  <2>1. Len(shots') = n + 1 /\ shots' \in Seq([doc : Documents, label : Labels])
    BY <1>1, <1>3, <1>7, AppendProperties DEF n
  <2>2. shots'[n + 1] = shot /\ \A k \in 1..n : shots'[k] = shots[k]
    BY <1>1, <1>3, <1>7, AppendProperties DEF n
  <2> QED BY <1>3, <2>1, <2>2
<1>9. Shots'
  <2>1. \A x : Aims(x)' <=> Aims(x)
    BY <1>1 DEF Aims
  <2>2. ASSUME NEW k \in 1..m - 1 PROVE Aims(targets'[k])
    <3>1. k + 1 \in 1..m
      BY <1>2
    <3> QED BY <1>2, <3>1 DEF ScanInv, Shots
  <2>3. ASSUME NEW k \in 1..n + 1
        PROVE  /\ shots'[k].label \in store[shots'[k].doc].kinds
               /\ \E s \in DOMAIN sampled : sampled[s].doc = shots'[k].doc /\ sampled[s].ok
    <3>1. CASE k \in 1..n
      BY <1>3, <1>8, <3>1 DEF ScanInv, Shots
    <3>2. CASE k = n + 1
      BY <1>7, <1>8, <3>2
    <3> QED BY <1>8, <3>1, <3>2
  <2> QED BY <1>1, <1>2, <1>8, <2>1, <2>2, <2>3 DEF Shots
<1>10. session' \in BOOLEAN
  BY <1>1 DEF ScanInv, ScanTypes
<1> QED BY <1>1, <1>2, <1>8, <1>9, <1>10, AfterBuckets

LEMMA ScanKeeps == ScanInv /\ [UploadsNext]_allVars => ScanInv'
<1> SUFFICES ASSUME ScanInv, [UploadsNext]_allVars PROVE ScanInv'
  OBVIOUS
<1>1. CASE UNCHANGED scanVars
  BY <1>1, ScanStays
<1>2. CASE ScanStep
  <2>1. Scan!Next
    BY <1>2 DEF ScanStep
  <2> QED BY <2>1, ReadRawKeeps, ReadFailsKeeps, BucketChosenKeeps, SaveAndValidateKeeps,
             NextBucketKeeps, DriverKeeps, CaptureKeeps DEF Scan!Next
<1>3. UNCHANGED scanVars \/ ScanStep
  BY DEF UploadsNext, UploadStep, PdfStep, allVars
<1> QED BY <1>1, <1>2, <1>3

LEMMA GivesScan == ScanInv => ScanRight
<1> SUFFICES ASSUME ScanInv PROVE Scan!ScanRight
  BY DEF ScanRight
<1>1. Scan!TypeOK
  BY DEF ScanInv, ScanTypes, Scan!TypeOK
<1>2. Scan!SamplesUnique
  <2>1. \A i, j \in DOMAIN sampled :
            store[sampled[i].doc].content = store[sampled[j].doc].content => i = j
    BY DEF ScanInv, Unique, Content
  <2>2. step \in {"report", "done"} /\ Len(store) >= PerBucket => \A b \in 1..3 :
            Cardinality(Got(b)) = PerBucket \/ Scan!Contents = TakenUpto(b)
    BY DEF ScanInv, Filled
  <2>3. \A b \in 1..3 : /\ Scan!Cardinality(Got(b)) = Cardinality(Got(b))
                       /\ Got(b) = {i \in DOMAIN sampled : sampled[i].bucket = b}
                       /\ TakenUpto(b) = {store[sampled[i].doc].content :
                                             i \in {i \in DOMAIN sampled : sampled[i].bucket <= b}}
    BY ScanOperators DEF Got, TakenUpto, Content
  <2> QED BY <2>1, <2>2, <2>3 DEF Scan!SamplesUnique
<1>3. Scan!ShotsRight
  BY DEF ScanInv, Shots, Scan!ShotsRight
<1> QED BY <1>1, <1>2, <1>3 DEF Scan!ScanRight

\* The samples of a scan are of distinct contents over all its buckets, a bucket
\* lacks samples only when no content is left, a screenshot is of a result that
\* shows it, and no browser outlives the screenshots.
THEOREM ScansAreRight == UploadsSpec => []ScanRight
<1>1. UploadsInit => ScanInv
  BY ScanBegins DEF UploadsInit
<1>2. ScanInv /\ [UploadsNext]_allVars => ScanInv'
  BY ScanKeeps
<1>3. ScanInv => ScanRight
  BY GivesScan
<1> QED BY <1>1, <1>2, <1>3, PTL DEF UploadsSpec

=============================================================================
