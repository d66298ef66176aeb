----------------------------- MODULE AssetUpload -----------------------------
(***************************************************************************)
(* RagDocumentParser.parse as far as it leaves the process: the images of  *)
(* a document are put into an object store one by one, then the references *)
(* of its units are resolved to what was stored.  Several calls, of one or *)
(* several processes, work on one bucket; a PUT can fail with or without   *)
(* having stored the object, a process can die between any two PUTs, and   *)
(* callers try again.                                                      *)
(*                                                                         *)
(* A document stands for its sha256.  What a backend reads from it is the  *)
(* same every time: the ids and bytes of its assets, and which assets its  *)
(* units refer to.                                                         *)
(***************************************************************************)
EXTENDS Integers, Sequences, FiniteSets

CONSTANTS
    Calls,         \* the calls of parse that may be under way
    Docs,          \* documents
    Ids,           \* asset ids, each document numbers its own from the first
    AssetsOf,      \* the assets of each document: a sequence of ids
    Bytes,         \* Bytes[doc][id]: the content of an asset
    RefsOf,        \* the asset ids the units of each document refer to
    MaxTries       \* bound: how often a call is started

ASSUME AssetsAssumption ==
    /\ AssetsOf \in [Docs -> Seq(Ids)]
    /\ \A d \in Docs : \A i, j \in DOMAIN AssetsOf[d] : AssetsOf[d][i] = AssetsOf[d][j] => i = j
    /\ RefsOf \in [Docs -> SUBSET Ids]
    /\ \A d \in Docs : Ids \subseteq DOMAIN Bytes[d]
ASSUME TriesAssumption == MaxTries \in Nat

None == <<>>

VARIABLES
    hasStore,      \* whether an asset store is configured
    bucket,        \* key -> content, None where nothing is stored
    call           \* what each call is doing

vars == <<hasStore, bucket, call>>

-----------------------------------------------------------------------------

Keys == Docs \X Ids

\* Bug variant: assets are stored by their id alone.
KeyWithoutDocument(d, id) == <<CHOOSE x \in Docs : TRUE, id>>

\* {document_sha256}/assets/{asset.id}.{ext}
Key(d, id) == <<d, id>>

Idle == [phase |-> "idle", doc |-> None, uploaded |-> <<>>, refs |-> {}, tries |-> 0]
Enter(c, phase) == call' = [call EXCEPT ![c].phase = phase]
Asset(d, id) == [id |-> id, key |-> Key(d, id), sha |-> Bytes[d][id]]

Init ==
    /\ hasStore \in BOOLEAN
    /\ bucket = [k \in Keys |-> None]
    /\ call = [c \in Calls |-> Idle]

\* parse starts: the backend reads the document.  Assets and no store is an
\* error before anything is stored.
Start(c, d) ==
    /\ call[c].phase \in {"idle", "raised"} /\ call[c].tries < MaxTries
    /\ call' = [call EXCEPT ![c] =
           [phase |-> IF AssetsOf[d] # <<>> /\ ~hasStore THEN "raised" ELSE "uploading",
            doc |-> d, uploaded |-> <<>>, refs |-> {}, tries |-> call[c].tries + 1]]
    /\ UNCHANGED <<hasStore, bucket>>

\* The next asset upload_assets has to put.
Uploading(c) == call[c].phase = "uploading" /\ Len(call[c].uploaded) < Len(AssetsOf[call[c].doc])
NextId(c) == AssetsOf[call[c].doc][Len(call[c].uploaded) + 1]

PutSucceeds(c) ==
    /\ Uploading(c)
    /\ LET d == call[c].doc
       IN  /\ bucket' = [bucket EXCEPT ![Key(d, NextId(c))] = Bytes[d][NextId(c)]]
           /\ call' = [call EXCEPT ![c].uploaded = Append(@, Asset(d, NextId(c)))]
    /\ UNCHANGED hasStore

\* Bug variant: a PUT that was refused is taken for stored.
PutFailsUnseen(c, reached) ==
    /\ Uploading(c)
    /\ LET d == call[c].doc
       IN  /\ bucket' = IF reached THEN [bucket EXCEPT ![Key(d, NextId(c))] = Bytes[d][NextId(c)]]
                        ELSE bucket
           /\ call' = [call EXCEPT ![c].uploaded = Append(@, Asset(d, NextId(c)))]
    /\ UNCHANGED hasStore

\* put raises: a status that is no success, or a connection that broke before
\* or after the object was stored.
PutFails(c, reached) ==
    /\ Uploading(c)
    /\ LET d == call[c].doc
       IN  bucket' = IF reached THEN [bucket EXCEPT ![Key(d, NextId(c))] = Bytes[d][NextId(c)]]
                     ELSE bucket
    /\ Enter(c, "raised")
    /\ UNCHANGED hasStore

UploadedIds(c) == {call[c].uploaded[i].id : i \in DOMAIN call[c].uploaded}
AssetWithId(c, id) == CHOOSE a \in {call[c].uploaded[i] : i \in DOMAIN call[c].uploaded} : a.id = id

\* resolve_units: every reference is to an uploaded asset, or parse raises.
Resolve(c) ==
    /\ call[c].phase = "uploading" /\ ~Uploading(c)
    /\ IF RefsOf[call[c].doc] \subseteq UploadedIds(c)
       THEN call' = [call EXCEPT ![c].phase = "returned",
                ![c].refs = {<<id, AssetWithId(c, id).key>> : id \in RefsOf[call[c].doc]}]
       ELSE Enter(c, "raised")
    /\ UNCHANGED <<hasStore, bucket>>

\* The process dies and forgets the call; what it stored stays.
Crash(c) ==
    /\ call[c].phase # "idle"
    /\ call' = [call EXCEPT ![c] = [Idle EXCEPT !.tries = call[c].tries]]
    /\ UNCHANGED <<hasStore, bucket>>

Next ==
    \E c \in Calls :
        \/ \E d \in Docs : Start(c, d)
        \/ PutSucceeds(c)
        \/ \E reached \in BOOLEAN : PutFails(c, reached)
        \/ Resolve(c)
        \/ Crash(c)

Spec == Init /\ [][Next]_vars

-----------------------------------------------------------------------------
(* Properties *)

Contents == UNION {{Bytes[d][id] : id \in Ids} : d \in Docs}

\* A call knows what it uploaded: the first assets of its document, in order.
TypeOK ==
    /\ hasStore \in BOOLEAN
    /\ bucket \in [Keys -> Contents \cup {None}]
    /\ \A c \in Calls :
          /\ call[c].phase \in {"idle", "uploading", "returned", "raised"}
          /\ call[c].tries \in 0..MaxTries
          /\ call[c].phase = "idle" => call[c].uploaded = <<>>
          /\ call[c].phase # "idle" =>
                /\ call[c].doc \in Docs
                /\ Len(call[c].uploaded) <= Len(AssetsOf[call[c].doc])
                /\ \A i \in DOMAIN call[c].uploaded :
                      call[c].uploaded[i] = Asset(call[c].doc, AssetsOf[call[c].doc][i])

\* What a ParseResult says is stored is stored, with the bytes its sha256 is
\* of, whatever other calls did, failed to do or left behind.
ResultsStored ==
    /\ TypeOK
    /\ \A c \in Calls : call[c].phase = "returned" =>
          \A i \in DOMAIN call[c].uploaded :
              bucket[call[c].uploaded[i].key] = call[c].uploaded[i].sha

\* The units of a ParseResult refer to assets of their own document that are
\* in the store, all of them.
RefsResolved ==
    \A c \in Calls : call[c].phase = "returned" =>
        /\ {r[1] : r \in call[c].refs} = RefsOf[call[c].doc]
        /\ \A r \in call[c].refs : r[2] \in Keys /\ r[2][1] = call[c].doc /\ r[2][2] = r[1]
                                    /\ bucket[r[2]] = Bytes[call[c].doc][r[1]]

\* What a result of a parse names is stored, and nothing dangles
\* (upload_assets, resolve_units).
AssetsRight == ResultsStored /\ RefsResolved

\* Parsing again, after a failure or beside another call, never changes an
\* object that is there.
StoredOnceForAll == [][\A k \in Keys : bucket[k] # None => bucket'[k] = bucket[k]]_vars

=============================================================================
