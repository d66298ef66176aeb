------------------------------ MODULE MCUploads ------------------------------
(***************************************************************************)
(* Small stores, documents and samples for the three that write to the     *)
(* object store.                                                           *)
(***************************************************************************)
EXTENDS Uploads

\* Two calls and two documents that number their images alike, one of them
\* with a reference to an image that it has not; and a text without images.
MCAssetsOf == [d \in Docs |-> CASE d = "report" -> <<"img1", "img2">>
                                [] d = "broken" -> <<"img1">>
                                [] d = "text" -> <<>>]
MCRefsOf == [d \in Docs |-> CASE d = "report" -> {"img1", "img2"}
                              [] d = "broken" -> {"img1", "img2"}
                              [] d = "text" -> {}]
MCBytes == [d \in Docs |-> [id \in Ids |-> <<d, id>>]]

\* Five objects in two folders, sizes in two bands and above; two quantiles a
\* band. Contents 1 and 2 are of one size, 2 cannot be parsed, the parse of 4
\* does not end, 6 is too large for a sample, and 7 is what a torn write left.
MCSize == <<1, 1, 2, 4, 5, 9, 0>>
MCRemotes == {<<1, 2, 3, 4, 5>>, <<3, 1, 2, 5, 4>>, <<1, 3, 6, 4, 5>>, <<1, 3, 5, 4, 6>>}
MCNewer == {<<1, 2>>, <<2, 3>>, <<4, 5>>}
MCFolder == <<1, 1, 1, 2, 2>>
MCTenths == <<3, 7>>
MCBands == << [lower |-> 0, upper |-> 2], [lower |-> 2, upper |-> 5] >>

\* Seven documents of which two are one content, a store too small for its
\* buckets, and one with too few contents for three of them.
Document(g, f, c, k) == [group |-> g, family |-> f, content |-> c, kinds |-> k]
MCStores == {
    << Document(1, 1, 1, {"table"}), Document(1, 2, 1, {"table", "asset"}),
       Document(2, 2, 2, {"diagram"}), Document(2, 1, 3, {"asset", "table"}),
       Document(3, 3, 4, {"table"}), Document(3, 3, 5, {}), Document(1, 1, 6, {"diagram"}) >>,
    << Document(1, 1, 1, {"table"}) >>,
    << Document(1, 1, 1, {"table"}), Document(1, 1, 2, {"asset"}), Document(1, 2, 2, {"table"}),
       Document(2, 2, 3, {"diagram", "table"}) >> }

=============================================================================
