------------------------------ MODULE MCKeyStore ------------------------------
EXTENDS KeyStore

\* Documents a and a:__documents, and centroids a and a__centroids: ids that are prefixes of each
\* other and of the keys of each other, are shared by documents and centroids, and hold a colon
\* or a word.
MCDocIds == {<<"a">>, <<"a", ":", "__documents">>}
MCCentroidIds == {<<"a">>, <<"a", "__centroids">>}

\* Up to the number of documents, and the greatest and the least negative number of four bits.
MCCounts == {-8} \cup -1..2
=============================================================================
