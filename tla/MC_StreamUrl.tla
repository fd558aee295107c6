---------------------------- MODULE MC_StreamUrl ----------------------------
EXTENDS StreamUrl, TLC

\* videos.json lists a file hash; /api/link-list adds a share link.
MCBundled == {[linkType |-> FILE_HASH, link |-> <<"a", "a">>, password |-> Null]}
MCRemote == {[linkType |-> SHARE_LINK, link |-> <<"a">>, password |-> <<"a", "a">>]}
=============================================================================
