---------------------------- MODULE MCCdbQueries ----------------------------
EXTENDS CdbQueries

\* The last two are longer than a reply can be.
MCRplLens == {0, 1, 2, 9, 25, 34, 40, 120, 121, 255}
MCGarbage == {0, 5}
MCHostBits == {0, 2, 7}
MCMediaBits == {0, 2, 3}
\* A stack byte with a reserved bit, as host features.
MCGarbageReserved == {8}
MCCertCounts == {0, 1, 2, 5}
MCCertLens == {0, 80, 120, 300, 360, 500}
MCBufSize == 400
\* SFP, XFP, QSFP+, QSFP-DD, and XENPAK, which has no display.
MCIdentifiers == {3, 5, 6, 13, 24}
\* All but CMIS modules, whose flat memories the run "flat" is about.
MCFlatIds == {3, 5, 6, 13}
\* Text of characters that the JSON writer carries, and with an apostrophe.
MCCarried == {"plain", "escaped"}
MCApostrophe == {"plain", "apostrophe"}
\* Failed reads after which the document is closed: of an identifier, an SFP, an
\* XFP, and page 03h of a QSFP.
HandledUnread == {"id", "A0h", "A2h", "xfp_lower", "xfp_01h", "03h"}
AllUnread == Pages
BertOnly == {"bert_read"}
=============================================================================
