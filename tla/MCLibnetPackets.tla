--------------------------- MODULE MCLibnetPackets ---------------------------
EXTENDS LibnetPackets

\* A raw socket has no link layer.
MCContexts == {<<"LINK", "EN10MB">>, <<"LINK_ADV", "IEEE802">>, <<"RAW4", "NONE">>, <<"RAW6", "NONE">>}
=============================================================================
