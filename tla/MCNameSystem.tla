----------------------------- MODULE MCNameSystem -----------------------------
(***************************************************************************)
(* An instance of NameSystem for TLC: a domain, an IPNS name and an IPRS   *)
(* name, each of which may lead to another or to content.                  *)
(***************************************************************************)
EXTENDS NameSystem, TLC

CONSTANTS owner, other

MCCidParts == {"QmData", "QmKey"}
MCRawParts == {"rawData"}
MCCidIn == "QmData" :> "data" @@ "QmKey" :> "key" @@ "rawData" :> "data"
MCDomainParts == {"ipfs.io"}
MCIpnsNames == {"QmKey"}
MCPubKey == "QmKey" :> owner

-----------------------------------------------------------------------------
\* "dnslink=/ipns/QmKey/b" is accepted as it is, "dnslink=/iprs/QmKey/id" not.
LinkToIpns == <<"dnslink=", "ipns", "QmKey", "b">>
LinkToIprs == <<"dnslink=", "iprs", "QmKey", "id", "c">>

MCLinkIn ==
    LinkToIpns :> <<"", "ipns", "QmKey", "b">> @@
    LinkToIprs :> <<"", "iprs", "QmKey", "id", "c">>

MCTxtLists ==
    [root |-> {<<>>, <<LinkToIpns>>, <<<<"v=spf1">>, LinkToIprs>>},
     sub |-> {<<>>, <<LinkToIpns>>, <<<<"QmData">>>>}]

-----------------------------------------------------------------------------
Entry(value, validity, vtype, by) ==
    LET e == [value |-> value, validity |-> validity, vtype |-> vtype]
    IN  [value |-> value, validity |-> validity, vtype |-> vtype,
         sig |-> [by |-> by, data |-> entryDataForSig(e)]]

ToContent == Entry(<<"", "ipfs", "QmData", "a">>, FormatRFC3339(3), "EOL", owner)
ToDomain == Entry(<<"", "ipns", "ipfs.io">>, <<Text("no time")>>, "EOL", owner)
ToNothing == Entry(<<"", "git", "QmData">>, FormatRFC3339(3), "EOL", owner)

\* The signed bytes of ToContent, with the end of the value in the validity.
ShorterValue ==
    [ToContent EXCEPT !.value = <<"", "ipfs", "QmData">>,
                      !.validity = <<Text("a")>> \o FormatRFC3339(3)]

MCSigned == "QmKey" :> {ToContent, ToDomain, ToNothing}

MCIpnsPuts ==
    {[name |-> "QmKey", entry |-> e] : e \in
        {ToContent, ToDomain, ToNothing, Junk, ShorterValue,
         [ToContent EXCEPT !.validity = FormatRFC3339(9)],
         [ToContent EXCEPT !.sig.by = other]}}

MCIprsValues == {<<"", "iprs", "QmKey", "id", "e">>}

MCInputs ==
    {<<"", "ipns", "ipfs.io", "x", "">>, <<"", "iprs", "QmKey", "id", "..", "id">>,
     <<"", "iprs", "QmKey", "..", "badcid", "id">>, <<"", "iprs", "QmKey", "id", "..">>}
=============================================================================
