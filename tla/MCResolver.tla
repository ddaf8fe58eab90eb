------------------------------ MODULE MCResolver ------------------------------
(***************************************************************************)
(* Instances of Resolver for TLC: a domain, an IPNS name and two IPRS      *)
(* names that may refer to each other, to content, and to nothing useful.  *)
(***************************************************************************)
EXTENDS Resolver, TLC

MCCidParts == {"QmData", "QmKey"}
MCRawParts == {"rawData"}
MCCidIn == "QmData" :> "data" @@ "QmKey" :> "key" @@ "rawData" :> "data"
MCDomainParts == {"ipfs.io"}

ToContent == {<<"", "ipfs", "QmData", "a">>, <<"rawData">>}
ToNames == {<<"", "ipns", "ipfs.io", "", "b">>, <<"", "iprs", "QmKey", "id", "c">>}
Unusable == {<<"", "iprs", "QmKey">>}

\* FromString accepts these; cleaning leaves no id, another name, and no CID.
Climbing ==
    {<<"", "iprs", "QmKey", "id", "..">>,
     <<"", "iprs", "QmKey", "x", "..", "id", ".", "c">>,
     <<"", "iprs", "QmKey", "..", "badcid", "id">>}

MCValues == ToContent \cup ToNames \cup Unusable

MCInputs ==
    {<<"", "ipns", "ipfs.io", "x", "">>, <<"", "iprs", "QmKey", "id", "y", "z">>,
     <<"", "ipns", "QmKey">>, <<"QmData", "w">>, <<"", "git", "QmData">>}
    \cup Climbing

\* Limits, UnlimitedDepth, and a depth below it, which the code also takes.
MCDepths == {-1, 0, 2, 3}
=============================================================================
