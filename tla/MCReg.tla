------------------------------- MODULE MCReg -------------------------------
(* Instance of Registration: a uses the service, b is there to be found. *)
EXTENDS Registration, TLC

CONSTANTS a, b, k1, k2

MCMaxNonces   == a :> 2
MCMaxResolves == a :> 2
MCMaxCalls    == a :> 2
MCSchemes     == a :> {"RSA160", "DSA160"}
MCRequests    == {<<b, TRUE>>}
MCTexts       == {{k1, k2}}
MCInfo        == a :> <<{k1, k2}, {k1}>>
MCOtherInfo   == b :> {{k2}}
=============================================================================
