----------------------- MODULE MCLegacyIssuerMetadata -----------------------
EXTENDS LegacyIssuerMetadata

(* Spec E3's certificate, ["http://a/crl", "ldap://b", "https://c/crl",    *)
(* "http://a/crl"], with a = 1, b = 2, c = 3; one whose only DPs are an     *)
(* unparsable and a file one; one with an https DP before an ldap one;    *)
(* and one with three http(s) DPs out of order.                            *)
MCDpsOf ==
    [c \in Certs |->
        CASE c = "e3"    -> <<<<"http", 1>>, <<"ldap", 2>>, <<"https", 3>>, <<"http", 1>>>>
          [] c = "other" -> <<<<"unparsable", 2>>, <<"file", 3>>>>
          [] c = "httpsFirst" -> <<<<"https", 2>>, <<"ldaps", 1>>>>
          [] c = "multi" -> <<<<"http", 4>>, <<"https", 1>>, <<"http", 3>>>>]
=============================================================================
