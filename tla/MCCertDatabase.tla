--------------------------- MODULE MCCertDatabase ---------------------------
(***************************************************************************)
(* Model-checking instance of CertDatabase: one issuer, two expiry dates,  *)
(* and four log entries:                                                   *)
(*   eFinal  - a certificate with an ldap DP before an http DP;            *)
(*   ePre    - its precertificate: same serial, same shard, http DP only;  *)
(*   eOther  - another serial of the same shard, no DPs;                   *)
(*   eLater  - a certificate of the same issuer in the second expiry date. *)
(***************************************************************************)
EXTENDS CertDatabase

CONSTANTS eFinal, ePre, eOther, eLater, d1, d2, i1, s1, s2, s3, n1, u1, u2

MCCertOf ==
    [e \in {eFinal, ePre, eOther, eLater} |->
        CASE e = eFinal -> [serial |-> s1, expDate |-> d1, issuer |-> i1, dn |-> n1,
                            crls |-> <<[url |-> u1, scheme |-> "ldap"],
                                       [url |-> u2, scheme |-> "http"]>>]
          [] e = ePre   -> [serial |-> s1, expDate |-> d1, issuer |-> i1, dn |-> n1,
                            crls |-> <<[url |-> u2, scheme |-> "http"]>>]
          [] e = eOther -> [serial |-> s2, expDate |-> d1, issuer |-> i1, dn |-> n1,
                            crls |-> <<>>]
          [] e = eLater -> [serial |-> s3, expDate |-> d2, issuer |-> i1, dn |-> n1,
                            crls |-> <<[url |-> u1, scheme |-> "https"]>>]]
=============================================================================
