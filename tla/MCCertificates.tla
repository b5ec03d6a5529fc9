--------------------------- MODULE MCCertificates ---------------------------
(***************************************************************************)
(* Certificates for TLC: two wildcards, *.example.com and *.a.example.com, *)
(* the name b.example.com that only the first covers, x.a.example.com that *)
(* both do, and one outside.                                               *)
(***************************************************************************)
EXTENDS Certificates

CONSTANTS wide, narrow, inner, outer, foreign

MCCovers == {<<wide, outer>>, <<wide, inner>>, <<narrow, inner>>}
MCFits == MCCovers \ {<<wide, inner>>}

Entry(w, dns, ca, backupOn, email) ==
    [domain |-> w, dns |-> dns, ca |-> ca, backup |-> "", backupOn |-> backupOn,
     negative |-> FALSE, email |-> email]

(* Each wildcard in order and with an unusable provider, one without the   *)
(* email its backup CA needs, one with the backup switched off, one with a *)
(* negative number of retries.                                             *)
MCWildcardEntries ==
    {Entry(w, "cloudflare", "", TRUE, TRUE) : w \in Wildcards}
    \cup {Entry(w, "unusable", "zerossl", TRUE, TRUE) : w \in Wildcards}
    \cup {Entry(wide, "cloudflare", "", TRUE, FALSE),
          Entry(narrow, "cloudflare", "letsencrypt", FALSE, FALSE),
          [Entry(narrow, "cloudflare", "", TRUE, TRUE) EXCEPT !.negative = TRUE]}

Host(n, offload, managed, files) ==
    [name |-> n, offload |-> offload, managed |-> managed, files |-> files]

MCVHostEntries ==
    {Host(n, TRUE, TRUE, "none") : n \in Names}
    \cup {Host(inner, TRUE, FALSE, "both"), Host(inner, TRUE, TRUE, "both"),
          Host(outer, TRUE, FALSE, "half"), Host(outer, TRUE, FALSE, "none"),
          Host(foreign, FALSE, FALSE, "none")}
=============================================================================
