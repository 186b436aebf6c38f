---------------------------- MODULE MCAuditorTab ----------------------------
(* Two auditors of two organisations in one browser.  ann finds two mails  *)
(* of one conversation without criteria, on two pages, and one of them     *)
(* with criteria; bob finds one.                                           *)
EXTENDS AuditorTab, TLC

CONSTANTS ann, bob, o1, o2, m1, m2, m3, none, words, c1, c2, p1, p2

MCRoleOf == [u \in Users |-> "auditor"]
MCOrgOf == (ann :> o1) @@ (bob :> o2)
MCMailOrg == (m1 :> o1) @@ (m2 :> o1) @@ (m3 :> o2)
MCHits == (ann :> ((none :> <<m1, m2>>) @@ (words :> <<m2>>)))
       @@ (bob :> ((none :> <<m3>>) @@ (words :> <<>>)))
MCPublicId == (o1 :> p1) @@ (o2 :> p2)
MCCaseOrg == (c1 :> o1) @@ (c2 :> o2)
MCReadable == (ann :> {m1, m2}) @@ (bob :> {m3})
MCThreadOf == [u \in Users |-> [m \in Mails |->
                 IF m \in MCReadable[u] THEN MCReadable[u] ELSE {}]]
MCStatusOf == [u \in Users |-> [m \in Mails |->
                 IF m \notin MCReadable[u] THEN "ERROR"
                 ELSE IF m = m2 THEN "TAMPERED" ELSE "VALID"]]
=============================================================================
