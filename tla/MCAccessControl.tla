---------------------------- MODULE MCAccessControl ----------------------------
(* Instances of AccessControl for TLC: three requests from two clients and the *)
(* proxy, by README.md's two locations, by a proxy that only knows             *)
(* X-Forwarded-For and straight; the rate limit under a list that leaves out a *)
(* client, and without it every kind of list.                                 *)
EXTENDS AccessControl, TLC

CONSTANTS a1, a2, proxy, r1, r2, r3

MCForwarded == {<<>>, <<a2>>}

MCAddress(a) == [kind |-> "address", of |-> a]

MCWay(proxied, real, forwarded) ==
  [proxied |-> proxied, XRealIP |-> real, XForwardedFor |-> forwarded]

MCWays == { MCWay(TRUE, "set", "appended"), MCWay(TRUE, "passed", "passed"),
            MCWay(TRUE, "passed", "appended"), MCWay(FALSE, "passed", "passed") }

MCPartial == {Blank, MCAddress(a1), [kind |-> "cidr", of |-> {proxy}]}

MCLists ==
  { {}, {Blank}, MCPartial, {[kind |-> "mapped", of |-> a1]}, {MCAddress(a1), Invalid} }

MCConfig ==
  [ALLOWED_IPS : {MCPartial}, trustProxy : BOOLEAN, limited : {TRUE}]
    \cup [ALLOWED_IPS : MCLists, trustProxy : BOOLEAN, limited : {FALSE}]

MCSymmetry == Permutations({r1, r2, r3})
==============================================================================
