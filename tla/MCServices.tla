---------------------------- MODULE MCServices -----------------------------
EXTENDS Services, TLC

CONSTANTS node, lib, link, spare, good, bad, free, pro, anyone, m1, m2, m3, peerA, peerB

\* Egress: two exact hosts, one of them a private address, and a host under a wildcard.
ATarget(s, h, p, m, f) == [scheme |-> s, host |-> h, port |-> p, method |-> m, path |-> f]
McTarget == {ATarget("https", "api", 443, "POST", "/v1"), ATarget("http", "evil", 80, "GET", "/"),
             ATarget("https", "sub", 443, "GET", "/"), ATarget("https", "sub", 8443, "GET", "/v1"),
             ATarget("http", "10.0.0.1", 80, "GET", "/")}
ARule(k, h, p, m, f, r) == [key |-> k, scheme |-> "https", host |-> h, port |-> p,
                            methods |-> {m}, pathPrefix |-> f, highRisk |-> r]
McCredentials == <<ARule("k1", "api", 443, "POST", "/v1", FALSE),
                   ARule("k2", "*.apex", 443, "GET", "/", FALSE),
                   ARule("k3", "*.apex", 8443, "GET", "/v1", TRUE)>>
McCovers == {<<"api", "api">>, <<"*.apex", "sub">>, <<"10.0.0.1", "10.0.0.1">>}
McUnder  == {<<"/v1", "/v1">>, <<"/", "/">>, <<"/", "/v1">>}

\* Releases of the rootfs: an honest one, and ones altered in the manifest or the archive.
AnEntry(k, s, x, w, t, n) ==
  [kind |-> k, bits |-> s, executable |-> x, shared |-> w, target |-> t, needs |-> n]
Honest == node :> AnEntry("file", good, TRUE, FALSE, NoPath, {lib})
       @@ lib  :> AnEntry("file", good, TRUE, FALSE, NoPath, {})
       @@ link :> AnEntry("symlink", good, FALSE, FALSE, lib, {})
ARelease(m, t) == [manifest |-> [unique |-> TRUE, digest |-> good, node |-> node, files |-> m],
                   archive  |-> [digest |-> good, tree |-> t]]
Astray  == [Honest EXCEPT ![link].target = Outside]
Shared  == [Honest EXCEPT ![lib].shared = TRUE]
Lacking == [Honest EXCEPT ![node].needs = {lib, spare}]
McReleases == {ARelease(Honest, Honest), ARelease(Honest, [Honest EXCEPT ![node].bits = bad]),
               [ARelease(Honest, Honest) EXCEPT !.manifest.unique = FALSE],
               [ARelease(Honest, Honest) EXCEPT !.archive.digest = bad],
               ARelease(Honest, Astray), ARelease(Astray, Astray), ARelease(Honest, Shared),
               ARelease(Shared, Shared), ARelease(Lacking, Lacking),
               ARelease(Honest, Honest @@ spare :> AnEntry("file", good, TRUE, FALSE, NoPath, {}))}

McScore       == [s1 |-> 3, s2 |-> 2, s3 |-> 1]
McDayLimit    == free :> 3 @@ pro :> 4
McMinuteLimit == free :> 2 @@ pro :> 3 @@ anyone :> 1
McFrom        == m1 :> peerA @@ m2 :> peerA @@ m3 :> peerB
McKind        == [webchat |-> "listens", slack |-> "connects", telegram |-> "polls"]
=============================================================================
