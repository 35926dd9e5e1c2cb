------------------------- MODULE MCLocalizedStrategy -------------------------
\* LocalizedStrategy with two kinds of manifests: some with two rules and
\* reservoirs, and one for each short pattern, to try the wildcards.
EXTENDS LocalizedStrategy

Any == <<"*">>
NewRule(h, u, s, t, r) ==
    [host |-> h, url |-> u, method |-> Any, service |-> s, target |-> t, rate |-> r]
DefaultRule(t, r) ==
    [NewRule(<<>>, <<>>, <<>>, t, r) EXCEPT !.method = <<>>]
NewManifest(v, d, rs) == [version |-> v, default |-> d, rules |-> rs]

Strings(S, n) == UNION {[1..k -> S] : k \in 0..n}

\* Two rules and the default; the second has no reservoir.
WithReservoirs ==
    {NewManifest(v, DefaultRule(1, "always"),
                 <<NewRule(<<"a">>, Any, s, 2, "never"),
                   NewRule(<<"*", "b">>, <<"?">>, s, 0, "sometimes")>>)
        : v \in {1, 2}, s \in {<<>>, Any}}

Rejected ==
    {NewManifest(v, DefaultRule(t, r), <<>>) : v \in {0, 2}, t \in {-1, 1}, r \in {"negative", "never"}}

Patterns ==
    Strings({"a", "B", "*", "?"}, 2) \cup Strings({"B", "*", "?"}, 3)
        \cup {<<"*", "a", "b", "*">>, <<"*", "?", "a", "?">>, <<"a", "*", "b", "*", "b">>,
              <<"*">> \o WideChar}

WithPatterns ==
    {NewManifest(2, DefaultRule(0, "never"), <<NewRule(p, Any, Any, 0, "never")>>) : p \in Patterns}

MCManifests == WithReservoirs \cup Rejected \cup WithPatterns

Hosts ==
    Strings({"A", "b"}, 2)
        \cup {<<"a", "b", "b">>, <<"a", "b", "a">>, <<"a", "b", "a", "b">>,
              WideChar, <<"a">> \o WideChar}

MCRequests ==
    {[host |-> h, url |-> u, method |-> <<"b">>] : h \in Hosts, u \in {<<>>, <<"a">>}}
=============================================================================
