----------------------------- MODULE MCSession -----------------------------
(* Command lines and rpk files for Session. *)
EXTENDS Session

\* A profile of the file whose every value stems from it, with TLS and registry
\* as given.
Raw(name, tls, sr) ==
    [name |-> name, brokers |-> <<name>>, sasl |-> <<[user |-> name, pass |-> name]>>,
     tls |-> tls, srAddresses |-> sr, basicAuth |-> <<>>, srUser |-> "", srPass |-> ""]

Prod == [Raw("prod", "on", <<"prod">>) EXCEPT
           !.basicAuth = <<[user |-> "prod", pass |-> ""]>>, !.srPass = "prod"]
Dev == Raw("dev", "absent", <<>>)
Half == [Raw("half", "empty", <<"half">>) EXCEPT !.sasl[1].pass = ""]
Bare == [Raw("bare", "off", <<>>) EXCEPT !.brokers = <<>>, !.sasl = <<>>]

MCDisks ==
    {[state |-> s, current |-> "", profiles |-> <<>>] : s \in {"missing", "bad"}}
    \cup {[state |-> "ok", current |-> c, profiles |-> <<Prod, Bare, Dev, Half>>] :
             c \in {"", "prod", "bare"}}

Nothing ==
    [profileName |-> "", brokers |-> <<>>, saslUser |-> "", saslPass |-> "",
     tls |-> FALSE, srURL |-> "", srUser |-> "", srPass |-> ""]

MCCLIs ==
    LET flags == [Nothing EXCEPT !.brokers = <<"flags">>]
        names == {[Nothing EXCEPT !.profileName = n] : n \in {"", "half", "gone"}}
        clusters == {[flags EXCEPT !.saslUser = "flags", !.saslPass = "flags"],
                     [flags EXCEPT !.profileName = "prod", !.tls = TRUE]}
        Registry(c) == [c EXCEPT !.srURL = "flags", !.srUser = "flags", !.srPass = "flags"]
    IN  names \cup clusters \cup {flags, [Nothing EXCEPT !.srURL = "flags"]}
          \cup {Registry(c) : c \in names \cup {flags}}
=============================================================================
