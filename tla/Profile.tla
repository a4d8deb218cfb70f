------------------------------- MODULE Profile -------------------------------
(***************************************************************************)
(* Which cluster, registry and credentials readpanda is to use: the rpk    *)
(* file (internal/profile), the flags (cmd/readpanda/main.go) and what the *)
(* clients make of a profile.                                              *)
(*                                                                         *)
(* A name, address, user or password is represented by the place it stems  *)
(* from, the empty string if it is missing; something a file may leave out *)
(* is a sequence of at most one element.                                   *)
(***************************************************************************)
EXTENDS Sequences, SequencesExt

OrElse(s, default) == IF s = "" THEN default ELSE s

\* The view of one rpk profile: a tls block turns TLS on unless it says off.
\* Registry users and passwords are looked for in basic_auth first, each for
\* itself.
ToProfile(raw) ==
    LET sasl == IF raw.sasl = <<>> THEN [user |-> "", pass |-> ""] ELSE raw.sasl[1]
        basic == IF raw.basicAuth = <<>> THEN [user |-> "", pass |-> ""]
                                         ELSE raw.basicAuth[1]
    IN  [name |-> raw.name, brokers |-> raw.brokers,
         saslUser |-> sasl.user, saslPass |-> sasl.pass,
         tls |-> raw.tls \in {"empty", "on"},
         srAddresses |-> raw.srAddresses,
         srUser |-> OrElse(basic.user, raw.srUser),
         srPass |-> OrElse(basic.pass, raw.srPass)]

EmptyProfile ==
    [name |-> "", brokers |-> <<>>, saslUser |-> "", saslPass |-> "", tls |-> FALSE,
     srAddresses |-> <<>>, srUser |-> "", srPass |-> ""]

\* LoadFrom: a file that is missing is not one that cannot be read or parsed.
LoadFrom(disk) ==
    [state |-> disk.state, current |-> disk.current,
     profiles |-> [i \in DOMAIN disk.profiles |-> ToProfile(disk.profiles[i])]]

\* The first profile of the name, if there is one.
Find(file, name) ==
    LET i == SelectInSeq(file.profiles, LAMBDA p : p.name = name)
    IN  IF i = 0 THEN <<>> ELSE <<file.profiles[i]>>

Current(file) == IF file.current = "" THEN <<>> ELSE Find(file, file.current)

Selected(cli, file) ==
    IF cli.profileName # "" THEN Find(file, cli.profileName) ELSE Current(file)

\* Mutant: --brokers replaces the brokers of the profile and nothing else.
BaseMixed(cli, file) ==
    LET found == IF file.state = "ok" THEN Selected(cli, file) ELSE <<>>
        base == IF found = <<>> THEN EmptyProfile ELSE found[1]
    IN  IF cli.brokers = <<>> THEN base ELSE [base EXCEPT !.brokers = cli.brokers]

\* --brokers puts the flags in the place of the profile; without it the other
\* flags of the cluster are not looked at.
Base(cli, file) ==
    LET found == IF file.state = "ok" THEN Selected(cli, file) ELSE <<>>
    IN  IF cli.brokers # <<>>
        THEN [EmptyProfile EXCEPT !.name = OrElse(cli.profileName, "cli"),
                 !.brokers = cli.brokers, !.tls = cli.tls,
                 !.saslUser = cli.saslUser, !.saslPass = cli.saslPass]
        ELSE IF found = <<>> THEN EmptyProfile ELSE found[1]

\* resolveProfile: nothing if it fails.  A file that cannot be parsed is an error
\* whatever the flags say.
ResolveProfile(cli, file) ==
    LET base == Base(cli, file)
    IN  IF file.state = "bad" \/ base.brokers = <<>> THEN <<>>
        ELSE <<[base EXCEPT
                  !.srAddresses = IF cli.srURL = "" THEN @ ELSE <<cli.srURL>>,
                  !.srUser = OrElse(cli.srUser, @), !.srPass = OrElse(cli.srPass, @)]>>

\* adminFromProfile and NewAdmin: no brokers is an error, and SASL is for a user
\* with a password.
AdminOf(p) ==
    IF p.brokers = <<>> THEN <<>>
    ELSE <<[brokers |-> p.brokers, tls |-> p.tls,
            sasl |-> IF p.saslUser = "" \/ p.saslPass = "" THEN <<>>
                     ELSE <<[user |-> p.saslUser, pass |-> p.saslPass]>>]>>

\* registryFromProfile: the first address, with the registry's credentials or,
\* each for itself, the cluster's; no user, no basic auth.
RegistryOf(p) ==
    LET user == OrElse(p.srUser, p.saslUser)
    IN  IF p.srAddresses = <<>> THEN <<>>
        ELSE <<[address |-> p.srAddresses[1], user |-> user,
                pass |-> IF user = "" THEN "" ELSE OrElse(p.srPass, p.saslPass)]>>
=============================================================================
