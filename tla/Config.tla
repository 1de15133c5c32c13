------------------------------- MODULE Config -------------------------------
(***************************************************************************)
(* internal/config: what a configuration file and the environment make of  *)
(* the defaults, and which results are refused.  The configuration is      *)
(* flat here, a field has the name it has in the file, and fields of one   *)
(* name in two sections are told apart (pushTimeout is                     *)
(* remoteWrite.timeout).  Fields that are only displayed, or that another  *)
(* module takes as a constant of its own, are left out.                    *)
(*                                                                         *)
(* The kind of a file is "missing", "unreadable", "empty" or "yaml"; its   *)
(* settings are a record that need not have every field, and has none      *)
(* unless the file is YAML.  Durations are literals there,                 *)
(* [n |-> 90, unit |-> "s"], and seconds once they are decoded.  Headers    *)
(* are a function from their names, in canonical form, to texts.  The      *)
(* environment is a record with the variables that are set and not empty.  *)
(***************************************************************************)
EXTENDS Integers

CONSTANTS
    HttpUrls,       \* the URLs that begin with http:// or https://
    SecretNames     \* the header names with auth, token, key or secret in them

NoHeaders == [h \in {} |-> ""]

Default ==
    [port |-> 8080, interval |-> 60, timeout |-> 30,
     clusterConcurrency |-> 4, nodeConcurrency |-> 8,
     includeNamespaces |-> {}, excludeNamespaces |-> {},
     enabled |-> FALSE, url |-> "", tenantId |-> "", pushTimeout |-> 30,
     username |-> "", password |-> "", passwordFile |-> "",
     bearerTokenFile |-> "", headers |-> NoHeaders, caFile |-> "",
     maxSamplesPerSend |-> 500, maxShards |-> 2,
     warning |-> 75, critical |-> 90]

Durations == {"interval", "timeout", "pushTimeout"}

UnitSeconds == [s |-> 1, m |-> 60, none |-> 1]

\* time.ParseDuration wants a unit, except for 0.  A bare number does not reach
\* the branch for seconds (duration.go:27): YAML decodes it into a string, so
\* the first branch takes it and refuses it.
IsDuration(literal) == literal.unit # "none" \/ literal.n = 0

Seconds(literal) == literal.n * UnitSeconds[literal.unit]

\* KnownFields(true), and every duration parses.
Decodes(settings) ==
    /\ DOMAIN settings \subseteq DOMAIN Default
    /\ \A f \in Durations \cap DOMAIN settings : IsDuration(settings[f])

Decoded(settings) ==
    [f \in DOMAIN Default |->
        IF f \notin DOMAIN settings THEN Default[f]
        ELSE IF f \in Durations THEN Seconds(settings[f])
        ELSE settings[f]]

Overridable == {"url", "tenantId", "username", "password"}

\* A username or password without a basicAuth section makes one.
ApplyEnv(c, env) ==
    [f \in DOMAIN c |-> IF f \in DOMAIN env \cap Overridable THEN env[f] ELSE c[f]]

-----------------------------------------------------------------------------
(***************************************************************************)
(* Validate.                                                               *)
(***************************************************************************)
ValidCollector(c) ==
    /\ c.interval >= 5
    /\ c.timeout > 0
    /\ c.timeout <= c.interval
    /\ c.clusterConcurrency >= 1
    /\ c.nodeConcurrency >= 1
    /\ c.includeNamespaces = {} \/ c.excludeNamespaces = {}

\* remoteWrite.timeout is not looked at.
ValidRemoteWrite(c) ==
    c.enabled =>
        /\ c.url \in HttpUrls
        /\ c.maxSamplesPerSend >= 1
        /\ c.maxShards >= 1

ValidThresholds(c) ==
    /\ 0 < c.warning /\ c.warning < 100
    /\ 0 < c.critical /\ c.critical <= 100
    /\ c.warning < c.critical

\* Mutant of Valid: the collector's section is not looked at.
ValidButCollector(c) ==
    c.port \in 1 .. 65535 /\ ValidRemoteWrite(c) /\ ValidThresholds(c)

Valid(c) ==
    /\ c.port \in 1 .. 65535
    /\ ValidCollector(c)
    /\ ValidRemoteWrite(c)
    /\ ValidThresholds(c)

-----------------------------------------------------------------------------
(***************************************************************************)
(* Load.  A document with nothing in it is an error, unlike no file.       *)
(***************************************************************************)
Loaded(file, env) ==
    ApplyEnv(IF file.kind = "missing" THEN Default ELSE Decoded(file.settings), env)

Loads(file, env) ==
    /\ file.kind \in {"missing", "yaml"}
    /\ file.kind = "yaml" => Decodes(file.settings)
    /\ Valid(Loaded(file, env))

\* What /api/config and /api/config.yaml show.
Redacted(c) ==
    [c EXCEPT !.password = "",
              !.headers = [h \in DOMAIN @ |->
                              IF h \in SecretNames THEN "***redacted***" ELSE @[h]]]

\* The headers of a push: those of the configuration over the one that
\* tenantId makes.
Headers(c) ==
    [h \in DOMAIN c.headers \cup (IF c.tenantId = "" THEN {} ELSE {"X-Scope-Orgid"}) |->
        IF h \in DOMAIN c.headers THEN c.headers[h] ELSE c.tenantId]

\* What replaces their Authorization: the bearer token over basic
\* authentication, the password over the file that holds one.
Authorization(c) ==
    IF c.bearerTokenFile # "" THEN <<"bearer", c.bearerTokenFile>>
    ELSE IF c.username # ""
    THEN <<"basic", c.username, IF c.password = "" THEN c.passwordFile ELSE c.password>>
    ELSE <<"none">>
=============================================================================
