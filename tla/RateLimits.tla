------------------------------- MODULE RateLimits -------------------------------
(***************************************************************************)
(* The limits of DDoSProtection, which init sets one by one, and the       *)
(* choice among them for the path of a request.  A path is the sequence of *)
(* its pieces, cut so that one path is a prefix of another as a text       *)
(* exactly when it is one as a sequence; all of them begin /api/v1/.       *)
(***************************************************************************)
EXTENDS Integers, SequencesExt

Config(requestLimit, windowSeconds, banTimeSeconds) ==
  [requestLimit |-> requestLimit, windowSeconds |-> windowSeconds,
   banTimeSeconds |-> banTimeSeconds]

default_config == Config(100, 60, 1800)

Login         == <<"auth/", "login">>
Register      == <<"auth/", "re", "gister">>
Refresh       == <<"auth/", "re", "fresh">>
ResetPassword == <<"auth/", "re", "set-password">>
Decrease      == <<"balance/", "decrease">>
Increase      == <<"balance/", "increase">>
CreatePayment == <<"payments/", "create">>

\* The routes of SetupRoutes.
Routes == {Login, Register, Refresh, ResetPassword, Decrease, Increase, CreatePayment}

Rule(path, requestLimit, windowSeconds, banTimeSeconds) ==
  [path |-> path, config |-> Config(requestLimit, windowSeconds, banTimeSeconds)]

\* Mutant: one limit for what the three routes have in common.
RulesByPrefix ==
  << Rule(Login,               5,  60, 1800),
     Rule(<<"auth/", "re">>,   3,  60, 1800),
     Rule(Refresh,            10,  60, 1800),
     Rule(Decrease,           30,  60, 1800),
     Rule(Increase,           30,  60, 1800),
     Rule(CreatePayment,      20,  60, 1800) >>

\* Mutant: the limit of registrations is one of the hour.
RulesByHour ==
  << Rule(Login,          5,   60, 1800),
     Rule(Register,       5, 3600, 1800),
     Rule(Refresh,       10,   60, 1800),
     Rule(ResetPassword,  3,  300, 1800),
     Rule(Decrease,      30,   60, 1800),
     Rule(Increase,      30,   60, 1800),
     Rule(CreatePayment, 20,   60, 1800) >>

\* The calls of setRateLimit in init.
Rules ==
  << Rule(Login,          5,  60, 1800),
     Rule(Register,       3,  60, 1800),
     Rule(Refresh,       10,  60, 1800),
     Rule(ResetPassword,  3, 300, 1800),
     Rule(Decrease,      30,  60, 1800),
     Rule(Increase,      30,  60, 1800),
     Rule(CreatePayment, 20,  60, 1800) >>

\* path_configs_[endpoint] = ...
SetConfig(configs, rule) ==
  [p \in DOMAIN configs \cup {rule.path} |->
     IF p = rule.path THEN rule.config ELSE configs[p]]

\* findConfigForPath: the entry of the path itself, or else the first entry
\* in the order of the hash table whose path is a prefix, or else the
\* default.  The order is not specified, so any such entry may be the first.
FindConfig(configs, path) ==
  LET prefixes == { p \in DOMAIN configs : IsPrefix(p, path) }
  IN IF path \in DOMAIN configs THEN {configs[path]}
     ELSE IF prefixes = {}      THEN {default_config}
     ELSE { configs[p] : p \in prefixes }

=============================================================================
