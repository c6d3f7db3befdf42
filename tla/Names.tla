-------------------------------- MODULE Names --------------------------------
(***************************************************************************)
(* The string operations of providers/common/utils.go whose result the     *)
(* rest of the program depends on: which object gets which name, and in    *)
(* which order keys are visited.                                           *)
(*                                                                         *)
(* A string is a sequence of tokens.  A token is either one character      *)
(* outside [a-zA-Z0-9] or a maximal alphanumeric run, so "*.example.com"   *)
(* is <<"*", ".", "example", ".", "com">>.  Two different hosts can have   *)
(* the same name, and the name of an Ingress can run into the name of its  *)
(* host: tokens keep exactly that.                                         *)
(***************************************************************************)
EXTENDS Orders

CONSTANT
  Alphabet   \* every token the instance uses, in the order Go compares them

\* The tokens that the regular expression [^a-zA-Z0-9]+ matches.
Special == {".", "-", "*", "/"}

ASSUME AlphabetAssumption ==
  /\ Alphabet \in Seq(STRING)
  /\ \A m, n \in DOMAIN Alphabet : Alphabet[m] = Alphabet[n] => m = n
  /\ \E n \in DOMAIN Alphabet : Alphabet[n] = "/"     \* it joins the parts of a key

Tokens == {Alphabet[n] : n \in DOMAIN Alphabet}
String == Seq(Tokens)

Rank(token) == CHOOSE n \in DOMAIN Alphabet : Alphabet[n] = token

\* s < t for Go strings: the first token that differs decides, and a proper
\* prefix comes first.  No run of Alphabet is a proper prefix of another one.
Precedes(s, t) ==
  \E n \in 1..Len(t) :
    /\ n <= Len(s) + 1
    /\ \A m \in 1..(n - 1) : s[m] = t[m]
    /\ n <= Len(s) => Rank(s[n]) < Rank(t[n])

AllHosts == <<"all", "-", "hosts">>

\* Every run of special characters becomes one "-"; a run at the start is
\* dropped; the empty host and "*" are named "all-hosts".
NameFromHost(host) ==
  LET kept == Increasing({n \in DOMAIN host :
                host[n] \notin Special \/ (n > 1 /\ host[n - 1] \notin Special)})
  IN  IF host \in {<<>>, <<"*">>}
      THEN AllHosts
      ELSE [n \in DOMAIN kept |->
              IF host[kept[n]] \in Special THEN "-" ELSE host[kept[n]]]

RouteName(ingressName, host) == ingressName \o <<"-">> \o NameFromHost(host)

DefaultRouteName(ingressName) ==
  ingressName \o <<"-", "default", "-", "backend">>

\* The key ingressRuleGroups are sorted by: "<namespace>/<class>/<host>".
KeyString(key) ==
  key.ns \o <<"/">> \o key.class \o <<"/">> \o key.host

KeyPrecedes(k, l) == Precedes(KeyString(k), KeyString(l))

\* "<prefix>http" and "<prefix>https", the names of a Gateway's listeners.
ListenerName(host, scheme) ==
  IF host = <<>> THEN <<scheme>> ELSE NameFromHost(host) \o <<"-", scheme>>
===============================================================================
