------------------------------ MODULE Routing ------------------------------
(***************************************************************************)
(* How the data plane evaluates a router's rules against a request         *)
(* (domain/router.go) and how a flow picks its balancer                    *)
(* (dataplane/api/application.go, ExecuteFlow).                            *)
(*                                                                         *)
(* A request is [host, path, method, header]: texts are sequences of       *)
(* tokens, a header maps canonical names to values.  Rules are evaluated   *)
(* in order and the first that matches decides.                            *)
(***************************************************************************)
EXTENDS Manifests, SequencesExt

CONSTANTS
  UpperCase,          \* strings.EqualFold: a method's upper-case form
  CanonicalHeaderKey  \* textproto.CanonicalMIMEHeaderKey

Colons(t) == {i \in DOMAIN t : t[i] = ":"}

\* net.SplitHostPort: a host without a port, or with too many colons, is an
\* error and stays as it is.
HostWithoutPort(h) ==
  IF \E i \in DOMAIN h : Colons(h) = {i} THEN SubSeq(h, 1, SelectInSeq(h, LAMBDA x : x = ":") - 1)
  ELSE h

\* filepath.Match for a pattern with at most one "*".
Glob(p, h) ==
  LET star == SelectInSeq(p, LAMBDA x : x = "*") IN
  IF star = 0 THEN p = h
  ELSE /\ Len(h) >= Len(p) - 1
       /\ IsPrefix(SubSeq(p, 1, star - 1), h)
       /\ IsSuffix(SubSeq(p, star + 1, Len(p)), h)

\* A header missing from the request reads as the empty text.
HeaderGet(req, name) ==
  LET k == CanonicalHeaderKey[name] IN
  IF k \in DOMAIN req.header THEN req.header[k] ELSE <<>>

HostSuffix(value, host) ==
  LET suffix == IF IsPrefix(<<".">>, value) THEN value ELSE <<".">> \o value IN
  host = Tail(suffix) \/ IsSuffix(suffix, host)

\* "Name:Value", split at the first colon.
HeaderMatches(value, req) ==
  LET colon == SelectInSeq(value, LAMBDA x : x = ":") IN
  /\ colon > 0
  /\ HeaderGet(req, SubSeq(value, 1, colon - 1)) = SubSeq(value, colon + 1, Len(value))

\* RouterCondition.evaluate.  A path_regex that was never compiled matches
\* nothing.
EvaluateCondition(c, req) ==
  \/ c.type = "catch_all"
  \/ c.type = "host" /\ Glob(c.value, HostWithoutPort(req.host))
  \/ c.type = "host_suffix" /\ HostSuffix(c.value, HostWithoutPort(req.host))
  \/ c.type = "path_prefix" /\ IsPrefix(c.value, req.path)
  \/ c.type = "path_regex" /\ c.re # None /\ req.path \in Regexes[c.re]
  \/ c.type = "method" /\ UpperCase[req.method] = UpperCase[c.value]
  \/ c.type = "header" /\ HeaderMatches(c.value, req)

\* RouterMatch.Evaluate: not first, then the shorthand if its type is known,
\* else all, else any.
Evaluate(m, req) ==
  /\ m.nott # None => ~EvaluateCondition(m.nott, req)
  /\ CASE m.type \in MatchTypes -> EvaluateCondition(m, req)
       [] m.type \notin MatchTypes /\ m.all # <<>> ->
            \A c \in Range(m.all) : EvaluateCondition(c, req)
       [] OTHER -> \E c \in Range(m.any) : EvaluateCondition(c, req)

\* The target of the first matching rule, or None.
Resolve(r, req) ==
  LET i == SelectInSeq(r.rules, LAMBDA rule : Evaluate(rule.match, req)) IN
  IF i = 0 THEN None ELSE r.rules[i].target
=============================================================================
