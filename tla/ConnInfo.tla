------------------------------ MODULE ConnInfo ------------------------------
(***************************************************************************)
(* Connection strings and what is made of them before a socket is opened:  *)
(* writing and reading them (gaussdb.conninfo, ConnectionInfo), the list   *)
(* of attempts for several hosts, several addresses and a preference for   *)
(* standbys (_conninfo_utils, _conninfo_attempts), SRV records (_dns), and *)
(* the versions that features and vendors are told by (_capabilities,      *)
(* pq.misc, crdb).                                                         *)
(*                                                                         *)
(* A connection string is a sequence of characters and keywords; a value   *)
(* with commas is the sequence of what is between them.                    *)
(***************************************************************************)
EXTENDS Values

-----------------------------------------------------------------------------
(* Strings                                                                  *)

Apostrophe == "'"
Space      == " "
Keywords   == {"host", "user", "options"}

EscapeParam(s, special) ==
  FlattenSeq([i \in DOMAIN s |-> IF s[i] \in special THEN <<Backslash, s[i]>> ELSE <<s[i]>>])
HasSpecial(s, c) == \E i \in DOMAIN s : s[i] = c
QuotedParam(s) == <<Apostrophe>> \o s \o <<Apostrophe>>

_param_escape(s) ==
  LET escaped == EscapeParam(s, {Backslash, Apostrophe})
  IN  IF s = <<>> \/ HasSpecial(s, Space) THEN QuotedParam(escaped) ELSE escaped

\* make_conninfo: "key=value key=value"; params is a sequence of pairs.
Written(params, Write(_)) ==
  FlattenSeq([i \in DOMAIN params |->
                (IF i > 1 THEN <<Space>> ELSE <<>>)
                  \o <<params[i][1], "=">> \o Write(params[i][2])])
make_conninfo(params) == Written(params, _param_escape)

\* ConnectionInfo.dsn: quotes where it must, without escaping backslashes.
dsn_value(s) == IF HasSpecial(s, Space) \/ HasSpecial(s, "=") \/ HasSpecial(s, Apostrophe)
                THEN QuotedParam(EscapeParam(s, {Apostrophe})) ELSE s
dsn(params) == Written(params, dsn_value)

\* ConnectionInfo.get_parameters: what is set and not the default, without the
\* password.  Without the options of libpq, what the connection tells.
get_parameters(info, defaults, attributes) ==
  IF info = None THEN SelectSeq(attributes, LAMBDA p : p[2] # <<>>)
  ELSE SelectSeq(info, LAMBDA p : p[1] # "password" /\ p \notin defaults)

\* libpq's conninfo_parse, a character at a time; the last value of a keyword
\* holds.
ReadingKey == [at |-> "key", key |-> None, raw |-> <<>>, out |-> <<>>]
KeepParam(st) == [ReadingKey EXCEPT !.out = Append(st.out, <<st.key, st.raw>>)]
TakeChar(st, at, c) == [st EXCEPT !.at = at, !.raw = Append(@, c)]
ConnScan(st, c) ==
  IF st.at = "key" THEN IF c = Space THEN st
                           ELSE IF c \in Keywords THEN [st EXCEPT !.at = "equals", !.key = c]
                           ELSE [st EXCEPT !.at = "fail"]
  ELSE IF st.at = "equals" THEN [st EXCEPT !.at = IF c = "=" THEN "value" ELSE "fail"]
  ELSE IF st.at = "value" /\ c = Space THEN st
  ELSE IF st.at = "value" /\ c = Apostrophe THEN [st EXCEPT !.at = "quoted"]
  ELSE IF st.at \in {"value", "bare"} /\ c = Backslash THEN [st EXCEPT !.at = "bare escape"]
  ELSE IF st.at = "bare" /\ c = Space THEN KeepParam(st)
  ELSE IF st.at \in {"value", "bare", "bare escape"} THEN TakeChar(st, "bare", c)
  ELSE IF st.at = "quoted" /\ c = Apostrophe THEN KeepParam(st)
  ELSE IF st.at = "quoted" /\ c = Backslash THEN [st EXCEPT !.at = "quoted escape"]
  ELSE IF st.at \in {"quoted", "quoted escape"} THEN TakeChar(st, "quoted", c)
  ELSE st
_parse_conninfo(s) ==
  LET st == FoldLeft(ConnScan, ReadingKey, s)
  IN  CASE st.at = "key" -> st.out
        [] st.at \in {"value", "bare", "bare escape"} -> KeepParam(st).out
        [] OTHER -> None
conninfo_to_dict(s, kwargs) ==
  LET opts == _parse_conninfo(s)
      all  == opts \o SelectSeq(kwargs, LAMBDA p : p[2] # None)
      last(k) == all[SelectLastInSeq(all, LAMBDA p : p[1] = k)][2]
  IN  IF opts = None THEN None
      ELSE [k \in {all[i][1] : i \in DOMAIN all} |-> last(k)]

\* timeout_from_conninfo: at least two seconds, as in libpq; none, zero and
\* less are the default, never "for ever".
timeout_from_conninfo(value, default) ==
  IF value = None THEN default
  ELSE IF value <= 0 THEN default ELSE IF value < 2 THEN 2 ELSE value

-----------------------------------------------------------------------------
(* Attempts                                                                 *)

\* params and env: from some of "host", "hostaddr", "port",
\* "target_session_attrs", "load_balance_hosts" to a sequence.
get_param(params, env, name) == IF name \in DOMAIN params THEN params[name]
                                ELSE IF name \in DOMAIN env THEN env[name] ELSE <<>>
SetParam(params, name, value) == (name :> value) @@ params
Without(params, name)    == [k \in DOMAIN params \ {name} |-> params[k]]

\* split_attempts.  None: the numbers do not match.
split_attempts(params, env) ==
  LET val(name) == get_param(params, env, name)
      hosts == val("host")   addrs == val("hostaddr")   ports == val("port")
      n == IF Len(hosts) >= Len(addrs) THEN Len(hosts) ELSE Len(addrs)
      nth(a, name, s, i) == IF s = <<>> THEN a ELSE SetParam(a, name, <<s[i]>>)
      port(a, i) == nth(a, "port", ports, IF Len(ports) = 1 THEN 1 ELSE i)
  IN  IF hosts # <<>> /\ addrs # <<>> /\ Len(hosts) # Len(addrs) THEN None
      ELSE IF Len(ports) > 1 /\ Len(ports) # n THEN None
      ELSE IF n <= 1 THEN <<params>>
      ELSE [i \in 1..n |->
                        port(nth(nth(params, "host", hosts, i), "hostaddr", addrs, i), i)]

\* _resolve_hostnames.  A host is a socket, an address, or a name with the
\* addresses that it resolves to (none: the lookup fails).
_resolve_hostnames(params, env, Dns) ==
  LET host == get_param(params, env, "host")
  IN  IF host = <<>> \/ get_param(params, env, "hostaddr") # <<>> THEN <<params>>
      ELSE IF host[1] \in {"", "/socket"} THEN <<params>>
      ELSE IF host[1] \notin DOMAIN Dns THEN <<SetParam(params, "hostaddr", host)>>
      ELSE [i \in DOMAIN Dns[host[1]] |-> SetParam(params, "hostaddr", <<Dns[host[1]][i]>>)]

StandbyFirst(attempts) ==
  [i \in DOMAIN attempts |-> SetParam(attempts[i], "target_session_attrs", <<"standby">>)] \o attempts

Shuffles(s) == {[i \in DOMAIN s |-> s[p[i]]] : p \in Permutations(DOMAIN s)}
\* conninfo_attempts: the lists that the shuffle can give; {} for an error.
conninfo_attempts(params, env, Dns) ==
  LET prefer == get_param(params, env, "target_session_attrs") = <<"prefer-standby">>
      kept   == IF prefer THEN Without(params, "target_session_attrs") ELSE params
      split  == split_attempts(kept, env)
      all    == FlattenSeq([i \in DOMAIN split |-> _resolve_hostnames(split[i], env, Dns)])
      orders == IF get_param(params, env, "load_balance_hosts") = <<"random">>
                THEN Shuffles(all) ELSE {all}
  IN  IF split = None THEN {} ELSE IF all = <<>> THEN {}
      ELSE IF prefer THEN {StandbyFirst(o) : o \in orders} ELSE orders

\* Connection.connect: the first attempt that connects, else the last error.
connect(attempts, connecting) ==
  LET i == SelectInSeq(attempts, LAMBDA a : a \in connecting)
  IN  IF i = 0 THEN [error |-> attempts[Len(attempts)]] ELSE [connected |-> attempts[i]]

-----------------------------------------------------------------------------
(* SRV records                                                              *)

\* host: a name, or [srv: a record name, target: what is left of it]; a
\* target of None is a plain name, looked up only if the port is "srv".
HostPort(host, port) == <<host, port>>
Srv(host, port) == host.srv \/ port = "srv"

\* Rfc2782Resolver._get_attempts: None, the numbers do not match; <<>>, there
\* is nothing to resolve.
_get_attempts(hosts, ports, hostaddr) ==
  LET all == IF Len(ports) = 1 THEN [i \in DOMAIN hosts |-> ports[1]] ELSE ports
  IN  IF hostaddr THEN <<>>
      ELSE IF Len(all) # Len(hosts) THEN None
      ELSE IF \E i \in DOMAIN hosts : Srv(hosts[i], all[i])
           THEN [i \in DOMAIN hosts |-> HostPort(hosts[i], all[i])] ELSE <<>>

\* sort_rfc2782: the orders that it can give.  Of one priority, the entry to
\* take next is the first, in order of weight, that reaches a random number
\* between zero and the weight of those left.
RECURSIVE Weighted(_)
Weighted(entries) ==
  IF entries = <<>> THEN {<<>>}
  ELSE LET csum(i) == FoldLeft(LAMBDA n, e : n + e.weight, 0, SubSeq(entries, 1, i))
           reach(r) == CHOOSE i \in DOMAIN entries : csum(i) >= r /\ \A j \in 1..(i - 1) : csum(j) < r
           taken == {reach(r) : r \in 0..csum(Len(entries))}
       IN  UNION {{<<entries[i]>> \o rest : rest \in Weighted(RemoveAt(entries, i))} : i \in taken}
RECURSIVE ByPriority(_, _)
ByPriority(ans, priorities) ==
  IF priorities = {} THEN {<<>>}
  ELSE LET pri == CHOOSE p \in priorities : \A q \in priorities : p <= q
           entries == SelectSeq(ans, LAMBDA e : e.priority = pri)
           light(e, f) == e.weight < f.weight
       IN  {first \o rest : first \in Weighted(SortSeq(entries, light)),
                            rest \in ByPriority(ans, priorities \ {pri})}
sort_rfc2782(ans) == ByPriority(ans, {ans[i].priority : i \in DOMAIN ans})

\* _get_solved_entries: without an answer, the target of the record if a real
\* port goes with it; "." says that there is no such service.
_get_solved_entries(host, port, ans) ==
  IF ans = <<>> THEN IF host.srv /\ port # "srv" THEN {<<HostPort(host.target, port)>>} ELSE {<<>>}
  ELSE IF Len(ans) = 1 /\ ans[1].target = "." THEN {<<>>}
  ELSE {[i \in DOMAIN o |-> HostPort(o[i].target, o[i].port)] : o \in sort_rfc2782(ans)}

\* resolve, _return_params: the hosts and ports to use; {} for an error.
RECURSIVE Resolved(_, _)
Resolved(attempts, Answers) ==
  IF attempts = <<>> THEN {<<>>}
  ELSE LET host == attempts[1][1]   port == attempts[1][2]
       IN  {first \o rest :
              first \in IF Srv(host, port) THEN _get_solved_entries(host, port, Answers[host.name])
                        ELSE {<<HostPort(host.name, port)>>},
              rest \in Resolved(Tail(attempts), Answers)}
resolve(hosts, ports, hostaddr, Answers) ==
  LET attempts == _get_attempts(hosts, ports, hostaddr)
  IN  IF attempts = None THEN {} ELSE Resolved(attempts, Answers) \ {<<>>}

-----------------------------------------------------------------------------
(* Versions                                                                 *)

\* Capabilities: who is too old for a feature.
_get_unsupported_message(libpq, built, want) ==
  IF libpq < want THEN "libpq" ELSE IF built < want THEN "build" ELSE ""
\* _has_feature: the answer is kept by the name of the feature.
_has_feature(cache, feature, want, libpq, built) ==
  IF feature \in DOMAIN cache THEN cache
  ELSE (feature :> _get_unsupported_message(libpq, built, want)) @@ cache

\* version_pretty: the numbers that it shows.
version_pretty(version) ==
  LET patch == version % 100   minor == (version \div 100) % 100   major == version \div 10000
  IN  IF major >= 10 /\ minor = 0 THEN <<major, patch>> ELSE <<major, minor, patch>>
parse_crdb_version(v) == v[1] * 10000 + v[2] * 100 + v[3]
\* _CrdbConnectionMixin._check_tpc: two-phase commit is refused on CockroachDB.
is_crdb(parameters) == "crdb_version" \in DOMAIN parameters
_check_tpc(parameters) == IF is_crdb(parameters) THEN "NotSupportedError" ELSE ""

-----------------------------------------------------------------------------
(* Properties                                                               *)

AsDict(params) == [k \in {params[i][1] : i \in DOMAIN params} |->
                     params[SelectLastInSeq(params, LAMBDA p : p[1] = k)][2]]

\* A string made of parameters holds them for libpq, whatever they are made of.
ConninfoSurvives(params) ==
  conninfo_to_dict(make_conninfo(params), <<>>) = AsDict(params)

\* The dsn of a connection holds its parameters, if no value is empty or has a
\* backslash.
DsnSurvives(params) ==
  (\A i \in DOMAIN params : params[i][2] # <<>> /\ ~HasSpecial(params[i][2], Backslash))
    => conninfo_to_dict(dsn(params), <<>>) = AsDict(params)

\* Every attempt is one host with its own address and its own port; each host
\* that resolves is tried, at every address, in the order of the string unless
\* it is shuffled; and no primary is tried before every standby was.
AttemptsMatch(params, env, Dns) ==
  LET val(name) == get_param(params, env, name)
      n == IF val("host") = <<>> THEN Len(val("hostaddr")) ELSE Len(val("host"))
      addrs(i) == IF val("hostaddr") # <<>> THEN {val("hostaddr")[i]}
                  ELSE IF val("host")[i] \in {"", "/socket"} THEN {None}
                  ELSE IF val("host")[i] \in DOMAIN Dns THEN ToSet(Dns[val("host")[i]])
                  ELSE {val("host")[i]}
      port(i) == IF val("port") = <<>> THEN None
                 ELSE IF Len(val("port")) = 1 THEN val("port")[1] ELSE val("port")[i]
      one(a, name) == LET s == get_param(a, env, name) IN IF s = <<>> THEN None ELSE s[1]
      seen(a) == <<one(a, "host"), one(a, "hostaddr"), one(a, "port")>>
      wanted == {<<IF val("host") = <<>> THEN None ELSE val("host")[i], x, port(i)>> :
                   <<i, x>> \in {p \in (1..n) \X ({None} \cup UNION {addrs(i) : i \in 1..n}) :
                                   p[2] \in addrs(p[1])}}
      standby(a) == one(a, "target_session_attrs") = "standby"
      prefer == val("target_session_attrs") = <<"prefer-standby">>
  IN  \A attempts \in conninfo_attempts(params, env, Dns) :
        LET m == Len(attempts) \div 2
        IN  /\ n > 0 => {seen(attempts[i]) : i \in DOMAIN attempts} = wanted
            /\ prefer => /\ \A i \in 1..m : standby(attempts[i]) /\ seen(attempts[i]) = seen(attempts[m + i])
                         /\ \A i \in (m + 1)..(2 * m) :
                              ~standby(attempts[i]) /\ "target_session_attrs" \notin DOMAIN attempts[i]
                         /\ Len(attempts) = 2 * m
            \* a later attempt is used only if all those before it fail
            /\ \A S \in SUBSET ToSet(attempts) :
                 LET r == connect(attempts, S)
                 IN  IF S = {} THEN "error" \in DOMAIN r
                     ELSE prefer /\ (\E a \in S : standby(a)) => standby(r.connected)

\* The hosts of an SRV record are tried in the order of priority, none is lost
\* or tried twice, and the other hosts keep their place and their port.
SrvOrdered(hosts, ports, Answers) ==
  \A out \in resolve(hosts, ports, FALSE, Answers) :
    LET port(i) == IF Len(ports) = 1 THEN ports[1] ELSE ports[i]
        of(i) == IF ~Srv(hosts[i], port(i)) THEN <<hosts[i].name>>
                 ELSE [k \in DOMAIN Answers[hosts[i].name] |-> Answers[hosts[i].name][k].target]
        entry(i, t) == CHOOSE e \in ToSet(Answers[hosts[i].name]) : e.target = t
        plain == {i \in DOMAIN hosts : ~Srv(hosts[i], port(i))}
    IN  (\A i \in DOMAIN hosts \ plain : of(i) # <<>> /\ of(i) # <<".">>)
          => /\ Len(out) = FoldLeft(LAMBDA s, i : s + Len(of(i)), 0, [i \in DOMAIN hosts |-> i])
             /\ \A i \in plain : \E k \in DOMAIN out : out[k] = HostPort(hosts[i].name, port(i))
             /\ \A i \in DOMAIN hosts \ plain : \A a, b \in DOMAIN of(i) :
                  LET e == Answers[hosts[i].name][a]   f == Answers[hosts[i].name][b]
                      at(x) == SelectInSeq(out, LAMBDA hp : hp = HostPort(x.target, x.port))
                  IN  at(e) # 0 /\ (e.priority < f.priority => at(e) < at(f))

\* What was asked before changes no answer, and a feature is there for the
\* newer libraries if it is there for the older.
FeaturesKept(features, wants, libpq, built) ==
  LET cache == FoldLeft(LAMBDA c, i : _has_feature(c, features[i], wants[features[i]], libpq, built),
                        [f \in {} |-> ""], [i \in DOMAIN features |-> i])
  IN  \A i \in DOMAIN features :
        /\ (cache[features[i]] = "") <=> (wants[features[i]] <= libpq /\ wants[features[i]] <= built)
        /\ wants[features[i]] <= wants[features[1]] /\ cache[features[1]] = "" => cache[features[i]] = ""

\* Versions are ordered as their numbers are.
VersionsOrdered(v, w) ==
  LET before == \E k \in 1..3 : v[k] < w[k] /\ \A j \in 1..(k - 1) : v[j] = w[j]
  IN  before <=> parse_crdb_version(v) < parse_crdb_version(w)
PrettyShows(v, w) == version_pretty(v) = version_pretty(w) => v = w
=============================================================================
