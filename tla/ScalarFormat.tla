----------------------------- MODULE ScalarFormat -----------------------------
(***************************************************************************)
(* The adapters of the other scalar types: network addresses               *)
(* (gaussdb.types.net), strings and bytes (string), JSON documents (json), *)
(* members of enumerations (enum), booleans (bool), and the names of       *)
(* encodings (gaussdb._encodings).                                         *)
(*                                                                         *)
(* Addresses, texts, labels and documents are model values; what the       *)
(* adapters decide by (families, prefixes, encodings, versions, maps) is   *)
(* kept.                                                                   *)
(***************************************************************************)
EXTENDS Values

CONSTANTS MaxPrefix   \* <<bits of IPv4, bits of IPv6>>

-----------------------------------------------------------------------------
(* inet, cidr                                                               *)

\* kind: "address", "interface" or "network"; v: 1 for IPv4, 2 for IPv6.
Net(kind, v, addr, prefix) == [kind |-> kind, v |-> v, addr |-> addr, prefix |-> prefix]
Address(v, addr)           == Net("address", v, addr, MaxPrefix[v])
Family(v) == IF v = 1 THEN 2 ELSE 3

\* AddressBinaryDumper, InterfaceBinaryDumper, InetBinaryDumper: the family, the
\* prefix, whether it is a cidr, the length of the address.
dump_inet(n) == [family |-> Family(n.v), cidr |-> 0, addr |-> n.addr,
                 prefix |-> IF n.kind = "interface" THEN n.prefix ELSE MaxPrefix[n.v]]
dump_cidr(n) == [family |-> Family(n.v), cidr |-> 1, addr |-> n.addr, prefix |-> n.prefix]

load_inet_binary(b) ==
  LET v == IF b.family = 2 THEN 1 ELSE 2
  IN  IF b.prefix = MaxPrefix[v] THEN Address(v, b.addr)
      ELSE Net("interface", v, b.addr, b.prefix)
load_cidr_binary(b) == Net("network", IF b.family = 2 THEN 1 ELSE 2, b.addr, b.prefix)

\* What the server writes: an inet without its prefix when that is the whole
\* address, a cidr always with it.
ServerInet(b) == [v |-> IF b.family = 2 THEN 1 ELSE 2, addr |-> b.addr, prefix |-> b.prefix,
                  slash |-> b.cidr = 1 \/ b.prefix # MaxPrefix[IF b.family = 2 THEN 1 ELSE 2]]
load_inet(x) == IF x.slash THEN Net("interface", x.v, x.addr, x.prefix)
                ELSE Address(x.v, x.addr)
load_cidr(x) == Net("network", x.v, x.addr, x.prefix)

-----------------------------------------------------------------------------
(* Strings and bytes                                                        *)

\* _BaseStrDumper.__init__, TextLoader.__init__: an ascii connection (SQL_ASCII)
\* writes UTF-8 and reads bytes.
dump_encoding(enc) == IF enc = "ascii" THEN "utf-8" ELSE enc
load_encoding(enc) == IF enc = "ascii" THEN None ELSE enc

\* A string with a NUL is refused in text; in binary the server refuses it.
dump_str(s, nul, enc) == IF nul THEN None ELSE [text |-> s, enc |-> dump_encoding(enc)]
\* TextLoader.load: what is read in another encoding than it was written is not
\* the text.
load_str(data, enc) ==
  LET e == load_encoding(enc)
  IN  IF data.text = "" THEN [kind |-> "str", text |-> ""]
      ELSE IF e = None THEN [kind |-> "bytes", text |-> data.text]
      ELSE [kind |-> IF e = data.enc THEN "str" ELSE "garbage", text |-> data.text]

\* BytesDumper.quote: the quotes depend on standard_conforming_strings as it was
\* at the first quote of this dumper; libpq doubles the backslashes when it is off
\* now.  Without a connection the quotes say E, and the backslashes are doubled if
\* libpq (whose state is that of its last connection) did not.
quote_bytes(conn, first, now) ==
  [escape |-> ~conn \/ ~first, backslashes |-> IF conn /\ now THEN 1 ELSE 2]
\* The server takes two backslashes for one in an E'' literal, and in any literal
\* when standard_conforming_strings is off.
ServerBackslashes(q, scs) == IF q.escape \/ ~scs THEN q.backslashes \div 2 ELSE q.backslashes

-----------------------------------------------------------------------------
(* JSON                                                                     *)

\* set_json_dumps(f, context): globally it replaces the function of the class; in
\* a connection or a cursor it registers subclasses with a function of their own.
\* A cursor is made with what is registered in its connection.
NoDumps == [global |-> "default", connection |-> None, cursor |-> None]
set_json_dumps(scopes, op) ==
  IF op.context = "make" THEN [scopes EXCEPT !.cursor = scopes.connection]
  ELSE [scopes EXCEPT ![op.context] = op.f]
\* _JsonDumper.dump, by a cursor: the function of the wrapper, or of the class.
json_dumps(wrapper, scopes) ==
  IF wrapper # None THEN wrapper
  ELSE IF scopes.cursor # None THEN scopes.cursor ELSE scopes.global

\* JsonbBinaryDumper: the jsonb binary format has a version before the text.
Raised(e)  == <<<<"raised", e>>>>
Version(n) == <<"version", n>>
dump_jsonb_binary(doc) == <<Version(1)>> \o doc
\* JsonbBinaryLoader.load: another version is read as text.  loads() takes the
\* texts that are documents.
load_jsonb_binary(data, docs) ==
  IF data = <<>> THEN <<None>>
  ELSE IF data[1] = Version(1)
       THEN IF Tail(data) \in docs THEN Tail(data) ELSE Raised("JSONDecodeError")
       ELSE IF data \in docs THEN data ELSE Raised("DataError")

-----------------------------------------------------------------------------
(* Enumerations                                                             *)

\* Members and labels are names; a mapping is a sequence of <<member, label>>.
LastOf(mapping, col, key, other, default) ==
  LET k == SelectLastInSeq(mapping, LAMBDA p : p[col] = key)
  IN  IF k = 0 THEN default ELSE mapping[k][other]

\* _make_load_map, _BaseEnumLoader.load: the labels that are names of members,
\* then the mapping; another label is an error.
load_label(label, labels, members, mapping) ==
  LastOf(mapping, 2, label, 1, IF label \in labels \cap members THEN label ELSE None)
\* _make_dump_map, _BaseEnumDumper.dump: the names, then the mapping.
dump_member(member, mapping) == LastOf(mapping, 1, member, 2, member)

-----------------------------------------------------------------------------
(* Encodings                                                                *)

\* A name is a sequence of letters and noise ("-", "_"); py_codecs has each
\* name of the server with and without underscores.
NoNoise(name) == SelectSeq(name, LAMBDA c : c \notin {"-", "_"})
NoUnderscore(name) == SelectSeq(name, LAMBDA c : c # "_")
py_codecs(Codecs) == Codecs \cup {NoUnderscore(n) : n \in Codecs}
\* pg2pyenc: the name without noise must be a name.
pg2pyenc(name, Codecs) == IF NoNoise(name) \in py_codecs(Codecs) THEN NoNoise(name)
                          ELSE None

-----------------------------------------------------------------------------
(* Properties                                                               *)

\* Text and binary agree on what an address is, and it is what was dumped; but
\* an interface with the whole address for prefix comes back as an address.
NetAgrees(n) ==
  LET b == IF n.kind = "network" THEN dump_cidr(n) ELSE dump_inet(n)
      bin  == IF n.kind = "network" THEN load_cidr_binary(b) ELSE load_inet_binary(b)
      text == IF n.kind = "network" THEN load_cidr(ServerInet(b)) ELSE load_inet(ServerInet(b))
  IN  /\ bin = text
      /\ bin = IF n.kind = "interface" /\ n.prefix = MaxPrefix[n.v]
               THEN Address(n.v, n.addr) ELSE n

\* A string comes back as the same text; only an SQL_ASCII connection gives bytes.
StringSurvives(s, enc) ==
  LET r == load_str(dump_str(s, FALSE, enc), enc)
  IN  r.text = s /\ r.kind = IF enc = "ascii" /\ s # "" THEN "bytes" ELSE "str"
\* A literal of bytes is read by the server as it was written, with a connection
\* or without, as long as the setting does not change under the dumper.
BytesQuoted(conn, libpq, scs) ==
  ServerBackslashes(quote_bytes(conn, IF conn THEN scs ELSE libpq, IF conn THEN scs ELSE libpq),
                    scs) = 1

\* A cursor dumps JSON with the function that was set last where it looks: in the
\* cursor, in its connection before the cursor was made, globally.
JsonScoped(ops, wrapper) ==
  LET made == SelectInSeq(ops, LAMBDA o : o.context = "make")
      mine == {i \in DOMAIN ops : ops[i].context = IF i < made THEN "connection" ELSE "cursor"}
      rest == {i \in DOMAIN ops : ops[i].context = "global"}
      last == IF mine # {} THEN ops[Max(mine)].f
              ELSE IF rest # {} THEN ops[Max(rest)].f ELSE "default"
  IN  json_dumps(wrapper, FoldLeft(set_json_dumps, NoDumps, ops))
        = IF wrapper = None THEN last ELSE wrapper

\* A document is read as it was written, with a version before it or as text;
\* nothing else is read as one.
DocumentSurvives(data, docs) ==
  LET r == load_jsonb_binary(data, docs)
  IN  /\ data \in docs => r = data /\ load_jsonb_binary(dump_jsonb_binary(data), docs) = data
      /\ r \in docs => data \in {r, dump_jsonb_binary(r)}

\* A member that is dumped is loaded back, when no two members share a label and
\* the mapping gives each a label once.
EnumSurvives(labels, members, mapping) ==
  /\ IsInjective([e \in members |-> dump_member(e, mapping)])
  /\ \A i, j \in DOMAIN mapping : mapping[i][1] = mapping[j][1] => i = j
  => \A e \in members : dump_member(e, mapping) \in labels =>
       load_label(dump_member(e, mapping), labels, members, mapping) = e

\* The encoding of a connection is found under every spelling of its name.
EncodingFound(name, Codecs) == name \in Codecs => pg2pyenc(name, Codecs) # None
=============================================================================
