----------------------------- MODULE ConnectUri -----------------------------
(***************************************************************************)
(* Connection URIs (sqli_uri.c): somebody writes down a destination by the *)
(* rules of RFC 3986, sqli_connect_uri takes the text apart again, and     *)
(* sqli_connect is called with what it found.  A text is a sequence of     *)
(* symbols: a symbol is a character, or a word whose letters do not matter *)
(* (a scheme, a key of the query).  An absent text (NULL) is empty.        *)
(***************************************************************************)
EXTENDS Integers, SequencesExt

CONSTANTS
  ComponentMax,   \* what the buffers of user, host, path and values hold (255)
  KeyMax,         \* the same for keys of the query (127)
  PortMax,        \* the same for the port (15)
  QueryMax,       \* the same for the whole query (1023)
  SocketMax,      \* the same for the path of a socket (511)
  EntryMax,       \* as many entries of the query are read (32)
  Destinations,   \* what callers mean, and how they write it
  Logins,         \* credentials given next to the URI
  Environments,   \* $INFORMIXTMP, whether /INFORMIXTMP exists, the Unix user
  Idle

VARIABLES
  destination,    \* what the caller means
  login,          \* the credentials given next to the URI
  environment,
  passed          \* what sqli_connect is called with, or the refusal

vars == <<destination, login, environment, passed>>

-----------------------------------------------------------------------------
(* Characters and their escapes; Nul ends a text.                          *)
Nul == "nul"

EscapeOf ==
  (Nul :> <<"0", "0">>) @@ (":" :> <<"3", "A">>) @@ ("/" :> <<"2", "F">>) @@ ("?" :> <<"3", "F">>) @@ ("#" :> <<"2", "3">>)
  @@ ("@" :> <<"4", "0">>) @@ ("&" :> <<"2", "6">>) @@ ("=" :> <<"3", "D">>)
  @@ ("%" :> <<"2", "5">>) @@ ("+" :> <<"2", "B">>) @@ (" " :> <<"2", "0">>)

Capital ==
  ("a" :> "A") @@ ("b" :> "B") @@ ("c" :> "C") @@ ("d" :> "D") @@ ("e" :> "E") @@ ("f" :> "F")

HexDigits ==
  {"0", "1", "2", "3", "4", "5", "6", "7", "8", "9"} \cup DOMAIN Capital \cup Range(Capital)

OtherByte == "byte"

CharOf(pair) ==
  LET hex == [i \in 1 .. 2 |-> IF pair[i] \in DOMAIN Capital THEN Capital[pair[i]] ELSE pair[i]]
  IN IF hex \in Range(EscapeOf)
     THEN CHOOSE c \in DOMAIN EscapeOf : EscapeOf[c] = hex ELSE OtherByte

(* Texts up to a delimiter, from it on, and behind it; and cut to a buffer.*)
First(text, stops) == Min({i \in DOMAIN text : text[i] \in stops} \cup {Len(text) + 1})
Upto(text, stops) == SubSeq(text, 1, First(text, stops) - 1)
From(text, stops) == SubSeq(text, First(text, stops), Len(text))
Behind(text, stops) == SubSeq(text, First(text, stops) + 1, Len(text))

CopyRange(text, room) == SubSeq(text, 1, Min({Len(text), room}))

UrlDecode(text, room) ==
  LET IsEscape(i) ==
        /\ text[i] = "%" /\ i + 2 <= Len(text)
        /\ {text[i + 1], text[i + 2]} \subseteq HexDigits
      decoded[i \in 1 .. Len(text) + 1] ==
        IF i > Len(text) THEN <<>>
        ELSE IF IsEscape(i) THEN <<CharOf(<<text[i + 1], text[i + 2]>>)>> \o decoded[i + 3]
        ELSE <<IF text[i] = "+" THEN " " ELSE text[i]>> \o decoded[i + 1]
  IN Upto(CopyRange(decoded[1], room), {Nul})

-----------------------------------------------------------------------------
(* Taking a URI apart.                                                     *)
Components(ok, scheme, userinfo, place, rest) ==
  LET bracketed == place # <<>> /\ place[1] = "["
      path == SubSeq(rest, Min({i \in DOMAIN rest : rest[i] # "/"} \cup {Len(rest) + 1}), Len(rest))
      query == From(path, {"?", "#"})
  IN [ok |-> ok /\ (bracketed => Contains(place, "]")),
      scheme |-> scheme,
      userinfo |-> userinfo,
      host |-> IF bracketed THEN Upto(Tail(place), {"]"}) ELSE Upto(place, {":"}),
      port |-> IF ~ bracketed THEN Behind(place, {":"})
               ELSE IF Upto(Behind(place, {"]"}), {":"}) = <<>> THEN Behind(Behind(place, {"]"}), {":"})
               ELSE <<>>,
      path |-> Upto(path, {"?", "#"}),
      query |-> IF query # <<>> /\ query[1] = "?" THEN Upto(Tail(query), {"#"}) ELSE <<>>]

ParseUriComponents(uri) ==
  LET marks == {i \in 1 .. Len(uri) - 2 : SubSeq(uri, i, i + 2) = <<":", "/", "/">>}
      mark == Min(marks \cup {Len(uri) + 1})
      behind == SubSeq(uri, mark + 3, Len(uri))
      authority == Upto(behind, {"/", "?", "#"})
      known == Contains(authority, "@")
  IN Components(marks # {} /\ mark # 1, SubSeq(uri, 1, mark - 1),
                IF known THEN Upto(authority, {"@"}) ELSE <<>>,
                IF known THEN Behind(authority, {"@"}) ELSE authority,
                From(behind, {"/", "?", "#"}))

(* The query: empty entries are no entries.                                *)
QueryEntry(token) ==
  [key |-> UrlDecode(Upto(token, {"="}), KeyMax),
   value |-> UrlDecode(Behind(token, {"="}), ComponentMax)]

ParseQueryString(query) ==
  LET starts == {i \in DOMAIN query : query[i] # "&" /\ (i = 1 \/ query[i - 1] = "&")}
      tokens == [k \in 1 .. Cardinality(starts) |->
                   Upto(SubSeq(query, SetToSortSeq(starts, <)[k], Len(query)), {"&"})]
  IN [k \in 1 .. Min({Len(tokens), EntryMax}) |-> QueryEntry(tokens[k])]

FindQueryValue(entries, key) ==
  LET found == {i \in DOMAIN entries : entries[i].key = <<key>> /\ entries[i].value # <<>>}
  IN IF found = {} THEN <<>> ELSE entries[Min(found)].value

DetectProtocol(scheme) ==
  CASE scheme = <<"informix+onsoctcp">> -> "onsoctcp"
    [] scheme = <<"informix+onsocssl">> -> "onsocssl"
    [] scheme = <<"informix+onipcstr">> -> "onipcstr"
    [] OTHER -> "unknown"

(* Mutant: decoded before user and password are told apart.                *)
UserInfoDecodedFirst(userinfo) ==
  LET decoded == UrlDecode(userinfo, ComponentMax)
  IN [user |-> Upto(decoded, {":"}), password |-> Behind(decoded, {":"})]

(* User and password are told apart before they are decoded.               *)
UserInfo(userinfo) ==
  [user |-> UrlDecode(Upto(userinfo, {":"}), ComponentMax),
   password |-> UrlDecode(Behind(userinfo, {":"}), ComponentMax)]

DefaultSocket(server, env) ==
  CopyRange(IF env.tmp # <<>> THEN env.tmp \o <<"/">> \o server \o <<".str">>
            ELSE IF env.exists THEN <<"/INFORMIXTMP/">> \o server \o <<".str">>
            ELSE <<"/tmp/.infosock.">> \o server, SocketMax)

Affirmed(text) == text \in {<<"true">>, <<"TRUE">>, <<"yes">>, <<"1">>}

-----------------------------------------------------------------------------
(* What sqli_connect is called with.                                       *)
Refused(status) == [status |-> status]

Either(given, found) == IF given # <<>> THEN given ELSE found

CommonParams(parts, entries, given) ==
  LET found == UserInfo(CopyRange(parts.userinfo, ComponentMax))
  IN [status |-> "CONNECT",
      server |-> FindQueryValue(entries, "INFORMIXSERVER"),
      database |-> Either(CopyRange(parts.path, ComponentMax), <<"informix">>),
      username |-> Either(given.user, found.user),
      password |-> Either(given.password, found.password),
      client_locale |-> FindQueryValue(entries, "CLIENT_LOCALE"),
      db_locale |-> FindQueryValue(entries, "DB_LOCALE"),
      hostname |-> <<>>, service |-> <<>>, ssl |-> FALSE, verify |-> FALSE, ca_file |-> <<>>]

IpcParams(params, entries, env) ==
  [params EXCEPT
     !.service = Either(FindQueryValue(entries, "SOCKET_PATH"), DefaultSocket(params.server, env)),
     !.username = Either(@, CopyRange(env.user, ComponentMax)),
     !.password = <<>>]

SocketParams(params, parts, entries, protocol) ==
  LET verify == FindQueryValue(entries, "SSL_VERIFY_PEER")
  IN IF parts.host = <<>> \/ parts.port = <<>> THEN Refused("INVALID_STATE")
     ELSE [params EXCEPT
             !.hostname = CopyRange(parts.host, ComponentMax),
             !.service = CopyRange(parts.port, PortMax),
             !.ssl = protocol = "onsocssl",
             !.verify = verify = <<>> \/ Affirmed(verify),
             !.ca_file = FindQueryValue(entries, "SSL_CA_FILE")]

Params(parts, entries, given, env) ==
  LET protocol == DetectProtocol(parts.scheme)
      params == CommonParams(parts, entries, given)
  IN IF ~ parts.ok \/ protocol = "unknown" \/ params.server = <<>> THEN Refused("INVALID_STATE")
     ELSE IF protocol = "onipcstr" THEN IpcParams(params, entries, env)
     ELSE SocketParams(params, parts, entries, protocol)

-----------------------------------------------------------------------------
(* How a destination is written: a thorough writer escapes whatever has a  *)
(* meaning anywhere, a sparing one only what has to be.                    *)
Encoded(text, plain) ==
  FlattenSeq([i \in DOMAIN text |->
                IF text[i] \in DOMAIN EscapeOf \ plain
                THEN <<"%">> \o EscapeOf[text[i]] ELSE <<text[i]>>])

Plain(d, chars) == IF d.sparing THEN chars ELSE {}

WrittenUser(d) ==
  LET user == Encoded(d.user, Plain(d, {"=", "&", "+"}))
      password == Encoded(d.password, Plain(d, {"=", "&", "+", ":"}))
  IN IF d.password # <<>> THEN user \o <<":">> \o password ELSE user

WrittenHost(d) ==
  (IF Contains(d.host, ":") THEN <<"[">> \o d.host \o <<"]">> ELSE d.host)
  \o (IF d.port = <<>> THEN <<>> ELSE <<":">> \o d.port)

WrittenPath(d) == Encoded(d.database, Plain(d, {":", "@", "/", "=", "&", "+"}))

WrittenOption(d, o) == <<o.key, "=">> \o Encoded(o.value, Plain(d, {":", "@", "/", "?", "="}))

WrittenQuery(d) ==
  FlattenSeq([i \in DOMAIN d.options |->
                (IF i = 1 THEN <<>> ELSE <<"&">>) \o WrittenOption(d, d.options[i])])

Written(d) ==
  d.scheme \o <<":", "/", "/">>
  \o (IF WrittenUser(d) = <<>> THEN <<>> ELSE WrittenUser(d) \o <<"@">>)
  \o WrittenHost(d) \o <<"/">> \o WrittenPath(d)
  \o (IF d.options = <<>> THEN <<>> ELSE <<"?">> \o WrittenQuery(d))
  \o (IF d.fragment = <<>> THEN <<>> ELSE <<"#">> \o d.fragment)

-----------------------------------------------------------------------------
Init ==
  /\ destination \in Destinations
  /\ login \in Logins
  /\ environment \in Environments
  /\ passed = Idle

(* sqli_connect_uri; the copy of the query may not be had.                 *)
ConnectUri ==
  LET parts == ParseUriComponents(Written(destination))
      query == CopyRange(parts.query, QueryMax)
  IN /\ passed = Idle
     /\ \/ passed' = Params(parts, ParseQueryString(query), login, environment)
        \/ /\ parts.ok /\ DetectProtocol(parts.scheme) # "unknown" /\ query # <<>>
           /\ passed' = Refused("ALLOC_FAIL")
     /\ UNCHANGED <<destination, login, environment>>

Return == passed # Idle /\ passed' = Idle /\ UNCHANGED <<destination, login, environment>>

Next == ConnectUri \/ Return

Spec == Init /\ [][Next]_vars

-----------------------------------------------------------------------------
(* What the caller means.                                                  *)
Option(d, key) ==
  LET given == {i \in DOMAIN d.options : d.options[i].key = key /\ d.options[i].value # <<>>}
  IN IF given = {} THEN <<>> ELSE d.options[Min(given)].value

Local(d) == d.scheme = <<"informix+onipcstr">>

Secure(d) == d.scheme = <<"informix+onsocssl">>

Complete(d) ==
  /\ Local(d) \/ Secure(d) \/ d.scheme = <<"informix+onsoctcp">>
  /\ Option(d, "INFORMIXSERVER") # <<>>
  /\ d.host # <<>> => d.host[1] # "["
  /\ Local(d) \/ (d.host # <<>> /\ d.port # <<>>)

Meant(d, given, env) ==
  [status |-> "CONNECT",
   server |-> Option(d, "INFORMIXSERVER"),
   database |-> Either(d.database, <<"informix">>),
   username |-> Either(given.user, Either(d.user, IF Local(d) THEN env.user ELSE <<>>)),
   password |-> IF Local(d) THEN <<>> ELSE Either(given.password, d.password),
   client_locale |-> Option(d, "CLIENT_LOCALE"),
   db_locale |-> Option(d, "DB_LOCALE"),
   hostname |-> IF Local(d) THEN <<>> ELSE d.host,
   service |-> IF ~ Local(d) THEN d.port
               ELSE Either(Option(d, "SOCKET_PATH"), DefaultSocket(Option(d, "INFORMIXSERVER"), env)),
   ssl |-> Secure(d),
   verify |-> ~ Local(d) /\ (Option(d, "SSL_VERIFY_PEER") = <<>> \/ Affirmed(Option(d, "SSL_VERIFY_PEER"))),
   ca_file |-> IF Local(d) THEN <<>> ELSE Option(d, "SSL_CA_FILE")]

(* What does not survive: components longer than their buffers, a database *)
(* that needs escapes or begins with a slash, a plain "+" in the user info.*)
Fits(d) ==
  /\ Len(WrittenUser(d)) <= ComponentMax /\ Len(d.host) <= ComponentMax
  /\ Len(d.port) <= PortMax /\ Len(WrittenPath(d)) <= ComponentMax
  /\ Len(WrittenQuery(d)) <= QueryMax /\ Len(d.options) <= EntryMax
  /\ \A i \in DOMAIN d.options : Len(d.options[i].value) <= ComponentMax

PathSurvives(d) == WrittenPath(d) = d.database /\ (d.database # <<>> => d.database[1] # "/")

UserSurvives(d) == d.sparing => ~ Contains(d.user \o d.password, "+")

(* A destination that was written down by the rules is connected to as it  *)
(* was meant, with the credentials of the caller in place of those of the  *)
(* URI (sqli.h:283-289), and what says too little is refused: whatever     *)
(* delimiters its parts contain (sqli_connect_uri).                        *)
AddressTruthful ==
  passed # Idle /\ passed.status # "ALLOC_FAIL" =>
    IF ~ Complete(destination)
    THEN Fits(destination) => passed = Refused("INVALID_STATE")
    ELSE Fits(destination) /\ Len(environment.user) <= ComponentMax
            /\ PathSurvives(destination) /\ UserSurvives(destination)
         => passed = Meant(destination, login, environment)
=============================================================================
