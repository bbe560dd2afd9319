------------------------------- MODULE Config -------------------------------
(***************************************************************************)
(* What GetConfig (internal/config/config.go) makes of the defaults, of a  *)
(* configuration file and of the environment: the three layers koanf       *)
(* merges, the decoding into the Configuration struct and its validation.  *)
(*                                                                         *)
(* A key is the sequence of its words (graceful_timeout is                 *)
(* <<"graceful", "timeout">>), a path a sequence of keys.  A layer is a    *)
(* function from paths to values; a value is the layer it comes from and   *)
(* its kind:                                                               *)
(*   ok    not the zero value of its type, and well-formed                 *)
(*   zero  "", 0, false or an empty list                                   *)
(*   bad   refused: of the wrong type or format                            *)
(*   null  null, which decodes to the zero value and to a nil list         *)
(* A name of the environment is the sequence of its words after GO_, each  *)
(* with the number of underscores before it, one or two.                   *)
(***************************************************************************)
EXTENDS Naturals, Sequences, FiniteSets, SequencesExt

Kinds  == {"ok", "zero", "bad", "null"}
Layers == {"default", "file", "env"}

In(section, keys) == {Append(section, k) : k \in keys}

Server   == << <<"server">> >>
Logging  == << <<"logging">> >>
Rotate   == << <<"logging">>, <<"rotate">> >>
Proxy    == << <<"proxy">> >>
Cache    == << <<"cache">> >>
Mail     == << <<"mail">> >>
From     == << <<"mail">>, <<"from">> >>
Database == << <<"database">> >>
Telegram == << <<"notifications">>, <<"telegram">> >>
Discord  == << <<"notifications">>, <<"discord">> >>
Email    == << <<"notifications">>, <<"email">> >>
Mailgun  == << <<"notifications">>, <<"mailgun">> >>
MSTeams  == << <<"notifications">>, <<"msteams">> >>

Enabled(section) == Append(section, <<"enabled">>)

ProxySettings == In(Proxy, {<<"url">>, <<"username">>, <<"password">>, <<"no", "proxy">>})

\* The settings: the koanf tags of the fields that are not structs.
Settings == UNION {
    In(<< >>, {<<"timeout">>, <<"user", "agent">>, <<"cert", "dir">>}),
    In(Server, {<<"listen">>, <<"listen", "metrics">>, <<"listen", "pprof">>,
                <<"graceful", "timeout">>, <<"secret", "key", "header", "name">>,
                <<"secret", "key", "header", "value">>, <<"ip", "header">>,
                <<"host", "headers">>}),
    In(Logging, {<<"access", "log">>, <<"json">>, <<"log", "file">>}),
    In(Rotate, {<<"enabled">>, <<"max", "size">>, <<"max", "backups">>,
                <<"max", "age">>, <<"compress">>}),
    ProxySettings,
    In(Cache, {<<"enabled">>, <<"timeout">>}),
    In(Mail, {<<"enabled">>, <<"server">>, <<"port">>, <<"to">>, <<"user">>,
              <<"password">>, <<"tls">>, <<"starttls">>, <<"skiptls">>,
              <<"retries">>, <<"timeout">>}),
    In(From, {<<"name">>, <<"email">>}),
    In(Database, {<<"filename">>}),
    In(Telegram, {<<"enabled">>, <<"api", "token">>, <<"chat", "ids">>}),
    In(Discord, {<<"enabled">>, <<"bot", "token">>, <<"oauth", "token">>,
                 <<"channel", "ids">>}),
    In(Email, {<<"enabled">>, <<"sender">>, <<"server">>, <<"port">>,
               <<"username">>, <<"password">>, <<"recipients">>}),
    In(Mailgun, {<<"enabled">>, <<"api", "key">>, <<"sender", "address">>,
                 <<"domain">>, <<"recipients">>}),
    In(MSTeams, {<<"enabled">>, <<"webhooks">>})}

\* The fields that are slices: required asks only that they are not nil.
Lists == {Append(Server, <<"host", "headers">>), Append(Mail, <<"to">>),
          Append(Telegram, <<"chat", "ids">>), Append(Discord, <<"channel", "ids">>),
          Append(Email, <<"recipients">>), Append(Mailgun, <<"recipients">>),
          Append(MSTeams, <<"webhooks">>)}

\* The paths of the fields that are structs.
Structs == UNION {{SubSeq(s, 1, n) : n \in 1 .. Len(s) - 1} : s \in Settings}

\* validate:"required"
Required ==
    In(<< >>, {<<"timeout">>})
    \cup In(Server, {<<"listen">>, <<"graceful", "timeout">>,
                     <<"secret", "key", "header", "name">>,
                     <<"secret", "key", "header", "value">>})
    \cup In(Cache, {<<"timeout">>})
    \cup In(Database, {<<"filename">>})

\* validate:"required_if=Enabled true", by the section whose Enabled the
\* validator finds.  It looks for Enabled in the struct of the field: the tags
\* of From, a struct without that field, ask for nothing.
RequiredIf == [section \in {Mail, Telegram, Discord, Email, Mailgun, MSTeams} |->
    CASE section = Mail ->
            In(Mail, {<<"server">>, <<"port">>, <<"to">>, <<"retries">>, <<"timeout">>})
      [] section = Telegram -> In(Telegram, {<<"api", "token">>, <<"chat", "ids">>})
      [] section = Discord  -> In(Discord, {<<"channel", "ids">>})
      [] section = Email    ->
            In(Email, {<<"sender">>, <<"server">>, <<"port">>, <<"recipients">>})
      [] section = Mailgun  ->
            In(Mailgun, {<<"api", "key">>, <<"sender", "address">>, <<"domain">>,
                         <<"recipients">>})
      [] section = MSTeams  -> In(MSTeams, {<<"webhooks">>})]

\* defaultConfig, loaded as a layer: nil slices and the nil Proxy are null.
DefaultOk ==
    In(<< >>, {<<"timeout">>})
    \cup In(Server, {<<"listen">>, <<"graceful", "timeout">>,
                     <<"secret", "key", "header", "name">>})
    \cup In(Cache, {<<"enabled">>, <<"timeout">>})
    \cup In(Database, {<<"filename">>})

Defaults == [p \in (Settings \ ProxySettings) \cup {Proxy} |->
    [layer |-> "default",
     kind  |-> IF p \in DefaultOk THEN "ok"
               ELSE IF p \in Lists \cup {Proxy} THEN "null" ELSE "zero"]]

-----------------------------------------------------------------------------
(* What paths and names are made of: any words, those of the settings named. *)

SettingWords == {
    "server", "logging", "rotate", "proxy", "cache", "mail", "from", "database",
    "notifications", "telegram", "discord", "email", "mailgun", "msteams",
    "enabled", "url", "username", "password", "no", "timeout", "user", "agent",
    "cert", "dir", "listen", "metrics", "pprof", "graceful", "secret", "key",
    "header", "name", "value", "ip", "host", "headers", "access", "log", "json",
    "file", "max", "size", "backups", "age", "compress", "port", "to", "tls",
    "starttls", "skiptls", "retries", "filename", "api", "token", "chat", "ids",
    "bot", "oauth", "channel", "sender", "recipients", "address", "domain",
    "webhooks"}

Words == STRING \cup SettingWords
Keys  == Seq(Words) \ {<< >>}
Paths == Seq(Keys)

\* A name of the environment that has something after GO_ begins a key.
NameParts   == [underscores : {1, 2}, word : Words]
ProperNames == {name \in Seq(NameParts) : name # << >> /\ name[1].underscores = 1}

-----------------------------------------------------------------------------
(* Layers.                                                                 *)

\* maps.Merge of koanf: maps are merged key by key, everything else is
\* replaced by what the new layer has at the same place, above it or below.
Merge(old, new) ==
    [p \in DOMAIN new \cup {q \in DOMAIN old :
                              \A n \in DOMAIN new : ~IsPrefix(n, q) /\ ~IsPrefix(q, n)} |->
        IF p \in DOMAIN new THEN new[p] ELSE old[p]]

\* The callback of env.Provider: an underscore starts a key, two are one
\* underscore of the key.
Decode(name) ==
    LET path[i \in 0 .. Len(name)] ==
          IF i = 0 THEN << >>
          ELSE LET above == path[i - 1] IN
               IF name[i].underscores = 2
               THEN Append(Front(above), Append(Last(above), name[i].word))
               ELSE Append(above, <<name[i].word>>)
    IN  path[Len(name)]

\* Mutant: a value in the way sends the walk back to the top.
Put_ToTop(map, path, kind) ==
    LET at[i \in 0 .. Len(path) - 1] ==
          IF i = 0 THEN << >>
          ELSE LET here == at[i - 1]
               IN  IF Append(here, path[i]) \in DOMAIN map THEN << >> ELSE Append(here, path[i])
        place == Append(at[Len(path) - 1], Last(path))
    IN  Merge(map, [p \in {place} |-> [layer |-> "env", kind |-> kind]])

\* One turn of the loop of maps.Unflatten of koanf: it goes down along the
\* keys before the last one, makes the maps it misses, stays where it is when
\* there is a value instead of a map, and then assigns.
Put(map, path, kind) ==
    LET at[i \in 0 .. Len(path) - 1] ==
          IF i = 0 THEN << >>
          ELSE LET here == at[i - 1]
               IN  IF Append(here, path[i]) \in DOMAIN map THEN here ELSE Append(here, path[i])
        place == Append(at[Len(path) - 1], Last(path))
    IN  Merge(map, [p \in {place} |-> [layer |-> "env", kind |-> kind]])

\* The layers one environment can give: Unflatten ranges over a map, in any
\* order.
EnvLayers(env) ==
    LET size == Cardinality(DOMAIN env)
        Unflatten(order) ==
          LET map[i \in 0 .. size] ==
                IF i = 0 THEN << >> ELSE Put(map[i - 1], Decode(order[i]), env[order[i]])
          IN  map[size]
    IN  {Unflatten(order) : order \in SetToSeqs(DOMAIN env)}

\* The name documented for a setting: one underscore between keys, two for
\* an underscore of a key.
NameOf(setting) ==
    LET KeyName(key) == [j \in DOMAIN key |->
                            [underscores |-> IF j = 1 THEN 1 ELSE 2, word |-> key[j]]]
        name[i \in 0 .. Len(setting)] ==
          IF i = 0 THEN << >> ELSE name[i - 1] \o KeyName(setting[i])
    IN  name[Len(setting)]

-----------------------------------------------------------------------------
(* Decoding and validation.                                                *)

Unset == [layer |-> "none", kind |-> "null"]

At(map, setting) == IF setting \in DOMAIN map THEN map[setting] ELSE Unset

\* k.Unmarshal: keys that are no field are ignored; a value where a struct
\* belongs, a map where a value belongs and a malformed value are errors.  A
\* format a validate tag refuses is an error of GetConfig too.
Decodes(map) ==
    \A p \in DOMAIN map :
        /\ p \in Structs => map[p].kind = "null"
        /\ p \in Settings => map[p].kind # "bad"
        /\ \A s \in Settings : ~IsStrictPrefix(s, p)

\* hasValue of the validator.
Present(map, setting) ==
    At(map, setting).kind \in (IF setting \in Lists THEN {"ok", "zero"} ELSE {"ok"})

\* Mutant: the conditional tags are dropped.
Valid_NoRequiredIf(map) ==
    /\ \A s \in Required : Present(map, s)
    /\ Present(map, Append(Proxy, <<"username">>)) <=> Present(map, Append(Proxy, <<"password">>))

\* validate.Struct: the tags required, required_if and required_with.
Valid(map) ==
    /\ \A s \in Required : Present(map, s)
    /\ \A section \in DOMAIN RequiredIf :
          At(map, Enabled(section)).kind = "ok" =>
             \A s \in RequiredIf[section] : Present(map, s)
    /\ Present(map, Append(Proxy, <<"username">>)) <=> Present(map, Append(Proxy, <<"password">>))

\* Mutant: the file is loaded after the environment.
GetConfig_FileLast(file, env) ==
    IF ~file.readable THEN {[error |-> TRUE, settings |-> << >>]}
    ELSE {IF Decodes(map) /\ Valid(map)
          THEN [error |-> FALSE, settings |-> [s \in Settings |-> At(map, s)]]
          ELSE [error |-> TRUE, settings |-> << >>] :
             map \in {Merge(Merge(Defaults, layer), file.map) : layer \in EnvLayers(env)}}

\* GetConfig: what it may return.  No file is a file with nothing in it.
GetConfig(file, env) ==
    IF ~file.readable THEN {[error |-> TRUE, settings |-> << >>]}
    ELSE {IF Decodes(map) /\ Valid(map)
          THEN [error |-> FALSE, settings |-> [s \in Settings |-> At(map, s)]]
          ELSE [error |-> TRUE, settings |-> << >>] :
             map \in {Merge(Merge(Defaults, file.map), layer) : layer \in EnvLayers(env)}}

-----------------------------------------------------------------------------
(* Names in each other's way, which the properties have to tell apart.      *)

\* The names that are a value where another name needs a map.
Clashing(env) ==
    {m \in DOMAIN env : \E n \in DOMAIN env : IsStrictPrefix(Decode(m), Decode(n))}

\* A name that finds a value in its way may end where it does not belong: in
\* the section of a name in the way, under its own last key.
Stray(env, place) ==
    \E m \in Clashing(env), n \in DOMAIN env :
        LET section == Front(Decode(m))
        IN  /\ IsStrictPrefix(section, Decode(n)) /\ IsStrictPrefix(section, place)
            /\ Last(place) = Last(Decode(n)) /\ Len(place) < Len(Decode(n))

\* The settings that such a name may decide, or not, as koanf's map has it.
ByChance(env) == {s \in Settings : Stray(env, s)}
=============================================================================
