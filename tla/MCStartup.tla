------------------------------ MODULE MCStartup -----------------------------
(***************************************************************************)
(* The inputs of a start for TLC: a file that is complete, with one or two *)
(* deviations from it in the file, the environment or both.                *)
(***************************************************************************)
EXTENDS Startup, TLC

Val(layer, kind) == [layer |-> layer, kind |-> kind]
FileOf(map)      == [readable |-> TRUE, map |-> map]
In3(file, env)   == [args |-> {}, file |-> FileOf(file), env |-> env, certs |-> {}]
NoEnv            == << >>

\* Only what the defaults lack.
Minimal == [p \in {Append(Server, <<"secret", "key", "header", "value">>)} |-> Val("file", "ok")]

With(file, paths, kind) == Merge(file, [p \in paths |-> Val("file", kind)])

\* All the names that read as the words of a setting.
Names(setting) ==
    LET words == FlattenSeq(setting)
    IN  {[i \in DOMAIN words |->
            [underscores |-> IF i \in doubled THEN 2 ELSE 1, word |-> words[i]]] :
         doubled \in SUBSET (2 .. Len(words))}

NamesIn(section) == UNION {Names(s) : s \in {t \in Settings : IsPrefix(section, t)}}

Sections == DOMAIN RequiredIf

Complete(section) == RequiredIf[section] \cup {Enabled(section)}

Flagged ==
    {[In3(Minimal, NoEnv) EXCEPT !.args = a] :
        a \in {{"version"}, {"config", "configcheck"}, {"debug"}, {"json", "listen"}}}
    \cup {[In3(Minimal, NoEnv) EXCEPT !.file.readable = FALSE]}

\* One setting in the file, or a value at a struct.
OneInFile ==
    {In3(With(Minimal, {p}, kind), NoEnv) : p \in Settings \cup Structs, kind \in Kinds}

\* One name of the environment, over a file that sets the same or not.
OneInEnv ==
    UNION {{In3(file, [n \in {name} |-> kind]) :
              name \in Names(s), kind \in Kinds \ {"null"},
              file \in {Minimal, With(Minimal, {s}, "ok")}} :
           s \in Settings}

\* A null struct in the file and its required settings in the environment.
NullThenEnv ==
    {In3(With(Minimal, {p}, "null"),
         [n \in {NameOf(s) : s \in {t \in Required : IsPrefix(p, t)}} |-> "ok"]) : p \in Structs}

\* Two names of one section.
TwoInEnv ==
    UNION {{In3(Minimal, [n \in {a, b} |-> "ok"]) : a, b \in NamesIn(section)} :
           section \in {Server, Proxy, Mail}}

\* A setting, a name it is in the way of and, at times, the setting that one
\* may end at.
Clashes ==
    LET Siblings(s) == {Last(t) : t \in {u \in Settings : Front(u) = Front(s)}}
        Two(s, k, kind, more) ==
            In3(Minimal, [n \in {NameOf(s), NameOf(Append(s, k))} \cup more |->
                             IF n = NameOf(Append(s, k)) THEN kind ELSE "ok"])
    IN  UNION {UNION {{Two(s, k, kind, more) : kind \in {"ok", "zero"},
                                               more \in {{}, {NameOf(Append(Front(s), k))}}} :
                      k \in Siblings(s)} :
               s \in {t \in Settings : Front(t) \in {<< >>, Server, Proxy, Mail}}}

\* Notifiers and mail, complete or with one setting missing or a token more.
Services ==
    {In3(With(Minimal, UNION {Complete(section) : section \in on} \cup more, "ok"), NoEnv) :
        on \in SUBSET Sections,
        more \in {{}, {LogFile, AccessLog}, {Append(Discord, <<"bot", "token">>)},
                  {Append(Discord, <<"oauth", "token">>)}}}
    \cup UNION {{In3(With(With(Minimal, Complete(section), "ok"), {s}, kind), NoEnv) :
                   s \in Complete(section), kind \in {"zero", "null"}} :
                section \in Sections}
    \cup {In3(With(Minimal, on, "ok"), NoEnv) : on \in SUBSET ProxySettings}
    \cup {In3(With(With(Minimal, Complete(Mail), "ok"),
                   {Append(From, <<"name">>), Append(From, <<"email">>)}, "ok"), NoEnv)}

Certificates == {
    [ext |-> "crt",   form |-> "der",  certs |-> {"x"}],
    [ext |-> "crt",   form |-> "pem",  certs |-> {"x"}],
    [ext |-> "pem",   form |-> "pem",  certs |-> {"y", "z"}],
    [ext |-> "pem",   form |-> "junk", certs |-> {}],
    [ext |-> "other", form |-> "junk", certs |-> {}]}

CertDirs ==
    {[In3(With(Minimal, {CertDir}, "ok"), NoEnv) EXCEPT !.certs = files] :
        files \in SUBSET Certificates}

MCInputs == Flagged \cup OneInFile \cup OneInEnv \cup NullThenEnv \cup TwoInEnv \cup Clashes
            \cup Services \cup CertDirs
=============================================================================
