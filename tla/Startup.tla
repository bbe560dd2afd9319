------------------------------- MODULE Startup ------------------------------
(***************************************************************************)
(* The start of the program: main() and the set-up part of run() (main.go),*)
(* setupNotifications (notify.go), NewMetrics, NewHTTPClient with its      *)
(* certificates, mail.New and NewServer, up to the point where Lifecycle   *)
(* takes over with the listeners.                                          *)
(*                                                                         *)
(* The inputs of a start are its flags, the configuration file, the        *)
(* environment and the certificate directory.  What the outside answers    *)
(* (the file system, Telegram, the database) is nondeterministic.          *)
(***************************************************************************)
EXTENDS Config

CONSTANTS Inputs   \* the inputs of a start: [args, file, env, certs]

\* The keys of a file and of the environment have words, and what the
\* environment holds are strings, never null.
ASSUME InputsAssumption ==
    \A i \in Inputs :
        /\ DOMAIN i.file.map \subseteq Paths
        /\ IsFiniteSet(DOMAIN i.env) /\ DOMAIN i.env \subseteq ProperNames
        /\ \A n \in DOMAIN i.env : i.env[n] # "null"

VARIABLES
    input,      \* the inputs of this start
    stage,      \* where the start is
    exit,       \* the exit status, or Running
    config,     \* the configuration, empty until it is loaded
    logFile,    \* the log file is open
    vectors,    \* the registered metrics
    services,   \* the services of the notifier, in order
    db,         \* the database: none, open, closed or left (by a New that failed)
    proxy,      \* the proxy of the HTTP client: none, plain or auth
    pool,       \* the certificates it trusts
    given       \* what the server is given, empty until it is made

vars == <<input, stage, exit, config, logFile, vectors, services, db, proxy, pool, given>>

Running == 3

Flags == {"debug", "config", "json", "configcheck", "version"}

\* The notifiers, in the order setupNotifications sets them up.
Notifiers == <<"telegram", "discord", "email", "mailgun", "msteams">>
SectionOf == [telegram |-> Telegram, discord |-> Discord, email |-> Email,
              mailgun |-> Mailgun, msteams |-> MSTeams]

Stages == {"flags", "config", "logger", "metrics", "database", "client",
           "server", "up", "exited"} \cup ToSet(Notifiers)

BaseVectors    == {"go", "process", "errors_total", "cache_hits_total", "cache_misses_total"}
RequestVectors == {"http_requests_total", "http_request_duration_seconds",
                   "http_response_size_bytes", "http_request_size_bytes"}

\* The setting is not the zero value of its type.
Set(setting) == config[setting].kind = "ok"

Exit(status) ==
    /\ exit' = status
    /\ stage' = "exited"

Init ==
    /\ input \in Inputs
    /\ stage = "flags"
    /\ exit = Running
    /\ config = << >>
    /\ logFile = FALSE
    /\ vectors = {}
    /\ services = << >>
    /\ db = "none"
    /\ proxy = "none"
    /\ pool = {}
    /\ given = {}

\* main.go:45-60.  An unknown flag ends the process in flag.Parse.
ParseFlags ==
    /\ stage = "flags"
    /\ IF input.args \subseteq Flags
       THEN IF "version" \in input.args
            THEN \E buildInfo \in BOOLEAN : Exit(IF buildInfo THEN 0 ELSE 1)
            ELSE stage' = "config" /\ UNCHANGED exit
       ELSE Exit(2)
    /\ UNCHANGED <<input, config, logFile, vectors, services, db, proxy, pool, given>>

\* main.go:62-80.
LoadConfig ==
    /\ stage = "config"
    /\ \E result \in GetConfig(input.file, input.env) :
          IF result.error
          THEN Exit(1) /\ UNCHANGED config
          ELSE /\ config' = result.settings
               /\ IF "configcheck" \in input.args
                  THEN Exit(0)
                  ELSE stage' = "logger" /\ UNCHANGED exit
    /\ UNCHANGED <<input, logFile, vectors, services, db, proxy, pool, given>>

LogFile == Append(Logging, <<"log", "file">>)

\* newLogger panics in debug mode when there is no working directory.
NewLogger ==
    \/ stage' = "metrics" /\ UNCHANGED exit
    \/ "debug" \in input.args /\ Exit(2)

\* main.go:82-119.
OpenLogger ==
    /\ stage = "logger"
    /\ \/ Set(LogFile) /\ logFile' = TRUE /\ NewLogger
       \/ Set(LogFile) /\ Exit(1) /\ UNCHANGED logFile
       \/ ~Set(LogFile) /\ NewLogger /\ UNCHANGED logFile
    /\ UNCHANGED <<input, config, vectors, services, db, proxy, pool, given>>

AccessLog == Append(Logging, <<"access", "log">>)

\* main.go:133-142.  The registry is new and the names differ: no
\* registration fails.
CreateMetrics ==
    /\ stage = "metrics"
    /\ vectors' = BaseVectors \cup (IF Set(AccessLog) THEN RequestVectors ELSE {})
    /\ stage' = Notifiers[1]
    /\ UNCHANGED <<input, exit, config, logFile, services, db, proxy, pool, given>>

HasCredential(n) ==
    CASE n = "telegram" -> Set(Append(Telegram, <<"api", "token">>))
      [] n = "discord"  -> \/ Set(Append(Discord, <<"bot", "token">>))
                           \/ Set(Append(Discord, <<"oauth", "token">>))
      [] n = "email"    -> Set(Append(Email, <<"server">>))
      [] n = "mailgun"  -> Set(Append(Mailgun, <<"api", "key">>))
      [] n = "msteams"  -> Set(Append(MSTeams, <<"webhooks">>))

\* setupNotifications, one notifier: without a credential it is left out
\* silently.  Telegram and Discord log in and may fail.
SetUpNotifier ==
    \E i \in DOMAIN Notifiers :
        LET n    == Notifiers[i]
            used == Set(Enabled(SectionOf[n])) /\ HasCredential(n)
            next == IF i = Len(Notifiers) THEN "database" ELSE Notifiers[i + 1]
        IN  /\ stage = n
            /\ \/ /\ stage' = next /\ UNCHANGED exit
                  /\ services' = IF used THEN Append(services, n) ELSE services
               \/ used /\ n \in {"telegram", "discord"} /\ Exit(1) /\ UNCHANGED services
            /\ UNCHANGED <<input, config, logFile, vectors, db, proxy, pool, given>>

\* database.New. When it fails, the pools it had opened stay open.
OpenDatabase ==
    /\ stage = "database"
    /\ \/ db' = "open" /\ stage' = "client" /\ UNCHANGED exit
       \/ Exit(1) /\ db' \in {"none", "left"}
    /\ UNCHANGED <<input, config, logFile, vectors, services, proxy, pool, given>>

\* Mutant: the deferred Close comes after the client.
Fail_NoClose == Exit(1) /\ UNCHANGED db

\* An error after database.New: the deferred Close runs before main ends.
Fail == Exit(1) /\ db' = "closed"

CertDir == Append(<< >>, <<"cert", "dir">>)

\* getCertificateChain, one file: a .crt is one DER certificate, a .pem has
\* at least one certificate; every other file is left out.
Considered(f) == f.ext \in {"crt", "pem"}
Readable(f) == f.form = (IF f.ext = "crt" THEN "der" ELSE "pem") /\ f.certs # {}

\* NewHTTPClient and newProxy: a name and a password are used together only.
\* The URL was parsed when the configuration was validated.
SetProxy ==
    proxy' = IF ~Set(Append(Proxy, <<"url">>)) THEN "none"
             ELSE IF Set(Append(Proxy, <<"username">>)) /\ Set(Append(Proxy, <<"password">>))
             THEN "auth" ELSE "plain"

\* Mutant: a file that cannot be read is logged and left out.
CreateClient_SkipsFiles ==
    /\ stage = "client"
    /\ \E system \in {{}, {"system"}} :
          pool' = system \cup UNION {f.certs : f \in {g \in input.certs : Considered(g) /\ Readable(g)}}
    /\ SetProxy
    /\ stage' = "server" /\ UNCHANGED <<exit, db>>
    /\ UNCHANGED <<input, config, logFile, vectors, services, given>>

\* NewHTTPClient.  The directory was there when the configuration was read.
\* The system's certificates may be missing.
CreateClient ==
    /\ stage = "client"
    /\ \/ /\ Set(CertDir) => \A f \in input.certs : Considered(f) => Readable(f)
          /\ IF Set(CertDir)
             THEN \E system \in {{}, {"system"}} :
                     pool' = system \cup UNION {f.certs : f \in {g \in input.certs : Considered(g)}}
             ELSE UNCHANGED pool
          /\ SetProxy
          /\ stage' = "server" /\ UNCHANGED <<exit, db>>
       \/ Set(CertDir) /\ Fail /\ UNCHANGED <<proxy, pool>>
    /\ UNCHANGED <<input, config, logFile, vectors, services, given>>

Parts == {"logger", "config", "db", "notify", "debug", "metrics", "cache", "client"}

\* main.go:166-192: mail.New, which may fail, the options and NewServer, whose
\* options and file systems never fail.
CreateServer ==
    /\ stage = "server"
    /\ \/ /\ given' = Parts \cup (IF Set(AccessLog) THEN {"access_log"} ELSE {})
                            \cup (IF Set(Enabled(Mail)) THEN {"mailer"} ELSE {})
          /\ stage' = "up" /\ UNCHANGED <<exit, db>>
       \/ Set(Enabled(Mail)) /\ Fail /\ UNCHANGED given
    /\ UNCHANGED <<input, config, logFile, vectors, services, proxy, pool>>

Next ==
    \/ ParseFlags \/ LoadConfig \/ OpenLogger \/ CreateMetrics \/ SetUpNotifier
    \/ OpenDatabase \/ CreateClient \/ CreateServer

Spec == Init /\ [][Next]_vars

-----------------------------------------------------------------------------
(* Properties.                                                             *)

TypeOK ==
    /\ stage \in Stages
    /\ exit \in {Running, 0, 1, 2} /\ (exit = Running <=> stage # "exited")
    /\ config = << >> \/ DOMAIN config = Settings
    /\ logFile \in BOOLEAN
    /\ vectors \subseteq BaseVectors \cup RequestVectors
    /\ Range(services) \subseteq Range(Notifiers)
    /\ db \in {"none", "open", "closed", "left"}
    /\ proxy \in {"none", "plain", "auth"}
    /\ given \subseteq Parts \cup {"access_log", "mailer"}

\* The environment decides over the file and the file over the defaults, for
\* every setting by its documented name; a null in the file resets all below it
\* (config.go:156-180). What else is set matters only where a name is in the
\* way of another: with GO_SERVER_LISTEN_LISTEN beside GO_SERVER_LISTEN, or
\* GO_MAIL_SERVER_PORT beside GO_MAIL_SERVER, chance decides over the address
\* and the port.
LayersDecide ==
    config # << >> =>
        \A s \in Settings \ ByChance(input.env) :
            LET above == {p \in DOMAIN input.file.map : IsPrefix(p, s)}
            IN  config[s] =
                  IF NameOf(s) \in DOMAIN input.env
                  THEN [layer |-> "env", kind |-> input.env[NameOf(s)]]
                  ELSE IF above # {} THEN At(input.file.map, s)
                  ELSE At(Defaults, s)

\* koanf goes through the names of the environment in the random order of a
\* map (config.go:168-180). If no name is in the way of another, GetConfig
\* gives the same for the same inputs; if one is, it may fail in one order and
\* not in another, and the configurations it returns differ only in the
\* settings that the names in the way leave to chance.
SameInputsSameConfig ==
    stage = "config" =>
        LET results == GetConfig(input.file, input.env)
        IN  /\ Clashing(input.env) = {} => Cardinality(results) = 1
            /\ \A one, other \in {r \in results : ~r.error} :
                  \A s \in Settings \ ByChance(input.env) : one.settings[s] = other.settings[s]

\* What is switched on works once the server is up: every enabled notifier
\* is used, except a Discord without a token and an empty list of webhooks,
\* so that no other is left out silently by notify.go, every enabled mailer
\* is given to the server, a proxy gets the user it is configured with, and the
\* access log, switched on at main.go:177, has the vectors of main.go:135.
EnabledAreUsed ==
    stage = "up" =>
        /\ \A n \in Range(Notifiers) :
              Set(Enabled(SectionOf[n])) =>
                 \/ \E i \in DOMAIN services : services[i] = n
                 \/ n \in {"discord", "msteams"} /\ ~HasCredential(n)
        /\ Set(Enabled(Mail)) <=> "mailer" \in given
        /\ Set(Append(Proxy, <<"url">>)) /\ Set(Append(Proxy, <<"username">>)) =>
              proxy = "auth"
        /\ Set(AccessLog) => "access_log" \in given
        /\ "access_log" \in given => RequestVectors \subseteq vectors

\* A server that is up trusts every certificate of cert_dir: no file with the
\* extension of a certificate is left out (cert_helper.go).
CertificatesTrusted ==
    stage = "up" /\ Set(CertDir) =>
        \A f \in input.certs : Considered(f) => f.certs # {} /\ f.certs \subseteq pool

\* -version and -configcheck open nothing, and a database that database.New
\* returned is closed at every end of the start (main.go:52-80, 153-157). Only
\* a New that fails leaves pools open, right before the process ends
\* (database.go:45-47).
NothingLeftBehind ==
    /\ input.args \cap {"version", "configcheck"} # {} =>
          ~logFile /\ vectors = {} /\ services = << >> /\ db = "none"
    /\ exit # Running => db # "open"
    /\ db = "left" => exit = 1 /\ given = {}

\* The tags of config.go:73-74 require a sender's name and address of a
\* configuration that enables the mail.
MailHasSender ==
    stage = "up" /\ Set(Enabled(Mail)) =>
        Set(Append(From, <<"name">>)) /\ Set(Append(From, <<"email">>))
=============================================================================
