---------------------------- MODULE StartupProofs ---------------------------
(***************************************************************************)
(* Proofs about Startup for any set of inputs: any files, environments,    *)
(* flags and certificate directories.  Most need of GetConfig only that a  *)
(* configuration it returns without an error is validated; what it is made *)
(* of, which layer decides over which setting, comes from ConfigProofs.    *)
(***************************************************************************)
EXTENDS Startup, ConfigProofs, TLAPS

(* The configuration, once there is one, was validated.                    *)
Loaded(settings) ==
    \E map : Valid(map) /\ settings = [s \in Settings |-> At(map, s)]

BeforeLogger == {"flags", "config", "exited"}

ConfigInv == stage \notin BeforeLogger => Loaded(config)

(* Where the start is, and what is open there.                             *)
StageInv ==
    /\ stage \in Stages
    /\ exit \in {Running, 0, 1, 2}
    /\ exit = Running <=> stage # "exited"

DBInv ==
    /\ db \in {"none", "open", "closed", "left"}
    /\ db = "open" <=> stage \in {"client", "server", "up"}
    /\ db = "left" => stage = "exited" /\ exit = 1 /\ given = {}

(* -version ends with the flags and -configcheck with the configuration.   *)
CheckInv ==
    /\ stage \in {"flags", "config", "logger"} =>
          ~logFile /\ vectors = {} /\ services = << >> /\ db = "none"
    /\ "version" \in input.args => stage \in {"flags", "exited"}
    /\ "configcheck" \in input.args => stage \in BeforeLogger
    /\ input.args \cap {"version", "configcheck"} # {} =>
          ~logFile /\ vectors = {} /\ services = << >> /\ db = "none"

(* The vectors are there from CreateMetrics on, the option comes last.     *)
BeforeMetrics == BeforeLogger \cup {"logger", "metrics"}

VectorsInv ==
    /\ stage \notin BeforeMetrics => (Set(AccessLog) => RequestVectors \subseteq vectors)
    /\ "access_log" \in given => RequestVectors \subseteq vectors

(* The client is made before the server.                                   *)
PoolInv ==
    stage \in {"server", "up"} /\ Set(CertDir) =>
        \A f \in input.certs : Considered(f) => f.certs # {} /\ f.certs \subseteq pool

(* A notifier whose turn is over is used, or has no credential.            *)
Over(i) == stage \in {"database", "client", "server", "up"}
                     \cup {Notifiers[j] : j \in {k \in 1 .. 5 : k > i}}

Used(n) == \E i \in DOMAIN services : services[i] = n

NotifiersInv ==
    /\ services \in Seq(ToSet(Notifiers))
    /\ \A i \in 1 .. 5 : Over(i) =>
          (Set(Enabled(SectionOf[Notifiers[i]])) =>
              Used(Notifiers[i]) \/ ~HasCredential(Notifiers[i]))

TypesInv ==
    /\ config = << >> \/ DOMAIN config = Settings
    /\ logFile \in BOOLEAN
    /\ vectors \subseteq BaseVectors \cup RequestVectors
    /\ given \subseteq Parts \cup {"access_log", "mailer"}
    /\ proxy \in {"none", "plain", "auth"}

(* The client has the proxy's user when there are a name and a password.   *)
ProxyUser ==
    \A key \in {"url", "username", "password"} : Set(Append(Proxy, <<key>>))

ProxyInv == stage \in {"server", "up"} => (ProxyUser => proxy = "auth")

GivenInv == stage \notin {"up", "exited"} => given = {}

MailerInv == stage = "up" => /\ Set(Enabled(Mail)) <=> "mailer" \in given
                             /\ Set(AccessLog) => "access_log" \in given

IInv == /\ ConfigInv /\ StageInv /\ DBInv /\ CheckInv /\ VectorsInv /\ PoolInv
        /\ NotifiersInv /\ GivenInv /\ MailerInv /\ TypesInv
        /\ ProxyInv

(* GetConfig returns an error or a validated configuration.                *)
LEMMA GetConfigLoads ==
    ASSUME NEW file, NEW env, NEW result \in GetConfig(file, env), ~result.error
    PROVE  Loaded(result.settings)
<1>1. file.readable
    BY DEF GetConfig
<1> DEFINE Maps == {Merge(Merge(Defaults, file.map), layer) : layer \in EnvLayers(env)}
<1>2. PICK map \in Maps :
          result = IF Decodes(map) /\ Valid(map)
                   THEN [error |-> FALSE, settings |-> [s \in Settings |-> At(map, s)]]
                   ELSE [error |-> TRUE, settings |-> << >>]
    BY <1>1 DEF GetConfig
<1> HIDE DEF Maps
<1>3. Valid(map) /\ result.settings = [s \in Settings |-> At(map, s)]
    BY <1>2
<1> QED
    BY <1>3 DEF Loaded

(* One lemma per part of the invariant, with a step per action.            *)
LEMMA ConfigStep ==
    ASSUME IInv, [Next]_vars
    PROVE  ConfigInv'
<1> USE DEF ConfigInv, BeforeLogger
<1>1. CASE ParseFlags
    BY <1>1 DEF ParseFlags, Exit
<1>2. CASE LoadConfig
  <2>1. PICK result \in GetConfig(input.file, input.env) :
            IF result.error
            THEN Exit(1) /\ UNCHANGED config
            ELSE /\ config' = result.settings
                 /\ IF "configcheck" \in input.args
                    THEN Exit(0)
                    ELSE stage' = "logger" /\ UNCHANGED exit
      BY <1>2 DEF LoadConfig
  <2>2. CASE result.error
      BY <2>1, <2>2 DEF Exit
  <2>3. CASE ~result.error
    <3>1. Loaded(result.settings)
        BY <2>3, GetConfigLoads
    <3> QED
        BY <2>1, <2>3, <3>1
  <2> QED
      BY <2>2, <2>3
<1>3. CASE OpenLogger \/ CreateMetrics \/ OpenDatabase \/ CreateClient \/ CreateServer
    BY <1>3 DEF IInv, OpenLogger, NewLogger, CreateMetrics, OpenDatabase, CreateClient,
                CreateServer, Exit, Fail
<1>4. CASE SetUpNotifier
    BY <1>4 DEF IInv, SetUpNotifier, Exit, Notifiers
<1>5. CASE UNCHANGED vars
    BY <1>5 DEF IInv, vars
<1> QED
    BY <1>1, <1>2, <1>3, <1>4, <1>5 DEF Next

LEMMA StageStep ==
    ASSUME IInv, [Next]_vars
    PROVE  StageInv'
<1> USE DEF StageInv, Running
<1>0. Stages = {"flags", "config", "logger", "metrics", "database", "client", "server", "up",
                "exited", "telegram", "discord", "email", "mailgun", "msteams"}
    BY DEF Stages, ToSet, Notifiers
<1> USE <1>0 DEF IInv
<1>1. CASE ParseFlags
    BY <1>1 DEF ParseFlags, Exit
<1>2. CASE LoadConfig
    BY <1>2 DEF LoadConfig, Exit
<1>3. CASE OpenLogger
    BY <1>3 DEF OpenLogger, NewLogger, Exit
<1>4. CASE CreateMetrics
    BY <1>4 DEF CreateMetrics, Notifiers
<1>5. CASE SetUpNotifier
    BY <1>5 DEF SetUpNotifier, Exit, Notifiers
<1>6. CASE OpenDatabase
    BY <1>6 DEF OpenDatabase, Exit
<1>7. CASE CreateClient
    BY <1>7 DEF CreateClient, Exit, Fail
<1>8. CASE CreateServer
    BY <1>8 DEF CreateServer, Exit, Fail
<1>9. CASE UNCHANGED vars
    BY <1>9 DEF vars
<1> QED
    BY <1>1, <1>2, <1>3, <1>4, <1>5, <1>6, <1>7, <1>8, <1>9 DEF Next

(* The database is open between database.New and the end of run().         *)
LEMMA DBStep ==
    ASSUME IInv, [Next]_vars
    PROVE  DBInv'
<1> USE DEF DBInv, GivenInv, IInv
<1>1. CASE ParseFlags
    BY <1>1 DEF ParseFlags, Exit
<1>2. CASE LoadConfig
    BY <1>2 DEF LoadConfig, Exit
<1>3. CASE OpenLogger
    BY <1>3 DEF OpenLogger, NewLogger, Exit
<1>4. CASE CreateMetrics
    BY <1>4 DEF CreateMetrics, Notifiers
<1>5. CASE SetUpNotifier
    BY <1>5 DEF SetUpNotifier, Exit, Notifiers
<1>6. CASE OpenDatabase
    BY <1>6 DEF OpenDatabase, Exit
<1>7. CASE CreateClient
    BY <1>7 DEF CreateClient, Exit, Fail
<1>8. CASE CreateServer
    BY <1>8 DEF CreateServer, Exit, Fail
<1>9. CASE UNCHANGED vars
    BY <1>9 DEF vars
<1> QED
    BY <1>1, <1>2, <1>3, <1>4, <1>5, <1>6, <1>7, <1>8, <1>9 DEF Next

LEMMA CheckStep ==
    ASSUME IInv, [Next]_vars
    PROVE  CheckInv'
<1> USE DEF CheckInv, BeforeLogger, IInv
<1>1. CASE ParseFlags
    BY <1>1 DEF ParseFlags, Exit
<1>2. CASE LoadConfig
    BY <1>2 DEF LoadConfig, Exit
<1>3. CASE OpenLogger
    BY <1>3 DEF OpenLogger, NewLogger, Exit
<1>4. CASE CreateMetrics
    BY <1>4 DEF CreateMetrics, Notifiers
<1>5. CASE SetUpNotifier
    BY <1>5 DEF SetUpNotifier, Exit, Notifiers
<1>6. CASE OpenDatabase
    BY <1>6 DEF OpenDatabase, Exit
<1>7. CASE CreateClient
    BY <1>7 DEF CreateClient, Exit, Fail
<1>8. CASE CreateServer
    BY <1>8 DEF CreateServer, Exit, Fail
<1>9. CASE UNCHANGED vars
    BY <1>9 DEF vars
<1> QED
    BY <1>1, <1>2, <1>3, <1>4, <1>5, <1>6, <1>7, <1>8, <1>9 DEF Next

LEMMA VectorsStep ==
    ASSUME IInv, [Next]_vars
    PROVE  VectorsInv'
<1> USE DEF VectorsInv, BeforeMetrics, BeforeLogger, IInv, Set
<1>1. CASE ParseFlags
    BY <1>1 DEF ParseFlags, Exit
<1>2. CASE LoadConfig
    BY <1>2 DEF LoadConfig, Exit
<1>3. CASE OpenLogger
    BY <1>3 DEF OpenLogger, NewLogger, Exit
<1>4. CASE CreateMetrics
  <2>1. vectors' = BaseVectors \cup (IF Set(AccessLog) THEN RequestVectors ELSE {})
      BY <1>4 DEF CreateMetrics
  <2>2. UNCHANGED <<config, given>>
      BY <1>4 DEF CreateMetrics
  <2>3. Set(AccessLog) => RequestVectors \subseteq vectors'
      BY <2>1
  <2>4. "access_log" \in given => RequestVectors \subseteq vectors'
      BY <1>4 DEF CreateMetrics, GivenInv
  <2> QED
      BY <2>2, <2>3, <2>4
<1>5. CASE SetUpNotifier
    BY <1>5 DEF SetUpNotifier, Exit, Notifiers
<1>6. CASE OpenDatabase
    BY <1>6 DEF OpenDatabase, Exit
<1>7. CASE CreateClient
    BY <1>7 DEF CreateClient, Exit, Fail
<1>8. CASE CreateServer
  <2>1. UNCHANGED <<config, vectors>> /\ stage = "server"
      BY <1>8 DEF CreateServer
  <2>2. "access_log" \in given' => "access_log" \in given \/ Set(AccessLog)
      BY <1>8 DEF CreateServer, Parts
  <2> QED
      BY <2>1, <2>2
<1>9. CASE UNCHANGED vars
    BY <1>9 DEF vars
<1> QED
    BY <1>1, <1>2, <1>3, <1>4, <1>5, <1>6, <1>7, <1>8, <1>9 DEF Next

LEMMA PoolStep ==
    ASSUME IInv, [Next]_vars
    PROVE  PoolInv'
<1> USE DEF PoolInv, IInv, Set
<1>1. CASE ParseFlags
    BY <1>1 DEF ParseFlags, Exit
<1>2. CASE LoadConfig
    BY <1>2 DEF LoadConfig, Exit
<1>3. CASE OpenLogger
    BY <1>3 DEF OpenLogger, NewLogger, Exit
<1>4. CASE CreateMetrics
    BY <1>4 DEF CreateMetrics, Notifiers
<1>5. CASE SetUpNotifier
    BY <1>5 DEF SetUpNotifier, Exit, Notifiers
<1>6. CASE OpenDatabase
    BY <1>6 DEF OpenDatabase, Exit
<1>7. CASE CreateClient
  <2>1. SUFFICES ASSUME stage' = "server", Set(CertDir),
                        NEW f \in input.certs, Considered(f)
                 PROVE  f.certs # {} /\ f.certs \subseteq pool'
      BY <1>7 DEF CreateClient, Exit, Fail
  <2>2. Readable(f)
      BY <1>7, <2>1 DEF CreateClient, Exit, Fail
  <2>3. PICK system \in {{}, {"system"}} :
            pool' = system \cup UNION {g.certs : g \in {h \in input.certs : Considered(h)}}
      BY <1>7, <2>1 DEF CreateClient, Exit, Fail
  <2> QED
      BY <2>1, <2>2, <2>3 DEF Readable
<1>8. CASE CreateServer
    BY <1>8 DEF CreateServer, Exit, Fail
<1>9. CASE UNCHANGED vars
    BY <1>9 DEF vars
<1> QED
    BY <1>1, <1>2, <1>3, <1>4, <1>5, <1>6, <1>7, <1>8, <1>9 DEF Next

LEMMA GivenStep ==
    ASSUME IInv, [Next]_vars
    PROVE  GivenInv' /\ MailerInv'
<1> USE DEF GivenInv, MailerInv, IInv, Set
<1>1. CASE ParseFlags
    BY <1>1 DEF ParseFlags, Exit
<1>2. CASE LoadConfig
    BY <1>2 DEF LoadConfig, Exit
<1>3. CASE OpenLogger
    BY <1>3 DEF OpenLogger, NewLogger, Exit
<1>4. CASE CreateMetrics
    BY <1>4 DEF CreateMetrics, Notifiers
<1>5. CASE SetUpNotifier
    BY <1>5 DEF SetUpNotifier, Exit, Notifiers
<1>6. CASE OpenDatabase
    BY <1>6 DEF OpenDatabase, Exit
<1>7. CASE CreateClient
    BY <1>7 DEF CreateClient, Exit, Fail
<1>8. CASE CreateServer
    BY <1>8 DEF CreateServer, Exit, Fail, Parts
<1>9. CASE UNCHANGED vars
    BY <1>9 DEF vars
<1> QED
    BY <1>1, <1>2, <1>3, <1>4, <1>5, <1>6, <1>7, <1>8, <1>9 DEF Next

LEMMA ProxyStep ==
    ASSUME IInv, [Next]_vars
    PROVE  ProxyInv'
<1> USE DEF ProxyInv, ProxyUser, IInv, Set
<1>1. CASE ParseFlags
    BY <1>1 DEF ParseFlags, Exit
<1>2. CASE LoadConfig
    BY <1>2 DEF LoadConfig, Exit
<1>3. CASE OpenLogger
    BY <1>3 DEF OpenLogger, NewLogger, Exit
<1>4. CASE CreateMetrics
    BY <1>4 DEF CreateMetrics, Notifiers
<1>5. CASE SetUpNotifier
    BY <1>5 DEF SetUpNotifier, Exit, Notifiers
<1>6. CASE OpenDatabase
    BY <1>6 DEF OpenDatabase, Exit
<1>7. CASE CreateClient
  <2>1. UNCHANGED config
      BY <1>7 DEF CreateClient
  <2>2. stage' = "exited" \/ SetProxy
      BY <1>7 DEF CreateClient, Exit, Fail
  <2>3. SetProxy => (ProxyUser => proxy' = "auth")
      BY DEF SetProxy
  <2> QED
      BY <2>1, <2>2, <2>3
<1>8. CASE CreateServer
    BY <1>8 DEF CreateServer, Exit, Fail
<1>9. CASE UNCHANGED vars
    BY <1>9 DEF vars
<1> QED
    BY <1>1, <1>2, <1>3, <1>4, <1>5, <1>6, <1>7, <1>8, <1>9 DEF Next

LEMMA TypesStep ==
    ASSUME IInv, [Next]_vars
    PROVE  TypesInv'
<1> USE DEF TypesInv, IInv
<1>1. CASE ParseFlags
    BY <1>1 DEF ParseFlags, Exit
<1>2. CASE LoadConfig
  <2>1. PICK result \in GetConfig(input.file, input.env) :
            IF result.error THEN UNCHANGED config ELSE config' = result.settings
      BY <1>2 DEF LoadConfig
  <2>2. ~result.error => Loaded(result.settings)
      BY GetConfigLoads
  <2>3. config' = << >> \/ DOMAIN config' = Settings
      BY <2>1, <2>2 DEF Loaded
  <2> QED
      BY <1>2, <2>3 DEF LoadConfig
<1>3. CASE OpenLogger
    BY <1>3 DEF OpenLogger, NewLogger, Exit
<1>4. CASE CreateMetrics
    BY <1>4 DEF CreateMetrics, Notifiers
<1>5. CASE SetUpNotifier
    BY <1>5 DEF SetUpNotifier, Exit, Notifiers
<1>6. CASE OpenDatabase
    BY <1>6 DEF OpenDatabase, Exit
<1>7. CASE CreateClient
  <2>1. UNCHANGED <<config, logFile, vectors, given>>
      BY <1>7 DEF CreateClient
  <2>2. UNCHANGED proxy \/ SetProxy
      BY <1>7 DEF CreateClient, Exit, Fail
  <2>3. proxy' \in {"none", "plain", "auth"}
      BY <2>2 DEF SetProxy
  <2> QED
      BY <2>1, <2>3
<1>8. CASE CreateServer
    BY <1>8 DEF CreateServer, Exit, Fail, Parts
<1>9. CASE UNCHANGED vars
    BY <1>9 DEF vars
<1> QED
    BY <1>1, <1>2, <1>3, <1>4, <1>5, <1>6, <1>7, <1>8, <1>9 DEF Next

(* A step that leaves the configuration and the services and passes no     *)
(* notifier.                                                               *)
LEMMA NotifiersKept ==
    ASSUME NotifiersInv, UNCHANGED <<config, services>>,
           \A i \in 1 .. 5 : Over(i)' => Over(i)
    PROVE  NotifiersInv'
BY DEF NotifiersInv, Used, Set, HasCredential

(* A notifier is set up, in the order of the list.                         *)
LEMMA NotifierIsSetUp ==
    ASSUME IInv, SetUpNotifier
    PROVE  NotifiersInv'
<1>1. PICK i \in 1 .. 5 :
          /\ stage = Notifiers[i]
          /\ \/ /\ stage' = IF i = 5 THEN "database" ELSE Notifiers[i + 1]
                /\ services' = IF Set(Enabled(SectionOf[Notifiers[i]])) /\ HasCredential(Notifiers[i])
                               THEN Append(services, Notifiers[i]) ELSE services
             \/ stage' = "exited" /\ UNCHANGED services
          /\ UNCHANGED config
    BY DEF SetUpNotifier, Notifiers, Exit
<1>2. services \in Seq(ToSet(Notifiers)) /\ Notifiers[i] \in ToSet(Notifiers)
    BY DEF IInv, NotifiersInv, ToSet, Notifiers
<1>3. CASE stage' = "exited" /\ UNCHANGED services
  <2>1. \A j \in 1 .. 5 : Over(j)' => Over(j)
      BY <1>3 DEF Over, Notifiers
  <2> QED
      BY <1>1, <1>3, <2>1, NotifiersKept DEF IInv
<1>4. CASE stage' # "exited"
  <2>1. /\ stage' = IF i = 5 THEN "database" ELSE Notifiers[i + 1]
        /\ services' = IF Set(Enabled(SectionOf[Notifiers[i]])) /\ HasCredential(Notifiers[i])
                       THEN Append(services, Notifiers[i]) ELSE services
      BY <1>1, <1>4
  <2>2. services' \in Seq(ToSet(Notifiers))
      BY <1>2, <2>1
  <2>3. \A n : Used(n) => Used(n)'
      BY <1>2, <2>1 DEF Used
  <2>4. Set(Enabled(SectionOf[Notifiers[i]])) /\ HasCredential(Notifiers[i]) => Used(Notifiers[i])'
    <3>1. SUFFICES ASSUME services' = Append(services, Notifiers[i])
                   PROVE  \E j \in DOMAIN services' : services'[j] = Notifiers[i]
        BY <2>1 DEF Used
    <3>2. Len(services) + 1 \in DOMAIN services' /\ services'[Len(services) + 1] = Notifiers[i]
        BY <1>2, <3>1
    <3> QED
        BY <3>2
  <2>5. \A j \in 1 .. 5 : Over(j)' => Over(j) \/ j = i
      BY <1>1, <2>1 DEF Over, Notifiers
  <2>6. \A j \in 1 .. 5 : Over(j)' =>
            (Set(Enabled(SectionOf[Notifiers[j]])) =>
                Used(Notifiers[j])' \/ ~HasCredential(Notifiers[j]))
      BY <2>3, <2>4, <2>5 DEF IInv, NotifiersInv
  <2>7. \A setting : Set(setting)' <=> Set(setting)
      BY <1>1 DEF Set
  <2>8. \A n : HasCredential(n)' <=> HasCredential(n)
      BY <1>1 DEF HasCredential, Set
  <2> QED
      BY <2>2, <2>6, <2>7, <2>8 DEF NotifiersInv
<1> QED
    BY <1>1, <1>3, <1>4 DEF Notifiers

LEMMA NotifiersStep ==
    ASSUME IInv, [Next]_vars
    PROVE  NotifiersInv'
<1> USE DEF IInv
<1>1. CASE ParseFlags
  <2>1. \A i \in 1 .. 5 : ~Over(i)'
      BY <1>1 DEF ParseFlags, Exit, Over, Notifiers
  <2> QED
      BY <1>1, <2>1, NotifiersKept DEF ParseFlags
<1>2. CASE LoadConfig
  <2>1. \A i \in 1 .. 5 : ~Over(i)'
      BY <1>2 DEF LoadConfig, Exit, Over, Notifiers
  <2> QED
      BY <1>2, <2>1 DEF LoadConfig, NotifiersInv
<1>3. CASE OpenLogger
  <2>1. \A i \in 1 .. 5 : ~Over(i)'
      BY <1>3 DEF OpenLogger, NewLogger, Exit, Over, Notifiers
  <2> QED
      BY <1>3, <2>1, NotifiersKept DEF OpenLogger
<1>4. CASE CreateMetrics
  <2>1. \A i \in 1 .. 5 : ~Over(i)'
      BY <1>4 DEF CreateMetrics, Over, Notifiers
  <2> QED
      BY <1>4, <2>1, NotifiersKept DEF CreateMetrics
<1>5. CASE SetUpNotifier
    BY <1>5, NotifierIsSetUp
<1>6. CASE OpenDatabase
  <2>1. \A i \in 1 .. 5 : Over(i)' => Over(i)
      BY <1>6 DEF OpenDatabase, Over
  <2> QED
      BY <1>6, <2>1, NotifiersKept DEF OpenDatabase
<1>7. CASE CreateClient
  <2>1. \A i \in 1 .. 5 : Over(i)' => Over(i)
      BY <1>7 DEF CreateClient, Over
  <2> QED
      BY <1>7, <2>1, NotifiersKept DEF CreateClient
<1>8. CASE CreateServer
  <2>1. \A i \in 1 .. 5 : Over(i)' => Over(i)
      BY <1>8 DEF CreateServer, Over
  <2> QED
      BY <1>8, <2>1, NotifiersKept DEF CreateServer
<1>9. CASE UNCHANGED vars
    BY <1>9, NotifiersKept DEF vars, Over
<1> QED
    BY <1>1, <1>2, <1>3, <1>4, <1>5, <1>6, <1>7, <1>8, <1>9 DEF Next

-----------------------------------------------------------------------------

(* The start keeps its invariant, whatever it is given and whatever the    *)
(* outside answers.                                                        *)
THEOREM Invariance == Spec => []IInv
<1>1. Init => IInv
  <2> SUFFICES ASSUME Init PROVE IInv
      OBVIOUS
  <2>1. StageInv
      BY DEF Init, StageInv, Running, Stages
  <2>2. NotifiersInv
      BY DEF Init, NotifiersInv, Over, Notifiers
  <2>3. TypesInv
      BY DEF Init, TypesInv
  <2> QED
      BY <2>1, <2>2, <2>3
         DEF Init, IInv, ConfigInv, DBInv, CheckInv, VectorsInv, PoolInv, GivenInv, MailerInv,
             ProxyInv, BeforeMetrics, BeforeLogger
<1>2. IInv /\ [Next]_vars => IInv'
    BY ConfigStep, StageStep, DBStep, CheckStep, VectorsStep, PoolStep, NotifiersStep, GivenStep,
       TypesStep, ProxyStep
       DEF IInv
<1> QED
    BY <1>1, <1>2, PTL DEF Spec

(* The variables keep to their domains: after GetConfig every setting has  *)
(* a value, and the process has an exit status exactly when it has ended.  *)
THEOREM TypeCorrect == Spec => []TypeOK
<1>1. IInv => TypeOK
  <2>1. ASSUME IInv PROVE Range(services) \subseteq Range(Notifiers)
      BY <2>1 DEF IInv, NotifiersInv, Range, ToSet, Notifiers
  <2> QED
      BY <2>1 DEF IInv, StageInv, DBInv, TypesInv, TypeOK
<1> QED
    BY <1>1, Invariance, PTL

(* A server that is up trusts every certificate of any directory           *)
(* (cert_helper.go).                                                       *)
THEOREM CertificatesAreTrusted == Spec => []CertificatesTrusted
<1>1. IInv => CertificatesTrusted
    BY DEF IInv, PoolInv, CertificatesTrusted
<1> QED
    BY <1>1, Invariance, PTL

(* A database that database.New returned is closed at every end of the     *)
(* start, -version and -configcheck open nothing, and pools are left open  *)
(* only right before the process ends with status 1 (main.go:52-80,        *)
(* 153-157, database.go:45-47).                                            *)
THEOREM StartsAreClean == Spec => []NothingLeftBehind
<1>1. IInv => NothingLeftBehind
    BY DEF IInv, CheckInv, DBInv, StageInv, NothingLeftBehind
<1> QED
    BY <1>1, Invariance, PTL

(* What the required_if tags ask for is the credential setupNotifications  *)
(* looks for.                                                              *)
LEMMA Credentials ==
    ASSUME Loaded(config), NEW n \in {"telegram", "email", "mailgun"},
           Set(Enabled(SectionOf[n]))
    PROVE  HasCredential(n)
<1>1. PICK map : Valid(map) /\ config = [s \in Settings |-> At(map, s)]
    BY DEF Loaded
<1> DEFINE Key(m) == CASE m = "telegram" -> Append(Telegram, <<"api", "token">>)
                       [] m = "email"    -> Append(Email, <<"server">>)
                       [] m = "mailgun"  -> Append(Mailgun, <<"api", "key">>)
<1>2. Key(n) \in RequiredIf[SectionOf[n]] /\ SectionOf[n] \in DOMAIN RequiredIf
  <2>1. /\ Append(Telegram, <<"api", "token">>) \in RequiredIf[Telegram]
        /\ Append(Email, <<"server">>) \in RequiredIf[Email]
        /\ Append(Mailgun, <<"api", "key">>) \in RequiredIf[Mailgun]
    <3>1. /\ Telegram \notin {Mail, Discord, Email, Mailgun, MSTeams}
          /\ Email \notin {Mail, Telegram, Discord, Mailgun, MSTeams}
          /\ Mailgun \notin {Mail, Telegram, Discord, Email, MSTeams}
        BY DEF Telegram, Email, Mailgun, Mail, Discord, MSTeams
    <3>2. /\ RequiredIf[Telegram] = In(Telegram, {<<"api", "token">>, <<"chat", "ids">>})
          /\ RequiredIf[Email] =
                In(Email, {<<"sender">>, <<"server">>, <<"port">>, <<"recipients">>})
          /\ RequiredIf[Mailgun] =
                In(Mailgun, {<<"api", "key">>, <<"sender", "address">>, <<"domain">>,
                             <<"recipients">>})
        BY <3>1 DEF RequiredIf
    <3> QED
        BY <3>2 DEF In
  <2> QED
      BY <2>1 DEF SectionOf, RequiredIf
<1>3. Enabled(SectionOf[n]) \in Settings /\ Key(n) \in Settings
  <2>1. CASE n = "telegram"
      BY <2>1 DEF Settings, SectionOf, Enabled, In
  <2>2. CASE n = "email"
      BY <2>2 DEF Settings, SectionOf, Enabled, In
  <2>3. CASE n = "mailgun"
      BY <2>3 DEF Settings, SectionOf, Enabled, In
  <2> QED
      BY <2>1, <2>2, <2>3
<1>4. Key(n) \notin Lists
    BY DEF Lists, Telegram, Email, Mailgun, Mail, Discord, MSTeams, Server
<1>5. At(map, Enabled(SectionOf[n])).kind = "ok"
    BY <1>1, <1>3 DEF Set
<1>6. Present(map, Key(n))
    BY <1>1, <1>2, <1>5 DEF Valid
<1>7. At(map, Key(n)).kind = "ok"
    BY <1>4, <1>6 DEF Present
<1>8. Set(Key(n))
    BY <1>1, <1>3, <1>7 DEF Set
<1> QED
    BY <1>8 DEF HasCredential

(* The tags required_with.                                                 *)
LEMMA BothOrNeither ==
    ASSUME Loaded(config), Set(Append(Proxy, <<"username">>))
    PROVE  Set(Append(Proxy, <<"password">>))
<1> DEFINE user == Append(Proxy, <<"username">>)
           pass == Append(Proxy, <<"password">>)
<1>1. PICK map : Valid(map) /\ config = [s \in Settings |-> At(map, s)]
    BY DEF Loaded
<1>2. user \in Settings /\ pass \in Settings
    BY DEF Settings, ProxySettings, In
<1>3. user \notin Lists /\ pass \notin Lists
    BY DEF Lists, Proxy, Telegram, Discord, Email, Mailgun, Mail, MSTeams, Server
<1>4. Present(map, user) <=> Present(map, pass)
    BY <1>1 DEF Valid
<1> QED
    BY <1>1, <1>2, <1>3, <1>4 DEF Present, Set

(* Whatever the inputs, an enabled notifier is used once the server is up, *)
(* but for a Discord without a token and an empty list of webhooks, and an *)
(* enabled mailer, a proxy's user and the access log with its vectors too  *)
(* (config.go:66-131, notify.go, main.go:135-187).                         *)
THEOREM EnabledIsUsed == Spec => []EnabledAreUsed
<1>1. IInv => EnabledAreUsed
  <2>1. SUFFICES ASSUME IInv, stage = "up"
                 PROVE  /\ \A n \in Range(Notifiers) :
                              Set(Enabled(SectionOf[n])) =>
                                 \/ \E i \in DOMAIN services : services[i] = n
                                 \/ n \in {"discord", "msteams"} /\ ~HasCredential(n)
                        /\ Set(Enabled(Mail)) <=> "mailer" \in given
                        /\ Set(Append(Proxy, <<"url">>)) /\ Set(Append(Proxy, <<"username">>)) =>
                              proxy = "auth"
                        /\ Set(AccessLog) => "access_log" \in given
                        /\ "access_log" \in given => RequestVectors \subseteq vectors
      BY DEF EnabledAreUsed
  <2>0. Loaded(config)
      BY <2>1 DEF IInv, ConfigInv, BeforeLogger
  <2>2. SUFFICES ASSUME NEW n \in Range(Notifiers), Set(Enabled(SectionOf[n]))
                 PROVE  \/ \E i \in DOMAIN services : services[i] = n
                        \/ n \in {"discord", "msteams"} /\ ~HasCredential(n)
    <3>1. Set(Append(Proxy, <<"url">>)) /\ Set(Append(Proxy, <<"username">>)) => proxy = "auth"
        BY <2>1, <2>0, BothOrNeither DEF IInv, ProxyInv, ProxyUser
    <3> QED
        BY <2>1, <3>1 DEF IInv, MailerInv, VectorsInv
  <2>3. n \in {"telegram", "discord", "email", "mailgun", "msteams"}
      BY DEF Range, Notifiers
  <2>4. Used(n) \/ ~HasCredential(n)
    <3>1. PICK i \in 1 .. 5 : n = Notifiers[i]
        BY <2>3 DEF Notifiers
    <3> QED
        BY <2>1, <2>2, <3>1 DEF IInv, NotifiersInv, Over
  <2> QED
      BY <2>0, <2>2, <2>3, <2>4, Credentials DEF Used
<1> QED
    BY <1>1, Invariance, PTL

-----------------------------------------------------------------------------
(* The layers.                                                             *)

InputInv == input \in Inputs

DecidedInv == InputInv /\ LayersDecide

LEMMA ProperInputs ==
    ASSUME InputInv
    PROVE  DOMAIN input.file.map \subseteq Paths /\ Proper(input.env)
  BY InputsAssumption DEF InputInv, Proper

LEMMA DecidedStep ==
    ASSUME DecidedInv, [Next]_vars
    PROVE  DecidedInv'
<1>1. CASE UNCHANGED <<input, config>>
    BY <1>1 DEF DecidedInv, InputInv, LayersDecide
<1>2. CASE LoadConfig
  <2>1. CASE UNCHANGED config
      BY <1>1, <1>2, <2>1 DEF LoadConfig
  <2>2. CASE config' # config
    <3>1. InputInv' /\ UNCHANGED input
        BY <1>2 DEF LoadConfig, DecidedInv, InputInv
    <3>2. PICK result \in GetConfig(input.file, input.env) :
             ~result.error /\ config' = result.settings
        BY <1>2, <2>2 DEF LoadConfig
    <3>3. \A s \in Settings \ ByChance(input.env) : config'[s] = Decided(input.file, input.env, s)
        BY <3>2, ConfigIs, ProperInputs DEF DecidedInv
    <3>4. LayersDecide'
        BY <3>1, <3>3 DEF LayersDecide, Decided
    <3> QED
        BY <3>1, <3>4 DEF DecidedInv
  <2> QED
      BY <2>1, <2>2
<1>3. CASE ~LoadConfig
    BY <1>1, <1>3
       DEF Next, ParseFlags, OpenLogger, CreateMetrics, SetUpNotifier, OpenDatabase,
           CreateClient, CreateServer, vars
<1> QED
    BY <1>2, <1>3

LEMMA AlwaysDecided == Spec => []DecidedInv
<1>1. Init => DecidedInv
    BY DEF Init, DecidedInv, InputInv, LayersDecide
<1>2. DecidedInv /\ [Next]_vars => DecidedInv'
    BY DecidedStep
<1> QED
    BY <1>1, <1>2, PTL DEF Spec

(* The environment decides over the file and the file over the defaults,   *)
(* for any file and any environment, and every setting but those that a    *)
(* name in the way of another leaves to chance (config.go:156-180).        *)
THEOREM LayersAreDecided == Spec => []LayersDecide
<1>1. DecidedInv => LayersDecide
    BY DEF DecidedInv
<1> QED
    BY <1>1, AlwaysDecided, PTL

(* GetConfig gives the same for the same inputs, in whatever order koanf   *)
(* goes through the names, but for the settings a name in the way of       *)
(* another leaves to chance (config.go:168-180).                           *)
LEMMA SameSettings == ASSUME InputInv PROVE SameInputsSameConfig
<1> DEFINE results == GetConfig(input.file, input.env)
<1>1. /\ Clashing(input.env) = {} => \E result : results = {result}
      /\ \A result \in results :
            ~result.error =>
               \A s \in Settings \ ByChance(input.env) :
                  result.settings[s] = Decided(input.file, input.env, s)
    BY ConfigIs, ProperInputs
<1> HIDE DEF results
<1>2. Clashing(input.env) = {} => Cardinality(results) = 1
    BY <1>1, FS_Singleton
<1>3. \A one, other \in {r \in results : ~r.error} :
         \A s \in Settings \ ByChance(input.env) : one.settings[s] = other.settings[s]
    BY <1>1
<1> QED
    BY <1>2, <1>3 DEF SameInputsSameConfig, results

THEOREM SameConfig == Spec => []SameInputsSameConfig
<1>1. DecidedInv => SameInputsSameConfig
    BY SameSettings DEF DecidedInv
<1> QED
    BY <1>1, AlwaysDecided, PTL

(* The names of the environment are documented ones.                       *)
DocumentedInput == DOMAIN input.env \subseteq {NameOf(s) : s \in Settings}

(* Of whatever documented names an environment has, none is in the way of  *)
(* another: no setting is left to chance, and GetConfig has one result     *)
(* (config.go:168-180).                                                    *)
THEOREM DocumentedNamesDecide ==
    Spec => [](DocumentedInput =>
                  /\ ByChance(input.env) = {} /\ LayersDecide
                  /\ stage = "config" => Cardinality(GetConfig(input.file, input.env)) = 1)
<1>1. DecidedInv /\ DocumentedInput => ByChance(input.env) = {} /\ Clashing(input.env) = {}
    BY DocumentedDoNotClash DEF DocumentedInput
<1>2. DecidedInv /\ DocumentedInput =>
         /\ ByChance(input.env) = {} /\ LayersDecide
         /\ stage = "config" => Cardinality(GetConfig(input.file, input.env)) = 1
    BY <1>1, SameSettings DEF DecidedInv, SameInputsSameConfig
<1> QED
    BY <1>2, AlwaysDecided, PTL
=============================================================================
