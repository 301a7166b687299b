------------------------------ MODULE Traffic ------------------------------
(***************************************************************************)
(* The program from main to its rate loop (cmd/main.go, pkg/shop/shop.go): *)
(* it loads the configuration, makes the clients, initializes the services *)
(* and then simulates requestRate page impressions per interval, for ever. *)
(* Every impression is a goroutine of its own which nobody waits for.  It  *)
(* runs a method of a randomly chosen service and blocks in Produce while  *)
(* the buffer of that service's client is full.                            *)
(*                                                                         *)
(* The requests of the initialization are the subject of Startup, what the *)
(* methods produce that of the services' modules; here a method is the     *)
(* number of its Produce calls and a client is how many records it holds.  *)
(***************************************************************************)
EXTENDS Configuration, Bags, BagsExt

CONSTANTS
  Yaml, Env,           \* the files and environments the runs start from
  Service,             \* the services the chooser knows
  MaxBufferedRecords,  \* records a client holds before Produce blocks
  MaxImpressions       \* bound: impressions simulated

ASSUME TrafficAssumption ==
  /\ Service \subseteq {"frontend", "customer", "address", "order"}
  /\ MaxBufferedRecords \in Nat \ {0}
  /\ MaxImpressions \in Nat
  /\ \A source \in Yaml \cup Env : NumbersAreIntegers(source)

VARIABLES
  \* what the process finds when it starts
  yaml, env, filesReadable,
  \* the process
  phase, cfg, kafka,
  \* the rate loop: pageImpressionsSimulated, and the loop variable i
  impressions, burst,
  \* the goroutines, a bag of [svc, left], and the clients' buffers
  tasks, buffered

inputs == <<yaml, env, filesReadable>>
loopVars == <<impressions, burst>>
trafficVars == <<tasks, buffered>>
vars == <<inputs, phase, cfg, kafka, loopVars, trafficVars>>

NoClient == [sasl |-> "none", login |-> "nothing", tls |-> FALSE]

Init ==
  /\ yaml \in Yaml
  /\ env \in Env
  /\ filesReadable \in BOOLEAN
  /\ phase = "loading"
  /\ cfg = SetDefaults
  /\ kafka = NoClient
  /\ impressions = 0
  /\ burst = 0
  /\ tasks = EmptyBag
  /\ buffered = [s \in Service |-> 0]

(* LoadConfig; an error is fatal.  The file is named by CONFIG_FILEPATH; a *)
(* file that cannot be read or parsed is an error as well.                 *)
Load ==
  /\ phase = "loading"
  /\ IF LoadFails(yaml, env) \/ (yaml # <<>> /\ ~ filesReadable)
     THEN phase' = "exited" /\ UNCHANGED cfg
     ELSE phase' = "connecting" /\ cfg' = LoadConfig(yaml, env)
  /\ UNCHANGED <<inputs, kafka, loopVars, trafficVars>>

(* New makes a client per service from the same configuration.             *)
NewClients ==
  /\ phase = "connecting"
  /\ IF \/ KafkaClientFails(cfg, filesReadable)
        \/ RegistryClientFails(cfg, filesReadable)
     THEN phase' = "exited" /\ UNCHANGED kafka
     ELSE phase' = "initializing" /\ kafka' = NewKgoConfig(cfg)
  /\ UNCHANGED <<inputs, cfg, loopVars, trafficVars>>

(* New initializes the services with the requests of Startup; if one fails *)
(* the process exits.  Nothing of the configuration is checked before.     *)
Initialize ==
  /\ phase = "initializing"
  /\ phase' \in {"running", "exited"}
  /\ UNCHANGED <<inputs, cfg, kafka, loopVars, trafficVars>>
-----------------------------------------------------------------------------
(* How often CreateOrder calls Produce: not at all if there is no customer *)
(* to pop, and three times if Avro cannot express the customer.            *)
OrderCalls == IF HasRegistry(cfg) THEN {0, 3, 4} ELSE {0, 2}

(* How often a method of a service does.                                   *)
Calls(s) ==
  CASE s = "frontend" -> {1}
    [] s = "order"    -> OrderCalls
    [] OTHER          -> {0, 1}

Task(s, n) == [svc |-> s, left |-> n]

(* The goroutine, which picks a method and runs it up to its first Produce.*)
SimulatePageImpression ==
  \E s \in Service : \E n \in Calls(s) :
    tasks' = IF n = 0 THEN tasks ELSE BagAdd(tasks, Task(s, n))

(* The inner loop of Start, whose condition is more.                       *)
ImpressionIf(more) ==
  /\ phase = "running"
  /\ more
  /\ impressions < MaxImpressions
  /\ impressions' = impressions + 1
  /\ burst' = burst + 1
  /\ SimulatePageImpression
  /\ UNCHANGED <<inputs, phase, cfg, kafka, buffered>>

(* Mutants: the method is called without "go"; the loop runs once more.    *)
ImpressionIsAwaited == ImpressionIf(burst < cfg.requestRate /\ tasks = EmptyBag)
OneImpressionTooMany == ImpressionIf(burst <= cfg.requestRate)

Impression == ImpressionIf(burst < cfg.requestRate)

(* time.Sleep, and the next round of the outer loop.                       *)
Sleep ==
  /\ phase = "running"
  /\ burst > 0
  /\ burst >= cfg.requestRate
  /\ burst' = 0
  /\ UNCHANGED <<inputs, phase, cfg, kafka, impressions, trafficVars>>

(* Mutant: all services share one client.                                  *)
RoomInSharedClient(s) ==
  \A t \in Service : buffered[t] < MaxBufferedRecords

(* Every service has a client of its own.                                  *)
Room(s) == buffered[s] < MaxBufferedRecords

(* A goroutine's next Produce returns; after the last one it ends.         *)
Produce(s) ==
  /\ Room(s)
  /\ \E task \in BagToSet(tasks) :
       /\ task.svc = s
       /\ LET others == BagRemove(tasks, task)
          IN  tasks' = IF task.left = 1 THEN others
                       ELSE BagAdd(others, Task(s, task.left - 1))
  /\ buffered' = [buffered EXCEPT ![s] = @ + 1]
  /\ UNCHANGED <<inputs, phase, cfg, kafka, loopVars>>

(* A record is acknowledged or its delivery timeout expires.               *)
Client(s) ==
  /\ buffered[s] > 0
  /\ buffered' = [buffered EXCEPT ![s] = @ - 1]
  /\ UNCHANGED <<inputs, phase, cfg, kafka, loopVars, tasks>>

Main == Load \/ NewClients \/ Initialize
Start == Impression \/ Sleep

Next ==
  \/ Main
  \/ Start
  \/ \E s \in Service : Produce(s) \/ Client(s)

Spec == Init /\ [][Next]_vars

(* The main goroutine and the impressions are scheduled.  No client is     *)
(* assumed to make room: the broker may be away.                           *)
FairSpec ==
  /\ Spec
  /\ WF_vars(Main)
  /\ WF_vars(Start)
  /\ \A s \in Service : WF_vars(Produce(s))
-----------------------------------------------------------------------------
(***************************************************************************)
(* Properties.                                                             *)
(***************************************************************************)

Loaded == phase \in {"connecting", "initializing", "running"}

(* Every variable has its type; the loop variable never passes the rate and *)
(* a client never holds more than its buffer.                              *)
TypeOK ==
  /\ phase \in {"loading", "connecting", "initializing", "running", "exited"}
  /\ DOMAIN cfg = Option
  /\ impressions \in 0..MaxImpressions
  /\ burst \in 0..impressions
  /\ burst > 0 => burst <= cfg.requestRate
  /\ IsABag(tasks)
  /\ BagToSet(tasks) \subseteq [svc : Service, left : 1..4]
  /\ buffered \in [Service -> 0..MaxBufferedRecords]

(* The reference for the two Unmarshals over one tree: an option has what  *)
(* the file writes; if the file is silent on its whole section, what the   *)
(* environment writes; and its default otherwise (config.go:44-102).       *)
LoadedAsWritten ==
  Loaded => \A o \in Option :
    LET default == SetDefaults[o]
    IN  cfg[o] = IF o \in DOMAIN yaml THEN Decoded(o, yaml[o], default)
                 ELSE IF o \in DOMAIN env /\ Section[o] \notin Sections(yaml)
                 THEN Decoded(o, env[o], default)
                 ELSE default

(* "All config options can be configured via environment variables as      *)
(* well" (README.md:85): an option that only the environment writes has    *)
(* that value.                                                             *)
EnvironmentConfigures ==
  Loaded => \A o \in (DOMAIN env \cap Option) \ DOMAIN yaml :
    Decodable(o, env[o]) => cfg[o] = Decoded(o, env[o], SetDefaults[o])

(* SASL that is enabled with one of the four mechanisms of kafka_sasl.go   *)
(* is used, and it brings credentials except for Kerberos with an authType *)
(* that is none of the two literals.  Any other mechanism leads to clients *)
(* that do not authenticate at all (config_helper.go:30-89).  OAUTHBEARER  *)
(* is such a one: README.md:59 offers it, no code makes a client use it,   *)
(* and Validate, which would refuse it, is not called.                     *)
AcceptedMechanismIsUsed ==
  phase \in {"initializing", "running"} /\ cfg.sasl =>
    /\ kafka.sasl = IF ValidateKafka(cfg) THEN cfg.mechanism ELSE "none"
    /\ kafka.login = "nothing" /\ ValidateKafka(cfg) =>
         cfg.mechanism = "GSSAPI"
           /\ cfg.authType \notin {"USER_AUTH:", "KEYTAB_AUTH"}

(* The simulation never waits for its impressions: at a positive rate it   *)
(* goes on although no client ever makes room and the goroutines pile up   *)
(* in front of Produce (shop.go:129-151).                                  *)
RateLoopNeverWaits ==
  (phase = "running" /\ cfg.requestRate > 0) ~> (impressions = MaxImpressions)

(* A client that makes room lets all impressions of its service end, even  *)
(* if the clients of all other services are stuck for good.                *)
Busy(s) == \E task \in BagToSet(tasks) : task.svc = s

ServicesAreIsolated ==
  \A s \in Service : WF_vars(Client(s)) => (Busy(s) ~> ~ Busy(s))
=============================================================================
