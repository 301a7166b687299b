--------------------------- MODULE TrafficProofs ---------------------------
(***************************************************************************)
(* Proofs about Traffic: what a process makes of any configuration file    *)
(* and any environment, for any number of services, impressions and        *)
(* buffered records.                                                       *)
(***************************************************************************)
EXTENDS Traffic, TLAPS

USE TrafficAssumption

-----------------------------------------------------------------------------
(* Loading the configuration. *)

(* A text is decoded twice as it is decoded once: what it writes does not  *)
(* depend on the value it replaces, or it leaves that value alone.         *)
LEMMA DecodedTwice ==
  ASSUME NEW o, NEW text, NEW old
  PROVE  Decoded(o, text, Decoded(o, text, old)) = Decoded(o, text, old)
<1>1. CASE text = Null
  <2>1. /\ Null # Empty /\ Null.is # "number" /\ Null.is # "word"
    BY DEF Null, Empty
  <2>2. \A a : Decoded(o, text, a) = a
    BY <1>1, <2>1 DEF Decoded
  <2> QED BY <2>2
<1>2. CASE text # Null
  <2>1. \A a, b : Decoded(o, text, a) = Decoded(o, text, b)
    BY <1>2 DEF Decoded
  <2> QED BY <2>1
<1> QED BY <1>1, <1>2

LEMMA LoadedOption ==
  ASSUME NEW file, NEW environment, NEW o \in Option
  PROVE  LoadConfig(file, environment)[o] =
           IF o \in DOMAIN file THEN Decoded(o, file[o], SetDefaults[o])
           ELSE IF o \in DOMAIN environment /\ Section[o] \notin Sections(file)
           THEN Decoded(o, environment[o], SetDefaults[o])
           ELSE SetDefaults[o]
<1> DEFINE merged == Merged(file, environment)
           once == Unmarshal(SetDefaults, file)
<1>1. once[o] = IF o \in DOMAIN file THEN Decoded(o, file[o], SetDefaults[o])
                ELSE SetDefaults[o]
  BY DEF Unmarshal
<1>2. LoadConfig(file, environment)[o] =
        IF o \in DOMAIN merged THEN Decoded(o, merged[o], once[o]) ELSE once[o]
  BY DEF LoadConfig, Unmarshal
<1>3. /\ o \in DOMAIN merged <=>
           \/ o \in DOMAIN file
           \/ o \in DOMAIN environment /\ Section[o] \notin Sections(file)
      /\ o \in DOMAIN merged =>
           merged[o] = IF o \in DOMAIN file THEN file[o] ELSE environment[o]
  BY DEF Merged
<1> HIDE DEF merged, once
<1>4. CASE o \in DOMAIN file
  <2>1. /\ once[o] = Decoded(o, file[o], SetDefaults[o])
        /\ LoadConfig(file, environment)[o] = Decoded(o, file[o], once[o])
    BY <1>1, <1>2, <1>3, <1>4
  <2> QED BY <1>4, <2>1, DecodedTwice
<1>5. CASE o \notin DOMAIN file
  BY <1>1, <1>2, <1>3, <1>5
<1> QED BY <1>4, <1>5

LEMMA RateIsOption == /\ "requestRate" \in Option
                      /\ Kind["requestRate"] = "int"
                      /\ SetDefaults["requestRate"] = 2
                      /\ DOMAIN SetDefaults = Option
BY DEF Option, Section, Kind, SetDefaults

(* A rate that decodes is an integer. *)
LEMMA RateIsInteger ==
  ASSUME NEW source, NumbersAreIntegers(source), "requestRate" \in DOMAIN source,
         Decodable("requestRate", source["requestRate"]), NEW old \in Int
  PROVE  Decoded("requestRate", source["requestRate"], old) \in Int
<1> DEFINE text == source["requestRate"]
<1>1. text.is = "number" => text.n \in Int
  BY RateIsOption DEF NumbersAreIntegers
<1>2. \/ text = Null \/ text = Empty
      \/ text.is = "number" /\ text # Null /\ text # Empty
  BY RateIsOption DEF Decodable, Null, Empty
<1>3. Null # Empty
  BY DEF Null, Empty
<1> HIDE DEF text
<1>4. Decoded("requestRate", text, old) \in Int
  <2>1. /\ Null.is = "null" /\ Empty.is = "empty" /\ Zero["int"] = 0
    BY DEF Null, Empty, Zero
  <2> QED BY <1>1, <1>2, <1>3, <2>1, RateIsOption DEF Decoded
<1> QED BY <1>4 DEF text

LEMMA LoadedType ==
  ASSUME NEW file \in Yaml, NEW environment \in Env, ~ LoadFails(file, environment)
  PROVE  /\ DOMAIN LoadConfig(file, environment) = Option
         /\ LoadConfig(file, environment).requestRate \in Int
<1> DEFINE o == "requestRate"
           merged == Merged(file, environment)
<1>1. DOMAIN LoadConfig(file, environment) = Option
  BY DEF LoadConfig, Unmarshal
<1>2. NumbersAreIntegers(file) /\ NumbersAreIntegers(environment)
  OBVIOUS
<1>3. Decodes(file) /\ Decodes(merged)
  BY DEF LoadFails
<1>4. /\ o \in DOMAIN file => Decodable(o, file[o])
      /\ o \in DOMAIN merged => Decodable(o, merged[o])
  BY <1>3, RateIsOption DEF Decodes
<1>5. /\ o \in DOMAIN environment /\ Section[o] \notin Sections(file) => o \in DOMAIN merged
      /\ o \in DOMAIN merged /\ o \notin DOMAIN file => merged[o] = environment[o]
  BY RateIsOption DEF Merged
<1>6. CASE o \in DOMAIN file
  <2>1. LoadConfig(file, environment)[o] = Decoded(o, file[o], SetDefaults[o])
    BY <1>6, LoadedOption, RateIsOption
  <2> QED BY <1>1, <1>2, <1>4, <1>6, <2>1, RateIsInteger, RateIsOption
<1>7. CASE o \notin DOMAIN file /\ o \in DOMAIN environment
           /\ Section[o] \notin Sections(file)
  <2>1. LoadConfig(file, environment)[o] = Decoded(o, environment[o], SetDefaults[o])
    BY <1>7, LoadedOption, RateIsOption
  <2>2. Decodable(o, environment[o])
    BY <1>4, <1>5, <1>7
  <2> QED BY <1>1, <1>2, <1>7, <2>1, <2>2, RateIsInteger, RateIsOption
<1>8. CASE ~ (o \in DOMAIN file)
           /\ ~ (o \in DOMAIN environment /\ Section[o] \notin Sections(file))
  <2>1. LoadConfig(file, environment)[o] = SetDefaults[o]
    BY <1>8, LoadedOption, RateIsOption
  <2> QED BY <1>1, <2>1, RateIsOption
<1> QED BY <1>1, <1>6, <1>7, <1>8

-----------------------------------------------------------------------------
(* Bags of tasks. *)

LEMMA BagAddType ==
  ASSUME NEW S, NEW B, IsABag(B), BagToSet(B) \subseteq S, NEW x \in S
  PROVE  IsABag(BagAdd(B, x)) /\ BagToSet(BagAdd(B, x)) \subseteq S
<1>1. CASE x \in DOMAIN B
  BY <1>1 DEF IsABag, BagToSet, BagAdd
<1>2. CASE x \notin DOMAIN B
  BY <1>2 DEF IsABag, BagToSet, BagAdd
<1> QED BY <1>1, <1>2

LEMMA BagRemoveType ==
  ASSUME NEW S, NEW B, IsABag(B), BagToSet(B) \subseteq S, NEW x \in DOMAIN B
  PROVE  IsABag(BagRemove(B, x)) /\ BagToSet(BagRemove(B, x)) \subseteq S
<1>1. CASE B[x] = 1
  BY <1>1 DEF IsABag, BagToSet, BagRemove
<1>2. CASE B[x] # 1
  BY <1>2 DEF IsABag, BagToSet, BagRemove
<1> QED BY <1>1, <1>2

LEMMA CallsType ==
  ASSUME NEW s \in Service, NEW n \in Calls(s)
  PROVE  n \in 0..4
BY DEF Calls, OrderCalls

-----------------------------------------------------------------------------
(* What the process has done by the phase it is in.                        *)

(* The configuration is the one loaded. *)
Configured ==
  /\ yaml \in Yaml /\ env \in Env
  /\ cfg.requestRate \in Int
  /\ Loaded => cfg = LoadConfig(yaml, env)

(* The clients are made from it; without a broker none is made.            *)
Connected ==
  phase \in {"initializing", "running"} =>
    kafka = NewKgoConfig(cfg) /\ ~ KafkaClientFails(cfg, filesReadable)

(* Only a running process simulates, and only at a positive rate.          *)
Simulated == impressions > 0 => phase = "running" /\ cfg.requestRate > 0

TrafficInv == TypeOK /\ Configured /\ Connected /\ Simulated

LEMMA InitTrafficInv == Init => TrafficInv
<1> SUFFICES ASSUME Init PROVE TrafficInv
  OBVIOUS
<1>1. IsABag(EmptyBag) /\ BagToSet(EmptyBag) = {}
  BY DEF IsABag, BagToSet, EmptyBag, SetToBag
<1>2. TypeOK
  BY <1>1, RateIsOption DEF Init, TypeOK
<1>3. cfg.requestRate \in Int
  BY RateIsOption DEF Init
<1> QED BY <1>2, <1>3 DEF Init, TrafficInv, Configured, Connected,
                          Simulated, Loaded

LEMMA NextTrafficInv == TrafficInv /\ [Next]_vars => TrafficInv'
<1> SUFFICES ASSUME TrafficInv, [Next]_vars PROVE TrafficInv'
  OBVIOUS
<1> USE DEF TrafficInv
<1>1. CASE UNCHANGED vars
  BY <1>1 DEF vars, inputs, loopVars, trafficVars, TypeOK, Configured, Connected,
              Simulated, Loaded
<1>2. CASE Load
  <2>1. /\ phase = "loading" /\ impressions = 0
        /\ UNCHANGED <<yaml, env, filesReadable, kafka, impressions,
                       burst, tasks, buffered>>
    BY <1>2 DEF Load, inputs, loopVars, trafficVars, Simulated, TypeOK
  <2>2. CASE phase' = "exited" /\ UNCHANGED cfg
    BY <2>1, <2>2 DEF TypeOK, Configured, Connected, Simulated, Loaded
  <2>3. CASE /\ ~ LoadFails(yaml, env)
             /\ phase' = "connecting" /\ cfg' = LoadConfig(yaml, env)
    <3>1. DOMAIN cfg' = Option /\ cfg'.requestRate \in Int
      BY <2>3, LoadedType DEF Configured
    <3>2. burst = 0
      BY <2>1 DEF TypeOK
    <3> QED BY <2>1, <2>3, <3>1, <3>2
            DEF TypeOK, Configured, Connected, Simulated, Loaded
  <2> QED BY <1>2, <2>2, <2>3 DEF Load
<1>3. CASE NewClients
  <2>1. /\ phase = "connecting"
        /\ UNCHANGED <<yaml, env, filesReadable, cfg, impressions,
                       burst, tasks, buffered>>
        /\ \/ phase' = "exited"
           \/ /\ phase' = "initializing" /\ kafka' = NewKgoConfig(cfg)
              /\ ~ KafkaClientFails(cfg, filesReadable)
    BY <1>3 DEF NewClients, inputs, loopVars, trafficVars
  <2> QED BY <2>1 DEF TypeOK, Configured, Connected, Simulated, Loaded
<1>4. CASE Initialize
  <2>1. /\ phase = "initializing"
        /\ UNCHANGED <<yaml, env, filesReadable, cfg, kafka, impressions,
                       burst, tasks, buffered>>
        /\ phase' \in {"running", "exited"}
    BY <1>4 DEF Initialize, inputs, loopVars, trafficVars
  <2> QED BY <2>1 DEF TypeOK, Configured, Connected, Simulated, Loaded
<1>5. CASE Impression
  <2>1. /\ phase = "running" /\ burst < cfg.requestRate /\ impressions < MaxImpressions
        /\ impressions' = impressions + 1 /\ burst' = burst + 1
        /\ UNCHANGED <<yaml, env, filesReadable, phase, cfg, kafka, buffered>>
    BY <1>5 DEF Impression, ImpressionIf, inputs
  <2>2. IsABag(tasks') /\ BagToSet(tasks') \subseteq [svc : Service, left : 1..4]
    <3>1. PICK s \in Service : \E n \in Calls(s) :
            tasks' = IF n = 0 THEN tasks ELSE BagAdd(tasks, Task(s, n))
      BY <1>5 DEF Impression, ImpressionIf, SimulatePageImpression
    <3>2. PICK n \in Calls(s) :
            tasks' = IF n = 0 THEN tasks ELSE BagAdd(tasks, Task(s, n))
      BY <3>1
    <3>3. n # 0 => Task(s, n) \in [svc : Service, left : 1..4]
      BY CallsType DEF Task
    <3> QED BY <3>2, <3>3, BagAddType DEF TypeOK
  <2>3. TypeOK' /\ Simulated'
    BY <2>1, <2>2 DEF TypeOK, Configured, Simulated
  <2> QED BY <2>1, <2>3 DEF Configured, Connected, Loaded
<1>6. CASE Sleep
  <2>1. /\ burst' = 0
        /\ UNCHANGED <<yaml, env, filesReadable, phase, cfg, kafka,
                       impressions, tasks, buffered>>
    BY <1>6 DEF Sleep, inputs, trafficVars
  <2> QED BY <2>1 DEF TypeOK, Configured, Connected, Simulated, Loaded
<1>7. ASSUME NEW s \in Service, Produce(s) PROVE TrafficInv'
  <2>1. /\ UNCHANGED <<yaml, env, filesReadable, phase, cfg, kafka,
                       impressions, burst>>
        /\ buffered' = [buffered EXCEPT ![s] = @ + 1]
        /\ buffered[s] < MaxBufferedRecords
    BY <1>7 DEF Produce, Room, inputs, loopVars
  <2>2. IsABag(tasks') /\ BagToSet(tasks') \subseteq [svc : Service, left : 1..4]
    <3>1. PICK task \in BagToSet(tasks) :
            tasks' = IF task.left = 1 THEN BagRemove(tasks, task)
                     ELSE BagAdd(BagRemove(tasks, task), Task(s, task.left - 1))
      BY <1>7 DEF Produce
    <3>2. task \in DOMAIN tasks /\ task.left \in 1..4
      BY DEF TypeOK, BagToSet
    <3>3. /\ IsABag(BagRemove(tasks, task))
          /\ BagToSet(BagRemove(tasks, task)) \subseteq [svc : Service, left : 1..4]
      BY <3>2, BagRemoveType DEF TypeOK
    <3>4. task.left # 1 => Task(s, task.left - 1) \in [svc : Service, left : 1..4]
      BY <3>2 DEF Task
    <3>5. CASE task.left = 1
      BY <3>1, <3>3, <3>5
    <3>6. CASE task.left # 1
      <4> DEFINE others == BagRemove(tasks, task)
                 rest == Task(s, task.left - 1)
                 Tasks == [svc : Service, left : 1..4]
      <4>1. tasks' = BagAdd(others, rest)
        BY <3>1, <3>6
      <4>2. IsABag(others) /\ BagToSet(others) \subseteq Tasks /\ rest \in Tasks
        BY <3>3, <3>4, <3>6
      <4> HIDE DEF others, rest, Tasks
      <4>3. IsABag(tasks') /\ BagToSet(tasks') \subseteq Tasks
        BY ONLY <4>1, <4>2, BagAddType
      <4> QED BY <4>3 DEF Tasks
    <3> QED BY <3>5, <3>6
  <2>3. buffered' \in [Service -> 0..MaxBufferedRecords]
    BY <2>1 DEF TypeOK
  <2> QED BY <2>1, <2>2, <2>3
          DEF TypeOK, Configured, Connected, Simulated, Loaded
<1>8. ASSUME NEW s \in Service, Client(s) PROVE TrafficInv'
  <2>1. /\ UNCHANGED <<yaml, env, filesReadable, phase, cfg, kafka,
                       impressions, burst, tasks>>
        /\ buffered' \in [Service -> 0..MaxBufferedRecords]
    BY <1>8 DEF Client, TypeOK, inputs, loopVars
  <2> QED BY <2>1 DEF TypeOK, Configured, Connected, Simulated, Loaded
<1> QED BY <1>1, <1>2, <1>3, <1>4, <1>5, <1>6, <1>7, <1>8 DEF Next, Main, Start

LEMMA TrafficInvariant == Spec => []TrafficInv
<1> QED BY InitTrafficInv, NextTrafficInv, PTL DEF Spec

-----------------------------------------------------------------------------
(* The properties. *)

(* TypeOK of Traffic: the loop never passes the rate and no client holds   *)
(* more records than its buffer (shop.go:129-151).                         *)
THEOREM TypeCorrect == Spec => []TypeOK
<1>1. TrafficInv => TypeOK
  BY DEF TrafficInv
<1> QED BY <1>1, TrafficInvariant, PTL

(* LoadedAsWritten: the two Unmarshals over one tree yield for every       *)
(* option what the file writes, else what the environment writes, unless   *)
(* the file has the section, else the default (config.go:44-102).          *)
THEOREM LoadedRight == Spec => []LoadedAsWritten
<1>1. TrafficInv => LoadedAsWritten
  BY LoadedOption DEF TrafficInv, Configured, LoadedAsWritten
<1> QED BY <1>1, TrafficInvariant, PTL

(* AcceptedMechanismIsUsed: what Validate would accept is what clients     *)
(* authenticate with, and what it would refuse they pass over              *)
(* (config_helper.go:31-89).                                               *)
THEOREM MechanismIsUsed == Spec => []AcceptedMechanismIsUsed
<1>1. TrafficInv => AcceptedMechanismIsUsed
  <2> SUFFICES ASSUME TrafficInv, phase \in {"initializing", "running"}, cfg.sasl
               PROVE  /\ kafka.sasl = IF ValidateKafka(cfg) THEN cfg.mechanism ELSE "none"
                      /\ kafka.login = "nothing" /\ ValidateKafka(cfg) =>
                           cfg.mechanism = "GSSAPI"
                             /\ cfg.authType \notin {"USER_AUTH:", "KEYTAB_AUTH"}
    BY DEF AcceptedMechanismIsUsed
  <2>1. /\ kafka.sasl = SaslMechanism(cfg) /\ kafka.login = Login(cfg)
        /\ cfg.brokers # {}
    BY DEF TrafficInv, Connected, NewKgoConfig, KafkaClientFails
  <2>2. SaslMechanism(cfg) = IF ValidateKafka(cfg) THEN cfg.mechanism ELSE "none"
    BY <2>1 DEF SaslMechanism, ValidateKafka, ValidateSasl
  <2>3. ASSUME ValidateKafka(cfg), Login(cfg) = "nothing"
        PROVE  cfg.mechanism = "GSSAPI" /\ cfg.authType \notin {"USER_AUTH:", "KEYTAB_AUTH"}
    <3>1. SaslMechanism(cfg) = cfg.mechanism /\ SaslMechanism(cfg) # "none"
      BY <2>2, <2>3 DEF ValidateKafka, ValidateSasl
    <3> QED BY <2>3, <3>1 DEF Login
  <2> QED BY <2>1, <2>2, <2>3
<1> QED BY <1>1, TrafficInvariant, PTL

-----------------------------------------------------------------------------
(* Options and the environment.  The tree has a section once per spelling  *)
(* and the second Unmarshal takes the file's, so what the environment      *)
(* writes of a section in the file is passed over, as the run config_env   *)
(* shows; nothing else hides it.                                           *)

SectionsAreApart ==
  \A file \in Yaml, environment \in Env :
    \A o \in (DOMAIN environment \cap Option) \ DOMAIN file :
      Section[o] \notin Sections(file)

(* EnvironmentConfigures: an option that only the environment writes has   *)
(* that value when the file has nothing of its section (config.go:75-102). *)
THEOREM EnvironmentOfOwnSections ==
  ASSUME SectionsAreApart
  PROVE  Spec => []EnvironmentConfigures
<1>1. TrafficInv => EnvironmentConfigures
  <2> SUFFICES ASSUME TrafficInv, Loaded,
                      NEW o \in (DOMAIN env \cap Option) \ DOMAIN yaml
               PROVE  cfg[o] = Decoded(o, env[o], SetDefaults[o])
    BY DEF EnvironmentConfigures
  <2>1. yaml \in Yaml /\ env \in Env /\ cfg = LoadConfig(yaml, env)
    BY DEF TrafficInv, Configured
  <2>2. Section[o] \notin Sections(yaml)
    BY <2>1 DEF SectionsAreApart
  <2> QED BY <2>1, <2>2, LoadedOption
<1> QED BY <1>1, TrafficInvariant, PTL
=============================================================================
