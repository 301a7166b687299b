--------------------------- MODULE Configuration ---------------------------
(***************************************************************************)
(* The configuration (pkg/config) and the client options made from it      *)
(* (pkg/kafka/config_helper.go, pkg/sr/factory.go), as operators.          *)
(*                                                                         *)
(* A source, the YAML file or the environment, is a function from the      *)
(* options it writes to the text it writes for them.  koanf keeps the two  *)
(* in one tree, but environment variables are loaded with their names in   *)
(* upper case (config.go:90), so a section has two different keys, "kafka" *)
(* and "KAFKA".  mapstructure takes the key that is spelled like the field *)
(* and looks for another spelling only if there is none.                   *)
(*                                                                         *)
(* Credentials, paths, the global prefix and the logger are left out: they *)
(* are copied and nothing depends on them but whether files can be read.   *)
(***************************************************************************)
EXTENDS Integers, FiniteSets

(* The top-level field of Config that each option belongs to.              *)
Section ==
  [brokers |-> "kafka", sasl |-> "kafka", mechanism |-> "kafka",
   authType |-> "kafka", tls |-> "kafka",
   address |-> "schemaRegistry", registryTls |-> "schemaRegistry",
   requestRate |-> "shop", interval |-> "shop", replication |-> "shop",
   partitions |-> "shop", meta |-> "shop"]

Option == DOMAIN Section

Kind ==
  [brokers |-> "list", sasl |-> "bool", mechanism |-> "string",
   authType |-> "string", tls |-> "bool",
   address |-> "string", registryTls |-> "bool",
   requestRate |-> "int", interval |-> "duration", replication |-> "int",
   partitions |-> "int", meta |-> "bool"]

(* SetDefaults on top of Go's zero values.  SchemaRegistry.SetDefaults is  *)
(* not called, so the registry's TLS stays off.                            *)
SetDefaults ==
  [brokers |-> {}, sasl |-> FALSE, mechanism |-> "PLAIN", authType |-> "",
   tls |-> FALSE, address |-> "", registryTls |-> FALSE,
   requestRate |-> 2, interval |-> 1, replication |-> -1, partitions |-> 1,
   meta |-> TRUE]

(* What a source may write for an option.  The environment has no null.    *)
Number(n) == [is |-> "number", n |-> n]
Word(s) == [is |-> "word", s |-> s]
Empty == [is |-> "empty"]
Null == [is |-> "null"]

(* Text that reads as a number reads as an integer; any other is a word.   *)
NumbersAreIntegers(source) ==
  \A o \in Option \cap DOMAIN source :
    source[o].is = "number" => source[o].n \in Int

(* mapstructure with WeaklyTypedInput and the two decode hooks: the empty  *)
(* string is a zero or FALSE, but not a duration.                          *)
Decodable(o, text) ==
  \/ text = Null
  \/ Kind[o] \in {"string", "list"}
  \/ text = Empty /\ Kind[o] # "duration"
  \/ text.is = "number" /\ Kind[o] \in {"int", "duration"}
  \/ text.is = "word" /\ Kind[o] = "bool" /\ text.s \in {"true", "false"}

Zero == [int |-> 0, bool |-> FALSE, list |-> {}, string |-> "", duration |-> ""]

Decoded(o, text, old) ==
  CASE text = Null        -> old
    [] text = Empty       -> Zero[Kind[o]]
    [] text.is = "number" -> IF Kind[o] = "list" THEN {text.n} ELSE text.n
    [] OTHER              -> CASE Kind[o] = "bool" -> text.s = "true"
                               [] Kind[o] = "list" -> {text.s}
                               [] OTHER            -> text.s

Decodes(source) ==
  \A o \in Option \cap DOMAIN source : Decodable(o, source[o])

(* UnmarshalWithConf into cfg: what the source leaves out keeps its value. *)
Unmarshal(cfg, source) ==
  [o \in Option |-> IF o \in DOMAIN source
                    THEN Decoded(o, source[o], cfg[o]) ELSE cfg[o]]

Sections(source) == {Section[o] : o \in Option \cap DOMAIN source}

(* Mutant: the environment overrides single options of the file.           *)
EnvironmentWins(yaml, env) ==
  [o \in DOMAIN yaml \cup DOMAIN env |->
     IF o \in DOMAIN env THEN env[o] ELSE yaml[o]]

(* What the second Unmarshal sees of a tree with both sources.             *)
Merged(yaml, env) ==
  [o \in DOMAIN yaml \cup
         {e \in Option \cap DOMAIN env : Section[e] \notin Sections(yaml)} |->
     IF o \in DOMAIN yaml THEN yaml[o] ELSE env[o]]

(* An option the struct does not have is an error in the file (ErrorUnused *)
(* is TRUE for the first Unmarshal) and ignored in the environment.        *)
LoadFails(yaml, env) ==
  \/ ~ DOMAIN yaml \subseteq Option
  \/ ~ Decodes(yaml)
  \/ ~ Decodes(Merged(yaml, env))

LoadConfig(yaml, env) ==
  Unmarshal(Unmarshal(SetDefaults, yaml), Merged(yaml, env))
-----------------------------------------------------------------------------
(* The Validate methods of the clients.  Nothing in the program calls them.*)
ValidateSasl(cfg) ==
  cfg.mechanism \in {"PLAIN", "SCRAM-SHA-256", "SCRAM-SHA-512", "GSSAPI"}

ValidateKafka(cfg) == cfg.brokers # {} /\ ValidateSasl(cfg)
-----------------------------------------------------------------------------
(* Mutant: one of the SCRAM variants is forgotten.                         *)
SaslWithoutSha512(cfg) ==
  IF cfg.sasl /\ cfg.mechanism \in {"PLAIN", "SCRAM-SHA-256", "GSSAPI"}
  THEN cfg.mechanism ELSE "none"

(* The SASL mechanism NewKgoConfig gives to a client: a mechanism it does  *)
(* not know is passed over without an error.                               *)
SaslMechanism(cfg) ==
  IF cfg.sasl /\ cfg.mechanism \in {"PLAIN", "SCRAM-SHA-256",
                                    "SCRAM-SHA-512", "GSSAPI"}
  THEN cfg.mechanism ELSE "none"

(* What the client logs in with.  Of Kerberos' two kinds the one with a    *)
(* password is spelled with a colon (config_helper.go:65); any other       *)
(* spelling leaves the Kerberos client nil.                                *)
Login(cfg) ==
  CASE SaslMechanism(cfg) = "none"     -> "nothing"
    [] SaslMechanism(cfg) # "GSSAPI"   -> "password"
    [] cfg.authType = "USER_AUTH:"     -> "password"
    [] cfg.authType = "KEYTAB_AUTH"    -> "keytab"
    [] OTHER                           -> "nothing"

NewKgoConfig(cfg) ==
  [sasl |-> SaslMechanism(cfg), login |-> Login(cfg), tls |-> cfg.tls]

(* NewKafkaClient: the files of Kerberos and TLS must be readable, and the *)
(* library wants a broker.                                                 *)
KafkaClientFails(cfg, filesReadable) ==
  \/ cfg.brokers = {}
  \/ ~ filesReadable /\ (SaslMechanism(cfg) = "GSSAPI" \/ cfg.tls)

(* NewSchemaRegistryClient: without an address there is no client.         *)
RegistryClientFails(cfg, filesReadable) ==
  cfg.address # "" /\ cfg.registryTls /\ ~ filesReadable

HasRegistry(cfg) == cfg.address # ""
=============================================================================
