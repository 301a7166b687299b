------------------------------ MODULE Startup ------------------------------
(***************************************************************************)
(* Starting owl-shop (pkg/shop/shop.go New, the Initialize methods of the  *)
(* services and pkg/kafka/reconcile_topic.go).  A process issues a fixed   *)
(* sequence of requests to the broker and the schema registry and ends     *)
(* with a fatal log line as soon as one of them fails; whoever runs it     *)
(* starts it again.  Several processes may start against the same broker   *)
(* and registry: replicas, a rolling update, or a new configuration while  *)
(* the old process still runs.                                             *)
(*                                                                         *)
(* Creating the clients depends on the configuration alone and is part of  *)
(* Traffic; the embedded schemas always parse.                             *)
(***************************************************************************)
EXTENDS Naturals, Sequences, SequencesExt

CONSTANTS
  Instance,        \* the processes
  Params,          \* partitions, replication factor and configs each wants
  SchemaRegistry,  \* svc.srClient # nil
  MetaEnabled,     \* cfg.Meta.Enabled
  MaxFaults        \* bound: failed requests and crashes

ASSUME StartupAssumption ==
  /\ DOMAIN Params = Instance
  /\ SchemaRegistry \in BOOLEAN
  /\ MetaEnabled \in BOOLEAN
  /\ MaxFaults \in Nat

-----------------------------------------------------------------------------
(* The requests of shop.New, in its order. *)

Reconcile(topic) == [do |-> "reconcile", topic |-> topic]
Register(subject, schema, refs) ==
  [do |-> "register", subject |-> subject, schema |-> schema, refs |-> refs]
Allow(user) == [do |-> "allow", user |-> user]

Version(subject, n) == [subject |-> subject, version |-> n]

(* Mutant: the evolution the wrong way round.                              *)
RegisterProtobufSchemaSwapped ==
  <<Register("customer.proto", "CustomerV2", {}),
    Register("customer.proto", "CustomerV1", {}),
    Register("address.proto", "Address", {}),
    Register("orders-protobuf-sr-value", "Order",
             {Version("customer.proto", 2), Version("address.proto", 1)})>>

(* registerProtobufSchema: two versions of the customer, the address, and  *)
(* the order that references version 2 and version 1 of them.              *)
RegisterProtobufSchema ==
  <<Register("customer.proto", "CustomerV1", {}),
    Register("customer.proto", "CustomerV2", {}),
    Register("address.proto", "Address", {}),
    Register("orders-protobuf-sr-value", "Order",
             {Version("customer.proto", 2), Version("address.proto", 1)})>>

(* registerAvroSchema. *)
RegisterAvroSchema ==
  <<Register("avro.Customer", "CustomerV1", {}),
    Register("avro.Customer", "CustomerV2", {}),
    Register("avro.Address", "Address", {}),
    Register("orders-avro-sr-value", "Order",
             {Version("avro.Customer", 2), Version("avro.Address", 1)})>>

InitializeOrders ==
  <<Reconcile("orders"), Reconcile("orders-protobuf-plain")>> \o
  (IF SchemaRegistry
   THEN <<Reconcile("orders-protobuf-sr")>> \o RegisterProtobufSchema \o
        <<Reconcile("orders-avro-sr")>> \o RegisterAvroSchema
   ELSE <<>>)

InitializeMeta ==
  IF MetaEnabled THEN <<Allow("meta-service"), Allow("delivery-service")>> ELSE <<>>

Script ==
  <<Reconcile("customers"), Reconcile("addresses"), Reconcile("frontend-events")>>
  \o InitializeOrders \o InitializeMeta

Topic == {r.topic : r \in {q \in ToSet(Script) : q.do = "reconcile"}}
Subject == {r.subject : r \in {q \in ToSet(Script) : q.do = "register"}}
OrderSubject == {"orders-protobuf-sr-value", "orders-avro-sr-value"} \cap Subject
-----------------------------------------------------------------------------
VARIABLES
  status,    \* per process: starting, running, or exited
  step,      \* per process: the request it is at
  missing,   \* per process: ListTopics has just not found the topic
  serde,     \* per process: the schema id its order serdes encode with
  topics,    \* broker: topic -> the parameters it was created with
  subjects,  \* registry: subject -> its versions, oldest first
  acls,      \* broker: the users with ACLs
  faults

instanceVars == <<status, step, missing, serde>>
clusterVars == <<topics, subjects, acls>>
vars == <<instanceVars, clusterVars, faults>>

Nothing == <<>>   \* the function with an empty domain

Init ==
  /\ status = [i \in Instance |-> "starting"]
  /\ step = [i \in Instance |-> 1]
  /\ missing = [i \in Instance |-> FALSE]
  /\ serde = [i \in Instance |-> Nothing]
  /\ topics = Nothing
  /\ subjects = [s \in Subject |-> <<>>]
  /\ acls = {}
  /\ faults = 0

At(i, request) ==
  /\ status[i] = "starting"
  /\ step[i] <= Len(Script)
  /\ Script[step[i]].do = request

Request(i) == Script[step[i]]

Proceed(i) ==
  /\ step' = [step EXCEPT ![i] = @ + 1]
  /\ missing' = [missing EXCEPT ![i] = FALSE]
  /\ UNCHANGED status

(* An error is returned from New: the process logs it and exits.  Nothing  *)
(* of its memory survives.                                                 *)
Exit(i) ==
  /\ status' = [status EXCEPT ![i] = "exited"]
  /\ step' = [step EXCEPT ![i] = 1]
  /\ missing' = [missing EXCEPT ![i] = FALSE]
  /\ serde' = [serde EXCEPT ![i] = Nothing]

(* Mutant: an entry for the topic in the reply is taken for the topic,     *)
(* although the entry says that the topic is unknown.                      *)
ListTopicsUnchecked(i) ==
  /\ At(i, "reconcile")
  /\ ~ missing[i]
  /\ Proceed(i)
  /\ UNCHANGED <<serde, clusterVars, faults>>

(* ReconcileTopic: ListTopics.  An existing topic is taken as it is.       *)
ListTopics(i) ==
  /\ At(i, "reconcile")
  /\ ~ missing[i]
  /\ IF Request(i).topic \in DOMAIN topics
     THEN Proceed(i)
     ELSE missing' = [missing EXCEPT ![i] = TRUE] /\ UNCHANGED <<status, step>>
  /\ UNCHANGED <<serde, clusterVars, faults>>

(* Mutant: the parameters are not passed on.                               *)
CreatedWithDefaults(i) ==
  topics' = [t \in DOMAIN topics \cup {Request(i).topic} |->
               IF t = Request(i).topic THEN "defaults" ELSE topics[t]]

Created(i) == topics' = [t \in DOMAIN topics \cup {Request(i).topic} |->
                           IF t = Request(i).topic THEN Params[i] ELSE topics[t]]

(* ReconcileTopic: CreateTopics.                                           *)
CreateTopic(i) ==
  /\ At(i, "reconcile")
  /\ missing[i]
  /\ Request(i).topic \notin DOMAIN topics
  /\ Created(i)
  /\ Proceed(i)
  /\ UNCHANGED <<serde, subjects, acls, faults>>

(* Mutants: the topic is replaced; CreateTopics is repeated for ever.      *)
ReplaceTopic(i) ==
  /\ At(i, "reconcile")
  /\ missing[i]
  /\ Request(i).topic \in DOMAIN topics
  /\ Created(i)
  /\ Proceed(i)
  /\ UNCHANGED <<serde, subjects, acls, faults>>

RepeatCreateTopic(i) ==
  /\ At(i, "reconcile")
  /\ missing[i]
  /\ Request(i).topic \in DOMAIN topics
  /\ UNCHANGED vars

(* Another process was faster: TOPIC_ALREADY_EXISTS.                       *)
TopicAlreadyExists(i) ==
  /\ At(i, "reconcile")
  /\ missing[i]
  /\ Request(i).topic \in DOMAIN topics
  /\ Exit(i)
  /\ UNCHANGED <<clusterVars, faults>>

Resolves(ref) == ref.version \in DOMAIN subjects[ref.subject]

(* The registry returns the version it has of a schema or adds one.        *)
Registered(i) ==
  LET r == Request(i)
  IN  subjects' = IF r.schema \in ToSet(subjects[r.subject])
                  THEN subjects
                  ELSE [subjects EXCEPT ![r.subject] = Append(@, r.schema)]

(* CreateSchema; the id of an order schema goes into the serde.  The       *)
(* registry rejects a reference to a version it does not have, which would *)
(* be a fatal error at every start; ReferencesResolve says that it never   *)
(* comes to that.                                                          *)
RegisterSchema(i) ==
  /\ At(i, "register")
  /\ \A ref \in Request(i).refs : Resolves(ref)
  /\ Registered(i)
  /\ serde' =
       IF Request(i).subject \in OrderSubject
       THEN [serde EXCEPT ![i] =
              [s \in DOMAIN @ \cup {Request(i).subject} |->
                 IF s = Request(i).subject
                 THEN Version(s, SelectInSeq(subjects'[s], LAMBDA x : x = Request(i).schema))
                 ELSE @[s]]]
       ELSE serde
  /\ Proceed(i)
  /\ UNCHANGED <<topics, acls, faults>>

(* MetaService.Initialize: an error of CreateACLs is logged, no more.      *)
CreateACLs(i) ==
  /\ At(i, "allow")
  /\ acls' \in {acls, acls \cup {Request(i).user}}
  /\ Proceed(i)
  /\ UNCHANGED <<serde, topics, subjects, faults>>

(* New returns: the consumers and the traffic simulation start.            *)
Run(i) ==
  /\ status[i] = "starting"
  /\ step[i] > Len(Script)
  /\ status' = [status EXCEPT ![i] = "running"]
  /\ UNCHANGED <<step, missing, serde, clusterVars, faults>>

Fault == faults < MaxFaults /\ faults' = faults + 1

(* A request fails, or the minute all of Initialize has is over; also, the *)
(* process may be killed at any time.                                      *)
Crash(i) ==
  /\ status[i] # "exited"
  /\ Fault
  /\ Exit(i)
  /\ UNCHANGED clusterVars

(* The request is carried out but its reply does not arrive in time.       *)
ReplyLost(i) ==
  /\ Fault
  /\ \/ /\ At(i, "reconcile")
        /\ missing[i]
        /\ Request(i).topic \notin DOMAIN topics
        /\ Created(i)
        /\ UNCHANGED <<subjects, acls>>
     \/ /\ At(i, "register")
        /\ \A ref \in Request(i).refs : Resolves(ref)
        /\ Registered(i)
        /\ UNCHANGED <<topics, acls>>
  /\ Exit(i)

(* The process is started again.                                           *)
Restart(i) ==
  /\ status[i] = "exited"
  /\ status' = [status EXCEPT ![i] = "starting"]
  /\ UNCHANGED <<step, missing, serde, clusterVars, faults>>

Advance(i) ==
  \/ ListTopics(i) \/ CreateTopic(i) \/ TopicAlreadyExists(i)
  \/ RegisterSchema(i)
  \/ CreateACLs(i) \/ Run(i)

Next == \E i \in Instance : Advance(i) \/ Crash(i) \/ ReplyLost(i) \/ Restart(i)

Spec == Init /\ [][Next]_vars

(* A process goes on with its requests and an exited one is started again; *)
(* faults are bounded by MaxFaults.                                        *)
FairSpec == Spec /\ \A i \in Instance : WF_vars(Advance(i)) /\ WF_vars(Restart(i))
-----------------------------------------------------------------------------
(***************************************************************************)
(* Properties.                                                             *)
(***************************************************************************)

(* Every variable has its type. *)
TypeOK ==
  /\ status \in [Instance -> {"starting", "running", "exited"}]
  /\ step \in [Instance -> 1..(Len(Script) + 1)]
  /\ missing \in [Instance -> BOOLEAN]
  /\ DOMAIN serde = Instance
  /\ \A i \in Instance : DOMAIN serde[i] \subseteq OrderSubject
  /\ DOMAIN topics \subseteq Topic
  /\ \A t \in DOMAIN topics : \E i \in Instance : topics[t] = Params[i]
  /\ subjects \in [Subject -> Seq({"CustomerV1", "CustomerV2", "Address", "Order"})]
  /\ acls \subseteq {"meta-service", "delivery-service"}
  /\ faults \in 0..MaxFaults

(* However many processes start at once, fail and are restarted, whoever   *)
(* runs finds every topic it will use and serdes that encode with the one  *)
(* version of the order schema, the same for all (shop.go:68-97,           *)
(* order_service.go:166-231).                                              *)
RunningIsReady ==
  \A i \in Instance : status[i] = "running" =>
    /\ DOMAIN topics = Topic
    /\ serde[i] = [s \in OrderSubject |-> Version(s, 1)]
    /\ \A s \in OrderSubject : subjects[s] = <<"Order">>

(* The order schema references version 2 of the customer by a number in    *)
(* the code, whatever version CreateSchema returned: on a registry nobody  *)
(* else uses that version exists when it is needed and is CustomerV2,      *)
(* whichever process registers what first and whatever is registered again *)
(* after a failure (order_service.go:243-304, 316-373).                    *)
Referenced(subject) == IF subject \in {"customer.proto", "avro.Customer"}
                       THEN "CustomerV2" ELSE "Address"

ReferencesResolve ==
  \A i \in Instance : At(i, "register") =>
    \A ref \in Request(i).refs :
      Resolves(ref) /\ subjects[ref.subject][ref.version] = Referenced(ref.subject)

(* A starting process takes nothing away from the others: an existing      *)
(* topic keeps the parameters it has and a schema keeps its version        *)
(* (reconcile_topic.go:26-44).                                             *)
ClusterOnlyGrows ==
  [][/\ \A t \in DOMAIN topics : t \in DOMAIN topics' /\ topics'[t] = topics[t]
     /\ \A s \in Subject : IsPrefix(subjects[s], subjects'[s])]_vars

(* Once faults stop every process gets through: a process that loses the   *)
(* race between ListTopics and CreateTopics exits, but finds the topic     *)
(* when it is started again (reconcile_topic.go:21-44).  So does a process *)
(* that gives other parameters than those the topic has: nothing compares  *)
(* them.                                                                   *)
EventuallyAllRun == \A i \in Instance : <>[](status[i] = "running")

(* "ReconcileTopic ensures a topic with the given parameters exist in the  *)
(* target cluster" (reconcile_topic.go:11): a process that is past a topic *)
(* finds it with the parameters it gave.  Where processes give different   *)
(* ones this cannot be: ClusterOnlyGrows keeps the parameters of the first *)
(* and EventuallyAllRun lets both run.  StartupProofs shows it of          *)
(* processes that give the same.                                           *)
TopicsHaveGivenParameters ==
  \A i \in Instance : \A n \in 1..(step[i] - 1) :
    Script[n].do = "reconcile" => topics[Script[n].topic] = Params[i]
=============================================================================
