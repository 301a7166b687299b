--------------------------- MODULE StartupProofs ---------------------------
(***************************************************************************)
(* Proofs about Startup for any number of processes, any parameters and    *)
(* any number of faults, with or without a schema registry and the meta    *)
(* service.                                                                *)
(***************************************************************************)
EXTENDS Startup, SequenceTheorems, TLAPS

USE StartupAssumption

-----------------------------------------------------------------------------
(* The requests of shop.New. *)

CustomerSubject == {"customer.proto", "avro.Customer"}
AddressSubject == {"address.proto", "avro.Address"}

Registrations ==
  {Register(s, v, {}) : s \in CustomerSubject, v \in {"CustomerV1", "CustomerV2"}}
  \cup {Register(s, "Address", {}) : s \in AddressSubject}
  \cup {Register("orders-protobuf-sr-value", "Order",
                 {Version("customer.proto", 2), Version("address.proto", 1)}),
        Register("orders-avro-sr-value", "Order",
                 {Version("avro.Customer", 2), Version("avro.Address", 1)})}

Reconciliations ==
  {Reconcile(t) : t \in {"customers", "addresses", "frontend-events", "orders",
                         "orders-protobuf-plain", "orders-protobuf-sr",
                         "orders-avro-sr"}}

Permissions == {Allow(u) : u \in {"meta-service", "delivery-service"}}

Requests == Reconciliations \cup Registrations \cup Permissions

(* What must have been registered before r is. *)
Needed(r) ==
  IF r.schema = "CustomerV2"
  THEN {Register(r.subject, "CustomerV1", {})}
  ELSE {Register(ref.subject, Referenced(ref.subject), {}) : ref \in r.refs}

(* Topics and schemas, without the meta service. *)
Clusters ==
  IF SchemaRegistry
  THEN <<Reconcile("customers"), Reconcile("addresses"), Reconcile("frontend-events"),
         Reconcile("orders"), Reconcile("orders-protobuf-plain"),
         Reconcile("orders-protobuf-sr"),
         RegisterProtobufSchema[1], RegisterProtobufSchema[2],
         RegisterProtobufSchema[3], RegisterProtobufSchema[4],
         Reconcile("orders-avro-sr"),
         RegisterAvroSchema[1], RegisterAvroSchema[2],
         RegisterAvroSchema[3], RegisterAvroSchema[4]>>
  ELSE <<Reconcile("customers"), Reconcile("addresses"), Reconcile("frontend-events"),
         Reconcile("orders"), Reconcile("orders-protobuf-plain")>>

(* A concatenation, given element by element. *)
LEMMA ConcatShape ==
  ASSUME NEW R, NEW s \in Seq(R), NEW t \in Seq(R), NEW u \in Seq(R),
         Len(u) = Len(s) + Len(t),
         \A i \in 1..Len(s) : u[i] = s[i],
         \A i \in 1..Len(t) : u[Len(s) + i] = t[i]
  PROVE  s \o t = u
<1>1. /\ s \o t \in Seq(R)
      /\ Len(s \o t) = Len(s) + Len(t)
      /\ \A i \in 1..(Len(s) + Len(t)) :
           (s \o t)[i] = IF i <= Len(s) THEN s[i] ELSE t[i - Len(s)]
  BY ConcatProperties
<1>2. Len(s) \in Nat /\ Len(t) \in Nat
  OBVIOUS
<1>3. \A i \in 1..(Len(s) + Len(t)) : (s \o t)[i] = u[i]
  <2> SUFFICES ASSUME NEW i \in 1..(Len(s) + Len(t)) PROVE (s \o t)[i] = u[i]
    OBVIOUS
  <2>1. CASE i <= Len(s)
    BY <1>1, <1>2, <2>1
  <2>2. CASE ~ (i <= Len(s))
    <3>1. i - Len(s) \in 1..Len(t) /\ Len(s) + (i - Len(s)) = i
      BY <1>2, <2>2
    <3> QED BY <1>1, <2>2, <3>1
  <2> QED BY <2>1, <2>2
<1> QED BY <1>1, <1>2, <1>3, SeqEqual

LEMMA ClustersShape ==
  /\ Clusters \in Seq(Requests)
  /\ Len(Clusters) = IF SchemaRegistry THEN 15 ELSE 5
  /\ Script = Clusters \o InitializeMeta
  /\ InitializeMeta \in Seq(Permissions)
<1>1. /\ \A t \in {"customers", "addresses", "frontend-events", "orders",
                   "orders-protobuf-plain", "orders-protobuf-sr", "orders-avro-sr"} :
           Reconcile(t) \in Requests
      /\ \A i \in 1..4 :
           RegisterProtobufSchema[i] \in Requests /\ RegisterAvroSchema[i] \in Requests
  BY DEF Requests, Reconciliations, Registrations, CustomerSubject, AddressSubject,
         RegisterProtobufSchema, RegisterAvroSchema
<1>2. /\ RegisterProtobufSchema \in Seq(Requests) /\ Len(RegisterProtobufSchema) = 4
      /\ RegisterAvroSchema \in Seq(Requests) /\ Len(RegisterAvroSchema) = 4
  BY <1>1 DEF RegisterProtobufSchema, RegisterAvroSchema
<1>3. InitializeMeta \in Seq(Permissions)
  <2>1. Allow("meta-service") \in Permissions /\ Allow("delivery-service") \in Permissions
    BY DEF Permissions
  <2>2. CASE MetaEnabled
    BY <2>1, <2>2 DEF InitializeMeta
  <2>3. CASE ~ MetaEnabled
    BY <2>3 DEF InitializeMeta
  <2> QED BY <2>2, <2>3
<1>4. /\ Reconcile("customers") \in Requests /\ Reconcile("addresses") \in Requests
      /\ Reconcile("frontend-events") \in Requests /\ Reconcile("orders") \in Requests
      /\ Reconcile("orders-protobuf-plain") \in Requests
      /\ Reconcile("orders-protobuf-sr") \in Requests
      /\ Reconcile("orders-avro-sr") \in Requests
      /\ RegisterProtobufSchema[1] \in Requests /\ RegisterProtobufSchema[2] \in Requests
      /\ RegisterProtobufSchema[3] \in Requests /\ RegisterProtobufSchema[4] \in Requests
      /\ RegisterAvroSchema[1] \in Requests /\ RegisterAvroSchema[2] \in Requests
      /\ RegisterAvroSchema[3] \in Requests /\ RegisterAvroSchema[4] \in Requests
  BY <1>1
<1> DEFINE others == <<Reconcile("customers"), Reconcile("addresses"),
                       Reconcile("frontend-events")>>
           plain == <<Reconcile("orders"), Reconcile("orders-protobuf-plain")>>
<1>5. others \in Seq(Requests) /\ plain \in Seq(Requests)
  BY <1>4
<1>6. CASE SchemaRegistry
  <2> DEFINE s1 == <<Reconcile("orders-protobuf-sr")>>
             s2 == RegisterProtobufSchema
             s3 == <<Reconcile("orders-avro-sr")>>
             s4 == RegisterAvroSchema
             t2 == <<Reconcile("orders-protobuf-sr"),
                     RegisterProtobufSchema[1], RegisterProtobufSchema[2],
                     RegisterProtobufSchema[3], RegisterProtobufSchema[4]>>
             t3 == <<Reconcile("orders-protobuf-sr"),
                     RegisterProtobufSchema[1], RegisterProtobufSchema[2],
                     RegisterProtobufSchema[3], RegisterProtobufSchema[4],
                     Reconcile("orders-avro-sr")>>
             t4 == <<Reconcile("orders-protobuf-sr"),
                     RegisterProtobufSchema[1], RegisterProtobufSchema[2],
                     RegisterProtobufSchema[3], RegisterProtobufSchema[4],
                     Reconcile("orders-avro-sr"),
                     RegisterAvroSchema[1], RegisterAvroSchema[2],
                     RegisterAvroSchema[3], RegisterAvroSchema[4]>>
             t5 == <<Reconcile("orders"), Reconcile("orders-protobuf-plain"),
                     Reconcile("orders-protobuf-sr"),
                     RegisterProtobufSchema[1], RegisterProtobufSchema[2],
                     RegisterProtobufSchema[3], RegisterProtobufSchema[4],
                     Reconcile("orders-avro-sr"),
                     RegisterAvroSchema[1], RegisterAvroSchema[2],
                     RegisterAvroSchema[3], RegisterAvroSchema[4]>>
  <2>1. /\ s1 \in Seq(Requests) /\ s3 \in Seq(Requests) /\ t2 \in Seq(Requests)
        /\ t3 \in Seq(Requests) /\ t4 \in Seq(Requests) /\ t5 \in Seq(Requests)
    BY <1>4
  <2>2. /\ s2 \in Seq(Requests) /\ Len(s2) = 4
        /\ s4 \in Seq(Requests) /\ Len(s4) = 4
    BY <1>2
  <2>3. Clusters \in Seq(Requests) /\ Len(Clusters) = 15
    BY <1>4, <1>6 DEF Clusters
  <2>4. s1 \o s2 = t2
    <3>1. /\ Len(t2) = Len(s1) + Len(s2)
          /\ \A i \in 1..Len(s1) : t2[i] = s1[i]
          /\ \A i \in 1..Len(s2) : t2[Len(s1) + i] = s2[i]
      BY <2>2
    <3>2. s1 \in Seq(Requests) /\ s2 \in Seq(Requests) /\ t2 \in Seq(Requests)
      BY <2>1, <2>2
    <3> HIDE DEF s1, s2, t2
    <3> QED BY ONLY <3>1, <3>2, ConcatShape
  <2>5. t2 \o s3 = t3
    <3>1. /\ Len(t3) = Len(t2) + Len(s3)
          /\ \A i \in 1..Len(t2) : t3[i] = t2[i]
          /\ \A i \in 1..Len(s3) : t3[Len(t2) + i] = s3[i]
      OBVIOUS
    <3>2. t2 \in Seq(Requests) /\ s3 \in Seq(Requests) /\ t3 \in Seq(Requests)
      BY <2>1
    <3> HIDE DEF t2, s3, t3
    <3> QED BY ONLY <3>1, <3>2, ConcatShape
  <2>6. t3 \o s4 = t4
    <3>1. /\ Len(t4) = Len(t3) + Len(s4)
          /\ \A i \in 1..Len(t3) : t4[i] = t3[i]
          /\ \A i \in 1..Len(s4) : t4[Len(t3) + i] = s4[i]
      BY <2>2
    <3>2. t3 \in Seq(Requests) /\ s4 \in Seq(Requests) /\ t4 \in Seq(Requests)
      BY <2>1, <2>2
    <3> HIDE DEF t3, s4, t4
    <3> QED BY ONLY <3>1, <3>2, ConcatShape
  <2>7. plain \o t4 = t5
    <3>1. /\ Len(t5) = Len(plain) + Len(t4)
          /\ \A i \in 1..Len(plain) : t5[i] = plain[i]
          /\ \A i \in 1..Len(t4) : t5[Len(plain) + i] = t4[i]
      OBVIOUS
    <3>2. plain \in Seq(Requests) /\ t4 \in Seq(Requests) /\ t5 \in Seq(Requests)
      BY <1>5, <2>1
    <3> HIDE DEF plain, t4, t5
    <3> QED BY ONLY <3>1, <3>2, ConcatShape
  <2>8. others \o t5 = Clusters
    <3>1. /\ Len(Clusters) = Len(others) + Len(t5)
          /\ \A i \in 1..Len(others) : Clusters[i] = others[i]
          /\ \A i \in 1..Len(t5) : Clusters[Len(others) + i] = t5[i]
      BY <1>6 DEF Clusters
    <3>2. others \in Seq(Requests) /\ t5 \in Seq(Requests) /\ Clusters \in Seq(Requests)
      BY <1>5, <2>1, <2>3
    <3> HIDE DEF others, t5
    <3> QED BY ONLY <3>1, <3>2, ConcatShape
  <2> HIDE DEF s1, s2, s3, s4, t2, t3, t4, t5, others, plain
  <2>9. others \o (plain \o (((s1 \o s2) \o s3) \o s4)) = Clusters
    BY <2>4, <2>5, <2>6, <2>7, <2>8
  <2> QED BY <1>3, <1>6, <2>3, <2>9
          DEF Script, InitializeOrders, s1, s2, s3, s4, others, plain
<1>7. CASE ~ SchemaRegistry
  <2>1. Clusters \in Seq(Requests) /\ Len(Clusters) = 5
    BY <1>4, <1>7 DEF Clusters
  <2>2. others \o plain = Clusters
    <3>1. /\ Len(Clusters) = Len(others) + Len(plain)
          /\ \A i \in 1..Len(others) : Clusters[i] = others[i]
          /\ \A i \in 1..Len(plain) : Clusters[Len(others) + i] = plain[i]
      BY <1>7 DEF Clusters
    <3> HIDE DEF others, plain
    <3> QED BY <1>5, <2>1, <3>1, ConcatShape
  <2>3. InitializeOrders = plain
    BY <1>5, <1>7, ConcatEmptySeq DEF InitializeOrders
  <2> QED BY <1>3, <1>7, <2>1, <2>2, <2>3 DEF Script
<1> QED BY <1>6, <1>7

LEMMA RequestKinds ==
  /\ \A r \in Reconciliations : r.do = "reconcile"
  /\ \A r \in Permissions : r.do = "allow"
  /\ \A r \in Permissions : r.user \in {"meta-service", "delivery-service"}
  /\ \A r \in Registrations :
       /\ r.do = "register"
       /\ \/ r.subject \in CustomerSubject /\ r.schema \in {"CustomerV1", "CustomerV2"}
             /\ r.refs = {}
          \/ r.subject \in AddressSubject /\ r.schema = "Address" /\ r.refs = {}
          \/ /\ r.subject \in {"orders-protobuf-sr-value", "orders-avro-sr-value"}
             /\ r.schema = "Order"
             /\ \A ref \in r.refs :
                  \/ ref.subject \in CustomerSubject /\ ref.version = 2
                  \/ ref.subject \in AddressSubject /\ ref.version = 1
<1>1. /\ \A r \in Reconciliations : r.do = "reconcile"
      /\ \A r \in Permissions : r.do = "allow"
      /\ \A r \in Permissions : r.user \in {"meta-service", "delivery-service"}
  BY DEF Reconciliations, Permissions, Reconcile, Allow
<1>2. ASSUME NEW r \in Registrations
      PROVE  /\ r.do = "register"
             /\ \/ r.subject \in CustomerSubject /\ r.schema \in {"CustomerV1", "CustomerV2"}
                   /\ r.refs = {}
                \/ r.subject \in AddressSubject /\ r.schema = "Address" /\ r.refs = {}
                \/ /\ r.subject \in {"orders-protobuf-sr-value", "orders-avro-sr-value"}
                   /\ r.schema = "Order"
                   /\ \A ref \in r.refs :
                        \/ ref.subject \in CustomerSubject /\ ref.version = 2
                        \/ ref.subject \in AddressSubject /\ ref.version = 1
  BY DEF Registrations, Register, Version, CustomerSubject, AddressSubject
<1> QED BY <1>1, <1>2

(* A schema is registered after what it needs.                             *)
LEMMA ClustersInOrder ==
  \A n \in DOMAIN Clusters : Clusters[n].do = "register" =>
    /\ Clusters[n] \in Registrations
    /\ \A r \in Needed(Clusters[n]) : \E m \in 1..(n - 1) : Clusters[m] = r
<1> SUFFICES ASSUME NEW n \in DOMAIN Clusters, Clusters[n].do = "register"
             PROVE  /\ Clusters[n] \in Registrations
                    /\ \A r \in Needed(Clusters[n]) :
                         \E m \in 1..(n - 1) : Clusters[m] = r
  OBVIOUS
<1>1. Clusters[n] \in Requests /\ Clusters[n] \in Registrations
  <2>1. Clusters[n] \in Requests
    BY ClustersShape, ElementOfSeq, LenProperties
  <2> QED BY <2>1, RequestKinds DEF Requests
<1>2. \A t : Reconcile(t).do # "register"
  BY DEF Reconcile
<1>3. n \in 1..Len(Clusters)
  BY ClustersShape, LenProperties
<1>4. CASE ~ SchemaRegistry
  <2>1. Len(Clusters) = 5
    BY <1>4, ClustersShape
  <2>2. \A i \in 1..5 : \E t : Clusters[i] = Reconcile(t)
    BY <1>4 DEF Clusters
  <2> QED BY <1>2, <1>3, <2>1, <2>2
<1>5. CASE SchemaRegistry
  <2>1. Len(Clusters) = 15
    BY <1>5, ClustersShape
  <2>2. /\ \A i \in {1, 2, 3, 4, 5, 6, 11} : \E t : Clusters[i] = Reconcile(t)
        /\ Clusters[7] = Register("customer.proto", "CustomerV1", {})
        /\ Clusters[8] = Register("customer.proto", "CustomerV2", {})
        /\ Clusters[9] = Register("address.proto", "Address", {})
        /\ Clusters[10] = Register("orders-protobuf-sr-value", "Order",
                             {Version("customer.proto", 2), Version("address.proto", 1)})
        /\ Clusters[12] = Register("avro.Customer", "CustomerV1", {})
        /\ Clusters[13] = Register("avro.Customer", "CustomerV2", {})
        /\ Clusters[14] = Register("avro.Address", "Address", {})
        /\ Clusters[15] = Register("orders-avro-sr-value", "Order",
                             {Version("avro.Customer", 2), Version("avro.Address", 1)})
    BY <1>5 DEF Clusters, RegisterProtobufSchema, RegisterAvroSchema
  <2>3. n \in {7, 8, 9, 10, 12, 13, 14, 15}
    BY <1>2, <1>3, <2>1, <2>2
  <2>4. /\ \A s : Needed(Register(s, "CustomerV1", {})) = {}
        /\ \A s : Needed(Register(s, "Address", {})) = {}
        /\ \A s : Needed(Register(s, "CustomerV2", {})) = {Register(s, "CustomerV1", {})}
        /\ Needed(Register("orders-protobuf-sr-value", "Order",
                     {Version("customer.proto", 2), Version("address.proto", 1)}))
             = {Register("customer.proto", "CustomerV2", {}),
                Register("address.proto", "Address", {})}
        /\ Needed(Register("orders-avro-sr-value", "Order",
                     {Version("avro.Customer", 2), Version("avro.Address", 1)}))
             = {Register("avro.Customer", "CustomerV2", {}),
                Register("avro.Address", "Address", {})}
    BY DEF Needed, Register, Version, Referenced
  <2>5. CASE n \in {7, 9, 12, 14}
    BY <1>1, <2>2, <2>4, <2>5
  <2>6. CASE n \in {8, 13}
    BY <1>1, <2>2, <2>4, <2>6
  <2>7. CASE n = 10
    <3>1. Needed(Clusters[n]) = {Clusters[8], Clusters[9]}
      BY <2>2, <2>4, <2>7
    <3>2. 8 \in 1..(n - 1) /\ 9 \in 1..(n - 1)
      BY <2>7
    <3> QED BY ONLY <1>1, <3>1, <3>2
  <2>8. CASE n = 15
    <3>1. Needed(Clusters[n]) = {Clusters[13], Clusters[14]}
      BY <2>2, <2>4, <2>8
    <3>2. 13 \in 1..(n - 1) /\ 14 \in 1..(n - 1)
      BY <2>8
    <3> QED BY ONLY <1>1, <3>1, <3>2
  <2> QED BY <2>3, <2>5, <2>6, <2>7, <2>8
<1> QED BY <1>4, <1>5

LEMMA ScriptShape ==
  /\ Script \in Seq(Requests) /\ Len(Script) \in Nat /\ DOMAIN Script = 1..Len(Script)
  /\ \A n \in DOMAIN Script : Script[n] \in Requests
  /\ \A n \in DOMAIN Script : Script[n].do = "register" =>
       /\ Script[n] \in Registrations
       /\ \A r \in Needed(Script[n]) : \E m \in 1..(n - 1) : Script[m] = r
<1> DEFINE c == Clusters
           a == InitializeMeta
<1>1. c \in Seq(Requests) /\ a \in Seq(Requests) /\ Script = c \o a /\ a \in Seq(Permissions)
  <2>1. Permissions \subseteq Requests
    BY DEF Requests
  <2> QED BY <2>1, ClustersShape
<1>2. /\ \A n \in DOMAIN c : c[n].do = "register" =>
           /\ c[n] \in Registrations
           /\ \A r \in Needed(c[n]) : \E m \in 1..(n - 1) : c[m] = r
      /\ \A n \in DOMAIN a : a[n].do # "register"
  BY <1>1, ClustersInOrder, RequestKinds, ElementOfSeq, LenProperties
<1> HIDE DEF c, a
<1>3. /\ Script \in Seq(Requests)
      /\ Len(Script) = Len(c) + Len(a)
      /\ \A i \in 1..(Len(c) + Len(a)) :
           Script[i] = IF i <= Len(c) THEN c[i] ELSE a[i - Len(c)]
  BY <1>1, ConcatProperties
<1>4. /\ Len(c) \in Nat /\ DOMAIN c = 1..Len(c) /\ Len(a) \in Nat /\ DOMAIN a = 1..Len(a)
      /\ DOMAIN Script = 1..Len(Script)
      /\ \A n \in DOMAIN Script : Script[n] \in Requests
  BY <1>1, <1>3, LenProperties, ElementOfSeq
<1>5. ASSUME NEW n \in DOMAIN Script, Script[n].do = "register"
      PROVE  /\ Script[n] \in Registrations
             /\ \A r \in Needed(Script[n]) : \E m \in 1..(n - 1) : Script[m] = r
  <2>1. n \in 1..Len(c) /\ Script[n] = c[n]
    <3>1. CASE n <= Len(c)
      BY <1>3, <1>4, <3>1
    <3>2. CASE ~ (n <= Len(c))
      <4>1. n - Len(c) \in DOMAIN a
        BY <1>3, <1>4, <3>2
      <4> QED BY <1>2, <1>3, <1>4, <1>5, <3>2, <4>1
    <3> QED BY <3>1, <3>2
  <2>2. \A m \in 1..(n - 1) : Script[m] = c[m]
    BY <1>3, <1>4, <2>1
  <2> QED BY <1>2, <1>4, <1>5, <2>1, <2>2
<1>6. Len(Script) \in Nat
  BY <1>3, <1>4
<1> QED BY ONLY <1>3, <1>4, <1>5, <1>6

-----------------------------------------------------------------------------
(* What the processes leave behind.  A subject has grown along one path    *)
(* only, a process that is past a request finds what it asked for, its     *)
(* order serdes encode with the only version there is, and it runs when it *)
(* is past all requests.                                                   *)

History(s) ==
  IF s \in CustomerSubject
  THEN {<<>>, <<"CustomerV1">>, <<"CustomerV1", "CustomerV2">>}
  ELSE IF s \in OrderSubject THEN {<<>>, <<"Order">>} ELSE {<<>>, <<"Address">>}

Histories == \A s \in Subject : subjects[s] \in History(s)

Fulfilled(i, r) ==
  /\ r.do = "reconcile" => r.topic \in DOMAIN topics
  /\ r.do = "register" =>
       /\ r.schema \in ToSet(subjects[r.subject])
       /\ r.subject \in OrderSubject => r.subject \in DOMAIN serde[i]

PastRequests ==
  \A i \in Instance : \A n \in 1..(step[i] - 1) : Fulfilled(i, Script[n])

SerdesAgree ==
  \A i \in Instance : serde[i] = [s \in DOMAIN serde[i] |-> Version(s, 1)]

RunningIsPast ==
  \A i \in Instance : status[i] = "running" => step[i] = Len(Script) + 1

StartupInv == Histories /\ PastRequests /\ SerdesAgree /\ RunningIsPast

(* The subjects there are. *)
LEMMA Subjects ==
  /\ \A n \in DOMAIN Script : Script[n].do = "register" => Script[n].subject \in Subject
  /\ \A n \in DOMAIN Script : Script[n].do = "reconcile" => Script[n].topic \in Topic
  /\ \A s \in Subject : \E n \in DOMAIN Script :
       Script[n] \in Registrations /\ Script[n].do = "register" /\ Script[n].subject = s
  /\ \A t \in Topic : \E n \in DOMAIN Script :
       Script[n].do = "reconcile" /\ Script[n].topic = t
  /\ OrderSubject \cap CustomerSubject = {} /\ OrderSubject \cap AddressSubject = {}
  /\ CustomerSubject \cap AddressSubject = {}
  /\ \A n \in DOMAIN Script : Script[n].do = "register" /\ Script[n].schema = "Order" =>
       Script[n].subject \in OrderSubject
  /\ OrderSubject \subseteq Subject
<1>1. /\ \A n \in DOMAIN Script : Script[n].do = "register" => Script[n].subject \in Subject
      /\ \A n \in DOMAIN Script : Script[n].do = "reconcile" => Script[n].topic \in Topic
  BY DEF Subject, Topic, ToSet
<1>2. \A s \in Subject : \E n \in DOMAIN Script :
        Script[n] \in Registrations /\ Script[n].do = "register" /\ Script[n].subject = s
  BY ScriptShape DEF Subject, ToSet
<1>3. \A t \in Topic : \E n \in DOMAIN Script :
        Script[n].do = "reconcile" /\ Script[n].topic = t
  BY DEF Topic, ToSet
<1>4. /\ OrderSubject \cap CustomerSubject = {} /\ OrderSubject \cap AddressSubject = {}
      /\ CustomerSubject \cap AddressSubject = {} /\ OrderSubject \subseteq Subject
  BY DEF OrderSubject, CustomerSubject, AddressSubject
<1>5. \A n \in DOMAIN Script : Script[n].do = "register" /\ Script[n].schema = "Order" =>
        Script[n].subject \in OrderSubject
  <2> SUFFICES ASSUME NEW n \in DOMAIN Script, Script[n].do = "register",
                      Script[n].schema = "Order"
               PROVE  Script[n].subject \in OrderSubject
    OBVIOUS
  <2>1. Script[n] \in Registrations
    BY ScriptShape
  <2>2. Script[n].subject \in {"orders-protobuf-sr-value", "orders-avro-sr-value"}
    BY <2>1, RequestKinds
  <2> QED BY <1>1, <2>2 DEF OrderSubject
<1> QED BY <1>1, <1>2, <1>3, <1>4, <1>5

(* Short sequences. *)
LEMMA ShortSequences ==
  /\ ToSet(<<>>) = {}
  /\ \A x : ToSet(<<x>>) = {x} /\ Append(<<>>, x) = <<x>> /\ Len(<<x>>) = 1
  /\ \A x, y : /\ ToSet(<<x, y>>) = {x, y} /\ Append(<<x>>, y) = <<x, y>>
               /\ Len(<<x, y>>) = 2
  /\ Len(<<>>) = 0
<1>1. ToSet(<<>>) = {}
  BY DEF ToSet
<1>2. \A x : ToSet(<<x>>) = {x}
  BY DEF ToSet
<1>3. \A x, y : ToSet(<<x, y>>) = {x, y}
  BY DEF ToSet
<1>4. \A x : Append(<<>>, x) = <<x>>
  OBVIOUS
<1>5. ASSUME NEW x, NEW y PROVE Append(<<x>>, y) = <<x, y>>
  <2>1. <<x>> \in Seq({x, y}) /\ <<x, y>> \in Seq({x, y}) /\ y \in {x, y}
    OBVIOUS
  <2>2. /\ Append(<<x>>, y) \in Seq({x, y}) /\ Len(Append(<<x>>, y)) = 2
        /\ Append(<<x>>, y)[1] = x /\ Append(<<x>>, y)[2] = y
    BY <2>1, AppendProperties
  <2>3. \A i \in 1..2 : Append(<<x>>, y)[i] = <<x, y>>[i]
    BY <2>2
  <2> QED BY <2>1, <2>2, <2>3, SeqEqual
<1>6. /\ \A x : Len(<<x>>) = 1
      /\ \A x, y : Len(<<x, y>>) = 2
      /\ Len(<<>>) = 0
  OBVIOUS
<1> QED BY <1>1, <1>2, <1>3, <1>4, <1>5, <1>6

LEMMA FirstIsSelected ==
  ASSUME NEW x
  PROVE  SelectInSeq(<<x>>, LAMBDA y : y = x) = 1
  BY DEF SelectInSeq, Min

-----------------------------------------------------------------------------
(* Registering a schema. *)

LEMMA CurrentRequest ==
  ASSUME TypeOK, NEW i \in Instance, NEW do, At(i, do)
  PROVE  /\ step[i] \in DOMAIN Script /\ step[i] \in Nat
         /\ Request(i) = Script[step[i]] /\ Request(i).do = do
         /\ Request(i) \in Requests
         /\ status[i] = "starting"
  BY ScriptShape DEF TypeOK, At, Request

(* What the schema needs is there. *)
LEMMA NeededIsThere ==
  ASSUME TypeOK, StartupInv, NEW i \in Instance, At(i, "register")
  PROVE  /\ Request(i) \in Registrations /\ Request(i).subject \in Subject
         /\ \A r \in Needed(Request(i)) :
              /\ r.subject \in Subject
              /\ r.do = "register" => r.schema \in ToSet(subjects[r.subject])
<1>1. /\ step[i] \in DOMAIN Script /\ step[i] \in Nat
      /\ Request(i) = Script[step[i]] /\ Request(i).do = "register"
  BY CurrentRequest
<1>2. /\ Request(i) \in Registrations
      /\ \A r \in Needed(Request(i)) : \E m \in 1..(step[i] - 1) : Script[m] = r
  BY <1>1, ScriptShape
<1>3. 1..(step[i] - 1) \subseteq DOMAIN Script
  BY <1>1, ScriptShape
<1>4. ASSUME NEW r \in Needed(Request(i))
      PROVE  r.subject \in Subject /\ (r.do = "register" => r.schema \in ToSet(subjects[r.subject]))
  <2>1. PICK m \in 1..(step[i] - 1) : Script[m] = r
    BY <1>2
  <2>2. r.do = "register"
    BY DEF Needed, Register
  <2>3. Fulfilled(i, r)
    BY <2>1 DEF StartupInv, PastRequests
  <2> QED BY <1>3, <2>1, <2>2, <2>3, Subjects DEF Fulfilled
<1> QED BY <1>1, <1>2, <1>4, Subjects

(* The versions a process references exist and are the ones it means.      *)
LEMMA ReferencesHold == TypeOK /\ StartupInv => ReferencesResolve
<1> SUFFICES ASSUME TypeOK, StartupInv, NEW i \in Instance, At(i, "register"),
                    NEW ref \in Request(i).refs
             PROVE  /\ Resolves(ref)
                    /\ subjects[ref.subject][ref.version] = Referenced(ref.subject)
  BY DEF ReferencesResolve
<1> DEFINE r == Request(i)
           needed == Register(ref.subject, Referenced(ref.subject), {})
           versions == subjects[ref.subject]
<1>1. r \in Registrations
  BY NeededIsThere
<1>2. /\ r.schema = "Order"
      /\ \/ ref.subject \in CustomerSubject /\ ref.version = 2
         \/ ref.subject \in AddressSubject /\ ref.version = 1
  BY <1>1, RequestKinds
<1>3. needed \in Needed(r)
  BY <1>2 DEF Needed
<1>4. needed.subject = ref.subject /\ needed.do = "register"
      /\ needed.schema = Referenced(ref.subject)
  BY DEF Register
<1>5. ref.subject \in Subject /\ Referenced(ref.subject) \in ToSet(versions)
  BY <1>3, <1>4, NeededIsThere
<1>6. versions \in History(ref.subject)
  BY <1>5 DEF StartupInv, Histories
<1> HIDE DEF versions, needed, r
<1>7. CASE ref.subject \in CustomerSubject /\ ref.version = 2
  <2>1. Referenced(ref.subject) = "CustomerV2"
    BY <1>7 DEF Referenced, CustomerSubject
  <2>2. versions = <<"CustomerV1", "CustomerV2">>
    BY <1>5, <1>6, <1>7, <2>1, ShortSequences DEF History
  <2> QED BY <1>7, <2>1, <2>2 DEF Resolves, versions
<1>8. CASE ref.subject \in AddressSubject /\ ref.version = 1
  <2>1. Referenced(ref.subject) = "Address"
    BY <1>8 DEF Referenced, AddressSubject
  <2>2. versions = <<"Address">>
    BY <1>5, <1>6, <1>8, <2>1, ShortSequences, Subjects DEF History
  <2> QED BY <1>8, <2>1, <2>2 DEF Resolves, versions
<1> QED BY <1>2, <1>7, <1>8

(* A registration leaves every subject on its path.                        *)
LEMMA RegisteredShape ==
  ASSUME TypeOK, StartupInv, NEW i \in Instance, At(i, "register"), Registered(i)
  PROVE  /\ Histories'
         /\ Request(i).schema \in ToSet(subjects'[Request(i).subject])
         /\ Request(i).subject \in OrderSubject =>
              subjects'[Request(i).subject] = <<Request(i).schema>>
         /\ \A s \in Subject : ToSet(subjects[s]) \subseteq ToSet(subjects'[s])
         /\ \A s \in Subject : \/ subjects'[s] = subjects[s]
                               \/ subjects'[s] = Append(subjects[s], Request(i).schema)
         /\ subjects' \in [Subject -> Seq({"CustomerV1", "CustomerV2", "Address", "Order"})]
<1> DEFINE r == Request(i)
           old == subjects[r.subject]
           new == subjects'[r.subject]
<1>1. /\ r \in Registrations /\ r.subject \in Subject
      /\ \A q \in Needed(r) :
           q.do = "register" => q.schema \in ToSet(subjects[q.subject])
  BY NeededIsThere
<1>2. /\ new = IF r.schema \in ToSet(old) THEN old ELSE Append(old, r.schema)
      /\ \A s \in Subject : s # r.subject => subjects'[s] = subjects[s]
  BY <1>1 DEF Registered, TypeOK
<1>3. old \in History(r.subject)
  BY <1>1 DEF StartupInv, Histories
<1>4. r.schema = "CustomerV2" => "CustomerV1" \in ToSet(old)
  <2> SUFFICES ASSUME r.schema = "CustomerV2" PROVE "CustomerV1" \in ToSet(old)
    OBVIOUS
  <2>1. Register(r.subject, "CustomerV1", {}) \in Needed(r)
    BY DEF Needed
  <2> QED BY <1>1, <2>1 DEF Register
<1> HIDE DEF r, old, new
<1>5. /\ new \in History(r.subject) /\ r.schema \in ToSet(new)
      /\ ToSet(old) \subseteq ToSet(new)
      /\ r.subject \in OrderSubject => new = <<r.schema>>
  <2>1. CASE r.subject \in CustomerSubject /\ r.schema \in {"CustomerV1", "CustomerV2"}
    <3>1. old \in {<<>>, <<"CustomerV1">>, <<"CustomerV1", "CustomerV2">>}
      BY <1>3, <2>1 DEF History
    <3> DEFINE one == <<"CustomerV1">>
               both == <<"CustomerV1", "CustomerV2">>
    <3>2. /\ ToSet(<<>>) = {} /\ ToSet(one) = {"CustomerV1"}
          /\ ToSet(both) = {"CustomerV1", "CustomerV2"}
          /\ Append(<<>>, "CustomerV1") = one /\ Append(one, "CustomerV2") = both
      BY ShortSequences
    <3>3. new = IF r.schema \in ToSet(old) THEN old ELSE Append(old, r.schema)
      BY <1>2
    <3> HIDE DEF one, both
    <3>4. /\ new \in {one, both} /\ r.schema \in ToSet(new)
          /\ ToSet(old) \subseteq ToSet(new)
      <4>1. CASE old = <<>>
        <5>1. r.schema = "CustomerV1"
          BY ONLY <1>4, <2>1, <3>2, <4>1
        <5> QED BY ONLY <3>2, <3>3, <4>1, <5>1
      <4>2. CASE old = one
        <5>1. CASE r.schema = "CustomerV1"
          BY ONLY <3>2, <3>3, <4>2, <5>1
        <5>2. CASE r.schema = "CustomerV2"
          BY ONLY <3>2, <3>3, <4>2, <5>2
        <5> QED BY <2>1, <5>1, <5>2
      <4>3. CASE old = both
        BY ONLY <2>1, <3>2, <3>3, <4>3
      <4> QED BY ONLY <3>1, <4>1, <4>2, <4>3 DEF one, both
    <3> QED BY <2>1, <3>4, Subjects DEF History, one, both
  <2>2. CASE r.subject \in AddressSubject /\ r.schema = "Address"
    <3>1. old \in {<<>>, <<"Address">>} /\ r.subject \notin OrderSubject
      BY <1>3, <2>2, Subjects DEF History
    <3>2. new = <<"Address">>
      BY <1>2, <2>2, <3>1, ShortSequences
    <3> QED BY <2>2, <3>1, <3>2, ShortSequences, Subjects DEF History
  <2>3. CASE r.schema = "Order"
    <3>1. r.subject \in OrderSubject
      BY <2>3, CurrentRequest, Subjects DEF r
    <3>2. old \in {<<>>, <<"Order">>}
      BY <1>3, <3>1, Subjects DEF History
    <3>3. new = <<"Order">>
      BY <1>2, <2>3, <3>2, ShortSequences
    <3> QED BY <2>3, <3>1, <3>2, <3>3, ShortSequences, Subjects DEF History
  <2> QED BY <1>1, <2>1, <2>2, <2>3, RequestKinds
<1>6. Histories'
  BY <1>2, <1>5 DEF StartupInv, Histories, new, History
<1>7. \A s \in Subject : ToSet(subjects[s]) \subseteq ToSet(subjects'[s])
  BY <1>2, <1>5 DEF old, new
<1>8. subjects' \in [Subject -> Seq({"CustomerV1", "CustomerV2", "Address", "Order"})]
  <2>1. r.schema \in {"CustomerV1", "CustomerV2", "Address", "Order"}
    BY <1>1, RequestKinds
  <2> QED BY <1>1, <2>1 DEF Registered, TypeOK, r
<1>9. \A s \in Subject : \/ subjects'[s] = subjects[s]
                          \/ subjects'[s] = Append(subjects[s], r.schema)
  BY <1>2 DEF old, new
<1> QED BY <1>5, <1>6, <1>7, <1>8, <1>9 DEF r, new

-----------------------------------------------------------------------------
(* Type correctness. *)

LEMMA InitTypeOK == Init => TypeOK
<1> SUFFICES ASSUME Init PROVE TypeOK
  OBVIOUS
<1>1. Len(Script) \in Nat
  BY ScriptShape
<1>2. /\ status \in [Instance -> {"starting", "running", "exited"}]
      /\ step \in [Instance -> 1..(Len(Script) + 1)]
      /\ missing \in [Instance -> BOOLEAN]
  BY <1>1 DEF Init
<1>3. /\ DOMAIN serde = Instance
      /\ \A i \in Instance : DOMAIN serde[i] \subseteq OrderSubject
      /\ DOMAIN topics = {}
  BY DEF Init, Nothing
<1>4. subjects \in [Subject -> Seq({"CustomerV1", "CustomerV2", "Address", "Order"})]
  BY DEF Init
<1> QED BY <1>2, <1>3, <1>4 DEF Init, TypeOK

(* The two ways a process goes on. *)
LEMMA ProceedType ==
  ASSUME TypeOK, NEW i \in Instance, step[i] \in DOMAIN Script, Proceed(i)
  PROVE  /\ status' \in [Instance -> {"starting", "running", "exited"}]
         /\ step' \in [Instance -> 1..(Len(Script) + 1)]
         /\ missing' \in [Instance -> BOOLEAN]
<1>1. step[i] + 1 \in 1..(Len(Script) + 1)
  BY ScriptShape
<1> QED BY <1>1 DEF TypeOK, Proceed

LEMMA ExitType ==
  ASSUME TypeOK, NEW i \in Instance, Exit(i)
  PROVE  /\ status' \in [Instance -> {"starting", "running", "exited"}]
         /\ step' \in [Instance -> 1..(Len(Script) + 1)]
         /\ missing' \in [Instance -> BOOLEAN]
         /\ DOMAIN serde' = Instance
         /\ \A j \in Instance : DOMAIN serde'[j] \subseteq OrderSubject
<1>1. 1 \in 1..(Len(Script) + 1)
  BY ScriptShape
<1>2. DOMAIN Nothing = {}
  BY DEF Nothing
<1> QED BY <1>1, <1>2 DEF TypeOK, Exit

LEMMA CreatedType ==
  ASSUME TypeOK, NEW i \in Instance, At(i, "reconcile"), Created(i)
  PROVE  /\ DOMAIN topics' = DOMAIN topics \cup {Request(i).topic}
         /\ DOMAIN topics' \subseteq Topic
         /\ \A t \in DOMAIN topics' : \E j \in Instance : topics'[t] = Params[j]
         /\ \A t \in DOMAIN topics : t # Request(i).topic => topics'[t] = topics[t]
<1>1. Request(i).topic \in Topic
  BY CurrentRequest, Subjects
<1> QED BY <1>1 DEF TypeOK, Created

(* Registered keeps the type of subjects. *)
LEMMA RegisteredType ==
  ASSUME TypeOK, NEW i \in Instance, At(i, "register"), Registered(i)
  PROVE  subjects' \in [Subject -> Seq({"CustomerV1", "CustomerV2", "Address", "Order"})]
<1>1. Request(i) \in Registrations /\ Request(i).subject \in Subject
  BY CurrentRequest, ScriptShape, Subjects
<1>2. Request(i).schema \in {"CustomerV1", "CustomerV2", "Address", "Order"}
  BY <1>1, RequestKinds
<1> QED BY <1>1, <1>2 DEF Registered, TypeOK

LEMMA NextTypeOK == TypeOK /\ [Next]_vars => TypeOK'
<1> SUFFICES ASSUME TypeOK, [Next]_vars PROVE TypeOK'
  OBVIOUS
<1>1. CASE UNCHANGED vars
  BY <1>1 DEF TypeOK, vars, instanceVars, clusterVars
<1>2. ASSUME NEW i \in Instance, ListTopics(i) PROVE TypeOK'
  <2>1. CASE Request(i).topic \in DOMAIN topics
    <3>1. Proceed(i)
      BY <1>2, <2>1 DEF ListTopics
    <3> QED BY <1>2, <3>1, CurrentRequest, ProceedType DEF ListTopics, TypeOK, clusterVars
  <2>2. CASE Request(i).topic \notin DOMAIN topics
    BY <1>2, <2>2 DEF ListTopics, TypeOK, clusterVars
  <2> QED BY <2>1, <2>2
<1>3. ASSUME NEW i \in Instance, CreateTopic(i) PROVE TypeOK'
  BY <1>3, CurrentRequest, ProceedType, CreatedType DEF CreateTopic, TypeOK
<1>4. ASSUME NEW i \in Instance, TopicAlreadyExists(i) PROVE TypeOK'
  BY <1>4, ExitType DEF TopicAlreadyExists, TypeOK, clusterVars
<1>5. ASSUME NEW i \in Instance, RegisterSchema(i) PROVE TypeOK'
  <2>1. /\ status' \in [Instance -> {"starting", "running", "exited"}]
        /\ step' \in [Instance -> 1..(Len(Script) + 1)]
        /\ missing' \in [Instance -> BOOLEAN]
    BY <1>5, CurrentRequest, ProceedType DEF RegisterSchema
  <2>2. subjects' \in [Subject -> Seq({"CustomerV1", "CustomerV2", "Address", "Order"})]
    BY <1>5, RegisteredType DEF RegisterSchema
  <2>3. /\ DOMAIN serde' = Instance
        /\ \A j \in Instance : DOMAIN serde'[j] \subseteq OrderSubject
    <3>1. CASE Request(i).subject \in OrderSubject
      <4>1. PICK v : serde' = [serde EXCEPT ![i] =
                      [s \in DOMAIN serde[i] \cup {Request(i).subject} |-> v[s]]]
        <5> DEFINE w == [s \in DOMAIN serde[i] \cup {Request(i).subject} |->
                          IF s = Request(i).subject
                          THEN Version(s, SelectInSeq(subjects'[s],
                                                      LAMBDA x : x = Request(i).schema))
                          ELSE serde[i][s]]
        <5>1. serde' = [serde EXCEPT ![i] = w]
          BY <1>5, <3>1 DEF RegisterSchema
        <5>2. w = [s \in DOMAIN serde[i] \cup {Request(i).subject} |-> w[s]]
          OBVIOUS
        <5> HIDE DEF w
        <5> QED BY <5>1, <5>2
      <4> QED BY <3>1, <4>1 DEF TypeOK
    <3>2. CASE Request(i).subject \notin OrderSubject
      BY <1>5, <3>2 DEF RegisterSchema, TypeOK
    <3> QED BY <3>1, <3>2
  <2>4. UNCHANGED <<topics, acls, faults>>
    BY <1>5 DEF RegisterSchema
  <2> QED BY <2>1, <2>2, <2>3, <2>4 DEF TypeOK
<1>6. ASSUME NEW i \in Instance, CreateACLs(i) PROVE TypeOK'
  <2>1. Request(i) \in Permissions
    BY <1>6, CurrentRequest, RequestKinds DEF CreateACLs, Requests
  <2>2. acls' \subseteq {"meta-service", "delivery-service"}
    BY <1>6, <2>1, RequestKinds DEF CreateACLs, TypeOK
  <2> QED BY <1>6, <2>2, CurrentRequest, ProceedType DEF CreateACLs, TypeOK
<1>7. ASSUME NEW i \in Instance, Run(i) PROVE TypeOK'
  BY <1>7 DEF Run, TypeOK, clusterVars
<1>8. ASSUME Fault PROVE faults' \in 0..MaxFaults
  BY <1>8 DEF Fault, TypeOK
<1>9. ASSUME NEW i \in Instance, Crash(i) PROVE TypeOK'
  BY <1>8, <1>9, ExitType DEF Crash, TypeOK, clusterVars
<1>10. ASSUME NEW i \in Instance, ReplyLost(i) PROVE TypeOK'
  <2>1. Fault /\ Exit(i)
    BY <1>10 DEF ReplyLost
  <2>2. CASE At(i, "reconcile") /\ Created(i) /\ UNCHANGED <<subjects, acls>>
    BY <1>8, <2>1, <2>2, ExitType, CreatedType DEF TypeOK
  <2>3. CASE At(i, "register") /\ Registered(i) /\ UNCHANGED <<topics, acls>>
    BY <1>8, <2>1, <2>3, ExitType, RegisteredType DEF TypeOK
  <2> QED BY <1>10, <2>2, <2>3 DEF ReplyLost
<1>11. ASSUME NEW i \in Instance, Restart(i) PROVE TypeOK'
  BY <1>11 DEF Restart, TypeOK, clusterVars
<1> QED BY <1>1, <1>2, <1>3, <1>4, <1>5, <1>6, <1>7, <1>9, <1>10, <1>11 DEF Next, Advance

(* TypeOK of Startup: every variable keeps its type.                       *)
THEOREM TypeCorrect == Spec => []TypeOK
<1> QED BY InitTypeOK, NextTypeOK, PTL DEF Spec

-----------------------------------------------------------------------------
(* The inductive invariant. *)

LEMMA InitStartupInv == Init => StartupInv
<1> SUFFICES ASSUME Init PROVE StartupInv
  OBVIOUS
<1>1. Histories
  <2>1. \A s : <<>> \in History(s)
    BY DEF History
  <2> QED BY <2>1 DEF Init, Histories
<1>2. PastRequests /\ RunningIsPast
  BY DEF Init, PastRequests, RunningIsPast
<1>3. SerdesAgree
  BY DEF Init, SerdesAgree, Nothing
<1> QED BY <1>1, <1>2, <1>3 DEF StartupInv

(* What a process has asked for stays as long as nothing is taken away.    *)
LEMMA FulfilledStays ==
  ASSUME NEW i, NEW n \in DOMAIN Script, Fulfilled(i, Script[n]),
         DOMAIN topics \subseteq DOMAIN topics',
         \A s \in Subject : ToSet(subjects[s]) \subseteq ToSet(subjects'[s]),
         DOMAIN serde[i] \subseteq DOMAIN serde'[i]
  PROVE  Fulfilled(i, Script[n])'
BY Subjects DEF Fulfilled

(* One process moves: it starts afresh, it has what it just asked for, or  *)
(* it stays where it is.                                                   *)
LEMMA PastStays ==
  ASSUME TypeOK, StartupInv, NEW i \in Instance,
         DOMAIN topics \subseteq DOMAIN topics',
         \A s \in Subject : ToSet(subjects[s]) \subseteq ToSet(subjects'[s]),
         \A j \in Instance : j # i =>
           step'[j] = step[j] /\ status'[j] = status[j] /\ serde'[j] = serde[j],
         \/ step'[i] = 1 /\ status'[i] # "running"
         \/ /\ step[i] \in DOMAIN Script /\ step'[i] = step[i] + 1
            /\ status'[i] # "running" /\ DOMAIN serde[i] \subseteq DOMAIN serde'[i]
            /\ \A n \in DOMAIN Script : n = step[i] => Fulfilled(i, Script[n])'
         \/ /\ step'[i] = step[i] /\ serde'[i] = serde[i]
            /\ status'[i] = "running" => step'[i] = Len(Script) + 1
  PROVE  PastRequests' /\ RunningIsPast'
<1>1. \A j \in Instance : step[j] \in Nat /\ 1..(step[j] - 1) \subseteq DOMAIN Script
  BY ScriptShape DEF TypeOK
<1>2. ASSUME NEW j \in Instance, NEW n \in 1..(step[j] - 1),
             DOMAIN serde[j] \subseteq DOMAIN serde'[j]
      PROVE  Fulfilled(j, Script[n])'
  <2>1. Fulfilled(j, Script[n]) /\ n \in DOMAIN Script
    BY <1>1 DEF StartupInv, PastRequests
  <2> QED BY <1>2, <2>1, FulfilledStays
<1>3. ASSUME NEW j \in Instance, NEW n \in 1..(step'[j] - 1)
      PROVE  Fulfilled(j, Script[n])'
  <2>1. CASE j # i
    BY <1>2, <1>3, <2>1
  <2>2. CASE j = i /\ step'[i] = 1
    BY <1>3, <2>2
  <2>3. CASE /\ j = i /\ step[i] \in DOMAIN Script /\ step'[i] = step[i] + 1
             /\ DOMAIN serde[i] \subseteq DOMAIN serde'[i]
             /\ \A m \in DOMAIN Script : m = step[i] => Fulfilled(i, Script[m])'
    <3>1. n = step[i] \/ n \in 1..(step[i] - 1)
      BY <1>1, <1>3, <2>3
    <3>2. CASE n = step[i]
      BY <2>3, <3>2
    <3>3. CASE n \in 1..(step[i] - 1)
      BY <1>2, <2>3, <3>3
    <3> QED BY <3>1, <3>2, <3>3
  <2>4. CASE j = i /\ step'[i] = step[i] /\ serde'[i] = serde[i]
    BY <1>2, <1>3, <2>4
  <2> QED BY <2>1, <2>2, <2>3, <2>4
<1>4. PastRequests'
  BY <1>3 DEF PastRequests
<1>5. RunningIsPast'
  BY DEF StartupInv, RunningIsPast
<1> QED BY <1>4, <1>5

LEMMA NextStartupInv == TypeOK /\ StartupInv /\ [Next]_vars => StartupInv'
<1> SUFFICES ASSUME TypeOK, StartupInv, [Next]_vars PROVE StartupInv'
  OBVIOUS
<1> USE DEF StartupInv
<1>1. CASE UNCHANGED vars
  BY <1>1 DEF vars, instanceVars, clusterVars, Histories, History, PastRequests,
              Fulfilled, SerdesAgree, RunningIsPast
<1>2. ASSUME NEW i \in Instance, Proceed(i)
      PROVE  /\ step'[i] = step[i] + 1 /\ status' = status
             /\ \A j \in Instance : j # i => step'[j] = step[j]
  BY <1>2 DEF Proceed, TypeOK
<1>3. ASSUME NEW i \in Instance, Exit(i)
      PROVE  /\ step'[i] = 1 /\ status'[i] = "exited" /\ serde'[i] = Nothing
             /\ \A j \in Instance : j # i =>
                  step'[j] = step[j] /\ status'[j] = status[j] /\ serde'[j] = serde[j]
  BY <1>3 DEF Exit, TypeOK
<1>4. ASSUME serde' = serde PROVE SerdesAgree'
  BY <1>4 DEF SerdesAgree
<1>5. ASSUME NEW i \in Instance, Exit(i) PROVE SerdesAgree'
  <2>1. Nothing = [s \in DOMAIN Nothing |-> Version(s, 1)]
    BY DEF Nothing
  <2>2. ASSUME NEW j \in Instance
        PROVE  serde'[j] = [s \in DOMAIN serde'[j] |-> Version(s, 1)]
    BY <1>3, <1>5, <2>1 DEF SerdesAgree
  <2> QED BY <2>2 DEF SerdesAgree
<1>6. ASSUME subjects' = subjects
      PROVE  /\ Histories'
             /\ \A s \in Subject : ToSet(subjects[s]) \subseteq ToSet(subjects'[s])
  BY <1>6 DEF Histories, History
<1>7. ASSUME NEW i \in Instance, ListTopics(i) PROVE StartupInv'
  <2>1. /\ status[i] = "starting" /\ step[i] \in DOMAIN Script
        /\ Request(i) = Script[step[i]] /\ Request(i).do = "reconcile"
    BY <1>7, CurrentRequest DEF ListTopics
  <2>2. serde' = serde /\ topics' = topics /\ subjects' = subjects
    BY <1>7 DEF ListTopics, clusterVars
  <2>3. CASE Request(i).topic \in DOMAIN topics
    <3>1. Proceed(i)
      BY <1>7, <2>3 DEF ListTopics
    <3>2. \A n \in DOMAIN Script : n = step[i] => Fulfilled(i, Script[n])'
      BY <2>1, <2>2, <2>3 DEF Fulfilled
    <3>3. PastRequests' /\ RunningIsPast'
      BY <1>2, <1>6, <2>1, <2>2, <3>1, <3>2, PastStays
    <3> QED BY <1>4, <1>6, <2>2, <3>3
  <2>4. CASE Request(i).topic \notin DOMAIN topics
    <3>1. status' = status /\ step' = step
      BY <1>7, <2>4 DEF ListTopics
    <3>2. PastRequests' /\ RunningIsPast'
      BY <1>6, <2>1, <2>2, <3>1, PastStays
    <3> QED BY <1>4, <1>6, <2>2, <3>2
  <2> QED BY <2>3, <2>4
<1>8. ASSUME NEW i \in Instance, CreateTopic(i) PROVE StartupInv'
  <2>1. /\ status[i] = "starting" /\ step[i] \in DOMAIN Script
        /\ Request(i) = Script[step[i]] /\ Request(i).do = "reconcile"
    BY <1>8, CurrentRequest DEF CreateTopic
  <2>2. /\ serde' = serde /\ subjects' = subjects /\ Proceed(i)
        /\ DOMAIN topics' = DOMAIN topics \cup {Request(i).topic}
    BY <1>8, CreatedType DEF CreateTopic
  <2>3. \A n \in DOMAIN Script : n = step[i] => Fulfilled(i, Script[n])'
    BY <2>1, <2>2 DEF Fulfilled
  <2>4. PastRequests' /\ RunningIsPast'
    BY <1>2, <1>6, <2>1, <2>2, <2>3, PastStays
  <2> QED BY <1>4, <1>6, <2>2, <2>4
<1>9. ASSUME NEW i \in Instance, Exit(i), topics' = topics, subjects' = subjects
      PROVE  StartupInv'
  <2>1. PastRequests' /\ RunningIsPast'
    BY <1>3, <1>6, <1>9, PastStays
  <2> QED BY <1>5, <1>6, <1>9, <2>1
<1>10. ASSUME NEW i \in Instance, RegisterSchema(i) PROVE StartupInv'
  <2> DEFINE r == Request(i)
  <2>1. /\ status[i] = "starting" /\ step[i] \in DOMAIN Script
        /\ r = Script[step[i]] /\ r.do = "register"
    BY <1>10, CurrentRequest DEF RegisterSchema
  <2>2. /\ Proceed(i) /\ topics' = topics
        /\ Registered(i) /\ At(i, "register")
    BY <1>10 DEF RegisterSchema
  <2>3. /\ Histories' /\ r.schema \in ToSet(subjects'[r.subject])
        /\ r.subject \in OrderSubject => subjects'[r.subject] = <<r.schema>>
        /\ \A s \in Subject : ToSet(subjects[s]) \subseteq ToSet(subjects'[s])
    BY <2>2, RegisteredShape
  <2>4. serde' = IF r.subject \in OrderSubject
                 THEN [serde EXCEPT ![i] = [s \in DOMAIN serde[i] \cup {r.subject} |->
                         IF s = r.subject THEN Version(s, 1) ELSE serde[i][s]]]
                 ELSE serde
    <3>1. CASE r.subject \in OrderSubject
      <4>1. SelectInSeq(subjects'[r.subject], LAMBDA x : x = r.schema) = 1
        <5>1. subjects'[r.subject] = <<r.schema>>
          BY <2>3, <3>1
        <5> HIDE DEF r
        <5> QED BY <5>1, FirstIsSelected DEF SelectInSeq
      <4>2. serde' = [serde EXCEPT ![i] = [s \in DOMAIN serde[i] \cup {r.subject} |->
                        IF s = r.subject
                        THEN Version(s, SelectInSeq(subjects'[s], LAMBDA x : x = r.schema))
                        ELSE serde[i][s]]]
        BY <1>10, <3>1 DEF RegisterSchema
      <4>3. [s \in DOMAIN serde[i] \cup {r.subject} |->
               IF s = r.subject
               THEN Version(s, SelectInSeq(subjects'[s], LAMBDA x : x = r.schema))
               ELSE serde[i][s]]
            = [s \in DOMAIN serde[i] \cup {r.subject} |->
                 IF s = r.subject THEN Version(s, 1) ELSE serde[i][s]]
        BY <4>1
      <4> QED BY <3>1, <4>2, <4>3
    <3>2. CASE r.subject \notin OrderSubject
      BY <1>10, <3>2 DEF RegisterSchema
    <3> QED BY <3>1, <3>2
  <2>5. /\ SerdesAgree'
        /\ r.subject \in OrderSubject => r.subject \in DOMAIN serde'[i]
        /\ DOMAIN serde[i] \subseteq DOMAIN serde'[i]
        /\ \A j \in Instance : j # i => serde'[j] = serde[j]
    <3> HIDE DEF r
    <3>1. CASE r.subject \in OrderSubject
      <4>1. serde'[i] = [s \in DOMAIN serde[i] \cup {r.subject} |->
                          IF s = r.subject THEN Version(s, 1) ELSE serde[i][s]]
        BY <2>4, <3>1 DEF TypeOK
      <4>2. serde[i] = [s \in DOMAIN serde[i] |-> Version(s, 1)]
        BY DEF SerdesAgree
      <4>3. \A s \in DOMAIN serde[i] : serde[i][s] = Version(s, 1)
        BY <4>2
      <4>4. serde'[i] = [s \in DOMAIN serde[i] \cup {r.subject} |-> Version(s, 1)]
        BY <4>1, <4>3
      <4>5. /\ DOMAIN serde'[i] = DOMAIN serde[i] \cup {r.subject}
            /\ \A j \in Instance : j # i => serde'[j] = serde[j]
        BY <2>4, <3>1, <4>4 DEF TypeOK
      <4>6. \A j \in Instance : serde'[j] = [s \in DOMAIN serde'[j] |-> Version(s, 1)]
        BY <4>4, <4>5 DEF SerdesAgree
      <4> QED BY <4>5, <4>6 DEF SerdesAgree
    <3>2. CASE r.subject \notin OrderSubject
      BY <1>4, <2>4, <3>2
    <3> QED BY <3>1, <3>2
  <2>6. \A n \in DOMAIN Script : n = step[i] => Fulfilled(i, Script[n])'
    BY <2>1, <2>3, <2>5 DEF Fulfilled
  <2>7. PastRequests' /\ RunningIsPast'
    BY <1>2, <2>1, <2>2, <2>3, <2>5, <2>6, PastStays
  <2> QED BY <2>3, <2>5, <2>7
<1>11. ASSUME NEW i \in Instance, CreateACLs(i) PROVE StartupInv'
  <2>1. /\ status[i] = "starting" /\ step[i] \in DOMAIN Script
        /\ Request(i) = Script[step[i]] /\ Request(i).do = "allow"
    BY <1>11, CurrentRequest DEF CreateACLs
  <2>2. serde' = serde /\ topics' = topics /\ subjects' = subjects /\ Proceed(i)
    BY <1>11 DEF CreateACLs
  <2>3. \A n \in DOMAIN Script : n = step[i] => Fulfilled(i, Script[n])'
    BY <2>1 DEF Fulfilled
  <2>4. PastRequests' /\ RunningIsPast'
    BY <1>2, <1>6, <2>1, <2>2, <2>3, PastStays
  <2> QED BY <1>4, <1>6, <2>2, <2>4
<1>12. ASSUME NEW i \in Instance, Run(i) \/ Restart(i) PROVE StartupInv'
  <2>1. serde' = serde /\ topics' = topics /\ subjects' = subjects /\ step' = step
    BY <1>12 DEF Run, Restart, clusterVars
  <2>2. /\ \A j \in Instance : j # i => status'[j] = status[j]
        /\ status'[i] = "running" => step[i] = Len(Script) + 1
    BY <1>12, ScriptShape DEF Run, Restart, TypeOK
  <2>3. PastRequests' /\ RunningIsPast'
    BY <1>6, <2>1, <2>2, PastStays
  <2> QED BY <1>4, <1>6, <2>1, <2>3
<1>13. ASSUME NEW i \in Instance, TopicAlreadyExists(i) \/ Crash(i) PROVE StartupInv'
  BY <1>9, <1>13 DEF TopicAlreadyExists, Crash, clusterVars
<1>14. ASSUME NEW i \in Instance, ReplyLost(i) PROVE StartupInv'
  <2>1. Exit(i)
    BY <1>14 DEF ReplyLost
  <2>2. CASE At(i, "reconcile") /\ Created(i) /\ UNCHANGED <<subjects, acls>>
    <3>1. DOMAIN topics \subseteq DOMAIN topics'
      BY <2>2, CreatedType
    <3>2. PastRequests' /\ RunningIsPast'
      BY <1>3, <1>6, <2>1, <2>2, <3>1, PastStays
    <3> QED BY <1>5, <1>6, <2>1, <2>2, <3>2
  <2>3. CASE At(i, "register") /\ Registered(i) /\ UNCHANGED <<topics, acls>>
    <3>1. Histories' /\ \A s \in Subject : ToSet(subjects[s]) \subseteq ToSet(subjects'[s])
      BY <2>3, RegisteredShape
    <3>2. PastRequests' /\ RunningIsPast'
      BY <1>3, <2>1, <2>3, <3>1, PastStays
    <3> QED BY <1>5, <2>1, <3>1, <3>2
  <2> QED BY <1>14, <2>2, <2>3 DEF ReplyLost
<1> QED BY <1>1, <1>7, <1>8, <1>10, <1>11, <1>12, <1>13, <1>14 DEF Next, Advance

LEMMA StartupInvariant == Spec => [](TypeOK /\ StartupInv)
<1> QED BY InitTypeOK, NextTypeOK, InitStartupInv, NextStartupInv, PTL DEF Spec

-----------------------------------------------------------------------------
(* The properties. *)

LEMMA ReadinessHolds == TypeOK /\ StartupInv => RunningIsReady
<1> SUFFICES ASSUME TypeOK, StartupInv, NEW i \in Instance, status[i] = "running"
             PROVE  /\ DOMAIN topics = Topic
                    /\ serde[i] = [s \in OrderSubject |-> Version(s, 1)]
                    /\ \A s \in OrderSubject : subjects[s] = <<"Order">>
  BY DEF RunningIsReady
<1>1. \A n \in DOMAIN Script : Fulfilled(i, Script[n])
  BY ScriptShape DEF StartupInv, PastRequests, RunningIsPast
<1>2. DOMAIN topics = Topic
  <2>1. Topic \subseteq DOMAIN topics
    BY <1>1, Subjects DEF Fulfilled
  <2> QED BY <2>1 DEF TypeOK
<1>3. ASSUME NEW s \in OrderSubject
      PROVE  s \in DOMAIN serde[i] /\ subjects[s] = <<"Order">>
  <2>1. PICK n \in DOMAIN Script : Script[n].do = "register" /\ Script[n].subject = s
    BY <1>3, Subjects
  <2>2. s \in DOMAIN serde[i] /\ Script[n].schema \in ToSet(subjects[s])
    BY <1>1, <2>1 DEF Fulfilled
  <2>3. subjects[s] \in {<<>>, <<"Order">>}
    <3>1. s \in Subject /\ s \notin CustomerSubject
      BY Subjects
    <3> QED BY <3>1 DEF StartupInv, Histories, History
  <2> QED BY <2>2, <2>3, ShortSequences
<1>4. serde[i] = [s \in OrderSubject |-> Version(s, 1)]
  <2>1. DOMAIN serde[i] = OrderSubject
    BY <1>3 DEF TypeOK
  <2> QED BY <2>1 DEF StartupInv, SerdesAgree
<1> QED BY <1>2, <1>3, <1>4

(* RunningIsReady: whoever runs finds its topics and encodes with the one  *)
(* version of the order schema (shop.go:68-97), for any number of          *)
(* processes, any interleaving of their requests and any failures.         *)
THEOREM Readiness == Spec => []RunningIsReady
<1> QED BY StartupInvariant, ReadinessHolds, PTL

(* ReferencesResolve: the versions the order schema references by number   *)
(* exist when it is registered and are the ones it means                   *)
(* (order_service.go:243-304, 316-373).                                    *)
THEOREM References == Spec => []ReferencesResolve
<1> QED BY StartupInvariant, ReferencesHold, PTL

LEMMA AppendIsLonger ==
  ASSUME NEW R, NEW q \in Seq(R), NEW x \in R
  PROVE  IsPrefix(q, q) /\ IsPrefix(q, Append(q, x))
BY AppendProperties, LenProperties DEF IsPrefix

LEMMA TopicsStay ==
  ASSUME TypeOK, [Next]_vars, NEW t \in DOMAIN topics
  PROVE  t \in DOMAIN topics' /\ topics'[t] = topics[t]
<1>1. ASSUME NEW i \in Instance, At(i, "reconcile"), Created(i),
             Request(i).topic \notin DOMAIN topics
      PROVE  t \in DOMAIN topics' /\ topics'[t] = topics[t]
  BY <1>1, CreatedType
<1>2. topics' = topics
      \/ \E i \in Instance : /\ At(i, "reconcile") /\ Created(i)
                              /\ Request(i).topic \notin DOMAIN topics
  BY DEF Next, Advance, ListTopics, CreateTopic, TopicAlreadyExists, RegisterSchema,
         CreateACLs, Run, Crash, ReplyLost, Restart, vars, clusterVars
<1> QED BY <1>1, <1>2

LEMMA SubjectsStay ==
  ASSUME TypeOK, StartupInv, [Next]_vars, NEW s \in Subject
  PROVE  IsPrefix(subjects[s], subjects'[s])
<1> DEFINE Schemas == {"CustomerV1", "CustomerV2", "Address", "Order"}
<1>1. subjects[s] \in Seq(Schemas)
  BY DEF TypeOK
<1>2. ASSUME NEW i \in Instance, At(i, "register"), Registered(i)
      PROVE  IsPrefix(subjects[s], subjects'[s])
  <2>1. \/ subjects'[s] = subjects[s]
        \/ subjects'[s] = Append(subjects[s], Request(i).schema)
    BY <1>2, RegisteredShape
  <2>2. Request(i).schema \in Schemas
    BY <1>2, CurrentRequest, ScriptShape, RequestKinds
  <2> HIDE DEF Schemas
  <2> QED BY <1>1, <2>1, <2>2, AppendIsLonger
<1>3. subjects' = subjects
      \/ \E i \in Instance : At(i, "register") /\ Registered(i)
  BY DEF Next, Advance, ListTopics, CreateTopic, TopicAlreadyExists, RegisterSchema,
         CreateACLs, Run, Crash, ReplyLost, Restart, vars, clusterVars
<1>4. CASE subjects' = subjects
  <2>1. IsPrefix(subjects[s], subjects[s])
    BY <1>1 DEF IsPrefix
  <2> QED BY <1>4, <2>1
<1> QED BY <1>2, <1>3, <1>4

(* ClusterOnlyGrows: no process takes a topic, its parameters or a schema  *)
(* version away from the others (reconcile_topic.go:26-44).                *)
THEOREM ClusterGrows == Spec => ClusterOnlyGrows
<1>1. TypeOK /\ StartupInv /\ [Next]_vars =>
        [/\ \A t \in DOMAIN topics : t \in DOMAIN topics' /\ topics'[t] = topics[t]
         /\ \A s \in Subject : IsPrefix(subjects[s], subjects'[s])]_vars
  BY TopicsStay, SubjectsStay
<1> QED BY <1>1, StartupInvariant, PTL DEF Spec, ClusterOnlyGrows

-----------------------------------------------------------------------------
(* Deployments.  ReconcileTopic compares no parameters of a topic it has,  *)
(* so processes with different ones all run on the topics of the first, as *)
(* startup_core shows; a topic with other ones than those of its reader    *)
(* was created by a process of another deployment, for there is no other   *)
(* origin.                                                                 *)

OneDeployment == \A i, j \in Instance : Params[i] = Params[j]

(* TopicsHaveGivenParameters: among processes that all give the same       *)
(* parameters each finds every topic it is past with its own, whoever      *)
(* created it and whatever failed meanwhile (reconcile_topic.go:11-46).    *)
THEOREM ParametersOfOneDeployment ==
  ASSUME OneDeployment
  PROVE  Spec => []TopicsHaveGivenParameters
<1>1. TypeOK /\ StartupInv => TopicsHaveGivenParameters
  <2> SUFFICES ASSUME TypeOK, StartupInv, NEW i \in Instance,
                      NEW n \in 1..(step[i] - 1), Script[n].do = "reconcile"
               PROVE  topics[Script[n].topic] = Params[i]
    BY DEF TopicsHaveGivenParameters
  <2>1. Script[n].topic \in DOMAIN topics
    BY DEF StartupInv, PastRequests, Fulfilled
  <2>2. PICK j \in Instance : topics[Script[n].topic] = Params[j]
    BY <2>1 DEF TypeOK
  <2> QED BY <2>2 DEF OneDeployment
<1> QED BY <1>1, StartupInvariant, PTL
=============================================================================
