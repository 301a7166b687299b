----------------------------- MODULE MCTraffic -----------------------------
(* Constant values for model checking Traffic. *)
EXTENDS Traffic, TLC

(* What is written for each option that the runs vary.                     *)
Texts(o) ==
  CASE o = "brokers"     -> {Word("b")}
    [] o = "mechanism"   -> {Word("SCRAM-SHA-512"), Word("GSSAPI"),
                             Word("OAUTHBEARER"), Empty}
    [] o = "address"     -> {Word("http"), Empty}
    [] o = "requestRate" -> {Number(0), Number(1), Word("many"), Empty}
    [] o = "interval"    -> {Empty}
    [] o = "tls"         -> {Word("true")}
    [] o = "partitions"  -> {Number(0), Number(6)}

Varied == {"mechanism", "address", "requestRate", "interval", "tls",
           "partitions"}

(* The brokers and SASL, which every deployment needs, and one option more *)
(* or none.                                                                *)
Base == "brokers" :> Word("b") @@ "sasl" :> Word("true")
OneMore == UNION {{o :> text : text \in Texts(o)} : o \in Varied}

Kerberos(authType) ==
  "mechanism" :> Word("GSSAPI") @@ "authType" :> Word(authType)

SecureRegistry ==
  "address" :> Word("https") @@ "registryTls" :> Word("true")

Files ==
  {<<>>, Base, Base @@ SecureRegistry, "traffic" :> Null}
  \cup {Base @@ Kerberos(a) : a \in {"USER_AUTH", "USER_AUTH:", "KEYTAB_AUTH"}}
  \cup {Base @@ f : f \in OneMore}
  \cup {Base @@ (o :> Null) : o \in Varied} \cup OneMore

Environments == {<<>>, Base, "unrelated" :> Word("x")}
  \cup {Base @@ e : e \in OneMore}
=============================================================================
