-------------------------- MODULE AdapterProperties --------------------------
(***************************************************************************)
(* How the properties of a connection, an input or an output become the    *)
(* configuration of a client, a subscription or a publication, and what    *)
(* these make of it: the options of the MQTT library's connect, the topic  *)
(* filters that messages are matched against, the topic and QoS written.   *)
(*                                                                         *)
(* A text is [is, value]: a number, a word, a name, or a list of pieces    *)
(* (what stands between two semicolons; a URI is a sequence beginning with *)
(* its scheme, a topic filter a sequence of levels, and <<>> is empty).    *)
(* Fields are named after the property that is documented to set them.     *)
(***************************************************************************)
EXTENDS TopicFilter, Integers, SequencesExt

CONSTANTS
  Settings,      (* <<object, properties>>: what may be configured         *)
  Second,        (* nanoseconds in a second                                *)
  IntMax         (* INT_MAX                                                *)

ASSUME UnitsAssumption == Second \in Nat \ {0} /\ IntMax \in Nat

(* A number is an integer, and a list has at least one piece; the pieces   *)
(* of a topics property are filters, or <<>> for an empty one.             *)
ASSUME SettingsAssumption ==
  \A setting \in Settings :
    /\ setting[1] \in {"connection", "input", "output"}
    /\ \A p \in DOMAIN setting[2] :
         LET text == setting[2][p] IN
         /\ text.is = "number" => text.value \in Int
         /\ setting[1] = "input" /\ p = "topics" =>
              /\ text.value \in Seq(Seq(Seq(Characters)))
              /\ text.value # <<>>
              /\ \A n \in DOMAIN text.value : text.value[n] # <<<<>>>>

VARIABLES
  object,        (* "connection", "input" or "output"                      *)
  properties,    (* from the names of the properties given to their texts  *)
  stage,         (* "given", then "parsed" or "refused", then what became  *)
                 (* of it: "made" or "failed"                              *)
  looked,        (* how many properties have been looked up                *)
  config,        (* from fields to values                                  *)
  told           (* the options of connect                                 *)

configVars == <<object, properties, stage, looked, config, told>>
allVars == <<filterVars, configVars>>

-----------------------------------------------------------------------------
(* Reading a text.  A number is read with strtol, which makes zero of any  *)
(* other text; a list may not be the empty text, because the outcome of    *)
(* set_length is mistaken for a return code, and the piece after a last    *)
(* semicolon is none.                                                      *)
Words == [
  boolean     |-> {"true", "false"},
  protocol    |-> {"default", "3.1", "3.1.1", "5"},
  tls         |-> {"default", "1.0", "1.1", "1.2"},
  persistence |-> {"none", "durable"},
  qos         |-> {"0", "1", "2"}]

Readable(reads, text) ==
  CASE reads = "list" -> text.value # <<<<>>>>
    [] reads \in DOMAIN Words -> text.value \in Words[reads]
    [] OTHER -> TRUE

Pieces(pieces) == IF Last(pieces) = <<>> THEN Front(pieces) ELSE pieces

Read(reads, text) ==
  CASE reads = "number" -> IF text.is = "number" THEN text.value ELSE 0
    [] reads = "list" -> Pieces(text.value)
    [] OTHER -> text.value

-----------------------------------------------------------------------------
(* The properties that each parser looks up, in order.                     *)
ClientProperties == <<
  "id", "protocol_version", "servers", "connection_timeout.sec",
  "connection_timeout.nanosec", "max_connection_retries", "keep_alive_period.sec",
  "keep_alive_period.nanosec", "clean_session", "unsubscribe_on_disconnect",
  "max_reply_timeout.sec", "max_reply_timeout.nanosec", "reconnect",
  "max_unack_messages", "persistence", "persistence_storage" >>

Credentials == <<"username", "password">>

SslProperties == <<
  "ssl.ca", "ssl.id", "ssl.key", "ssl.key_password", "ssl.cypher suites",
  "ssl.protocol_version", "ssl.verify_server_certificate" >>

SubscriptionProperties == <<"topics", "max_qos", "queue_size">>

PublicationProperties == <<
  "topic", "qos", "retained", "use_message_info", "max_wait_time.sec",
  "max_wait_time.nanosec" >>

Looked == [connection |-> ClientProperties \o Credentials \o SslProperties,
           input      |-> SubscriptionProperties,
           output     |-> PublicationProperties]

(* How each of them is read. *)
Reads(p) ==
  CASE p \in {"servers", "topics"} -> "list"
    [] p \in {"connection_timeout.sec", "connection_timeout.nanosec",
              "keep_alive_period.sec", "keep_alive_period.nanosec",
              "max_reply_timeout.sec", "max_reply_timeout.nanosec",
              "max_wait_time.sec", "max_wait_time.nanosec",
              "max_connection_retries", "max_unack_messages", "queue_size"} -> "number"
    [] p \in {"clean_session", "unsubscribe_on_disconnect", "reconnect", "retained",
              "use_message_info", "ssl.verify_server_certificate"} -> "boolean"
    [] p \in {"qos", "max_qos"} -> "qos"
    [] p = "protocol_version" -> "protocol"
    [] p = "ssl.protocol_version" -> "tls"
    [] p = "persistence" -> "persistence"
    [] OTHER -> "name"

(* Both parts of the keep-alive period are stored in the connection        *)
(* timeout.                                                                *)
AllTimesConfused(p) ==
  IF p \in {"keep_alive_period.sec", "max_reply_timeout.sec"} THEN "connection_timeout.sec" ELSE p
Field(p) ==
  CASE p = "keep_alive_period.sec" -> "connection_timeout.sec"
    [] p = "keep_alive_period.nanosec" -> "connection_timeout.nanosec"
    [] OTHER -> p

None == "none"

ClientDefault ==
  [f \in ToSet(Looked.connection) |->
     CASE f = "servers" -> <<>>
       [] f \in {"connection_timeout.sec", "keep_alive_period.sec",
                 "max_connection_retries", "max_unack_messages"} -> 10
       [] f = "max_reply_timeout.sec" -> 3
       [] f \in {"connection_timeout.nanosec", "keep_alive_period.nanosec",
                 "max_reply_timeout.nanosec"} -> 0
       [] f \in {"unsubscribe_on_disconnect", "reconnect",
                 "ssl.verify_server_certificate"} -> "true"
       [] f = "clean_session" -> "false"
       [] f \in {"protocol_version", "ssl.protocol_version"} -> "default"
       [] OTHER -> None]

SubscriptionDefault ==
  [topics |-> <<>>, max_qos |-> "2", queue_size |-> 0]

PublicationDefault ==
  [f \in ToSet(PublicationProperties) |->
     CASE f = "qos" -> "0"
       [] f \in {"retained", "use_message_info"} -> "false"
       [] f = "max_wait_time.sec" -> 10
       [] f = "max_wait_time.nanosec" -> 0
       [] OTHER -> None]

Default == [connection |-> ClientDefault,
            input      |-> SubscriptionDefault,
            output     |-> PublicationDefault]

(* A client gets a configuration for SSL if one of its servers asks for    *)
(* it, or one of the properties does.                                      *)
UsesSsl(c) ==
  \/ \E n \in DOMAIN c["servers"] : c["servers"][n] # <<>> /\ c["servers"][n][1] = "ssl"
  \/ ToSet(SslProperties) \cap DOMAIN properties # {}

-----------------------------------------------------------------------------
ConfigInit ==
  /\ \E setting \in Settings : object = setting[1] /\ properties = setting[2]
  /\ stage = "given" /\ looked = 0 /\ config = Default[object] /\ told = <<>>
  /\ filters = <<>> /\ verdict = "none"
  /\ trying = 1 /\ f_i = Start /\ v_i = Start
  /\ IF object = "input" THEN topic \in Topics ELSE topic = <<>>

(* RTI_RS_MQTT_lookup_property: the next property, if it was given, is     *)
(* stored in the configuration; one that cannot be read refuses them all.  *)
lookup_property ==
  /\ stage = "given" /\ looked < Len(Looked[object])
  /\ looked' = looked + 1
  /\ LET p == Looked[object][looked + 1] IN
     \/ p \notin DOMAIN properties /\ UNCHANGED <<stage, config>>
     \/ /\ p \in DOMAIN properties /\ ~Readable(Reads(p), properties[p])
        /\ stage' = "refused" /\ UNCHANGED config
     \/ /\ p \in DOMAIN properties /\ Readable(Reads(p), properties[p])
        /\ config' = [config EXCEPT ![Field(p)] = Read(Reads(p), properties[p])]
        /\ UNCHANGED stage
  /\ UNCHANGED <<filterVars, object, properties, told>>

parse_from_properties ==
  /\ stage = "given" /\ looked = Len(Looked[object])
  /\ stage' = "parsed"
  /\ UNCHANGED <<filterVars, object, properties, looked, config, told>>

-----------------------------------------------------------------------------
(* A time in whole seconds.  Nanoseconds of a second or more are refused   *)
(* unless the seconds are so many that adding them would overflow: the     *)
(* test is the wrong way round, and compares without sign.                 *)
Time(sec, nanosec) == [seconds |-> config[sec], nanoseconds |-> config[nanosec]]
keep_alive_period == Time("keep_alive_period.sec", "keep_alive_period.nanosec")
connect_timeout == Time("connection_timeout.sec", "connection_timeout.nanosec")
Carry(t) == t.nanoseconds \div Second
NotNormalized(t) == Carry(t) > 0 /\ t.seconds >= 0 /\ IntMax - Carry(t) > t.seconds
Time_to_seconds(t) == t.seconds + Carry(t)

ConnectOptions == [
  keepAliveInterval |-> Time_to_seconds(keep_alive_period),
  connectTimeout    |-> Time_to_seconds(connect_timeout),
  ssl               |-> UsesSsl(config)]

(* The client is created with the first of its servers, and with its id.   *)
CannotCreate ==
  \/ config["servers"] = <<>>
  \/ config["servers"][1] = <<>>
  \/ config["id"] \in {None, ""}

CannotConnect ==
  \/ CannotCreate
  \/ NotNormalized(keep_alive_period) \/ NotNormalized(connect_timeout)
  \/ config["protocol_version"] = "5"

connect ==
  /\ object = "connection" /\ stage = "parsed"
  /\ IF CannotConnect THEN stage' = "failed" /\ UNCHANGED told
                      ELSE stage' = "made" /\ told' = ConnectOptions
  /\ UNCHANGED <<filterVars, object, properties, looked, config>>

(* The string of an empty piece is a filter of one empty level. *)
Subscription_new ==
  /\ object = "input" /\ stage = "parsed"
  /\ stage' = "made"
  /\ filters' = [n \in DOMAIN config.topics |->
                   IF config.topics[n] = <<>> THEN <<<<>>>> ELSE config.topics[n]]
  /\ UNCHANGED <<topic, trying, f_i, v_i, verdict, object, properties, looked, config, told>>

(* A publication needs a topic unless each message brings its own.         *)
InvalidPublication == config["use_message_info"] = "false" /\ config["topic"] \in {None, ""}

Publication_new ==
  /\ object = "output" /\ stage = "parsed"
  /\ stage' = IF InvalidPublication THEN "failed" ELSE "made"
  /\ UNCHANGED <<filterVars, object, properties, looked, config, told>>

MessageArrives ==
  object = "input" /\ stage = "made" /\ Subscription_match /\ UNCHANGED configVars

ConfigNext == lookup_property \/ parse_from_properties \/ connect \/ Subscription_new
                \/ Publication_new \/ MessageArrives

ConfigSpec == ConfigInit /\ [][ConfigNext]_allVars

-----------------------------------------------------------------------------
KeepAlive == {"keep_alive_period.sec", "keep_alive_period.nanosec"}
Timeout == {"connection_timeout.sec", "connection_timeout.nanosec"}
Confused == IF KeepAlive \cap DOMAIN properties = {} THEN {} ELSE KeepAlive \cup Timeout

(* These have another default than the one that is documented. *)
DefaultInDoubt ==
  {"unsubscribe_on_disconnect", "max_reply_timeout.sec", "ssl.cypher suites"}

FieldsAreAsSet ==
  \A f \in ToSet(Looked[object]) \ Confused :
    /\ f \in DOMAIN properties => config[f] = Read(Reads(f), properties[f])
    /\ f \notin DOMAIN properties \cup DefaultInDoubt => config[f] = Default[object][f]

WholeSeconds(t) == (t.seconds * Second + t.nanoseconds) \div Second
LibraryIsTold ==
  /\ told.keepAliveInterval = WholeSeconds(keep_alive_period)
  /\ told.connectTimeout = WholeSeconds(connect_timeout)

(* Each piece of the list is a filter, in its place, and the piece after a *)
(* last semicolon is none.                                                 *)
FiltersAreListed(listed) ==
  /\ DOMAIN filters \subseteq DOMAIN listed
  /\ \A n \in DOMAIN listed :
       listed[n] # <<>> => n \in DOMAIN filters /\ filters[n] = listed[n]
  /\ \A n \in DOMAIN filters : filters[n] = <<<<>>>> => listed[n] = <<>>

(* What the user sets takes effect, alone and among other properties, what *)
(* is not set keeps its default, the times that reach the library are      *)
(* whole seconds of the configuration's, and a subscription filters by the *)
(* topics that its property lists, in their order.  Nothing is claimed of  *)
(* what the code does otherwise than the README documents: of either time  *)
(* when the keep-alive period is set (the parser stores it in the          *)
(* connection timeout) and of the three defaults in doubt.                 *)
PropertiesTakeEffect ==
  /\ stage \in {"parsed", "made", "failed"} => FieldsAreAsSet
  /\ object = "connection" /\ stage = "made" => LibraryIsTold
  /\ object = "input" /\ stage = "made" =>
       FiltersAreListed(IF "topics" \in DOMAIN properties
                        THEN properties["topics"].value ELSE <<>>)
===============================================================================
