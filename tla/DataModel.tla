----------------------------- MODULE DataModel -----------------------------
(***************************************************************************)
(* The tag's Matter data model: the tables of default_zap/zap-generated,   *)
(* and what the Matter SDK looks up in them.  Clusters are named instead   *)
(* of numbered; the tables keep the header's order, because they refer to  *)
(* each other by index.  Indices count from 0 as in C, sequences from 1.   *)
(***************************************************************************)
EXTENDS Integers, Sequences, FiniteSetsExt

Times(n, x) == [i \in 1..n |-> x]

-----------------------------------------------------------------------------
(* Attributes: identifier, size in bytes, mask, default *)

External == {"external"}                 \* EXTERNAL_STORAGE
Writable == {"external", "writable"}
Nullable == {"nullable"}
ExternalNullable == {"external", "nullable"}
Internal == {}

Attribute(id, size, mask) == [id |-> id, size |-> size, mask |-> mask, value |-> 0]
Constant(id, size, value) == [id |-> id, size |-> size, mask |-> Internal, value |-> value]

FeatureMap == 65532
ClusterRevision == 65533
Globals == <<Attribute(FeatureMap, 4, External), Attribute(ClusterRevision, 2, External)>>
List(id) == Attribute(id, 0, External)

DescriptorAttributes == <<List(0), List(1), List(2), List(3)>> \o Globals
AccessControlAttributes ==
  <<Attribute(0, 0, Writable), Attribute(2, 2, External), Attribute(3, 2, External),
    Attribute(4, 2, External)>> \o Globals
BasicInformationAttributes ==
  <<Attribute(0, 2, External), Attribute(1, 33, External), Attribute(2, 2, External),
    Attribute(3, 33, External), Attribute(4, 2, External), Attribute(5, 33, Writable),
    Attribute(6, 3, Writable), Attribute(7, 2, External), Attribute(8, 65, External),
    Attribute(9, 4, External), Attribute(10, 65, External), Attribute(18, 33, External),
    List(19), Attribute(21, 4, External), Attribute(22, 2, External),
    Attribute(24, 4, External)>> \o Globals
OtaAttributes ==
  <<Attribute(0, 0, Writable), Constant(1, 1, 1), Constant(2, 1, 0), Attribute(3, 1, Nullable),
    Constant(FeatureMap, 4, 0), Constant(ClusterRevision, 2, 1)>>
LocalizationAttributes ==
  <<Attribute(0, 36, {"writable"}), List(1),
    Constant(FeatureMap, 4, 0), Attribute(ClusterRevision, 2, External)>>
GeneralCommissioningAttributes ==
  <<Attribute(0, 8, Writable), List(1), Attribute(2, 1, External),
    Attribute(3, 1, External), Attribute(4, 1, External)>> \o Globals
NetworkCommissioningAttributes ==
  <<Attribute(0, 1, External), List(1), Attribute(4, 1, Writable),
    Attribute(5, 1, ExternalNullable), Attribute(6, 33, ExternalNullable),
    Attribute(7, 4, ExternalNullable)>> \o Globals
GeneralDiagnosticsAttributes ==
  <<List(0), Attribute(1, 2, External), Attribute(2, 8, External),
    Attribute(8, 1, Internal)>> \o Globals
AdministratorCommissioningAttributes ==
  <<Attribute(0, 1, External), Attribute(1, 1, ExternalNullable),
    Attribute(2, 2, ExternalNullable), Constant(FeatureMap, 4, 0),
    Attribute(ClusterRevision, 2, External)>>
OperationalCredentialsAttributes ==
  <<List(0), List(1), Attribute(2, 1, External),
    Attribute(3, 1, External), List(4), Attribute(5, 1, External)>> \o Globals
GroupKeyManagementAttributes ==
  <<Attribute(0, 0, Writable), List(1), Attribute(2, 2, External),
    Attribute(3, 2, External)>> \o Globals
IdentifyAttributes ==
  <<Attribute(0, 2, Writable), Attribute(1, 1, External)>> \o Globals

MeasuredValue == 0
\* MeasuredValue, MinMeasuredValue, MaxMeasuredValue of either kind of measurement
MeasurementAttributes(revision) ==
  <<Attribute(MeasuredValue, 2, Nullable), Attribute(1, 2, Nullable), Attribute(2, 2, Nullable),
    Constant(FeatureMap, 4, 0), Constant(ClusterRevision, 2, revision)>>

Endpoint1Attributes == IdentifyAttributes \o DescriptorAttributes \o MeasurementAttributes(4)
Endpoint2Attributes == IdentifyAttributes \o DescriptorAttributes \o MeasurementAttributes(4)
Endpoint3Attributes == IdentifyAttributes \o DescriptorAttributes \o MeasurementAttributes(3)

GENERATED_ATTRIBUTES ==
  DescriptorAttributes \o AccessControlAttributes \o BasicInformationAttributes
    \o OtaAttributes \o LocalizationAttributes \o GeneralCommissioningAttributes
    \o NetworkCommissioningAttributes \o GeneralDiagnosticsAttributes
    \o AdministratorCommissioningAttributes \o OperationalCredentialsAttributes
    \o GroupKeyManagementAttributes
    \o Endpoint1Attributes \o Endpoint2Attributes \o Endpoint3Attributes

-----------------------------------------------------------------------------
(* Commands *)

EndOfList == -1
NoList == -1                             \* nullptr
IdentifyCommands == <<0, 64, EndOfList>>

GENERATED_COMMANDS ==
  <<0, 2, 4, EndOfList, 1, 3, 5, EndOfList>>                      \* General Commissioning
    \o <<0, 1, EndOfList, 2, EndOfList>>                          \* General Diagnostics
    \o <<0, 2, EndOfList>>                                        \* Administrator Commissioning
    \o <<0, 2, 4, 6, 7, 9, 10, 11, 12, 13, EndOfList>>            \* Operational Credentials
    \o <<1, 3, 5, 8, 14, EndOfList>>
    \o <<0, 1, 3, 4, EndOfList, 2, 5, EndOfList>>                 \* Group Key Management
    \o IdentifyCommands \o IdentifyCommands \o IdentifyCommands   \* endpoints 1, 2, 3

\* Mutant: the indices of the lists count from 1.
CommandsFromSecond(index) ==
  IF index = NoList THEN {}
  ELSE { GENERATED_COMMANDS[i] : i \in { j \in (index + 2)..Len(GENERATED_COMMANDS) :
           \A k \in (index + 2)..j : GENERATED_COMMANDS[k] # EndOfList } }

\* The commands of a list: everything from its index to the next end of a list.
CommandsFrom(index) ==
  IF index = NoList THEN {}
  ELSE { GENERATED_COMMANDS[i] : i \in { j \in (index + 1)..Len(GENERATED_COMMANDS) :
           \A k \in (index + 1)..j : GENERATED_COMMANDS[k] # EndOfList } }

\* The commands whose ..._ENABLE_..._CMD flag is 1
EnabledCommands(c) ==
  CASE c = "AdministratorCommissioning" -> {0, 2}
    [] c = "GeneralCommissioning"       -> {0, 2, 4}
    [] c = "GeneralDiagnostics"         -> {0, 1}
    [] c = "GroupKeyManagement"         -> {0, 1, 3, 4}
    [] c = "Identify"                   -> {0, 64}
    [] c = "OperationalCredentials"     -> {0, 2, 4, 6, 7, 9, 10, 11, 12, 13}
    [] OTHER                            -> {}

-----------------------------------------------------------------------------
(* Clusters and endpoints *)

\* The index of the first attribute, how many there are, the bytes they take,
\* and the indices of the two lists of commands
Cluster(id, attributes, count, size, accepted, generated) ==
  [id |-> id, attributes |-> attributes, count |-> count, size |-> size,
   accepted |-> accepted, generated |-> generated]

RootClusters ==
  << Cluster("Descriptor",                  0,  6,  0, NoList, NoList),
     Cluster("AccessControl",               6,  6,  0, NoList, NoList),
     Cluster("BasicInformation",           12, 18,  0, NoList, NoList),
     Cluster("OtaSoftwareUpdateRequestor", 30,  6,  9, NoList, NoList),
     Cluster("LocalizationConfiguration",  36,  4, 40, NoList, NoList),
     Cluster("GeneralCommissioning",       40,  7,  0,      0,      4),
     Cluster("NetworkCommissioning",       47,  8,  0, NoList, NoList),
     Cluster("GeneralDiagnostics",         55,  6,  1,      8,     11),
     Cluster("AdministratorCommissioning", 61,  5,  4,     13, NoList),
     Cluster("OperationalCredentials",     66,  8,  0,     16,     27),
     Cluster("GroupKeyManagement",         74,  6,  0,     33,     38) >>

SensorClusters ==
  << Cluster("Identify",                    80, 4,  0,     41, NoList),
     Cluster("Descriptor",                  84, 6,  0, NoList, NoList),
     Cluster("TemperatureMeasurement",      90, 5, 12, NoList, NoList),
     Cluster("Identify",                    95, 4,  0,     44, NoList),
     Cluster("Descriptor",                  99, 6,  0, NoList, NoList),
     Cluster("TemperatureMeasurement",     105, 5, 12, NoList, NoList),
     Cluster("Identify",                   110, 4,  0,     47, NoList),
     Cluster("Descriptor",                 114, 6,  0, NoList, NoList),
     Cluster("RelativeHumidityMeasurement", 120, 5, 12, NoList, NoList) >>

GENERATED_CLUSTERS == RootClusters \o SensorClusters

FIXED_ENDPOINT_COUNT == 4
Endpoints == 0..(FIXED_ENDPOINT_COUNT - 1)   \* FIXED_ENDPOINT_ARRAY, FIXED_ENDPOINT_TYPES
ATTRIBUTE_MAX_SIZE == 90

\* Mutant: the root endpoint's size does not count the OTA attributes.
RootTooSmall(e) ==
  <<[clusters |-> 0, count |-> 11, size |-> 45], [clusters |-> 11, count |-> 3, size |-> 12],
    [clusters |-> 14, count |-> 3, size |-> 12], [clusters |-> 17, count |-> 3, size |-> 12]>>[e + 1]

\* GENERATED_ENDPOINT_TYPES: first cluster, how many there are, the bytes they take
EndpointType(e) ==
  <<[clusters |-> 0, count |-> 11, size |-> 54], [clusters |-> 11, count |-> 3, size |-> 12],
    [clusters |-> 14, count |-> 3, size |-> 12], [clusters |-> 17, count |-> 3, size |-> 12]>>[e + 1]

ClustersOf(e) ==
  [k \in 1..EndpointType(e).count |-> GENERATED_CLUSTERS[EndpointType(e).clusters + k]]
AttributesOf(cluster) ==
  [k \in 1..cluster.count |-> GENERATED_ATTRIBUTES[cluster.attributes + k]]

\* MATTER_DM_..._CLUSTER_SERVER_ENDPOINT_COUNT
ServerEndpointCount(c) ==
  CASE c = "Descriptor" -> 4
    [] c = "Identify" -> 3
    [] c = "TemperatureMeasurement" -> 2
    [] c \in {"AccessControl", "BasicInformation", "OtaSoftwareUpdateRequestor",
              "LocalizationConfiguration", "GeneralCommissioning", "NetworkCommissioning",
              "GeneralDiagnostics", "AdministratorCommissioning", "OperationalCredentials",
              "GroupKeyManagement", "RelativeHumidityMeasurement"} -> 1
    [] OTHER -> 0

-----------------------------------------------------------------------------
(* Where an attribute is stored: the SDK adds up what comes before it *)

Stored(a) == IF "external" \in a.mask THEN 0 ELSE a.size

\* The sums of the first 0, 1, ... n of n numbers
SumsOf(numbers, n) ==
  LET sum[i \in 0..n] == IF i = 0 THEN 0 ELSE sum[i - 1] + numbers[i] IN sum

Offset(e, k, j) ==
  LET endpoints == [d \in 1..FIXED_ENDPOINT_COUNT |-> EndpointType(d - 1).size]
      clusters == [i \in DOMAIN ClustersOf(e) |-> ClustersOf(e)[i].size]
      cluster == ClustersOf(e)[k]
      attributes == [i \in 1..cluster.count |-> Stored(AttributesOf(cluster)[i])]
  IN  SumsOf(endpoints, FIXED_ENDPOINT_COUNT)[e]
        + SumsOf(clusters, EndpointType(e).count)[k - 1]
        + SumsOf(attributes, cluster.count)[j - 1]

\* Every attribute that has bytes of its own, and where they are
StoredAttributes ==
  UNION { UNION { { [endpoint |-> e, cluster |-> ClustersOf(e)[k].id,
                     attribute |-> AttributesOf(ClustersOf(e)[k])[j], at |-> Offset(e, k, j)]
                    : j \in { i \in DOMAIN AttributesOf(ClustersOf(e)[k]) :
                              Stored(AttributesOf(ClustersOf(e)[k])[i]) > 0 } }
                  : k \in DOMAIN ClustersOf(e) } : e \in Endpoints }

-----------------------------------------------------------------------------
(* Privileges: three parallel arrays for each kind of access *)

Privileges == <<"view", "operate", "manage", "administer">>
Rank(p) == CHOOSE i \in DOMAIN Privileges : Privileges[i] = p
Grants(held, required) == Rank(held) >= Rank(required)

\* What the arrays require of an access that none of their entries names is `otherwise'.
Required(clusters, ids, privileges, c, id, otherwise) ==
  LET found == { i \in DOMAIN clusters : clusters[i] = c /\ ids[i] = id }
  IN  IF found = {} THEN otherwise ELSE privileges[Min(found)]

WRITE_CLUSTER ==
  <<"AccessControl", "BasicInformation", "BasicInformation", "OtaSoftwareUpdateRequestor",
    "LocalizationConfiguration", "GeneralCommissioning", "NetworkCommissioning",
    "GroupKeyManagement">>
WRITE_ATTRIBUTE == <<0, 5, 6, 0, 0, 0, 4, 0>>
WRITE_PRIVILEGE ==
  <<"administer", "manage", "administer", "administer", "manage", "administer", "administer",
    "manage">>

READ_CLUSTER ==
  <<"AccessControl">> \o Times(5, "NetworkCommissioning") \o <<"OperationalCredentials">>
READ_WITH_VIEW_ENTRY == <<0, 0, 0, 1, 4, 5, 6>>      \* mutant
READ_ATTRIBUTE == <<0, 0, 1, 5, 6, 7, 0>>
READ_PRIVILEGE == Times(7, "administer")

INVOKE_CLUSTER ==
  Times(2, "Identify") \o Times(3, "GeneralCommissioning") \o <<"GeneralDiagnostics">>
    \o Times(2, "AdministratorCommissioning") \o Times(10, "OperationalCredentials")
    \o Times(4, "GroupKeyManagement")
INVOKE_COMMAND ==
  <<0, 64>> \o <<0, 2, 4>> \o <<0>> \o <<0, 2>> \o <<0, 2, 4, 6, 7, 9, 10, 11, 12, 13>>
    \o <<0, 1, 3, 4>>

INVOKE_PRIVILEGE == Times(2, "manage") \o Times(3, "administer") \o <<"manage">> \o Times(16, "administer")

ReadRequires(c, a) == Required(READ_CLUSTER, READ_ATTRIBUTE, READ_PRIVILEGE, c, a, "view")
WriteRequires(c, a) == Required(WRITE_CLUSTER, WRITE_ATTRIBUTE, WRITE_PRIVILEGE, c, a, "operate")
InvokeRequires(c, i) == Required(INVOKE_CLUSTER, INVOKE_COMMAND, INVOKE_PRIVILEGE, c, i, "operate")

-----------------------------------------------------------------------------
(* Which clusters the generated callbacks know *)

CodeDriven ==
  {"Identify", "Descriptor", "AccessControl", "BasicInformation", "LocalizationConfiguration",
   "GeneralCommissioning", "GeneralDiagnostics", "AdministratorCommissioning",
   "OperationalCredentials", "GroupKeyManagement"}

NotShutDown == CodeDriven \ {"Descriptor"}      \* mutant
NoGroupKeys == CodeDriven \ {"GroupKeyManagement"}      \* mutant

\* MatterClusterServerInitCallback, MatterClusterServerShutdownCallback
InitCallback == CodeDriven
ShutdownCallback == CodeDriven

\* emberAfClusterInitCallback; what it calls does nothing unless the SDK has more.
EmberInitCallback ==
  CodeDriven \cup {"NetworkCommissioning", "OtaSoftwareUpdateRequestor",
                   "RelativeHumidityMeasurement", "TemperatureMeasurement"}

\* MATTER_PLUGINS_INIT
PluginsInit ==
  <<"Identify", "Descriptor", "AccessControl", "BasicInformation",
    "OtaSoftwareUpdateRequestor", "LocalizationConfiguration", "GeneralCommissioning",
    "NetworkCommissioning", "GeneralDiagnostics", "AdministratorCommissioning",
    "OperationalCredentials", "GroupKeyManagement", "TemperatureMeasurement",
    "RelativeHumidityMeasurement">>
=============================================================================
